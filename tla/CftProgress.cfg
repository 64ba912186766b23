CONSTANTS
  Producer = {p1, p2, p3}
  Rank <- MCRank
  MaxTerm = 2
  MaxElections = 2
  MaxBlocks = 2
  MaxRestarts = 0
  AnyRestart = FALSE
  Live = {p1, p2, p3}
  None = None
SPECIFICATION FairSpec
INVARIANTS
  CommittedWhenQuiet
PROPERTIES
  LeaderCommits
CHECK_DEADLOCK FALSE
