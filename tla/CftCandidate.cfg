CONSTANTS
  Producer = {p1, p2, p3}
  Rank <- MCRank
  MaxTerm = 1
  MaxElections = 2
  MaxBlocks = 1
  MaxRestarts = 0
  AnyRestart = FALSE
  Live = {p1, p2}
  None = None
SPECIFICATION Spec
INVARIANTS
  CommittedWhenQuiet
CHECK_DEADLOCK FALSE
