CONSTANTS
  Producer = {p1, p2, p3}
  Rank <- MCRank
  MaxTerm = 1
  MaxElections = 2
  MaxBlocks = 2
  MaxRestarts = 1
  AnyRestart = TRUE
  Live = {}
  None = None
SPECIFICATION Spec
INVARIANTS
  Agreement
CHECK_DEADLOCK FALSE
