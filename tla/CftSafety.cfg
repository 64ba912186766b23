CONSTANTS
  Producer = {p1, p2, p3}
  MaxElections = 2
  Rank <- MCRank
  MaxTerm = 2
  MaxBlocks = 3
  MaxRestarts = 1
  AnyRestart = FALSE
  Live = {}
  None = None
SPECIFICATION Spec
SYMMETRY Symmetry
INVARIANTS
  ElectionSafety
  Agreement
  LeaderCompleteness
  NoConsensusFailure
  OneChainPerTerm
CHECK_DEADLOCK FALSE
