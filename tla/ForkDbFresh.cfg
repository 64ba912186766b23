SPECIFICATION Spec
CONSTANTS
  Block <- MCBlock
  Num <- MCNum
  Term <- MCTerm
  Chain <- MCChain
  Root = 1
  Valid = {1, 2, 3, 4, 6, 8, 9, 10}
  Own = {9, 10}
  Confirmable = {3, 7, 8, 9}
  RootRevision = {}
  MaxTerm = 2
  MaxRestarts = 1
  None = None
INVARIANTS
  PendingOnHead
PROPERTIES
  RestartKeepsIrreversible
CHECK_DEADLOCK FALSE
