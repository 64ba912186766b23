SPECIFICATION FairSpec
CONSTANTS
  Block <- MCBlock
  Num <- MCNum
  Term <- MCTerm
  Chain <- MCChain
  Root = 1
  Valid = {1, 2, 3, 4, 6, 8, 9, 10}
  Own = {9, 10}
  Confirmable = {3, 6, 9}
  RootRevision = {1}
  MaxTerm = 2
  MaxRestarts = 1
  None = None
INVARIANTS
  IrreversibleOnChain
  
  OrderIndexIsSubtree
  InvalidIsInherited
  StatesConnected
  CommitCannotFail
  DiskHeadIsHead
PROPERTIES
  SwitchTerminates
  ImplementsDurableChain
CHECK_DEADLOCK FALSE
