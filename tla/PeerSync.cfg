SPECIFICATION FairSpec
CONSTANTS
  Node = {1, 2}
  Parent <- Tree
  Starts <- Pairs
  Committable = {4}
  MaxObtain = 2
  MaxLinks = 2
  LateHello = FALSE
INVARIANTS
  ReferencesStayValid
  OneSendFork
  PeerHasIt
  NoGap
  
PROPERTIES
  Converge
CHECK_DEADLOCK FALSE
