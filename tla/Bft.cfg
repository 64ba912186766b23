CONSTANTS
  N = 2
  Up = {0, 1}
  MaxTerm = 1
  MaxBlocks = 2
  MaxRestarts = 1
SPECIFICATION FairSpec
INVARIANTS
  
  
  BestIsPrepared
  CommitsReported
  

  
CHECK_DEADLOCK FALSE
