CONSTANTS
  p1 = p1
  p2 = p2
  p3 = p3
  Producer <- MCProducer
  Quorum <- MCQuorum
  Leader <- MCLeader
  Term = {0, 1}
  Id = {0, 1}
  MaxBlocks = 2
SPECIFICATION Spec
INVARIANTS
  OnePreparedChain
  CommittedIsFinal
  Agreement
  VerifyCommit
CHECK_DEADLOCK FALSE
