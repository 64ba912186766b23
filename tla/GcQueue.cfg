SPECIFICATION FairSpec
CONSTANTS
  Session = {s1, s2}
  User = {u1}
  Collector = gc
  None = None
  QueueSize = 3
  Word = 256
  MaxCalls = 3
  Preempted = FALSE
INVARIANTS
  
  
  OneWaitBit
PROPERTIES
  
  PushReturns
  CollectorStops
CHECK_DEADLOCK FALSE
