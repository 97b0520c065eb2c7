CONSTANTS
  Threads = {t1, t2, t3}
  MaxCalls = 2
SPECIFICATION FairSpec
INVARIANTS
  IInv
  NoExecUnderSambaHandler
PROPERTIES
  ImplementsModeLock
  RequestsServed
CHECK_DEADLOCK FALSE
