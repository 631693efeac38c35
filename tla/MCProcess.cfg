SPECIFICATION FairSpec
CONSTANTS
  Workloads = {"web"}
  Puts = {p1, p2}
  WorkloadOf <- MCWorkloadOf
  Readers = {r1}
  None = None
  TTL = 1
  MaxTries = 2
  MaxTime = 1
INVARIANTS TypeOK HandlersSeeOpenStore
PROPERTIES ImplementsStore LoopStoresInOrder ShutdownEnds OperatorFailureEndsLoops
CHECK_DEADLOCK FALSE
