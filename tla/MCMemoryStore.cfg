SPECIFICATION FairSpec
CONSTANTS
  None = None
  Workloads = {"web"}
  Puts = {p1, p2}
  WorkloadOf <- MCWorkloadOf
  Readers = {r1}
  Removed = {"web"}
  Stoppers = {s1, s2}
  TTLs = {0, 1}
  MaxTime = 2
INVARIANT StopSafe
PROPERTIES ImplementsStore StopsReturn StaleRemoved
