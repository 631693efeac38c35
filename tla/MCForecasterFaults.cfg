CONSTANTS
  Names = {w1}
  Loops = {l1, l2, l3}
  None = None
  Policies <- FixedPolicy
  Forecasts <- High
  Plan <- MCPlan
  MaxTime = 2
  Faulty = TRUE
SPECIFICATION Spec
INVARIANTS
  TypeOK
  OneLiveLoop
  NothingGeneratedAfterStop
PROPERTIES
  OnlyReplacedLoopsRegress
  QuietAfterRun
SYMMETRY LoopSymmetry
CHECK_DEADLOCK FALSE
