CONSTANTS
  Names = {w1}
  Loops = {l1, l2}
  None = None
  Policies <- FixedPolicy
  Forecasts <- High
  Plan <- MCPlan
  MaxTime = 1
  Faulty = FALSE
SPECIFICATION Spec
INVARIANTS
  RemovedHasNoSnapshot
CHECK_DEADLOCK FALSE
