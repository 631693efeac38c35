CONSTANTS
  Names = {w1}
  Loops = {l1, l2}
  None = None
  Policies <- FromZeroPolicy
  Forecasts <- EmptyLowHigh
  Plan <- TabledPlan
  MaxTime = 0
  Faulty = FALSE
SPECIFICATION FairSpec
PROPERTIES
  SameLoopRate
  CancelledLoopsEnd
  RunEnds
  CurrentHasLastWord
CHECK_DEADLOCK FALSE
