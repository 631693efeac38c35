SPECIFICATION MCSpec
CONSTANTS
  Bad = Bad
  Loads = {0, 6}
  Names = {"api"}
  MaxTicks = 3
  Configs <- MCConfigs
  RangeAnswers <- MCRangeAnswers
  HTTPAnswers <- MCHTTPAnswers
  Jobs <- MCJobs
INVARIANT
  RowsAreTheAnswer
  SnapshotFits
  ContinuesLastTraining
  SeasonLagsByCarry
  PanicsOnlyWithoutResiduals
  BacktestAligned
PROPERTY
  DriftIsBounded
CHECK_DEADLOCK FALSE
