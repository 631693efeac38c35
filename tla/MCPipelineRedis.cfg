SPECIFICATION MCSpec
CONSTANTS
  Bad = Bad
  Loads = {0, 6}
  Names = {"api"}
  MaxTicks = 3
  Configs <- MCRedisConfigs
  RangeAnswers <- MCRangeAnswers
  HTTPAnswers <- MCHTTPAnswers
  Jobs <- MCJobs
INVARIANT
  SnapshotCanBeStored
CHECK_DEADLOCK FALSE
