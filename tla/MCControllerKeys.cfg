CONSTANTS
  None = None
  Policies <- OneKey
  Sources <- OneKeySources
  Configs = {"c1"}
  BadConfigs = {}
  Specs <- OneKeySpecs
  MaxUid = 1
  MaxGen = 1
  MaxRestarts = 0
  Faulty = FALSE
SPECIFICATION Spec
INVARIANTS
  LoopForEachPolicy
