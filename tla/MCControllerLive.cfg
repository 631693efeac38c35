CONSTANTS
  None = None
  Policies <- OnePolicy
  Sources <- OneSource
  Configs = {"c1"}
  BadConfigs = {}
  Specs <- TwoVersions
  MaxUid = 2
  MaxGen = 2
  MaxRestarts = 0
  Faulty = FALSE
SPECIFICATION FairSpec
PROPERTIES
  Converges
