CONSTANTS
  None = None
  Policies <- OnePolicy
  Sources <- OneSource
  Configs = {"c1", "bad"}
  BadConfigs = {"bad"}
  Specs <- GoodOrInvalid
  MaxUid = 2
  MaxGen = 2
  MaxRestarts = 1
  Faulty = TRUE
SPECIFICATION Spec
INVARIANTS
  TypeOK
  NoLostUpdate
  ReadyIsReconciled
  NeverForgotten
