CONSTANTS
  Policies <- MCPolicies
  Demands <- MCDemands
  QuantileMaps <- MCQuantileMaps
  Prevs <- MCPrevs
SPECIFICATION Spec
INVARIANTS
  TypeOK
  Bounded
  Monotone
PROPERTIES
  RateLimited
CHECK_DEADLOCK FALSE
