CONSTANTS
  None = None
  Plans <- MCPlans
  StepSeconds = {0, 1}
  Second = 2
  LeadTime = 3
  StaleAfter = 4
  MaxTime = 7
SPECIFICATION FairSpec
INVARIANTS
  TypeOK
  ActiveIffFresh
  PresentCovered
PROPERTIES
  CallsEnd
