SPECIFICATION Spec
CONSTANTS
  Known = {"act", "look", "aim", "click", "perceive_understand"}
  Perception = {"look"}
  Single = {"aim"}
  Candidates = {"look"}
  Consumers = {"click"}
  Plans <- ThePlans
  Touchy = {"act"}
  LongestPlan = 3
  MaxAttempts = 2
  Contents = {"yes"}
INVARIANTS
  TypeOK
  ReadsPreferTheAttempt
  UnboundOnlyIfUnmade
  CrucialStepsSucceeded
  ChildrenCredited
  InheritedConsentWasGiven
  WarningsAreCurrent
CHECK_DEADLOCK FALSE
