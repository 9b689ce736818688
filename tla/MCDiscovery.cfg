SPECIFICATION FairSpec
CONSTANTS
  c1 = c1
  c2 = c2
  Callers = {c1, c2}
  MaxPlan = 1
  Inventory = {"report"}
  Offers <- Everything
  LoopLimit = 3
  StepLimit = 1
  MaxEntries = 1
INVARIANTS FailuresStayPrivate CacheStaysBounded
PROPERTY CallsGetAnswers
