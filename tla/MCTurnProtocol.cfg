SPECIFICATION Spec
CONSTANTS
  Turns = {t1, t2}
  MaxCalls = 3
  MaxAttempts = 1
  MaxOrders = 2
  None = None
SYMMETRY Symmetry
INVARIANTS
  TypeOK
  
  
  PendingIsExact
  AudibleWaitsAreAsked
CHECK_DEADLOCK FALSE
