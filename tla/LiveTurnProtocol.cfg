SPECIFICATION FairSpec
CONSTANTS
  Turns = {t1, t2}
  MaxCalls = 2
  MaxAttempts = 1
  MaxOrders = 1
  None = None
PROPERTIES
  AudibleTurnsEnd
  ImplementsTickets
CHECK_DEADLOCK FALSE
