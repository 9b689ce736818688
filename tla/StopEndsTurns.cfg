SPECIFICATION FairSpec
CONSTANTS
  Turns = {t1}
  MaxCalls = 2
  MaxAttempts = 1
  MaxOrders = 1
  None = None
PROPERTIES
  StopEndsTurns
CHECK_DEADLOCK FALSE
