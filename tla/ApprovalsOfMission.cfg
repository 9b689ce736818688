SPECIFICATION Spec
CONSTANTS
  Turns = {t1, t2}
  MaxCalls = 1
  MaxAttempts = 1
  MaxOrders = 0
  None = None
INVARIANTS
  ApprovalsBelongToTheirMission
CHECK_DEADLOCK FALSE
