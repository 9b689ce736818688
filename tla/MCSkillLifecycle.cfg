SPECIFICATION Spec
CONSTANTS
  Missions = {m1, m2}
  MaxVersions = 3
  MaxHostActs = 1
  Discovery = 2
  ShadowNeed = 1
  MismatchNeed = 2
  BreakerMax = 2
  EngineBreaker = 3
  MaxRepairs = 1
SYMMETRY MissionsSymmetric
INVARIANTS
  TypeOK
  PointerServes
  LoneProduction
  RepairsBounded
  VerdictsApplied
PROPERTIES
  DeadStayDead
CHECK_DEADLOCK FALSE
