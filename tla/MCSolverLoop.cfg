SPECIFICATION FairSpec
CONSTANTS
  Tools = {t1}
  Symptoms = {s1}
  MaxMaterial = 1
  MaxTries = 3
  MaxExtensions = 1
  MaxRejections = 2
  SickAfter = 3
INVARIANTS
  TypeOK
  BudgetHolds
  SuccessIsProven
PROPERTIES
  NoAttemptAfterDoom
  AttemptsAreSettled
  ExtensionsAreEarned
  RunEnds
CHECK_DEADLOCK FALSE
