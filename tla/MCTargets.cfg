SPECIFICATION Spec
CONSTANTS
  None = None
  w1 = w1
  w2 = w2
  t1 = t1
  t2 = t2
  n1 = n1
  n2 = n2
  n3 = n3
  n4 = n4
  n5 = n5
  r1 = r1
  r2 = r2
  r3 = r3
  Tools <- ToolNames
  Declared <- Manifest
  Names = {n1, n2, n3, n4, n5}
  Corrs = {t1, t2}
  Refs = {r1, r2, r3}
  Scopes = {"ui"}
  Workers = {w1, w2}
  Plan <- Branches
  Aliases = {"a"}
  Utilities = {"pick"}
  Home <- Homes
  KindOf <- OneKind
  Plain = {}
  Changes = 2
  MaxPurges = 1
  ProbeBudget = 1
SYMMETRY OwnPlaces
CHECK_DEADLOCK FALSE
INVARIANTS RegistrySound FreshestReportWins RemovalsAreNews
PROPERTY ActsOnTheChosen
