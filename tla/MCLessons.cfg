SPECIFICATION Spec
CONSTANTS
  Missions = {a}
  Teaches <- OneRescued
  Subjects = {"planner", "likes"}
  Facts = {"likes"}
  Texts = {"x"}
  Models = {m1}
  Dim <- Alike
  Historic = m1
  Fallback = m1
  Tasks = {k1, k2}
  MinEvidence = 2
  MaxRows = 3
  MaxActs = 1
  a = a
  k1 = k1
  k2 = k2
  m1 = m1
  m2 = m2
  None = None
SYMMETRY Either
INVARIANTS
  TypeOK
  AnalyzedMeansTaught
  FiledLessonsHaveHeirs
CHECK_DEADLOCK FALSE
