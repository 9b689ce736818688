-------------------------- MODULE MCSkillLifecycle --------------------------
(* SkillLifecycle for TLC: overlapping missions are interchangeable.          *)
EXTENDS SkillLifecycle, TLC

MissionsSymmetric == Permutations(Missions)
=============================================================================
