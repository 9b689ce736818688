------------------------------ MODULE MCLessons ------------------------------
(* Small instances of Lessons: one subject to learn about and one for facts,  *)
(* and embedding models whose vectors are of one length.                      *)
EXTENDS Lessons, TLC

CONSTANTS a, k1, k2, m1, m2

OneRescued == (a :> <<"avoid", "prefer">>)
Alike  == [m \in Models |-> 384]
Either == Permutations(Tasks)
==============================================================================
