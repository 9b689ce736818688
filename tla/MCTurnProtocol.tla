--------------------------- MODULE MCTurnProtocol ---------------------------
(* Instances of TurnProtocol for TLC: two requests, with the turns as model  *)
(* values; the turns are interchangeable, so safety runs use symmetry.       *)
EXTENDS TurnProtocol, TLC

Symmetry == Permutations(Turns)
=============================================================================
