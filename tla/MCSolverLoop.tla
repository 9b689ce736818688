---------------------------- MODULE MCSolverLoop ----------------------------
(* SolverLoop for TLC: the configurations give it one tool, whose failures may *)
(* alternate with failures of no tool, and small budgets.                     *)
EXTENDS SolverLoop
=============================================================================
