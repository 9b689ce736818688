----------------------------- MODULE MCDiscovery -----------------------------
(* Small instances of Discovery. *)
EXTENDS Discovery

CONSTANTS c1, c2

\* A goal whose plan the model drafts, two whose plan is fixed, one of them
\* with a tool that does not exist, a target that is gone, and a free goal,
\* which may be asked twice in a row and whose plan the ceiling cuts short.
Everything ==
  { <<"history", "recent", "get_history">>,
    <<"files", "report", "list_symbols">>,
    <<"files", "report", "get_asset_summary">>,
    <<"skills", "gone", "list_skills">>,
    <<"world", "this_world", "inspect_state">> }
==============================================================================
