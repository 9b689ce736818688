------------------------------ MODULE Explorers ------------------------------
(***************************************************************************)
(* The seven explorers of core/discovery/explorers: what each may be asked *)
(* for (its technical goals), which goals it declares unfit for the cache, *)
(* its tools, what a tool may answer, and how a request becomes a plan.  A *)
(* step of a plan is the name of a tool, or Semantic: a question put to    *)
(* the model about what was gathered so far.                               *)
(*                                                                         *)
(* An outcome is Ok or Failed when the tool answers with a "success" key,  *)
(* Seen or Unseen when it answers in the "result" dialect of the internal  *)
(* tools, without a "success" key.                                         *)
(***************************************************************************)
EXTENDS Naturals, Sequences, FiniteSets, SequencesExt

CONSTANTS
  MaxPlan,       \* longest plan the model of an explorer drafts
  Inventory      \* the targets the data providers list

ASSUME PlanBound == MaxPlan \in Nat

Semantic == "semantic"
Outcomes == {"Ok", "Failed", "Seen", "Unseen"}
Keyed    == {"Ok", "Failed"}

\* The goals of each explorer: fixed ones, and those it declares free, whose
\* result depends on the words of the question and may not be cached.
RegistryGoals == [free |-> {}, fixed |->
  {"list_keys", "describe_value", "describe_type", "inspect_value", "check_value",
   "summarize", "analyze_value"}]
FactsGoals == [free |-> {"search_facts"}, fixed |->
  {"list_facts", "get_user_profile", "get_preferences"}]
HistoryGoals == [free |-> {"search_history"}, fixed |->
  {"get_recent_history", "get_history_by_turns", "list_history", "get_history"}]
SkillsGoals == [free |-> {"search_skills_by_keyword"}, fixed |->
  {"list_skills", "get_skill_manifest", "get_skill_parameters", "get_skill_meta_plan"}]
FilesGoals == [free |-> {"search_asset", "analyze_asset", "search_definitions"}, fixed |->
  {"read_asset_head", "read_asset_tail", "read_asset_slice", "get_asset_summary",
   "inspect_asset", "list_symbols", "list_functions", "count_functions",
   "extract_symbol", "extract_function"}]
MissionsGoals == [free |-> {"analyze_registry", "analyze_execution_tree"}, fixed |->
  {"list_missions", "get_mission_summary", "get_mission_details",
   "get_execution_tree_outline", "get_failed_steps", "get_step_details",
   "get_sub_mission_tree", "inspect_step_output", "search_missions_by_keyword"}]
WorldGoals == [free |-> {"inspect_state", "locate_target", "verify_effect"}, fixed |-> {}]

Goals ==
  [registry |-> RegistryGoals, facts |-> FactsGoals, history |-> HistoryGoals,
   skills |-> SkillsGoals, files |-> FilesGoals, missions |-> MissionsGoals,
   world |-> WorldGoals]
Kinds == DOMAIN Goals

\* The tools of each explorer.
RegistryTools == {"list_keys", "describe_value", "inspect_value", "analyze_value"}
FactsTools    == {"list_facts", "get_user_profile", "get_preferences", "search_facts"}
HistoryTools  == {"get_recent_history", "get_history_by_turns", "search_history"}
SkillsTools   == {"list_skills", "get_skill_manifest", "get_skill_parameters",
                  "get_skill_meta_plan", "search_skills_by_keyword"}
FilesTools    == {"read_asset_head", "read_asset_tail", "read_asset_slice",
                  "inspect_asset", "list_symbols", "search_asset", "analyze_asset",
                  "extract_symbol", "search_definitions"}
MissionsTools == {"list_missions", "get_mission_summary", "get_mission_details",
                  "get_execution_tree_outline", "get_failed_steps", "get_step_details",
                  "get_sub_mission_tree", "inspect_step_output",
                  "search_missions_by_keyword", "analyze_registry",
                  "analyze_execution_tree"}
WorldTools    == {"sense"}

Tools ==
  [registry |-> RegistryTools, facts |-> FactsTools, history |-> HistoryTools,
   skills |-> SkillsTools, files |-> FilesTools, missions |-> MissionsTools,
   world |-> WorldTools]

\* What a tool of each explorer may answer; an exception is caught and
\* answered as a failure.
RegistryAnswers(tool) ==
  [list_keys |-> {"Ok"}, describe_value |-> {"Ok", "Failed"},
   inspect_value |-> {"Ok", "Failed"}, analyze_value |-> {"Seen", "Unseen", "Failed"}][tool]
FactsAnswers(tool)    == {"Ok", "Failed"}
HistoryAnswers(tool)  == {"Ok", "Failed"}
SkillsAnswers(tool)   == {"Ok", "Failed"}
FilesAnswers(tool)    == {"Ok", "Failed"}
MissionsAnswers(tool) == {"Ok", "Failed"}
WorldAnswers(tool)    == {"Seen", "Unseen"}

Answers(kind, tool) ==
  CASE kind = "registry" -> RegistryAnswers(tool)
    [] kind = "facts"    -> FactsAnswers(tool)
    [] kind = "history"  -> HistoryAnswers(tool)
    [] kind = "skills"   -> SkillsAnswers(tool)
    [] kind = "files"    -> FilesAnswers(tool)
    [] kind = "missions" -> MissionsAnswers(tool)
    [] kind = "world"    -> WorldAnswers(tool)

\* A plan drafted by the model: any steps the explorer knows, even none.
Drafts(kind) == BoundedSeq(Tools[kind] \cup {Semantic}, MaxPlan)
AllGoals(kind) == Goals[kind].fixed \cup Goals[kind].free

\* The plans an explorer may make of a request; no plan at all when it raises.
RegistryPlans(goal, target) ==
  IF goal \in AllGoals("registry") /\ target \in Inventory THEN Drafts("registry") ELSE {}
FactsPlans(goal, target) == IF goal \in AllGoals("facts") THEN Drafts("facts") ELSE {}
HistoryPlans(goal, target) == IF goal \in AllGoals("history") THEN Drafts("history") ELSE {}
MissionsPlans(goal, target) ==
  IF goal \in AllGoals("missions") THEN Drafts("missions") ELSE {}
SkillsPlans(goal, target) ==
  (Drafts("skills") \ {<< >>}) \cup
  {<< IF goal \in Tools["skills"] THEN goal ELSE "list_skills" >>}
WorldPlans(goal, target) == {<<"sense", Semantic>>}

FilesTool(goal) ==
  IF goal \in {"list_symbols", "list_functions", "count_functions"} THEN "list_symbols"
  ELSE IF goal \in {"extract_symbol", "extract_function"} THEN "extract_symbol"
  ELSE IF goal \in {"analyze_asset", "analyze", "summarize"} THEN "analyze_asset"
  ELSE IF goal \in AllGoals("files") THEN goal      \* get_asset_summary names no tool
  ELSE "inspect_asset"
FilesPlans(goal, target) == {<< FilesTool(goal) >>}

Plans(kind, goal, target) ==
  CASE kind = "registry" -> RegistryPlans(goal, target)
    [] kind = "facts"    -> FactsPlans(goal, target)
    [] kind = "history"  -> HistoryPlans(goal, target)
    [] kind = "skills"   -> SkillsPlans(goal, target)
    [] kind = "files"    -> FilesPlans(goal, target)
    [] kind = "missions" -> MissionsPlans(goal, target)
    [] kind = "world"    -> WorldPlans(goal, target)

\* An explorer that may be asked the same thing twice in a row.
AllowsSuccessiveCalls(kind) == kind \in {"files", "world"}

\* Only facts and skills are checked against the targets of the provider when
\* the discovery starts (the registry checked its own while planning).
ValidTarget(kind, target) == kind \in {"facts", "skills"} => target \in Inventory

\* The history explorer has several names for its recent messages.
HistoryGoal(goal) ==
  IF goal \in {"list_history", "get_history"} THEN "get_recent_history" ELSE goal

\* The key of an answer: kind, target and goal, never the question.  The world
\* has one live target.
Signature(kind, target, goal) ==
  << kind,
     IF kind = "world" THEN "live" ELSE target,
     IF kind = "history" THEN HistoryGoal(goal) ELSE goal >>
==============================================================================
