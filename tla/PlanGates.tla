------------------------------ MODULE PlanGates ------------------------------
(***************************************************************************)
(* The static checks a plan passes before it runs, as operators on plans.    *)
(* Two components read the same plan: the planner checks what it has just    *)
(* written against the registry of variables (core/planner.py,               *)
(* _validate_plan), and the supervisor's gate checks it again, against the   *)
(* host's tools and target contracts (core/plan_validator.py).               *)
(*                                                                           *)
(* A plan is a sequence of steps.  Names of steps and of variables share one *)
(* space, as the code's registry has it: a reference $@_bool_x is            *)
(* Ref("bool", "x"), whatever x names.                                       *)
(***************************************************************************)
EXTENDS Integers, Sequences, FiniteSets

CONSTANTS
  Known,       \* tool names of the host's manifest and of the runtime
  Perception,  \* those that the manifest marks as perception
  Single,      \* tools whose contract produces one target
  Candidates,  \* tools whose contract produces candidates
  Consumers    \* tools whose contract has a required target parameter

None == "none"

Flavours == {"bool", "data", "bare"}

Ref(flavour, root) == [flavour |-> flavour, root |-> root]

\* A condition compares one reference with a literal.
Always        == [ref |-> Ref("bare", None), want |-> None]
When(r, want) == [ref |-> r, want |-> want]

\* A value that stands for itself.
Raw == Ref("bare", "raw value")

MetaTools == {"perceive_understand", "perceive_action"}
Reserved  == {"human_validation"}
ReadOnly  == {"perceive_understand", "llm_analyze_data", "llm_analyze_multi_data",
              "extract_json_value", "load_literal_data", "investigate", "tool_manager"}

\* Names of tools: what the planner writes, and the runtime's own.
ToolNames == STRING \cup MetaTools

Refs == [flavour : Flavours, root : STRING]

\* A step.  args: references in its arguments, or in the text of an answer;
\* aim: what fills the target parameter (a reference, a raw value or nothing);
\* source and producer: the tools a meta-tool reads through and binds with;
\* out: output_variable_name; alias: output_target_name; deed: what its
\* description says, up to the comparison the consent makes.
StepRecord ==
  [id : STRING, type : {"tool_call", "direct_answer", "abstract_task"}, tool : ToolNames,
   source : ToolNames, producer : ToolNames, readable : BOOLEAN, args : SUBSET Refs,
   aim : Refs, cond : [ref : Refs, want : STRING], out : STRING, tells : {"bool", "data"},
   alias : STRING, expected : {"unset", "true", "false", "any"},
   crucial : BOOLEAN, risky : BOOLEAN, changes : BOOLEAN, deed : STRING]

IsTool(s)   == s.type = "tool_call"
IsAnswer(s) == s.type = "direct_answer"
IsMeta(s)   == s.tool \in MetaTools
Steps(p)    == DOMAIN p

PureAnswer(p) == Len(p) > 0 /\ \A i \in Steps(p) : IsAnswer(p[i])

-----------------------------------------------------------------------------
(* What a plan reads and what it makes.                                      *)

\* The text of an answer and the brief of a subtask are prose: what they
\* mention is interpolated, but the gates only warn about it.
ArgReads(s)  == IF IsTool(s) THEN s.args \cup ({s.aim} \ {Raw, Always.ref}) ELSE {}
CondReads(s) == {s.cond.ref} \ {Always.ref}
ExecutableReads(s) == ArgReads(s) \cup CondReads(s)
Reads(s)     == s.args \cup ExecutableReads(s)

Both(root) == {Ref("bool", root), Ref("data", root)}

OutNames(s)   == IF s.out = None THEN {} ELSE Both(s.out)
AliasNames(s) == IF s.alias = None THEN {} ELSE {Ref("bare", s.alias)}
BareOut(s)    == IF s.out = None THEN {} ELSE {Ref("bare", s.out)}

\* The names the planner takes as produced by a step.
Makes(s) == (IF IsAnswer(s) THEN {} ELSE Both(s.id))
            \cup OutNames(s) \cup BareOut(s) \cup AliasNames(s)

\* The names the gate takes as produced by a step: any step, not the bare
\* name of its output.
Declares(s) == Both(s.id) \cup OutNames(s) \cup AliasNames(s)

\* A variable of the registry stands for both of its flavours.
Symmetric(names) == names \cup UNION {Both(r.root) : r \in {n \in names : n.flavour # "bare"}}

Earlier(p, i) == {p[j] : j \in 1..(i - 1)}

\* A slip: a step may read what a later step makes.
PlannerKnowsAll(p, i, names) == Symmetric(names) \cup UNION {Makes(p[j]) : j \in Steps(p)}

PlannerKnows(p, i, names) == Symmetric(names) \cup UNION {Makes(s) : s \in Earlier(p, i)}

\* _check_var: the name itself, or its bare root.
Available(r, known) == r \in known \/ Ref("bare", r.root) \in known

-----------------------------------------------------------------------------
(* Problems both gates see.                                                  *)

DuplicateIds(p) == {p[i].id : i \in {k \in Steps(p) :
                      \E j \in Steps(p) : j # k /\ p[j].id = p[k].id}}

Unreadable(p) == {i \in Steps(p) : ~p[i].readable}

-----------------------------------------------------------------------------
(* Targets: find_target_plan_problems.                                       *)

Contracted == Single \cup Candidates \cup Consumers
Producing(tool) == tool \in Single \cup Candidates

\* The tool that really produces the target of a step.
ProducerOf(s) == IF ~IsMeta(s) THEN s.tool
                 ELSE IF s.producer # None THEN s.producer ELSE s.source

ProducesTarget(s) ==
  IF IsMeta(s) THEN \/ ProducerOf(s) \in Candidates
                    \/ s.producer # None /\ Producing(s.producer)
  ELSE s.tool \in Single

\* A meta-tool wraps candidates, a single producer is called directly; the
\* composite flow names a source of candidates and a producer that consumes.
MisplacedProducer(s) ==
  IF IsMeta(s)
  THEN \/ s.producer = None /\ s.source \in Single
       \/ /\ s.producer # None /\ s.source # None
          /\ ~(Producing(s.source) /\ s.producer \in Consumers)
  ELSE s.tool \in Candidates

BadAlias(p, i) ==
  /\ p[i].alias # None
  /\ \/ Contracted = {}
     \/ \E j \in Steps(p) : j # i /\ p[j].alias = p[i].alias
     \/ \E j \in Steps(p) : p[j].out = p[i].alias
     \/ ~ProducesTarget(p[i])

SeenAliases(p, i) == UNION {AliasNames(s) : s \in Earlier(p, i)}
AllAliases(p)     == UNION {AliasNames(p[j]) : j \in Steps(p)}

\* A target's name outside a target parameter, or before it is produced.
StrayAlias(p, i) ==
  \/ IsTool(p[i]) /\ p[i].args \cap SeenAliases(p, i) # {}
  \/ ArgReads(p[i]) \cap (AllAliases(p) \ SeenAliases(p, i)) # {}

ConsumesTarget(s) ==
  IF IsMeta(s) THEN s.source \in Consumers \/ s.producer \in Consumers
  ELSE s.tool \in Consumers

UnaimedConsumer(s) == ConsumesTarget(s) /\ s.aim \in {Raw, Always.ref}

TargetProblems(p) ==
  {i \in Steps(p) : \/ MisplacedProducer(p[i])
                    \/ BadAlias(p, i)
                    \/ StrayAlias(p, i)
                    \/ UnaimedConsumer(p[i])}

-----------------------------------------------------------------------------
(* The planner's own check.                                                  *)

UnknownReads(p, names) ==
  {i \in Steps(p) : \E r \in ExecutableReads(p[i]) : ~Available(r, PlannerKnows(p, i, names))}

\* A target under a name that is known already.
ClashingAlias(p, names) ==
  {i \in Steps(p) : /\ p[i].alias # None
                    /\ Ref("bare", p[i].alias) \in PlannerKnows(p, i, names) \cup BareOut(p[i])}

PlannerAdmits(p, names) ==
  /\ Len(p) > 0
  /\ DuplicateIds(p) = {} /\ Unreadable(p) = {}
  /\ UnknownReads(p, names) = {} /\ ClashingAlias(p, names) = {}
  /\ TargetProblems(p) = {}

-----------------------------------------------------------------------------
(* The supervisor's deterministic gate.                                      *)

UnknownTools(p)  == {i \in Steps(p) : IsTool(p[i]) /\ p[i].tool \notin Known}
ReservedTools(p) == {i \in Steps(p) : IsTool(p[i]) /\ p[i].tool \in Reserved}

\* Arguments only: a condition is not looked at, nor is the registry.
UnresolvedReads(p) ==
  {i \in Steps(p) : /\ IsTool(p[i])
                    /\ \E r \in ArgReads(p[i]) : r \notin UNION {Declares(s) : s \in Earlier(p, i)}}

DirectPerception(p) == {i \in Steps(p) : IsTool(p[i]) /\ p[i].tool \in Perception}

BadSources(p) ==
  {i \in Steps(p) : /\ p[i].tool = "perceive_understand"
                    /\ \/ p[i].producer # None /\ p[i].producer \notin Known
                       \/ p[i].source # None /\ p[i].source \notin Known}

\* A delegation to tool_manager that names its tool and not its arguments.
IncompleteDelegation(p) ==
  {i \in Steps(p) : p[i].tool = "tool_manager" /\ p[i].source # None /\ p[i].args = {}}

\* What only the repair of direct perceptions may find.
BeyondRepair(p) ==
  UnknownTools(p) \cup Unreadable(p) \cup ReservedTools(p) \cup BadSources(p)

GateAdmits(p) ==
  /\ BeyondRepair(p) = {} /\ DuplicateIds(p) = {}
  /\ UnresolvedReads(p) = {} /\ DirectPerception(p) = {}
  /\ IncompleteDelegation(p) = {} /\ TargetProblems(p) = {}

Repairable(p) == BeyondRepair(p) = {} /\ DirectPerception(p) # {}

\* repair_direct_perception_calls: the call is wrapped in perceive_understand.
Repaired(p) ==
  [i \in Steps(p) |-> IF i \in DirectPerception(p)
                      THEN [p[i] EXCEPT !.tool = "perceive_understand", !.source = p[i].tool]
                      ELSE p[i]]

-----------------------------------------------------------------------------
(* Signals that never refuse: the judge and the final verification get them. *)

Perceives(s)   == IsTool(s) /\ s.tool \in Perception \cup MetaTools
ReadLater(p, i) == \E j \in (i + 1)..Len(p) :
                      Reads(p[j]) \cap (Both(p[i].id) \cup OutNames(p[i])) # {}

UnreadPerceptions(p) == {i \in Steps(p) : Perceives(p[i]) /\ ~ReadLater(p, i)}

UnreadAny(p) == {i \in Steps(p) : /\ IsTool(p[i]) /\ ~Perceives(p[i])
                                  /\ p[i].expected = "any" /\ ~ReadLater(p, i)}

MechanicalCriteria(p) ==
  {i \in Steps(p) : Perceives(p[i]) /\ p[i].expected \in {"true", "false", "any"}}

WithoutAction(p) == \A i \in Steps(p) : IsTool(p[i]) => p[i].tool \in ReadOnly
=============================================================================
