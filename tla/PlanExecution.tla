---------------------------- MODULE PlanExecution ----------------------------
(***************************************************************************)
(* The execution of an accepted plan (core/executor.py, execute_plan): its   *)
(* steps in order, conditions and skips, calls and their one retry, child    *)
(* solvers, convergence, and the registry of variables that the attempts of  *)
(* one solver share.                                                         *)
(*                                                                           *)
(* A key of the registry is a flavour, a root and a serial number: steps get *)
(* a new serial in every attempt (make_step_id), the outputs a plan names    *)
(* have none.  A reference gives a flavour and a root; which attempt's value *)
(* it reads is the choice of _find_var_in_registry.                          *)
(***************************************************************************)
EXTENDS PlanReview

CONSTANT Contents  \* what a tool or a subtask may answer

VARIABLES
  registry,  \* key -> [value, tag: attempt_no or 0, wrote: history, the attempt]
  rum,       \* mission_rum: the crucial variables, as registry keys
  step,      \* index of the step in hand
  at,        \* where its execution is suspended
  status,    \* of each step's node
  reported,  \* skipped_crucial_ids
  trail,     \* whether a perception has left an output to prove with
  returned,  \* history: steps whose child solver came back
  credits,   \* history: verdicts given to the child of each step
  fit,       \* history: the last call of the step answered what was expected
  cancel     \* runtime_state.cancel_requested

execVars == <<registry, rum, step, at, status, reported, trail, returned, credits, fit, cancel>>
vars     == <<reviewVars, execVars>>

Positions == {"none", "head", "before", "call", "recall", "child", "judge", "after"}
Statuses  == {"pending", "success", "failed", "skipped"}
Flags     == {"true", "false"}

Key(flavour, root, serial) == [flavour |-> flavour, root |-> root, serial |-> serial]
NoKey == Key("bare", None, 0)

\* Serials grow from attempt to attempt; only their order is read.
SerialIn(n, i) == (LongestPlan + 1) * n + i
SerialOf(i)    == SerialIn(attempt, i)

S == plan[step]

Init ==
  /\ ReviewInit
  /\ registry = << >> /\ rum = {}
  /\ step = 0 /\ at = "none" /\ status = << >>
  /\ reported = {} /\ trail = FALSE /\ returned = {} /\ credits = << >>
  /\ fit = FALSE /\ cancel = FALSE

-----------------------------------------------------------------------------
(* Reading.                                                                  *)

Holds == DOMAIN registry

SameFlavour(r, k) == r.flavour = k.flavour \/ r.flavour = "bare" \/ k.flavour = "bare"

Fuzzy(r) == {k \in Holds : k.root = r.root /\ SameFlavour(r, k)}

Current(k) == registry[k].tag = attempt

\* Entries of the current attempt first, then the greatest serial.
Fresher(a, b) == \/ Current(a) /\ ~Current(b)
                 \/ (Current(a) <=> Current(b)) /\ a.serial >= b.serial

\* A slip: the first entry that fits, as before the fuzzy search had ranks.
FirstFound(r) ==
  IF Key(r.flavour, r.root, 0) \in Holds THEN Key(r.flavour, r.root, 0)
  ELSE IF Fuzzy(r) = {} THEN NoKey
  ELSE CHOOSE k \in Fuzzy(r) : \A other \in Fuzzy(r) : k.serial <= other.serial

\* _find_var_in_registry.  A bare name also stands for a named flavour.
Find(r) ==
  LET exact == {Key(f, r.root, 0) : f \in {r.flavour} \cup
                  (IF r.flavour = "bare" THEN {"bool", "data"} ELSE {})} \cap Holds
  IN IF Key(r.flavour, r.root, 0) \in exact THEN Key(r.flavour, r.root, 0)
     ELSE IF Key("bool", r.root, 0) \in exact THEN Key("bool", r.root, 0)
     ELSE IF exact # {} THEN CHOOSE k \in exact : TRUE
     ELSE IF Fuzzy(r) = {} THEN NoKey
     ELSE CHOOSE k \in Fuzzy(r) : \A other \in Fuzzy(r) : Fresher(k, other)

Bound(r) == Find(r) # NoKey

Conditional(s) == s.cond # Always

\* An unknown name is left in the text, which then does not parse.
Broken(s) == Conditional(s) /\ ~Bound(s.cond.ref)
Met(s)    == Conditional(s) => registry[Find(s.cond.ref)].value = s.cond.want

-----------------------------------------------------------------------------
(* Writing.                                                                  *)

Entry(value, tag) == [value |-> value, tag |-> tag, wrote |-> attempt]

With(reg, keys, entry) ==
  [k \in DOMAIN reg \cup keys |-> IF k \in keys THEN entry ELSE reg[k]]

OwnKey(flavour) == Key(flavour, S.id, SerialOf(step))

Outs(flavour) == IF S.out = None THEN {} ELSE {Key(flavour, S.out, 0)}

\* output_variable_name as the plan has it, one flavour only.
OutKey == IF S.out = None THEN {} ELSE {Key(S.tells, S.out, 0)}

\* _propagate_crucial_variable: the named output if there is one.
Promoted == IF ~S.crucial THEN {}
            ELSE IF S.out # None THEN Outs("bool") \cup Outs("data")
            ELSE {OwnKey("bool"), OwnKey("data")}

Tagged(reg, keys) ==
  [k \in DOMAIN reg |-> IF k \in keys THEN [reg[k] EXCEPT !.tag = attempt] ELSE reg[k]]

\* The status is not marked with the attempt, the data is; a promotion marks.
Produced(flag, value, tag) ==
  Tagged(With(With(registry, {OwnKey("bool")} \cup Outs("bool"), Entry(flag, 0)),
              {OwnKey("data")} \cup Outs("data"), Entry(value, tag)),
         Promoted)

Keep(keys) == rum' = rum \cup (keys \cap DOMAIN registry')

-----------------------------------------------------------------------------
(* The ends of a step and of the plan.                                       *)

Quiet == UNCHANGED <<policy, consents, shown>>

\* A slip: the child of a step that fails is not told.
CreditSuccessOnly(ok) ==
  credits' = IF step \in returned' /\ ok THEN [credits EXCEPT ![step] = Append(@, ok)]
             ELSE credits

\* _credit_abstract_child: no child, nothing to do.
Credit(ok) ==
  credits' = IF step \in returned' THEN [credits EXCEPT ![step] = Append(@, ok)] ELSE credits

\* The plan fails with this step: the solver's next attempt.
PlanFails ==
  /\ status' = [status EXCEPT ![step] = "failed"]
  /\ Credit(FALSE)
  /\ at' = "none" /\ NextAttempt
  /\ UNCHANGED <<step, reported>>

\* USER_CANCELLED: the solver ends.
PlanStops ==
  /\ status' = [status EXCEPT ![step] = "failed"]
  /\ Credit(FALSE)
  /\ at' = "none" /\ phase' = "over"
  /\ UNCHANGED <<step, reported, attempt, plan, sensitive, basis>>

OnwardFrom(s, position) ==
  /\ step' = s + 1 /\ at' = position
  /\ UNCHANGED <<phase, attempt, plan, sensitive, basis>>

WaitsBefore(s) == s.tool \in Perception \cup {"perceive_understand"}

\* Waits follow actions and precede readings.
StepSucceeds ==
  /\ status' = [status EXCEPT ![step] = "success"]
  /\ Credit(TRUE)
  /\ IF IsTool(S) /\ ~WaitsBefore(S)
     THEN at' = "after" /\ UNCHANGED <<step, phase, attempt, plan, sensitive, basis>>
     ELSE OnwardFrom(step, "head")
  /\ UNCHANGED reported

-----------------------------------------------------------------------------
(* The head of a step.                                                       *)

Start ==
  /\ phase = "accepted"
  /\ phase' = "run" /\ step' = 1 /\ at' = "head"
  /\ status' = [i \in Steps(plan) |-> "pending"]
  /\ credits' = [i \in Steps(plan) |-> << >>]
  /\ sensitive' = {} /\ basis' = "none"
  /\ UNCHANGED <<policy, attempt, plan, consents, notes, shown, registry, rum, reported,
                 trail, returned, fit, cancel>>

AtHead == phase = "run" /\ at = "head" /\ step <= Len(plan)

StoppedAtHead ==
  /\ AtHead /\ cancel
  /\ phase' = "over" /\ at' = "none"
  /\ Quiet
  /\ UNCHANGED <<attempt, plan, sensitive, basis, notes, registry, rum, step, status,
                 reported, trail, returned, credits, fit, cancel>>

\* A slip: only a skip is reported.
UnreportedIfBroken == reported

Reported == IF S.crucial THEN reported \cup {step} ELSE reported
ReportedIfBroken == Reported

\* The step fails, the plan goes on.
ConditionBroken ==
  /\ AtHead /\ ~cancel /\ Broken(S)
  /\ status' = [status EXCEPT ![step] = "failed"]
  /\ reported' = ReportedIfBroken
  /\ OnwardFrom(step, "head")
  /\ Quiet
  /\ UNCHANGED <<notes, registry, rum, trail, returned, credits, fit, cancel>>

\* The output the plan named is set to "false", under its one name.
Skip ==
  /\ AtHead /\ ~cancel /\ ~Broken(S) /\ ~Met(S)
  /\ status' = [status EXCEPT ![step] = "skipped"]
  /\ registry' = Tagged(With(registry, OutKey, Entry("false", 0)),
                        IF S.crucial THEN Outs("bool") \cup Outs("data") ELSE {})
  /\ Keep(IF S.crucial THEN Outs("bool") \cup Outs("data") ELSE {})
  /\ reported' = Reported
  /\ OnwardFrom(step, "head")
  /\ Quiet
  /\ UNCHANGED <<notes, trail, returned, credits, fit, cancel>>

Begin ==
  /\ AtHead /\ ~cancel /\ ~Broken(S) /\ Met(S)
  /\ at' = IF S.type = "abstract_task" THEN "child"
           ELSE IF IsTool(S) /\ WaitsBefore(S) THEN "before" ELSE "call"
  /\ fit' = FALSE
  /\ UNCHANGED <<reviewVars, registry, rum, step, status, reported, trail, returned,
                 credits, cancel>>

\* A stop shortens the wait; the action follows all the same.
WaitedBefore ==
  /\ phase = "run" /\ at = "before"
  /\ at' = "call"
  /\ UNCHANGED <<reviewVars, registry, rum, step, status, reported, trail, returned,
                 credits, fit, cancel>>

WaitedAfter ==
  /\ phase = "run" /\ at = "after"
  /\ OnwardFrom(step, "head")
  /\ Quiet
  /\ UNCHANGED <<notes, registry, rum, status, reported, trail, returned, credits, fit, cancel>>

-----------------------------------------------------------------------------
(* Calls and answers.                                                        *)

\* An answer in words always converges.
AnswerInWords ==
  /\ phase = "run" /\ at = "call" /\ IsAnswer(S)
  /\ Quiet
  /\ UNCHANGED <<notes, trail, returned, fit, cancel>>
  /\ registry' = With(With(registry, {OwnKey("bool")} \cup Outs("bool"), Entry("true", attempt)),
                      {OwnKey("data")} \cup Outs("data"), Entry("words", attempt))
  /\ Keep(IF S.out = None THEN {} ELSE Promoted)
  /\ IF cancel THEN PlanStops ELSE StepSucceeds

\* A call without a usable answer: arguments or result that do not parse, or
\* a target that cannot be bound, after the status was written.
CallFails ==
  /\ registry' \in {registry} \cup
       (IF S.alias # None /\ ~IsMeta(S)
        THEN {With(registry, {OwnKey("bool")}, Entry("true", 0))} ELSE {})
  /\ fit' = FALSE
  /\ UNCHANGED <<rum, trail>>

Expected(s) == IF s.expected = "unset" THEN "true" ELSE s.expected

\* _verify_rigid_outcome.  absent: the text says that the thing is not there.
Converges(s, flag, absent) ==
  \/ Expected(s) = "any"
  \/ Expected(s) = flag /\ ~(flag = "true" /\ absent)

\* The host says that nothing changed and an arbiter may overrule it: for the
\* verdict, not for the variable.
Ruled(flag) == IF flag = "false" /\ S.changes THEN Flags ELSE {flag}

BoundAlias(reg, flag) ==
  IF S.alias = None \/ flag = "false" THEN reg
  ELSE With(reg, {Key("bare", S.alias, 0)}, Entry("target", 0))

CallAnswers(flag, content) ==
  /\ registry' = BoundAlias(Produced(flag, content, attempt), flag)
  /\ Keep(Promoted)
  /\ trail' = (trail \/ Perceives(S))
  /\ \E ruled \in Ruled(flag), absent \in BOOLEAN : fit' = Converges(S, ruled, absent)

AtCall(position) == phase = "run" /\ at = position /\ IsTool(S)

\* A failed call is made once more, unless its arguments are at fault.
CallFailsOnce ==
  /\ AtCall("call") /\ ~cancel
  /\ CallFails
  /\ at' = "recall"
  /\ UNCHANGED <<reviewVars, step, status, reported, returned, credits, cancel>>

CallFailsForGood ==
  /\ AtCall("call")
  /\ Quiet
  /\ UNCHANGED <<notes, returned, cancel>>
  /\ CallFails
  /\ IF cancel THEN PlanStops ELSE PlanFails

CallReturns ==
  /\ AtCall("call")
  /\ Quiet
  /\ UNCHANGED <<notes, returned, cancel>>
  /\ \E flag \in Flags, content \in Contents : CallAnswers(flag, content)
  /\ IF cancel THEN PlanStops ELSE IF fit' THEN StepSucceeds ELSE PlanFails

\* The step fails whatever the second call answers.
Recalled ==
  /\ AtCall("recall")
  /\ Quiet
  /\ UNCHANGED <<notes, returned, cancel>>
  /\ \/ CallFails
     \/ \E flag \in Flags, content \in Contents : CallAnswers(flag, content)
  /\ PlanFails

-----------------------------------------------------------------------------
(* Subtasks.                                                                 *)

\* The child's verdict is written before anybody judges it.  A long answer
\* becomes an asset, which is not marked with the attempt.
ChildReturns(ok, content, tag) ==
  /\ phase = "run" /\ at = "child"
  /\ registry' = Produced(IF ok THEN "true" ELSE "false", content, tag)
  /\ Keep(Promoted)
  /\ returned' = returned \cup {step}
  /\ UNCHANGED <<notes, trail, fit, cancel>> /\ Quiet

ChildFails ==
  /\ \E content \in Contents, tag \in {0, attempt} : ChildReturns(FALSE, content, tag)
  /\ IF cancel THEN PlanStops ELSE PlanFails

ChildSucceeds ==
  /\ \E content \in Contents, tag \in {0, attempt} : ChildReturns(TRUE, content, tag)
  /\ IF cancel THEN PlanStops
     ELSE /\ at' = "judge"
          /\ UNCHANGED <<step, status, credits, reported, phase, attempt, plan,
                         sensitive, basis>>

Judged(ok) ==
  /\ phase = "run" /\ at = "judge"
  /\ Quiet
  /\ UNCHANGED <<notes, registry, rum, trail, returned, fit, cancel>>
  /\ IF cancel THEN PlanStops ELSE IF ok THEN StepSucceeds ELSE PlanFails

\* The judge cannot be asked, or the wait for it or for the child is
\* cancelled: the exception leaves the plan and the child without credit.
Raised ==
  /\ phase = "run" /\ at \in {"child", "judge"}
  /\ phase' = "over" /\ at' = "none"
  /\ Quiet
  /\ UNCHANGED <<attempt, plan, sensitive, basis, notes, registry, rum, step, status,
                 reported, trail, returned, credits, fit, cancel>>

-----------------------------------------------------------------------------
(* The end of the plan, and what the solver makes of it.                     *)

AtEnd == phase = "run" /\ at = "head" /\ step > Len(plan)

\* A success that left out a crucial step is a failed attempt.
Ends ==
  /\ AtEnd
  /\ at' = "none"
  /\ IF reported = {} THEN phase' = "verify" /\ UNCHANGED <<attempt, plan, sensitive, basis>>
     ELSE NextAttempt
  /\ Quiet
  /\ UNCHANGED <<notes, registry, rum, step, status, reported, trail, returned, credits,
                 fit, cancel>>

\* gap_convergence_refusal: gaps that no perception of this run can prove.
GapsUnproved == notes["gaps"] # 0 /\ ~trail /\ Perception # {}

Verified ==
  /\ phase = "verify"
  /\ \/ NextAttempt
     \/ ~GapsUnproved /\ phase' = "over" /\ UNCHANGED <<attempt, plan, sensitive, basis>>
  /\ Quiet
  /\ UNCHANGED <<notes, execVars>>

\* chat.stop, and the next request that clears the flag.
Suspended == phase = "run" /\ at \notin {"none", "head"}
StopOrClear == Suspended /\ cancel' = ~cancel
               /\ UNCHANGED <<reviewVars, registry, rum, step, at, status, reported, trail,
                              returned, credits, fit>>

-----------------------------------------------------------------------------
(* The planner knows the variables that have a name of their own.            *)

NamedVariables == {Ref(k.flavour, k.root) : k \in {n \in Holds : n.serial = 0}}

\* The records of a plan are cleared with the review of the next one.
Review ==
  /\ ReviewNext(NamedVariables)
  /\ step' = 0 /\ status' = << >> /\ credits' = << >> /\ returned' = {}
  /\ reported' = {} /\ trail' = FALSE /\ fit' = FALSE
  /\ UNCHANGED <<registry, rum, at, cancel>>

Execute ==
  \/ Start
  \/ StoppedAtHead \/ ConditionBroken \/ Skip \/ Begin
  \/ WaitedBefore \/ WaitedAfter
  \/ AnswerInWords \/ CallFailsOnce \/ CallFailsForGood \/ CallReturns \/ Recalled
  \/ ChildFails \/ ChildSucceeds \/ \E ok \in BOOLEAN : Judged(ok)
  \/ Raised \/ Ends \/ Verified

Next == Review \/ Execute \/ StopOrClear

Spec == Init /\ [][Next]_vars
-----------------------------------------------------------------------------
(* Properties.                                                               *)

KeyOK(k) == k.flavour \in Flavours
            /\ k.serial \in 0..SerialIn(MaxAttempts, LongestPlan)

\* The values the variables take; a step is in hand exactly while a plan runs.
TypeOK ==
  /\ policy \in Policies /\ attempt \in 1..MaxAttempts
  /\ phase \in {"plan", "gate", "judge", "consent", "accepted", "run", "verify", "over"}
  /\ at \in Positions /\ basis \in Grounds
  /\ at # "none" <=> phase = "run"
  /\ sensitive \subseteq Steps(plan)
  /\ \A c \in Channels : notes[c] \in 0..attempt
  /\ \A k \in Holds : KeyOK(k) /\ registry[k].tag \in 0..attempt
  /\ rum \subseteq Holds
  /\ \A i \in DOMAIN status : status[i] \in Statuses
  /\ DOMAIN credits = DOMAIN status
  /\ cancel \in BOOLEAN

Reading == phase = "run" /\ at \in {"head", "before", "call", "recall", "child"}
           /\ step <= Len(plan)

\* The steps of this plan before the one in hand that make the name r.
Makers(r) == {j \in 1..(step - 1) : r \in Both(plan[j].id) \cup OutNames(plan[j])}

\* No plan calls an output by the name of a step, its own or another plan's.
NamesApart ==
  \A p, q \in Plans : \A i \in Steps(p), j \in Steps(q) : p[i].out # q[j].id

\* What a step of this attempt has produced is what a later step reads, although
\* values of earlier attempts stay in the registry under the same local name
\* and the status variables carry no mark of their attempt.
ReadsPreferTheAttempt ==
  Reading => \A r \in Reads(S) :
    (\E j \in Makers(r) : status[j] = "success") =>
      Bound(r) /\ registry[Find(r)].wrote = attempt

\* What a step has to read and cannot: the plan promised it, and the step that
\* makes it did not succeed, so that planner, gate and executor agree on names.
\* A condition may also name the flavour that its producer did not leave: the
\* planner takes one for the other, and the name of a target for a status of the
\* same name.  (A step may succeed without binding its target, so that targets
\* under their own name are left out.)
Twin(r) == Key(IF r.flavour = "bool" THEN "data" ELSE "bool", r.root, 0)

UnboundOnlyIfUnmade ==
  Reading => \A r \in ExecutableReads(S) : r.flavour # "bare" /\ ~Bound(r) =>
    \/ Makers(r) # {} /\ \A j \in Makers(r) : status[j] \in {"skipped", "failed"}
    \/ r \in CondReads(S) /\ Twin(r) \in Holds
    \/ r \in CondReads(S) /\ Ref("bare", r.root) \in SeenAliases(plan, step)

\* A plan that reaches the final verification has done its crucial steps:
\* whatever was skipped or broken on the way was not one of them.
CrucialStepsSucceeded ==
  phase = "verify" =>
    \A i \in Steps(plan) : status[i] # "success" =>
      ~plan[i].crucial /\ Conditional(plan[i])

\* The child solver of a subtask learns the verdict of its step, once, on every
\* way out of the step: failure, divergence, cancellation, success.
ChildrenCredited ==
  \A i \in returned : status[i] # "pending" => credits[i] = <<status[i] = "success">>
=============================================================================
