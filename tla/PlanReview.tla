------------------------------ MODULE PlanReview ------------------------------
(***************************************************************************)
(* The review of a plan, from the planner's proposal to its acceptance: the  *)
(* planner's own check, the deterministic gate and its repair, the judge,    *)
(* and the consent of the user (core/orchestrator.py, validate_plan and      *)
(* _request_human_confirmation; core/plan_validator.py, PlanValidator).      *)
(*                                                                           *)
(* One solver of one mission.  What the reviews leave behind outlives the    *)
(* plan they were about: the record of what the user allowed, and the        *)
(* warnings kept for the final verification.                                 *)
(***************************************************************************)
EXTENDS PlanGates

CONSTANTS
  Plans,       \* the plans the planner may write
  Touchy,      \* tools the judge may flag as irreversible
  LongestPlan, \* bound: steps of a plan
  MaxAttempts  \* bound: proposals of the solver

ASSUME AttemptsAssumption == MaxAttempts \in Nat \ {0}
ASSUME PlansAssumption ==
  /\ LongestPlan \in Nat
  /\ \A p \in Plans : p \in Seq(StepRecord) /\ Len(p) <= LongestPlan

VARIABLES
  policy,     \* hitl_policy of the host
  phase,      \* where the solver is
  attempt,    \* number of the current attempt
  plan,       \* the plan of this attempt, or <<>>
  sensitive,  \* those of its steps that the consent is about
  basis,      \* why the plan may run
  consents,   \* approved_human_actions_by_mission; a set: its order is not read
  notes,      \* per channel of warnings, the attempt they describe, or 0
  shown       \* history: what the user was shown, and the answer

reviewVars == <<policy, phase, attempt, plan, sensitive, basis, consents, notes, shown>>

Policies == {"strict", "balanced", "autonomous"}
Channels == {"perception", "any", "gaps", "soft"}
Grounds  == {"none", "unneeded", "waived", "inherited", "approved"}

ReviewInit ==
  /\ policy \in Policies
  /\ phase = "plan" /\ attempt = 1 /\ plan = <<>>
  /\ sensitive = {} /\ basis = "none"
  /\ consents = {} /\ shown = {}
  /\ notes = [c \in Channels |-> 0]

\* A slip: one attempt too many.
NextAttemptLate ==
  /\ IF attempt <= MaxAttempts
     THEN phase' = "plan" /\ attempt' = attempt + 1
     ELSE phase' = "over" /\ attempt' = attempt
  /\ plan' = <<>> /\ sensitive' = {} /\ basis' = "none"

\* The attempt is over without success: another one, or the end.
NextAttempt ==
  /\ IF attempt < MaxAttempts
     THEN phase' = "plan" /\ attempt' = attempt + 1
     ELSE phase' = "over" /\ attempt' = attempt
  /\ plan' = <<>> /\ sensitive' = {} /\ basis' = "none"

-----------------------------------------------------------------------------
(* Consent.                                                                  *)

Tools(p) == {p[i].tool : i \in {j \in Steps(p) : IsTool(p[j])}}
Deeds(p, marked) == {p[i].deed : i \in marked}

Approved(p, marked) == [approved |-> TRUE, tools |-> Tools(p), deeds |-> Deeds(p, marked)]
Refused(p)          == [approved |-> FALSE, tools |-> {}, deeds |-> Deeds(p, Steps(p))]

Allowed(field) == UNION {c[field] : c \in {d \in consents : d.approved}}

\* A slip: a step the user saw once is allowed, whatever the user said.
InheritsSeen(p, marked) ==
  /\ consents # {}
  /\ \A i \in marked : p[i].deed \in UNION {c.deeds : c \in consents}

\* _check_implicit_validation: one refusal in the mission ends it.
Inherits(p, marked) ==
  /\ consents # {}
  /\ \A c \in consents : c.approved
  /\ \A i \in marked : \/ IsTool(p[i]) /\ p[i].tool \in Allowed("tools")
                       \/ p[i].deed \in Allowed("deeds")

-----------------------------------------------------------------------------
(* Warnings.                                                                 *)

Mark(found) == IF found THEN attempt ELSE 0

\* After each verdict of the validator, whatever it is: warnings of perception
\* are written and never erased.  A repair leaves both lists as they were.
Signalled ==
  [notes EXCEPT !["perception"] = IF UnreadPerceptions(plan) # {} THEN attempt ELSE @,
                !["any"]        = Mark(UnreadAny(plan) # {})]

\* The judge's own remarks join them.
SoftSignals == \/ UnreadPerceptions(plan) # {} \/ UnreadAny(plan) # {}
               \/ MechanicalCriteria(plan) # {} \/ WithoutAction(plan)

\* A slip: the lists of an earlier plan stay when there is nothing to write.
StoredOver(partial) ==
  [Signalled EXCEPT !["gaps"] = IF partial THEN attempt ELSE @, !["soft"] = Mark(SoftSignals)]

\* store_plan_warnings, for a plan that is accepted.
Stored(partial) ==
  [Signalled EXCEPT !["gaps"] = Mark(partial), !["soft"] = Mark(SoftSignals)]

-----------------------------------------------------------------------------
(* The steps of a review.                                                    *)

\* An answer in words is not reviewed.  names: variables of the solver under
\* the name their producer gave them.
Propose(p, names) ==
  /\ phase = "plan"
  /\ IF PlannerAdmits(p, names)
     THEN /\ plan' = p
          /\ phase' = IF PureAnswer(p) THEN "accepted" ELSE "gate"
          /\ basis' = IF PureAnswer(p) THEN "unneeded" ELSE "none"
          /\ UNCHANGED <<attempt, sensitive>>
     ELSE NextAttempt
  /\ UNCHANGED <<policy, consents, notes, shown>>

GateOpens ==
  /\ phase = "gate" /\ GateAdmits(plan)
  /\ phase' = "judge"
  /\ UNCHANGED <<policy, attempt, plan, sensitive, basis, consents, notes, shown>>

\* A repaired plan is validated once more.
GateRepairs ==
  /\ phase = "gate" /\ ~GateAdmits(plan)
  /\ Repairable(plan) /\ GateAdmits(Repaired(plan))
  /\ plan' = Repaired(plan) /\ phase' = "judge" /\ notes' = Signalled
  /\ UNCHANGED <<policy, attempt, sensitive, basis, consents, shown>>

GateRefuses ==
  /\ phase = "gate" /\ ~GateAdmits(plan)
  /\ ~(Repairable(plan) /\ GateAdmits(Repaired(plan)))
  /\ notes' = Signalled
  /\ NextAttempt
  /\ UNCHANGED <<policy, consents, shown>>

Accept(ground, partial) ==
  /\ phase' = "accepted" /\ basis' = ground
  /\ notes' = Stored(partial)
  /\ UNCHANGED <<attempt, plan>>

Refuse == notes' = Signalled /\ NextAttempt

\* Not conformant, or the judge cannot be asked.
JudgeRefuses ==
  /\ phase = "judge"
  /\ Refuse
  /\ UNCHANGED <<policy, consents, shown>>

Flaggable == {i \in Steps(plan) : plan[i].tool \in Touchy}
Declared  == {i \in Steps(plan) : plan[i].risky}

\* A plan with gaps must be without risk.
JudgePartial ==
  /\ phase = "judge"
  /\ Accept("unneeded", TRUE)
  /\ UNCHANGED <<policy, sensitive, consents, shown>>

\* The judge asks for no confirmation, or the policy of the host waives it.
JudgeAccepts ==
  /\ phase = "judge"
  /\ \/ Accept("unneeded", FALSE)
     \/ policy = "autonomous" /\ Accept("waived", FALSE)
  /\ UNCHANGED <<policy, sensitive, consents, shown>>

\* The judge asks, the user has answered already.
JudgeInherits(flags) ==
  /\ phase = "judge" /\ policy = "balanced"
  /\ Inherits(plan, flags \cup Declared)
  /\ sensitive' = flags \cup Declared
  /\ Accept("inherited", FALSE)
  /\ UNCHANGED <<policy, consents, shown>>

AskUser(flags) ==
  /\ phase = "judge" /\ policy # "autonomous"
  /\ policy = "balanced" => ~Inherits(plan, flags \cup Declared)
  /\ phase' = "consent" /\ sensitive' = flags \cup Declared
  /\ UNCHANGED <<policy, attempt, plan, basis, consents, notes, shown>>

UserAllows ==
  /\ phase = "consent"
  /\ consents' = consents \cup {Approved(plan, sensitive)}
  /\ shown' = shown \cup {[plan |-> plan, marked |-> sensitive, allowed |-> TRUE]}
  /\ Accept("approved", FALSE)
  /\ UNCHANGED <<policy, sensitive>>

UserRefuses ==
  /\ phase = "consent"
  /\ consents' = consents \cup {Refused(plan)}
  /\ shown' = shown \cup {[plan |-> plan, marked |-> sensitive, allowed |-> FALSE]}
  /\ Refuse
  /\ UNCHANGED policy

\* The question is cancelled or fails: a refusal that leaves no record.
QuestionLost ==
  /\ phase = "consent"
  /\ Refuse
  /\ UNCHANGED <<policy, consents, shown>>

ReviewNext(names) ==
  \/ \E p \in Plans : Propose(p, names)
  \/ GateOpens \/ GateRepairs \/ GateRefuses
  \/ JudgeRefuses \/ JudgePartial \/ JudgeAccepts
  \/ \E flags \in SUBSET Flaggable : JudgeInherits(flags) \/ AskUser(flags)
  \/ UserAllows \/ UserRefuses \/ QuestionLost

-----------------------------------------------------------------------------
(* Properties.                                                               *)

\* A plan that runs on an inherited consent: the user refused nothing in this
\* mission, and each of its sensitive steps uses a tool, or does a deed, that
\* a plan the user approved already had.
InheritedConsentWasGiven ==
  phase = "accepted" /\ basis = "inherited" =>
    /\ shown # {} /\ \A s \in shown : s.allowed
    /\ \A i \in sensitive :
         \E s \in shown : \/ IsTool(plan[i]) /\ plan[i].tool \in Tools(s.plan)
                          \/ plan[i].deed \in Deeds(s.plan, s.marked)

\* The warnings that the final verification reads are about the plan that is
\* accepted, unless that plan was an answer in words, which is not reviewed.
\* The warnings of perception are left out: they are never erased.
WarningsAreCurrent ==
  phase = "accepted" /\ ~PureAnswer(plan) =>
    \A c \in Channels \ {"perception"} : notes[c] \in {0, attempt}
=============================================================================
