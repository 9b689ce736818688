----------------------------- MODULE SolverLoop -----------------------------
(***************************************************************************)
(* Solver.run (core/solver.py) for the root solver of a mission: the loop    *)
(* that plans, has the plan judged, executes it, verifies that the goal is   *)
(* reached, and decides after each failure whether one more plan is worth    *)
(* trying.  One action is the code between two awaits, which is where a stop *)
(* sets the cancel flag and another request clears it.                       *)
(*                                                                           *)
(* A failure is abstracted to what the guards compare: its cause, which      *)
(* stands for the class and the origin of its signature, the tool that broke *)
(* and the symptom told, and the material actions that had succeeded.        *)
(***************************************************************************)
EXTENDS Integers

CONSTANTS Tools, Symptoms,
          MaxMaterial,     \* material actions of one plan
          MaxTries,        \* SOLVER_MAX_EXECUTION_TRIES
          MaxExtensions,   \* MAX_RETRY_EXTENSIONS
          MaxRejections,   \* SOLVER_MAX_PREEXECUTION_FAILURES
          SickAfter        \* attempts a tool may fail in a row (3 in the code)

ASSUME BoundsAreNat ==
  /\ MaxMaterial \in Nat /\ MaxTries \in Nat /\ MaxExtensions \in Nat
  /\ MaxRejections \in Nat /\ SickAfter \in Nat

NoTool == "no tool"

\* A step was broken, starved of quota, misaligned, diverging, refused by the
\* host's contract, bound to nothing, or stopped; the plan skipped a crucial
\* step, or was hollow; or, after it, the goal was not reached.
Causes == {"broken", "starved", "misaligned", "diverged", "refused", "unbound",
           "cancelled", "skipped", "hollow", "unreached"}

Failures == [cause : Causes, tool : Tools \cup {NoTool}, symptom : Symptoms,
             mat : 0..MaxMaterial]

VARIABLES
  cancel,       \* runtime_state.cancel_requested
  pc,           \* where run() is suspended
  opened,       \* attempt_counter
  attempt,      \* outcome of current_attempt
  announced,    \* attempt_failed has been emitted for current_attempt
  executed,     \* execution_attempt
  allowed,      \* max_allowed
  granted,      \* retry_extensions_granted of the mission
  rejections,   \* _preexecution_failures
  rejectedRow,  \* _consecutive_supervisor_rejections
  recul,        \* strategy_refreshed_key
  fails,        \* length of fail_history
  last, prev,   \* its last two entries
  best,         \* best material score before the last entry
  refusals,     \* _host_target_refusals
  sickness,     \* tool_fail_streak
  plan,         \* the last plan: it calls tools, delegates, or only talks
  toolSeen, material,   \* seen_tool_steps_total > 0, material_success_total > 0
  fresh,        \* history: the last verification saw the world
  reason        \* history: why the loop was left

\* A failure before there is one.
Unfailed == [cause |-> "none", tool |-> NoTool, symptom |-> "none", mat |-> 0]

budget  == <<executed, allowed, granted, rejections, rejectedRow>>
record  == <<fails, last, prev, best, refusals>>
success == <<toolSeen, material, fresh>>
vars == <<cancel, pc, opened, attempt, announced, budget, recul, record, sickness,
          plan, success, reason>>

Awaiting == {"starting", "rethinking", "extending", "planning", "judging", "executing",
             "verifying", "closing"}

Init ==
  /\ cancel = FALSE /\ pc = "starting" /\ opened = 0 /\ attempt = "none" /\ announced = FALSE
  /\ executed = 0 /\ allowed = MaxTries /\ granted = 0
  /\ rejections = 0 /\ rejectedRow = 0 /\ recul = "none"
  /\ fails = 0 /\ last = Unfailed /\ prev = Unfailed /\ best = 0
  /\ refusals = 0 /\ sickness = [t \in Tools |-> 0]
  /\ plan = "none" /\ toolSeen = FALSE /\ material = FALSE /\ fresh = FALSE
  /\ reason = "none"

-----------------------------------------------------------------------------
(* The guards on the history of failures.                                   *)

ClassOf(f) == IF f.cause \in {"diverged", "unreached"} THEN "convergence"
              ELSE IF f.cause = "misaligned" THEN "alignment"
              ELSE IF f.cause = "cancelled" THEN "cancelled"
              ELSE "execution"

SameSignature(f, g) == [f EXCEPT !.mat = 0] = [g EXCEPT !.mat = 0]

\* is_sterile_streak: a real breakdown repeated without material progress.
Sterile == /\ fails >= 2
           /\ SameSignature(last, prev)
           /\ last.cause \in {"broken", "skipped", "hollow"}
           /\ last.mat =< best

\* The divergence that a change of strategy did not cure.
Circular == /\ fails >= 2
            /\ recul = "convergence"
            /\ ClassOf(last) = "convergence"
            /\ SameSignature(last, prev)

\* is_quota_streak
Starved == fails >= 2 /\ last.cause = "starved" /\ prev.cause = "starved"

\* A slip: a change of strategy for each cause.
ReculPerCause ==
  IF fails > 0 /\ last.cause \in {"unreached", "misaligned"} THEN last.cause ELSE "none"

\* _recul_key_for
ReculKey ==
  IF fails > 0 /\ ClassOf(last) \in {"convergence", "alignment"} THEN ClassOf(last)
  ELSE IF fails >= 2 /\ ClassOf(last) = "execution" /\ ClassOf(prev) = "execution"
       THEN "execution"
  ELSE IF rejectedRow >= 2 THEN "rejected"
  ELSE "none"

\* _update_tool_health looks at the last attempt alone.
Blames(f, t) == f.cause \in {"broken", "starved"} /\ f.tool = t
BrokenNow(t) == attempt = "failed" /\ Blames(last, t)
Diagnosed == [t \in Tools |-> IF BrokenNow(t) THEN sickness[t] + 1 ELSE 0]

-----------------------------------------------------------------------------
(* Pieces of the loop.                                                      *)

\* A slip: the head of the loop is run once more.
LeaveToHead(why) == pc' = "head" /\ reason' = why

Leave(why) == pc' = "closing" /\ reason' = why

Suspend(state) == pc' = state /\ UNCHANGED reason

\* A slip: the record of the attempt stays open.
RejectUnsettled ==
  /\ UNCHANGED <<attempt, announced>>
  /\ rejections' = rejections + 1
  /\ IF rejections + 1 >= MaxRejections THEN Leave("rejections") ELSE Suspend("head")

\* One more plan that was refused before its execution.
Reject ==
  /\ attempt' = "rejected" /\ announced' = TRUE
  /\ rejections' = rejections + 1
  /\ IF rejections + 1 >= MaxRejections THEN Leave("rejections") ELSE Suspend("head")

\* _record_failure, and the attempt's own record.
Record(f) ==
  /\ attempt' = "failed" /\ announced' = FALSE
  /\ fails' = fails + 1
  /\ prev' = last /\ last' = f
  /\ best' = IF fails > 0 /\ last.mat > best THEN last.mat ELSE best

\* Slips: one plan too many; an extension for a mission that did not work.
FundedOneMore == executed =< allowed
DeservingAlways == fails > 0

\* The budget allows one more plan; the last failure came after some work.
Funded    == executed < allowed
Deserving == fails > 0 /\ last.mat > 0

\* The second half of the head: quota, health of the tools, budget, and then
\* either a request for more budget or a new attempt.
Continue ==
  IF Starved THEN Leave("quota") /\ UNCHANGED <<sickness, opened, attempt, announced>>
  ELSE /\ sickness' = Diagnosed
       /\ IF \E t \in Tools : Diagnosed[t] >= SickAfter
          THEN Leave("sick") /\ UNCHANGED <<opened, attempt, announced>>
          ELSE IF ~Funded
          THEN /\ IF Deserving THEN Suspend("extending")
                                               ELSE Leave("budget")
               /\ UNCHANGED <<opened, attempt, announced>>
          ELSE /\ opened' = opened + 1 /\ attempt' = "open" /\ announced' = FALSE
               /\ Suspend("planning")

-----------------------------------------------------------------------------
(* The loop.                                                                *)

\* Skills and similar missions are retrieved and the goal is found feasible,
\* or not.
Started ==
  /\ pc = "starting"
  /\ \/ Suspend("head")
     \/ pc' = "done" /\ reason' = "impossible"
  /\ UNCHANGED <<cancel, opened, attempt, announced, budget, recul, record, sickness, plan,
                 success>>

\* The head of the loop, up to its first await.
Head ==
  /\ pc = "head"
  /\ IF cancel \/ Sterile \/ Circular
     THEN /\ Leave(IF cancel THEN "cancelled" ELSE IF Sterile THEN "sterile" ELSE "circular")
          /\ announced' = (announced \/ (~cancel /\ attempt = "failed"))
          /\ UNCHANGED <<recul, sickness, opened, attempt>>
     ELSE IF ReculKey \notin {"none", recul}
     THEN /\ recul' = ReculKey
          /\ announced' = (announced \/ attempt = "failed")
          /\ Suspend("rethinking")
          /\ UNCHANGED <<sickness, opened, attempt>>
     ELSE Continue /\ UNCHANGED recul
  /\ UNCHANGED <<cancel, budget, record, plan, success>>

\* The feasibility check of the recul is over, whatever it said.
Rethought ==
  /\ pc = "rethinking"
  /\ Continue
  /\ UNCHANGED <<cancel, budget, recul, record, plan, success>>

\* request_retry_extension: the absolute ceiling, then the judge.
Extended ==
  /\ pc = "extending"
  /\ \/ /\ granted < MaxExtensions
        /\ granted' = granted + 1 /\ allowed' = allowed + 1
        /\ Suspend("head")
     \/ Leave("budget") /\ UNCHANGED <<granted, allowed>>
  /\ UNCHANGED <<cancel, opened, attempt, announced, executed, rejections, rejectedRow,
                 recul, record, sickness, plan, success>>

\* The planner answers with a malformed plan, ...
PlanMalformed ==
  /\ pc = "planning"
  /\ Reject
  /\ UNCHANGED <<cancel, opened, executed, allowed, granted, rejectedRow, recul, record,
                 sickness, plan, success>>

\* ... with a plan that comes too late, ...
PlanTooLate ==
  /\ pc = "planning" /\ cancel
  /\ attempt' = "failed" /\ announced' = TRUE
  /\ Leave("cancelled")
  /\ UNCHANGED <<cancel, opened, budget, recul, record, sickness, plan, success>>

\* ... or with a plan; one of words alone is not judged.
PlanProposed ==
  /\ pc = "planning" /\ ~cancel
  /\ \/ plan' \in {"acting", "delegating"} /\ Suspend("judging")
        /\ UNCHANGED <<executed, rejectedRow>>
     \/ /\ plan' = "talking" /\ Suspend("executing")
        /\ executed' = executed + 1 /\ rejectedRow' = 0
  /\ UNCHANGED <<cancel, opened, attempt, announced, allowed, granted, rejections, recul,
                 record, sickness, success>>

PlanRefused ==
  /\ pc = "judging"
  /\ Reject
  /\ rejectedRow' = rejectedRow + 1
  /\ UNCHANGED <<cancel, opened, executed, allowed, granted, recul, record, sickness, plan,
                 success>>

PlanAccepted ==
  /\ pc = "judging"
  /\ Suspend("executing")
  /\ executed' = executed + 1 /\ rejectedRow' = 0
  /\ UNCHANGED <<cancel, opened, attempt, announced, allowed, granted, rejections, recul,
                 record, sickness, plan, success>>

\* The material actions that may have succeeded: words have none.
Materials == IF plan = "talking" THEN {0} ELSE 0..MaxMaterial

\* The executor reports success, but a crucial step was skipped.
CrucialSkipped ==
  /\ pc = "executing"
  /\ \E m \in Materials, s \in Symptoms :
       Record([cause |-> "skipped", tool |-> NoTool, symptom |-> s, mat |-> m])
  /\ Suspend("head")
  /\ UNCHANGED <<cancel, opened, budget, recul, refusals, sickness, plan, success>>

\* What a plan with m material successes adds to the totals.
Tally(m) == /\ toolSeen' = (toolSeen \/ plan = "acting")
            /\ material' = (material \/ m > 0)

\* The executor reports success, after no material action of any plan
\* (is_mission_success), or after one: then the goal itself is verified.
Succeeded ==
  /\ pc = "executing"
  /\ \E m \in Materials :
       /\ Tally(m)
       /\ IF toolSeen' /\ ~material'
          THEN /\ \E s \in Symptoms :
                    Record([cause |-> "hollow", tool |-> NoTool, symptom |-> s, mat |-> m])
               /\ Suspend("head")
          ELSE /\ Suspend("verifying")
               /\ UNCHANGED <<attempt, announced, fails, last, prev, best>>
  /\ UNCHANGED <<cancel, opened, budget, recul, refusals, sickness, plan, fresh>>

\* A slip: the host's refusals are counted after the test.
HopelessOneLater(f) == f.cause = "unbound" \/ (f.cause = "refused" /\ refusals >= 2)

\* No other plan can cure it: is_nonretryable_contract_failure, and the second
\* refusal of the host.
Hopeless(f) == f.cause = "unbound" \/ (f.cause = "refused" /\ refusals >= 1)

\* The executor reports the failure of a step.
Failed ==
  /\ pc = "executing"
  /\ \E f \in Failures :
       /\ f.cause \in {"broken", "starved", "misaligned", "diverged", "refused", "unbound"}
                      \cup (IF cancel THEN {"cancelled"} ELSE {})
       /\ f.tool # NoTool => f.cause \in {"broken", "starved"} /\ plan = "acting"
       /\ f.mat \in Materials
       /\ Tally(f.mat)
       /\ Record(f)
       /\ refusals' = refusals + (IF f.cause = "refused" THEN 1 ELSE 0)
       /\ IF Hopeless(f) THEN Leave(f.cause) ELSE Suspend("head")
  /\ UNCHANGED <<cancel, opened, budget, recul, sickness, plan, fresh>>

\* A slip: a delegated answer is trusted.
SuspectOfWordsOnly == plan = "talking" /\ fails > 0

\* is_suspect_final_answer
Suspect == plan # "acting" /\ fails > 0

\* _verify_mission_convergence: a suspect answer needs the state of the world;
\* the judge decides, and its failure is not held against the mission.
Verified ==
  /\ pc = "verifying"
  /\ \E world, yes \in BOOLEAN :
       /\ fresh' = world
       /\ IF yes /\ (Suspect => world)
          THEN /\ attempt' = "success" /\ Leave("success")
               /\ UNCHANGED <<announced, fails, last, prev, best>>
          ELSE /\ \E m \in Materials, s \in Symptoms :
                    Record([cause |-> "unreached", tool |-> NoTool, symptom |-> s, mat |-> m])
               /\ Suspend("head")
  /\ UNCHANGED <<cancel, opened, budget, recul, refusals, sickness, plan, toolSeen, material>>

\* The skill lifecycle is over; run() returns its result.
Returned ==
  /\ pc = "closing"
  /\ pc' = "done"
  /\ UNCHANGED <<cancel, opened, attempt, announced, budget, recul, record, sickness, plan,
                 success, reason>>

\* An exception nobody expected ends the run and closes the attempt.
Crashed ==
  /\ pc \in {"planning", "judging", "executing"}
  /\ attempt' = "failed" /\ UNCHANGED announced
  /\ pc' = "done" /\ reason' = "crashed"
  /\ UNCHANGED <<cancel, opened, budget, recul, record, sickness, plan, success>>

\* A stop or a newer request cancels the LLM call in flight; CancelledError
\* is no Exception, and nothing in run() catches it.
Interrupted ==
  /\ pc \in Awaiting
  /\ pc' = "done" /\ reason' = "interrupted"
  /\ UNCHANGED <<cancel, opened, attempt, announced, budget, recul, record, sickness, plan,
                 success>>

\* chat.stop sets the flag, the next chat.send or runtime.configure clears it.
Flag ==
  /\ pc # "done"
  /\ cancel' = ~cancel
  /\ UNCHANGED <<pc, opened, attempt, announced, budget, recul, record, sickness, plan,
                 success, reason>>

Run == \/ Started \/ Head \/ Rethought \/ Extended \/ PlanMalformed \/ PlanTooLate \/ PlanProposed
       \/ PlanRefused \/ PlanAccepted \/ CrucialSkipped \/ Succeeded \/ Failed
       \/ Verified \/ Returned \/ Crashed \/ Interrupted

Next == Run \/ Flag

Spec == Init /\ [][Next]_vars

\* Every await of the loop ends: LLM calls have a timeout, and the executor
\* is awaited for as long as the host answers.
FairSpec == Spec /\ WF_vars(Run)

-----------------------------------------------------------------------------
(* What the loop promises.                                                  *)

TypeOK ==
  /\ cancel \in BOOLEAN /\ announced \in BOOLEAN
  /\ pc \in Awaiting \cup {"head", "done"}
  /\ attempt \in {"none", "open", "rejected", "failed", "success"}
  /\ opened \in Nat /\ executed \in Nat /\ allowed \in Nat /\ granted \in 0..MaxExtensions
  /\ rejections \in Nat /\ rejectedRow \in Nat
  /\ recul \in {"none", "convergence", "alignment", "execution", "rejected"}
  /\ fails \in Nat /\ best \in Nat /\ refusals \in Nat
  /\ last \in Failures \cup {Unfailed} /\ prev \in Failures \cup {Unfailed}
  /\ sickness \in [Tools -> Nat]
  /\ plan \in {"none", "acting", "delegating", "talking"}
  /\ toolSeen \in BOOLEAN /\ material \in BOOLEAN /\ fresh \in BOOLEAN
  /\ reason \in {"none", "cancelled", "sterile", "circular", "quota", "sick", "budget",
                 "rejections", "unbound", "refused", "success", "impossible", "crashed",
                 "interrupted"}

\* Whatever mixes refusals, failures, extensions and restarts of the head, the
\* mission opens no more attempts than the three budgets together allow.
BudgetHolds ==
  /\ executed =< MaxTries + granted
  /\ granted =< MaxExtensions
  /\ opened =< MaxTries + MaxExtensions + MaxRejections

\* A mission succeeds on its last attempt, after a material action if any plan
\* called a tool, and - when it ends in words after failures - in sight of the
\* world.
SuccessIsProven ==
  reason = "success" => /\ attempt = "success"
                        /\ toolSeen => material
                        /\ plan # "acting" /\ fails > 0 => fresh

\* Once a failure tells that another plan is useless - a sterile repetition, an
\* exhausted quota, a reference the runtime never bound, a second refusal of
\* the host's contract - no attempt follows, even after an extension or a recul.
Doomed == Sterile \/ Starved \/ last.cause = "unbound" \/ refusals >= 2
NoAttemptAfterDoom == [][opened' > opened => ~Doomed]_vars

\* An attempt is settled before the next one opens, and when run() returns by
\* itself.
AttemptsAreSettled ==
  [][(opened' > opened \/ (pc = "closing" /\ pc' = "done" /\ reason' = reason))
     => attempt # "open"]_vars

\* The budget is only extended for a mission that has just worked, and an
\* execution never starts beyond what was allowed.
ExtensionsAreEarned ==
  [][/\ granted' > granted => last.mat > 0 /\ executed >= allowed
     /\ executed' > executed => executed < allowed]_vars

\* The loop ends.
RunEnds == <>(pc = "done")

=============================================================================
