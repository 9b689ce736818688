-------------------------- MODULE SolverLoopProofs --------------------------
(***************************************************************************)
(* What holds of the loop of Solver.run for every choice of its budgets and  *)
(* every history of failures.  The invariant says, for each place where the  *)
(* loop is suspended, what its counters have in common there.                *)
(***************************************************************************)
EXTENDS SolverLoop, TLAPS

\* Where the loop may still come back to its head.
Looping == {"starting", "head", "rethinking", "extending", "planning", "judging",
            "executing", "verifying"}

\* The attempts opened are those executed, those refused, and the open one.
BudgetInv ==
  /\ allowed = MaxTries + granted
  /\ executed =< allowed
  /\ pc \in Looping => rejections < MaxRejections \/ rejections = 0
  /\ pc \in {"planning", "judging"} => executed < allowed /\ opened = executed + rejections + 1
  /\ pc \in Looping \ {"planning", "judging"} => opened = executed + rejections
  /\ opened =< MaxTries + MaxExtensions + MaxRejections

\* No attempt is open between two attempts and after the last.
SettledInv ==
  pc \in {"starting", "head", "rethinking", "extending", "closing"} => attempt # "open"

\* Budget is asked for by a mission that worked and has used what it had.
EarnedInv == pc = "extending" => Deserving /\ ~Funded

\* A failure that no plan can cure ends the loop; a change of strategy is not
\* thought about after a sterile repetition.
DoomInv ==
  /\ pc \in Looping => last.cause # "unbound" /\ refusals < 2
  /\ pc = "rethinking" => ~Sterile

\* The goal is verified after some material success, if a tool was ever called.
ProvenInv ==
  /\ pc = "verifying" => (toolSeen => material)
  /\ reason = "success" => pc \in {"closing", "done"}
  /\ SuccessIsProven

Inv == TypeOK /\ BudgetInv /\ SettledInv /\ EarnedInv /\ DoomInv /\ ProvenInv

-----------------------------------------------------------------------------
(* The pieces of the loop.                                                   *)

\* The second half of the head leaves, asks for budget, or opens an attempt.
LEMMA Continuing ==
  ASSUME Continue
  PROVE  /\ sickness' \in {sickness, Diagnosed}
         /\ \/ /\ ~Starved /\ Funded
               /\ opened' = opened + 1 /\ attempt' = "open" /\ announced' = FALSE
               /\ pc' = "planning" /\ reason' = reason
            \/ /\ Deserving /\ ~Funded
               /\ UNCHANGED <<opened, attempt, announced>>
               /\ pc' = "extending" /\ reason' = reason
            \/ /\ UNCHANGED <<opened, attempt, announced>>
               /\ pc' = "closing" /\ reason' \in {"quota", "sick", "budget"}
BY DEF Continue, Leave, Suspend

\* A refused plan costs one rejection and settles its attempt.
LEMMA Rejecting ==
  ASSUME TypeOK, Reject
  PROVE  /\ attempt' = "rejected" /\ announced' = TRUE
         /\ rejections' = rejections + 1
         /\ \/ rejections + 1 >= MaxRejections /\ pc' = "closing" /\ reason' = "rejections"
            \/ rejections + 1 < MaxRejections /\ pc' = "head" /\ reason' = reason
<1>1. rejections + 1 >= MaxRejections \/ rejections + 1 < MaxRejections
  BY BoundsAreNat DEF TypeOK
<1> QED
  BY <1>1 DEF Reject, Leave, Suspend

LEMMA Healthy == ASSUME TypeOK PROVE Diagnosed \in [Tools -> Nat]
BY DEF TypeOK, Diagnosed

\* What is recorded of a failure is typed.
LEMMA Recording ==
  ASSUME TypeOK, NEW f \in Failures, Record(f)
  PROVE  /\ attempt' = "failed" /\ announced' = FALSE
         /\ fails' = fails + 1 /\ fails' \in Nat
         /\ prev' = last /\ last' = f
         /\ best' \in Nat
<1>1. last.mat \in Nat
  BY BoundsAreNat DEF TypeOK, Failures, Unfailed
<1>2. best' \in Nat
  BY <1>1 DEF TypeOK, Record
<1> QED
  BY <1>2 DEF TypeOK, Record

-----------------------------------------------------------------------------
(* Typing.                                                                   *)

\* The part of the state that a failure is recorded in, and the rest of it.
RecordTyped ==
  /\ fails \in Nat /\ best \in Nat
  /\ last \in Failures \cup {Unfailed} /\ prev \in Failures \cup {Unfailed}

CountersTyped ==
  /\ opened \in Nat /\ executed \in Nat /\ allowed \in Nat /\ granted \in 0..MaxExtensions
  /\ rejections \in Nat /\ rejectedRow \in Nat /\ refusals \in Nat

HealthTyped == sickness \in [Tools -> Nat]

ControlTyped ==
  /\ cancel \in BOOLEAN /\ announced \in BOOLEAN
  /\ pc \in Awaiting \cup {"head", "done"}
  /\ attempt \in {"none", "open", "rejected", "failed", "success"}
  /\ recul \in {"none", "convergence", "alignment", "execution", "rejected"}
  /\ plan \in {"none", "acting", "delegating", "talking"}
  /\ toolSeen \in BOOLEAN /\ material \in BOOLEAN /\ fresh \in BOOLEAN
  /\ reason \in {"none", "cancelled", "sterile", "circular", "quota", "sick", "budget",
                 "rejections", "unbound", "refused", "success", "impossible", "crashed",
                 "interrupted"}

LEMMA TypeParts == TypeOK <=> RecordTyped /\ CountersTyped /\ HealthTyped /\ ControlTyped
BY DEF TypeOK, RecordTyped, CountersTyped, HealthTyped, ControlTyped

LEMMA InitiallyTyped == Init => TypeOK
<1> SUFFICES ASSUME Init PROVE TypeOK
  OBVIOUS
<1>1. RecordTyped
  BY DEF Init, RecordTyped
<1>2. CountersTyped
  BY BoundsAreNat DEF Init, CountersTyped
<1>3. HealthTyped
  BY DEF Init, HealthTyped
<1>4. ControlTyped
  BY DEF Init, ControlTyped, Awaiting
<1> QED
  BY <1>1, <1>2, <1>3, <1>4, TypeParts

\* Every step of the loop keeps the record typed: it writes a failure to it, or
\* leaves it as it is.
LEMMA RecordKept ==
  ASSUME TypeOK, UNCHANGED <<fails, last, prev, best>>
  PROVE  RecordTyped'
BY DEF TypeOK, RecordTyped

LEMMA RecordWritten ==
  ASSUME TypeOK, NEW f \in Failures, Record(f)
  PROVE  RecordTyped'
<1>1. last \in Failures \cup {Unfailed}
  BY DEF TypeOK
<1> QED
  BY <1>1, Recording DEF RecordTyped

\* A failure of no tool is a failure.
LEMMA Toolless ==
  ASSUME NEW c \in Causes, NEW s \in Symptoms, NEW m \in Materials
  PROVE  [cause |-> c, tool |-> NoTool, symptom |-> s, mat |-> m] \in Failures
BY BoundsAreNat DEF Failures, Materials

LEMMA ReculKeys == ReculKey \in {"none", "convergence", "alignment", "execution", "rejected"}
BY DEF ReculKey, ClassOf

LEMMA TypeStep == TypeOK /\ [Next]_vars => TypeOK'
<1> SUFFICES ASSUME TypeOK, [Next]_vars PROVE TypeOK'
  OBVIOUS
<1>a. CountersTyped /\ HealthTyped /\ ControlTyped
  BY TypeParts
<1>b. TypeOK' <=> RecordTyped' /\ CountersTyped' /\ HealthTyped' /\ ControlTyped'
  BY DEF TypeOK, RecordTyped, CountersTyped, HealthTyped, ControlTyped
<1>1. CASE Started
  <2>1. RecordTyped'
    BY <1>1, RecordKept DEF Started, record
  <2>2. CountersTyped' /\ HealthTyped'
    BY <1>1, <1>a DEF Started, record, budget, CountersTyped, HealthTyped
  <2>3. ControlTyped'
    BY <1>1, <1>a DEF Started, Suspend, success, ControlTyped, Awaiting
  <2> QED
    BY <2>1, <2>2, <2>3, <1>b
<1>2. CASE Head
  <2>1. RecordTyped'
    BY <1>2, RecordKept DEF Head, record
  <2>2. CASE Continue /\ UNCHANGED recul
    <3>1. CountersTyped' /\ HealthTyped'
      <4>1. Continue
        BY <1>2, <2>2 DEF Head
      <4>2. opened' \in {opened, opened + 1} /\ sickness' \in {sickness, Diagnosed}
        BY <4>1, Continuing
      <4>3. opened' \in Nat /\ HealthTyped'
        BY <4>2, <1>a, Healthy DEF CountersTyped, HealthTyped
      <4>4. UNCHANGED <<executed, allowed, granted, rejections, rejectedRow, refusals>>
        BY <1>2, <2>2 DEF Head, record, budget
      <4> QED
        BY <4>3, <4>4, <1>a DEF CountersTyped
    <3>2. ControlTyped'
      BY <1>2, <2>2, <1>a, Continuing DEF Head, success, ControlTyped, Awaiting
    <3> QED
      BY <2>1, <3>1, <3>2, <1>b
  <2>3. CASE ~(Continue /\ UNCHANGED recul)
    <3>1. CountersTyped' /\ HealthTyped'
      BY <1>2, <2>3, <1>a DEF Head, record, budget, CountersTyped, HealthTyped
    <3>2. ControlTyped'
      BY <1>2, <2>3, <1>a, ReculKeys DEF Head, Leave, Suspend, success, ControlTyped, Awaiting
    <3> QED
      BY <2>1, <3>1, <3>2, <1>b
  <2> QED
    BY <2>2, <2>3
<1>3. CASE Rethought
  <2>1. RecordTyped'
    BY <1>3, RecordKept DEF Rethought, record
  <2>2. CountersTyped' /\ HealthTyped'
    <3>1. Continue
      BY <1>3 DEF Rethought
    <3>2. opened' \in {opened, opened + 1} /\ sickness' \in {sickness, Diagnosed}
      BY <3>1, Continuing
    <3>3. opened' \in Nat /\ HealthTyped'
      BY <3>2, <1>a, Healthy DEF CountersTyped, HealthTyped
    <3>4. UNCHANGED <<executed, allowed, granted, rejections, rejectedRow, refusals>>
      BY <1>3 DEF Rethought, record, budget
    <3> QED
      BY <3>3, <3>4, <1>a DEF CountersTyped
  <2>3. ControlTyped'
    BY <1>3, <1>a, Continuing DEF Rethought, success, ControlTyped, Awaiting
  <2> QED
    BY <2>1, <2>2, <2>3, <1>b
<1>4. CASE Extended
  <2>1. RecordTyped'
    BY <1>4, RecordKept DEF Extended, record
  <2>2. CountersTyped' /\ HealthTyped'
    BY <1>4, <1>a, BoundsAreNat DEF Extended, record, CountersTyped, HealthTyped
  <2>3. ControlTyped'
    BY <1>4, <1>a DEF Extended, Leave, Suspend, success, ControlTyped, Awaiting
  <2> QED
    BY <2>1, <2>2, <2>3, <1>b
<1>5. CASE PlanMalformed
  <2>1. RecordTyped'
    BY <1>5, RecordKept DEF PlanMalformed, record
  <2>2. CountersTyped' /\ HealthTyped'
    BY <1>5, <1>a, Rejecting DEF PlanMalformed, record, CountersTyped, HealthTyped
  <2>3. ControlTyped'
    BY <1>5, <1>a, Rejecting DEF PlanMalformed, success, ControlTyped, Awaiting
  <2> QED
    BY <2>1, <2>2, <2>3, <1>b
<1>6. CASE PlanTooLate
  <2>1. RecordTyped'
    BY <1>6, RecordKept DEF PlanTooLate, record
  <2>2. CountersTyped' /\ HealthTyped'
    BY <1>6, <1>a DEF PlanTooLate, record, budget, CountersTyped, HealthTyped
  <2>3. ControlTyped'
    BY <1>6, <1>a DEF PlanTooLate, Leave, success, ControlTyped, Awaiting
  <2> QED
    BY <2>1, <2>2, <2>3, <1>b
<1>7. CASE PlanProposed
  <2>1. RecordTyped'
    BY <1>7, RecordKept DEF PlanProposed, record
  <2>2. CountersTyped' /\ HealthTyped'
    BY <1>7, <1>a DEF PlanProposed, record, CountersTyped, HealthTyped
  <2>3. ControlTyped'
    BY <1>7, <1>a DEF PlanProposed, Suspend, success, ControlTyped, Awaiting
  <2> QED
    BY <2>1, <2>2, <2>3, <1>b
<1>8. CASE PlanRefused
  <2>1. RecordTyped'
    BY <1>8, RecordKept DEF PlanRefused, record
  <2>2. CountersTyped' /\ HealthTyped'
    BY <1>8, <1>a, Rejecting DEF PlanRefused, record, CountersTyped, HealthTyped
  <2>3. ControlTyped'
    BY <1>8, <1>a, Rejecting DEF PlanRefused, success, ControlTyped, Awaiting
  <2> QED
    BY <2>1, <2>2, <2>3, <1>b
<1>9. CASE PlanAccepted
  <2>1. RecordTyped'
    BY <1>9, RecordKept DEF PlanAccepted, record
  <2>2. CountersTyped' /\ HealthTyped'
    BY <1>9, <1>a DEF PlanAccepted, record, CountersTyped, HealthTyped
  <2>3. ControlTyped'
    BY <1>9, <1>a DEF PlanAccepted, Suspend, success, ControlTyped, Awaiting
  <2> QED
    BY <2>1, <2>2, <2>3, <1>b
<1>10. CASE CrucialSkipped
  <2>1. PICK f \in Failures : Record(f)
    <3>1. "skipped" \in Causes
      BY DEF Causes
    <3>2. PICK m \in Materials, s \in Symptoms :
                 Record([cause |-> "skipped", tool |-> NoTool, symptom |-> s, mat |-> m])
      BY <1>10 DEF CrucialSkipped
    <3> QED
      BY <3>1, <3>2, Toolless
  <2>2. RecordTyped'
    BY <2>1, RecordWritten
  <2>3. CountersTyped' /\ HealthTyped'
    BY <1>10, <1>a DEF CrucialSkipped, budget, CountersTyped, HealthTyped
  <2>4. attempt' = "failed" /\ announced' = FALSE
    BY <2>1, Recording
  <2>5. ControlTyped'
    BY <1>10, <1>a, <2>4 DEF CrucialSkipped, Suspend, success, ControlTyped, Awaiting
  <2> QED
    BY <2>2, <2>3, <2>5, <1>b
<1>11. CASE Succeeded
  <2>1. PICK m \in Materials : Tally(m)
    BY <1>11 DEF Succeeded
  <2>2. toolSeen' \in BOOLEAN /\ material' \in BOOLEAN
    BY <2>1, <1>a DEF Tally, ControlTyped
  <2>3. CountersTyped' /\ HealthTyped'
    BY <1>11, <1>a DEF Succeeded, budget, CountersTyped, HealthTyped
  <2>4. \/ (\E f \in Failures : Record(f)) /\ Suspend("head")
        \/ Suspend("verifying") /\ UNCHANGED <<attempt, announced, fails, last, prev, best>>
    <3>1. "hollow" \in Causes
      BY DEF Causes
    <3> QED
      BY <1>11, <3>1, Toolless DEF Succeeded
  <2>5. RecordTyped'
    BY <2>4, RecordWritten, RecordKept
  <2>6. attempt' \in {attempt, "failed"} /\ announced' \in {announced, FALSE}
    BY <2>4, Recording
  <2>7. ControlTyped'
    BY <1>11, <1>a, <2>2, <2>4, <2>6 DEF Succeeded, Suspend, ControlTyped, Awaiting
  <2> QED
    BY <2>3, <2>5, <2>7, <1>b
<1>12. CASE Failed
  <2>1. PICK f \in Failures : /\ Record(f)
                              /\ refusals' = refusals + (IF f.cause = "refused" THEN 1 ELSE 0)
                              /\ Tally(f.mat)
                              /\ IF Hopeless(f) THEN Leave(f.cause) ELSE Suspend("head")
    BY <1>12 DEF Failed
  <2>2. RecordTyped'
    BY <2>1, RecordWritten
  <2>3. CountersTyped' /\ HealthTyped'
    BY <1>12, <1>a, <2>1 DEF Failed, budget, CountersTyped, HealthTyped
  <2>4. toolSeen' \in BOOLEAN /\ material' \in BOOLEAN
    BY <2>1, <1>a DEF Tally, ControlTyped
  <2>5. \/ pc' = "closing" /\ reason' \in {"unbound", "refused"}
        \/ pc' = "head" /\ reason' = reason
    BY <2>1 DEF Hopeless, Leave, Suspend
  <2>6. ControlTyped'
    BY <1>12, <1>a, <2>1, <2>4, <2>5, Recording DEF Failed, ControlTyped, Awaiting
  <2> QED
    BY <2>2, <2>3, <2>6, <1>b
<1>13. CASE Verified
  <2>1. \/ /\ attempt' = "success" /\ Leave("success")
           /\ UNCHANGED <<announced, fails, last, prev, best>>
        \/ (\E f \in Failures : Record(f)) /\ Suspend("head")
    <3>1. "unreached" \in Causes
      BY DEF Causes
    <3> QED
      BY <1>13, <3>1, Toolless DEF Verified
  <2>2. RecordTyped'
    BY <2>1, RecordWritten, RecordKept
  <2>3. CountersTyped' /\ HealthTyped'
    BY <1>13, <1>a DEF Verified, budget, CountersTyped, HealthTyped
  <2>4. attempt' \in {"success", "failed"} /\ announced' \in {announced, FALSE}
    BY <2>1, Recording
  <2>5. fresh' \in BOOLEAN
    BY <1>13 DEF Verified
  <2>6. ControlTyped'
    BY <1>13, <1>a, <2>1, <2>4, <2>5 DEF Verified, Suspend, Leave, ControlTyped, Awaiting
  <2> QED
    BY <2>2, <2>3, <2>6, <1>b
<1>14. CASE Returned
  <2>1. RecordTyped'
    BY <1>14, RecordKept DEF Returned, record
  <2>2. CountersTyped' /\ HealthTyped'
    BY <1>14, <1>a DEF Returned, record, budget, CountersTyped, HealthTyped
  <2>3. ControlTyped'
    BY <1>14, <1>a DEF Returned, success, ControlTyped, Awaiting
  <2> QED
    BY <2>1, <2>2, <2>3, <1>b
<1>15. CASE Crashed
  <2>1. RecordTyped'
    BY <1>15, RecordKept DEF Crashed, record
  <2>2. CountersTyped' /\ HealthTyped'
    BY <1>15, <1>a DEF Crashed, record, budget, CountersTyped, HealthTyped
  <2>3. ControlTyped'
    BY <1>15, <1>a DEF Crashed, success, ControlTyped, Awaiting
  <2> QED
    BY <2>1, <2>2, <2>3, <1>b
<1>16. CASE Interrupted
  <2>1. RecordTyped'
    BY <1>16, RecordKept DEF Interrupted, record
  <2>2. CountersTyped' /\ HealthTyped'
    BY <1>16, <1>a DEF Interrupted, record, budget, CountersTyped, HealthTyped
  <2>3. ControlTyped'
    BY <1>16, <1>a DEF Interrupted, success, ControlTyped, Awaiting
  <2> QED
    BY <2>1, <2>2, <2>3, <1>b
<1>17. CASE Flag
  <2>1. RecordTyped'
    BY <1>17, RecordKept DEF Flag, record
  <2>2. CountersTyped' /\ HealthTyped'
    BY <1>17, <1>a DEF Flag, record, budget, CountersTyped, HealthTyped
  <2>3. ControlTyped'
    BY <1>17, <1>a DEF Flag, success, ControlTyped, Awaiting
  <2> QED
    BY <2>1, <2>2, <2>3, <1>b
<1>18. CASE UNCHANGED vars
  BY <1>18 DEF vars, budget, record, success, TypeOK
<1> QED
  BY <1>1, <1>2, <1>3, <1>4, <1>5, <1>6, <1>7, <1>8, <1>9, <1>10, <1>11, <1>12, <1>13,
     <1>14, <1>15, <1>16, <1>17, <1>18 DEF Next, Run

-----------------------------------------------------------------------------
(* The kinds of steps: what each of them does to what the invariant speaks of. *)

\* What a step that neither records a failure nor counts a refusal leaves alone.
Kept == UNCHANGED <<fails, last, prev, best, refusals>>

\* The program does nothing, or another task moves the flag.
LEMMA Waiting ==
  ASSUME Flag \/ UNCHANGED vars
  PROVE  /\ UNCHANGED <<pc, opened, attempt, reason, executed, allowed, granted, rejections,
                        toolSeen, material, fresh, plan>>
         /\ Kept
BY DEF Flag, vars, budget, record, success, Kept

\* The loop begins.
LEMMA Starting ==
  ASSUME Started
  PROVE  /\ pc = "starting" /\ pc' \in {"head", "done"}
         /\ reason' \in {reason, "impossible"}
         /\ UNCHANGED <<opened, attempt, executed, allowed, granted, rejections,
                        toolSeen, material, fresh, plan>>
         /\ Kept
BY DEF Started, Suspend, budget, record, success, Kept

\* The loop ends, or its end is decided by something else than the goal.
LEMMA Ending ==
  ASSUME Returned \/ Crashed \/ Interrupted \/ PlanTooLate
  PROVE  /\ \/ pc' = "done" /\ reason' \in {"crashed", "interrupted"}
            \/ pc' = "closing" /\ reason' = "cancelled" /\ attempt' = "failed"
            \/ pc = "closing" /\ pc' = "done" /\ UNCHANGED <<reason, attempt>>
         /\ UNCHANGED <<opened, executed, allowed, granted, rejections,
                        toolSeen, material, fresh, plan>>
         /\ Kept
<1>1. CASE Returned
  BY <1>1 DEF Returned, budget, record, success, Kept
<1>2. CASE Crashed
  BY <1>2 DEF Crashed, budget, record, success, Kept
<1>3. CASE Interrupted
  BY <1>3 DEF Interrupted, budget, record, success, Kept
<1>4. CASE PlanTooLate
  BY <1>4 DEF PlanTooLate, Leave, budget, record, success, Kept
<1> QED
  BY <1>1, <1>2, <1>3, <1>4

\* The head of the loop opens an attempt, asks for budget, thinks again of the
\* mission, or leaves.
LEMMA Heading ==
  ASSUME Head \/ Rethought
  PROVE  /\ pc \in {"head", "rethinking"}
         /\ UNCHANGED <<executed, allowed, granted, rejections, toolSeen, material, fresh, plan>>
         /\ Kept
         /\ \/ /\ pc = "head" => ~Sterile
               /\ ~Starved /\ Funded
               /\ opened' = opened + 1 /\ attempt' = "open"
               /\ pc' = "planning" /\ reason' = reason
            \/ /\ Deserving /\ ~Funded
               /\ UNCHANGED <<opened, attempt>>
               /\ pc' = "extending" /\ reason' = reason
            \/ /\ ~Sterile
               /\ UNCHANGED <<opened, attempt>>
               /\ pc' = "rethinking" /\ reason' = reason
            \/ /\ UNCHANGED <<opened, attempt>>
               /\ pc' = "closing"
               /\ reason' \in {"cancelled", "sterile", "circular", "quota", "sick", "budget"}
<1>1. CASE Head
  <2>1. /\ pc = "head" /\ Kept
        /\ UNCHANGED <<executed, allowed, granted, rejections, toolSeen, material, fresh, plan>>
    BY <1>1 DEF Head, budget, record, success, Kept
  <2>2. CASE cancel \/ Sterile \/ Circular
    BY <1>1, <2>1, <2>2 DEF Head, Leave
  <2>3. CASE ~(cancel \/ Sterile \/ Circular) /\ ReculKey \notin {"none", recul}
    BY <1>1, <2>1, <2>3 DEF Head, Suspend
  <2>4. CASE ~(cancel \/ Sterile \/ Circular) /\ ReculKey \in {"none", recul}
    <3>1. Continue
      BY <1>1, <2>4 DEF Head
    <3> QED
      BY <2>1, <2>4, <3>1, Continuing
  <2> QED
    BY <2>2, <2>3, <2>4
<1>2. CASE Rethought
  <2>1. /\ pc = "rethinking" /\ Kept /\ Continue
        /\ UNCHANGED <<executed, allowed, granted, rejections, toolSeen, material, fresh, plan>>
    BY <1>2 DEF Rethought, budget, record, success, Kept
  <2> QED
    BY <2>1, Continuing
<1> QED
  BY <1>1, <1>2

\* More budget is granted, or the loop leaves.
LEMMA Extending ==
  ASSUME Extended
  PROVE  /\ pc = "extending"
         /\ UNCHANGED <<opened, attempt, executed, rejections, toolSeen, material, fresh, plan>>
         /\ Kept
         /\ \/ /\ granted < MaxExtensions
               /\ granted' = granted + 1 /\ allowed' = allowed + 1
               /\ pc' = "head" /\ reason' = reason
            \/ /\ UNCHANGED <<granted, allowed>>
               /\ pc' = "closing" /\ reason' = "budget"
BY DEF Extended, Leave, Suspend, record, success, Kept

\* A plan is refused, by the planner's own parser or by the supervisor.
LEMMA Refusing ==
  ASSUME TypeOK, PlanMalformed \/ PlanRefused
  PROVE  /\ pc \in {"planning", "judging"}
         /\ UNCHANGED <<opened, executed, allowed, granted, toolSeen, material, fresh, plan>>
         /\ Kept
         /\ attempt' = "rejected" /\ rejections' = rejections + 1
         /\ \/ rejections + 1 >= MaxRejections /\ pc' = "closing" /\ reason' = "rejections"
            \/ rejections + 1 < MaxRejections /\ pc' = "head" /\ reason' = reason
<1>1. Reject
  BY DEF PlanMalformed, PlanRefused
<1>2. /\ pc \in {"planning", "judging"} /\ Kept
      /\ UNCHANGED <<opened, executed, allowed, granted, toolSeen, material, fresh, plan>>
  BY DEF PlanMalformed, PlanRefused, record, success, Kept
<1> QED
  BY <1>1, <1>2, Rejecting

\* A plan is judged next, or executed next.
LEMMA Accepting ==
  ASSUME PlanProposed \/ PlanAccepted
  PROVE  /\ pc \in {"planning", "judging"}
         /\ UNCHANGED <<opened, attempt, allowed, granted, rejections, toolSeen, material,
                        fresh, reason>>
         /\ Kept
         /\ \/ pc' = "judging" /\ executed' = executed
            \/ pc' = "executing" /\ executed' = executed + 1
<1>1. CASE PlanProposed
  BY <1>1 DEF PlanProposed, Suspend, record, success, Kept
<1>2. CASE PlanAccepted
  BY <1>2 DEF PlanAccepted, Suspend, record, success, Kept
<1> QED
  BY <1>1, <1>2

\* A plan has run: a failure that another plan may cure goes back to the head, one
\* that none can cure ends the loop, and a success is verified, then reported.
LEMMA Concluding ==
  ASSUME TypeOK, CrucialSkipped \/ Succeeded \/ Failed \/ Verified
  PROVE  /\ pc \in {"executing", "verifying"}
         /\ UNCHANGED <<opened, executed, allowed, granted, rejections, plan>>
         /\ \/ /\ pc' = "head" /\ attempt' = "failed" /\ reason' = reason
               /\ last'.cause # "unbound"
               /\ refusals' = refusals \/ refusals' < 2
            \/ /\ pc' = "closing" /\ attempt' = "failed" /\ reason' \in {"unbound", "refused"}
            \/ /\ pc' = "verifying" /\ reason' = reason
               /\ Kept /\ (toolSeen' => material')
            \/ /\ pc = "verifying" /\ pc' = "closing" /\ attempt' = "success"
               /\ reason' = "success"
               /\ Kept /\ UNCHANGED <<toolSeen, material>>
               /\ plan # "acting" /\ fails > 0 => fresh'
<1>1. CASE CrucialSkipped
  <2>1. PICK m \in Materials, s \in Symptoms :
             Record([cause |-> "skipped", tool |-> NoTool, symptom |-> s, mat |-> m])
    BY <1>1 DEF CrucialSkipped
  <2>2. attempt' = "failed" /\ last'.cause = "skipped"
    BY <2>1 DEF Record
  <2> QED
    BY <1>1, <2>2 DEF CrucialSkipped, Suspend, budget
<1>2. CASE Succeeded
  <2>1. \/ /\ Suspend("head")
           /\ \E m \in Materials, s \in Symptoms :
                Record([cause |-> "hollow", tool |-> NoTool, symptom |-> s, mat |-> m])
        \/ /\ Suspend("verifying") /\ (toolSeen' => material')
           /\ UNCHANGED <<fails, last, prev, best>>
    BY <1>2 DEF Succeeded
  <2>3. pc = "executing" /\ UNCHANGED <<opened, executed, allowed, granted, rejections, plan, refusals>>
    BY <1>2 DEF Succeeded, budget
  <2>4. CASE /\ Suspend("head")
             /\ \E m \in Materials, s \in Symptoms :
                  Record([cause |-> "hollow", tool |-> NoTool, symptom |-> s, mat |-> m])
    <3>1. attempt' = "failed" /\ last'.cause = "hollow"
      BY <2>4 DEF Record
    <3> QED
      BY <2>3, <2>4, <3>1 DEF Suspend
  <2>5. CASE /\ Suspend("verifying") /\ (toolSeen' => material')
             /\ UNCHANGED <<fails, last, prev, best>>
    BY <2>3, <2>5 DEF Suspend, Kept
  <2> QED
    BY <2>1, <2>4, <2>5
<1>3. CASE Failed
  <2>1. PICK f \in Failures : /\ Record(f)
                              /\ refusals' = refusals + (IF f.cause = "refused" THEN 1 ELSE 0)
                              /\ IF Hopeless(f) THEN Leave(f.cause) ELSE Suspend("head")
    BY <1>3 DEF Failed
  <2>2. attempt' = "failed" /\ last' = f
    BY <2>1 DEF Record
  <2>3. pc = "executing" /\ UNCHANGED <<opened, executed, allowed, granted, rejections, plan>>
    BY <1>3 DEF Failed, budget
  <2>4. CASE Hopeless(f)
    BY <2>1, <2>2, <2>3, <2>4 DEF Hopeless, Leave
  <2>5. CASE ~Hopeless(f)
    <3>1. refusals \in Nat
      BY DEF TypeOK
    <3>2. f.cause # "unbound" /\ (refusals' = refusals \/ refusals' < 2)
      BY <2>1, <2>5, <3>1 DEF Hopeless
    <3> QED
      BY <2>1, <2>2, <2>3, <2>5, <3>2 DEF Suspend
  <2> QED
    BY <2>4, <2>5
<1>4. CASE Verified
  <2>1. /\ pc = "verifying"
        /\ UNCHANGED <<opened, executed, allowed, granted, rejections, plan, refusals,
                       toolSeen, material>>
    BY <1>4 DEF Verified, budget
  <2>2. \/ /\ attempt' = "success" /\ Leave("success") /\ (Suspect => fresh')
           /\ UNCHANGED <<fails, last, prev, best>>
        \/ /\ Suspend("head")
           /\ \E m \in Materials, s \in Symptoms :
                Record([cause |-> "unreached", tool |-> NoTool, symptom |-> s, mat |-> m])
    BY <1>4 DEF Verified
  <2>3. CASE /\ attempt' = "success" /\ Leave("success") /\ (Suspect => fresh')
             /\ UNCHANGED <<fails, last, prev, best>>
    BY <2>1, <2>3 DEF Leave, Kept, Suspect
  <2>4. CASE /\ Suspend("head")
             /\ \E m \in Materials, s \in Symptoms :
                  Record([cause |-> "unreached", tool |-> NoTool, symptom |-> s, mat |-> m])
    <3>1. attempt' = "failed" /\ last'.cause = "unreached"
      BY <2>4 DEF Record
    <3> QED
      BY <2>1, <2>4, <3>1 DEF Suspend
  <2> QED
    BY <2>2, <2>3, <2>4
<1> QED
  BY <1>1, <1>2, <1>3, <1>4

\* A step is of one of these kinds.
LEMMA Kinds ==
  [Next]_vars <=> \/ Started \/ Extended
                  \/ Head \/ Rethought
                  \/ PlanMalformed \/ PlanRefused
                  \/ PlanProposed \/ PlanAccepted
                  \/ CrucialSkipped \/ Succeeded \/ Failed \/ Verified
                  \/ Returned \/ Crashed \/ Interrupted \/ PlanTooLate
                  \/ Flag \/ UNCHANGED vars
BY DEF Next, Run

-----------------------------------------------------------------------------
(* The invariant.                                                            *)

LEMMA InitiallyInv == Init => Inv
<1> SUFFICES ASSUME Init PROVE Inv
  OBVIOUS
<1>1. TypeOK
  BY InitiallyTyped
<1>2. BudgetInv
  BY BoundsAreNat DEF Init, BudgetInv, Looping
<1>3. SettledInv /\ EarnedInv
  BY DEF Init, SettledInv, EarnedInv
<1>4. DoomInv
  BY DEF Init, DoomInv, Unfailed
<1>5. ProvenInv
  BY DEF Init, ProvenInv, SuccessIsProven
<1> QED
  BY <1>1, <1>2, <1>3, <1>4, <1>5 DEF Inv

\* The numbers that the budget is about.
LEMMA Numbers ==
  ASSUME TypeOK
  PROVE  /\ opened \in Nat /\ executed \in Nat /\ allowed \in Nat /\ granted \in Nat
         /\ granted =< MaxExtensions /\ rejections \in Nat
         /\ MaxTries \in Nat /\ MaxExtensions \in Nat /\ MaxRejections \in Nat
BY BoundsAreNat DEF TypeOK

\* Each attempt that is opened is funded, and is then refused or executed; each
\* extension adds as much to what is allowed as to what may be opened.
LEMMA BudgetStep == TypeOK /\ BudgetInv /\ [Next]_vars => BudgetInv'
<1> SUFFICES ASSUME TypeOK, BudgetInv, [Next]_vars PROVE BudgetInv'
  OBVIOUS
<1>1. CASE Started
  BY <1>1, Starting, Numbers DEF BudgetInv, Looping, Funded
<1>2. CASE Head \/ Rethought
  BY <1>2, Heading, Numbers DEF BudgetInv, Looping, Funded
<1>3. CASE Extended
  BY <1>3, Extending, Numbers DEF BudgetInv, Looping, Funded
<1>4. CASE PlanMalformed \/ PlanRefused
  BY <1>4, Refusing, Numbers DEF BudgetInv, Looping, Funded
<1>5. CASE PlanProposed \/ PlanAccepted
  BY <1>5, Accepting, Numbers DEF BudgetInv, Looping, Funded
<1>6. CASE CrucialSkipped \/ Succeeded \/ Failed \/ Verified
  BY <1>6, Concluding, Numbers DEF BudgetInv, Looping, Funded
<1>7. CASE Returned \/ Crashed \/ Interrupted \/ PlanTooLate
  BY <1>7, Ending, Numbers DEF BudgetInv, Looping, Funded
<1>8. CASE Flag \/ UNCHANGED vars
  BY <1>8, Waiting, Numbers DEF BudgetInv, Looping, Funded
<1> QED
  BY <1>1, <1>2, <1>3, <1>4, <1>5, <1>6, <1>7, <1>8, Kinds

\* An attempt is opened on the way to the planner alone, and the ways back to the
\* head and out of the loop settle it.
LEMMA SettledStep == TypeOK /\ SettledInv /\ [Next]_vars => SettledInv'
<1> SUFFICES ASSUME TypeOK, SettledInv, [Next]_vars PROVE SettledInv'
  OBVIOUS
<1>1. CASE Started
  BY <1>1, Starting DEF SettledInv
<1>2. CASE Head \/ Rethought
  BY <1>2, Heading DEF SettledInv
<1>3. CASE Extended
  BY <1>3, Extending DEF SettledInv
<1>4. CASE PlanMalformed \/ PlanRefused
  BY <1>4, Refusing DEF SettledInv
<1>5. CASE PlanProposed \/ PlanAccepted
  BY <1>5, Accepting DEF SettledInv
<1>6. CASE CrucialSkipped \/ Succeeded \/ Failed \/ Verified
  BY <1>6, Concluding DEF SettledInv
<1>7. CASE Returned \/ Crashed \/ Interrupted \/ PlanTooLate
  BY <1>7, Ending DEF SettledInv
<1>8. CASE Flag \/ UNCHANGED vars
  BY <1>8, Waiting DEF SettledInv
<1> QED
  BY <1>1, <1>2, <1>3, <1>4, <1>5, <1>6, <1>7, <1>8, Kinds

\* Budget is asked for at the head alone, after the test, and nothing changes the
\* record or the count before the answer.
LEMMA EarnedStep == TypeOK /\ EarnedInv /\ [Next]_vars => EarnedInv'
<1> SUFFICES ASSUME TypeOK, EarnedInv, [Next]_vars PROVE EarnedInv'
  OBVIOUS
<1>1. CASE Started
  BY <1>1, Starting DEF EarnedInv, Deserving, Funded, Kept
<1>2. CASE Head \/ Rethought
  BY <1>2, Heading DEF EarnedInv, Deserving, Funded, Kept
<1>3. CASE Extended
  BY <1>3, Extending DEF EarnedInv, Deserving, Funded, Kept
<1>4. CASE PlanMalformed \/ PlanRefused
  BY <1>4, Refusing DEF EarnedInv, Deserving, Funded, Kept
<1>5. CASE PlanProposed \/ PlanAccepted
  BY <1>5, Accepting DEF EarnedInv, Deserving, Funded, Kept
<1>6. CASE CrucialSkipped \/ Succeeded \/ Failed \/ Verified
  BY <1>6, Concluding DEF EarnedInv, Deserving, Funded, Kept
<1>7. CASE Returned \/ Crashed \/ Interrupted \/ PlanTooLate
  BY <1>7, Ending DEF EarnedInv, Deserving, Funded, Kept
<1>8. CASE Flag \/ UNCHANGED vars
  BY <1>8, Waiting DEF EarnedInv, Deserving, Funded, Kept
<1> QED
  BY <1>1, <1>2, <1>3, <1>4, <1>5, <1>6, <1>7, <1>8, Kinds

\* What no plan can cure is recorded on the way out.
LEMMA DoomStep == TypeOK /\ DoomInv /\ [Next]_vars => DoomInv'
<1> SUFFICES ASSUME TypeOK, DoomInv, [Next]_vars PROVE DoomInv'
  OBVIOUS
<1>1. CASE Started
  BY <1>1, Starting DEF DoomInv, Looping, Sterile, SameSignature, Kept
<1>2. CASE Head \/ Rethought
  BY <1>2, Heading DEF DoomInv, Looping, Sterile, SameSignature, Kept
<1>3. CASE Extended
  BY <1>3, Extending DEF DoomInv, Looping, Sterile, SameSignature, Kept
<1>4. CASE PlanMalformed \/ PlanRefused
  BY <1>4, Refusing DEF DoomInv, Looping, Sterile, SameSignature, Kept
<1>5. CASE PlanProposed \/ PlanAccepted
  BY <1>5, Accepting DEF DoomInv, Looping, Sterile, SameSignature, Kept
<1>6. CASE CrucialSkipped \/ Succeeded \/ Failed \/ Verified
  BY <1>6, Concluding DEF DoomInv, Looping, Sterile, SameSignature, Kept
<1>7. CASE Returned \/ Crashed \/ Interrupted \/ PlanTooLate
  BY <1>7, Ending DEF DoomInv, Looping, Sterile, SameSignature, Kept
<1>8. CASE Flag \/ UNCHANGED vars
  BY <1>8, Waiting DEF DoomInv, Looping, Sterile, SameSignature, Kept
<1> QED
  BY <1>1, <1>2, <1>3, <1>4, <1>5, <1>6, <1>7, <1>8, Kinds

\* Success is declared from the verification, and nothing follows it.
LEMMA ProvenStep == TypeOK /\ ProvenInv /\ [Next]_vars => ProvenInv'
<1> SUFFICES ASSUME TypeOK, ProvenInv, [Next]_vars PROVE ProvenInv'
  OBVIOUS
<1>1. CASE Started
  BY <1>1, Starting DEF ProvenInv, SuccessIsProven, Kept
<1>2. CASE Head \/ Rethought
  BY <1>2, Heading DEF ProvenInv, SuccessIsProven, Kept
<1>3. CASE Extended
  BY <1>3, Extending DEF ProvenInv, SuccessIsProven, Kept
<1>4. CASE PlanMalformed \/ PlanRefused
  BY <1>4, Refusing DEF ProvenInv, SuccessIsProven, Kept
<1>5. CASE PlanProposed \/ PlanAccepted
  BY <1>5, Accepting DEF ProvenInv, SuccessIsProven, Kept
<1>6. CASE CrucialSkipped \/ Succeeded \/ Failed \/ Verified
  BY <1>6, Concluding DEF ProvenInv, SuccessIsProven, Kept
<1>7. CASE Returned \/ Crashed \/ Interrupted \/ PlanTooLate
  BY <1>7, Ending DEF ProvenInv, SuccessIsProven, Kept
<1>8. CASE Flag \/ UNCHANGED vars
  BY <1>8, Waiting DEF ProvenInv, SuccessIsProven, Kept
<1> QED
  BY <1>1, <1>2, <1>3, <1>4, <1>5, <1>6, <1>7, <1>8, Kinds

LEMMA InvStep == Inv /\ [Next]_vars => Inv'
BY TypeStep, BudgetStep, SettledStep, EarnedStep, DoomStep, ProvenStep DEF Inv

\* The invariant holds along every run of the loop.
THEOREM Invariance == Spec => []Inv
<1>1. Init => Inv
  BY InitiallyInv
<1>2. Inv /\ [Next]_vars => Inv'
  BY InvStep
<1> QED
  BY <1>1, <1>2, PTL DEF Spec

-----------------------------------------------------------------------------
(* What the loop promises.                                                   *)

\* Every variable of Solver.run keeps its type, the failures it records among them.
THEOREM TypeCorrect == Spec => []TypeOK
<1>1. Inv => TypeOK
  BY DEF Inv
<1> QED
  BY <1>1, Invariance, PTL

\* Whatever mixes refusals, failures, extensions and restarts of the head, a
\* mission opens no more attempts than its three budgets together allow.
THEOREM TheBudgetHolds == Spec => []BudgetHolds
<1>1. Inv => BudgetHolds
  BY Numbers DEF Inv, BudgetInv, BudgetHolds
<1> QED
  BY <1>1, Invariance, PTL

\* A mission succeeds on its last attempt, after a material action if any plan
\* called a tool, and in sight of the world if it ends in words after failures.
THEOREM SuccessProven == Spec => []SuccessIsProven
<1>1. Inv => SuccessIsProven
  BY DEF Inv, ProvenInv
<1> QED
  BY <1>1, Invariance, PTL

\* No attempt opens after a sterile repetition, an exhausted quota, a reference
\* that was never bound or a second refusal of the host's contract.
THEOREM NoneAfterDoom == Spec => NoAttemptAfterDoom
<1>1. Inv /\ [Next]_vars => [opened' > opened => ~Doomed]_vars
  <2> SUFFICES ASSUME Inv, [Next]_vars, opened' > opened PROVE ~Doomed
    OBVIOUS
  <2>1. opened \in Nat /\ opened' # opened
    BY DEF Inv, TypeOK
  <2>2. Head \/ Rethought
    BY <2>1, Kinds, Starting, Extending, Refusing, Accepting, Concluding, Ending, Waiting DEF Inv
  <2>3. pc \in {"head", "rethinking"} /\ ~Starved /\ (pc = "head" => ~Sterile)
    BY <2>1, <2>2, Heading
  <2>4. ~Sterile /\ last.cause # "unbound" /\ refusals < 2
    BY <2>3 DEF Inv, DoomInv, Looping
  <2>5. ~(refusals >= 2)
    BY <2>4 DEF Inv, TypeOK
  <2> QED
    BY <2>3, <2>4, <2>5 DEF Doomed
<1> QED
  BY <1>1, Invariance, PTL DEF Spec, NoAttemptAfterDoom

\* An attempt is settled before the next one opens, and when run() returns.
THEOREM AttemptsSettled == Spec => AttemptsAreSettled
<1>1. Inv /\ [Next]_vars =>
        [(opened' > opened \/ (pc = "closing" /\ pc' = "done" /\ reason' = reason))
           => attempt # "open"]_vars
  <2> SUFFICES ASSUME Inv, [Next]_vars,
                      opened' > opened \/ (pc = "closing" /\ pc' = "done" /\ reason' = reason)
               PROVE  attempt # "open"
    OBVIOUS
  <2>1. CASE pc = "closing"
    BY <2>1 DEF Inv, SettledInv
  <2>2. CASE opened' > opened
    <3>1. opened \in Nat /\ opened' # opened
      BY <2>2 DEF Inv, TypeOK
    <3>2. Head \/ Rethought
      BY <3>1, Kinds, Starting, Extending, Refusing, Accepting, Concluding, Ending, Waiting DEF Inv
    <3> QED
      BY <3>2, Heading DEF Inv, SettledInv
  <2> QED
    BY <2>1, <2>2
<1> QED
  BY <1>1, Invariance, PTL DEF Spec, AttemptsAreSettled

\* Budget is only added for a mission that has just worked and has used what it
\* had, and an execution never starts beyond what was allowed.
THEOREM ExtensionsEarned == Spec => ExtensionsAreEarned
<1>1. Inv /\ [Next]_vars =>
        [/\ granted' > granted => last.mat > 0 /\ executed >= allowed
         /\ executed' > executed => executed < allowed]_vars
  <2> SUFFICES ASSUME Inv, [Next]_vars
               PROVE  /\ granted' > granted => last.mat > 0 /\ executed >= allowed
                      /\ executed' > executed => executed < allowed
    OBVIOUS
  <2>1. granted \in Nat /\ executed \in Nat /\ allowed \in Nat
    BY Numbers DEF Inv
  <2>2. ASSUME granted' > granted PROVE last.mat > 0 /\ executed >= allowed
    <3>1. granted' # granted
      BY <2>1, <2>2
    <3>2. Extended
      BY <3>1, Kinds, Starting, Heading, Refusing, Accepting, Concluding, Ending, Waiting DEF Inv
    <3> QED
      BY <2>1, <3>2, Extending DEF Inv, EarnedInv, Deserving, Funded
  <2>3. ASSUME executed' > executed PROVE executed < allowed
    <3>1. executed' # executed
      BY <2>1, <2>3
    <3>2. PlanProposed \/ PlanAccepted
      BY <3>1, Kinds, Starting, Heading, Extending, Refusing, Concluding, Ending, Waiting DEF Inv
    <3> QED
      BY <3>2, Accepting DEF Inv, BudgetInv
  <2> QED
    BY <2>2, <2>3
<1> QED
  BY <1>1, Invariance, PTL DEF Spec, ExtensionsAreEarned
=============================================================================
