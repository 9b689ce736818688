------------------------- MODULE PlanExecutionProofs -------------------------
(***************************************************************************)
(* What holds of the review and the execution of plans for every set of      *)
(* plans the planner may write, every manifest of tools and every number of  *)
(* attempts.                                                                 *)
(***************************************************************************)
EXTENDS PlanExecution, TLAPS, WellFoundedInduction

-----------------------------------------------------------------------------
(* The invariant, in parts: the control of the review and of the run, what    *)
(* the user said, the registry, what successes left in it, and what the gates *)
(* took as known.                                                             *)

Ids  == UNION {{p[i].id : i \in Steps(p)} : p \in Plans}
Named == UNION {{p[i].out : i \in Steps(p)} : p \in Plans}

Phases == {"plan", "gate", "judge", "consent", "accepted", "run", "verify", "over"}

\* The review, and the plan it is about.
ReviewTyped ==
  /\ policy \in Policies /\ phase \in Phases /\ basis \in Grounds
  /\ attempt \in 1..MaxAttempts
  /\ plan \in Seq(StepRecord) /\ Len(plan) <= LongestPlan
  /\ \A i \in Steps(plan) : plan[i].id \in Ids /\ plan[i].out \in Named
  /\ sensitive \subseteq Steps(plan) /\ (phase = "plan" => sensitive = {})
  /\ DOMAIN notes = Channels /\ \A c \in Channels : notes[c] \in 0..attempt

\* What is recorded of the user's answers is what was shown.
ConsentsRecorded ==
  /\ \A c \in consents :
       \E s \in shown : /\ s.allowed = c.approved
                        /\ c.approved => /\ c.tools = Tools(s.plan)
                                         /\ c.deeds = Deeds(s.plan, s.marked)
  /\ \A s \in shown : \E c \in consents : c.approved = s.allowed

\* The steps that are over.
Past(i) == i < step \/ (i = step /\ at = "after")

Running ==
  /\ DOMAIN status = Steps(plan)
  /\ step \in 1..(Len(plan) + 1)
  /\ at # "head" => step <= Len(plan)
  /\ at = "after" => status[step] = "success"
  /\ \A i \in Steps(plan) :
       IF Past(i)
       THEN status[i] # "pending" /\ (status[i] # "success" =>
              Conditional(plan[i]) /\ (plan[i].crucial => i \in reported))
       ELSE status[i] = "pending" /\ credits[i] = << >>
  /\ \A i \in returned : Past(i) \/ (i = step /\ at = "judge")

RunTyped ==
  /\ at \in Positions /\ cancel \in BOOLEAN
  /\ at # "none" <=> phase = "run"
  /\ DOMAIN credits = DOMAIN status
  /\ \A i \in DOMAIN status : status[i] \in Statuses
  /\ returned \subseteq DOMAIN status
  /\ phase = "accepted" => returned = {}
  /\ phase = "run" => Running
  /\ phase = "verify" => DOMAIN status = Steps(plan)

\* The registry: a key with a serial holds what the attempt of that serial wrote
\* and carries no other mark; a target carries none.
KeySet == [flavour : Flavours, root : STRING, serial : 0..SerialIn(MaxAttempts, LongestPlan)]

EntryOK(k, e) ==
  /\ DOMAIN e = {"value", "tag", "wrote"}
  /\ e.tag \in 0..attempt /\ e.wrote \in 1..attempt
  /\ k.serial # 0 => /\ k.flavour # "bare" /\ e.tag \in {0, e.wrote}
                     /\ \E i \in 1..LongestPlan : k.serial = SerialIn(e.wrote, i)
  /\ k.serial = 0 => IF k.flavour = "bare" THEN e.tag = 0 /\ k.root # None ELSE k.root \in Named

RegistryOK ==
  /\ Holds \subseteq KeySet
  /\ \A k \in Holds : EntryOK(k, registry[k])
  /\ rum \subseteq Holds

\* What a step leaves when it succeeds.
WrittenNow(k) == k \in Holds /\ registry[k].wrote = attempt
MadeBy(j) ==
  \A f \in {"bool", "data"} :
    /\ WrittenNow(Key(f, plan[j].id, SerialOf(j)))
    /\ plan[j].out # None => WrittenNow(Key(f, plan[j].out, 0))

\* The steps that have come to an answer and were not refused for it.
Done(j) == (Past(j) /\ status[j] = "success") \/ (j = step /\ at = "judge")

SuccessesMade == phase = "run" => \A j \in Steps(plan) : Done(j) => MadeBy(j)

\* What the planner and the gate took as known.
Promised(i, r) ==
  \/ Key(r.flavour, r.root, 0) \in Holds \/ Twin(r) \in Holds
  \/ Key("bare", r.root, 0) \in Holds
  \/ \E j \in 1..(i - 1) : r \in Both(plan[j].id) \cup OutNames(plan[j])
  \/ Ref("bare", r.root) \in SeenAliases(plan, i)

Admitted ==
  phase \in {"gate", "judge", "consent", "accepted", "run"} =>
    \A i \in Steps(plan) : \A r \in ExecutableReads(plan[i]) :
      r.flavour # "bare" => Promised(i, r)

Resolved ==
  phase \in {"judge", "consent", "accepted", "run"} =>
    \A i \in Steps(plan) : \A r \in ArgReads(plan[i]) :
      \E j \in 1..(i - 1) : r \in Declares(plan[j])

Control ==
  ReviewTyped /\ RunTyped /\ ChildrenCredited /\ CrucialStepsSucceeded

-----------------------------------------------------------------------------
(* Plans.                                                                    *)

\* A repair changes the tool of a step and where it reads, nothing else.
LEMMA RepairKeeps ==
  ASSUME NEW p \in Seq(StepRecord)
  PROVE  /\ Repaired(p) \in Seq(StepRecord) /\ Len(Repaired(p)) = Len(p)
         /\ Steps(Repaired(p)) = Steps(p)
         /\ \A i \in Steps(p) :
              /\ Repaired(p)[i].id = p[i].id /\ Repaired(p)[i].out = p[i].out
              /\ Repaired(p)[i].type = p[i].type /\ Repaired(p)[i].args = p[i].args
              /\ Repaired(p)[i].aim = p[i].aim /\ Repaired(p)[i].cond = p[i].cond
              /\ Repaired(p)[i].alias = p[i].alias
<1>1. ASSUME NEW s \in StepRecord, NEW t,
             t = [s EXCEPT !.tool = "perceive_understand", !.source = s.tool]
      PROVE  /\ t \in StepRecord /\ t.id = s.id /\ t.out = s.out /\ t.type = s.type
             /\ t.args = s.args /\ t.aim = s.aim /\ t.cond = s.cond /\ t.alias = s.alias
  <2>1. s.tool \in ToolNames /\ "perceive_understand" \in ToolNames
    BY DEF StepRecord, ToolNames, MetaTools
  <2>2. [s EXCEPT !.tool = "perceive_understand"] \in StepRecord
    BY <2>1 DEF StepRecord
  <2>3. t = [[s EXCEPT !.tool = "perceive_understand"] EXCEPT !.source = s.tool]
    BY <1>1
  <2>4. t \in StepRecord
    BY <2>1, <2>2, <2>3 DEF StepRecord
  <2> QED
    BY <1>1, <2>4 DEF StepRecord
<1>2. \A i \in Steps(p) : p[i] \in StepRecord
  BY DEF Steps
<1>3. \A i \in Steps(p) :
        /\ Repaired(p)[i] \in StepRecord
        /\ Repaired(p)[i].id = p[i].id /\ Repaired(p)[i].out = p[i].out
        /\ Repaired(p)[i].type = p[i].type /\ Repaired(p)[i].args = p[i].args
        /\ Repaired(p)[i].aim = p[i].aim /\ Repaired(p)[i].cond = p[i].cond
        /\ Repaired(p)[i].alias = p[i].alias
  <2> SUFFICES ASSUME NEW i \in Steps(p)
               PROVE  /\ Repaired(p)[i] \in StepRecord
                      /\ Repaired(p)[i].id = p[i].id /\ Repaired(p)[i].out = p[i].out
                      /\ Repaired(p)[i].type = p[i].type /\ Repaired(p)[i].args = p[i].args
                      /\ Repaired(p)[i].aim = p[i].aim /\ Repaired(p)[i].cond = p[i].cond
                      /\ Repaired(p)[i].alias = p[i].alias
    OBVIOUS
  <2>1. Repaired(p)[i] \in {p[i], [p[i] EXCEPT !.tool = "perceive_understand",
                                                !.source = p[i].tool]}
    BY DEF Repaired
  <2> QED
    BY <1>1, <1>2, <2>1
<1>4. DOMAIN Repaired(p) = 1..Len(p) /\ Steps(p) = 1..Len(p) /\ Len(p) \in Nat
  BY DEF Repaired, Steps
<1>5. Repaired(p) = [i \in 1..Len(p) |-> Repaired(p)[i]]
  BY <1>4 DEF Repaired
<1>6. Repaired(p) \in Seq(StepRecord) /\ Len(Repaired(p)) = Len(p)
  BY <1>3, <1>4, <1>5
<1> QED
  BY <1>3, <1>4, <1>6 DEF Steps

LEMMA Proposed ==
  ASSUME NEW p \in Plans
  PROVE  /\ p \in Seq(StepRecord) /\ Len(p) <= LongestPlan
         /\ \A i \in Steps(p) : p[i].id \in Ids /\ p[i].out \in Named
BY PlansAssumption DEF Ids, Named

LEMMA NoPlan ==
  /\ << >> \in Seq(StepRecord) /\ Len(<< >>) = 0 /\ Steps(<< >>) = {}
  /\ LongestPlan \in Nat /\ MaxAttempts \in Nat /\ MaxAttempts >= 1
BY PlansAssumption, AttemptsAssumption DEF Steps

-----------------------------------------------------------------------------
(* The control of the review.                                                *)

\* Warnings are about attempts there have been.
NotesTyped(notebook) ==
  DOMAIN notebook = Channels /\ \A c \in Channels : notebook[c] \in 0..attempt

LEMMA NotesAreTyped ==
  ASSUME ReviewTyped
  PROVE  /\ NotesTyped(notes) /\ NotesTyped(Signalled)
         /\ \A partial \in BOOLEAN : NotesTyped(Stored(partial))
<1>1. attempt \in Nat /\ NotesTyped(notes)
  BY NoPlan DEF ReviewTyped, NotesTyped
<1>2. \A found \in BOOLEAN : Mark(found) \in 0..attempt
  BY <1>1 DEF Mark
<1> PICK first, any : /\ first = IF UnreadPerceptions(plan) # {} THEN attempt ELSE notes["perception"]
                      /\ any = Mark(UnreadAny(plan) # {})
  OBVIOUS
<1>3. first \in 0..attempt /\ any \in 0..attempt
  <2>1. notes["perception"] \in 0..attempt /\ attempt \in 0..attempt
    BY <1>1 DEF NotesTyped, Channels
  <2>2. (UnreadAny(plan) # {}) \in BOOLEAN
    OBVIOUS
  <2>3. any \in 0..attempt
    BY <1>2, <2>2
  <2> QED
    BY <2>1, <2>3
<1>4. Signalled = [notes EXCEPT !["perception"] = first, !["any"] = any]
  BY <1>1 DEF Signalled, NotesTyped, Channels
<1>5. NotesTyped(Signalled)
  BY <1>1, <1>3, <1>4 DEF NotesTyped
<1>6. ASSUME NEW partial \in BOOLEAN PROVE NotesTyped(Stored(partial))
  <2>1. SoftSignals \in BOOLEAN
    BY DEF SoftSignals, WithoutAction
  <2>2. Mark(partial) \in 0..attempt /\ Mark(SoftSignals) \in 0..attempt
    BY <1>2, <2>1
  <2> QED
    BY <1>5, <2>2 DEF Stored, NotesTyped
<1> QED
  BY <1>1, <1>5, <1>6

LEMMA AttemptEnds ==
  ASSUME ReviewTyped, NextAttempt, policy' = policy, NotesTyped(notes')
  PROVE  ReviewTyped' /\ phase' \in {"plan", "over"} /\ plan' = << >>
<1>1. /\ attempt' \in 1..MaxAttempts /\ attempt <= attempt' /\ phase' \in {"plan", "over"}
      /\ plan' = << >> /\ sensitive' = {} /\ basis' = "none"
  BY NoPlan DEF ReviewTyped, NextAttempt
<1>2. \A c \in Channels : notes'[c] \in 0..attempt'
  BY <1>1, NoPlan DEF NotesTyped, ReviewTyped
<1> QED
  BY <1>1, <1>2, NoPlan DEF ReviewTyped, NotesTyped, Phases, Grounds

\* A plan that is as it was, under a new verdict.
LEMMA VerdictFalls ==
  ASSUME ReviewTyped, UNCHANGED <<policy, attempt, plan>>, NotesTyped(notes'),
         phase' \in Phases \ {"plan"}, basis' \in Grounds, sensitive' \subseteq Steps(plan)
  PROVE  ReviewTyped'
BY DEF ReviewTyped, NotesTyped

LEMMA ReviewStep ==
  ASSUME ReviewTyped, NEW names, ReviewNext(names)
  PROVE  /\ ReviewTyped'
         /\ phase \in {"plan", "gate", "judge", "consent"}
         /\ phase' \in {"plan", "gate", "judge", "consent", "accepted", "over"}
<1>1. /\ NotesTyped(notes) /\ NotesTyped(Signalled)
      /\ NotesTyped(Stored(TRUE)) /\ NotesTyped(Stored(FALSE))
  BY NotesAreTyped
<1>2. /\ {"gate", "judge", "consent", "accepted", "over"} \subseteq Phases \ {"plan"}
      /\ {"none", "unneeded", "waived", "inherited", "approved"} \subseteq Grounds
  BY DEF Phases, Grounds
<1>3. Declared \subseteq Steps(plan) /\ \A flags \in SUBSET Flaggable : flags \subseteq Steps(plan)
  BY DEF Declared, Flaggable
<1>4. sensitive \subseteq Steps(plan) /\ basis \in Grounds
  BY DEF ReviewTyped
<1>5. ASSUME NEW p \in Plans, Propose(p, names)
      PROVE  ReviewTyped' /\ phase = "plan" /\ phase' \in {"plan", "gate", "accepted", "over"}
  <2>1. CASE PlannerAdmits(p, names)
    <3>1. /\ plan' = p /\ phase' \in {"gate", "accepted"} /\ basis' \in {"unneeded", "none"}
          /\ sensitive' = {} /\ phase = "plan" /\ UNCHANGED <<attempt, policy, notes>>
      BY <1>5, <2>1 DEF Propose, ReviewTyped
    <3> QED
      BY <1>1, <1>2, <3>1, Proposed DEF ReviewTyped, NotesTyped
  <2>2. CASE ~PlannerAdmits(p, names)
    BY <1>1, <1>5, <2>2, AttemptEnds DEF Propose
  <2> QED
    BY <2>1, <2>2
<1>6. CASE GateOpens
  BY <1>1, <1>2, <1>4, <1>6, VerdictFalls DEF GateOpens
<1>7. CASE GateRepairs
  <2>1. /\ plan' = Repaired(plan) /\ phase = "gate" /\ phase' = "judge" /\ notes' = Signalled
        /\ UNCHANGED <<policy, attempt, sensitive, basis>>
    BY <1>7 DEF GateRepairs
  <2>2. plan \in Seq(StepRecord)
    BY DEF ReviewTyped
  <2>3. /\ plan' \in Seq(StepRecord) /\ Len(plan') = Len(plan) /\ Steps(plan') = Steps(plan)
        /\ \A i \in Steps(plan) : plan'[i].id = plan[i].id /\ plan'[i].out = plan[i].out
    BY <2>1, <2>2, RepairKeeps
  <2> QED
    BY <1>1, <1>2, <2>1, <2>3 DEF ReviewTyped, NotesTyped
<1>8. CASE GateRefuses
  BY <1>1, <1>8, AttemptEnds DEF GateRefuses
<1>9. CASE JudgeRefuses
  BY <1>1, <1>9, AttemptEnds DEF JudgeRefuses, Refuse
<1>10. CASE JudgePartial \/ JudgeAccepts
  <2>1. /\ phase = "judge" /\ phase' = "accepted" /\ basis' \in {"unneeded", "waived"}
        /\ notes' \in {Stored(TRUE), Stored(FALSE)}
        /\ UNCHANGED <<policy, attempt, plan, sensitive>>
    BY <1>10 DEF JudgePartial, JudgeAccepts, Accept
  <2> QED
    BY <1>1, <1>2, <1>4, <2>1, VerdictFalls
<1>11. ASSUME NEW flags \in SUBSET Flaggable, JudgeInherits(flags) \/ AskUser(flags)
       PROVE  ReviewTyped' /\ phase = "judge" /\ phase' \in {"accepted", "consent"}
  <2>1. /\ phase = "judge" /\ phase' \in {"accepted", "consent"} /\ basis' \in {"inherited", basis}
        /\ notes' \in {Stored(FALSE), notes} /\ sensitive' = flags \cup Declared
        /\ UNCHANGED <<policy, attempt, plan>>
    BY <1>11 DEF JudgeInherits, AskUser, Accept
  <2> QED
    BY <1>1, <1>2, <1>3, <1>4, <2>1, VerdictFalls
<1>12. CASE UserAllows
  BY <1>1, <1>2, <1>4, <1>12, VerdictFalls DEF UserAllows, Accept
<1>13. CASE UserRefuses \/ QuestionLost
  BY <1>1, <1>13, AttemptEnds DEF UserRefuses, QuestionLost, Refuse
<1>14. ASSUME GateOpens \/ GateRefuses \/ JudgeRefuses \/ UserAllows \/ UserRefuses \/ QuestionLost
       PROVE  /\ phase \in {"plan", "gate", "judge", "consent"}
              /\ phase' \in {"plan", "gate", "judge", "consent", "accepted", "over"}
  BY <1>14 DEF GateOpens, GateRefuses, JudgeRefuses, UserAllows, UserRefuses, QuestionLost,
     Refuse, Accept, NextAttempt
<1>15. ASSUME GateRepairs \/ JudgePartial \/ JudgeAccepts
       PROVE  phase \in {"gate", "judge"} /\ phase' \in {"judge", "accepted"}
  BY <1>15 DEF GateRepairs, JudgePartial, JudgeAccepts, Accept
<1> QED
  BY <1>5, <1>6, <1>7, <1>8, <1>9, <1>10, <1>11, <1>12, <1>13, <1>14, <1>15 DEF ReviewNext

-----------------------------------------------------------------------------
(* The control of the run.                                                   *)

\* A step that is being executed, and the child it may have got back.
InHand ==
  /\ phase = "run" /\ at \in {"call", "recall", "child", "judge"}
  /\ \/ returned' = returned
     \/ at = "child" /\ returned' = returned \cup {step}

Aside == UNCHANGED <<policy, notes, cancel>>

LEMMA InHandTyped ==
  ASSUME Control, InHand
  PROVE  /\ step \in Steps(plan) /\ step \in Nat /\ Len(plan) \in Nat /\ ~Past(step)
         /\ Steps(plan) = 1..Len(plan) /\ step <= Len(plan)
         /\ DOMAIN status = Steps(plan) /\ DOMAIN credits = Steps(plan)
         /\ status[step] = "pending" /\ credits[step] = << >>
         /\ returned' \subseteq Steps(plan)
         /\ \A i \in returned' : Past(i) \/ i = step
<1>1. /\ Running /\ at \notin {"head", "after"} /\ plan \in Seq(StepRecord)
      /\ DOMAIN credits = DOMAIN status /\ returned \subseteq DOMAIN status
  BY DEF Control, RunTyped, ReviewTyped, InHand
<1>2. step \in 1..Len(plan) /\ Len(plan) \in Nat /\ Steps(plan) = 1..Len(plan)
  BY <1>1 DEF Running, Steps
<1>3. ~Past(step)
  BY <1>1, <1>2 DEF Past
<1>4. DOMAIN status = Steps(plan) /\ status[step] = "pending" /\ credits[step] = << >>
  BY <1>1, <1>2, <1>3 DEF Running
<1>5. returned' \subseteq Steps(plan) /\ \A i \in returned' : Past(i) \/ i = step
  BY <1>1, <1>2, <1>4 DEF Running, InHand
<1> QED
  BY <1>1, <1>2, <1>3, <1>4, <1>5

\* The verdict on the step in hand is the one its child learns.
LEMMA VerdictGiven ==
  ASSUME Control, InHand, NEW ok \in BOOLEAN, Credit(ok),
         status' = [status EXCEPT ![step] = IF ok THEN "success" ELSE "failed"]
  PROVE  /\ DOMAIN status' = Steps(plan) /\ DOMAIN credits' = Steps(plan)
         /\ status'[step] = IF ok THEN "success" ELSE "failed"
         /\ \A i \in Steps(plan) \ {step} : status'[i] = status[i] /\ credits'[i] = credits[i]
         /\ \A i \in Steps(plan) : status'[i] \in Statuses
         /\ ChildrenCredited'
<1>1. /\ step \in Steps(plan) /\ DOMAIN status = Steps(plan) /\ DOMAIN credits = Steps(plan)
      /\ credits[step] = << >> /\ returned' \subseteq Steps(plan)
      /\ returned' \subseteq returned \cup {step}
  BY InHandTyped DEF InHand
<1>2. /\ DOMAIN status' = Steps(plan) /\ DOMAIN credits' = Steps(plan)
      /\ status'[step] = IF ok THEN "success" ELSE "failed"
      /\ \A i \in Steps(plan) \ {step} : status'[i] = status[i] /\ credits'[i] = credits[i]
  BY <1>1 DEF Credit
<1>3. \A i \in Steps(plan) : status'[i] \in Statuses
  BY <1>1, <1>2 DEF Control, RunTyped, Statuses
<1>4. step \in returned' => credits'[step] = <<ok>>
  BY <1>1 DEF Credit
<1>5. ASSUME NEW i \in returned', status'[i] # "pending"
      PROVE  credits'[i] = <<status'[i] = "success">>
  <2>1. CASE i = step
    <3>1. ok = (status'[step] = "success")
      BY <1>2
    <3> QED
      BY <1>4, <2>1, <3>1
  <2>2. CASE i # step
    BY <1>1, <1>2, <1>5, <2>2 DEF Control, ChildrenCredited
  <2> QED
    BY <2>1, <2>2
<1> QED
  BY <1>2, <1>3, <1>5 DEF ChildrenCredited

LEMMA FailsStep ==
  ASSUME Control, InHand, Aside, PlanFails
  PROVE  Control'
<1>1. /\ DOMAIN status' = Steps(plan) /\ DOMAIN credits' = Steps(plan)
      /\ \A i \in Steps(plan) : status'[i] \in Statuses
      /\ ChildrenCredited'
  BY VerdictGiven DEF PlanFails
<1>2. returned' \subseteq Steps(plan)
  BY InHandTyped
<1>3. ReviewTyped' /\ phase' \in {"plan", "over"}
  BY AttemptEnds, NotesAreTyped DEF PlanFails, Aside, Control
<1> QED
  BY <1>1, <1>2, <1>3
  DEF Control, RunTyped, CrucialStepsSucceeded, PlanFails, Aside, Positions

LEMMA StopsStep ==
  ASSUME Control, InHand, Aside, PlanStops
  PROVE  Control'
<1>1. /\ DOMAIN status' = Steps(plan) /\ DOMAIN credits' = Steps(plan)
      /\ \A i \in Steps(plan) : status'[i] \in Statuses
      /\ ChildrenCredited'
  BY VerdictGiven DEF PlanStops
<1>2. returned' \subseteq Steps(plan)
  BY InHandTyped
<1>3. ReviewTyped' /\ phase' = "over"
  BY VerdictFalls, NotesAreTyped DEF PlanStops, Aside, Control, ReviewTyped, Phases
<1> QED
  BY <1>1, <1>2, <1>3
  DEF Control, RunTyped, CrucialStepsSucceeded, PlanStops, Aside, Positions

LEMMA SucceedsStep ==
  ASSUME Control, InHand, Aside, StepSucceeds
  PROVE  Control'
<1>1. /\ DOMAIN status' = Steps(plan) /\ DOMAIN credits' = Steps(plan)
      /\ status'[step] = "success"
      /\ \A i \in Steps(plan) \ {step} : status'[i] = status[i] /\ credits'[i] = credits[i]
      /\ \A i \in Steps(plan) : status'[i] \in Statuses
      /\ ChildrenCredited'
  BY VerdictGiven DEF StepSucceeds
<1>2. /\ returned' \subseteq Steps(plan) /\ Steps(plan) = 1..Len(plan) /\ Len(plan) \in Nat
      /\ step \in Nat /\ 1 <= step /\ step <= Len(plan)
      /\ \A i \in returned' : Past(i) \/ i = step
  BY InHandTyped
<1>3. /\ UNCHANGED <<phase, attempt, plan, sensitive, basis, reported>> /\ phase = "run"
      /\ \/ at' = "after" /\ step' = step
         \/ at' = "head" /\ step' = step + 1
  BY DEF StepSucceeds, OnwardFrom, InHand
<1>4. ReviewTyped'
  BY <1>3, NotesAreTyped DEF Control, ReviewTyped, Aside
<1>5. \A i \in Steps(plan) : (i < step' \/ (i = step' /\ at' = "after")) <=> (i < step \/ i = step)
  BY <1>2, <1>3
<1>6. \A i \in Steps(plan) : Past(i) <=> i < step
  BY <1>2 DEF InHand, Past
<1>7. \A i \in Steps(plan) :
        IF i < step' \/ (i = step' /\ at' = "after")
        THEN status'[i] # "pending" /\ (status'[i] # "success" =>
               Conditional(plan[i]) /\ (plan[i].crucial => i \in reported))
        ELSE status'[i] = "pending" /\ credits'[i] = << >>
  BY <1>1, <1>2, <1>5, <1>6 DEF Control, RunTyped, Running, InHand
<1>8. Running'
  BY <1>1, <1>2, <1>3, <1>5, <1>6, <1>7 DEF Running, Past, Conditional
<1> QED
  BY <1>1, <1>2, <1>3, <1>4, <1>8
  DEF Control, RunTyped, CrucialStepsSucceeded, Aside, Positions

\* What changes neither the plan nor the records of its run.
LEMMA SettledRun ==
  ASSUME Control, UNCHANGED <<policy, attempt, plan, sensitive, notes, status, credits, returned>>,
         phase' \in {"verify", "over"}, at' = "none", cancel' \in BOOLEAN, basis' = basis,
         phase' = "verify" => CrucialStepsSucceeded' /\ DOMAIN status = Steps(plan)
  PROVE  Control'
<1>1. ReviewTyped'
  BY VerdictFalls, NotesAreTyped DEF Control, ReviewTyped, Phases
<1>2. ChildrenCredited'
  BY DEF Control, ChildrenCredited
<1>3. CrucialStepsSucceeded'
  BY DEF CrucialStepsSucceeded
<1> QED
  BY <1>1, <1>2, <1>3 DEF Control, RunTyped, Positions

LEMMA StartTyped ==
  ASSUME Control, Start
  PROVE  Control'
<1>1. /\ phase = "accepted" /\ phase' = "run" /\ step' = 1 /\ at' = "head"
      /\ sensitive' = {} /\ basis' = "none"
      /\ UNCHANGED <<policy, attempt, plan, notes, returned, cancel>> /\ returned = {}
      /\ plan \in Seq(StepRecord)
  BY DEF Start, Control, RunTyped, ReviewTyped
<1>2. /\ DOMAIN status' = Steps(plan) /\ DOMAIN credits' = Steps(plan)
      /\ \A i \in Steps(plan) : status'[i] = "pending" /\ credits'[i] = << >>
  BY DEF Start
<1>3. ReviewTyped'
  BY <1>1, NotesAreTyped DEF Control, ReviewTyped, Phases, Grounds
<1>4. Steps(plan) = 1..Len(plan) /\ Len(plan) \in Nat
  BY <1>1 DEF Steps
<1>5. Running'
  <2>1. \A i \in Steps(plan) : ~(i < 1 \/ (i = 1 /\ at' = "after"))
    BY <1>1, <1>4
  <2> QED
    BY <1>1, <1>2, <1>4, <2>1 DEF Running, Past
<1> QED
  BY <1>1, <1>2, <1>3, <1>5
  DEF Control, RunTyped, CrucialStepsSucceeded, ChildrenCredited, Positions, Statuses

\* What happens at the head of a step, or during a wait.
LEMMA HeadTyped ==
  ASSUME Control, phase = "run", at \in {"head", "before", "after"}
  PROVE  /\ Running /\ Steps(plan) = 1..Len(plan) /\ Len(plan) \in Nat /\ step \in Nat
         /\ 1 <= step /\ step <= Len(plan) + 1 /\ returned \subseteq Steps(plan)
         /\ \A i \in returned : Past(i)
         /\ DOMAIN status = Steps(plan) /\ DOMAIN credits = Steps(plan)
<1>1. /\ Running /\ at # "judge" /\ plan \in Seq(StepRecord)
      /\ DOMAIN credits = DOMAIN status /\ returned \subseteq DOMAIN status
  BY DEF Control, RunTyped, ReviewTyped
<1> QED
  BY <1>1 DEF Running, Steps

\* A step that ends without having begun.
LEMMA Passed ==
  ASSUME Control, AtHead, NEW verdict \in {"failed", "skipped"},
         status' = [status EXCEPT ![step] = verdict], reported' = Reported,
         Conditional(S), OnwardFrom(step, "head"), Quiet,
         UNCHANGED <<notes, returned, credits, cancel>>
  PROVE  Control'
<1>1. /\ Running /\ Steps(plan) = 1..Len(plan) /\ Len(plan) \in Nat /\ step \in Nat
      /\ 1 <= step /\ step <= Len(plan) /\ returned \subseteq Steps(plan)
      /\ \A i \in returned : Past(i)
      /\ DOMAIN status = Steps(plan) /\ DOMAIN credits = Steps(plan)
      /\ phase = "run" /\ at = "head"
  BY HeadTyped DEF AtHead
<1>2. /\ DOMAIN status' = Steps(plan) /\ status'[step] = verdict
      /\ \A i \in Steps(plan) \ {step} : status'[i] = status[i]
  BY <1>1
<1>3. /\ step' = step + 1 /\ at' = "head"
      /\ UNCHANGED <<policy, phase, attempt, plan, sensitive, basis, consents, shown>>
  BY DEF OnwardFrom, Quiet
<1>4. ReviewTyped'
  BY <1>3, NotesAreTyped DEF Control, ReviewTyped
<1>5. \A i \in Steps(plan) : (Past(i) <=> i < step) /\ (i < step' <=> i < step \/ i = step)
  BY <1>1, <1>3 DEF Past
<1>6. reported \subseteq reported' /\ (plan[step].crucial => step \in reported')
  BY DEF Reported, S
<1>7. \A i \in Steps(plan) :
        IF i < step'
        THEN status'[i] # "pending" /\ (status'[i] # "success" =>
               Conditional(plan[i]) /\ (plan[i].crucial => i \in reported'))
        ELSE status'[i] = "pending" /\ credits[i] = << >>
  <2> SUFFICES ASSUME NEW i \in Steps(plan)
               PROVE  IF i < step'
                      THEN status'[i] # "pending" /\ (status'[i] # "success" =>
                             Conditional(plan[i]) /\ (plan[i].crucial => i \in reported'))
                      ELSE status'[i] = "pending" /\ credits[i] = << >>
    OBVIOUS
  <2>1. CASE i = step
    BY <1>1, <1>2, <1>5, <1>6, <2>1 DEF S
  <2>2. CASE i # step
    BY <1>1, <1>2, <1>5, <1>6, <2>2 DEF Running
  <2> QED
    BY <2>1, <2>2
<1>8. Running'
  BY <1>1, <1>2, <1>3, <1>5, <1>7 DEF Running, Past, Conditional
<1>9. \A i \in Steps(plan) : status'[i] \in Statuses
  BY <1>1, <1>2 DEF Control, RunTyped, Statuses
<1>10. ChildrenCredited'
  <2>1. \A i \in returned : i \in Steps(plan) \ {step}
    BY <1>1, <1>5
  <2> QED
    BY <1>2, <2>1 DEF Control, ChildrenCredited
<1> QED
  BY <1>1, <1>2, <1>3, <1>4, <1>8, <1>9, <1>10
  DEF Control, RunTyped, CrucialStepsSucceeded, Positions

\* A step that goes on, with no verdict yet.
LEMMA Proceeds ==
  ASSUME Control, phase = "run", Running, at # "after", at' \in Positions \ {"none", "after"},
         at' # "head" => step <= Len(plan), cancel' \in BOOLEAN,
         UNCHANGED <<policy, phase, attempt, plan, sensitive, basis, notes, step, status,
                     reported, credits>>,
         returned' \subseteq returned \cup {step}, returned' \subseteq Steps(plan),
         \A i \in returned' : Past(i) \/ (i = step /\ at' = "judge")
  PROVE  Control'
<1>1. ReviewTyped'
  BY NotesAreTyped DEF Control, ReviewTyped
<1>2. \A i : Past(i)' <=> Past(i)
  BY DEF Past
<1>3. Running'
  BY <1>2 DEF Running, Conditional
<1>4. \A i \in returned' : i \in returned \/ status[i] = "pending"
  <2> SUFFICES ASSUME NEW i \in returned', i \notin returned
               PROVE  status[i] = "pending"
    OBVIOUS
  <2>1. i = step /\ i \in Steps(plan) /\ plan \in Seq(StepRecord)
    BY DEF Control, ReviewTyped
  <2>2. ~Past(i)
    BY <2>1 DEF Past, Running, Steps
  <2> QED
    BY <2>1, <2>2 DEF Running
<1>5. ChildrenCredited'
  BY <1>4 DEF Control, ChildrenCredited
<1> QED
  BY <1>1, <1>3, <1>5 DEF Control, RunTyped, CrucialStepsSucceeded, Running

LEMMA BeginTyped ==
  ASSUME Control, Begin \/ WaitedBefore \/ CallFailsOnce \/ StopOrClear
  PROVE  Control'
<1>1. /\ phase = "run" /\ Running /\ at \in Positions /\ cancel \in BOOLEAN
      /\ plan \in Seq(StepRecord) /\ returned \subseteq Steps(plan)
      /\ \A i \in returned : Past(i) \/ (i = step /\ at = "judge")
  BY DEF Control, RunTyped, ReviewTyped, Running, Begin, WaitedBefore, CallFailsOnce, StopOrClear,
     AtHead, AtCall, Suspended
<1>2. CASE Begin
  <2>1. /\ at = "head" /\ at' \in {"child", "before", "call"} /\ step <= Len(plan)
        /\ UNCHANGED <<reviewVars, step, status, reported, returned, credits, cancel>>
    BY <1>2 DEF Begin, AtHead
  <2> QED
    BY <1>1, <2>1, Proceeds DEF reviewVars, Positions
<1>3. CASE WaitedBefore
  <2>1. /\ at = "before" /\ at' = "call"
        /\ UNCHANGED <<reviewVars, step, status, reported, returned, credits, cancel>>
    BY <1>3 DEF WaitedBefore
  <2>2. step <= Len(plan)
    BY <1>1, <2>1 DEF Running
  <2> QED
    BY <1>1, <2>1, <2>2, Proceeds DEF reviewVars, Positions
<1>4. CASE CallFailsOnce
  <2>1. /\ at = "call" /\ at' = "recall"
        /\ UNCHANGED <<reviewVars, step, status, reported, returned, credits, cancel>>
    BY <1>4 DEF CallFailsOnce, AtCall
  <2>2. step <= Len(plan)
    BY <1>1, <2>1 DEF Running
  <2> QED
    BY <1>1, <2>1, <2>2, Proceeds DEF reviewVars, Positions
<1>5. CASE StopOrClear
  <2>1. cancel' \in BOOLEAN
    BY <1>5 DEF StopOrClear
  <2> QED
    BY <1>5, <2>1, NotesAreTyped
    DEF StopOrClear, reviewVars, Control, ReviewTyped, RunTyped, Running, Past, Conditional,
        CrucialStepsSucceeded, ChildrenCredited
<1> QED
  BY <1>2, <1>3, <1>4, <1>5

LEMMA WaitedAfterTyped ==
  ASSUME Control, WaitedAfter
  PROVE  Control'
<1>1. /\ Running /\ Steps(plan) = 1..Len(plan) /\ Len(plan) \in Nat /\ step \in Nat
      /\ 1 <= step /\ step <= Len(plan) /\ returned \subseteq Steps(plan)
      /\ \A i \in returned : Past(i)
      /\ phase = "run" /\ at = "after"
  BY HeadTyped DEF WaitedAfter, Running
<1>2. /\ step' = step + 1 /\ at' = "head"
      /\ UNCHANGED <<policy, phase, attempt, plan, sensitive, basis, notes, status, reported,
                     returned, credits, cancel>>
  BY DEF WaitedAfter, OnwardFrom, Quiet
<1>3. ReviewTyped'
  BY <1>2, NotesAreTyped DEF Control, ReviewTyped
<1>4. \A i \in Steps(plan) : Past(i)' <=> Past(i)
  BY <1>1, <1>2 DEF Past
<1>5. Running'
  BY <1>1, <1>2, <1>4 DEF Running, Conditional
<1> QED
  BY <1>1, <1>2, <1>3, <1>5
  DEF Control, RunTyped, CrucialStepsSucceeded, ChildrenCredited, Positions

LEMMA CallsTyped ==
  ASSUME Control, AnswerInWords \/ CallFailsForGood \/ CallReturns \/ Recalled
  PROVE  Control'
<1>1. InHand /\ Aside
  BY DEF InHand, Aside, Quiet, AnswerInWords, CallFailsForGood, CallReturns, Recalled, AtCall
<1>2. PlanStops \/ PlanFails \/ StepSucceeds
  BY DEF AnswerInWords, CallFailsForGood, CallReturns, Recalled
<1> QED
  BY <1>1, <1>2, FailsStep, StopsStep, SucceedsStep

LEMMA ChildTyped ==
  ASSUME Control, ChildFails \/ ChildSucceeds \/ \E ok \in BOOLEAN : Judged(ok)
  PROVE  Control'
<1>1. InHand /\ Aside
  BY DEF InHand, Aside, Quiet, ChildFails, ChildSucceeds, ChildReturns, Judged
<1>2. CASE PlanStops \/ PlanFails \/ StepSucceeds
  BY <1>1, <1>2, FailsStep, StopsStep, SucceedsStep
<1>3. ASSUME ~(PlanStops \/ PlanFails \/ StepSucceeds) PROVE Control'
  <2>1. /\ at = "child" /\ at' = "judge" /\ returned' = returned \cup {step} /\ phase = "run"
        /\ UNCHANGED <<policy, phase, attempt, plan, sensitive, basis, notes, step, status,
                       reported, credits, cancel>>
    BY <1>3 DEF ChildFails, ChildSucceeds, ChildReturns, Judged, Quiet
  <2>2. /\ Running /\ step \in Steps(plan) /\ step <= Len(plan) /\ returned' \subseteq Steps(plan)
        /\ cancel \in BOOLEAN /\ \A i \in returned : Past(i)
    <3>1. Running /\ cancel \in BOOLEAN
      BY <2>1 DEF Control, RunTyped
    <3> QED
      BY <1>1, <2>1, <3>1, InHandTyped DEF Running
  <2>3. /\ Running /\ at # "after" /\ at' \in Positions \ {"none", "after"}
        /\ returned' \subseteq returned \cup {step} /\ cancel' \in BOOLEAN
        /\ \A i \in returned' : Past(i) \/ (i = step /\ at' = "judge")
    BY <2>1, <2>2 DEF Positions
  <2> QED
    BY <2>1, <2>2, <2>3, Proceeds
<1> QED
  BY <1>2, <1>3

LEMMA EndsTyped ==
  ASSUME Control, StoppedAtHead \/ Raised \/ Ends \/ Verified
  PROVE  Control'
<1>1. /\ cancel \in BOOLEAN /\ basis \in Grounds
      /\ DOMAIN credits = DOMAIN status /\ returned \subseteq DOMAIN status
      /\ \A i \in DOMAIN status : status[i] \in Statuses
      /\ phase = "run" => Running
  BY DEF Control, RunTyped, ReviewTyped
<1>2. CASE StoppedAtHead \/ Raised
  BY <1>1, <1>2, SettledRun DEF StoppedAtHead, Raised, Quiet
<1>3. ASSUME NextAttempt, at' = "none", UNCHANGED <<policy, notes, status, returned, credits, cancel>>
      PROVE  Control'
  <2>1. ReviewTyped' /\ phase' \in {"plan", "over"}
    BY <1>3, AttemptEnds, NotesAreTyped DEF Control
  <2> QED
    BY <1>1, <1>3, <2>1
    DEF Control, RunTyped, CrucialStepsSucceeded, ChildrenCredited, Positions
<1>4. CASE Ends
  <2>1. CASE reported = {}
    <3>1. /\ phase = "run" /\ at = "head" /\ step > Len(plan) /\ phase' = "verify" /\ at' = "none"
          /\ UNCHANGED <<policy, attempt, plan, sensitive, basis, notes, status, returned, credits,
                         cancel>>
      BY <1>4, <2>1 DEF Ends, AtEnd, Quiet
    <3>2. /\ Running /\ Steps(plan) = 1..Len(plan) /\ Len(plan) \in Nat /\ step \in Nat
      BY <3>1, HeadTyped
    <3>3. \A i \in Steps(plan) : i < step
      BY <3>1, <3>2
    <3>4. \A i \in Steps(plan) : status[i] # "success" =>
            ~plan[i].crucial /\ Conditional(plan[i])
      BY <2>1, <3>2, <3>3 DEF Running, Past
    <3>5. CrucialStepsSucceeded' /\ DOMAIN status = Steps(plan)
      BY <3>1, <3>2, <3>4 DEF CrucialStepsSucceeded, Running, Conditional
    <3> QED
      BY <1>1, <3>1, <3>5, SettledRun
  <2>2. CASE reported # {}
    BY <1>3, <1>4, <2>2 DEF Ends, Quiet
  <2> QED
    BY <2>1, <2>2
<1>5. CASE Verified
  <2>1. at = "none" /\ phase = "verify"
    BY <1>5 DEF Verified, Control, RunTyped
  <2>2. UNCHANGED <<at, policy, notes, status, returned, credits, cancel>>
    BY <1>5 DEF Verified, Quiet, execVars
  <2>3. CASE NextAttempt
    BY <1>3, <2>1, <2>2, <2>3
  <2>4. CASE phase' = "over" /\ UNCHANGED <<attempt, plan, sensitive, basis>>
    BY <1>1, <2>1, <2>2, <2>4, SettledRun
  <2> QED
    BY <1>5, <2>3, <2>4 DEF Verified
<1> QED
  BY <1>2, <1>3, <1>4, <1>5

LEMMA ReviewTypedStep ==
  ASSUME Control, Review
  PROVE  Control'
<1>1. /\ ReviewTyped' /\ phase \in {"plan", "gate", "judge", "consent"}
      /\ phase' \in {"plan", "gate", "judge", "consent", "accepted", "over"}
  BY ReviewStep DEF Control, Review
<1>2. /\ status' = << >> /\ credits' = << >> /\ returned' = {}
      /\ UNCHANGED <<at, cancel>>
  BY DEF Review
<1>3. at = "none" /\ cancel \in BOOLEAN
  BY <1>1 DEF Control, RunTyped
<1>4. DOMAIN << >> = {}
  OBVIOUS
<1> QED
  BY <1>1, <1>2, <1>3, <1>4
  DEF Control, RunTyped, CrucialStepsSucceeded, ChildrenCredited, Positions

LEMMA ControlStep ==
  ASSUME Control, [Next]_vars
  PROVE  Control'
<1>1. CASE Review
  BY <1>1, ReviewTypedStep
<1>2. CASE Start
  BY <1>2, StartTyped
<1>3. CASE ConditionBroken
  BY <1>3, Passed DEF ConditionBroken, Broken, ReportedIfBroken
<1>4. CASE Skip
  <2>1. Conditional(S)
    BY <1>4 DEF Skip, Met
  <2> QED
    BY <1>4, <2>1, Passed DEF Skip
<1>5. CASE Begin \/ WaitedBefore \/ CallFailsOnce \/ StopOrClear
  BY <1>5, BeginTyped
<1>6. CASE WaitedAfter
  BY <1>6, WaitedAfterTyped
<1>7. CASE AnswerInWords \/ CallFailsForGood \/ CallReturns \/ Recalled
  BY <1>7, CallsTyped
<1>8. CASE ChildFails \/ ChildSucceeds \/ \E ok \in BOOLEAN : Judged(ok)
  BY <1>8, ChildTyped
<1>9. CASE StoppedAtHead \/ Raised \/ Ends \/ Verified
  BY <1>9, EndsTyped
<1>10. CASE UNCHANGED vars
  BY <1>10
  DEF vars, reviewVars, execVars, Control, ReviewTyped, RunTyped, Running, Past, Conditional,
      CrucialStepsSucceeded, ChildrenCredited
<1> QED
  BY <1>1, <1>2, <1>3, <1>4, <1>5, <1>6, <1>7, <1>8, <1>9, <1>10 DEF Next, Execute

LEMMA ControlInit ==
  ASSUME Init
  PROVE  Control
<1>1. /\ policy \in Policies /\ phase = "plan" /\ attempt = 1 /\ plan = << >> /\ sensitive = {}
      /\ basis = "none" /\ notes = [c \in Channels |-> 0] /\ at = "none" /\ status = << >>
      /\ returned = {} /\ credits = << >> /\ cancel = FALSE
  BY DEF Init, ReviewInit
<1>2. ReviewTyped
  BY <1>1, NoPlan DEF ReviewTyped, Phases, Grounds
<1>3. DOMAIN << >> = {}
  OBVIOUS
<1> QED
  BY <1>1, <1>2, <1>3
  DEF Control, RunTyped, CrucialStepsSucceeded, ChildrenCredited, Positions

-----------------------------------------------------------------------------
(* What the user said, and what the warnings are about.                      *)

\* Only the review accepts plans and hears the user.
LEMMA ExecutionIsQuiet ==
  ASSUME Execute \/ StopOrClear
  PROVE  UNCHANGED <<consents, shown>> /\ phase' # "accepted"
<1>1. CASE Start \/ Begin \/ WaitedBefore \/ CallFailsOnce \/ StopOrClear
  BY <1>1 DEF Start, Begin, WaitedBefore, CallFailsOnce, StopOrClear, AtHead, AtCall, Suspended,
     reviewVars
<1>2. CASE StoppedAtHead \/ ConditionBroken \/ Skip \/ WaitedAfter
  BY <1>2 DEF StoppedAtHead, ConditionBroken, Skip, WaitedAfter, Quiet, OnwardFrom, AtHead
<1>3. ASSUME AnswerInWords \/ CallFailsForGood \/ CallReturns \/ Recalled
             \/ ChildFails \/ ChildSucceeds \/ \E ok \in BOOLEAN : Judged(ok)
      PROVE  UNCHANGED <<consents, shown>> /\ phase' # "accepted"
  <2>1. phase = "run" /\ Quiet
    BY <1>3 DEF AnswerInWords, CallFailsForGood, CallReturns, Recalled, ChildFails, ChildSucceeds,
       ChildReturns, Judged, AtCall
  <2>2. \/ PlanStops \/ PlanFails \/ StepSucceeds
        \/ phase' = phase
    BY <1>3 DEF AnswerInWords, CallFailsForGood, CallReturns, Recalled, ChildFails, ChildSucceeds,
       Judged
  <2>3. phase' \in {phase, "plan", "over"}
    BY <2>2 DEF PlanStops, PlanFails, NextAttempt, StepSucceeds, OnwardFrom
  <2> QED
    BY <2>1, <2>3 DEF Quiet
<1>4. CASE Raised \/ Ends \/ Verified
  BY <1>4 DEF Raised, Ends, Verified, Quiet, NextAttempt
<1> QED
  BY <1>1, <1>2, <1>3, <1>4 DEF Execute

Heard == ConsentsRecorded /\ InheritedConsentWasGiven /\ WarningsAreCurrent

\* A consent that is inherited was given: each record of one is of a question.
LEMMA InheritedFromTheUser ==
  ASSUME ConsentsRecorded, NEW marked, Inherits(plan, marked)
  PROVE  /\ shown # {} /\ \A s \in shown : s.allowed
         /\ \A i \in marked :
              \E s \in shown : \/ IsTool(plan[i]) /\ plan[i].tool \in Tools(s.plan)
                               \/ plan[i].deed \in Deeds(s.plan, s.marked)
<1>1. shown # {} /\ \A s \in shown : s.allowed
  BY DEF ConsentsRecorded, Inherits
<1>2. ASSUME NEW i \in marked
      PROVE  \E s \in shown : \/ IsTool(plan[i]) /\ plan[i].tool \in Tools(s.plan)
                              \/ plan[i].deed \in Deeds(s.plan, s.marked)
  <2>1. PICK c \in consents : /\ c.approved
                              /\ \/ IsTool(plan[i]) /\ plan[i].tool \in c.tools
                                 \/ plan[i].deed \in c.deeds
    BY <1>2 DEF Inherits, Allowed
  <2> QED
    BY <2>1 DEF ConsentsRecorded
<1> QED
  BY <1>1, <1>2

LEMMA AnswerRecorded ==
  ASSUME ConsentsRecorded, NEW c, NEW s, consents' = consents \cup {c}, shown' = shown \cup {s},
         s.allowed = c.approved,
         c.approved => c.tools = Tools(s.plan) /\ c.deeds = Deeds(s.plan, s.marked)
  PROVE  ConsentsRecorded'
BY DEF ConsentsRecorded

LEMMA StoredIsCurrent ==
  ASSUME ReviewTyped, NEW partial \in BOOLEAN
  PROVE  \A c \in Channels \ {"perception"} : Stored(partial)[c] \in {0, attempt}
<1>1. DOMAIN notes = Channels
  BY DEF ReviewTyped
<1>2. \A found \in BOOLEAN : Mark(found) \in {0, attempt}
  BY DEF Mark
<1>3. SoftSignals \in BOOLEAN /\ (UnreadAny(plan) # {}) \in BOOLEAN
  BY DEF SoftSignals, WithoutAction
<1>4. /\ Mark(partial) \in {0, attempt} /\ Mark(SoftSignals) \in {0, attempt}
      /\ Mark(UnreadAny(plan) # {}) \in {0, attempt}
  BY <1>2, <1>3
<1>5. /\ Stored(partial)["gaps"] = Mark(partial) /\ Stored(partial)["soft"] = Mark(SoftSignals)
      /\ Stored(partial)["any"] = Mark(UnreadAny(plan) # {})
  BY <1>1 DEF Stored, Signalled, Channels
<1> QED
  BY <1>4, <1>5 DEF Channels

LEMMA HeardStep ==
  ASSUME ReviewTyped, Heard, NEW names, ReviewNext(names)
  PROVE  Heard'
<1>1. ASSUME UNCHANGED <<consents, shown>> PROVE ConsentsRecorded'
  BY <1>1 DEF ConsentsRecorded, Heard
<1>2. ASSUME UNCHANGED <<consents, shown>>, phase' # "accepted" PROVE Heard'
  BY <1>1, <1>2 DEF Heard, InheritedConsentWasGiven, WarningsAreCurrent
<1>3. ASSUME phase' = "accepted", UNCHANGED <<attempt, plan>>, notes' \in {Stored(TRUE), Stored(FALSE)}
      PROVE  WarningsAreCurrent'
  BY <1>3, StoredIsCurrent DEF WarningsAreCurrent
<1>4. ASSUME NEW p \in Plans, Propose(p, names) PROVE Heard'
  <2>1. UNCHANGED <<consents, shown>>
    BY <1>4 DEF Propose
  <2>2. CASE phase' = "accepted"
    <3>1. PureAnswer(plan') /\ basis' = "unneeded"
      BY <1>4, <2>2 DEF Propose, NextAttempt
    <3> QED
      BY <1>1, <2>1, <3>1 DEF Heard, InheritedConsentWasGiven, WarningsAreCurrent
  <2> QED
    BY <1>2, <2>1, <2>2
<1>5. CASE GateOpens \/ GateRepairs \/ GateRefuses \/ JudgeRefuses \/ QuestionLost
  <2>1. UNCHANGED <<consents, shown>> /\ phase' # "accepted"
    BY <1>5 DEF GateOpens, GateRepairs, GateRefuses, JudgeRefuses, QuestionLost, Refuse, NextAttempt
  <2> QED
    BY <1>2, <2>1
<1>6. CASE JudgePartial \/ JudgeAccepts
  <2>1. /\ UNCHANGED <<consents, shown, attempt, plan>> /\ phase' = "accepted"
        /\ basis' # "inherited" /\ notes' \in {Stored(TRUE), Stored(FALSE)}
    BY <1>6 DEF JudgePartial, JudgeAccepts, Accept
  <2> QED
    BY <1>1, <1>3, <2>1 DEF Heard, InheritedConsentWasGiven
<1>7. ASSUME NEW flags \in SUBSET Flaggable, JudgeInherits(flags) PROVE Heard'
  <2>1. /\ UNCHANGED <<consents, shown, attempt, plan>> /\ phase' = "accepted"
        /\ notes' \in {Stored(TRUE), Stored(FALSE)}
        /\ Inherits(plan, sensitive')
    BY <1>7 DEF JudgeInherits, Accept
  <2>2. /\ shown # {} /\ \A s \in shown : s.allowed
        /\ \A i \in sensitive' :
             \E s \in shown : \/ IsTool(plan[i]) /\ plan[i].tool \in Tools(s.plan)
                              \/ plan[i].deed \in Deeds(s.plan, s.marked)
    BY <2>1, InheritedFromTheUser DEF Heard
  <2> QED
    BY <1>1, <1>3, <2>1, <2>2 DEF Heard, InheritedConsentWasGiven
<1>8. ASSUME NEW flags \in SUBSET Flaggable, AskUser(flags) PROVE Heard'
  BY <1>2, <1>8 DEF AskUser
<1>9. CASE UserAllows
  <2>1. /\ consents' = consents \cup {Approved(plan, sensitive)}
        /\ shown' = shown \cup {[plan |-> plan, marked |-> sensitive, allowed |-> TRUE]}
        /\ UNCHANGED <<attempt, plan>> /\ phase' = "accepted"
        /\ basis' # "inherited" /\ notes' \in {Stored(TRUE), Stored(FALSE)}
    BY <1>9 DEF UserAllows, Accept
  <2> PICK c, s : /\ c = Approved(plan, sensitive)
                  /\ s = [plan |-> plan, marked |-> sensitive, allowed |-> TRUE]
    OBVIOUS
  <2>2. /\ s.allowed = c.approved
        /\ c.approved => c.tools = Tools(s.plan) /\ c.deeds = Deeds(s.plan, s.marked)
    BY DEF Approved
  <2>3. ConsentsRecorded'
    BY <2>1, <2>2, AnswerRecorded DEF Heard
  <2> QED
    BY <1>3, <2>1, <2>3 DEF Heard, InheritedConsentWasGiven
<1>10. CASE UserRefuses
  <2>1. /\ consents' = consents \cup {Refused(plan)}
        /\ shown' = shown \cup {[plan |-> plan, marked |-> sensitive, allowed |-> FALSE]}
        /\ phase' # "accepted"
    BY <1>10 DEF UserRefuses, Refuse, NextAttempt
  <2> PICK c, s : /\ c = Refused(plan)
                  /\ s = [plan |-> plan, marked |-> sensitive, allowed |-> FALSE]
    OBVIOUS
  <2>2. s.allowed = c.approved /\ ~c.approved
    BY DEF Refused
  <2>3. ConsentsRecorded'
    BY <2>1, <2>2, AnswerRecorded DEF Heard
  <2> QED
    BY <2>1, <2>3 DEF Heard, InheritedConsentWasGiven, WarningsAreCurrent
<1> QED
  BY <1>4, <1>5, <1>6, <1>7, <1>8, <1>9, <1>10 DEF ReviewNext

LEMMA HeardAlways ==
  /\ Init => Heard
  /\ Control /\ Heard /\ [Next]_vars => Heard'
<1>1. Init => Heard
  BY DEF Init, ReviewInit, Heard, ConsentsRecorded, InheritedConsentWasGiven, WarningsAreCurrent
<1>2. ASSUME Control, Heard, [Next]_vars PROVE Heard'
  <2>1. CASE Review
    BY <1>2, <2>1, HeardStep DEF Review, Control
  <2>2. CASE Execute \/ StopOrClear
    <3>1. UNCHANGED <<consents, shown>> /\ phase' # "accepted"
      BY <2>2, ExecutionIsQuiet
    <3> QED
      BY <1>2, <3>1 DEF Heard, ConsentsRecorded, InheritedConsentWasGiven, WarningsAreCurrent
  <2>3. CASE UNCHANGED vars
    BY <1>2, <2>3
    DEF vars, reviewVars, Heard, ConsentsRecorded, InheritedConsentWasGiven, WarningsAreCurrent
  <2> QED
    BY <1>2, <2>1, <2>2, <2>3 DEF Next
<1> QED
  BY <1>1, <1>2

-----------------------------------------------------------------------------
(* Serial numbers.                                                           *)

\* A later attempt has greater serials, whatever the steps.
LEMMA SerialsGrow ==
  ASSUME NEW n \in Nat, NEW m \in Nat, NEW i \in 0..LongestPlan, NEW j \in 0..LongestPlan
  PROVE  /\ SerialIn(n, i) \in Nat
         /\ n >= 1 => SerialIn(n, i) >= 1
         /\ n < m => SerialIn(n, i) < SerialIn(m, j)
         /\ SerialIn(n, i) <= SerialIn(n, j) <=> i <= j
         /\ SerialIn(n, i) = SerialIn(m, j) => n = m /\ i = j
<1>1. LongestPlan \in Nat /\ i \in Nat /\ j \in Nat
  BY NoPlan
<1> PICK w \in Nat : w = LongestPlan + 1
  BY <1>1
<1>2. w \in Nat /\ w >= 1 /\ i < w /\ j < w
  BY <1>1
<1>3. ASSUME NEW a \in Nat, NEW b \in Nat, a < b PROVE w * a + w <= w * b
  <2> PICK d \in Nat : d = b - a - 1
    BY <1>3
  <2>1. b = a + (d + 1)
    BY <1>3
  <2>2. w * b = w * a + (w * d + w)
    BY <2>1
  <2>3. w * d >= 0
    BY <1>2
  <2>4. w * a \in Nat /\ w * d \in Nat
    BY <1>2
  <2> QED
    BY <2>2, <2>3, <2>4
<1> PICK a, b : a = w * n /\ b = w * m
  OBVIOUS
<1>4. /\ SerialIn(n, i) = a + i /\ SerialIn(m, j) = b + j /\ SerialIn(n, j) = a + j
      /\ a \in Nat /\ b \in Nat
  BY <1>2 DEF SerialIn
<1>5. n >= 1 => a >= 1
  BY <1>2
<1>6. n < m => a + w <= b
  BY <1>3
<1>7. m < n => b + w <= a
  BY <1>3
<1> QED
  BY <1>1, <1>2, <1>4, <1>5, <1>6, <1>7

\* Every serial of a step is one of the keys' serials.
LEMMA SerialsBounded ==
  ASSUME NEW n \in 1..MaxAttempts, NEW i \in 1..LongestPlan
  PROVE  /\ SerialIn(n, i) \in 1..SerialIn(MaxAttempts, LongestPlan)
         /\ SerialIn(MaxAttempts, LongestPlan) \in Nat
<1>1. /\ LongestPlan \in Nat /\ MaxAttempts \in Nat /\ n \in Nat /\ i \in 0..LongestPlan
      /\ LongestPlan \in 0..LongestPlan
  BY NoPlan
<1>2. /\ SerialIn(n, i) \in Nat /\ SerialIn(n, i) >= 1
      /\ n < MaxAttempts => SerialIn(n, i) < SerialIn(MaxAttempts, LongestPlan)
      /\ SerialIn(n, i) <= SerialIn(n, LongestPlan)
  BY <1>1, SerialsGrow
<1>3. SerialIn(MaxAttempts, LongestPlan) \in Nat
  BY <1>1, SerialsGrow
<1> QED
  BY <1>1, <1>2, <1>3

-----------------------------------------------------------------------------
(* Writing the registry.                                                     *)

Good(reg) == DOMAIN reg \subseteq KeySet /\ \A k \in DOMAIN reg : EntryOK(k, reg[k])

\* reg grows into new, and what is of this attempt stays so.
Grows(reg, new) ==
  /\ DOMAIN reg \subseteq DOMAIN new
  /\ \A k \in DOMAIN reg : reg[k].wrote = attempt => new[k].wrote = attempt

Written(reg, keys) == keys \subseteq DOMAIN reg /\ \A k \in keys : reg[k].wrote = attempt

LEMMA GrowthComposes ==
  ASSUME NEW a, NEW b, NEW c, Grows(a, b), Grows(b, c)
  PROVE  Grows(a, c) /\ \A keys : Written(b, keys) => Written(c, keys)
BY DEF Grows, Written

LEMMA WithKeeps ==
  ASSUME NEW reg, Good(reg), NEW keys, keys \subseteq KeySet, NEW e, e.wrote = attempt,
         \A k \in keys : EntryOK(k, e)
  PROVE  /\ Good(With(reg, keys, e)) /\ Grows(reg, With(reg, keys, e))
         /\ Written(With(reg, keys, e), keys)
BY DEF Good, Grows, Written, With

\* A key that may carry the mark of this attempt.
Markable(k, e) == (k.serial = 0 /\ k.flavour # "bare") \/ (k.serial # 0 /\ e.wrote = attempt)

LEMMA TaggedKeeps ==
  ASSUME NEW reg, Good(reg), NEW keys, attempt \in Nat \ {0},
         \A k \in keys \cap DOMAIN reg : Markable(k, reg[k])
  PROVE  Good(Tagged(reg, keys)) /\ Grows(reg, Tagged(reg, keys))
<1> PICK new : new = Tagged(reg, keys)
  OBVIOUS
<1>1. DOMAIN new = DOMAIN reg
  BY DEF Tagged
<1>2. ASSUME NEW k \in DOMAIN reg
      PROVE  EntryOK(k, new[k]) /\ new[k].wrote = reg[k].wrote
  <2>1. EntryOK(k, reg[k])
    BY <1>2 DEF Good
  <2>2. CASE k \notin keys
    BY <2>1, <2>2 DEF Tagged
  <2>3. CASE k \in keys
    <3> PICK e, f : e = reg[k] /\ f = [e EXCEPT !.tag = attempt]
      OBVIOUS
    <3>1. DOMAIN e = {"value", "tag", "wrote"} /\ new[k] = f
      BY <2>1, <2>3 DEF EntryOK, Tagged
    <3>2. DOMAIN f = {"value", "tag", "wrote"} /\ f.tag = attempt /\ f.wrote = e.wrote
      BY <3>1
    <3>3. Markable(k, e)
      BY <2>3
    <3> QED
      BY <2>1, <3>1, <3>2, <3>3 DEF EntryOK, Markable
  <2> QED
    BY <2>2, <2>3
<1> QED
  BY <1>1, <1>2 DEF Good, Grows

\* The keys and the entries that the step in hand writes.
LEMMA StepWrites ==
  ASSUME ReviewTyped, step \in Steps(plan)
  PROVE  /\ attempt \in Nat \ {0} /\ attempt \in 1..MaxAttempts /\ step \in 1..LongestPlan
         /\ S \in StepRecord /\ S.id \in STRING /\ S.out \in STRING /\ S.out \in Named
         /\ S.alias \in STRING /\ S.tells \in {"bool", "data"}
         /\ \A f \in {"bool", "data"} :
              /\ OwnKey(f) \in KeySet /\ Outs(f) \subseteq KeySet
              /\ \A value : \A tag \in {0, attempt} :
                   /\ EntryOK(OwnKey(f), Entry(value, tag))
                   /\ \A k \in Outs(f) : EntryOK(k, Entry(value, tag))
<1>1. /\ attempt \in Nat \ {0} /\ attempt \in 1..MaxAttempts /\ plan \in Seq(StepRecord)
      /\ step \in 1..Len(plan) /\ Len(plan) \in Nat /\ Len(plan) <= LongestPlan /\ LongestPlan \in Nat
  BY NoPlan DEF ReviewTyped, Steps
<1>2. S \in StepRecord /\ step \in 1..LongestPlan /\ S.out \in Named
  BY <1>1 DEF S, ReviewTyped, Steps
<1>3. S.id \in STRING /\ S.out \in STRING /\ S.alias \in STRING /\ S.tells \in {"bool", "data"}
  BY <1>2 DEF StepRecord
<1>4. /\ SerialOf(step) = SerialIn(attempt, step)
      /\ SerialOf(step) \in 1..SerialIn(MaxAttempts, LongestPlan)
      /\ SerialIn(MaxAttempts, LongestPlan) \in Nat
  BY <1>1, <1>2, SerialsBounded DEF SerialOf
<1>5. ASSUME NEW f \in {"bool", "data"}
      PROVE  /\ OwnKey(f) \in KeySet /\ Outs(f) \subseteq KeySet
             /\ \A value : \A tag \in {0, attempt} :
                  /\ EntryOK(OwnKey(f), Entry(value, tag))
                  /\ \A k \in Outs(f) : EntryOK(k, Entry(value, tag))
  <2>1. f \in Flavours /\ f # "bare"
    BY DEF Flavours
  <2>2. OwnKey(f) \in KeySet /\ Outs(f) \subseteq KeySet
    BY <1>3, <1>4, <2>1 DEF OwnKey, Outs, Key, KeySet
  <2>3. ASSUME NEW value, NEW tag \in {0, attempt}
        PROVE  /\ EntryOK(OwnKey(f), Entry(value, tag))
               /\ \A k \in Outs(f) : EntryOK(k, Entry(value, tag))
    <3> PICK e : e = Entry(value, tag)
      OBVIOUS
    <3>1. /\ DOMAIN e = {"value", "tag", "wrote"} /\ e.tag = tag /\ e.wrote = attempt
          /\ e.tag \in 0..attempt /\ e.wrote \in 1..attempt
      BY <1>1 DEF Entry
    <3>2. /\ OwnKey(f).serial = SerialIn(attempt, step) /\ OwnKey(f).serial # 0
          /\ OwnKey(f).flavour = f
      BY <1>4 DEF OwnKey, Key
    <3>3. \A k \in Outs(f) : k.serial = 0 /\ k.flavour = f /\ k.root \in Named
      BY <1>2 DEF Outs, Key
    <3> QED
      BY <1>2, <2>1, <3>1, <3>2, <3>3 DEF EntryOK
  <2> QED
    BY <2>2, <2>3
<1> QED
  BY <1>1, <1>2, <1>3, <1>5

\* Nothing but this attempt has written under its serials.
LEMMA PromotionMarks ==
  ASSUME ReviewTyped, step \in Steps(plan), NEW reg, Good(reg)
  PROVE  /\ \A k \in Promoted \cap DOMAIN reg : Markable(k, reg[k])
         /\ \A k \in (Outs("bool") \cup Outs("data")) \cap DOMAIN reg : Markable(k, reg[k])
<1>1. /\ attempt \in Nat \ {0} /\ step \in 1..LongestPlan /\ attempt \in 1..MaxAttempts
      /\ LongestPlan \in Nat
  BY StepWrites, NoPlan
<1>2. \A k \in Outs("bool") \cup Outs("data") : k.serial = 0 /\ k.flavour # "bare"
  BY DEF Outs, Key
<1>3. ASSUME NEW k \in {OwnKey("bool"), OwnKey("data")} \cap DOMAIN reg
      PROVE  k.serial # 0 /\ reg[k].wrote = attempt
  <2>1. k.serial = SerialIn(attempt, step) /\ EntryOK(k, reg[k])
    BY <1>3 DEF OwnKey, Key, SerialOf, Good
  <2>2. k.serial # 0
    BY <1>1, <2>1, SerialsBounded
  <2>3. PICK i \in 1..LongestPlan : k.serial = SerialIn(reg[k].wrote, i)
    BY <2>1, <2>2 DEF EntryOK
  <2>4. reg[k].wrote \in Nat /\ i \in 0..LongestPlan /\ step \in 0..LongestPlan
    BY <1>1, <2>1 DEF EntryOK
  <2>5. SerialIn(reg[k].wrote, i) = SerialIn(attempt, step) => reg[k].wrote = attempt
    BY <1>1, <2>4, SerialsGrow
  <2> QED
    BY <2>1, <2>2, <2>3, <2>5
<1> QED
  BY <1>2, <1>3 DEF Markable, Promoted

\* What a step that comes to an answer writes.
Made == {OwnKey("bool"), OwnKey("data")} \cup Outs("bool") \cup Outs("data")

LEMMA WrittenTogether ==
  ASSUME ReviewTyped, step \in Steps(plan), Good(registry),
         NEW flag, NEW value, NEW tag \in {0, attempt}, NEW mark \in {0, attempt}
  PROVE  \A reg : reg = With(With(registry, {OwnKey("bool")} \cup Outs("bool"), Entry(flag, mark)),
                             {OwnKey("data")} \cup Outs("data"), Entry(value, tag)) =>
           Good(reg) /\ Grows(registry, reg) /\ Written(reg, Made)
<1> PICK own, data, e, d : /\ own = {OwnKey("bool")} \cup Outs("bool")
                           /\ data = {OwnKey("data")} \cup Outs("data")
                           /\ e = Entry(flag, mark) /\ d = Entry(value, tag)
  OBVIOUS
<1>1. "bool" \in {"bool", "data"} /\ "data" \in {"bool", "data"}
  OBVIOUS
<1>2. /\ own \subseteq KeySet /\ data \subseteq KeySet
      /\ \A k \in own : EntryOK(k, e)
      /\ \A k \in data : EntryOK(k, d)
  BY <1>1, StepWrites
<1>3. e.wrote = attempt /\ d.wrote = attempt
  BY DEF Entry
<1> PICK first, reg : first = With(registry, own, e) /\ reg = With(first, data, d)
  OBVIOUS
<1>4. Good(first) /\ Grows(registry, first) /\ Written(first, own)
  BY <1>2, <1>3, WithKeeps
<1>5. Good(reg) /\ Grows(first, reg) /\ Written(reg, data)
  BY <1>2, <1>3, <1>4, WithKeeps
<1>6. Grows(registry, reg) /\ Written(reg, own)
  BY <1>4, <1>5, GrowthComposes
<1>7. Written(reg, Made)
  <2>1. Made = own \cup data
    BY DEF Made
  <2>2. \A keys, more : Written(reg, keys) /\ Written(reg, more) => Written(reg, keys \cup more)
    BY DEF Written
  <2> QED
    BY <1>5, <1>6, <2>1, <2>2
<1> QED
  BY <1>5, <1>6, <1>7

LEMMA ProducedKeeps ==
  ASSUME ReviewTyped, step \in Steps(plan), Good(registry),
         NEW flag, NEW value, NEW tag \in {0, attempt}
  PROVE  \A reg : reg = Produced(flag, value, tag) =>
           Good(reg) /\ Grows(registry, reg) /\ Written(reg, Made)
<1> PICK pair : pair = With(With(registry, {OwnKey("bool")} \cup Outs("bool"), Entry(flag, 0)),
                            {OwnKey("data")} \cup Outs("data"), Entry(value, tag))
  OBVIOUS
<1> PICK reg : reg = Tagged(pair, Promoted)
  OBVIOUS
<1>1. 0 \in {0, attempt} /\ attempt \in Nat \ {0}
  BY StepWrites
<1>2. Good(pair) /\ Grows(registry, pair) /\ Written(pair, Made)
  BY <1>1, WrittenTogether
<1>3. \A k \in Promoted \cap DOMAIN pair : Markable(k, pair[k])
  BY <1>2, PromotionMarks
<1>4. Good(reg) /\ Grows(pair, reg)
  BY <1>1, <1>2, <1>3, TaggedKeeps
<1>5. Grows(registry, reg) /\ Written(reg, Made)
  BY <1>2, <1>4, GrowthComposes
<1>6. reg = Produced(flag, value, tag)
  BY DEF Produced
<1> QED
  BY <1>4, <1>5, <1>6

LEMMA BoundAliasKeeps ==
  ASSUME ReviewTyped, step \in Steps(plan), NEW reg, Good(reg), NEW flag
  PROVE  \A new : new = BoundAlias(reg, flag) => Good(new) /\ Grows(reg, new)
<1>1. S.alias \in STRING /\ attempt \in Nat \ {0}
  BY StepWrites
<1> PICK keys, e : keys = {Key("bare", S.alias, 0)} /\ e = Entry("target", 0)
  OBVIOUS
<1>2. keys \subseteq KeySet
  <2>1. SerialIn(MaxAttempts, LongestPlan) \in Nat
    BY SerialsBounded, StepWrites
  <2> QED
    BY <1>1, <2>1 DEF Key, KeySet, Flavours
<1>3. /\ DOMAIN e = {"value", "tag", "wrote"} /\ e.tag = 0 /\ e.wrote = attempt
      /\ e.tag \in 0..attempt /\ e.wrote \in 1..attempt
  BY <1>1 DEF Entry
<1>4. \A k \in keys : k.serial = 0 /\ k.flavour = "bare" /\ k.root = S.alias
  BY DEF Key
<1>5. S.alias # None => \A k \in keys : EntryOK(k, e)
  BY <1>3, <1>4 DEF EntryOK
<1>6. S.alias # None => Good(With(reg, keys, e)) /\ Grows(reg, With(reg, keys, e))
  BY <1>2, <1>3, <1>5, WithKeeps
<1>7. Grows(reg, reg)
  BY DEF Grows
<1> QED
  BY <1>6, <1>7 DEF BoundAlias

\* What any call does to the registry, and what is left when it has answered.
Wrote(keys) ==
  /\ Good(registry') /\ Grows(registry, registry') /\ rum' \subseteq DOMAIN registry'
  /\ Written(registry', keys)

LEMMA Kept ==
  ASSUME RegistryOK, Good(registry'), Grows(registry, registry'), NEW keys, Keep(keys)
  PROVE  rum' \subseteq DOMAIN registry'
BY DEF RegistryOK, Grows, Keep, Holds

LEMMA NothingWritten ==
  ASSUME RegistryOK, UNCHANGED <<registry, rum>>
  PROVE  Wrote({})
BY DEF RegistryOK, Wrote, Good, Grows, Written, Holds

LEMMA AnswersWritten ==
  ASSUME ReviewTyped, step \in Steps(plan), RegistryOK,
         NEW flag, NEW content, CallAnswers(flag, content)
  PROVE  Wrote(Made)
<1>1. Good(registry) /\ attempt \in {0, attempt}
  BY DEF RegistryOK, Good, Holds
<1> PICK reg : reg = Produced(flag, content, attempt)
  OBVIOUS
<1>2. Good(reg) /\ Grows(registry, reg) /\ Written(reg, Made)
  BY <1>1, ProducedKeeps
<1>3. registry' = BoundAlias(reg, flag)
  BY DEF CallAnswers
<1>4. Good(registry') /\ Grows(reg, registry')
  BY <1>2, <1>3, BoundAliasKeeps
<1>5. Grows(registry, registry') /\ Written(registry', Made)
  BY <1>2, <1>4, GrowthComposes
<1> QED
  BY <1>4, <1>5, Kept DEF CallAnswers, Wrote

LEMMA FailureWritten ==
  ASSUME ReviewTyped, step \in Steps(plan), RegistryOK, CallFails
  PROVE  Wrote({})
<1>1. Good(registry)
  BY DEF RegistryOK, Good, Holds
<1> PICK keys, e : keys = {OwnKey("bool")} /\ e = Entry("true", 0)
  OBVIOUS
<1>2. "bool" \in {"bool", "data"} /\ 0 \in {0, attempt}
  OBVIOUS
<1>3. keys \subseteq KeySet /\ \A k \in keys : EntryOK(k, e)
  BY <1>2, StepWrites
<1>4. e.wrote = attempt
  BY DEF Entry
<1>5. Good(With(registry, keys, e)) /\ Grows(registry, With(registry, keys, e))
  BY <1>1, <1>3, <1>4, WithKeeps
<1>6. registry' \in {registry, With(registry, keys, e)} /\ rum' = rum
  BY DEF CallFails
<1>7. Grows(registry, registry)
  BY DEF Grows
<1>8. Good(registry') /\ Grows(registry, registry')
  BY <1>1, <1>5, <1>6, <1>7
<1> QED
  BY <1>6, <1>8 DEF Wrote, Written, RegistryOK, Grows, Holds

LEMMA WordsWritten ==
  ASSUME ReviewTyped, step \in Steps(plan), RegistryOK, AnswerInWords
  PROVE  Wrote(Made)
<1>1. Good(registry) /\ attempt \in {0, attempt}
  BY DEF RegistryOK, Good, Holds
<1>2. registry' = With(With(registry, {OwnKey("bool")} \cup Outs("bool"), Entry("true", attempt)),
                       {OwnKey("data")} \cup Outs("data"), Entry("words", attempt))
  BY DEF AnswerInWords
<1>3. Good(registry') /\ Grows(registry, registry') /\ Written(registry', Made)
  BY <1>1, <1>2, WrittenTogether
<1> QED
  BY <1>3, Kept DEF AnswerInWords, Wrote

LEMMA ChildWritten ==
  ASSUME ReviewTyped, step \in Steps(plan), RegistryOK,
         NEW ok, NEW content, NEW tag \in {0, attempt}, ChildReturns(ok, content, tag)
  PROVE  Wrote(Made)
<1>1. Good(registry)
  BY DEF RegistryOK, Good, Holds
<1>2. registry' = Produced(IF ok THEN "true" ELSE "false", content, tag)
  BY DEF ChildReturns
<1>3. Good(registry') /\ Grows(registry, registry') /\ Written(registry', Made)
  BY <1>1, <1>2, ProducedKeeps
<1> QED
  BY <1>3, Kept DEF ChildReturns, Wrote

LEMMA SkipWritten ==
  ASSUME ReviewTyped, step \in Steps(plan), RegistryOK, Skip
  PROVE  Wrote({})
<1>1. /\ Good(registry) /\ attempt \in Nat \ {0} /\ S.tells \in {"bool", "data"}
      /\ 0 \in {0, attempt}
  BY StepWrites DEF RegistryOK, Good, Holds
<1> PICK e, marked : /\ e = Entry("false", 0)
                     /\ marked = IF S.crucial THEN Outs("bool") \cup Outs("data") ELSE {}
  OBVIOUS
<1> PICK reg : reg = With(registry, OutKey, e)
  OBVIOUS
<1>2. OutKey = Outs(S.tells)
  BY DEF OutKey, Outs
<1>3. OutKey \subseteq KeySet /\ \A k \in OutKey : EntryOK(k, e)
  BY <1>1, <1>2, StepWrites
<1>4. e.wrote = attempt
  BY DEF Entry
<1>5. Good(reg) /\ Grows(registry, reg)
  BY <1>1, <1>3, <1>4, WithKeeps
<1>6. \A k \in marked \cap DOMAIN reg : Markable(k, reg[k])
  BY <1>5, PromotionMarks
<1>7. registry' = Tagged(reg, marked) /\ Keep(marked)
  BY DEF Skip
<1>8. Good(registry') /\ Grows(reg, registry')
  BY <1>1, <1>5, <1>6, <1>7, TaggedKeeps
<1>9. Grows(registry, registry')
  BY <1>5, <1>8, GrowthComposes
<1> QED
  BY <1>7, <1>8, <1>9, Kept DEF Wrote, Written

\* Attempts are numbered upwards, and a plan runs in the attempt it was written in.
LEMMA AttemptsAdvance ==
  ASSUME Control, [Next]_vars
  PROVE  /\ attempt \in Nat /\ attempt' \in Nat /\ attempt <= attempt'
         /\ phase = "run" /\ phase' = "run" => UNCHANGED <<attempt, plan>>
<1>1. attempt \in Nat /\ attempt' \in Nat
  BY ControlStep, NoPlan DEF Control, ReviewTyped
<1>2. NextAttempt => attempt <= attempt' /\ phase' # "run"
  BY <1>1 DEF NextAttempt
<1>3. CASE Review
  <2>1. NextAttempt \/ UNCHANGED attempt
    BY <1>3 DEF Review, ReviewNext, Propose, GateOpens, GateRepairs, GateRefuses, JudgeRefuses,
       JudgePartial, JudgeAccepts, JudgeInherits, AskUser, UserAllows, UserRefuses, QuestionLost,
       Refuse, Accept
  <2>2. phase # "run"
    BY <1>3, ReviewStep DEF Review, Control
  <2> QED
    BY <1>1, <1>2, <2>1, <2>2
<1>4. CASE Start \/ Begin \/ WaitedBefore \/ CallFailsOnce \/ StopOrClear
  BY <1>1, <1>4 DEF Start, Begin, WaitedBefore, CallFailsOnce, StopOrClear, reviewVars
<1>5. CASE StoppedAtHead \/ ConditionBroken \/ Skip \/ WaitedAfter \/ Raised
  BY <1>1, <1>5 DEF StoppedAtHead, ConditionBroken, Skip, WaitedAfter, Raised, OnwardFrom
<1>6. CASE AnswerInWords \/ CallFailsForGood \/ CallReturns \/ Recalled
           \/ ChildFails \/ ChildSucceeds \/ \E ok \in BOOLEAN : Judged(ok)
  <2>1. \/ NextAttempt
        \/ UNCHANGED <<attempt, plan>>
    BY <1>6 DEF AnswerInWords, CallFailsForGood, CallReturns, Recalled, ChildFails, ChildSucceeds,
       Judged, PlanStops, PlanFails, StepSucceeds, OnwardFrom
  <2> QED
    BY <1>1, <1>2, <2>1
<1>7. CASE Ends \/ Verified
  <2>1. NextAttempt \/ UNCHANGED <<attempt, plan>>
    BY <1>7 DEF Ends, Verified
  <2> QED
    BY <1>1, <1>2, <2>1
<1>8. CASE UNCHANGED vars
  BY <1>1, <1>8 DEF vars, reviewVars
<1> QED
  BY <1>3, <1>4, <1>5, <1>6, <1>7, <1>8 DEF Next, Execute

\* Every step of the solver, as the registry sees it.
LEMMA RegistryMoves ==
  ASSUME Control, RegistryOK, [Next]_vars
  PROVE  Wrote({})
<1>1. \A keys : Wrote(keys) => Wrote({})
  BY DEF Wrote, Written
<1>2. ReviewTyped
  BY DEF Control
<1>3. CASE \/ Review \/ Start \/ Begin \/ WaitedBefore \/ StopOrClear
           \/ StoppedAtHead \/ ConditionBroken \/ WaitedAfter \/ Raised
           \/ \E ok \in BOOLEAN : Judged(ok)
           \/ Ends \/ Verified \/ UNCHANGED vars
  <2>1. UNCHANGED <<registry, rum>>
    BY <1>3 DEF Review, Start, Begin, WaitedBefore, StopOrClear, StoppedAtHead, ConditionBroken,
       WaitedAfter, Raised, Judged, Ends, Verified, vars, execVars
  <2> QED
    BY <2>1, NothingWritten
<1>4. CASE Skip
  <2>1. step \in Steps(plan)
    BY <1>4, HeadTyped DEF Skip, AtHead
  <2> QED
    BY <1>2, <1>4, <2>1, SkipWritten
<1>5. CASE AnswerInWords \/ CallFailsForGood \/ CallReturns \/ Recalled
           \/ CallFailsOnce \/ ChildFails \/ ChildSucceeds
  <2>1. step \in Steps(plan)
    <3>1. Running /\ at \notin {"head", "after"} /\ plan \in Seq(StepRecord)
      BY <1>5 DEF AnswerInWords, CallFailsForGood, CallReturns, Recalled, CallFailsOnce, ChildFails,
         ChildSucceeds, ChildReturns, AtCall, Control, RunTyped, ReviewTyped
    <3> QED
      BY <3>1 DEF Running, Steps
  <2>2. CASE AnswerInWords
    BY <1>1, <1>2, <2>1, <2>2, WordsWritten
  <2>3. CASE CallFailsForGood \/ CallReturns \/ Recalled \/ CallFailsOnce
    <3>1. CallFails \/ \E flag \in Flags, content \in Contents : CallAnswers(flag, content)
      BY <2>3 DEF CallFailsForGood, CallReturns, Recalled, CallFailsOnce
    <3> QED
      BY <1>1, <1>2, <2>1, <3>1, FailureWritten, AnswersWritten
  <2>4. CASE ChildFails \/ ChildSucceeds
    <3>1. PICK ok \in BOOLEAN, content \in Contents, tag \in {0, attempt} :
            ChildReturns(ok, content, tag)
      BY <2>4 DEF ChildFails, ChildSucceeds
    <3> QED
      BY <1>1, <1>2, <2>1, <3>1, ChildWritten
  <2> QED
    BY <1>5, <2>2, <2>3, <2>4
<1> QED
  BY <1>3, <1>4, <1>5 DEF Next, Execute

\* Entries stay well marked when the number of attempts grows.
LEMMA RegistryStep ==
  ASSUME Control, RegistryOK, [Next]_vars
  PROVE  RegistryOK'
<1>1. Wrote({}) /\ attempt \in Nat /\ attempt' \in Nat /\ attempt <= attempt'
  BY RegistryMoves, AttemptsAdvance
<1>2. ASSUME NEW k, NEW e, EntryOK(k, e)
      PROVE  /\ DOMAIN e = {"value", "tag", "wrote"}
             /\ e.tag \in 0..attempt' /\ e.wrote \in 1..attempt'
             /\ k.serial # 0 => /\ k.flavour # "bare" /\ e.tag \in {0, e.wrote}
                                /\ \E i \in 1..LongestPlan : k.serial = SerialIn(e.wrote, i)
             /\ k.serial = 0 => IF k.flavour = "bare" THEN e.tag = 0 /\ k.root # None ELSE k.root \in Named
  BY <1>1, <1>2 DEF EntryOK
<1> QED
  BY <1>1, <1>2 DEF RegistryOK, EntryOK, Wrote, Good, Holds

LEMMA RegistryInit == Init => RegistryOK
BY DEF Init, RegistryOK, Holds

-----------------------------------------------------------------------------
(* What a success leaves.                                                    *)

\* A step that succeeds has just written, or had when it was judged.
LEMMA SuccessesComeFromAnswers ==
  ASSUME Control, RegistryOK, [Next]_vars, phase = "run", phase' = "run",
         NEW j \in Steps(plan), Done(j)'
  PROVE  Done(j) \/ (j = step /\ step \in Steps(plan) /\ Written(registry', Made))
<1>1. /\ Running /\ ReviewTyped /\ plan \in Seq(StepRecord) /\ j \in Nat /\ step \in Nat
      /\ Steps(plan) = 1..Len(plan) /\ Len(plan) \in Nat /\ DOMAIN status = Steps(plan)
      /\ step >= 1
  BY DEF Control, RunTyped, ReviewTyped, Steps, Running
<1>2. CASE \/ Begin \/ WaitedBefore \/ CallFailsOnce \/ StopOrClear \/ UNCHANGED vars
  <2>1. UNCHANGED <<step, status>> /\ (at' = at \/ at' \in {"child", "before", "call", "recall"})
    BY <1>2 DEF Begin, WaitedBefore, CallFailsOnce, StopOrClear, vars, execVars
  <2> QED
    BY <2>1 DEF Done, Past
<1>3. CASE ConditionBroken \/ Skip
  <2>1. /\ step' = step + 1 /\ at' = "head"
        /\ \E v \in {"failed", "skipped"} : status' = [status EXCEPT ![step] = v]
    BY <1>3 DEF ConditionBroken, Skip, OnwardFrom
  <2> QED
    BY <1>1, <2>1 DEF Done, Past
<1>4. CASE WaitedAfter
  <2>1. step' = step + 1 /\ at' = "head" /\ status' = status /\ at = "after"
    BY <1>4 DEF WaitedAfter, OnwardFrom
  <2> QED
    BY <1>1, <2>1 DEF Done, Past
<1>5. CASE AnswerInWords \/ CallFailsForGood \/ CallReturns \/ Recalled
           \/ ChildFails \/ \E ok \in BOOLEAN : Judged(ok)
  <2>1. InHand
    BY <1>5 DEF InHand, AnswerInWords, CallFailsForGood, CallReturns, Recalled, ChildFails,
       ChildReturns, Judged, AtCall
  <2>2. step \in Steps(plan) /\ at # "after"
    BY <2>1, InHandTyped DEF InHand
  <2>3. StepSucceeds /\ ~CallFailsForGood /\ ~Recalled /\ ~ChildFails
    BY <1>5 DEF AnswerInWords, CallFailsForGood, CallReturns, Recalled, ChildFails, Judged,
       PlanFails, PlanStops, NextAttempt
  <2>4. /\ status' = [status EXCEPT ![step] = "success"]
        /\ \/ at' = "after" /\ step' = step
           \/ at' = "head" /\ step' = step + 1
    BY <2>3 DEF StepSucceeds, OnwardFrom
  <2>5. j = step \/ Done(j)
    BY <1>1, <2>2, <2>4 DEF Done, Past
  <2>6. CASE AnswerInWords
    BY <1>1, <2>2, <2>5, <2>6, WordsWritten DEF Wrote
  <2>7. CASE CallReturns
    <3>1. PICK flag \in Flags, content \in Contents : CallAnswers(flag, content)
      BY <2>7 DEF CallReturns
    <3> QED
      BY <1>1, <2>2, <2>5, <3>1, AnswersWritten DEF Wrote
  <2>8. CASE \E ok \in BOOLEAN : Judged(ok)
    BY <2>5, <2>8 DEF Judged, Done
  <2> QED
    BY <1>5, <2>3, <2>6, <2>7, <2>8
<1>6. CASE ChildSucceeds
  <2>1. PICK content \in Contents, tag \in {0, attempt} : ChildReturns(TRUE, content, tag)
    BY <1>6 DEF ChildSucceeds
  <2>2. step \in Steps(plan) /\ at = "child"
    BY <1>1, <2>1 DEF ChildReturns, Running
  <2>3. Written(registry', Made)
    BY <1>1, <2>1, <2>2, ChildWritten DEF Wrote
  <2>4. step' = step /\ at' = "judge" /\ status' = status
    BY <1>6 DEF ChildSucceeds, PlanStops
  <2> QED
    BY <2>2, <2>3, <2>4 DEF Done, Past
<1>7. ~Start /\ ~StoppedAtHead /\ ~Raised /\ ~Ends /\ ~Verified /\ ~Review
  <2>1. Review => phase # "run"
    BY ReviewStep DEF Review, Control
  <2> QED
    BY <2>1 DEF Start, StoppedAtHead, Raised, Ends, Verified, NextAttempt
<1> QED
  BY <1>2, <1>3, <1>4, <1>5, <1>6, <1>7 DEF Next, Execute

LEMMA SuccessesStep ==
  ASSUME Control, RegistryOK, SuccessesMade, [Next]_vars
  PROVE  SuccessesMade'
<1> SUFFICES ASSUME phase' = "run", NEW j \in Steps(plan'), Done(j)'
             PROVE  MadeBy(j)'
  BY DEF SuccessesMade
<1>1. CASE phase = "run"
  <2>1. plan' = plan /\ attempt' = attempt
    BY <1>1, AttemptsAdvance
  <2>2. Done(j) \/ (j = step /\ step \in Steps(plan) /\ Written(registry', Made))
    BY <1>1, <2>1, SuccessesComeFromAnswers
  <2>3. Grows(registry, registry')
    BY RegistryMoves DEF Wrote
  <2>4. SerialOf(j)' = SerialOf(j)
    BY <2>1 DEF SerialOf
  <2>5. \A k : WrittenNow(k) => WrittenNow(k)'
    BY <2>1, <2>3 DEF WrittenNow, Grows, Holds
  <2>6. CASE Done(j)
    BY <1>1, <2>1, <2>4, <2>5, <2>6 DEF SuccessesMade, MadeBy
  <2>7. CASE j = step /\ Written(registry', Made)
    <3>1. \A k \in Made : WrittenNow(k)'
      BY <2>1, <2>7 DEF Written, WrittenNow, Holds
    <3>2. \A f \in {"bool", "data"} :
            /\ Key(f, plan[j].id, SerialOf(j)) \in Made
            /\ plan[j].out # None => Key(f, plan[j].out, 0) \in Made
      BY <2>7 DEF Made, OwnKey, Outs, S
    <3> QED
      BY <2>1, <2>4, <3>1, <3>2 DEF MadeBy
  <2> QED
    BY <2>2, <2>6, <2>7
<1>2. CASE phase # "run"
  <2>1. Start
    <3>1. ~Review
      BY ReviewStep DEF Review, Control
    <3>2. ~UNCHANGED vars
      BY <1>2 DEF vars, reviewVars
    <3>3. at = "none" /\ (Execute \/ StopOrClear)
      BY <1>2, <3>1, <3>2 DEF Next, Control, RunTyped
    <3> QED
      BY <1>2, <3>3 DEF Execute, StopOrClear, Suspended, StoppedAtHead, ConditionBroken, Skip, Begin,
         WaitedBefore, WaitedAfter, AnswerInWords, CallFailsOnce, CallFailsForGood, CallReturns,
         Recalled, ChildFails, ChildSucceeds, ChildReturns, Judged, Raised, Ends, AtEnd, Verified,
         NextAttempt, AtHead, AtCall
  <2>2. step' = 1 /\ at' = "head" /\ plan' = plan /\ plan \in Seq(StepRecord)
    BY <2>1 DEF Start, Control, ReviewTyped
  <2> QED
    BY <2>2 DEF Done, Past, Steps
<1> QED
  BY <1>1, <1>2

-----------------------------------------------------------------------------
(* What the gates took as known.                                             *)

\* What a step reads are references.
LEMMA ReadsAreRefs ==
  ASSUME NEW s \in StepRecord
  PROVE  /\ Reads(s) \subseteq Refs /\ ExecutableReads(s) \subseteq Refs
         /\ \A r \in Refs : r.flavour \in Flavours /\ r = Ref(r.flavour, r.root) /\ r.root \in STRING
<1>1. s.args \subseteq Refs /\ s.aim \in Refs /\ s.cond.ref \in Refs
  BY DEF StepRecord
<1>2. \A r \in Refs : r.flavour \in Flavours /\ r = Ref(r.flavour, r.root) /\ r.root \in STRING
  BY DEF Refs, Ref
<1> QED
  BY <1>1, <1>2 DEF Reads, ExecutableReads, ArgReads, CondReads

\* Only the planner's proposals and the gate's repairs bring a plan; the run
\* and the verdicts leave it, and the registry only grows.
LEMMA PlanStays ==
  ASSUME Control, RegistryOK, [Next]_vars,
         phase' \in {"gate", "judge", "consent", "accepted", "run"},
         ~\E p \in Plans : Propose(p, NamedVariables), ~GateRepairs
  PROVE  /\ plan' = plan /\ Holds \subseteq Holds'
         /\ phase \in {"gate", "judge", "consent", "accepted", "run"}
         /\ phase' # "gate" => GateOpens \/ phase \in {"judge", "consent", "accepted", "run"}
<1>1. Holds \subseteq Holds'
  BY RegistryMoves DEF Wrote, Grows, Holds
<1>2. ASSUME Review
      PROVE  /\ plan' = plan /\ phase \in {"gate", "judge", "consent"}
             /\ phase' # "gate" => GateOpens \/ phase \in {"judge", "consent"}
  BY <1>2 DEF Review, ReviewNext, GateOpens, GateRefuses, JudgeRefuses, JudgePartial, JudgeAccepts,
     JudgeInherits, AskUser, UserAllows, UserRefuses, QuestionLost, Refuse, Accept, NextAttempt
<1>3. CASE Start \/ Begin \/ WaitedBefore \/ CallFailsOnce \/ StopOrClear
  BY <1>1, <1>3
  DEF Start, Begin, WaitedBefore, CallFailsOnce, StopOrClear, AtHead, AtCall, Suspended, reviewVars
<1>4. CASE StoppedAtHead \/ ConditionBroken \/ Skip \/ WaitedAfter
  BY <1>1, <1>4 DEF StoppedAtHead, ConditionBroken, Skip, WaitedAfter, Quiet, OnwardFrom, AtHead
<1>5. ASSUME AnswerInWords \/ CallFailsForGood \/ CallReturns \/ Recalled
             \/ ChildFails \/ ChildSucceeds \/ \E ok \in BOOLEAN : Judged(ok)
      PROVE  plan' = plan /\ phase = "run"
  <2>1. phase = "run"
    BY <1>5 DEF AnswerInWords, CallFailsForGood, CallReturns, Recalled, ChildFails, ChildSucceeds,
       ChildReturns, Judged, AtCall
  <2>2. PlanStops \/ PlanFails \/ StepSucceeds \/ plan' = plan
    BY <1>5 DEF AnswerInWords, CallFailsForGood, CallReturns, Recalled, ChildFails, ChildSucceeds,
       Judged
  <2> QED
    BY <2>1, <2>2 DEF PlanStops, PlanFails, NextAttempt, StepSucceeds, OnwardFrom
<1>6. CASE Raised \/ Ends \/ Verified
  BY <1>6 DEF Raised, Ends, Verified, Quiet, NextAttempt, AtEnd
<1>7. CASE UNCHANGED vars
  BY <1>1, <1>7 DEF vars, reviewVars
<1> QED
  BY <1>1, <1>2, <1>3, <1>4, <1>5, <1>6, <1>7 DEF Next, Execute

\* What the planner admits it knows to be made or held.
LEMMA KnownIsPromised ==
  ASSUME RegistryOK, NEW p \in Plans, PlannerAdmits(p, NamedVariables),
         NEW i \in Steps(p), NEW r \in ExecutableReads(p[i]), r.flavour # "bare"
  PROVE  \/ Key(r.flavour, r.root, 0) \in Holds \/ Twin(r) \in Holds
         \/ Key("bare", r.root, 0) \in Holds
         \/ \E j \in 1..(i - 1) : r \in Both(p[j].id) \cup OutNames(p[j])
         \/ Ref("bare", r.root) \in SeenAliases(p, i)
<1>1. /\ r \in Refs /\ r.flavour \in {"bool", "data"} /\ r = Ref(r.flavour, r.root)
      /\ p \in Seq(StepRecord)
  <2>1. p \in Seq(StepRecord) /\ p[i] \in StepRecord
    BY Proposed DEF Steps
  <2> QED
    BY <2>1, ReadsAreRefs DEF Flavours
<1>2. Available(r, PlannerKnows(p, i, NamedVariables))
  BY DEF PlannerAdmits, UnknownReads
<1>3. ASSUME NEW n \in NamedVariables
      PROVE  Key(n.flavour, n.root, 0) \in Holds /\ n.flavour \in Flavours
  <2>1. PICK k \in Holds : k.serial = 0 /\ n = Ref(k.flavour, k.root)
    BY DEF NamedVariables
  <2>2. k \in KeySet
    BY DEF RegistryOK
  <2>3. k = [flavour |-> k.flavour, root |-> k.root, serial |-> 0] /\ k.flavour \in Flavours
    BY <2>1, <2>2 DEF KeySet
  <2>4. n.flavour = k.flavour /\ n.root = k.root
    BY <2>1 DEF Ref
  <2> QED
    BY <2>3, <2>4 DEF Key
<1>4. ASSUME NEW n \in NamedVariables, n.flavour # "bare", r \in Both(n.root)
      PROVE  Key(r.flavour, r.root, 0) \in Holds \/ Twin(r) \in Holds
  <2>1. n.root = r.root
    BY <1>4 DEF Both, Ref
  <2> QED
    BY <1>1, <1>3, <1>4, <2>1 DEF Twin, Flavours
<1>5. ASSUME NEW j \in 1..(i - 1), r \in Makes(p[j])
      PROVE  r \in Both(p[j].id) \cup OutNames(p[j])
  BY <1>5 DEF Makes, BareOut, AliasNames, Ref
<1>6. ASSUME NEW j \in 1..(i - 1), Ref("bare", r.root) \in Makes(p[j])
      PROVE  r \in OutNames(p[j]) \/ Ref("bare", r.root) \in AliasNames(p[j])
  <2>1. Ref("bare", r.root) \in BareOut(p[j]) \cup AliasNames(p[j])
    BY <1>6 DEF Makes, OutNames, Both, Ref
  <2>2. Ref("bare", r.root) \in BareOut(p[j]) => r.root = p[j].out /\ p[j].out # None
    BY DEF BareOut, Ref
  <2> QED
    BY <1>1, <2>1, <2>2 DEF OutNames, Both
<1>7. CASE r \in PlannerKnows(p, i, NamedVariables)
  <2>1. r \in Symmetric(NamedVariables) \/ \E j \in 1..(i - 1) : r \in Makes(p[j])
    BY <1>7 DEF PlannerKnows, Earlier
  <2>2. r \in Symmetric(NamedVariables) =>
          r \in NamedVariables \/ \E n \in NamedVariables : n.flavour # "bare" /\ r \in Both(n.root)
    BY DEF Symmetric
  <2> QED
    BY <1>3, <1>4, <1>5, <2>1, <2>2
<1>8. CASE Ref("bare", r.root) \in PlannerKnows(p, i, NamedVariables)
  <2>1. Ref("bare", r.root) \in Symmetric(NamedVariables)
        \/ \E j \in 1..(i - 1) : Ref("bare", r.root) \in Makes(p[j])
    BY <1>8 DEF PlannerKnows, Earlier
  <2>2. Ref("bare", r.root) \in Symmetric(NamedVariables) => Ref("bare", r.root) \in NamedVariables
    <3>1. \A root : Ref("bare", r.root) \notin Both(root)
      BY DEF Both, Ref
    <3> QED
      BY <3>1 DEF Symmetric
  <2>3. Ref("bare", r.root).flavour = "bare" /\ Ref("bare", r.root).root = r.root
    BY DEF Ref
  <2>4. \A j \in 1..(i - 1) : Ref("bare", r.root) \in AliasNames(p[j]) =>
          Ref("bare", r.root) \in SeenAliases(p, i)
    BY DEF SeenAliases, Earlier
  <2> QED
    BY <1>3, <1>6, <2>1, <2>2, <2>3, <2>4
<1> QED
  BY <1>2, <1>7, <1>8 DEF Available

\* A repaired plan reads and makes what it did.
LEMMA RepairReads ==
  ASSUME NEW p \in Seq(StepRecord)
  PROVE  \A i \in Steps(p) :
           /\ ExecutableReads(Repaired(p)[i]) = ExecutableReads(p[i])
           /\ ArgReads(Repaired(p)[i]) = ArgReads(p[i])
           /\ Both(Repaired(p)[i].id) = Both(p[i].id)
           /\ OutNames(Repaired(p)[i]) = OutNames(p[i])
           /\ SeenAliases(Repaired(p), i) = SeenAliases(p, i)
<1> PICK q : q = Repaired(p)
  OBVIOUS
<1>1. /\ Steps(p) = 1..Len(p) /\ Len(p) \in Nat
      /\ \A i \in Steps(p) :
           /\ q[i].id = p[i].id /\ q[i].out = p[i].out /\ q[i].type = p[i].type
           /\ q[i].args = p[i].args /\ q[i].aim = p[i].aim /\ q[i].cond = p[i].cond
           /\ q[i].alias = p[i].alias
  BY RepairKeeps DEF Steps
<1>2. ASSUME NEW i \in Steps(p)
      PROVE  /\ ExecutableReads(q[i]) = ExecutableReads(p[i]) /\ ArgReads(q[i]) = ArgReads(p[i])
             /\ Both(q[i].id) = Both(p[i].id) /\ OutNames(q[i]) = OutNames(p[i])
             /\ AliasNames(q[i]) = AliasNames(p[i])
  BY <1>1 DEF ExecutableReads, ArgReads, CondReads, IsTool, OutNames, AliasNames
<1>3. ASSUME NEW i \in Steps(p)
      PROVE  SeenAliases(q, i) = SeenAliases(p, i)
  <2>1. \A j \in 1..(i - 1) : j \in Steps(p)
    BY <1>1
  <2>2. \A j \in 1..(i - 1) : AliasNames(q[j]) = AliasNames(p[j])
    BY <1>2, <2>1
  <2> QED
    BY <2>2 DEF SeenAliases, Earlier
<1> QED
  BY <1>2, <1>3

LEMMA AdmittedStep ==
  ASSUME Control, RegistryOK, Admitted, [Next]_vars
  PROVE  Admitted'
<1> SUFFICES ASSUME phase' \in {"gate", "judge", "consent", "accepted", "run"},
                    NEW i \in Steps(plan'), NEW r \in ExecutableReads(plan'[i]), r.flavour # "bare"
             PROVE  Promised(i, r)'
  BY DEF Admitted
<1>1. Holds \subseteq Holds' /\ plan \in Seq(StepRecord)
  BY RegistryMoves DEF Wrote, Grows, Holds, Control, ReviewTyped
<1>2. CASE \E p \in Plans : Propose(p, NamedVariables)
  <2>1. PICK p \in Plans : Propose(p, NamedVariables)
    BY <1>2
  <2>2. PlannerAdmits(p, NamedVariables) /\ plan' = p
    BY <2>1 DEF Propose, NextAttempt
  <2> QED
    BY <1>1, <2>2, KnownIsPromised DEF Promised, Twin
<1>3. CASE GateRepairs
  <2>1. phase = "gate" /\ plan' = Repaired(plan)
    BY <1>3 DEF GateRepairs
  <2>2. /\ i \in Steps(plan) /\ Steps(plan) = 1..Len(plan) /\ Len(plan) \in Nat
        /\ r \in ExecutableReads(plan[i])
    BY <1>1, <2>1, RepairKeeps, RepairReads DEF Steps
  <2>3. Promised(i, r)
    BY <2>1, <2>2 DEF Admitted
  <2>4. /\ \A j \in 1..(i - 1) :
             Both(plan'[j].id) = Both(plan[j].id) /\ OutNames(plan'[j]) = OutNames(plan[j])
        /\ SeenAliases(plan', i) = SeenAliases(plan, i)
    <3>1. \A j \in 1..(i - 1) : j \in Steps(plan)
      BY <2>2
    <3> QED
      BY <1>1, <2>1, <2>2, <3>1, RepairReads
  <2> QED
    BY <1>1, <2>3, <2>4 DEF Promised, Twin
<1>4. CASE ~(\E p \in Plans : Propose(p, NamedVariables)) /\ ~GateRepairs
  <2>1. plan' = plan /\ phase \in {"gate", "judge", "consent", "accepted", "run"}
    BY <1>4, PlanStays
  <2>2. Promised(i, r)
    BY <2>1 DEF Admitted
  <2> QED
    BY <1>1, <2>1, <2>2 DEF Promised, Twin
<1> QED
  BY <1>2, <1>3, <1>4

\* What the gate lets pass reads what an earlier step declares.
LEMMA GateResolves ==
  ASSUME NEW p, GateAdmits(p), NEW i \in Steps(p), NEW r \in ArgReads(p[i])
  PROVE  \E j \in 1..(i - 1) : r \in Declares(p[j])
<1>1. IsTool(p[i])
  BY DEF ArgReads
<1>2. r \in UNION {Declares(s) : s \in Earlier(p, i)}
  BY <1>1 DEF GateAdmits, UnresolvedReads
<1> QED
  BY <1>2 DEF Earlier

LEMMA ResolvedStep ==
  ASSUME Control, RegistryOK, Resolved, [Next]_vars
  PROVE  Resolved'
<1> SUFFICES ASSUME phase' \in {"judge", "consent", "accepted", "run"},
                    NEW i \in Steps(plan'), NEW r \in ArgReads(plan'[i])
             PROVE  \E j \in 1..(i - 1) : r \in Declares(plan'[j])
  BY DEF Resolved
<1>1. CASE \E p \in Plans : Propose(p, NamedVariables)
  <2>1. PureAnswer(plan')
    BY <1>1 DEF Propose, NextAttempt
  <2> QED
    BY <2>1 DEF PureAnswer, IsAnswer, ArgReads, IsTool
<1>2. CASE GateRepairs
  BY <1>2, GateResolves DEF GateRepairs
<1>3. CASE ~(\E p \in Plans : Propose(p, NamedVariables)) /\ ~GateRepairs
  <2>1. plan' = plan /\ (GateOpens \/ phase \in {"judge", "consent", "accepted", "run"})
    BY <1>3, PlanStays
  <2> QED
    BY <2>1, GateResolves DEF GateOpens, Resolved
<1> QED
  BY <1>1, <1>2, <1>3

-----------------------------------------------------------------------------
(* Reading the registry.                                                     *)

Before == {ss \in Nat \X Nat : ss[1] < ss[2]}

LEMMA Least ==
  ASSUME NEW T \in SUBSET Nat, T # {}
  PROVE  \E m \in T : \A n \in T : m <= n
<1>1. IsWellFoundedOn(OpToRel(<, Nat), Nat)
  BY NatLessThanWellFounded
<1>2. OpToRel(<, Nat) = Before
  BY DEF OpToRel, Before
<1>3. \E m \in T : \A n \in T : ~(<<n, m>> \in Before)
  BY <1>1, <1>2, WFMin
<1>4. ASSUME NEW m \in T, NEW n \in T, n < m PROVE <<n, m>> \in Before
  <2>1. <<n, m>> \in Nat \X Nat /\ <<n, m>>[1] = n /\ <<n, m>>[2] = m
    OBVIOUS
  <2> QED
    BY <1>4, <2>1 DEF Before
<1>5. PICK m \in T : \A n \in T : ~(n < m)
  BY <1>3, <1>4
<1> QED
  BY <1>5

LEMMA Greatest ==
  ASSUME NEW bound \in Nat, NEW T \in SUBSET (0..bound), T # {}
  PROVE  \E m \in T : \A n \in T : n <= m
<1> PICK U : U = {bound - n : n \in T}
  OBVIOUS
<1>1. U \in SUBSET Nat /\ U # {}
  <2>1. \A n \in T : bound - n \in Nat
    OBVIOUS
  <2> QED
    BY <2>1
<1>2. PICK u \in U : \A v \in U : u <= v
  BY <1>1, Least
<1>3. PICK m \in T : u = bound - m
  OBVIOUS
<1>4. \A n \in T : bound - m <= bound - n
  BY <1>2, <1>3
<1>5. \A n \in T : n <= m
  BY <1>4
<1> QED
  BY <1>5

\* Among the keys that fit, one is of this attempt before others, or the last.
LEMMA FreshestExists ==
  ASSUME RegistryOK, NEW r, Fuzzy(r) # {}
  PROVE  \E k \in Fuzzy(r) : \A other \in Fuzzy(r) : Fresher(k, other)
<1> PICK bound : bound = SerialIn(MaxAttempts, LongestPlan)
  OBVIOUS
<1>1. bound \in Nat
  BY NoPlan, SerialsGrow
<1>2. \A k \in Fuzzy(r) : k.serial \in 0..bound
  BY DEF Fuzzy, RegistryOK, KeySet
<1> PICK best : best = IF \E k \in Fuzzy(r) : Current(k) THEN {k \in Fuzzy(r) : Current(k)}
                       ELSE Fuzzy(r)
  OBVIOUS
<1>3. /\ best \subseteq Fuzzy(r) /\ best # {}
      /\ \A k \in best, other \in Fuzzy(r) :
           other \in best \/ (Current(k) /\ ~Current(other))
      /\ \A k, other \in best : Current(k) <=> Current(other)
  <2>1. CASE \E k \in Fuzzy(r) : Current(k)
    <3>1. best = {k \in Fuzzy(r) : Current(k)}
      BY <2>1
    <3> QED
      BY <2>1, <3>1, Zenon
  <2>2. CASE ~\E k \in Fuzzy(r) : Current(k)
    <3>1. best = Fuzzy(r)
      BY <2>2
    <3> QED
      BY <2>2, <3>1, Zenon
  <2> QED
    BY <2>1, <2>2
<1> PICK T : T = {k.serial : k \in best}
  OBVIOUS
<1>4. T \in SUBSET (0..bound) /\ T # {}
  BY <1>2, <1>3
<1>5. PICK m \in T : \A n \in T : n <= m
  BY <1>1, <1>4, Greatest
<1>6. PICK k \in best : k.serial = m
  OBVIOUS
<1>7. \A other \in best : k.serial >= other.serial
  BY <1>1, <1>2, <1>3, <1>5, <1>6
<1> QED
  BY <1>3, <1>6, <1>7 DEF Fresher

\* What a reference to a status or to data finds.
LEMMA FoundIs ==
  ASSUME RegistryOK, NEW r, r.flavour \in {"bool", "data"}
  PROVE  /\ Key(r.flavour, r.root, 0) \in Holds =>
              Find(r) = Key(r.flavour, r.root, 0) /\ Bound(r)
         /\ Key(r.flavour, r.root, 0) \notin Holds /\ Fuzzy(r) # {} =>
              /\ Find(r) \in Fuzzy(r) /\ Bound(r)
              /\ \A other \in Fuzzy(r) : Fresher(Find(r), other)
<1> PICK own : own = Key(r.flavour, r.root, 0)
  OBVIOUS
<1> PICK exact : exact = {Key(f, r.root, 0) : f \in {r.flavour} \cup
                            (IF r.flavour = "bare" THEN {"bool", "data"} ELSE {})} \cap Holds
  OBVIOUS
<1>1. exact = {own} \cap Holds
  OBVIOUS
<1>2. Find(r) = IF own \in exact THEN own
                ELSE IF Key("bool", r.root, 0) \in exact THEN Key("bool", r.root, 0)
                ELSE IF exact # {} THEN CHOOSE k \in exact : TRUE
                ELSE IF Fuzzy(r) = {} THEN NoKey
                ELSE CHOOSE k \in Fuzzy(r) : \A other \in Fuzzy(r) : Fresher(k, other)
  BY DEF Find
<1>3. NoKey \notin Holds /\ own # NoKey
  <2>1. NoKey.serial = 0 /\ NoKey.flavour = "bare" /\ NoKey.root = None /\ own.flavour # "bare"
    BY DEF NoKey, Key
  <2> QED
    BY <2>1 DEF RegistryOK, EntryOK
<1>4. CASE own \in Holds
  BY <1>1, <1>2, <1>3, <1>4 DEF Bound
<1>5. CASE own \notin Holds /\ Fuzzy(r) # {}
  <2>1. Find(r) = CHOOSE k \in Fuzzy(r) : \A other \in Fuzzy(r) : Fresher(k, other)
    BY <1>1, <1>2, <1>5
  <2>2. Find(r) \in Fuzzy(r) /\ \A other \in Fuzzy(r) : Fresher(Find(r), other)
    BY <1>5, <2>1, FreshestExists
  <2>3. Find(r) \in Holds
    BY <2>2 DEF Fuzzy
  <2> QED
    BY <1>3, <1>5, <2>2, <2>3 DEF Bound
<1> QED
  BY <1>4, <1>5

\* The step in hand, while it still has to read.
LEMMA ReadingStep ==
  ASSUME Control, Reading
  PROVE  /\ Running /\ step \in Steps(plan) /\ S \in StepRecord
         /\ \A j \in 1..(step - 1) : j \in Steps(plan) /\ Past(j)
         /\ attempt \in Nat \ {0}
         /\ \A j \in Steps(plan) : j \in 0..LongestPlan /\ SerialOf(j) = SerialIn(attempt, j)
<1>1. /\ Running /\ plan \in Seq(StepRecord) /\ Len(plan) <= LongestPlan /\ step <= Len(plan)
      /\ attempt \in Nat \ {0} /\ LongestPlan \in Nat
  BY NoPlan DEF Control, ReviewTyped, RunTyped, Reading
<1>2. Steps(plan) = 1..Len(plan) /\ Len(plan) \in Nat /\ step \in 1..Len(plan)
  BY <1>1 DEF Running, Steps
<1>3. S \in StepRecord
  BY <1>1, <1>2 DEF S
<1> QED
  BY <1>1, <1>2, <1>3 DEF Past, SerialOf

\* A step before the one in hand that makes r and succeeded has left r.
LEMMA MakerLeft ==
  ASSUME Control, SuccessesMade, Reading, NEW r \in Refs, r.flavour \in {"bool", "data"},
         NEW j \in Makers(r), status[j] = "success"
  PROVE  /\ j \in Steps(plan)
         /\ \/ r.root = plan[j].id /\ WrittenNow(Key(r.flavour, r.root, SerialIn(attempt, j)))
            \/ WrittenNow(Key(r.flavour, r.root, 0))
<1>1. /\ j \in Steps(plan) /\ Past(j) /\ SerialOf(j) = SerialIn(attempt, j) /\ phase = "run"
      /\ r \in Both(plan[j].id) \cup OutNames(plan[j])
  BY ReadingStep DEF Makers, Reading
<1>2. MadeBy(j)
  BY <1>1 DEF SuccessesMade, Done
<1>3. CASE r \in Both(plan[j].id)
  <2>1. r.root = plan[j].id
    BY <1>3 DEF Both, Ref
  <2> QED
    BY <1>1, <1>2, <2>1 DEF MadeBy
<1>4. CASE r \in OutNames(plan[j])
  <2>1. r.root = plan[j].out /\ plan[j].out # None
    BY <1>4 DEF OutNames, Both, Ref
  <2> QED
    BY <1>1, <1>2, <2>1 DEF MadeBy
<1> QED
  BY <1>1, <1>3, <1>4

-----------------------------------------------------------------------------
(* The theorems.                                                             *)

IInv == Control /\ Heard /\ RegistryOK /\ SuccessesMade /\ Admitted /\ Resolved

THEOREM Invariance == Spec => []IInv
<1>1. Init => IInv
  <2>1. ASSUME Init PROVE SuccessesMade /\ Admitted /\ Resolved
    BY <2>1 DEF Init, ReviewInit, SuccessesMade, Admitted, Resolved
  <2> QED
    BY <2>1, ControlInit, HeardAlways, RegistryInit DEF IInv
<1>2. IInv /\ [Next]_vars => IInv'
  BY ControlStep, HeardAlways, RegistryStep, SuccessesStep, AdmittedStep, ResolvedStep DEF IInv
<1> QED
  BY <1>1, <1>2, PTL DEF Spec

\* The variables have their types in every state: attempts stay within their
\* number, keys of the registry within the serials of the attempts, marks and
\* warnings within the attempts there have been, and what is crucial is held.
THEOREM TypeCorrect == Spec => []TypeOK
<1>1. ASSUME IInv PROVE TypeOK
  <2>1. \A k \in Holds : KeyOK(k) /\ registry[k].tag \in 0..attempt
    BY <1>1 DEF IInv, RegistryOK, EntryOK, KeySet, KeyOK
  <2> QED
    BY <1>1, <2>1 DEF IInv, Control, ReviewTyped, RunTyped, RegistryOK, TypeOK, Phases
<1> QED
  BY <1>1, Invariance, PTL

\* A plan that comes to its final verification has done every crucial step: a
\* crucial step that is skipped, or whose condition cannot be read, is reported
\* and the end of the plan does not overlook the report.
THEOREM TheVerifiedIsDone == Spec => []CrucialStepsSucceeded
<1>1. IInv => CrucialStepsSucceeded
  BY DEF IInv, Control
<1> QED
  BY <1>1, Invariance, PTL

\* The child solver of a subtask learns the verdict of its step, and once,
\* whichever way the step ends: refusal, failure, a stop or success.
THEOREM TheChildrenAreTold == Spec => []ChildrenCredited
<1>1. IInv => ChildrenCredited
  BY DEF IInv, Control
<1> QED
  BY <1>1, Invariance, PTL

\* A plan never runs on a consent that was not given: if it was accepted on
\* earlier answers, all of them were yes, and each sensitive step was covered.
THEOREM TheInheritedWasGiven == Spec => []InheritedConsentWasGiven
<1>1. IInv => InheritedConsentWasGiven
  BY DEF IInv, Heard
<1> QED
  BY <1>1, Invariance, PTL

\* The warnings kept for the final verification are about the accepted plan,
\* although refused plans and repairs have written the same lists before.
THEOREM TheWarningsAreCurrent == Spec => []WarningsAreCurrent
<1>1. IInv => WarningsAreCurrent
  BY DEF IInv, Heard
<1> QED
  BY <1>1, Invariance, PTL

\* A step lacks what it has to read only if no step that makes it succeeded, or
\* in the two ways in which a condition may name what its producer did not
\* leave: planner, gate and executor agree on every other name.
THEOREM TheUnboundIsUnmade == Spec => []UnboundOnlyIfUnmade
<1>1. ASSUME IInv PROVE UnboundOnlyIfUnmade
  <2> SUFFICES ASSUME Reading, NEW r \in ExecutableReads(S), r.flavour # "bare", ~Bound(r)
               PROVE  \/ /\ Makers(r) # {}
                         /\ \A j \in Makers(r) : status[j] \in {"skipped", "failed"}
                      \/ r \in CondReads(S) /\ Twin(r) \in Holds
                      \/ r \in CondReads(S) /\ Ref("bare", r.root) \in SeenAliases(plan, step)
    BY DEF UnboundOnlyIfUnmade
  <2>1. /\ Control /\ RegistryOK /\ SuccessesMade /\ Admitted /\ Resolved
    BY <1>1 DEF IInv
  <2>2. /\ Running /\ step \in Steps(plan) /\ S \in StepRecord /\ S = plan[step]
        /\ \A j \in 1..(step - 1) : j \in Steps(plan) /\ Past(j)
    BY <2>1, ReadingStep DEF S
  <2>3. r \in Refs /\ r.flavour \in {"bool", "data"}
    BY <2>2, ReadsAreRefs DEF Flavours
  <2>4. Key(r.flavour, r.root, 0) \notin Holds /\ Fuzzy(r) = {}
    BY <2>1, <2>3, FoundIs
  <2>5. \A k \in Holds : k.root = r.root => k.flavour # "bare" /\ k.flavour # r.flavour
    BY <2>4 DEF Fuzzy, SameFlavour
  <2>6. \A serial : /\ Key(r.flavour, r.root, serial) \notin Holds
                    /\ Key("bare", r.root, serial) \notin Holds
    BY <2>5 DEF Key
  <2>7. ASSUME NEW j \in Makers(r) PROVE status[j] \in {"skipped", "failed"}
    <3>1. status[j] # "success"
      BY <2>1, <2>3, <2>6, MakerLeft DEF WrittenNow
    <3>2. j \in Steps(plan) /\ Past(j)
      BY <2>2 DEF Makers
    <3>3. status[j] \in Statuses /\ status[j] # "pending"
      BY <2>1, <2>2, <3>2 DEF Running, Control, RunTyped
    <3> QED
      BY <3>1, <3>3 DEF Statuses
  <2>8. CASE r \in ArgReads(S)
    <3>1. PICK j \in 1..(step - 1) : r \in Declares(plan[j])
      BY <2>1, <2>2, <2>8 DEF Resolved, Reading
    <3>2. j \in Makers(r)
      BY <2>3, <3>1 DEF Declares, AliasNames, Ref, Makers
    <3> QED
      BY <2>7, <3>2
  <2>9. CASE r \in CondReads(S)
    <3>1. Promised(step, r)
      BY <2>1, <2>2 DEF Admitted, Reading
    <3> QED
      BY <2>6, <2>7, <2>9, <3>1 DEF Promised, Makers
  <2> QED
    BY <2>8, <2>9 DEF ExecutableReads
<1> QED
  BY <1>1, Invariance, PTL

\* If no output is called like a step, what a step of this attempt has produced
\* is what a later step reads: older values under the same local name neither
\* precede it in the registry's order nor hide it, whatever the marks say.
THEOREM TheAttemptIsRead == NamesApart => (Spec => []ReadsPreferTheAttempt)
<1> SUFFICES ASSUME NamesApart PROVE Spec => []ReadsPreferTheAttempt
  OBVIOUS
<1>1. ASSUME IInv PROVE ReadsPreferTheAttempt
  <2> SUFFICES ASSUME Reading, NEW r \in Reads(S), NEW j \in Makers(r), status[j] = "success"
               PROVE  Bound(r) /\ registry[Find(r)].wrote = attempt
    BY DEF ReadsPreferTheAttempt
  <2>1. Control /\ RegistryOK /\ SuccessesMade
    BY <1>1 DEF IInv
  <2>2. /\ S \in StepRecord /\ attempt \in Nat \ {0}
        /\ \A i \in Steps(plan) : i \in 0..LongestPlan
    BY <2>1, ReadingStep
  <2>3. r \in Refs /\ r.flavour \in {"bool", "data"}
    <3>1. r \in Refs
      BY <2>2, ReadsAreRefs
    <3>2. r.flavour \in {"bool", "data"}
      BY DEF Makers, Both, OutNames, Ref
    <3> QED
      BY <3>1, <3>2
  <2> PICK own, mine : /\ own = Key(r.flavour, r.root, 0)
                       /\ mine = Key(r.flavour, r.root, SerialIn(attempt, j))
    OBVIOUS
  <2>4. j \in Steps(plan) /\ ((r.root = plan[j].id /\ WrittenNow(mine)) \/ WrittenNow(own))
    BY <2>1, <2>3, MakerLeft
  <2>5. CASE WrittenNow(own)
    BY <2>1, <2>3, <2>5, FoundIs DEF WrittenNow
  <2>6. CASE r.root = plan[j].id /\ WrittenNow(mine)
    <3>1. r.root \notin Named
      <4>1. r.root \in Ids
        BY <2>1, <2>4, <2>6 DEF Control, ReviewTyped
      <4> QED
        BY <4>1 DEF NamesApart, Ids, Named
    <3>2. own \notin Holds
      <4>1. own.serial = 0 /\ own.flavour # "bare" /\ own.root = r.root
        BY <2>3 DEF Key
      <4> QED
        BY <2>1, <3>1, <4>1 DEF RegistryOK, EntryOK
    <3>3. /\ mine \in Fuzzy(r) /\ mine.serial = SerialIn(attempt, j)
          /\ registry[mine].wrote = attempt
      BY <2>6 DEF WrittenNow, Fuzzy, SameFlavour, Key
    <3> PICK k : k = Find(r)
      OBVIOUS
    <3>4. k \in Fuzzy(r) /\ Bound(r) /\ Fresher(k, mine)
      BY <2>1, <2>3, <3>2, <3>3, FoundIs
    <3>5. k \in Holds /\ k.root = r.root /\ EntryOK(k, registry[k])
      BY <2>1, <3>4 DEF Fuzzy, RegistryOK
    <3>6. registry[k].wrote \in 1..attempt /\ k.serial \in Nat
      <4>1. k \in KeySet /\ SerialIn(MaxAttempts, LongestPlan) \in Nat
        BY <2>1, <3>5, NoPlan, SerialsGrow DEF RegistryOK
      <4> QED
        BY <3>5, <4>1 DEF EntryOK, KeySet
    <3>7. SerialIn(attempt, j) \in Nat /\ SerialIn(attempt, j) >= 1
      BY <2>2, <2>4, SerialsGrow
    <3>8. CASE k.serial = 0
      <4>1. k.flavour = "bare" /\ registry[k].tag = 0
        BY <3>1, <3>5, <3>8 DEF EntryOK
      <4>2. ~Current(k)
        BY <2>2, <4>1 DEF Current
      <4> QED
        BY <3>3, <3>4, <3>7, <3>8, <4>2 DEF Fresher
    <3>9. CASE k.serial # 0
      <4> PICK w : w = registry[k].wrote
        OBVIOUS
      <4>1. PICK i \in 1..LongestPlan : k.serial = SerialIn(w, i)
        BY <3>5, <3>9 DEF EntryOK
      <4>2. Current(k) => w = attempt
        BY <2>2, <3>5, <3>9 DEF EntryOK, Current
      <4>3. w < attempt => SerialIn(w, i) < SerialIn(attempt, j)
        <5>1. w \in Nat /\ i \in 0..LongestPlan /\ j \in 0..LongestPlan /\ attempt \in Nat
          BY <2>2, <2>4, <3>6, NoPlan
        <5> QED
          BY <5>1, SerialsGrow
      <4>4. Current(k) \/ k.serial >= mine.serial
        BY <3>4 DEF Fresher
      <4> QED
        BY <2>2, <3>3, <3>4, <3>6, <3>7, <4>1, <4>2, <4>3, <4>4
    <3> QED
      BY <3>8, <3>9
  <2> QED
    BY <2>4, <2>5, <2>6
<1> QED
  BY <1>1, Invariance, PTL
=============================================================================
