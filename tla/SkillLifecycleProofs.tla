------------------------ MODULE SkillLifecycleProofs ------------------------
(***************************************************************************)
(* What holds of a skill for every number of versions, missions and packets  *)
(* and every choice of the thresholds.  The typing, the pointer and the lone *)
(* version in production are proved together: a promotion leaves one version *)
(* in production only because an active version on trial tells that the      *)
(* pointer is NULL and that nothing else is served.                          *)
(***************************************************************************)
EXTENDS SkillLifecycle, SequenceTheorems, FiniteSetTheorems, TLAPS

Inv == TypeOK /\ PointerServes /\ LoneProduction

\* The thresholds, one by one.
LEMMA Thresholds ==
  /\ Discovery \in Nat \ {0} /\ BreakerMax \in Nat /\ EngineBreaker \in Nat
  /\ MaxHostActs \in Nat
BY ThresholdsArePositive

-----------------------------------------------------------------------------
(* The registry.                                                             *)

\* A version that is rewritten keeps its number, and the others keep their rows.
LEMMA RowReplaced ==
  ASSUME TypeOK, NEW v \in Numbers, NEW row \in Version,
         versions' = [versions EXCEPT ![v] = row]
  PROVE  /\ versions' \in Seq(Version)
         /\ Numbers' = Numbers
         /\ \A w \in Numbers : versions'[w] = IF w = v THEN row ELSE versions[w]
<1>1. versions \in Seq(Version) /\ Numbers = 1..Len(versions) /\ Len(versions) \in Nat
  BY DEF TypeOK, Numbers
<1>2. versions' \in Seq(Version) /\ Len(versions') = Len(versions)
  BY <1>1, ExceptSeq
<1>3. Numbers' = 1..Len(versions')
  BY <1>2 DEF Numbers
<1> QED
  BY <1>1, <1>2, <1>3, ExceptSeq

\* A new version takes the number after the last and starts on trial.
LEMMA VersionAdded ==
  ASSUME TypeOK, NEW origin \in Origins, AddVersion(origin)
  PROVE  /\ versions' \in Seq(Version)
         /\ Numbers' = Numbers \cup {Len(versions) + 1}
         /\ Len(versions) + 1 \notin Numbers
         /\ \A w \in Numbers : versions'[w] = versions[w]
         /\ versions'[Len(versions) + 1].state = "SHADOW"
<1> DEFINE row == [state |-> "SHADOW", origin |-> origin, oks |-> 0, misses |-> 0, fails |-> 0]
<1>1. versions \in Seq(Version) /\ Numbers = 1..Len(versions) /\ Len(versions) \in Nat
  BY DEF TypeOK, Numbers
<1>2. row \in Version
  BY DEF Version, States
<1>3. versions' = Append(versions, row)
  BY DEF AddVersion
<1>4. /\ versions' \in Seq(Version)
      /\ Len(versions') = Len(versions) + 1
      /\ \A w \in 1..Len(versions) : versions'[w] = versions[w]
      /\ versions'[Len(versions) + 1] = row
  BY <1>1, <1>2, <1>3, AppendProperties
<1>5. Numbers' = 1..Len(versions')
  BY <1>4 DEF Numbers
<1> QED
  BY <1>1, <1>4, <1>5

\* The active version is one of the versions, and it is the one pointed at when
\* there is one.
LEMMA ActiveInRegistry ==
  ASSUME TypeOK, Active # 0
  PROVE  Active \in Numbers /\ (pointer \in Numbers => Active = pointer)
<1> DEFINE Open == {v \in Numbers : versions[v].state \in {"PRODUCTION", "SHADOW"}}
<1>1. Highest(Open) # 0 => Highest(Open) \in Open
  BY DEF Highest
<1> QED
  BY <1>1 DEF Active

\* The rows the blocks write are rows.
LEMMA Rows ==
  ASSUME TypeOK, NEW v \in Numbers
  PROVE  /\ versions[v] \in Version
         /\ Aligned(v) \in Version
         /\ [versions[v] EXCEPT !.misses = @ + 1] \in Version
         /\ [versions[v] EXCEPT !.fails = 0] \in Version
         /\ \A state \in States, limit \in Nat : Failed(v, limit, state) \in Version
<1> DEFINE row == versions[v]
<1>1. row \in Version
  BY DEF TypeOK, Numbers
<1>2. /\ row.oks + 1 \in Nat /\ row.misses + 1 \in Nat /\ row.fails + 1 \in Nat
      /\ (IF row.misses > 0 THEN row.misses - 1 ELSE 0) \in Nat
  BY <1>1 DEF Version
<1>3. /\ [row EXCEPT !.misses = row.misses + 1] \in Version
      /\ [row EXCEPT !.fails = 0] \in Version
  BY <1>1, <1>2 DEF Version
<1>4. Aligned(v) \in Version
  <2> DEFINE oks == row.oks + 1
             misses == IF row.misses > 0 THEN row.misses - 1 ELSE 0
  <2>1. ASSUME NEW x \in Nat, NEW y \in Nat
        PROVE  [row EXCEPT !.oks = x, !.misses = y] \in Version
    BY <1>1 DEF Version
  <2>2. [row EXCEPT !.oks = oks, !.misses = misses] \in Version
    BY <1>2, <2>1
  <2> QED
    BY <2>2 DEF Aligned
<1>5. ASSUME NEW state \in States, NEW limit \in Nat
      PROVE  Failed(v, limit, state) \in Version
  <2>1. (IF Tripped(v, limit) THEN state ELSE row.state) \in States
    BY <1>1 DEF Version
  <2> QED
    BY <1>1, <1>2, <2>1 DEF Failed, Version
<1> QED
  BY <1>1, <1>3, <1>4, <1>5

\* transition_state moves one version, and the pointer follows it.
LEMMA Moved ==
  ASSUME TypeOK, PointerServes, NEW v \in Numbers, NEW row \in Version,
         NEW state \in States, Transition(v, row, state)
  PROVE  /\ versions' \in Seq(Version) /\ pointer' \in Nat
         /\ Numbers' = Numbers
         /\ PointerServes'
         /\ \A w \in Numbers : versions'[w].state = IF w = v THEN state ELSE versions[w].state
<1> DEFINE new == [row EXCEPT !.state = state]
<1>1. new \in Version /\ new.state = state
  BY DEF Version
<1>2. versions' = [versions EXCEPT ![v] = new]
  BY DEF Transition
<1>3. /\ versions' \in Seq(Version)
      /\ Numbers' = Numbers
      /\ \A w \in Numbers : versions'[w] = IF w = v THEN new ELSE versions[w]
  BY <1>1, <1>2, RowReplaced
<1>4. Numbers \subseteq Nat /\ pointer \in Nat
  BY DEF TypeOK, Numbers
<1>5. pointer' = IF versions[v].state = state THEN pointer ELSE PointerAfter(v, state)
  BY DEF Transition
<1>6. PointerServes'
  BY <1>1, <1>3, <1>5 DEF PointerServes, PointerAfter, Dead
<1> QED
  BY <1>1, <1>3, <1>4, <1>5, <1>6 DEF PointerAfter

\* record_run_metric moves one version, from production only, to its death.
LEMMA Broken ==
  ASSUME TypeOK, PointerServes, NEW v \in Numbers, NEW limit \in Nat,
         NEW state \in Dead, Fail(v, limit, state)
  PROVE  /\ versions' \in Seq(Version) /\ pointer' \in Nat
         /\ Numbers' = Numbers
         /\ PointerServes'
         /\ pointer' = IF Tripped(v, limit) THEN 0 ELSE pointer
         /\ \A w \in Numbers : versions'[w].state =
              IF w = v /\ Tripped(v, limit) THEN state ELSE versions[w].state
<1> DEFINE new == Failed(v, limit, state)
<1>1. new \in Version
  BY Rows DEF Dead, States
<1>2. new.state = IF Tripped(v, limit) THEN state ELSE versions[v].state
  BY Rows DEF Failed, Version
<1>3. /\ versions' \in Seq(Version)
      /\ Numbers' = Numbers
      /\ \A w \in Numbers : versions'[w] = IF w = v THEN new ELSE versions[w]
  BY <1>1, RowReplaced DEF Fail
<1>4. pointer \in Nat /\ pointer' = IF Tripped(v, limit) THEN 0 ELSE pointer
  BY DEF TypeOK, Fail
<1> QED
  BY <1>2, <1>3, <1>4 DEF PointerServes

-----------------------------------------------------------------------------
(* The invariant.                                                            *)

LEMMA Initially == Init => Inv
<1> SUFFICES ASSUME Init PROVE Inv
  OBVIOUS
<1>1. versions \in Seq(Version) /\ Numbers = {}
  BY DEF Init, Numbers
<1>2. streak \in 0..Discovery /\ hostActs \in 0..MaxHostActs /\ pointer \in Nat
  BY Thresholds DEF Init
<1>3. doing \in [Missions -> Work] /\ touched \in BOOLEAN
  BY DEF Init, Work, Idle
<1>4. TypeOK
  BY <1>1, <1>2, <1>3 DEF TypeOK
<1> QED
  BY <1>1, <1>4 DEF Init, Inv, PointerServes, LoneProduction

\* While the host has set no state, a version on trial is active only when
\* nothing is in production.
LEMMA TrialsAreAlone ==
  ASSUME Inv, ~touched, ActiveIs("SHADOW")
  PROVE  pointer = 0 /\ \A v \in Numbers : versions[v].state # "PRODUCTION"
<1>1. Active \in Numbers /\ (pointer \in Numbers => Active = pointer)
  BY ActiveInRegistry DEF ActiveIs, Inv
<1>2. pointer \notin Numbers
  BY <1>1 DEF ActiveIs, Inv, LoneProduction
<1> QED
  BY <1>2 DEF Inv, LoneProduction, PointerServes

\* The work of the missions is typed whatever they turn to.
LEMMA Turning ==
  ASSUME TypeOK, NEW m \in Missions
  PROVE  /\ [doing EXCEPT ![m] = Idle] \in [Missions -> Work]
         /\ [doing EXCEPT ![m] = Synthesis] \in [Missions -> Work]
         /\ \A v \in Numbers : /\ [doing EXCEPT ![m] = Repair(v)] \in [Missions -> Work]
                              /\ [doing EXCEPT ![m] = Execution(v)] \in [Missions -> Work]
<1>1. doing \in [Missions -> Work] /\ Numbers \subseteq Nat
  BY DEF TypeOK, Numbers
<1>2. /\ Idle \in Work /\ Synthesis \in Work
      /\ \A v \in Nat : Repair(v) \in Work /\ Execution(v) \in Work
  BY DEF Work, Idle, Synthesis, Repair, Execution
<1> QED
  BY <1>1, <1>2

LEMMA Growing == TypeOK => Grown \in 0..Discovery /\ 0 \in 0..Discovery
BY Thresholds DEF TypeOK, Grown

-----------------------------------------------------------------------------
(* The steps.                                                                *)

\* The blocks that leave the registry alone.
LEMMA MissionStep ==
  ASSUME Inv, NEW m \in Missions,
         \/ SucceededWithout(m) \/ SucceededServed(m) \/ FailedUnserved(m)
         \/ ExecutionStarts(m) \/ Abandon(m)
  PROVE  Inv'
<1>1. UNCHANGED <<versions, pointer, hostActs, touched>>
  BY DEF SucceededWithout, SucceededServed, FailedUnserved, ExecutionStarts, Abandon
<1>2. streak' \in 0..Discovery
  BY Growing DEF Inv, TypeOK, SucceededWithout, SucceededServed, FailedUnserved,
                 ExecutionStarts, Abandon
<1>3. doing' \in [Missions -> Work]
  BY Turning DEF Inv, TypeOK, SucceededWithout, SucceededServed, FailedUnserved,
                 ExecutionStarts, Abandon, SynthesisIfDue
<1>4. Numbers' = Numbers
  BY <1>1 DEF Numbers
<1> QED
  BY <1>1, <1>2, <1>3, <1>4 DEF Inv, TypeOK, PointerServes, LoneProduction

\* A promotion leaves one version in production, an obsolete trial none more.
LEMMA TrialStep ==
  ASSUME Inv, NEW m \in Missions, SucceededAligned(m) \/ SucceededOtherwise(m)
  PROVE  Inv'
<1>1. ActiveIs("SHADOW") /\ Active \in Numbers
  BY ActiveInRegistry DEF Inv, ActiveIs, SucceededAligned, SucceededOtherwise
<1>2. PICK row \in Version, state \in {"SHADOW", "PRODUCTION", "QUARANTINE"} :
        Transition(Active, row, state)
  <2>1. CASE SucceededAligned(m)
    BY <2>1, <1>1, Rows DEF SucceededAligned, Inv
  <2>2. CASE SucceededOtherwise(m)
    BY <2>2, <1>1, Rows DEF SucceededOtherwise, Inv
  <2> QED
    BY <2>1, <2>2
<1>3. /\ versions' \in Seq(Version) /\ pointer' \in Nat
      /\ Numbers' = Numbers
      /\ PointerServes'
      /\ \A w \in Numbers :
           versions'[w].state = IF w = Active THEN state ELSE versions[w].state
  <2>1. state \in States
    BY DEF States
  <2> QED
    BY <1>1, <1>2, <2>1, Moved DEF Inv
<1>4. TypeOK'
  <2>1. doing' \in [Missions -> Work]
    BY Turning DEF Inv, TypeOK, SucceededAligned, SucceededOtherwise, SynthesisIfDue
  <2>2. streak' \in 0..Discovery /\ UNCHANGED <<hostActs, touched>>
    BY Growing DEF Inv, SucceededAligned, SucceededOtherwise
  <2> QED
    BY <1>3, <2>1, <2>2 DEF Inv, TypeOK
<1>5. LoneProduction'
  <2> SUFFICES ASSUME ~touched', NEW w \in Numbers
               PROVE  versions'[w].state = "PRODUCTION" <=> pointer' = w
    BY <1>3 DEF LoneProduction
  <2>1. ~touched
    BY DEF SucceededAligned, SucceededOtherwise
  <2>2. pointer = 0 /\ versions[w].state # "PRODUCTION"
    BY <2>1, <1>1, TrialsAreAlone
  <2>3. pointer' = IF state = "PRODUCTION" THEN Active ELSE 0
    BY <2>2, <1>1, <1>2 DEF Transition, PointerAfter, ActiveIs
  <2>4. Active # 0 /\ w # 0
    BY <1>1 DEF ActiveIs, Inv, TypeOK, Numbers
  <2> QED
    BY <1>3, <2>2, <2>3, <2>4
<1> QED
  BY <1>3, <1>4, <1>5 DEF Inv

\* The breaker leaves nothing in production.
LEMMA BreakerStep ==
  ASSUME Inv, NEW m \in Missions, FailedServed(m) \/ ExecutionFails(m)
  PROVE  Inv'
<1>1. PICK v \in Numbers, limit \in Nat, state \in Dead : Fail(v, limit, state)
  <2>1. CASE FailedServed(m)
    BY <2>1, ActiveInRegistry, Thresholds DEF FailedServed, ActiveIs, Inv, Dead
  <2>2. CASE ExecutionFails(m)
    BY <2>2, Thresholds DEF ExecutionFails, Dead
  <2> QED
    BY <2>1, <2>2
<1>2. /\ versions' \in Seq(Version) /\ pointer' \in Nat
      /\ Numbers' = Numbers
      /\ PointerServes'
      /\ pointer' = IF Tripped(v, limit) THEN 0 ELSE pointer
      /\ \A w \in Numbers : versions'[w].state =
           IF w = v /\ Tripped(v, limit) THEN state ELSE versions[w].state
  BY <1>1, Broken DEF Inv
<1>3. TypeOK'
  <2>1. doing' \in [Missions -> Work]
    BY Turning, ActiveInRegistry DEF Inv, FailedServed, ExecutionFails, ActiveIs
  <2>2. streak' \in 0..Discovery /\ UNCHANGED <<hostActs, touched>>
    BY Growing DEF Inv, TypeOK, FailedServed, ExecutionFails
  <2> QED
    BY <1>2, <2>1, <2>2 DEF Inv, TypeOK
<1>4. LoneProduction'
  <2> SUFFICES ASSUME ~touched', NEW w \in Numbers
               PROVE  versions'[w].state = "PRODUCTION" <=> pointer' = w
    BY <1>2 DEF LoneProduction
  <2>1. \A x \in Numbers : versions[x].state = "PRODUCTION" <=> pointer = x
    BY DEF FailedServed, ExecutionFails, Inv, LoneProduction
  <2>2. w # 0
    BY DEF Inv, TypeOK, Numbers
  <2>3. CASE Tripped(v, limit)
    BY <2>1, <2>2, <2>3, <1>2 DEF Tripped, Dead
  <2>4. CASE ~Tripped(v, limit)
    BY <2>1, <2>4, <1>2
  <2> QED
    BY <2>3, <2>4
<1> QED
  BY <1>2, <1>3, <1>4 DEF Inv

\* A new version is on trial and the pointer does not name it.
LEMMA CreationStep ==
  ASSUME Inv, NEW m \in Missions, Synthesised(m) \/ Repaired(m)
  PROVE  Inv'
<1> DEFINE new == Len(versions) + 1
<1>1. PICK origin \in Origins : AddVersion(origin)
  BY DEF Synthesised, Repaired, Origins
<1>2. /\ versions' \in Seq(Version)
      /\ Numbers' = Numbers \cup {new}
      /\ new \notin Numbers
      /\ \A w \in Numbers : versions'[w] = versions[w]
      /\ versions'[new].state = "SHADOW"
  BY <1>1, VersionAdded DEF Inv
<1>3. TypeOK'
  <2>1. doing' \in [Missions -> Work]
    BY Turning DEF Inv, Synthesised, Repaired
  <2> QED
    BY <1>2, <2>1 DEF Inv, TypeOK, Synthesised, Repaired
<1>4. pointer' = pointer /\ touched' = touched
  BY DEF Synthesised, Repaired
<1>5. new # 0
  BY DEF Inv, TypeOK
<1>6. PointerServes' /\ LoneProduction'
  BY <1>2, <1>4, <1>5 DEF Inv, PointerServes, LoneProduction
<1> QED
  BY <1>3, <1>6 DEF Inv

\* A success clears the failures of one version.
LEMMA SuccessStep ==
  ASSUME Inv, NEW m \in Missions, ExecutionSucceeds(m)
  PROVE  Inv'
<1> DEFINE v == doing[m].of
           row == [versions[v] EXCEPT !.fails = 0]
<1>1. v \in Numbers /\ versions[v] \in Version /\ row \in Version
  BY Rows DEF ExecutionSucceeds, Inv
<1>2. row.state = versions[v].state
  BY <1>1 DEF Version
<1>3. /\ versions' \in Seq(Version)
      /\ Numbers' = Numbers
      /\ \A w \in Numbers : versions'[w] = IF w = v THEN row ELSE versions[w]
  BY <1>1, RowReplaced DEF ExecutionSucceeds, Inv
<1>4. \A w \in Numbers : versions'[w].state = versions[w].state
  BY <1>2, <1>3
<1>5. doing' \in [Missions -> Work]
  BY Turning DEF Inv, ExecutionSucceeds
<1>6. UNCHANGED <<pointer, streak, hostActs, touched>>
  BY DEF ExecutionSucceeds
<1>7. TypeOK'
  BY <1>3, <1>5, <1>6 DEF Inv, TypeOK
<1>8. PointerServes' /\ LoneProduction'
  BY <1>3, <1>4, <1>6 DEF Inv, PointerServes, LoneProduction
<1> QED
  BY <1>7, <1>8 DEF Inv

\* What the host does by hand keeps the pointer; a package starts afresh.
LEMMA HostStep ==
  ASSUME Inv, HostSetsState \/ HostImports
  PROVE  Inv'
<1>1. hostActs' \in 0..MaxHostActs
  BY Thresholds DEF Inv, TypeOK, HostSetsState, HostImports
<1>2. CASE HostSetsState
  <2>1. PICK v \in Numbers, state \in States : Transition(v, versions[v], state)
    BY <1>2 DEF HostSetsState
  <2>2. /\ versions' \in Seq(Version) /\ pointer' \in Nat
        /\ PointerServes'
    BY <2>1, Rows, Moved DEF Inv
  <2>3. TypeOK' /\ LoneProduction'
    BY <1>1, <1>2, <2>2 DEF HostSetsState, Inv, TypeOK, LoneProduction
  <2> QED
    BY <2>2, <2>3 DEF Inv
<1>3. CASE HostImports
  <2>1. PICK row \in Packaged : versions' = <<AsImported(row)>>
    BY <1>3 DEF HostImports
  <2>2. AsImported(row) \in Version /\ AsImported(row).state # "PRODUCTION"
    <3>1. row \in Version
      <4>1. 0..ShadowNeed \subseteq Nat /\ 0..BreakerMax \subseteq Nat
        BY ThresholdsArePositive
      <4> QED
        BY <4>1 DEF Packaged, Version, Origins
    <3>2. (IF row.state = "PRODUCTION" THEN "SHADOW" ELSE row.state) \in States \ {"PRODUCTION"}
      BY <3>1 DEF Version, States
    <3> QED
      BY <3>1, <3>2 DEF AsImported, Version, Origins
  <2>3. /\ versions' \in Seq(Version)
        /\ Numbers' = {1}
        /\ versions'[1].state # "PRODUCTION"
    BY <2>1, <2>2 DEF Numbers
  <2>4. pointer' = 0 /\ UNCHANGED <<streak, doing>> /\ touched' = FALSE
    BY <1>3 DEF HostImports
  <2>5. PointerServes' /\ LoneProduction'
    BY <2>3, <2>4 DEF PointerServes, LoneProduction
  <2>6. TypeOK'
    BY <1>1, <2>3, <2>4 DEF Inv, TypeOK
  <2> QED
    BY <2>5, <2>6 DEF Inv
<1> QED
  BY <1>2, <1>3

LEMMA NextStep == Inv /\ [Next]_vars => Inv'
<1> SUFFICES ASSUME Inv, [Next]_vars PROVE Inv'
  OBVIOUS
<1>1. CASE Next
  BY <1>1, MissionStep, TrialStep, BreakerStep, CreationStep, SuccessStep, HostStep DEF Next
<1>2. CASE UNCHANGED vars
  <2>1. Numbers' = Numbers
    BY <1>2 DEF vars, Numbers
  <2> QED
    BY <1>2, <2>1 DEF vars, Inv, TypeOK, PointerServes, LoneProduction
<1> QED
  BY <1>1, <1>2

-----------------------------------------------------------------------------
(* The theorems.                                                             *)

\* The lifecycle keeps its invariant.
THEOREM Invariance == Spec => []Inv
BY Initially, NextStep, PTL DEF Spec

\* Every state of the registry and of the missions is typed (TypeOK).
THEOREM TypeCorrect == Spec => []TypeOK
BY Invariance, PTL DEF Inv

\* The pointer to production names a version that is there and not dead,
\* whatever the breaker, the transitions and the imports did (PointerServes).
THEOREM ThePointerServes == Spec => []PointerServes
BY Invariance, PTL DEF Inv

\* The missions alone, however they overlap, never leave two versions in
\* production, nor one that the pointer does not name (LoneProduction).
THEOREM ProductionIsAlone == Spec => []LoneProduction
BY Invariance, PTL DEF Inv

\* A step that is not the host's revives no version (DeadStayDead).
LEMMA NoRevival ==
  ASSUME Inv, [Next]_vars, hostActs' = hostActs,
         NEW v \in Numbers, versions[v].state \in Dead
  PROVE  versions'[v].state \in Dead
<1>1. CASE UNCHANGED versions
  BY <1>1
<1>2. CASE \E m \in Missions : SucceededAligned(m) \/ SucceededOtherwise(m)
  <2>1. Active \in Numbers /\ ActiveIs("SHADOW")
    BY <1>2, ActiveInRegistry DEF SucceededAligned, SucceededOtherwise, ActiveIs, Inv
  <2>2. PICK row \in Version, state \in States : Transition(Active, row, state)
    BY <1>2, <2>1, Rows DEF SucceededAligned, SucceededOtherwise, Inv, States
  <2>3. versions'[v].state = IF v = Active THEN state ELSE versions[v].state
    BY <2>1, <2>2, Moved DEF Inv
  <2> QED
    BY <2>1, <2>3 DEF ActiveIs, Dead
<1>3. CASE \E m \in Missions : FailedServed(m) \/ ExecutionFails(m)
  <2>1. PICK w \in Numbers, limit \in Nat, state \in Dead : Fail(w, limit, state)
    BY <1>3, ActiveInRegistry, Thresholds
    DEF FailedServed, ExecutionFails, ActiveIs, Inv, Dead
  <2>2. versions'[v].state = IF v = w /\ Tripped(w, limit) THEN state ELSE versions[v].state
    BY <2>1, Broken DEF Inv
  <2> QED
    BY <2>2
<1>4. CASE \E m \in Missions : Synthesised(m) \/ Repaired(m)
  <2>1. PICK origin \in Origins : AddVersion(origin)
    BY <1>4 DEF Synthesised, Repaired, Origins
  <2> QED
    BY <2>1, VersionAdded DEF Inv
<1>5. CASE \E m \in Missions : ExecutionSucceeds(m)
  <2>1. PICK m \in Missions : ExecutionSucceeds(m)
    BY <1>5
  <2> DEFINE w == doing[m].of
             row == [versions[w] EXCEPT !.fails = 0]
  <2>2. w \in Numbers /\ versions[w] \in Version /\ row \in Version
    BY <2>1, Rows DEF ExecutionSucceeds, Inv
  <2>3. versions'[v] = IF v = w THEN row ELSE versions[v]
    BY <2>1, <2>2, RowReplaced DEF ExecutionSucceeds, Inv
  <2> QED
    BY <2>2, <2>3 DEF Version
<1>6. hostActs \in Nat
  BY Thresholds DEF Inv, TypeOK
<1>7. ~HostSetsState /\ ~HostImports
  BY <1>6 DEF HostSetsState, HostImports
<1> QED
  BY <1>1, <1>2, <1>3, <1>4, <1>5, <1>7
  DEF Next, vars, SucceededWithout, SucceededServed, FailedUnserved, ExecutionStarts, Abandon

\* A quarantined or retired version comes back by the host's hand only.
THEOREM TheDeadStayDead == Spec => DeadStayDead
<1>1. Inv /\ [Next]_vars
      => [hostActs' = hostActs =>
            \A v \in Numbers : versions[v].state \in Dead => versions'[v].state \in Dead]_vars
  BY NoRevival
<1> QED
  BY <1>1, Invariance, PTL DEF Spec, DeadStayDead

-----------------------------------------------------------------------------
(* Counting what the missions await.                                         *)

Fleet       == Cardinality(Missions)
Repairing   == {m \in Missions : doing[m].kind = "repair"}
Running(v)  == {m \in Missions : doing[m] = Execution(v)}
Charges(v)  == Cardinality(Running(v))

\* A set of missions has a size, and one that leaves a mission out is smaller
\* than the fleet.
LEMMA Sized ==
  ASSUME NEW S \in SUBSET Missions
  PROVE  /\ IsFiniteSet(S) /\ Cardinality(S) \in 0..Fleet
         /\ \A m \in Missions : m \notin S => Cardinality(S) < Fleet
         /\ Fleet \in Nat \ {0}
<1>1. IsFiniteSet(Missions) /\ Missions # {}
  BY MissionsAreSome
<1>2. IsFiniteSet(S) /\ Cardinality(S) <= Fleet /\ (Fleet = Cardinality(S) => Missions = S)
  BY <1>1, FS_Subset DEF Fleet
<1>3. Cardinality(S) \in Nat /\ Fleet \in Nat
  BY <1>1, <1>2, FS_CardinalityType DEF Fleet
<1>4. Fleet # 0
  BY <1>1, FS_EmptySet DEF Fleet
<1> QED
  BY <1>2, <1>3, <1>4

\* A mission that turns to something else than an execution of v leaves at most
\* as many of them in flight, and one less if it was running one.
LEMMA ChargesDrop ==
  ASSUME TypeOK, NEW m \in Missions, NEW w, NEW v,
         doing' = [doing EXCEPT ![m] = w], w # Execution(v)
  PROVE  /\ Charges(v)' \in Nat /\ Charges(v) \in Nat
         /\ Charges(v)' <= Charges(v)
         /\ doing[m] = Execution(v) => Charges(v)' = Charges(v) - 1
         /\ Charges(v)' < Fleet
<1>1. Running(v)' = Running(v) \ {m}
  BY DEF Running, TypeOK, Execution
<1>2. IsFiniteSet(Running(v)) /\ Charges(v) \in Nat
  BY Sized DEF Running, Charges
<1>3. Charges(v)' = IF m \in Running(v) THEN Charges(v) - 1 ELSE Charges(v)
  BY <1>1, <1>2, FS_RemoveElement DEF Charges
<1>4. doing[m] = Execution(v) => m \in Running(v)
  BY DEF Running
<1>5. Running(v)' \in SUBSET Missions /\ m \notin Running(v)'
  BY <1>1 DEF Running
<1>6. Charges(v)' \in Nat /\ Charges(v)' < Fleet
  <2>1. \A S \in SUBSET Missions : m \notin S => Cardinality(S) \in 0..Fleet /\ Cardinality(S) < Fleet
    BY Sized
  <2> QED
    BY <1>5, <2>1, Sized DEF Charges
<1> QED
  BY <1>2, <1>3, <1>4, <1>6

-----------------------------------------------------------------------------
(* The verdicts.                                                             *)

\* On trial, a version has room for the failures of all the executions that
\* may still be charged to it.
OpenTrial(v) ==
  /\ versions[v].oks < ShadowNeed /\ versions[v].misses < MismatchNeed
  /\ versions[v].fails + Charges(v) < Fleet

Unbroken(v) ==
  versions[v].fails < BreakerMax \/ versions[v].fails < EngineBreaker \/ versions[v].fails < Fleet

Judged(v) ==
  versions[v].origin # "IMPORTED" =>
    /\ versions[v].state = "SHADOW" => OpenTrial(v)
    /\ versions[v].state = "PRODUCTION" => Unbroken(v)

VerdictInv == ~touched => \A v \in Numbers : Judged(v)

\* A row that is not touched stays judged if no execution of it begins.
LEMMA StillJudged ==
  ASSUME TypeOK, NEW v \in Numbers, Judged(v), versions'[v] = versions[v],
         Charges(v) \in Nat, Charges(v)' \in Nat,
         Charges(v)' <= Charges(v) \/ versions[v].state # "SHADOW"
  PROVE  Judged(v)'
<1>1. versions[v] \in Version /\ Fleet \in Nat
  BY Rows, Sized
<1> QED
  BY <1>1 DEF Judged, OpenTrial, Unbroken, Version, Fleet

\* The blocks that leave the registry alone.
LEMMA VerdictsOfMissions ==
  ASSUME Inv, VerdictInv, NEW m \in Missions,
         \/ SucceededWithout(m) \/ SucceededServed(m) \/ FailedUnserved(m)
         \/ ExecutionStarts(m) \/ Abandon(m)
  PROVE  VerdictInv'
<1>1. UNCHANGED <<versions, touched>> /\ Numbers' = Numbers
  BY DEF SucceededWithout, SucceededServed, FailedUnserved, ExecutionStarts, Abandon, Numbers
<1> SUFFICES ASSUME ~touched, NEW v \in Numbers PROVE Judged(v)'
  BY <1>1 DEF VerdictInv
<1>2. Judged(v) /\ TypeOK
  BY DEF VerdictInv, Inv
<1>3. Charges(v) \in Nat /\ Charges(v)' \in Nat
  <2>1. Running(v) \in SUBSET Missions /\ Running(v)' \in SUBSET Missions
    BY DEF Running
  <2> QED
    BY <2>1, Sized DEF Charges
<1>4. Charges(v)' <= Charges(v) \/ versions[v].state # "SHADOW"
  <2>1. CASE UNCHANGED doing
    BY <2>1, <1>3 DEF Charges, Running
  <2>2. CASE SucceededWithout(m) \/ Abandon(m)
    <3>1. PICK w \in {Idle, Synthesis} : doing' = [doing EXCEPT ![m] = w]
      BY <2>2 DEF SucceededWithout, Abandon, SynthesisIfDue
    <3>2. w # Execution(v)
      BY DEF Idle, Synthesis, Execution
    <3> QED
      BY <3>1, <3>2, <1>2, ChargesDrop
  <2>3. CASE ExecutionStarts(m)
    <3>1. PICK w \in Numbers : /\ versions[w].state = "PRODUCTION"
                               /\ doing' = [doing EXCEPT ![m] = Execution(w)]
      BY <2>3 DEF ExecutionStarts
    <3>2. CASE w = v
      BY <3>1, <3>2
    <3>3. CASE w # v
      <4>1. Execution(w) # Execution(v)
        BY <3>3 DEF Execution
      <4> QED
        BY <3>1, <4>1, <1>2, ChargesDrop
    <3> QED
      BY <3>2, <3>3
  <2> QED
    BY <2>1, <2>2, <2>3 DEF SucceededServed, FailedUnserved
<1> QED
  BY <1>1, <1>2, <1>3, <1>4, StillJudged

\* What transition_state writes, field by field.
LEMMA Shifted ==
  ASSUME TypeOK, NEW v \in Numbers, NEW row \in Version,
         NEW state \in States, Transition(v, row, state)
  PROVE  /\ Numbers' = Numbers
         /\ \A w \in Numbers : w # v => versions'[w] = versions[w]
         /\ versions'[v].state = state /\ versions'[v].origin = row.origin
         /\ versions'[v].oks = row.oks /\ versions'[v].misses = row.misses
         /\ versions'[v].fails = row.fails
<1> DEFINE new == [row EXCEPT !.state = state]
<1>1. /\ new \in Version /\ new.state = state /\ new.origin = row.origin
      /\ new.oks = row.oks /\ new.misses = row.misses /\ new.fails = row.fails
  BY DEF Version
<1>2. versions' = [versions EXCEPT ![v] = new]
  BY DEF Transition
<1>3. Numbers' = Numbers /\ \A w \in Numbers : versions'[w] = IF w = v THEN new ELSE versions[w]
  BY <1>1, <1>2, RowReplaced
<1>4. versions'[v] = new
  BY <1>3
<1> QED
  BY <1>1, <1>3, <1>4

\* A mission that succeeded drops the execution of none: it awaited nothing.
LEMMA VerdictsOfTrials ==
  ASSUME Inv, VerdictInv, NEW m \in Missions, SucceededAligned(m) \/ SucceededOtherwise(m)
  PROVE  VerdictInv'
<1> PICK a : a = Active
  OBVIOUS
<1> DEFINE ok == [versions[a] EXCEPT !.oks = @ + 1, !.misses = IF @ > 0 THEN @ - 1 ELSE 0]
           ko == [versions[a] EXCEPT !.misses = @ + 1]
<1>1. ActiveIs("SHADOW") /\ a \in Numbers /\ TypeOK
  BY ActiveInRegistry DEF Inv, ActiveIs, SucceededAligned, SucceededOtherwise
<1>2. touched' = touched
  BY DEF SucceededAligned, SucceededOtherwise
<1> SUFFICES ASSUME ~touched PROVE \A v \in Numbers' : Judged(v)'
  BY <1>2 DEF VerdictInv
<1>3. \A v \in Numbers : Judged(v)
  BY DEF VerdictInv
<1>4. \A v \in Numbers : /\ Charges(v) \in Nat /\ Charges(v)' \in Nat
                         /\ Charges(v)' <= Charges(v)
  <2> SUFFICES ASSUME NEW v \in Numbers PROVE Charges(v) \in Nat /\ Charges(v)' \in Nat
                         /\ Charges(v)' <= Charges(v)
    OBVIOUS
  <2>1. Running(v) \in SUBSET Missions
    BY DEF Running
  <2>2. CASE UNCHANGED doing
    BY <2>1, <2>2, Sized DEF Charges, Running
  <2>3. CASE ~UNCHANGED doing
    <3>1. PICK w \in {Idle, Synthesis} : doing' = [doing EXCEPT ![m] = w]
      BY <2>3 DEF SucceededAligned, SucceededOtherwise, SynthesisIfDue
    <3>2. w # Execution(v)
      BY DEF Idle, Synthesis, Execution
    <3> QED
      BY <3>1, <3>2, <1>1, ChargesDrop
  <2> QED
    BY <2>2, <2>3
<1>5. versions[a] \in Version /\ ok \in Version /\ ko \in Version
  BY <1>1, Rows DEF Aligned
<1>6. /\ ok.oks = versions[a].oks + 1 /\ ko.oks = versions[a].oks
      /\ ok.misses = IF versions[a].misses > 0 THEN versions[a].misses - 1 ELSE 0
      /\ ko.misses = versions[a].misses + 1
      /\ ok.fails = versions[a].fails /\ ko.fails = versions[a].fails
      /\ ok.origin = versions[a].origin /\ ko.origin = versions[a].origin
      /\ versions[a].oks \in Nat /\ versions[a].misses \in Nat /\ versions[a].fails \in Nat
  BY <1>5 DEF Version
<1>7. versions[a].state = "SHADOW"
  BY <1>1 DEF ActiveIs
<1>8. ShadowNeed \in Nat \ {0} /\ MismatchNeed \in Nat \ {0} /\ Fleet \in Nat
  BY ThresholdsArePositive, Sized
<1>9. PICK row \in Version, state \in States :
        /\ Transition(a, row, state) /\ state \in {"SHADOW", "PRODUCTION", "QUARANTINE"}
        /\ row.fails = versions[a].fails /\ row.origin = versions[a].origin
        /\ row.misses \in Nat /\ row.oks \in Nat
        /\ state = "SHADOW" /\ OpenTrial(a) => row.oks < ShadowNeed /\ row.misses < MismatchNeed
  <2>1. CASE SucceededAligned(m)
    <3>1. Transition(a, ok, IF Qualified(ok) THEN "PRODUCTION" ELSE "SHADOW")
      BY <2>1 DEF SucceededAligned, Aligned
    <3>2. CASE Qualified(ok)
      <4>1. Transition(a, ok, "PRODUCTION")
        BY <3>1, <3>2
      <4> QED
        BY <4>1, <1>5, <1>6 DEF States, Version
    <3>3. CASE ~Qualified(ok)
      <4>1. Transition(a, ok, "SHADOW")
        BY <3>1, <3>3
      <4>2. OpenTrial(a) => ok.oks < ShadowNeed /\ ok.misses < MismatchNeed
        BY <3>3, <1>6, <1>8 DEF Qualified, OpenTrial
      <4> QED
        BY <4>1, <4>2, <1>5, <1>6 DEF States, Version
    <3> QED
      BY <3>2, <3>3
  <2>2. CASE SucceededOtherwise(m)
    <3>1. Transition(a, ko, IF ko.misses >= MismatchNeed THEN "QUARANTINE" ELSE "SHADOW")
      BY <2>2 DEF SucceededOtherwise
    <3>2. CASE ko.misses >= MismatchNeed
      <4>1. Transition(a, ko, "QUARANTINE")
        BY <3>1, <3>2
      <4> QED
        BY <4>1, <1>5, <1>6 DEF States, Version
    <3>3. CASE ~(ko.misses >= MismatchNeed)
      <4>1. Transition(a, ko, "SHADOW")
        BY <3>1, <3>3
      <4>2. OpenTrial(a) => ko.oks < ShadowNeed /\ ko.misses < MismatchNeed
        BY <3>3, <1>6, <1>8 DEF OpenTrial
      <4> QED
        BY <4>1, <4>2, <1>5, <1>6 DEF States, Version
    <3> QED
      BY <3>2, <3>3
  <2> QED
    BY <2>1, <2>2
<1>10. /\ Numbers' = Numbers
       /\ \A w \in Numbers : w # a => versions'[w] = versions[w]
       /\ versions'[a].state = state /\ versions'[a].origin = row.origin
       /\ versions'[a].oks = row.oks /\ versions'[a].misses = row.misses
       /\ versions'[a].fails = row.fails
  BY <1>1, <1>9, Shifted
<1>11. Judged(a)'
  <2>1. versions[a].origin # "IMPORTED" => OpenTrial(a)
    BY <1>1, <1>3, <1>7 DEF Judged
  <2>2. Charges(a) \in Nat /\ Charges(a)' \in Nat /\ Charges(a)' <= Charges(a)
    BY <1>1, <1>4
  <2>3. Fleet' = Fleet
    BY DEF Fleet
  <2> SUFFICES ASSUME versions'[a].origin # "IMPORTED"
               PROVE  /\ state = "SHADOW" => OpenTrial(a)'
                      /\ state = "PRODUCTION" => Unbroken(a)'
    BY <1>10 DEF Judged
  <2>4. OpenTrial(a)
    BY <2>1, <1>9, <1>10
  <2>5. state = "SHADOW" => OpenTrial(a)'
    BY <2>2, <2>3, <2>4, <1>6, <1>8, <1>9, <1>10 DEF OpenTrial
  <2>6. Unbroken(a)'
    BY <2>2, <2>3, <2>4, <1>6, <1>8, <1>9, <1>10 DEF OpenTrial, Unbroken
  <2> QED
    BY <2>5, <2>6
<1> QED
  BY <1>1, <1>3, <1>4, <1>10, <1>11, StillJudged

\* A failure that does not trip the breaker stays below it; on trial, it uses
\* up the room its execution had.
LEMMA VerdictsOfBreakers ==
  ASSUME Inv, VerdictInv, NEW m \in Missions, FailedServed(m) \/ ExecutionFails(m)
  PROVE  VerdictInv'
<1>1. touched' = touched /\ TypeOK
  BY DEF FailedServed, ExecutionFails, Inv
<1> SUFFICES ASSUME ~touched PROVE \A v \in Numbers' : Judged(v)'
  BY <1>1 DEF VerdictInv
<1>2. PICK v \in Numbers, limit \in {BreakerMax, EngineBreaker}, state \in Dead, w \in Work :
        /\ Fail(v, limit, state)
        /\ doing' = [doing EXCEPT ![m] = w] /\ \A u : w # Execution(u)
        /\ versions[v].state = "PRODUCTION" \/ doing[m] = Execution(v)
  <2>1. CASE FailedServed(m)
    <3>1. /\ Active \in Numbers /\ versions[Active].state = "PRODUCTION"
          /\ Fail(Active, BreakerMax, IF Exhausted THEN "RETIRED" ELSE "QUARANTINE")
      BY <2>1, <1>1, ActiveInRegistry DEF FailedServed, ActiveIs
    <3>2. PICK w \in {Idle, Repair(Active)} : doing' = [doing EXCEPT ![m] = w]
      BY <2>1 DEF FailedServed
    <3>3. w \in Work /\ \A u : w # Execution(u)
      BY <3>1, <1>1 DEF Idle, Repair, Work, Execution, TypeOK, Numbers
    <3> QED
      BY <3>1, <3>2, <3>3 DEF Dead
  <2>2. CASE ExecutionFails(m)
    <3>1. doing[m] \in Work /\ doing[m].kind = "execution" /\ doing[m].of \in Numbers
      BY <2>2, <1>1 DEF ExecutionFails, TypeOK
    <3>2. doing[m] = Execution(doing[m].of)
      BY <3>1 DEF Work, Execution
    <3>3. Idle \in Work /\ \A u : Idle # Execution(u)
      BY DEF Idle, Execution, Work
    <3> QED
      BY <2>2, <3>1, <3>2, <3>3 DEF ExecutionFails, Dead
  <2> QED
    BY <2>1, <2>2
<1> DEFINE new == [versions[v] EXCEPT !.fails = @ + 1,
                                      !.state = IF Tripped(v, limit) THEN state ELSE @]
<1>3. limit \in Nat /\ Fleet \in Nat
  BY ThresholdsArePositive, Sized
<1>4. new \in Version /\ versions[v] \in Version
  <2>1. state \in States
    BY DEF Dead, States
  <2>2. Failed(v, limit, state) \in Version /\ versions[v] \in Version
    BY <2>1, <1>1, <1>3, Rows
  <2> QED
    BY <2>2 DEF Failed
<1>5. /\ new.state = IF Tripped(v, limit) THEN state ELSE versions[v].state
      /\ new.fails = versions[v].fails + 1 /\ versions[v].fails \in Nat
      /\ new.origin = versions[v].origin
      /\ new.oks = versions[v].oks /\ new.misses = versions[v].misses
  BY <1>4 DEF Version
<1>6. Numbers' = Numbers /\ \A u \in Numbers : versions'[u] = IF u = v THEN new ELSE versions[u]
  BY <1>1, <1>2, <1>4, RowReplaced DEF Fail, Failed
<1>7. \A u \in Numbers : Charges(u) \in Nat /\ Charges(u)' \in Nat /\ Charges(u)' <= Charges(u)
  BY <1>1, <1>2, ChargesDrop
<1>8. doing[m] = Execution(v) => Charges(v)' = Charges(v) - 1
  BY <1>1, <1>2, ChargesDrop
<1>9. Judged(v)'
  <2>1. Judged(v)
    BY DEF VerdictInv
  <2>2. Charges(v) \in Nat /\ Charges(v)' \in Nat
    BY <1>7
  <2>3. /\ versions'[v].state = IF Tripped(v, limit) THEN state ELSE versions[v].state
        /\ versions'[v].fails = versions[v].fails + 1
        /\ versions'[v].origin = versions[v].origin
        /\ versions'[v].oks = versions[v].oks /\ versions'[v].misses = versions[v].misses
    BY <1>5, <1>6
  <2>4. Fleet' = Fleet
    BY DEF Fleet
  <2>5. CASE Tripped(v, limit)
    BY <2>3, <2>5, <1>2 DEF Judged, Dead
  <2>6. CASE versions[v].state = "PRODUCTION" /\ ~Tripped(v, limit)
    <3>1. versions[v].fails + 1 < limit
      BY <2>6, <1>3, <1>5 DEF Tripped
    <3>2. Unbroken(v)'
      BY <3>1, <2>3, <1>2 DEF Unbroken
    <3> QED
      BY <3>2, <2>3, <2>6 DEF Judged
  <2>7. CASE versions[v].state # "PRODUCTION"
    <3>1. versions'[v].state = versions[v].state /\ Charges(v)' = Charges(v) - 1
      BY <2>3, <2>7, <1>2, <1>8 DEF Tripped
    <3>2. OpenTrial(v) => OpenTrial(v)'
      BY <3>1, <2>2, <2>3, <2>4, <1>3, <1>5 DEF OpenTrial
    <3> QED
      BY <3>1, <3>2, <2>1, <2>3, <2>7 DEF Judged
  <2> QED
    BY <2>5, <2>6, <2>7
<1> QED
  BY <1>1, <1>6, <1>7, <1>9, StillJudged DEF VerdictInv

\* A new version has failed nothing, and its author runs no execution of it.
LEMMA VerdictsOfNewcomers ==
  ASSUME Inv, VerdictInv, NEW m \in Missions, Synthesised(m) \/ Repaired(m)
  PROVE  VerdictInv'
<1> DEFINE new == Len(versions) + 1
<1>1. /\ touched' = touched /\ TypeOK
      /\ doing' = [doing EXCEPT ![m] = Idle] /\ \A u : Idle # Execution(u)
  BY DEF Synthesised, Repaired, Inv, Idle, Execution
<1> SUFFICES ASSUME ~touched PROVE \A v \in Numbers' : Judged(v)'
  BY <1>1 DEF VerdictInv
<1>2. PICK origin \in Origins : AddVersion(origin)
  BY DEF Synthesised, Repaired, Origins
<1>3. /\ Numbers' = Numbers \cup {new}
      /\ \A w \in Numbers : versions'[w] = versions[w]
  BY <1>1, <1>2, VersionAdded
<1>4. versions'[new] = [state |-> "SHADOW", origin |-> origin, oks |-> 0, misses |-> 0, fails |-> 0]
  BY <1>1, <1>2 DEF AddVersion, TypeOK
<1>5. \A u : Charges(u) \in Nat /\ Charges(u)' \in Nat /\ Charges(u)' <= Charges(u)
             /\ Charges(u)' < Fleet
  BY <1>1, ChargesDrop
<1>6. ShadowNeed \in Nat \ {0} /\ MismatchNeed \in Nat \ {0} /\ Fleet \in Nat
  BY ThresholdsArePositive, Sized
<1>7. ASSUME NEW v, v = new PROVE Judged(v)'
  <2>1. versions'[v].oks = 0 /\ versions'[v].misses = 0 /\ versions'[v].fails = 0
        /\ versions'[v].state = "SHADOW"
    BY <1>4, <1>7
  <2>2. Charges(v)' \in Nat /\ Charges(v)' < Fleet /\ Fleet' = Fleet
    BY <1>5 DEF Fleet
  <2>3. OpenTrial(v)'
    BY <2>1, <2>2, <1>6 DEF OpenTrial
  <2> QED
    BY <2>1, <2>3 DEF Judged
<1> QED
  BY <1>1, <1>3, <1>5, <1>7, StillJudged DEF VerdictInv

\* A success only clears failures.
LEMMA VerdictsOfSuccesses ==
  ASSUME Inv, VerdictInv, NEW m \in Missions, ExecutionSucceeds(m)
  PROVE  VerdictInv'
<1> DEFINE v == doing[m].of
           row == [versions[v] EXCEPT !.fails = 0]
<1>1. /\ touched' = touched /\ TypeOK
      /\ doing' = [doing EXCEPT ![m] = Idle] /\ \A u : Idle # Execution(u)
  BY DEF ExecutionSucceeds, Inv, Idle, Execution
<1> SUFFICES ASSUME ~touched PROVE \A w \in Numbers' : Judged(w)'
  BY <1>1 DEF VerdictInv
<1>2. v \in Numbers /\ versions[v] \in Version /\ row \in Version
  BY <1>1, Rows DEF ExecutionSucceeds
<1>3. /\ Numbers' = Numbers
      /\ \A w \in Numbers : versions'[w] = IF w = v THEN row ELSE versions[w]
  BY <1>1, <1>2, RowReplaced DEF ExecutionSucceeds
<1>4. \A u : Charges(u) \in Nat /\ Charges(u)' \in Nat /\ Charges(u)' <= Charges(u)
             /\ Charges(u)' < Fleet
  BY <1>1, ChargesDrop
<1>5. BreakerMax \in Nat \ {0} /\ Fleet \in Nat
  BY ThresholdsArePositive, Sized
<1>6. /\ row.state = versions[v].state /\ row.origin = versions[v].origin /\ row.fails = 0
      /\ row.oks = versions[v].oks /\ row.misses = versions[v].misses
  BY <1>2 DEF Version
<1>7. ASSUME NEW w \in Numbers, w = v PROVE Judged(w)'
  <2>1. Charges(w)' \in Nat /\ Charges(w)' < Fleet
    BY <1>4
  <2>2. Judged(w)
    BY DEF VerdictInv
  <2>3. versions'[w] = row /\ 0 < BreakerMax /\ 0 + Charges(w)' = Charges(w)'
    BY <1>3, <1>5, <1>7, <2>1
  <2>4. versions[w].state = row.state /\ versions[w].origin = row.origin
        /\ versions[w].oks = row.oks /\ versions[w].misses = row.misses
    BY <1>6, <1>7
  <2> QED
    BY <2>1, <2>2, <2>3, <2>4, <1>6 DEF Judged, OpenTrial, Unbroken, Fleet
<1> QED
  BY <1>1, <1>3, <1>4, <1>7, StillJudged DEF VerdictInv

\* After a state set by hand nothing is claimed; a package is imported.
LEMMA VerdictsOfTheHost ==
  ASSUME Inv, VerdictInv, HostSetsState \/ HostImports
  PROVE  VerdictInv'
<1>1. CASE HostSetsState
  BY <1>1 DEF HostSetsState, VerdictInv
<1>2. CASE HostImports
  <2>1. PICK row \in Packaged : versions' = <<AsImported(row)>>
    BY <1>2 DEF HostImports
  <2>2. AsImported(row).origin = "IMPORTED"
    BY DEF AsImported, Packaged
  <2>3. Numbers' = {1} /\ versions'[1].origin = "IMPORTED"
    BY <2>1, <2>2 DEF Numbers
  <2> QED
    BY <2>3 DEF VerdictInv, Judged
<1> QED
  BY <1>1, <1>2

\* No trial stays open and no version stays served against the verdict of its
\* thresholds (VerdictsApplied).
THEOREM VerdictsAreApplied == Spec => []VerdictsApplied
<1>1. Init => VerdictInv
  BY DEF Init, Numbers, VerdictInv
<1>2. Inv /\ VerdictInv /\ [Next]_vars => VerdictInv'
  <2> SUFFICES ASSUME Inv, VerdictInv, [Next]_vars PROVE VerdictInv'
    OBVIOUS
  <2>1. CASE Next
    BY <2>1, VerdictsOfMissions, VerdictsOfTrials, VerdictsOfBreakers, VerdictsOfNewcomers,
       VerdictsOfSuccesses, VerdictsOfTheHost DEF Next
  <2>2. CASE UNCHANGED vars
    BY <2>2 DEF vars, VerdictInv, Judged, OpenTrial, Unbroken, Charges, Running, Numbers
  <2> QED
    BY <2>1, <2>2
<1>3. VerdictInv => VerdictsApplied
  BY DEF VerdictInv, Judged, OpenTrial, Unbroken, VerdictsApplied, Fleet
<1> QED
  BY <1>1, <1>2, <1>3, Invariance, PTL DEF Spec

-----------------------------------------------------------------------------
(* The ceiling of repairs.                                                   *)

Mended == {v \in Numbers : versions[v].origin = "REPAIRED"}

\* The bound survives an import, which forgets the repairs made and not the
\* repairs awaited, because where none is allowed none is awaited.
RepairInv == RepairsBounded /\ (MaxRepairs = 0 => RepairsAwaited = 0)

\* Both counts are numbers, and the missions that await are at most the fleet.
LEMMA Counted ==
  ASSUME TypeOK
  PROVE  /\ IsFiniteSet(Mended) /\ Repairs = Cardinality(Mended) /\ Repairs \in Nat
         /\ IsFiniteSet(Repairing) /\ RepairsAwaited = Cardinality(Repairing)
         /\ RepairsAwaited \in 0..Fleet
         /\ Fleet \in Nat \ {0} /\ MaxRepairs \in Nat
<1>1. Numbers = 1..Len(versions) /\ Len(versions) \in Nat
  BY DEF TypeOK, Numbers
<1>2. IsFiniteSet(1..Len(versions))
  BY <1>1, FS_Interval
<1>3. IsFiniteSet(Mended)
  BY <1>1, <1>2, FS_Subset DEF Mended
<1>4. Repairing \in SUBSET Missions
  BY DEF Repairing
<1> QED
  BY <1>3, <1>4, Sized, FS_CardinalityType, ThresholdsArePositive
  DEF Repairs, RepairsAwaited, Mended, Repairing

\* A row that is rewritten keeps its origin.
LEMMA OriginKept ==
  ASSUME TypeOK, NEW v \in Numbers, NEW row \in Version, row.origin = versions[v].origin,
         versions' = [versions EXCEPT ![v] = row]
  PROVE  Mended' = Mended
<1>1. Numbers' = Numbers /\ \A w \in Numbers : versions'[w] = IF w = v THEN row ELSE versions[w]
  BY RowReplaced
<1>2. \A w \in Numbers : versions'[w].origin = versions[w].origin
  BY <1>1
<1> QED
  BY <1>1, <1>2 DEF Mended

LEMMA OriginMoved ==
  ASSUME TypeOK, NEW v \in Numbers, NEW row \in Version, row.origin = versions[v].origin,
         NEW state \in States, Transition(v, row, state)
  PROVE  Mended' = Mended
<1> DEFINE new == [row EXCEPT !.state = state]
<1>1. new \in Version /\ new.origin = row.origin
  BY DEF Version
<1>2. versions' = [versions EXCEPT ![v] = new]
  BY DEF Transition
<1> QED
  BY <1>1, <1>2, OriginKept

LEMMA OriginBroken ==
  ASSUME TypeOK, NEW v \in Numbers, NEW limit \in Nat, NEW state \in Dead, Fail(v, limit, state)
  PROVE  Mended' = Mended
<1>1. Failed(v, limit, state) \in Version /\ versions[v] \in Version
  BY Rows DEF Dead, States
<1>2. Failed(v, limit, state).origin = versions[v].origin
  BY <1>1 DEF Failed, Version
<1> QED
  BY <1>1, <1>2, OriginKept DEF Fail

\* Only a repair that comes to its end, and an import, change what was repaired.
LEMMA MendedKept ==
  ASSUME Inv, NEW m \in Missions,
         \/ SucceededWithout(m) \/ SucceededAligned(m) \/ SucceededOtherwise(m)
         \/ SucceededServed(m) \/ FailedUnserved(m) \/ FailedServed(m)
         \/ Synthesised(m) \/ Abandon(m)
         \/ ExecutionStarts(m) \/ ExecutionSucceeds(m) \/ ExecutionFails(m)
  PROVE  Mended' = Mended
<1>1. TypeOK
  BY DEF Inv
<1>2. CASE UNCHANGED versions
  BY <1>2 DEF Mended, Numbers
<1>3. CASE SucceededAligned(m) \/ SucceededOtherwise(m)
  <2>1. Active \in Numbers
    BY <1>1, <1>3, ActiveInRegistry DEF ActiveIs, SucceededAligned, SucceededOtherwise
  <2>2. /\ versions[Active] \in Version /\ Aligned(Active) \in Version
        /\ [versions[Active] EXCEPT !.misses = @ + 1] \in Version
    BY <1>1, <2>1, Rows
  <2>3. /\ Aligned(Active).origin = versions[Active].origin
        /\ [versions[Active] EXCEPT !.misses = @ + 1].origin = versions[Active].origin
    BY <2>2 DEF Aligned, Version
  <2>4. PICK row \in Version, state \in States :
          row.origin = versions[Active].origin /\ Transition(Active, row, state)
    BY <1>3, <2>2, <2>3 DEF SucceededAligned, SucceededOtherwise, States
  <2> QED
    BY <1>1, <2>1, <2>4, OriginMoved
<1>4. CASE FailedServed(m) \/ ExecutionFails(m)
  <2>1. PICK v \in Numbers, limit \in Nat, state \in Dead : Fail(v, limit, state)
    BY <1>1, <1>4, ActiveInRegistry, Thresholds DEF FailedServed, ExecutionFails, ActiveIs, Dead
  <2> QED
    BY <1>1, <2>1, OriginBroken
<1>5. CASE Synthesised(m)
  <2>1. AddVersion("DISTILLED") /\ "DISTILLED" \in Origins
    BY <1>5 DEF Synthesised, Origins
  <2>2. /\ Numbers' = Numbers \cup {Len(versions) + 1}
        /\ \A w \in Numbers : versions'[w] = versions[w]
    BY <1>1, <2>1, VersionAdded
  <2>3. versions'[Len(versions) + 1].origin = "DISTILLED"
    BY <1>1, <2>1 DEF AddVersion, TypeOK
  <2> QED
    BY <2>2, <2>3 DEF Mended
<1>6. CASE ExecutionSucceeds(m)
  <2> PICK v : v = doing[m].of
    OBVIOUS
  <2> DEFINE row == [versions[v] EXCEPT !.fails = 0]
  <2>1. v \in Numbers /\ versions' = [versions EXCEPT ![v] = row]
    BY <1>6 DEF ExecutionSucceeds
  <2>2. row \in Version /\ row.origin = versions[v].origin
    BY <1>1, <2>1, Rows DEF Version
  <2> QED
    BY <1>1, <2>1, <2>2, OriginKept
<1> QED
  BY <1>2, <1>3, <1>4, <1>5, <1>6
  DEF SucceededWithout, SucceededServed, FailedUnserved, ExecutionStarts, Abandon

\* A mission that turns to something else than a repair.
LEMMA RepairDropped ==
  ASSUME TypeOK, NEW m \in Missions, NEW w, w.kind # "repair",
         doing' = [doing EXCEPT ![m] = w] \/ UNCHANGED doing
  PROVE  /\ IsFiniteSet(Repairing')
         /\ RepairsAwaited' \in Nat /\ RepairsAwaited' <= RepairsAwaited
         /\ doing[m].kind = "repair" /\ doing' = [doing EXCEPT ![m] = w]
            => RepairsAwaited' = RepairsAwaited - 1
<1>1. /\ IsFiniteSet(Repairing) /\ RepairsAwaited = Cardinality(Repairing)
      /\ RepairsAwaited' = Cardinality(Repairing') /\ RepairsAwaited \in Nat
  BY Counted, Sized DEF Repairing, RepairsAwaited
<1>2. CASE doing' = [doing EXCEPT ![m] = w]
  <2>1. Repairing' = Repairing \ {m}
    BY <1>2 DEF Repairing, TypeOK
  <2>2. /\ IsFiniteSet(Repairing')
        /\ RepairsAwaited' = IF m \in Repairing THEN RepairsAwaited - 1 ELSE RepairsAwaited
    BY <1>1, <2>1, FS_RemoveElement
  <2>3. RepairsAwaited' \in Nat
    BY <1>1, <2>2, FS_CardinalityType
  <2>4. doing[m].kind = "repair" => m \in Repairing
    BY DEF Repairing
  <2> QED
    BY <1>1, <2>2, <2>3, <2>4
<1>3. CASE UNCHANGED doing
  <2>1. Repairing' = Repairing
    BY <1>3 DEF Repairing
  <2>2. doing' = [doing EXCEPT ![m] = w] /\ doing[m].kind = "repair" => FALSE
    BY <1>3 DEF TypeOK
  <2> QED
    BY <1>1, <2>1, <2>2
<1> QED
  BY <1>2, <1>3

LEMMA RepairsOfMissions ==
  ASSUME Inv, RepairInv, NEW m \in Missions,
         \/ SucceededWithout(m) \/ SucceededAligned(m) \/ SucceededOtherwise(m)
         \/ SucceededServed(m) \/ FailedUnserved(m) \/ FailedServed(m)
         \/ Synthesised(m) \/ Abandon(m)
         \/ ExecutionStarts(m) \/ ExecutionSucceeds(m) \/ ExecutionFails(m)
  PROVE  RepairInv'
<1>1. TypeOK /\ TypeOK' /\ Mended' = Mended
  BY MendedKept, NextStep DEF Inv, Next
<1>2. Repairs' = Repairs /\ Fleet' = Fleet
  BY <1>1 DEF Repairs, Mended, Fleet
<1>3. /\ Repairs \in Nat /\ RepairsAwaited \in 0..Fleet /\ RepairsAwaited' \in 0..Fleet
      /\ Fleet \in Nat \ {0} /\ MaxRepairs \in Nat
  <2>1. Repairing' \in SUBSET Missions /\ RepairsAwaited' = Cardinality(Repairing')
    BY DEF Repairing, RepairsAwaited
  <2> QED
    BY <1>1, <2>1, Counted, Sized
<1>4. CASE RepairsAwaited' <= RepairsAwaited
  BY <1>2, <1>3, <1>4 DEF RepairInv, RepairsBounded, Fleet
<1>5. CASE FailedServed(m) /\ ~Exhausted
  BY <1>2, <1>3, <1>5 DEF RepairInv, RepairsBounded, Exhausted, Fleet
<1>6. CASE ~FailedServed(m) \/ Exhausted
  <2>1. PICK w : w.kind # "repair" /\ (doing' = [doing EXCEPT ![m] = w] \/ UNCHANGED doing)
    BY <1>6
    DEF SucceededWithout, SucceededAligned, SucceededOtherwise, SucceededServed, FailedUnserved,
        FailedServed, Synthesised, Abandon, ExecutionStarts, ExecutionSucceeds, ExecutionFails,
        SynthesisIfDue, Idle, Synthesis, Execution
  <2> QED
    BY <1>1, <1>4, <2>1, RepairDropped
<1> QED
  BY <1>5, <1>6

\* A repair that is written was awaited: the sum of the two stays.
LEMMA RepairsOfRepairs ==
  ASSUME Inv, RepairInv, NEW m \in Missions, Repaired(m)
  PROVE  RepairInv'
<1> PICK new : new = Len(versions) + 1
  OBVIOUS
<1>1. TypeOK /\ AddVersion("REPAIRED") /\ "REPAIRED" \in Origins
  BY DEF Inv, Repaired, Origins
<1>2. /\ Numbers' = Numbers \cup {new} /\ new \notin Numbers
      /\ \A w \in Numbers : versions'[w] = versions[w]
  BY <1>1, VersionAdded
<1>3. versions'[new].origin = "REPAIRED"
  BY <1>1 DEF AddVersion, TypeOK
<1>4. Mended' = Mended \cup {new} /\ new \notin Mended
  BY <1>2, <1>3 DEF Mended
<1>5. Repairs' = Repairs + 1
  <2>1. IsFiniteSet(Mended) /\ Repairs = Cardinality(Mended) /\ Repairs' = Cardinality(Mended')
    BY <1>1, Counted DEF Repairs, Mended
  <2> QED
    BY <1>4, <2>1, FS_AddElement
<1>6. RepairsAwaited' = RepairsAwaited - 1 /\ RepairsAwaited' \in Nat
  <2>1. Idle.kind # "repair" /\ doing' = [doing EXCEPT ![m] = Idle] /\ doing[m].kind = "repair"
    BY DEF Repaired, Idle
  <2> QED
    BY <1>1, <2>1, RepairDropped
<1>7. Repairs \in Nat /\ RepairsAwaited \in Nat /\ Fleet' = Fleet /\ Fleet \in Nat
  BY <1>1, Counted DEF Fleet
<1> QED
  BY <1>5, <1>6, <1>7, Counted, <1>1 DEF RepairInv, RepairsBounded, Fleet

\* A state set by hand keeps the origins; a package has none that is repaired.
LEMMA RepairsOfTheHost ==
  ASSUME Inv, RepairInv, HostSetsState \/ HostImports
  PROVE  RepairInv'
<1>1. TypeOK /\ UNCHANGED doing
  BY DEF Inv, HostSetsState, HostImports
<1>2. RepairsAwaited' = RepairsAwaited /\ Fleet' = Fleet
  BY <1>1 DEF RepairsAwaited, Fleet
<1>3. CASE HostSetsState
  <2>1. PICK v \in Numbers, state \in States : Transition(v, versions[v], state)
    BY <1>3 DEF HostSetsState
  <2>2. versions[v] \in Version
    BY <1>1, Rows
  <2>3. Mended' = Mended
    BY <1>1, <2>1, <2>2, OriginMoved
  <2> QED
    BY <1>2, <2>3 DEF RepairInv, RepairsBounded, Repairs, Mended, Fleet
<1>4. CASE HostImports
  <2>1. PICK row \in Packaged : versions' = <<AsImported(row)>>
    BY <1>4 DEF HostImports
  <2>2. Mended' = {}
    <3>1. AsImported(row).origin = "IMPORTED"
      BY DEF AsImported, Packaged
    <3>2. Numbers' = {1} /\ versions'[1].origin = "IMPORTED"
      BY <2>1, <3>1 DEF Numbers
    <3> QED
      BY <3>2 DEF Mended
  <2>3. Repairs' = 0
    BY <2>2, FS_EmptySet DEF Repairs, Mended
  <2> QED
    BY <1>1, <1>2, <2>3, Counted DEF RepairInv, RepairsBounded, Fleet
<1> QED
  BY <1>3, <1>4

\* However the missions overlap, the repairs made and awaited pass the ceiling by
\* less than the missions there are (RepairsBounded).
THEOREM RepairsAreBounded == Spec => []RepairsBounded
<1>1. Inv /\ Init => RepairInv
  <2> SUFFICES ASSUME Inv, Init PROVE RepairInv
    OBVIOUS
  <2>1. Mended = {} /\ Repairing = {}
    BY DEF Init, Mended, Repairing, Numbers, Idle
  <2>2. Repairs = 0 /\ RepairsAwaited = 0
    BY <2>1, FS_EmptySet DEF Repairs, RepairsAwaited, Mended, Repairing
  <2> QED
    BY <2>2, Counted DEF Inv, RepairInv, RepairsBounded, Fleet
<1>2. Inv /\ RepairInv /\ [Next]_vars => RepairInv'
  <2> SUFFICES ASSUME Inv, RepairInv, [Next]_vars PROVE RepairInv'
    OBVIOUS
  <2>1. CASE Next
    BY <2>1, RepairsOfMissions, RepairsOfRepairs, RepairsOfTheHost DEF Next
  <2>2. CASE UNCHANGED vars
    BY <2>2 DEF vars, RepairInv, RepairsBounded, Repairs, RepairsAwaited, Numbers
  <2> QED
    BY <2>1, <2>2
<1> QED
  BY <1>1, <1>2, Initially, Invariance, PTL DEF Spec, RepairInv
=============================================================================
