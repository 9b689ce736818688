--------------------------- MODULE SkillLifecycle ---------------------------
(***************************************************************************)
(* The life of one skill: a recipe distilled from missions that succeeded,   *)
(* tried in the shadow of real missions, promoted to production, taken out   *)
(* when it fails, repaired a few times and retired.                          *)
(*                                                                           *)
(* The registry (core/skills/registry.py) is an SQLite table; between two    *)
(* awaits a handler reads and writes it without interruption, so an action   *)
(* is such a block: the end of a mission (Solver.                            *)
(* _handle_skill_lifecycle_post_execution), the end of an LLM call that      *)
(* synthesises or repairs, the start and the end of an execution by the      *)
(* host, and the two packets with which the host edits the registry.         *)
(* Overlapping turns make these blocks interleave.  The restart of the       *)
(* process loses what the missions were awaiting, as a stop does (Abandon).  *)
(***************************************************************************)
EXTENDS Integers, Sequences, FiniteSets

CONSTANTS Missions,      \* turns whose missions overlap
          MaxVersions,   \* bound: versions of the skill
          MaxHostActs,   \* bound: skill.set_state and skill.import_package packets
          Discovery,     \* discovery_threshold
          ShadowNeed,    \* shadow_success_threshold
          MismatchNeed,  \* shadow_mismatch_threshold
          BreakerMax,    \* circuit_breaker_max_failures
          EngineBreaker, \* SKILL_CIRCUIT_BREAKER_MAX_FAILURES
          MaxRepairs     \* max_repairs, when the host does not lift it

ASSUME MissionsAreSome == IsFiniteSet(Missions) /\ Missions # {}

ASSUME ThresholdsArePositive ==
  /\ {Discovery, ShadowNeed, MismatchNeed, BreakerMax, EngineBreaker} \subseteq Nat \ {0}
  /\ {MaxVersions, MaxHostActs, MaxRepairs} \subseteq Nat

VARIABLES
  versions,  \* skill_versions, in the order of their numbers
  pointer,   \* current_production_version; 0 is NULL
  streak,    \* consecutive_successes of the profile, up to Discovery
  doing,     \* what each mission awaits
  hostActs,  \* packets of the host
  touched    \* history: the host set a state in the registry as it is

vars == <<versions, pointer, streak, doing, hostActs, touched>>

States  == {"DRAFT", "SHADOW", "PRODUCTION", "QUARANTINE", "RETIRED"}
Dead    == {"QUARANTINE", "RETIRED"}
Origins == {"DISTILLED", "REPAIRED", "IMPORTED"}

\* The row of a version: oks, misses and fails are shadow_validation_count,
\* shadow_mismatch_count and consecutive_failures of its trust profile.
Version == [state : States, origin : Origins, oks : Nat, misses : Nat, fails : Nat]

Numbers == DOMAIN versions

\* A mission in its other work, in an LLM call that writes a skill, or in an
\* execution by the host.
Idle         == [kind |-> "idle", of |-> 0]
Synthesis    == [kind |-> "synthesis", of |-> 0]
Repair(v)    == [kind |-> "repair", of |-> v]
Execution(v) == [kind |-> "execution", of |-> v]
Work == [kind : {"idle", "synthesis", "repair", "execution"}, of : Nat]

Init ==
  /\ versions = <<>> /\ pointer = 0 /\ streak = 0
  /\ doing = [m \in Missions |-> Idle]
  /\ hostActs = 0 /\ touched = FALSE

-----------------------------------------------------------------------------
(* The registry.                                                             *)

\* The highest number of a set; 0 of none.
IsHighest(v, S) == v \in S /\ \A w \in S : w =< v
Highest(S) == IF \E v \in S : IsHighest(v, S) THEN CHOOSE v \in S : IsHighest(v, S) ELSE 0

\* A slip: the pointer is not looked at.
ActiveByNumber == Highest({v \in Numbers : versions[v].state \in {"PRODUCTION", "SHADOW"}})

\* get_active_version: the version pointed at unless it is dead, else the
\* highest that is in production or on trial.
Active ==
  IF pointer \in Numbers
  THEN IF versions[pointer].state \in Dead THEN 0 ELSE pointer
  ELSE Highest({v \in Numbers : versions[v].state \in {"PRODUCTION", "SHADOW"}})

ActiveIs(state) == Active # 0 /\ versions[Active].state = state

\* create_synthesis_version and create_repair_version number after the last.
AddVersion(origin) ==
  /\ Len(versions) < MaxVersions
  /\ versions' = Append(versions, [state |-> "SHADOW", origin |-> origin,
                                   oks |-> 0, misses |-> 0, fails |-> 0])

\* The pointer after transition_state of v: production takes it, death leaves
\* it, a trial or a draft keeps it.
PointerAfter(v, state) ==
  IF state = "PRODUCTION" THEN v
  ELSE IF state \in Dead /\ pointer = v THEN 0 ELSE pointer

\* transition_state does nothing for a version that is in the state already.
Transition(v, row, state) ==
  /\ versions' = [versions EXCEPT ![v] = [row EXCEPT !.state = state]]
  /\ pointer' = IF versions[v].state = state THEN pointer ELSE PointerAfter(v, state)

Tripped(v, limit) == versions[v].state = "PRODUCTION" /\ versions[v].fails + 1 >= limit

\* The row after a failed run; a version that trips the breaker goes to state.
Failed(v, limit, state) ==
  [versions[v] EXCEPT !.fails = @ + 1, !.state = IF Tripped(v, limit) THEN state ELSE @]

\* A slip: the breaker leaves the pointer.
FailInPlace(v, limit, state) ==
  versions' = [versions EXCEPT ![v] = Failed(v, limit, state)] /\ UNCHANGED pointer

\* record_run_metric of a failed run; the breaker clears the pointer of the
\* skill, whatever it points at.
Fail(v, limit, state) ==
  /\ versions' = [versions EXCEPT ![v] = Failed(v, limit, state)]
  /\ pointer' = IF Tripped(v, limit) THEN 0 ELSE pointer

Repairs == Cardinality({v \in Numbers : versions[v].origin = "REPAIRED"})

\* A slip: one repair too many.
ExhaustedOneLater == Repairs > MaxRepairs

\* count_repairs against the ceiling.
Exhausted == Repairs >= MaxRepairs

-----------------------------------------------------------------------------
(* A mission ends: record_execution_result_vectorial, then what the state of *)
(* the skill calls for.                                                      *)

Grown == IF streak < Discovery THEN streak + 1 ELSE Discovery

\* The mission goes on to the synthesis if successes in a row are enough.
SynthesisIfDue(m) ==
  doing' = [doing EXCEPT ![m] = IF Grown >= Discovery THEN Synthesis ELSE Idle]

\* There is no skill, or none of its versions is active.
SucceededWithout(m) ==
  /\ doing[m] = Idle /\ Active = 0
  /\ streak' = Grown
  /\ SynthesisIfDue(m)
  /\ UNCHANGED <<versions, pointer, hostActs, touched>>

\* A slip: misses below zero.
AlignedBelowZero(v) == [versions[v] EXCEPT !.oks = @ + 1, !.misses = @ - 1]

\* The mission did what the version on trial would have done.  The champion
\* that the code looks up before a promotion is this very version.
Aligned(v) == [versions[v] EXCEPT !.oks = @ + 1, !.misses = IF @ > 0 THEN @ - 1 ELSE 0]

\* A slip: a promotion one trial late.
QualifiedOneLater(row) == row.oks > ShadowNeed

Qualified(row) == row.oks >= ShadowNeed

SucceededAligned(m) ==
  /\ doing[m] = Idle /\ ActiveIs("SHADOW")
  /\ streak' = Grown
  /\ LET row == Aligned(Active) IN
     Transition(Active, row, IF Qualified(row) THEN "PRODUCTION" ELSE "SHADOW")
  /\ UNCHANGED <<doing, hostActs, touched>>

\* The mission did something else; too often, and the version is obsolete.
SucceededOtherwise(m) ==
  /\ doing[m] = Idle /\ ActiveIs("SHADOW")
  /\ streak' = Grown
  /\ LET row == [versions[Active] EXCEPT !.misses = @ + 1] IN
     IF row.misses >= MismatchNeed
     THEN Transition(Active, row, "QUARANTINE") /\ SynthesisIfDue(m)
     ELSE Transition(Active, row, "SHADOW") /\ UNCHANGED doing
  /\ UNCHANGED <<hostActs, touched>>

\* A version in production, or a draft the host left under the pointer, is
\* judged by its own executions.
SucceededServed(m) ==
  /\ doing[m] = Idle /\ (ActiveIs("PRODUCTION") \/ ActiveIs("DRAFT"))
  /\ streak' = Grown
  /\ UNCHANGED <<versions, pointer, doing, hostActs, touched>>

\* A mission that failed, or that the user cancelled.
FailedUnserved(m) ==
  /\ doing[m] = Idle /\ ~ActiveIs("PRODUCTION")
  /\ streak' = 0
  /\ UNCHANGED <<versions, pointer, doing, hostActs, touched>>

\* It counts against the version in production; when that trips the breaker
\* the version is repaired, or retired.
FailedServed(m) ==
  /\ doing[m] = Idle /\ ActiveIs("PRODUCTION")
  /\ streak' = 0
  /\ Fail(Active, BreakerMax, IF Exhausted THEN "RETIRED" ELSE "QUARANTINE")
  /\ doing' = [doing EXCEPT ![m] = IF Tripped(Active, BreakerMax) /\ ~Exhausted
                                   THEN Repair(Active) ELSE Idle]
  /\ UNCHANGED <<hostActs, touched>>

-----------------------------------------------------------------------------
(* The LLM calls and the executions that missions await.                     *)

Synthesised(m) ==
  /\ doing[m] = Synthesis
  /\ AddVersion("DISTILLED")
  /\ doing' = [doing EXCEPT ![m] = Idle]
  /\ UNCHANGED <<pointer, streak, hostActs, touched>>

\* A slip: the version that failed is put back on trial.
RepairedInPlace(m) ==
  /\ doing[m].kind = "repair" /\ doing[m].of \in Numbers
  /\ versions' = [versions EXCEPT ![doing[m].of].state = "SHADOW"]
  /\ doing' = [doing EXCEPT ![m] = Idle]
  /\ UNCHANGED <<pointer, streak, hostActs, touched>>

\* The parent may have been replaced meanwhile: then create_repair_version
\* raises, unless the package has a version of that number.
Repaired(m) ==
  /\ doing[m].kind = "repair" /\ doing[m].of \in Numbers
  /\ AddVersion("REPAIRED")
  /\ doing' = [doing EXCEPT ![m] = Idle]
  /\ UNCHANGED <<pointer, streak, hostActs, touched>>

\* execute_skill refuses a version that is not in production; the caller may
\* name the version.
ExecutionStarts(m) ==
  /\ doing[m] = Idle
  /\ \E v \in Numbers : /\ versions[v].state = "PRODUCTION"
                        /\ doing' = [doing EXCEPT ![m] = Execution(v)]
  /\ UNCHANGED <<versions, pointer, streak, hostActs, touched>>

\* The host has answered; the version is looked up again by its number.
ExecutionSucceeds(m) ==
  /\ doing[m].kind = "execution" /\ doing[m].of \in Numbers
  /\ LET v == doing[m].of IN
     versions' = [versions EXCEPT ![v] = [versions[v] EXCEPT !.fails = 0]]
  /\ doing' = [doing EXCEPT ![m] = Idle]
  /\ UNCHANGED <<pointer, streak, hostActs, touched>>

\* SkillExecutionEngine passes no threshold: the breaker has its default.
ExecutionFails(m) ==
  /\ doing[m].kind = "execution" /\ doing[m].of \in Numbers
  /\ Fail(doing[m].of, EngineBreaker, "QUARANTINE")
  /\ doing' = [doing EXCEPT ![m] = Idle]
  /\ UNCHANGED <<streak, hostActs, touched>>

\* The LLM fails or writes nothing of use, a stop or the next request cancels
\* the call, the version is gone, or the process restarts.
Abandon(m) ==
  /\ doing[m] # Idle
  /\ doing' = [doing EXCEPT ![m] = Idle]
  /\ UNCHANGED <<versions, pointer, streak, hostActs, touched>>

-----------------------------------------------------------------------------
(* The host.                                                                 *)

\* skill.set_state, for a version it names or for the active one.
HostSetsState ==
  /\ hostActs < MaxHostActs
  /\ \E v \in Numbers, state \in States \ {"RETIRED"} : Transition(v, versions[v], state)
  /\ hostActs' = hostActs + 1 /\ touched' = TRUE
  /\ UNCHANGED <<streak, doing>>

\* import_package: production elsewhere is a trial here; the trust stays.
AsImported(row) ==
  [row EXCEPT !.origin = "IMPORTED", !.state = IF @ = "PRODUCTION" THEN "SHADOW" ELSE @]

\* Bound: packages of one version, with whatever state and trust it earned in
\* another registry of the same thresholds.
Packaged == [state : States, origin : {"DISTILLED"}, oks : 0..ShadowNeed, misses : {0},
             fails : 0..BreakerMax]

\* skill.import_package replaces every version of the skill.
HostImports ==
  /\ hostActs < MaxHostActs
  /\ \E row \in Packaged : versions' = <<AsImported(row)>>
  /\ pointer' = 0
  /\ hostActs' = hostActs + 1 /\ touched' = FALSE
  /\ UNCHANGED <<streak, doing>>

Next ==
  \/ \E m \in Missions :
       \/ SucceededWithout(m) \/ SucceededAligned(m) \/ SucceededOtherwise(m)
       \/ SucceededServed(m) \/ FailedUnserved(m) \/ FailedServed(m)
       \/ Synthesised(m) \/ Repaired(m) \/ Abandon(m)
       \/ ExecutionStarts(m) \/ ExecutionSucceeds(m) \/ ExecutionFails(m)
  \/ HostSetsState \/ HostImports

Spec == Init /\ [][Next]_vars

-----------------------------------------------------------------------------
(* What the lifecycle promises.                                              *)

TypeOK ==
  /\ versions \in Seq(Version) /\ pointer \in Nat
  /\ streak \in 0..Discovery
  /\ doing \in [Missions -> Work]
  /\ hostActs \in 0..MaxHostActs /\ touched \in BOOLEAN

\* The pointer to production, which the breaker, the transitions and the import
\* maintain each in its own way, never names a version that is dead or gone.
PointerServes == pointer # 0 => pointer \in Numbers /\ versions[pointer].state \notin Dead

\* Until the host sets a state by hand, one version at most is in production,
\* and it is the one the pointer names, although a promotion demotes nobody and
\* versions are written by calls that started before others were served.
LoneProduction ==
  ~touched => \A v \in Numbers : versions[v].state = "PRODUCTION" <=> pointer = v

\* The ceiling of repairs is read before the LLM is called and the repair is
\* counted after it: missions that overlap overrun it, but by no more than the
\* repairs that were awaited when the last one was decided.
RepairsAwaited == Cardinality({m \in Missions : doing[m].kind = "repair"})
RepairsBounded == Repairs + RepairsAwaited < MaxRepairs + Cardinality(Missions)

\* No verdict of the thresholds stays without effect: a trial that is still open
\* has passed neither of its two, and what is served has not broken as often as
\* both breakers allow.  (The executions that a package outlived are charged to
\* the version that bears the number of theirs now, even on trial, where no
\* breaker looks: it may bring as many failures as other missions had begun.)
VerdictsApplied ==
  ~touched =>
    \A v \in Numbers : versions[v].origin # "IMPORTED" =>
      /\ versions[v].state = "SHADOW" => /\ versions[v].oks < ShadowNeed
                                         /\ versions[v].misses < MismatchNeed
      /\ versions[v].state = "PRODUCTION" => \/ versions[v].fails < BreakerMax
                                             \/ versions[v].fails < EngineBreaker
                                             \/ versions[v].fails < Cardinality(Missions)

\* Without a packet of the host a version that is dead stays dead, whatever
\* execution, trial or repair of it comes to its end later.
DeadStayDead ==
  [][hostActs' = hostActs =>
       \A v \in Numbers : versions[v].state \in Dead => versions'[v].state \in Dead]_vars
=============================================================================
