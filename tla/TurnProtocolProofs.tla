------------------------- MODULE TurnProtocolProofs -------------------------
(***************************************************************************)
(* Proofs about TurnProtocol for every number of turns, calls, attempts and *)
(* orders.  The steps of a turn fall in three classes (it moves on, it      *)
(* registers a call, it consumes an answer); the inductive invariant Inv    *)
(* relates the epochs of the turns to the current one and the table of      *)
(* pending calls to what the turns wait for.                                *)
(***************************************************************************)
EXTENDS TurnProtocol, TLAPS

\* No two turns share an epoch, and none lives in a later one than the current
\* one; under a stop, and once stopped, a turn lives in an earlier one.
EpochInv ==
  /\ \A t \in Turns : pc[t] # "new" => epoch[t] =< genEpoch
  /\ \A s, t \in Turns : pc[s] # "new" /\ pc[t] # "new" /\ epoch[s] = epoch[t] => s = t
  /\ \A t \in Turns : cancel /\ pc[t] # "new" => epoch[t] < genEpoch
  /\ \A t \in stopped : pc[t] # "new" /\ epoch[t] < genEpoch

\* A call is drawn in order, and open exactly while the turn that drew it
\* waits for it, in the table.
TableInv ==
  /\ \A t \in Turns : \A n \in 1..MaxCalls : future[<<t, n>>] = "unused" <=> n > used[t]
  /\ \A c \in Calls : future[c] = "open" => c \in pending
  /\ \A c \in pending : pc[c[1]] \in CallStates /\ c = CallOf(c[1])
  /\ \A t \in Turns : pc[t] \in CallStates => used[t] >= 1

\* A turn of the current epoch has asked the host for the call it waits for.
AskedInv ==
  \A t \in Turns : /\ pc[t] \in CallStates
                   /\ future[CallOf(t)] = "open"
                   /\ epoch[t] = genEpoch
                   => CallOf(t) \in asked

Inv == TypeOK /\ EpochInv /\ TableInv /\ AskedInv /\ heardLate = {}

-----------------------------------------------------------------------------
(* The three classes of the steps of a turn.                                *)

Moves(t) ==
  /\ pc[t] # "new"
  /\ \E state \in States \ {"new"} : pc' = [pc EXCEPT ![t] = state]
  /\ UNCHANGED <<cancel, genEpoch, epoch, stopped>>
  /\ Speak(t) \/ UNCHANGED heardLate

MovesOn(t) == /\ Moves(t)
              /\ pc[t] \notin CallStates /\ pc'[t] \notin CallStates
              /\ UNCHANGED <<table, used>>

DrawsCall(t) == /\ Moves(t)
                /\ pc[t] \notin CallStates
                /\ \E state \in CallStates : Dispatch(t, state)

Consumes(t) == /\ Moves(t)
               /\ pc[t] \in CallStates /\ pc'[t] \notin CallStates
               /\ Resume(t)
               /\ UNCHANGED used

\* Every step of a turn but its first is of one of the three classes.
LEMMA StepClasses ==
  ASSUME TypeOK, NEW t \in Turns, Proceed(t)
  PROVE  MovesOn(t) \/ DrawsCall(t) \/ Consumes(t)
<1> USE DEF States, LlmStates, CallStates, WorkStates, Goto, Moves, shared
<1>1. CASE Advised(t) \/ Routed(t) \/ DecisionDropped(t) \/ DirectDecision(t)
  BY <1>1 DEF TypeOK, Advised, Routed, DecisionDropped, DirectDecision, MovesOn, table
<1>2. CASE DirectAnswered(t) \/ MissionAnswered(t) \/ MissionClosed(t) \/ LlmAborted(t)
  BY <1>2 DEF TypeOK, DirectAnswered, MissionAnswered, MissionClosed, LlmAborted, Finish,
              MovesOn, table
<1>3. CASE MissionDecision(t) \/ Prepared(t) \/ Planned(t)
  BY <1>3 DEF TypeOK, MissionDecision, Prepared, Planned, NextAttempt, MovesOn, table
<1>4. CASE Judged(t) \/ SolverReturned(t) \/ Reported(t)
  BY <1>4 DEF TypeOK, Judged, SolverReturned, Reported, NextAttempt, NextStep, MovesOn, table
<1>5. CASE AskHuman(t) \/ WaitOver(t) \/ PauseOver(t)
  BY <1>5 DEF TypeOK, AskHuman, WaitOver, PauseOver, Dispatch, DrawsCall
<1>6. CASE HumanAnswered(t)
  BY <1>6 DEF TypeOK, HumanAnswered, NextAttempt, NextStep, Consumes
<1>7. CASE Acted(t)
  BY <1>7 DEF TypeOK, Acted, NextAttempt, NextStep, Consumes
<1>8. CASE Reacted(t)
  BY <1>8 DEF TypeOK, Reacted, NextAttempt, NextStep, Consumes
<1> QED BY <1>1, <1>2, <1>3, <1>4, <1>5, <1>6, <1>7, <1>8 DEF Proceed

-----------------------------------------------------------------------------
(* Type correctness.                                                        *)

LEMMA TypeInit == Init => TypeOK
<1> SUFFICES ASSUME Init PROVE TypeOK
  OBVIOUS
<1> USE DEF Init
<1>1. cancel \in BOOLEAN /\ genEpoch \in Nat /\ orders \in Nat
  OBVIOUS
<1>2. future \in [Calls -> {"unused", "open", "answered", "interrupted"}]
  OBVIOUS
<1>3. pc \in [Turns -> States]
  BY DEF States
<1>4. /\ epoch \in [Turns -> Nat] /\ callEpoch \in [Turns -> Nat]
      /\ used \in [Turns -> 0..MaxCalls] /\ attempts \in [Turns -> Nat]
  BY BoundsAreNat
<1>5. /\ pending \subseteq Calls /\ asked \subseteq Calls
      /\ approvals \subseteq Turns \X (Turns \cup {None})
      /\ hbLive \subseteq Turns /\ stopped \subseteq Turns /\ heardLate \subseteq Turns
  OBVIOUS
<1>6. /\ currentMission \in Turns \cup {None} /\ hbTask \in Turns \cup {None}
      /\ stopping \in {"stop", "reset", None}
  OBVIOUS
<1> QED BY <1>1, <1>2, <1>3, <1>4, <1>5, <1>6 DEF TypeOK

LEMMA TypeTurn ==
  ASSUME TypeOK, NEW t \in Turns, Proceed(t)
  PROVE  TypeOK'
<1> USE BoundsAreNat
    DEF TypeOK, Goto, shared, table, Speak, StopBeat, States, LlmStates, CallStates, WorkStates
<1>1. CASE Advised(t) \/ Routed(t) \/ DecisionDropped(t) \/ DirectDecision(t)
  BY <1>1 DEF Advised, Routed, DecisionDropped, DirectDecision
<1>2. CASE DirectAnswered(t) \/ MissionAnswered(t) \/ MissionClosed(t) \/ LlmAborted(t)
  BY <1>2 DEF DirectAnswered, MissionAnswered, MissionClosed, LlmAborted, Finish
<1>3. CASE MissionDecision(t) \/ Prepared(t) \/ Planned(t)
  BY <1>3 DEF MissionDecision, Prepared, Planned, NextAttempt
<1>4. CASE Judged(t) \/ SolverReturned(t) \/ Reported(t)
  BY <1>4 DEF Judged, SolverReturned, Reported, NextAttempt, NextStep
<1>5. ASSUME NEW state \in CallStates, Dispatch(t, state),
             UNCHANGED <<shared, epoch, attempts, stopped>>
      PROVE  TypeOK'
  <2>1. used[t] + 1 \in 1..MaxCalls
    BY <1>5 DEF Dispatch, Calls
  <2> QED BY <1>5, <2>1 DEF Dispatch, Calls
<1>6. CASE AskHuman(t) \/ WaitOver(t) \/ PauseOver(t)
  BY <1>5, <1>6 DEF AskHuman, WaitOver, PauseOver
<1>7. CASE HumanAnswered(t)
  BY <1>7 DEF HumanAnswered, NextAttempt, NextStep, Resume
<1>8. CASE Acted(t) \/ Reacted(t)
  BY <1>8 DEF Acted, Reacted, NextAttempt, NextStep, Resume
<1> QED BY <1>1, <1>2, <1>3, <1>4, <1>6, <1>7, <1>8 DEF Proceed

LEMMA TypeStep == TypeOK /\ [Next]_vars => TypeOK'
<1> SUFFICES ASSUME TypeOK, [Next]_vars PROVE TypeOK'
  OBVIOUS
<1> USE DEF TypeOK, shared, table, local
<1>1. ASSUME NEW t \in Turns, ChatSend(t) PROVE TypeOK'
  <2>1. /\ "advising" \in States
        /\ \E e \in Nat : callEpoch' = [callEpoch EXCEPT ![t] = e]
    BY <1>1 DEF ChatSend, Goto, States, WorkStates
  <2>2. /\ pc' \in [Turns -> States] /\ callEpoch' \in [Turns -> Nat]
        /\ epoch' \in [Turns -> Nat] /\ genEpoch' \in Nat
    BY <1>1, <2>1 DEF ChatSend, Goto
  <2>3. hbTask' \in Turns \cup {None} /\ hbLive' \subseteq Turns
    BY <1>1 DEF ChatSend
  <2> QED BY <1>1, <2>2, <2>3 DEF ChatSend
<1>2. ASSUME NEW t \in Turns, Proceed(t) PROVE TypeOK'
  BY <1>2, TypeTurn
<1>3. ASSUME NEW t \in Turns, HeartbeatEnds(t) PROVE TypeOK'
  BY <1>3 DEF HeartbeatEnds
<1>4. ASSUME NEW c \in Calls, ToolResult(c) \/ ToolResultRepeated(c) PROVE TypeOK'
  BY <1>4 DEF ToolResult, ToolResultRepeated, StopBeat
<1>5. ASSUME NEW order \in {"stop", "reset"}, HostOrders(order) PROVE TypeOK'
  BY <1>5 DEF HostOrders, Release
<1>6. CASE StopOver \/ Configure
  BY <1>6 DEF StopOver, Configure, Release
<1>7. CASE UNCHANGED vars
  BY <1>7 DEF vars
<1> QED BY <1>1, <1>2, <1>3, <1>4, <1>5, <1>6, <1>7 DEF Next

\* Every behaviour of the protocol is type-correct.
THEOREM TypeCorrect == Spec => []TypeOK
  BY TypeInit, TypeStep, PTL DEF Spec

-----------------------------------------------------------------------------
(* The epochs.                                                              *)

LEMMA EpochStep == TypeOK /\ EpochInv /\ [Next]_vars => EpochInv'
<1> SUFFICES ASSUME TypeOK, EpochInv, [Next]_vars PROVE EpochInv'
  OBVIOUS
<1> USE DEF TypeOK, EpochInv, shared, table, local
<1>1. ASSUME NEW t \in Turns, ChatSend(t) PROVE EpochInv'
  BY <1>1 DEF ChatSend, Goto
<1>2. ASSUME NEW t \in Turns, Moves(t) PROVE EpochInv'
  BY <1>2 DEF Moves
<1>3. ASSUME NEW t \in Turns, Proceed(t) PROVE EpochInv'
  BY <1>2, <1>3, StepClasses DEF MovesOn, DrawsCall, Consumes
<1>4. ASSUME NEW t \in Turns, HeartbeatEnds(t) PROVE EpochInv'
  BY <1>4 DEF HeartbeatEnds
<1>5. ASSUME NEW c \in Calls, ToolResult(c) \/ ToolResultRepeated(c) PROVE EpochInv'
  BY <1>5 DEF ToolResult, ToolResultRepeated
<1>6. ASSUME NEW order \in {"stop", "reset"}, HostOrders(order) PROVE EpochInv'
  BY <1>6 DEF HostOrders, Running
<1>7. CASE StopOver \/ Configure
  BY <1>7 DEF StopOver, Configure
<1>8. CASE UNCHANGED vars
  BY <1>8 DEF vars
<1> QED BY <1>1, <1>3, <1>4, <1>5, <1>6, <1>7, <1>8 DEF Next

\* A stopped turn lives in a past epoch, where all it says is dropped.
LEMMA SilenceStep ==
  TypeOK /\ EpochInv /\ heardLate = {} /\ [Next]_vars => heardLate' = {}
<1> SUFFICES ASSUME TypeOK, EpochInv, heardLate = {}, [Next]_vars PROVE heardLate' = {}
  OBVIOUS
<1>1. ASSUME NEW t \in Turns, Proceed(t) PROVE heardLate' = {}
  <2>1. Speak(t) \/ UNCHANGED heardLate
    BY <1>1, StepClasses DEF MovesOn, DrawsCall, Consumes, Moves
  <2> QED BY <2>1 DEF Speak, Silenced, EpochInv
<1>2. ASSUME NEW t \in Turns, ChatSend(t) \/ HeartbeatEnds(t) PROVE heardLate' = {}
  BY <1>2 DEF ChatSend, HeartbeatEnds
<1>3. ASSUME NEW c \in Calls, ToolResult(c) \/ ToolResultRepeated(c) PROVE heardLate' = {}
  BY <1>3 DEF ToolResult, ToolResultRepeated
<1>4. ASSUME NEW order \in {"stop", "reset"}, HostOrders(order) PROVE heardLate' = {}
  BY <1>4 DEF HostOrders
<1>5. CASE StopOver \/ Configure \/ UNCHANGED vars
  BY <1>5 DEF StopOver, Configure, vars
<1> QED BY <1>1, <1>2, <1>3, <1>4, <1>5 DEF Next

-----------------------------------------------------------------------------
(* The table of pending calls.                                              *)

\* A call is the pair of its turn and its rank.
LEMMA CallPairs ==
  /\ \A c \in Calls : c[1] \in Turns /\ c[2] \in 1..MaxCalls /\ c = <<c[1], c[2]>>
  /\ \A t \in Turns, n \in 1..MaxCalls : <<t, n>> \in Calls
  BY DEF Calls

LEMMA TableStep == TypeOK /\ TableInv /\ [Next]_vars => TableInv'
<1> SUFFICES ASSUME TypeOK, TableInv, [Next]_vars PROVE TableInv'
  OBVIOUS
<1> USE BoundsAreNat, CallPairs DEF TypeOK, TableInv, CallOf, table, local, shared
<1>1. ASSUME NEW t \in Turns, ChatSend(t) PROVE TableInv'
  <2>1. pc[t] \notin CallStates /\ "advising" \notin CallStates
    BY <1>1 DEF ChatSend, CallStates
  <2> QED BY <1>1, <2>1 DEF ChatSend, Goto
<1>2. ASSUME NEW t \in Turns, MovesOn(t) PROVE TableInv'
  BY <1>2 DEF MovesOn, Moves
<1>3. ASSUME NEW t \in Turns, DrawsCall(t) PROVE TableInv'
  <2> DEFINE c == <<t, used[t] + 1>>
  <2>1. PICK state \in CallStates : Dispatch(t, state)
    BY <1>3 DEF DrawsCall
  <2>2. /\ c \in Calls /\ used[t] + 1 \in 1..MaxCalls
        /\ future' = [future EXCEPT ![c] = "open"]
        /\ pending' = pending \cup {c}
        /\ used' = [used EXCEPT ![t] = @ + 1]
        /\ pc' = [pc EXCEPT ![t] = state]
    BY <2>1 DEF Dispatch, Goto
  <2>3. pc[t] \notin CallStates
    BY <1>3 DEF DrawsCall
  <2>4. (\A u \in Turns : \A n \in 1..MaxCalls : future[<<u, n>>] = "unused" <=> n > used[u])'
    <3> SUFFICES ASSUME NEW u \in Turns, NEW n \in 1..MaxCalls
                 PROVE  future'[<<u, n>>] = "unused" <=> n > used'[u]
      OBVIOUS
    <3>1. CASE u = t /\ n = used[t] + 1
      BY <2>2, <3>1
    <3>2. CASE u = t /\ n # used[t] + 1
      <4>1. <<u, n>> # c
        BY <3>2
      <4>2. used'[u] = used[u] + 1
        BY <2>2, <3>2
      <4>3. future'[<<u, n>>] = future[<<u, n>>]
        BY <2>2, <4>1
      <4> QED BY <3>2, <4>2, <4>3
    <3>3. CASE u # t
      <4>1. used'[u] = used[u] /\ future'[<<u, n>>] = future[<<u, n>>]
        BY <2>2, <3>3
      <4> QED BY <4>1
    <3> QED BY <3>1, <3>2, <3>3
  <2>5. (\A d \in Calls : future[d] = "open" => d \in pending)'
    BY <2>2
  <2>6. (\A d \in pending : pc[d[1]] \in CallStates /\ d = CallOf(d[1]))'
    BY <2>2, <2>3
  <2>7. (\A u \in Turns : pc[u] \in CallStates => used[u] >= 1)'
    BY <2>2
  <2> QED BY <2>4, <2>5, <2>6, <2>7
<1>4. ASSUME NEW t \in Turns, Consumes(t) PROVE TableInv'
  <2>1. /\ future[CallOf(t)] # "open" /\ pending' = pending \ {CallOf(t)}
        /\ UNCHANGED <<future, used>> /\ pc'[t] \notin CallStates
        /\ \A u \in Turns \ {t} : pc'[u] = pc[u]
    BY <1>4 DEF Consumes, Resume, Moves
  <2>2. (\A d \in Calls : future[d] = "open" => d \in pending)'
    BY <2>1
  <2>3. (\A d \in pending : pc[d[1]] \in CallStates /\ d = CallOf(d[1]))'
    BY <2>1
  <2> QED BY <2>1, <2>2, <2>3
<1>5. ASSUME NEW t \in Turns, HeartbeatEnds(t) PROVE TableInv'
  BY <1>5 DEF HeartbeatEnds
<1>6. ASSUME NEW c \in Calls, ToolResult(c) \/ ToolResultRepeated(c) PROVE TableInv'
  BY <1>6 DEF ToolResult, ToolResultRepeated
<1>7. ASSUME NEW order, Release(order), UNCHANGED local PROVE TableInv'
  BY <1>7 DEF Release
<1>8. ASSUME NEW order \in {"stop", "reset"}, HostOrders(order) PROVE TableInv'
  BY <1>7, <1>8 DEF HostOrders
<1>9. CASE StopOver \/ Configure
  BY <1>7, <1>9 DEF StopOver, Configure
<1>10. CASE UNCHANGED vars
  BY <1>10 DEF vars
<1> QED BY <1>1, <1>2, <1>3, <1>4, <1>5, <1>6, <1>8, <1>9, <1>10, StepClasses DEF Next

\* What a turn of the current epoch asks for reaches the host: no stop is in
\* force for it.
LEMMA AskedStep == TypeOK /\ EpochInv /\ TableInv /\ AskedInv /\ [Next]_vars => AskedInv'
<1> SUFFICES ASSUME TypeOK, EpochInv, TableInv, AskedInv, [Next]_vars PROVE AskedInv'
  OBVIOUS
<1> USE CallPairs DEF TypeOK, AskedInv, CallOf, table, local, shared
<1>1. ASSUME NEW t \in Turns, ChatSend(t) PROVE AskedInv'
  <2>1. pc' = [pc EXCEPT ![t] = "advising"] /\ "advising" \notin CallStates
    BY <1>1 DEF ChatSend, Goto, CallStates
  <2>2. \A u \in Turns \ {t} : pc[u] \in CallStates => epoch'[u] # genEpoch'
    BY <1>1 DEF ChatSend, EpochInv, CallStates
  <2> QED BY <2>1, <2>2
<1>2. ASSUME NEW t \in Turns, MovesOn(t) PROVE AskedInv'
  BY <1>2 DEF MovesOn, Moves
<1>3. ASSUME NEW t \in Turns, DrawsCall(t) PROVE AskedInv'
  <2> DEFINE c == <<t, used[t] + 1>>
  <2>1. PICK state \in CallStates : Dispatch(t, state)
    BY <1>3 DEF DrawsCall
  <2>2. /\ c \in Calls
        /\ future' = [future EXCEPT ![c] = "open"]
        /\ asked' = IF Silenced(t) THEN asked ELSE asked \cup {c}
        /\ used' = [used EXCEPT ![t] = @ + 1]
        /\ pc' = [pc EXCEPT ![t] = state]
    BY <2>1 DEF Dispatch, Goto
  <2>3. UNCHANGED <<genEpoch, epoch>> /\ pc[t] # "new"
    BY <1>3 DEF DrawsCall, Moves
  <2>4. epoch[t] = genEpoch => c \in asked'
    BY <2>2, <2>3 DEF Silenced, EpochInv
  <2>5. CallOf(t)' = c
    BY <2>2
  <2>6. ASSUME NEW u \in Turns \ {t}
        PROVE  CallOf(u)' = CallOf(u) /\ future'[CallOf(u)] = future[CallOf(u)] /\ pc'[u] = pc[u]
    BY <2>2
  <2>7. asked \subseteq asked'
    BY <2>2
  <2> SUFFICES ASSUME NEW u \in Turns, pc'[u] \in CallStates,
                      (future[CallOf(u)])' = "open", epoch'[u] = genEpoch'
               PROVE  CallOf(u)' \in asked'
    OBVIOUS
  <2>8. CASE u = t
    BY <2>3, <2>4, <2>5, <2>8
  <2>9. CASE u # t
    BY <2>3, <2>6, <2>7, <2>9
  <2> QED BY <2>8, <2>9
<1>4. ASSUME NEW t \in Turns, Consumes(t) PROVE AskedInv'
  BY <1>4 DEF Consumes, Resume, Moves
<1>5. ASSUME NEW t \in Turns, HeartbeatEnds(t) PROVE AskedInv'
  BY <1>5 DEF HeartbeatEnds
<1>6. ASSUME NEW c \in Calls, ToolResult(c) \/ ToolResultRepeated(c) PROVE AskedInv'
  <2>1. /\ UNCHANGED <<genEpoch, epoch, pc, used, asked>>
        /\ \A d \in Calls : future'[d] = "open" => future[d] = "open"
    BY <1>6 DEF ToolResult, ToolResultRepeated
  <2>2. \A u \in Turns : pc[u] \in CallStates => CallOf(u) \in Calls
    BY DEF TableInv
  <2> QED BY <2>1, <2>2
<1>7. ASSUME NEW order \in {"stop", "reset"}, HostOrders(order) PROVE AskedInv'
  <2>1. \A u \in Turns : pc'[u] \in CallStates => epoch'[u] # genEpoch'
    BY <1>7 DEF HostOrders, EpochInv, CallStates
  <2> QED BY <2>1
<1>8. CASE StopOver
  <2>1. /\ UNCHANGED <<genEpoch, epoch, pc, used, asked>>
        /\ \A c \in Calls : future'[c] = "open" => future[c] = "open"
    BY <1>8 DEF StopOver, Release
  <2>2. \A u \in Turns : pc[u] \in CallStates => CallOf(u) \in Calls
    BY DEF TableInv
  <2> QED BY <2>1, <2>2
<1>9. CASE Configure \/ UNCHANGED vars
  BY <1>9 DEF Configure, vars
<1> QED BY <1>1, <1>2, <1>3, <1>4, <1>5, <1>6, <1>7, <1>8, <1>9, StepClasses DEF Next

-----------------------------------------------------------------------------
(* The invariant, and what follows from it.                                 *)

LEMMA InvInit == Init => Inv
<1> SUFFICES ASSUME Init PROVE Inv
  OBVIOUS
<1>1. TypeOK
  BY TypeInit
<1>2. EpochInv /\ AskedInv /\ heardLate = {}
  BY DEF Init, EpochInv, AskedInv, CallStates
<1>3. TableInv
  BY CallPairs DEF Init, TableInv, CallStates
<1> QED BY <1>1, <1>2, <1>3 DEF Inv

\* The epochs, the table and the requests are as described in every
\* reachable state.
THEOREM Invariance == Spec => []Inv
<1>1. Inv /\ [Next]_vars => Inv'
  BY TypeStep, EpochStep, SilenceStep, TableStep, AskedStep DEF Inv
<1> QED BY InvInit, <1>1, PTL DEF Spec

\* chat.stop and chat.reset silence every turn they find, for good: the epoch
\* they open outlives the flag that the next request or configuration clears.
THEOREM StoppedStaySilent == Spec => []StoppedTurnsStaySilent
<1>1. Inv => StoppedTurnsStaySilent
  BY DEF Inv, StoppedTurnsStaySilent
<1> QED BY Invariance, <1>1, PTL

\* At most one turn is heard by the host at any time.
THEOREM OneTurnIsHeard == Spec => []OneAudibleTurn
<1>1. Inv => OneAudibleTurn
  <2> SUFFICES ASSUME Inv, NEW s \in Turns, NEW t \in Turns, Audible(s), Audible(t)
               PROVE  s = t
    BY DEF OneAudibleTurn
  <2>1. epoch[s] = genEpoch /\ epoch[t] = genEpoch
    BY DEF Inv, TypeOK, EpochInv, Audible, Silenced, Running
  <2> QED BY <2>1 DEF Inv, EpochInv, Audible, Running
<1> QED BY Invariance, <1>1, PTL

\* The table of pending calls holds the unresolved waits and nothing else
\* than waits, so that an answer or a stop always finds them.
THEOREM TableIsExact == Spec => []PendingIsExact
<1>1. Inv => PendingIsExact
  <2>1. ASSUME Inv, NEW t \in Turns, pc[t] \in CallStates PROVE CallOf(t) \in Calls
    BY <2>1, CallPairs DEF Inv, TypeOK, TableInv, CallOf
  <2> QED BY <2>1 DEF Inv, TableInv, PendingIsExact
<1> QED BY Invariance, <1>1, PTL

\* The turn the host hears never waits for a call it has not asked for.
THEOREM WaitsAreAsked == Spec => []AudibleWaitsAreAsked
<1>1. Inv => AudibleWaitsAreAsked
  BY DEF Inv, TypeOK, EpochInv, AskedInv, AudibleWaitsAreAsked, Audible, Silenced, Running
<1> QED BY Invariance, <1>1, PTL

-----------------------------------------------------------------------------
(* The protocol implements CallTicket.                                      *)

Waits(t) == pc[t] \in CallStates

\* The refinement mapping, one call at a time.
LEMMA TicketOf ==
  ASSUME NEW c \in Calls
  PROVE  /\ TicketState[c] = IF future[c] = "unused" THEN "unissued"
                            ELSE IF future[c] = "open" THEN "open"
                            ELSE IF Waits(c[1]) /\ c = CallOf(c[1]) THEN "settled"
                            ELSE "consumed"
         /\ TicketOutcome[c] = IF future[c] \in {"answered", "interrupted"}
                              THEN future[c] ELSE "none"
  BY DEF TicketState, TicketOutcome, Waits

\* What no action of the mapping touches stays as it is.
LEMMA SameTickets ==
  ASSUME UNCHANGED <<future, used, asked>>,
         \A t \in Turns : Waits(t)' = Waits(t)
  PROVE  UNCHANGED Ticket!ticketVars
<1>1. ASSUME NEW c \in Calls
      PROVE  (Waits(c[1]) /\ c = CallOf(c[1]))' = (Waits(c[1]) /\ c = CallOf(c[1]))
  BY CallPairs DEF CallOf
<1>2. TicketState' = TicketState
  BY <1>1 DEF TicketState, Waits
<1>3. TicketOutcome' = TicketOutcome
  BY DEF TicketOutcome
<1> QED BY <1>2, <1>3 DEF Ticket!ticketVars

LEMMA TicketInit == Init => Ticket!Init
  BY DEF Init, Ticket!Init, TicketState, TicketOutcome

\* A registered future is an issued ticket.
LEMMA TicketIssue ==
  ASSUME TypeOK, TableInv, NEW t \in Turns, DrawsCall(t)
  PROVE  Ticket!Next
<1> USE CallPairs DEF TypeOK, CallOf
<1> DEFINE d == <<t, used[t] + 1>>
<1>1. PICK state \in CallStates : Dispatch(t, state)
  BY DEF DrawsCall
<1>2. /\ d \in Calls
      /\ future' = [future EXCEPT ![d] = "open"]
      /\ asked' \in {asked, asked \cup {d}}
      /\ used' = [used EXCEPT ![t] = @ + 1]
      /\ pc' = [pc EXCEPT ![t] = state]
  BY <1>1 DEF Dispatch, Goto
<1>3. future[d] = "unused"
  BY <1>2 DEF TableInv
<1>4. ASSUME NEW c \in Calls, c # d
      PROVE  TicketState'[c] = TicketState[c] /\ TicketOutcome'[c] = TicketOutcome[c]
  <2>1. future'[c] = future[c]
    BY <1>2, <1>4
  <2>2. CASE c[1] # t
    BY <1>2, <2>1, <2>2, TicketOf DEF Waits, TicketState, TicketOutcome
  <2>3. CASE c[1] = t
    <3>1. c # CallOf(c[1])' /\ ~Waits(t)
      BY <1>2, <1>4, <2>3 DEF DrawsCall, Waits
    <3> QED BY <1>2, <2>1, <2>3, <3>1 DEF Waits, TicketState, TicketOutcome
  <2> QED BY <2>2, <2>3
<1>5. /\ TicketState[d] = "unissued" /\ TicketState'[d] = "open"
      /\ TicketOutcome[d] = "none" /\ TicketOutcome'[d] = "none"
  BY <1>2, <1>3 DEF TicketState, TicketOutcome
<1>6. TicketState' = [TicketState EXCEPT ![d] = "open"]
  BY <1>2, <1>4, <1>5 DEF TicketState
<1>7. TicketOutcome' = TicketOutcome
  BY <1>4, <1>5 DEF TicketOutcome
<1>8. Ticket!Issue(d)
  BY <1>2, <1>5, <1>6, <1>7 DEF Ticket!Issue
<1> QED BY <1>2, <1>8 DEF Ticket!Next

\* The waiter that resumes consumes its ticket.
LEMMA TicketConsume ==
  ASSUME TypeOK, TableInv, NEW t \in Turns, Consumes(t)
  PROVE  Ticket!Next
<1> USE CallPairs DEF TypeOK, CallOf
<1> DEFINE d == CallOf(t)
<1>1. /\ d \in Calls /\ future[d] \in {"answered", "interrupted"}
      /\ UNCHANGED <<future, asked, used>>
      /\ Waits(t) /\ ~Waits(t)' /\ \A u \in Turns \ {t} : Waits(u)' = Waits(u)
  BY DEF Consumes, Resume, TableInv, Waits, Moves
<1>2. ASSUME NEW c \in Calls, c # d PROVE TicketState'[c] = TicketState[c]
  BY <1>1, <1>2 DEF TicketState, Waits
<1>3. TicketState[d] = "settled" /\ TicketState'[d] = "consumed"
  BY <1>1 DEF TicketState, Waits
<1>4. TicketState' = [TicketState EXCEPT ![d] = "consumed"]
  BY <1>1, <1>2, <1>3 DEF TicketState
<1>5. TicketOutcome' = TicketOutcome
  BY <1>1 DEF TicketOutcome
<1>6. Ticket!Consume(d)
  BY <1>1, <1>3, <1>4, <1>5 DEF Ticket!Consume
<1> QED BY <1>1, <1>6 DEF Ticket!Next

\* The first tool.result settles an open ticket that was shown.
LEMMA TicketAnswer ==
  ASSUME TypeOK, TableInv, NEW c \in Calls, ToolResult(c)
  PROVE  Ticket!Next
<1> USE DEF TypeOK
<1>1. /\ future[c] = "open" /\ future' = [future EXCEPT ![c] = "answered"] /\ c \in asked
      /\ UNCHANGED <<asked, pc, used>>
      /\ pc[c[1]] \in CallStates /\ c = CallOf(c[1])
  BY DEF ToolResult, TableInv, local
<1>2. /\ TicketState[c] = "open"
      /\ TicketState' = [TicketState EXCEPT ![c] = "settled"]
  BY <1>1 DEF TicketState, CallOf
<1>3. TicketOutcome' = [TicketOutcome EXCEPT ![c] = "answered"]
  BY <1>1 DEF TicketOutcome
<1>4. Ticket!Answer(c)
  BY <1>1, <1>2, <1>3 DEF Ticket!Answer
<1> QED BY <1>4 DEF Ticket!Next

\* A stop settles every open ticket of the table, and the table has them all.
LEMMA TicketInterrupt ==
  ASSUME TypeOK, TableInv, NEW order, Release(order), UNCHANGED local
  PROVE  Ticket!Next
<1> USE DEF TypeOK
<1> DEFINE S == {c \in pending : future[c] = "open"}
<1>1. /\ future' = [c \in Calls |-> IF c \in S THEN "interrupted" ELSE future[c]]
      /\ UNCHANGED <<asked, pc, used>> /\ S \subseteq Calls
      /\ \A c \in S : future[c] = "open" /\ pc[c[1]] \in CallStates /\ c = CallOf(c[1])
  BY DEF Release, local, TableInv
<1>2. \A c \in S : TicketState[c] = "open"
  BY <1>1 DEF TicketState
<1>3. TicketState' = [c \in Calls |-> IF c \in S THEN "settled" ELSE TicketState[c]]
  BY <1>1 DEF TicketState, CallOf
<1>4. TicketOutcome' = [c \in Calls |-> IF c \in S THEN "interrupted" ELSE TicketOutcome[c]]
  BY <1>1 DEF TicketOutcome
<1>5. Ticket!Interrupt(S)
  BY <1>1, <1>2, <1>3, <1>4 DEF Ticket!Interrupt
<1> QED BY <1>1, <1>5 DEF Ticket!Next

LEMMA TicketStep == Inv /\ [Next]_vars => [Ticket!Next]_(Ticket!ticketVars)
<1> SUFFICES ASSUME TypeOK, TableInv, [Next]_vars
             PROVE  Ticket!Next \/ UNCHANGED Ticket!ticketVars
  BY DEF Inv
<1> USE DEF TypeOK
<1>1. ASSUME NEW t \in Turns, ChatSend(t) PROVE UNCHANGED Ticket!ticketVars
  <2>1. /\ UNCHANGED <<future, used, asked>>
        /\ pc' = [pc EXCEPT ![t] = "advising"] /\ pc[t] = "new"
    BY <1>1 DEF ChatSend, Goto, table
  <2>2. \A u \in Turns : Waits(u)' = Waits(u)
    BY <2>1 DEF Waits, CallStates
  <2> QED BY <2>1, <2>2, SameTickets
<1>2. ASSUME NEW t \in Turns, MovesOn(t) PROVE UNCHANGED Ticket!ticketVars
  <2>1. \A u \in Turns : Waits(u)' = Waits(u)
    BY <1>2 DEF MovesOn, Moves, Waits
  <2> QED BY <1>2, <2>1, SameTickets DEF MovesOn, table
<1>3. ASSUME NEW t \in Turns, Proceed(t) PROVE Ticket!Next \/ UNCHANGED Ticket!ticketVars
  BY <1>2, <1>3, StepClasses, TicketIssue, TicketConsume
<1>4. ASSUME UNCHANGED <<future, used, asked, pc>> PROVE UNCHANGED Ticket!ticketVars
  BY <1>4, SameTickets DEF Waits
<1>5. ASSUME NEW t \in Turns, HeartbeatEnds(t) PROVE UNCHANGED Ticket!ticketVars
  BY <1>4, <1>5 DEF HeartbeatEnds, table, local
<1>6. ASSUME NEW c \in Calls, ToolResult(c) \/ ToolResultRepeated(c)
      PROVE  Ticket!Next \/ UNCHANGED Ticket!ticketVars
  BY <1>4, <1>6, TicketAnswer DEF ToolResultRepeated, table, local
<1>7. ASSUME NEW order \in {"stop", "reset"}, HostOrders(order)
      PROVE  Ticket!Next \/ UNCHANGED Ticket!ticketVars
  <2>1. UNCHANGED local /\ (UNCHANGED table \/ Release(order))
    BY <1>7 DEF HostOrders
  <2> QED BY <1>4, <2>1, TicketInterrupt DEF table, local
<1>8. CASE StopOver
  BY <1>8, TicketInterrupt DEF StopOver
<1>9. CASE Configure \/ UNCHANGED vars
  BY <1>4, <1>9 DEF Configure, vars, table, local
<1> QED BY <1>1, <1>3, <1>5, <1>6, <1>7, <1>8, <1>9 DEF Next

\* Whatever the interleaving of turns, answers and stops, every call_id lives
\* the life of a ticket.
THEOREM TicketsImplemented == Spec => ImplementsTickets
  BY Invariance, TicketInit, TicketStep, PTL DEF Spec, ImplementsTickets, Ticket!Spec
=============================================================================
