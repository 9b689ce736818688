---------------------------- MODULE TurnProtocol ----------------------------
(***************************************************************************)
(* The conversation between the host and the runtime over stdin/stdout.     *)
(*                                                                          *)
(* main.py turns every packet into an asyncio task of its own, so the       *)
(* chat.send turns, the tool.result answers and the chat.stop/chat.reset    *)
(* orders of the host interleave wherever a turn is suspended.  One action  *)
(* below is the code between two suspensions of one task; what is shared    *)
(* between the tasks is a handful of fields of Orchestrator and             *)
(* RuntimeState: the cancel flag, the generation epoch, the table of        *)
(* pending futures, the heartbeat task and the current mission.             *)
(*                                                                          *)
(* Suspensions of two loop iterations (the cancellation of the heartbeat    *)
(* task inside propagate_event) are folded into the action; the one inside  *)
(* chat.stop and chat.reset is kept (HostOrders, StopOver), because the     *)
(* handler goes on to rewrite shared state after it.  The plan a mission    *)
(* executes is flat here: the planning of a child solver is one more        *)
(* attempt of its mission.                                                  *)
(***************************************************************************)
EXTENDS Integers

CONSTANTS Turns,        \* the chat.send requests of the host
          MaxCalls,     \* host calls one turn makes (its uuid4 call_ids)
          MaxAttempts,  \* plans one mission tries
          MaxOrders,    \* chat.stop and chat.reset orders of the host
          None          \* no task, no mission

ASSUME BoundsAreNat == MaxCalls \in Nat /\ MaxAttempts \in Nat /\ MaxOrders \in Nat
ASSUME NoneIsNoTurn == None \notin Turns

\* A call_id is fresh by construction: the turn that drew it, and its rank.
Calls == Turns \X (1..MaxCalls)

VARIABLES
  cancel,         \* runtime_state.cancel_requested
  genEpoch,       \* runtime_state.generation_epoch
  future,         \* the future of each call_id
  pending,        \* the keys of pending_tool_calls
  asked,          \* the call_ids whose TOOL_REQUESTED reached the host
  currentMission, \* runtime_state.current_mission_id (the turn that set it)
  approvals,      \* <<turn, mission>>: the plan of turn is approved for mission
  hbTask,         \* _heartbeat_task: the turn whose THINKING_STARTED created it
  hbLive,         \* the heartbeat loops that are alive, by creating turn
  stopping,       \* a stop handler awaits the cancelled heartbeat: its order
  orders,         \* stop and reset orders received
  pc,             \* where each turn is suspended
  epoch,          \* the epoch in each turn's execution_context scope
  callEpoch,      \* call_epoch of the LLM call a turn awaits
  used,           \* host calls each turn has made
  attempts,       \* plans the mission of each turn has tried
  stopped,        \* history: turns that were running when a stop came
  heardLate       \* history: stopped turns that spoke to the host afterwards

shared == <<cancel, genEpoch, currentMission, approvals, hbTask, hbLive, stopping, orders>>
table  == <<future, pending, asked>>
local  == <<pc, epoch, callEpoch, used, attempts>>
vars   == <<shared, table, local, stopped, heardLate>>

LlmStates  == {"routing", "planning", "judging", "reporting"}
CallStates == {"confirming", "acting", "reacting"}
WorkStates == {"advising", "memorising", "answering", "preparing", "waiting",
               "retrying", "settled", "failed", "saving", "closing"}
States     == {"new", "done"} \cup LlmStates \cup CallStates \cup WorkStates

Running(t) == pc[t] \notin {"new", "done"}

\* The call a turn awaits: the last one it drew.
CallOf(t) == <<t, used[t]>>

\* Slips: only the flag silences a turn; a turn outlives its successor.
SilencedByFlag(t)   == cancel
SilencedOneLater(t) == epoch[t] + 1 < genEpoch \/ cancel

\* propagate_event drops what a turn says once a newer epoch exists, and
\* everything while a stop is in force.
Silenced(t) == epoch[t] < genEpoch \/ cancel
Audible(t)  == Running(t) /\ ~Silenced(t)

\* _await_cancellable polls the flag and the epoch its call started under.
CallCancelled(t) == cancel \/ genEpoch # callEpoch[t]

Init ==
  /\ cancel = FALSE /\ genEpoch = 0
  /\ future = [c \in Calls |-> "unused"] /\ pending = {} /\ asked = {}
  /\ currentMission = None /\ approvals = {}
  /\ hbTask = None /\ hbLive = {} /\ stopping = None /\ orders = 0
  /\ pc = [t \in Turns |-> "new"]
  /\ epoch = [t \in Turns |-> 0] /\ callEpoch = [t \in Turns |-> 0]
  /\ used = [t \in Turns |-> 0] /\ attempts = [t \in Turns |-> 0]
  /\ stopped = {} /\ heardLate = {}

-----------------------------------------------------------------------------
(* Pieces of the handlers.                                                  *)

\* A turn suspends in state; an LLM call remembers the epoch it starts under.
Goto(t, state) ==
  /\ pc' = [pc EXCEPT ![t] = state]
  /\ callEpoch' = [callEpoch EXCEPT ![t] = IF state \in LlmStates THEN genEpoch ELSE 0]

\* A work request or a result reaches the host unless it is suppressed.
Speak(t) == heardLate' = IF t \in stopped /\ ~Silenced(t)
                         THEN heardLate \cup {t} ELSE heardLate

\* The heartbeat is stopped by THINKING_FINISHED, RUNTIME_ERROR and
\* MISSION_FAILED when propagate_event lets them through.
StopBeat == /\ hbLive' = hbLive \ {hbTask}
            /\ hbTask' = None

\* The "finally" of _handle_chat_send, and the answer of the turn.
Finish(t) ==
  /\ Goto(t, "done")
  /\ IF epoch[t] = genEpoch /\ ~cancel THEN StopBeat ELSE UNCHANGED <<hbTask, hbLive>>

\* _execute_external_tool and _request_human_confirmation register the
\* future first; whether the host hears of the call is another matter.
Dispatch(t, state) ==
  LET c == <<t, used[t] + 1>> IN
  /\ c \in Calls
  /\ used' = [used EXCEPT ![t] = @ + 1]
  /\ future' = [future EXCEPT ![c] = "open"]
  /\ pending' = pending \cup {c}
  /\ asked' = IF Silenced(t) THEN asked ELSE asked \cup {c}
  /\ Speak(t)
  /\ Goto(t, state)

\* A slip: the entry outlives its future.
ResumeWithoutPop(t) ==
  /\ future[CallOf(t)] \in {"answered", "interrupted"}
  /\ UNCHANGED table

\* The awaited future is resolved; the "finally" pops its entry.
Resume(t) ==
  /\ future[CallOf(t)] \in {"answered", "interrupted"}
  /\ pending' = pending \ {CallOf(t)}
  /\ UNCHANGED <<future, asked>>

\* An interruption is the answer {"result": false}; the host says anything.
Positive(t) == IF future[CallOf(t)] = "answered" THEN BOOLEAN ELSE {FALSE}

\* A slip: the attempts are not counted.
NextAttemptUncounted(t) ==
  /\ UNCHANGED attempts
  /\ Goto(t, IF cancel THEN "failed" ELSE "preparing")

\* The head of Solver.run's loop: one more plan, or the mission has failed.
NextAttempt(t) ==
  IF ~cancel /\ attempts[t] < MaxAttempts
  THEN attempts' = [attempts EXCEPT ![t] = @ + 1] /\ Goto(t, "preparing")
  ELSE UNCHANGED attempts /\ Goto(t, "failed")

\* The next step of the accepted plan: a tool call (with room for its
\* micro-retry) behind its optional wait, or nothing more to ask the host.
\* The executor looks at the cancel flag before every step.
NextStep(t) ==
  IF cancel THEN NextAttempt(t)
  ELSE /\ UNCHANGED attempts
       /\ \/ used[t] + 2 =< MaxCalls /\ Goto(t, "waiting")
          \/ Goto(t, "settled")

-----------------------------------------------------------------------------
(* The turn: _handle_chat_send, _handle_direct_decision and                 *)
(* _handle_mission_decision, with Solver.run and Executor.execute_plan.     *)

\* A request arrives.  Re-arming the flag, drawing the epoch and saying
\* THINKING_STARTED happen before the first suspension.
ChatSend(t) ==
  /\ pc[t] = "new"
  /\ cancel' = FALSE
  /\ genEpoch' = genEpoch + 1
  /\ epoch' = [epoch EXCEPT ![t] = genEpoch + 1]
  /\ IF hbTask = None \/ hbTask \notin hbLive
     THEN hbTask' = t /\ hbLive' = hbLive \cup {t}
     ELSE UNCHANGED <<hbTask, hbLive>>
  /\ Goto(t, "advising")
  /\ UNCHANGED <<table, currentMission, approvals, stopping, orders,
                 used, attempts, stopped, heardLate>>

\* Advice and known facts are embedded; the routing LLM is called.
Advised(t) ==
  /\ pc[t] = "advising"
  /\ Goto(t, "routing")
  /\ UNCHANGED <<shared, table, epoch, used, attempts, stopped, heardLate>>

\* The routing decision is there; the facts it taught are embedded.
Routed(t) ==
  /\ pc[t] = "routing" /\ ~CallCancelled(t)
  /\ Goto(t, "memorising")
  /\ UNCHANGED <<shared, table, epoch, used, attempts, stopped, heardLate>>

\* No decision, or a stop came: the turn is over.
DecisionDropped(t) ==
  /\ pc[t] = "memorising"
  /\ Goto(t, "done")
  /\ IF Silenced(t) THEN UNCHANGED <<hbTask, hbLive>> ELSE StopBeat
  /\ UNCHANGED <<cancel, genEpoch, currentMission, approvals, stopping, orders, table,
                 epoch, used, attempts, stopped, heardLate>>

\* _handle_direct_decision: the answer is stored, then told.
DirectDecision(t) ==
  /\ pc[t] = "memorising" /\ ~cancel
  /\ Goto(t, "answering")
  /\ UNCHANGED <<shared, table, epoch, used, attempts, stopped, heardLate>>

DirectAnswered(t) ==
  /\ pc[t] = "answering"
  /\ Speak(t)
  /\ Finish(t)
  /\ UNCHANGED <<cancel, genEpoch, currentMission, approvals, stopping, orders, table,
                 epoch, used, attempts, stopped>>

\* _handle_mission_decision up to the first suspension of Solver.run.
MissionDecision(t) ==
  /\ pc[t] = "memorising" /\ ~cancel
  /\ currentMission' = t
  /\ Speak(t)
  /\ NextAttempt(t)
  /\ UNCHANGED <<cancel, genEpoch, approvals, hbTask, hbLive, stopping, orders, table,
                 epoch, used, stopped>>

\* Lessons and skills are retrieved; the planner's LLM is called.
Prepared(t) ==
  /\ pc[t] = "preparing"
  /\ Goto(t, "planning")
  /\ UNCHANGED <<shared, table, epoch, used, attempts, stopped, heardLate>>

\* A plan: refused for its form, answered by text alone, or sent to the judge.
Planned(t) ==
  /\ pc[t] = "planning" /\ ~CallCancelled(t)
  /\ \/ NextAttempt(t)
     \/ Goto(t, "settled") /\ UNCHANGED attempts
     \/ Goto(t, "judging") /\ UNCHANGED attempts
  /\ UNCHANGED <<shared, table, epoch, used, stopped, heardLate>>

\* The judge refuses the plan or accepts it.
Judged(t) ==
  /\ pc[t] = "judging" /\ ~CallCancelled(t)
  /\ NextAttempt(t) \/ NextStep(t)
  /\ UNCHANGED <<shared, table, epoch, used, stopped, heardLate>>

\* The judge wants the user's consent: a human_validation request.
AskHuman(t) ==
  /\ pc[t] = "judging" /\ ~CallCancelled(t)
  /\ Dispatch(t, "confirming")
  /\ UNCHANGED <<shared, epoch, attempts, stopped>>

\* The consent is recorded under the mission that is current when it comes.
HumanAnswered(t) ==
  /\ pc[t] = "confirming"
  /\ Resume(t)
  /\ \E confirmed \in Positive(t) :
       IF confirmed
       THEN approvals' = approvals \cup {<<t, currentMission>>} /\ NextStep(t)
       ELSE UNCHANGED approvals /\ NextAttempt(t)
  /\ UNCHANGED <<cancel, genEpoch, currentMission, hbTask, hbLive, stopping, orders,
                 epoch, used, stopped, heardLate>>

\* The wait before a reading tool is over (a stop cuts it short): the tool
\* is called without another look at the flag.
WaitOver(t) ==
  /\ pc[t] = "waiting"
  /\ Dispatch(t, "acting")
  /\ UNCHANGED <<shared, epoch, attempts, stopped>>

\* The tool's result: interrupted, converged, diverged, or failed in a way a
\* pause may cure.
Acted(t) ==
  /\ pc[t] = "acting"
  /\ Resume(t)
  /\ \E success \in Positive(t) :
       IF cancel THEN NextAttempt(t)
       ELSE \/ success /\ NextStep(t)
            \/ NextAttempt(t)
            \/ ~success /\ Goto(t, "retrying") /\ UNCHANGED attempts
  /\ UNCHANGED <<shared, epoch, used, stopped, heardLate>>

\* The pause of the micro-retry is over: the tool is called again.
PauseOver(t) ==
  /\ pc[t] = "retrying"
  /\ Dispatch(t, "reacting")
  /\ UNCHANGED <<shared, epoch, attempts, stopped>>

\* The second result does not change the verdict: the step has failed.
Reacted(t) ==
  /\ pc[t] = "reacting"
  /\ Resume(t)
  /\ NextAttempt(t)
  /\ UNCHANGED <<shared, epoch, used, stopped, heardLate>>

\* The skill bookkeeping after Solver.run is over; a stop ends the mission,
\* otherwise the presentator's LLM is called, after MISSION_FAILED if it failed.
SolverReturned(t) ==
  /\ pc[t] \in {"settled", "failed"}
  /\ IF cancel THEN Goto(t, "closing")
               ELSE Goto(t, "reporting")
  /\ IF pc[t] = "failed" /\ ~Silenced(t) THEN StopBeat ELSE UNCHANGED <<hbTask, hbLive>>
  /\ UNCHANGED <<cancel, genEpoch, currentMission, approvals, stopping, orders, table,
                 epoch, used, attempts, stopped, heardLate>>

\* The report is written, or its fallback: the episode is saved.
Reported(t) ==
  /\ pc[t] = "reporting" /\ ~CallCancelled(t)
  /\ Goto(t, "saving")
  /\ UNCHANGED <<shared, table, epoch, used, attempts, stopped, heardLate>>

\* EXECUTION_COMPLETED and RESPONSE_COMPLETED, and the turn is over.
MissionAnswered(t) ==
  /\ pc[t] = "saving"
  /\ Speak(t)
  /\ Finish(t)
  /\ UNCHANGED <<cancel, genEpoch, currentMission, approvals, stopping, orders, table,
                 epoch, used, attempts, stopped>>

\* The cancelled or crashed mission is saved, and the turn is over.
MissionClosed(t) ==
  /\ pc[t] = "closing"
  /\ Finish(t)
  /\ UNCHANGED <<cancel, genEpoch, currentMission, approvals, stopping, orders, table,
                 epoch, used, attempts, stopped, heardLate>>

\* The LLM call is cancelled in flight, or fails for good: while the solver
\* runs the mission is first saved; a turn that only routes or reports is
\* over.  A report that fails without being cancelled has a fallback.
LlmAborted(t) ==
  /\ pc[t] \in LlmStates
  /\ pc[t] = "reporting" => CallCancelled(t)
  /\ IF pc[t] \in {"planning", "judging"} THEN Goto(t, "closing") /\ UNCHANGED <<hbTask, hbLive>>
                     ELSE Finish(t)
  /\ UNCHANGED <<cancel, genEpoch, currentMission, approvals, stopping, orders, table,
                 epoch, used, attempts, stopped, heardLate>>

-----------------------------------------------------------------------------
(* The other packets of the host, and the heartbeat loop.                   *)

\* A slip: an answer is taken for any call the host was ever asked for.
ToolResultTooLate(c) ==
  /\ c \in asked
  /\ future' = [future EXCEPT ![c] = "answered"]
  /\ UNCHANGED <<shared, pending, asked, local, stopped, heardLate>>

\* tool.result for a call the host was asked for: the first answer resolves
\* the future.
ToolResult(c) ==
  /\ c \in asked /\ c \in pending /\ future[c] = "open"
  /\ future' = [future EXCEPT ![c] = "answered"]
  /\ UNCHANGED <<shared, pending, asked, local, stopped, heardLate>>

\* An answer repeated before the waiter has resumed: set_result raises, and
\* the RUNTIME_ERROR of the packet's own task, which carries no epoch, stops
\* the heartbeat.
ToolResultRepeated(c) ==
  /\ c \in asked /\ c \in pending /\ future[c] # "open"
  /\ ~cancel
  /\ StopBeat
  /\ UNCHANGED <<cancel, genEpoch, currentMission, approvals, stopping, orders,
                 table, local, stopped, heardLate>>

\* A slip: the futures are cancelled instead of being given a result.
ReleaseByCancelling(order) ==
  /\ future' = [c \in Calls |-> IF c \in pending /\ future[c] = "open"
                                THEN "cancelled" ELSE future[c]]
  /\ pending' = {}
  /\ UNCHANGED asked
  /\ currentMission' = IF order = "reset" THEN None ELSE currentMission

\* chat.stop and chat.reset end here: every open future is resolved with an
\* interruption and the table is emptied; a reset forgets the mission.
Release(order) ==
  /\ future' = [c \in Calls |-> IF c \in pending /\ future[c] = "open"
                                THEN "interrupted" ELSE future[c]]
  /\ pending' = {}
  /\ UNCHANGED asked
  /\ currentMission' = IF order = "reset" THEN None ELSE currentMission

\* The order comes: the flag and the epoch first.  If a heartbeat runs the
\* handler awaits its cancellation, otherwise it is over at once.
\* Bound: one order at a time awaits a heartbeat.
HostOrders(order) ==
  /\ orders < MaxOrders
  /\ orders' = orders + 1
  /\ cancel' = TRUE
  /\ genEpoch' = genEpoch + 1
  /\ stopped' = stopped \cup {t \in Turns : Running(t)}
  /\ IF hbTask # None /\ hbTask \in hbLive
     THEN /\ stopping = None
          /\ stopping' = order
          /\ hbLive' = hbLive \ {hbTask}
          /\ UNCHANGED <<table, currentMission>>
     ELSE /\ Release(order)
          /\ UNCHANGED <<stopping, hbLive>>
  /\ UNCHANGED <<approvals, hbTask, local, heardLate>>

StopOver ==
  /\ stopping # None
  /\ stopping' = None
  /\ hbTask' = None
  /\ Release(stopping)
  /\ UNCHANGED <<cancel, genEpoch, approvals, hbLive, orders, local, stopped, heardLate>>

\* A heartbeat loop that wakes up under a stop ends by itself.
HeartbeatEnds(t) ==
  /\ t \in hbLive /\ cancel
  /\ hbLive' = hbLive \ {t}
  /\ UNCHANGED <<cancel, genEpoch, currentMission, approvals, hbTask, stopping, orders,
                 table, local, stopped, heardLate>>

\* runtime.configure re-arms the flag and opens no epoch.
Configure ==
  /\ cancel /\ cancel' = FALSE
  /\ UNCHANGED <<genEpoch, currentMission, approvals, hbTask, hbLive, stopping, orders,
                 table, local, stopped, heardLate>>

-----------------------------------------------------------------------------
Proceed(t) ==
  \/ Advised(t) \/ Routed(t) \/ DecisionDropped(t) \/ DirectDecision(t)
  \/ DirectAnswered(t) \/ MissionDecision(t) \/ Prepared(t) \/ Planned(t)
  \/ Judged(t) \/ AskHuman(t) \/ HumanAnswered(t) \/ WaitOver(t) \/ Acted(t)
  \/ PauseOver(t) \/ Reacted(t) \/ SolverReturned(t) \/ Reported(t)
  \/ MissionAnswered(t) \/ MissionClosed(t) \/ LlmAborted(t)

Next ==
  \/ \E t \in Turns : ChatSend(t) \/ Proceed(t) \/ HeartbeatEnds(t)
  \/ \E c \in Calls : ToolResult(c) \/ ToolResultRepeated(c)
  \/ \E order \in {"stop", "reset"} : HostOrders(order)
  \/ StopOver \/ Configure

Spec == Init /\ [][Next]_vars

\* Every suspension of a turn ends except the wait for the host, and the
\* host answers every call it was asked for (HOST_CONTRACT section 5).
Fairness ==
  /\ \A t \in Turns : WF_vars(Proceed(t))
  /\ \A c \in Calls : WF_vars(ToolResult(c))
  /\ WF_vars(StopOver)

FairSpec == Spec /\ Fairness
-----------------------------------------------------------------------------
(* What the protocol promises.                                              *)

\* Every variable has its type; the futures of a turn are used in order.
TypeOK ==
  /\ cancel \in BOOLEAN /\ genEpoch \in Nat
  /\ future \in [Calls -> {"unused", "open", "answered", "interrupted"}]
  /\ pending \subseteq Calls /\ asked \subseteq Calls
  /\ currentMission \in Turns \cup {None}
  /\ approvals \subseteq Turns \X (Turns \cup {None})
  /\ hbTask \in Turns \cup {None} /\ hbLive \subseteq Turns
  /\ stopping \in {"stop", "reset", None} /\ orders \in Nat
  /\ pc \in [Turns -> States]
  /\ epoch \in [Turns -> Nat] /\ callEpoch \in [Turns -> Nat]
  /\ used \in [Turns -> 0..MaxCalls] /\ attempts \in [Turns -> Nat]
  /\ stopped \subseteq Turns /\ heardLate \subseteq Turns

\* A turn that a stop found running asks the host for no further work and
\* gives it no result, whatever request, configuration or answer follows.
StoppedTurnsStaySilent == heardLate = {}

\* The host never hears two turns at once: a newer request silences the
\* older one even when nobody stopped it.
OneAudibleTurn == \A s, t \in Turns : Audible(s) /\ Audible(t) => s = t

\* pending_tool_calls leaks nothing and forgets nobody: an entry belongs to a
\* turn that waits on it, and an unresolved wait is in the table, where
\* tool.result and chat.stop can find it.
PendingIsExact ==
  /\ \A c \in pending : pc[c[1]] \in CallStates /\ c = CallOf(c[1])
  /\ \A t \in Turns : pc[t] \in CallStates =>
       CallOf(t) \in pending \/ future[CallOf(t)] # "open"

\* The host has been asked for every call that the turn it hears waits on, so
\* that turn can only be kept waiting by the host.
AudibleWaitsAreAsked ==
  \A t \in Turns : Audible(t) /\ pc[t] \in CallStates /\ future[CallOf(t)] = "open"
                    => CallOf(t) \in asked

\* The turn the host hears does not stay so for ever: it ends, or is stopped
\* or superseded.
AudibleTurnsEnd == \A t \in Turns : Audible(t) ~> ~Audible(t)

\* A call_id lives the life of a ticket: unissued, open, settled once - by the
\* host that was asked, or by a stop - and consumed by the turn that waits.
TicketState ==
  [c \in Calls |->
     IF future[c] = "unused" THEN "unissued"
     ELSE IF future[c] = "open" THEN "open"
     ELSE IF pc[c[1]] \in CallStates /\ c = CallOf(c[1]) THEN "settled"
     ELSE "consumed"]

TicketOutcome ==
  [c \in Calls |-> IF future[c] \in {"answered", "interrupted"} THEN future[c] ELSE "none"]

Ticket == INSTANCE CallTicket
            WITH Tickets <- Calls, state <- TicketState, outcome <- TicketOutcome,
                 shown <- asked

ImplementsTickets == Ticket!Spec

-----------------------------------------------------------------------------
(* What the documents say and the code does not do.                         *)

\* docs/PROTOCOL.md: chat.stop stops what is running.  Every turn a stop
\* found running ends.
StopEndsTurns == \A t \in Turns : t \in stopped ~> pc[t] = "done"

\* docs/PROTOCOL.md: an action is exempt from confirmation when it was
\* already approved in the mission.  An approval is kept for its own mission.
ApprovalsBelongToTheirMission == \A a \in approvals : a[1] = a[2]
=============================================================================
