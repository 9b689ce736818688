----------------------------- MODULE CallTicket -----------------------------
(***************************************************************************)
(* What the runtime promises about one call_id, whoever waits for it: a     *)
(* ticket is issued once, shown to the host or not when it is issued,       *)
(* settled once - by the host's answer, which only a shown ticket can       *)
(* receive, or by an interruption that settles any set of open tickets      *)
(* together - and consumed once by the coroutine that issued it.            *)
(* The settled outcome never changes: the first answer wins.                *)
(***************************************************************************)
CONSTANT Tickets

VARIABLES state,    \* the life of each ticket
          outcome,  \* how it was settled
          shown     \* the tickets the host was asked to work on

ticketVars == <<state, outcome, shown>>

Init == /\ state = [c \in Tickets |-> "unissued"]
        /\ outcome = [c \in Tickets |-> "none"]
        /\ shown = {}

\* A coroutine registers a future under a fresh call_id; the request may be
\* suppressed on its way to the host.
Issue(c) == /\ state[c] = "unissued"
            /\ state' = [state EXCEPT ![c] = "open"]
            /\ shown' \in {shown, shown \cup {c}}
            /\ UNCHANGED outcome

Answer(c) == /\ state[c] = "open"
             /\ c \in shown
             /\ state' = [state EXCEPT ![c] = "settled"]
             /\ outcome' = [outcome EXCEPT ![c] = "answered"]
             /\ UNCHANGED shown

Interrupt(S) == /\ \A c \in S : state[c] = "open"
                /\ state' = [c \in Tickets |-> IF c \in S THEN "settled" ELSE state[c]]
                /\ outcome' = [c \in Tickets |-> IF c \in S THEN "interrupted" ELSE outcome[c]]
                /\ UNCHANGED shown

Consume(c) == /\ state[c] = "settled"
              /\ state' = [state EXCEPT ![c] = "consumed"]
              /\ UNCHANGED <<outcome, shown>>

Next == \/ \E c \in Tickets : Issue(c) \/ Answer(c) \/ Consume(c)
        \/ \E S \in SUBSET Tickets : Interrupt(S)

Spec == Init /\ [][Next]_ticketVars
=============================================================================
