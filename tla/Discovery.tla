------------------------------ MODULE Discovery ------------------------------
(***************************************************************************)
(* Progressive disclosure: the loop of a structured call in core/llm.py    *)
(* that lets the model ask for discoveries before it answers, the engine   *)
(* and the session that serve one (core/discovery/discovery_engine.py and  *)
(* discovery_session.py), and the table of refined contexts they share in  *)
(* core/cache.py.  Several calls run at once: the awaits of the code       *)
(* (drafting a plan, reading the cache, each step, storing, cleaning) are  *)
(* the places where another call may step in.                              *)
(*                                                                         *)
(* An answer is abstracted to what the engine looks at before it stores    *)
(* one: whether all its steps succeeded.                                   *)
(***************************************************************************)
EXTENDS Explorers

CONSTANTS
  Callers,       \* structured calls in flight, one discovery at a time each
  Offers,        \* <<kind, target, goal>> triples the model may ask for
  LoopLimit,     \* discovery.max_loop_iterations
  StepLimit,     \* discovery.max_session_steps
  MaxEntries     \* CACHE_MAX_ENTRIES

None == "none"
Absent == <<None, None, None>>

ASSUME DiscoveryBounds ==
  /\ LoopLimit \in Nat \ {0} /\ StepLimit \in Nat \ {0} /\ MaxEntries \in Nat \ {0}
  /\ \A offer \in Offers : offer[1] \in Kinds
  /\ Absent \notin Offers
  /\ IsFiniteSet(Callers)

VARIABLES
  calls,     \* [Callers -> the state of the call]
  cache      \* the stored answers, at most one per signature

vars == <<calls, cache>>

Phases  == {"thinking", "planning", "looking", "running", "storing", "counting", "cleaning",
            "answered"}
\* An answer: OK when all its steps succeeded.
Answer  == {"OK", "flawed"}
Entries == [sig : {Signature(o[1], o[2], o[3]) : o \in Offers}, answer : Answer]

Fresh == [phase |-> "thinking", loops |-> 0, last |-> Absent, blocked |-> {},
          offer |-> Absent, plan |-> << >>, found |-> "OK", told |-> None]

Init == calls = [c \in Callers |-> Fresh] /\ cache = {}

Kind(r)   == r.offer[1]
Target(r) == r.offer[2]
Goal(r)   == r.offer[3]
Sig(r)    == Signature(Kind(r), Target(r), Goal(r))

\* Nothing about the registry or the last mission is cached, nor a free goal.
MayCache(r) ==
  /\ Kind(r) # "registry"
  /\ Target(r) # "last_mission"
  /\ Goal(r) \notin Goals[Kind(r)].free

At(c, phase) == calls[c].phase = phase
Goto(c, r)   == calls' = [calls EXCEPT ![c] = r]

-----------------------------------------------------------------------------
(* The loop of the call *)

Thinks(c) == At(c, "thinking") /\ calls[c].loops < LoopLimit

\* The model gives its final answer, if need be on the last try, without
\* disclosure, once the iterations are spent.
Conclude(c) ==
  /\ At(c, "thinking")
  /\ Goto(c, [Fresh EXCEPT !.phase = "answered"]) /\ UNCHANGED cache

\* The model asks for a kind that was disabled for this call.
AskBlocked(c, offer) ==
  /\ Thinks(c) /\ offer[1] \in calls[c].blocked
  /\ Goto(c, [calls[c] EXCEPT !.loops = @ + 1, !.told = None])
  /\ UNCHANGED cache

\* The very request it was just given the answer of: the kind is disabled.
AskAgain(c, offer) ==
  /\ Thinks(c) /\ offer[1] \notin calls[c].blocked
  /\ offer = calls[c].last
  /\ Goto(c, [calls[c] EXCEPT !.loops = @ + 1, !.blocked = @ \cup {offer[1]},
                              !.told = None])
  /\ UNCHANGED cache

\* A slip: only the requests the code refuses spend an iteration.
AskUncounted(c, offer) ==
  /\ Thinks(c) /\ offer[1] \notin calls[c].blocked
  /\ offer # calls[c].last
  /\ Goto(c, [calls[c] EXCEPT !.phase = "planning", !.offer = offer,
                              !.told = None])
  /\ UNCHANGED cache

Ask(c, offer) ==
  /\ Thinks(c) /\ offer[1] \notin calls[c].blocked
  /\ offer # calls[c].last
  /\ Goto(c, [calls[c] EXCEPT !.phase = "planning", !.loops = @ + 1, !.offer = offer,
                              !.told = None])
  /\ UNCHANGED cache

-----------------------------------------------------------------------------
(* One discovery *)

Forget(r) == [r EXCEPT !.phase = "thinking", !.offer = Absent, !.plan = << >>,
                       !.found = "OK"]

\* The call thinks again with an answer; an error leaves last as it was.  A
\* request that may be repeated is compared with nothing.
Answered(r) ==
  [Forget(r) EXCEPT !.last = IF AllowsSuccessiveCalls(Kind(r)) THEN Absent ELSE r.offer]

\* The explorer drafts a plan.
Draft(c) ==
  /\ At(c, "planning")
  /\ \E plan \in Plans(Kind(calls[c]), Goal(calls[c]), Target(calls[c])) :
       Goto(c, [calls[c] EXCEPT !.phase = "looking", !.plan = plan])
  /\ UNCHANGED cache

\* It refuses the request, or the model that drafts for it fails.
DraftFails(c) ==
  /\ At(c, "planning") /\ Kind(calls[c]) \notin {"files", "world"}
  /\ Goto(c, Forget(calls[c])) /\ UNCHANGED cache

\* A cached answer is returned as it is, before its target is checked.
Hit(c) ==
  /\ At(c, "looking") /\ MayCache(calls[c])
  /\ \E entry \in cache :
       /\ entry.sig = Sig(calls[c])
       /\ Goto(c, [Answered(calls[c]) EXCEPT !.told = entry.answer])
  /\ UNCHANGED cache

\* Without one a session starts; it will run no more than StepLimit steps.
Miss(c) ==
  LET r == calls[c]
      n == IF Len(r.plan) < StepLimit THEN Len(r.plan) ELSE StepLimit IN
  /\ At(c, "looking")
  /\ MayCache(r) => \A entry \in cache : entry.sig # Sig(r)
  /\ Goto(c, IF ValidTarget(Kind(r), Target(r))
             THEN [r EXCEPT !.phase = "running", !.plan = SubSeq(@, 1, n)] ELSE Forget(r))
  /\ UNCHANGED cache

\* An answer without a "success" key counts as failed.
Gather(found, outcome) == IF outcome = "Ok" THEN found ELSE "flawed"

Step(c) ==
  LET r == calls[c] IN
  /\ At(c, "running") /\ r.plan # << >>
  /\ LET step == Head(r.plan) IN
     /\ step = Semantic \/ step \in Tools[Kind(r)]
     /\ \E outcome \in IF step = Semantic THEN Keyed ELSE Answers(Kind(r), step) :
          Goto(c, [r EXCEPT !.plan = Tail(@), !.found = Gather(@, outcome)])
  /\ UNCHANGED cache

\* A step that names no tool of the explorer raises: the session answers with
\* the error, and the engine stores nothing.
StepRaises(c) ==
  LET r == calls[c] IN
  /\ At(c, "running") /\ r.plan # << >>
  /\ Head(r.plan) # Semantic /\ Head(r.plan) \notin Tools[Kind(r)]
  /\ Goto(c, Answered(r))
  /\ UNCHANGED cache

\* A slip: whatever the session found is worth storing.
AnythingGoes(r) == MayCache(r)

\* An answer worth storing; that the ceiling cut its plan short, or that it has
\* no step at all, does not matter.
WorthStoring(r) == MayCache(r) /\ r.found = "OK"

SessionEnds(c) ==
  LET r == calls[c] IN
  /\ At(c, "running") /\ r.plan = << >>
  /\ Goto(c, IF WorthStoring(r) THEN [r EXCEPT !.phase = "storing"]
             ELSE Answered(r))
  /\ UNCHANGED cache

-----------------------------------------------------------------------------
(* The table: CacheManager *)

\* A slip: the new answer joins the old one of the same signature.
PutBeside(sig, answer) == cache \cup {[sig |-> sig, answer |-> answer]}

Put(sig, answer) ==
  {entry \in cache : entry.sig # sig} \cup {[sig |-> sig, answer |-> answer]}

Store(c) ==
  /\ At(c, "storing")
  /\ cache' = Put(Sig(calls[c]), calls[c].found)
  /\ Goto(c, [calls[c] EXCEPT !.phase = "counting"])

Excess == IF Cardinality(cache) > MaxEntries THEN Cardinality(cache) - MaxEntries ELSE 0

\* The table is counted when the insertion is over, and cleaned only then.
Count(c) ==
  /\ At(c, "counting")
  /\ Goto(c, IF Excess = 0 THEN Answered(calls[c]) ELSE [calls[c] EXCEPT !.phase = "cleaning"])
  /\ UNCHANGED cache

\* A slip: cleanup lets one entry too many stay.
LooseTrim(c) ==
  /\ At(c, "cleaning")
  /\ \E out \in SUBSET cache :
       /\ Cardinality(out) = IF Excess = 0 THEN 0 ELSE Excess - 1
       /\ cache' = cache \ out
  /\ Goto(c, Answered(calls[c]))

\* Cleanup counts again.  The least recently used entries go, as far as the
\* seconds of last_used_at tell them apart: any may be.
Trim(c) ==
  /\ At(c, "cleaning")
  /\ \E out \in SUBSET cache :
       Cardinality(out) = Excess /\ cache' = cache \ out
  /\ Goto(c, Answered(calls[c]))

\* The host empties the table.
ClearAll == cache # {} /\ cache' = {} /\ UNCHANGED calls

-----------------------------------------------------------------------------
Proceed(c) ==
  \/ Conclude(c)
  \/ \E offer \in Offers :
       \/ AskBlocked(c, offer)
       \/ AskAgain(c, offer)
       \/ Ask(c, offer)
  \/ Draft(c) \/ DraftFails(c) \/ Hit(c) \/ Miss(c)
  \/ Step(c) \/ StepRaises(c) \/ SessionEnds(c) \/ Store(c) \/ Count(c) \/ Trim(c)

Done == (\A c \in Callers : At(c, "answered")) /\ UNCHANGED vars

Next == (\E c \in Callers : Proceed(c)) \/ ClearAll \/ Done
Spec == Init /\ [][Next]_vars

\* Every await of the code comes back, so a call that can move moves.
FairSpec == Spec /\ \A c \in Callers : WF_vars(Proceed(c))

-----------------------------------------------------------------------------
CallOK(r) ==
  /\ r.phase \in Phases
  /\ r.loops \in 0 .. LoopLimit
  /\ r.last \in Offers \cup {Absent} /\ r.offer \in Offers \cup {Absent}
  /\ r.blocked \subseteq Kinds
  /\ r.found \in Answer /\ r.told \in Answer \cup {None}

\* The state of every call is well formed, and the table holds at most one
\* answer per signature (INSERT OR REPLACE in CacheManager.set).
TypeOK ==
  /\ DOMAIN calls = Callers
  /\ \A c \in Callers : CallOK(calls[c])
  /\ cache \subseteq Entries
  /\ \A e, f \in cache : e.sig = f.sig => e = f

\* A call is never served the failure of another: an answer that comes from the
\* cache is the answer of a session whose steps all succeeded
\* (DiscoveryEngine.start_discovery, "Ne pas mettre en cache si ...").
FailuresStayPrivate ==
  \A c \in Callers : calls[c].told # "flawed"

\* The table outgrows its limit only by the sessions between their insertion
\* and their cleanup (CacheManager.set, cleanup).
CacheStaysBounded ==
  Cardinality(cache) <= MaxEntries + Cardinality({c \in Callers : At(c, "counting") \/ At(c, "cleaning")})

\* Every structured call ends with an answer, whatever it asks for on the way
\* (Llm.generate_structured, "SECOURS DE SÉCURITÉ GARANTI").
CallsGetAnswers == \A c \in Callers : <>At(c, "answered")
==============================================================================
