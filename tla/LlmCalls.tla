------------------------------ MODULE LlmCalls ------------------------------
(***************************************************************************)
(* Calls to the models: core/llm.py over the providers' rotation of keys     *)
(* (providers/).  Each call has an Llm of its own, with its current model;   *)
(* the providers are shared by every call of the process: their pool of      *)
(* keys, and the fields model_name and call_epoch, which each call writes    *)
(* before the task that reads them has started.                              *)
(*                                                                           *)
(* A call is a text (generate_text), a plain structured call                 *)
(* (_generate_structured_legacy) or one that may ask for investigations      *)
(* (generate_structured's loop over _call_llm_with_schema).                  *)
(***************************************************************************)
EXTENDS KeyPool, Vendors

CONSTANTS
  Calls,        \* the calls that are looked at, among others
  Models,
  Providers,
  ProviderOf,   \* the provider of a model
  ModelOf,      \* the model the Llm of a call was made with
  Ranking,      \* the models that meet the requirement, the best one first
  Kinds,        \* the kinds a call may be of
  VendorsOf,    \* the vendors a provider may be
  Signatures,   \* investigations a model may ask for
  TypeOf,       \* the data type of an investigation
  Repeatable,   \* data types whose explorer allows successive calls
  MaxAttempts,  \* LLM_STRUCTURED_MAX_ATTEMPTS
  MaxIterations \* the limit of the loop of investigations

ASSUME LlmAssumption ==
  /\ Keys # {}
  /\ ProviderOf \in [Models -> Providers] /\ ModelOf \in [Calls -> Models]
  /\ Ranking \in Seq(Models) /\ Ranking # << >>
  /\ Kinds \subseteq {"text", "plain", "disclosing"}
  /\ VendorsOf \in [Providers -> SUBSET TheVendors]
  /\ TypeOf \in [Signatures -> STRING]
  /\ MaxAttempts \in Nat \ {0} /\ MaxIterations \in Nat \ {0}

Nothing == "none"

VARIABLES
  vendor,      \* which vendor a provider is
  pool,        \* its pool of keys
  model_name,  \* its field: the model of the request to build
  call_epoch,  \* its field: whether the epoch noted last is still the current one
  flag,        \* the cancel flag of the runtime state
  call

vars == <<vendor, pool, model_name, call_epoch, flag, call>>

Pcs == {"over", "scheduled", "wire", "asleep", "back", "pause", "probing"}

Call == [pc       : Pcs,
         kind     : {"text", "plain", "disclosing"},
         last_try : BOOLEAN,        \* the final call, without investigations
         model    : Models,         \* the current model of its Llm
         carried  : Models,         \* the model its request names
         key      : Keys \cup {NoKey},
         tries    : 0..Cardinality(Keys),
         attempt  : 0..MaxAttempts,
         excluded : SUBSET Models,
         iteration: 0..MaxIterations,
         last     : Signatures \cup {Nothing},
         wanted   : Signatures \cup {Nothing},
         barred   : SUBSET {TypeOf[s] : s \in Signatures},
         current  : BOOLEAN,        \* the epoch has not moved since it was noted
         outcome  : Outcomes \cup {Nothing, "failed"}]

\* The values the variables take; the order of a pool lists each of its keys once.
TypeOK ==
  /\ vendor \in [Providers -> TheVendors]
  /\ \A p \in Providers : IsPool(pool[p])
  /\ model_name \in [Providers -> Models]
  /\ call_epoch \in [Providers -> BOOLEAN]
  /\ flag \in BOOLEAN
  /\ call \in [Calls -> Call]

Structured(r) == r.kind # "text"
Looping(r)    == r.kind = "disclosing" /\ ~r.last_try
\* The legacy call neither falls back, nor retries, nor watches for a stop.
Legacy(r)     == r.kind = "plain" \/ r.last_try

Orders == {o \in [1..Cardinality(Keys) -> Keys] : IsOrder(o)}

Init ==
  /\ vendor \in {v \in [Providers -> TheVendors] : \A p \in Providers : v[p] \in VendorsOf[p]}
  /\ pool = [p \in Providers |-> FreshPool(CHOOSE o \in Orders : TRUE)]
  /\ model_name \in {f \in [Providers -> Models] : \A p \in Providers : ProviderOf[f[p]] = p}
  /\ call_epoch = [p \in Providers |-> TRUE]
  /\ flag = FALSE
  /\ call = [c \in Calls |->
               [pc |-> "over", kind |-> "text", last_try |-> FALSE, model |-> ModelOf[c],
                carried |-> ModelOf[c], key |-> NoKey, tries |-> 0, attempt |-> 0,
                excluded |-> {}, iteration |-> 0, last |-> Nothing, wanted |-> Nothing,
                barred |-> {}, current |-> TRUE, outcome |-> "failed"]]

-----------------------------------------------------------------------------
(* Choosing a model: provider_manager.find_best_model_for_requirement.       *)

Candidates(excluded) ==
  {m \in Models : /\ m \notin excluded
                  /\ m \in {Ranking[i] : i \in DOMAIN Ranking}
                  /\ HasAvailableKeys(pool[ProviderOf[m]])}

Best(excluded) ==
  Ranking[CHOOSE i \in DOMAIN Ranking :
            /\ Ranking[i] \in Candidates(excluded)
            /\ \A j \in 1..(i - 1) : Ranking[j] \notin Candidates(excluded)]

-----------------------------------------------------------------------------
Provider(r) == ProviderOf[r.model]

CancellationRequested(r) == flag \/ ~r.current

Over(r, outcome) ==
  [r EXCEPT !.pc = "over", !.outcome = outcome, !.key = NoKey, !.tries = 0,
            !.attempt = 0, !.excluded = {}, !.iteration = 0, !.last = Nothing,
            !.wanted = Nothing, !.barred = {}, !.last_try = FALSE,
            !.carried = r.model]

EndsAs(c, r, outcome) ==
  /\ call' = [call EXCEPT ![c] = Over(r, outcome)]
  /\ UNCHANGED <<model_name, call_epoch>>

\* The fields of the provider are written and the task that will read them is
\* created; a structured call the provider cannot take fails here.
Asks(c, r) ==
  LET p == Provider(r) IN
  /\ model_name' = [model_name EXCEPT ![p] = r.model]
  /\ call_epoch' = [call_epoch EXCEPT ![p] = TRUE]
  /\ call' = [call EXCEPT ![c] =
       IF Structured(r) /\ ~vendor[p].structured
       THEN Over([r EXCEPT !.current = TRUE], "failed")
       ELSE [r EXCEPT !.pc = "scheduled", !.current = TRUE, !.outcome = Nothing]]

\* The next iteration of the loop of investigations, or its final call.
NextIteration(r) ==
  LET again == [r EXCEPT !.attempt = 0, !.excluded = {}, !.wanted = Nothing]
  IN IF r.iteration < MaxIterations THEN [again EXCEPT !.iteration = @ + 1]
     ELSE [again EXCEPT !.last_try = TRUE]

Begin(c) ==
  /\ call[c].pc = "over"
  /\ \E kind \in Kinds :
       Asks(c, [call[c] EXCEPT !.kind = kind,
                               !.iteration = IF kind = "disclosing" THEN 1 ELSE 0])
  /\ UNCHANGED <<vendor, pool, flag>>

-----------------------------------------------------------------------------
(* The provider's rotation of keys: one request after the other.             *)

Back(r, outcome) ==
  [r EXCEPT !.pc = "back", !.outcome = outcome, !.key = NoKey, !.tries = 0, !.carried = r.model]

Returns(c, outcome) == call' = [call EXCEPT ![c] = Back(@, outcome)]

\* check_cancelled compares with what the last caller of the provider noted.
CheckCancelled(p) == flag \/ ~call_epoch[p]

\* The model a request names: a payload is built when the task starts, while
\* the SDK is given the field for each request.
Named(c, p) ==
  IF vendor[p].sdk \/ call[c].pc = "scheduled" THEN model_name[p] ELSE call[c].carried

Send(c) ==
  LET p == Provider(call[c])
      k == ActiveKey(pool[p])
  IN /\ call[c].pc \in {"scheduled", "asleep"}
     /\ ~CheckCancelled(p) /\ call[c].tries < Cardinality(Keys) /\ k # NoKey
     /\ call' = [call EXCEPT ![c].pc = "wire", ![c].key = k,
                             ![c].carried = Named(c, p)]
     /\ UNCHANGED <<vendor, pool, model_name, call_epoch, flag>>

\* The loop is left before a request.
GiveUp(c) ==
  LET p == Provider(call[c]) IN
  /\ call[c].pc \in {"scheduled", "asleep"}
  /\ \/ CheckCancelled(p) /\ Returns(c, "cancelled")
     \/ /\ ~CheckCancelled(p)
        /\ call[c].tries = Cardinality(Keys) \/ ActiveKey(pool[p]) = NoKey
        /\ Returns(c, "quota")
     \/ /\ vendor[p].sdk /\ call[c].tries > 0   \* the budget of the rotation
        /\ Returns(c, "broken")
  /\ UNCHANGED <<vendor, pool, model_name, call_epoch, flag>>

\* A slip: a key that failed is not counted.
TryNextKeyUncounted(c, p, next, outcome) ==
  /\ pool' = [pool EXCEPT ![p] = next]
  /\ IF HasAvailableKeys(next)
     THEN call' = [call EXCEPT ![c].key = NoKey, ![c].pc = "asleep"]
     ELSE Returns(c, outcome)

\* A key failed: the next one after a pause, or the end of the rotation.
TryNextKey(c, p, next, outcome) ==
  /\ pool' = [pool EXCEPT ![p] = next]
  /\ IF HasAvailableKeys(next)
     THEN call' = [call EXCEPT ![c].tries = @ + 1, ![c].key = NoKey, ![c].pc = "asleep"]
     ELSE Returns(c, outcome)

Limited(c) ==
  LET p == Provider(call[c])
      next == NoteRateLimit(pool[p], call[c].key)
  IN /\ call[c].pc = "wire"
     /\ IF vendor[p].sdk /\ CheckCancelled(p)
        THEN pool' = [pool EXCEPT ![p] = next] /\ Returns(c, "cancelled")
        ELSE TryNextKey(c, p, next, "quota")
     /\ UNCHANGED <<vendor, model_name, call_epoch, flag>>

Lost(c) ==
  LET p == Provider(call[c]) IN
  /\ call[c].pc = "wire"
  /\ IF vendor[p].rotates
     THEN TryNextKey(c, p, Rested(pool[p], call[c].key, NetworkRest), "network")
     ELSE Returns(c, "network") /\ UNCHANGED pool
  /\ UNCHANGED <<vendor, model_name, call_epoch, flag>>

Refused(c) ==
  LET p == Provider(call[c]) IN
  /\ call[c].pc = "wire"
  /\ pool' = [pool EXCEPT ![p] = Rested(@, call[c].key, AuthRest)]
  /\ Returns(c, "broken")
  /\ UNCHANGED <<vendor, model_name, call_epoch, flag>>

\* The key that served leads from now on; within the SDK's request the answer is
\* validated first.
Served(c) ==
  LET p == Provider(call[c]) IN
  /\ call[c].pc = "wire"
  /\ \E content \in Contents :
       LET outcome == IF Structured(call[c]) THEN vendor[p].reads[content] ELSE "answer" IN
       /\ pool' = IF vendor[p].sdk /\ outcome \notin {"answer", "asks"} THEN pool
                  ELSE [pool EXCEPT ![p] = Promoted(@, call[c].key)]
       /\ IF outcome # "asks" THEN Returns(c, outcome)
          ELSE \E s \in Signatures :
                 call' = [call EXCEPT ![c] = [Back(@, "asks") EXCEPT !.wanted = s]]
  /\ UNCHANGED <<vendor, model_name, call_epoch, flag>>

\* Other errors of the service, and silence until the time-out; a structured
\* call takes one whose text speaks of a time-out, or of nothing, for transient.
Broken(c) ==
  /\ call[c].pc = "wire"
  /\ \E outcome \in {"broken", "transient"} :
       (outcome = "transient" => Structured(call[c])) /\ Returns(c, outcome)
  /\ UNCHANGED <<vendor, pool, model_name, call_epoch, flag>>

Reply(c) ==
  \E reply \in Replies :
    LET v == vendor[Provider(call[c])] IN
    CASE reply \in v.limits                        -> Limited(c)
      [] reply = "lost"                            -> Lost(c)
      [] reply = "401"                             -> Refused(c)
      [] reply = "200"                             -> Served(c)
      [] OTHER                                     -> Broken(c)

\* _await_cancellable: every 100 ms, while the task is not done.
Poll(c) ==
  /\ call[c].pc \in {"scheduled", "wire", "asleep"} /\ ~Legacy(call[c])
  /\ CancellationRequested(call[c])
  /\ EndsAs(c, call[c], "cancelled")
  /\ UNCHANGED <<vendor, pool, flag>>

-----------------------------------------------------------------------------
(* What the Llm does with the outcome of a task.                             *)

Done(c, outcomes) == call[c].pc = "back" /\ call[c].outcome \in outcomes

\* The answer of a call that was stopped meanwhile is dropped; the legacy call
\* does not look.
AnswerComes(c) ==
  LET r == call[c] IN
  /\ Done(c, {"answer", "asks"})
  /\ Legacy(r) \/ CancellationRequested(r) \/ r.outcome = "answer"
  /\ EndsAs(c, r, IF ~Legacy(r) /\ CancellationRequested(r) THEN "cancelled"
                  ELSE IF r.last_try THEN "answer" ELSE r.outcome)
  /\ UNCHANGED <<vendor, pool, flag>>

\* The same investigation twice in a row bars its data type.
InvestigationAsked(c) ==
  LET r    == call[c]
      type == TypeOf[r.wanted]
      again == r.last = r.wanted /\ type \notin Repeatable
  IN /\ Done(c, {"asks"}) /\ Looping(r) /\ ~CancellationRequested(r)
     /\ IF type \in r.barred \/ again
        THEN Asks(c, NextIteration([r EXCEPT !.barred = @ \cup {type}]))
        ELSE /\ call' = [call EXCEPT ![c].pc = "probing"]
             /\ UNCHANGED <<model_name, call_epoch>>
     /\ UNCHANGED <<vendor, pool, flag>>

\* The explorer and its session answer, fail, or are stopped.
Investigated(c) ==
  LET r == call[c] IN
  /\ r.pc = "probing"
  /\ \/ Asks(c, NextIteration([r EXCEPT !.last = r.wanted]))
     \/ Asks(c, NextIteration(r))
     \/ CancellationRequested(r) /\ EndsAs(c, r, "cancelled")
  /\ UNCHANGED <<vendor, pool, flag>>

\* A slip: the model whose quota is spent is not excluded.
FallbackKeepsModel(c, r, excluded) ==
  IF Candidates(r.excluded) # {}
  THEN Asks(c, [r EXCEPT !.excluded = excluded, !.model = Best(r.excluded)])
  ELSE EndsAs(c, r, "failed")

\* _resolve_fallback: the best of the models that are left.
Fallback(c, r, excluded) ==
  IF Candidates(excluded) # {}
  THEN Asks(c, [r EXCEPT !.excluded = excluded, !.model = Best(excluded)])
  ELSE EndsAs(c, r, "failed")

\* The next of the attempts of a structured call.
NextAttempt(r) == [r EXCEPT !.attempt = @ + 1]
LastAttempt(r) == r.attempt = MaxAttempts - 1

\* A fallback is an attempt too: after the last one the loop ends, and the
\* function with it, without an answer.
QuotaSpent(c) ==
  LET r        == call[c]
      excluded == r.excluded \cup {r.model}
  IN /\ Done(c, {"quota"})
     /\ IF Legacy(r) THEN EndsAs(c, r, "failed")
        ELSE IF ~Structured(r) THEN Fallback(c, [r EXCEPT !.attempt = 0], excluded)
        ELSE IF ~LastAttempt(r) THEN Fallback(c, NextAttempt(r), excluded)
        ELSE IF Candidates(excluded) = {} THEN EndsAs(c, r, "failed")
        ELSE EndsAs(c, [r EXCEPT !.model = Best(excluded)], Nothing)
     /\ UNCHANGED <<vendor, pool, flag>>

\* An answer that fails validation is asked for again, with the reasons.
Invalid(c) ==
  LET r == call[c] IN
  /\ Done(c, {"invalid"})
  /\ IF Legacy(r) \/ LastAttempt(r) THEN EndsAs(c, r, "failed") ELSE Asks(c, NextAttempt(r))
  /\ UNCHANGED <<vendor, pool, flag>>

\* Errors that are tried again after a pause: those of the network, and an
\* answer to a structured call that is no JSON.  Nothing watches the pause.
Transient(c) ==
  LET r    == call[c]
      more == IF Structured(r) THEN ~LastAttempt(r) ELSE r.attempt = 0
  IN /\ Done(c, {"network", "transient"})
     /\ IF Legacy(r) \/ ~more THEN EndsAs(c, r, "failed")
        ELSE /\ call' = [call EXCEPT ![c].pc = "pause", ![c].attempt = @ + 1]
             /\ UNCHANGED <<model_name, call_epoch>>
     /\ UNCHANGED <<vendor, pool, flag>>

\* A text tries its request again as it is; a structured call starts over.
Resume(c) ==
  LET r == call[c] IN
  /\ r.pc = "pause"
  /\ IF Structured(r) THEN Asks(c, r)
     ELSE /\ call' = [call EXCEPT ![c].pc = "scheduled"]
          /\ UNCHANGED <<model_name, call_epoch>>
  /\ UNCHANGED <<vendor, pool, flag>>

Raised(c) ==
  /\ Done(c, {"broken", "cancelled"})
  /\ EndsAs(c, call[c], IF call[c].outcome = "cancelled" THEN "cancelled" ELSE "failed")
  /\ UNCHANGED <<vendor, pool, flag>>

-----------------------------------------------------------------------------
(* The conversation around the calls, and time.                              *)

EpochMoves ==
  /\ call' = [c \in Calls |-> [call[c] EXCEPT !.current = FALSE]]
  /\ call_epoch' = [p \in Providers |-> FALSE]
  /\ UNCHANGED <<vendor, pool, model_name>>

Stop    == flag' = TRUE /\ EpochMoves
NewTurn == flag' = FALSE /\ EpochMoves

Tick ==
  /\ pool' = [p \in Providers |-> Elapsed(pool[p])]
  /\ pool' # pool
  /\ UNCHANGED <<vendor, model_name, call_epoch, flag, call>>

Step(c) ==
  \/ Send(c) \/ GiveUp(c) \/ Reply(c) \/ Poll(c)
  \/ AnswerComes(c) \/ InvestigationAsked(c) \/ Investigated(c)
  \/ QuotaSpent(c) \/ Invalid(c) \/ Transient(c) \/ Resume(c) \/ Raised(c)

\* The other calls of the process use the same providers: they write the
\* fields, and what their requests meet changes the pool, at any time.
OthersAsk ==
  \E m \in Models :
    /\ model_name' = [model_name EXCEPT ![ProviderOf[m]] = m]
    /\ call_epoch' = [call_epoch EXCEPT ![ProviderOf[m]] = TRUE]
    /\ UNCHANGED <<vendor, pool, flag, call>>

OthersUseKeys ==
  \E p \in Providers, k \in Keys :
    /\ pool' \in {[pool EXCEPT ![p] = NoteRateLimit(@, k)],
                  [pool EXCEPT ![p] = Rested(@, k, NetworkRest)],
                  [pool EXCEPT ![p] = Rested(@, k, AuthRest)],
                  [pool EXCEPT ![p] = Promoted(@, k)]}
    /\ UNCHANGED <<vendor, model_name, call_epoch, flag, call>>

Others == OthersAsk \/ OthersUseKeys

Next == Stop \/ NewTurn \/ Tick \/ Others \/ \E c \in Calls : Begin(c) \/ Step(c)

Spec == Init /\ [][Next]_vars

\* The event loop runs every task that can run, pauses end, and a request is
\* answered, fails, or meets a time-out.
FairSpec == Spec /\ \A c \in Calls : WF_vars(Step(c))

-----------------------------------------------------------------------------
(* Properties.                                                               *)

\* A call does not go back to a model that told it that its quota is spent
\* (excluded_models), although its keys may be available again.
SpentModelsAreLeft ==
  \A c \in Calls : call[c].model \notin call[c].excluded

\* What the loop of investigations returns asks for none: its caller would take
\* the request for a decision.
FinalAnswersAskNothing ==
  \A c \in Calls : call[c].pc = "over" /\ call[c].kind = "disclosing"
                     => call[c].outcome # "asks"

\* Every call ends, with an answer or an error.
CallsEnd == \A c \in Calls : call[c].pc # "over" ~> call[c].pc = "over"
=============================================================================
