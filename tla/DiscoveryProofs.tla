--------------------------- MODULE DiscoveryProofs ---------------------------
(***************************************************************************)
(* What holds of the discoveries and of the table they share for every       *)
(* number of calls in flight, whatever explorers answer and plans say, and   *)
(* for every limit of the table.  The table can only be as good as what the  *)
(* sessions put there: a call on its way to storing has found no failure,    *)
(* from the end of its session, over the awaits, to the insertion.           *)
(***************************************************************************)
EXTENDS Discovery, FiniteSetTheorems, TLAPS

Fields == {"phase", "loops", "last", "blocked", "offer", "plan", "found", "told"}

\* A call: busy with an offer it may have, no failure on its way to the table.
Sound(r) ==
  /\ DOMAIN r = Fields
  /\ CallOK(r)
  /\ r.told # "flawed"
  /\ r.phase \notin {"thinking", "answered"} => r.offer \in Offers
  /\ r.phase = "storing" => r.found = "OK"

\* What is stored can be told to any call, and there is one answer to give.
TableSound ==
  /\ IsFiniteSet(cache)
  /\ cache \subseteq Entries
  /\ \A e \in cache : e.answer = "OK"
  /\ \A e, f \in cache : e.sig = f.sig => e = f

Inv ==
  /\ DOMAIN calls = Callers
  /\ \A c \in Callers : Sound(calls[c])
  /\ TableSound

-----------------------------------------------------------------------------
(* How a call moves on.                                                      *)

LEMMA CallMoves ==
  ASSUME Inv, NEW c \in Callers, NEW r, Sound(r), Goto(c, r), TableSound'
  PROVE  Inv'
<1>1. DOMAIN calls' = Callers /\ calls'[c] = r /\ \A d \in Callers \ {c} : calls'[d] = calls[d]
  BY DEF Goto, Inv
<1>2. ASSUME NEW d \in Callers PROVE Sound(calls'[d])
  BY <1>1 DEF Inv
<1> QED
  BY <1>1, <1>2, Zenon DEF Inv, Sound, CallOK

LEMMA TableStays == ASSUME Inv, UNCHANGED cache PROVE TableSound'
BY DEF Inv, TableSound

LEMMA Forgetting ==
  ASSUME NEW r, Sound(r)
  PROVE  /\ Sound(Forget(r))
         /\ r.offer \in Offers => Sound(Answered(r))
         /\ r.offer \in Offers => Sound([Answered(r) EXCEPT !.told = "OK"])
<1> PICK f : f = Forget(r)
  OBVIOUS
<1>1. /\ DOMAIN f = Fields /\ f.phase = "thinking" /\ f.loops = r.loops /\ f.last = r.last
      /\ f.blocked = r.blocked /\ f.offer = Absent /\ f.found = "OK" /\ f.told = r.told
  BY DEF Sound, Fields, Forget
<1>2. Sound(f)
  BY <1>1 DEF Sound, CallOK, Phases, Answer
<1>3. ASSUME NEW last \in Offers \cup {Absent}
      PROVE  /\ Sound([f EXCEPT !.last = last])
             /\ Sound([[f EXCEPT !.last = last] EXCEPT !.told = "OK"])
  <2> PICK g, h : g = [f EXCEPT !.last = last] /\ h = [g EXCEPT !.told = "OK"]
    OBVIOUS
  <2>1. /\ DOMAIN g = Fields /\ g.phase = "thinking" /\ g.loops = r.loops /\ g.last = last
        /\ g.blocked = r.blocked /\ g.offer = Absent /\ g.found = "OK" /\ g.told = r.told
    BY <1>1 DEF Fields
  <2>2. /\ DOMAIN h = Fields /\ h.phase = "thinking" /\ h.loops = r.loops /\ h.last = last
        /\ h.blocked = r.blocked /\ h.offer = Absent /\ h.found = "OK" /\ h.told = "OK"
    BY <2>1 DEF Fields
  <2> QED
    BY <2>1, <2>2 DEF Sound, CallOK, Phases, Answer
<1>4. ASSUME r.offer \in Offers
      PROVE  Sound(Answered(r)) /\ Sound([Answered(r) EXCEPT !.told = "OK"])
  <2> PICK last : last = IF AllowsSuccessiveCalls(Kind(r)) THEN Absent ELSE r.offer
    OBVIOUS
  <2>1. last \in Offers \cup {Absent} /\ Answered(r) = [f EXCEPT !.last = last]
    BY <1>4 DEF Answered
  <2> QED
    BY <1>3, <2>1
<1> QED
  BY <1>2, <1>4

\* A session that goes on, up to the table.
LEMMA GoingOn ==
  ASSUME NEW r, Sound(r), r.offer \in Offers, NEW plan, NEW found \in Answer
  PROVE  /\ Sound([r EXCEPT !.phase = "looking", !.plan = plan])
         /\ Sound([r EXCEPT !.phase = "running", !.plan = plan])
         /\ r.phase = "running" => Sound([r EXCEPT !.plan = plan, !.found = found])
         /\ r.found = "OK" => Sound([r EXCEPT !.phase = "storing"])
         /\ Sound([r EXCEPT !.phase = "counting"]) /\ Sound([r EXCEPT !.phase = "cleaning"])
<1>1. ASSUME NEW x, DOMAIN x = Fields, x.loops = r.loops, x.last = r.last,
             x.blocked = r.blocked, x.offer = r.offer, x.told = r.told, x.found \in Answer,
             x.phase \in Phases, x.phase = "storing" => x.found = "OK"
      PROVE  Sound(x)
  BY <1>1 DEF Sound, CallOK
<1>2. ASSUME NEW x, x = [r EXCEPT !.phase = "looking", !.plan = plan] PROVE Sound(x)
  BY <1>1, <1>2 DEF Sound, CallOK, Fields, Phases
<1>3. ASSUME NEW x, x = [r EXCEPT !.phase = "running", !.plan = plan] PROVE Sound(x)
  BY <1>1, <1>3 DEF Sound, CallOK, Fields, Phases
<1>4. ASSUME NEW x, x = [r EXCEPT !.plan = plan, !.found = found], r.phase = "running"
      PROVE  Sound(x)
  BY <1>1, <1>4 DEF Sound, CallOK, Fields, Phases
<1>5. ASSUME NEW x, x = [r EXCEPT !.phase = "storing"], r.found = "OK" PROVE Sound(x)
  BY <1>1, <1>5 DEF Sound, CallOK, Fields, Phases
<1>6. ASSUME NEW phase \in {"counting", "cleaning"}, NEW x, x = [r EXCEPT !.phase = phase]
      PROVE  Sound(x)
  BY <1>1, <1>6 DEF Sound, CallOK, Fields, Phases
<1> QED
  BY <1>2, <1>3, <1>4, <1>5, <1>6

\* What the model asks in its loop.
LEMMA Asking ==
  ASSUME NEW r, Sound(r), r.phase = "thinking", r.loops < LoopLimit, NEW offer \in Offers
  PROVE  /\ Sound([r EXCEPT !.loops = @ + 1, !.told = None])
         /\ Sound([r EXCEPT !.loops = @ + 1, !.blocked = @ \cup {offer[1]}, !.told = None])
         /\ Sound([r EXCEPT !.phase = "planning", !.loops = @ + 1, !.offer = offer,
                            !.told = None])
<1>1. r.loops + 1 \in 0..LoopLimit /\ r.blocked \cup {offer[1]} \subseteq Kinds
  BY DiscoveryBounds DEF Sound, CallOK
<1>2. ASSUME NEW x, DOMAIN x = Fields, x.phase \in {"thinking", "planning"},
             x.loops = r.loops + 1, x.last = r.last, x.blocked \subseteq Kinds,
             x.offer \in {r.offer, offer}, x.phase = "planning" => x.offer = offer,
             x.found = r.found, x.told = None
      PROVE  Sound(x)
  BY <1>1, <1>2 DEF Sound, CallOK, Phases, None
<1>3. ASSUME NEW x, x = [r EXCEPT !.loops = @ + 1, !.told = None] PROVE Sound(x)
  BY <1>2, <1>3 DEF Sound, CallOK, Fields
<1>4. ASSUME NEW x, NEW blocked \in SUBSET Kinds,
             x = [r EXCEPT !.loops = @ + 1, !.blocked = blocked, !.told = None]
      PROVE  Sound(x)
  BY <1>2, <1>4 DEF Sound, CallOK, Fields
<1>5. ASSUME NEW x, x = [r EXCEPT !.phase = "planning", !.loops = @ + 1, !.offer = offer,
                                  !.told = None]
      PROVE  Sound(x)
  BY <1>2, <1>5 DEF Sound, CallOK, Fields
<1> QED
  BY <1>1, <1>3, <1>4, <1>5

-----------------------------------------------------------------------------
(* The table.                                                                *)

\* One answer joins, for its signature alone.
LEMMA Putting ==
  ASSUME TableSound, NEW sig \in {Signature(o[1], o[2], o[3]) : o \in Offers},
         cache' = Put(sig, "OK")
  PROVE  TableSound' /\ Cardinality(cache') <= Cardinality(cache) + 1
<1> PICK kept, entry : /\ kept = {e \in cache : e.sig # sig}
                       /\ entry = [sig |-> sig, answer |-> "OK"]
  OBVIOUS
<1>1. cache' = kept \cup {entry} /\ entry.sig = sig /\ entry.answer = "OK" /\ entry \in Entries
  BY DEF Put, Entries, Answer
<1>2. kept \in SUBSET cache /\ IsFiniteSet(cache)
  BY DEF TableSound
<1>3. IsFiniteSet(kept) /\ Cardinality(kept) <= Cardinality(cache)
  BY <1>2, FS_Subset
<1>4. /\ IsFiniteSet(cache')
      /\ Cardinality(cache') \in {Cardinality(kept), Cardinality(kept) + 1}
  BY <1>1, <1>3, FS_AddElement
<1>5. Cardinality(cache) \in Nat /\ Cardinality(kept) \in Nat
  BY <1>2, <1>3, FS_CardinalityType
<1>6. cache' \subseteq Entries /\ \A e \in cache' : e.answer = "OK"
  BY <1>1 DEF TableSound
<1>7. \A e, f \in cache' : e.sig = f.sig => e = f
  BY <1>1 DEF TableSound
<1> QED
  BY <1>3, <1>4, <1>5, <1>6, <1>7 DEF TableSound

\* What cleanup leaves is within the limit.
LEMMA Trimming ==
  ASSUME TableSound, NEW out \in SUBSET cache, Cardinality(out) = Excess,
         cache' = cache \ out
  PROVE  TableSound' /\ Cardinality(cache') <= MaxEntries
<1>1. IsFiniteSet(cache) /\ Cardinality(cache) \in Nat /\ MaxEntries \in Nat
  BY FS_CardinalityType, DiscoveryBounds DEF TableSound
<1>2. IsFiniteSet(cache') /\ Cardinality(cache') = Cardinality(cache) - Cardinality(cache \cap out)
  BY <1>1, FS_Difference
<1>3. cache \cap out = out
  OBVIOUS
<1>4. Cardinality(cache') <= MaxEntries
  BY <1>1, <1>2, <1>3 DEF Excess
<1> QED
  BY <1>2, <1>4 DEF TableSound

-----------------------------------------------------------------------------
(* The steps.                                                                *)

\* The calls between their insertion and their cleanup.
Trimmers == {c \in Callers : At(c, "counting") \/ At(c, "cleaning")}

LEMMA TrimmersCount ==
  /\ IsFiniteSet(Trimmers) /\ Cardinality(Trimmers) \in Nat
  /\ IsFiniteSet(Trimmers') /\ Cardinality(Trimmers') \in Nat
<1>1. Trimmers \in SUBSET Callers /\ Trimmers' \in SUBSET Callers /\ IsFiniteSet(Callers)
  BY DiscoveryBounds DEF Trimmers
<1> QED
  BY <1>1, FS_Subset, FS_CardinalityType

\* A step keeps the invariant and leaves the table within its bound, if it was:
\* nothing but the cleanup of a call takes it out of the trimmers.
Kept ==
  /\ Inv'
  /\ CacheStaysBounded => CacheStaysBounded'

LEMMA TableUntouched ==
  ASSUME Inv, NEW c \in Callers, NEW r, Sound(r), Goto(c, r), UNCHANGED cache,
         calls[c].phase \in {"counting", "cleaning"} <=> r.phase \in {"counting", "cleaning"}
  PROVE  Kept
<1>1. Inv'
  BY TableStays, CallMoves
<1>2. DOMAIN calls = Callers
  BY DEF Inv
<1>3. Trimmers' = Trimmers
  BY <1>2 DEF Goto, Trimmers, At
<1> QED
  BY <1>1, <1>3 DEF Kept, CacheStaysBounded, Trimmers

LEMMA ProceedStep ==
  ASSUME Inv, NEW c \in Callers, Proceed(c)
  PROVE  Kept
<1> PICK r : r = calls[c]
  OBVIOUS
<1>1. Sound(r) /\ TableSound /\ DOMAIN calls = Callers
  BY DEF Inv
<1>2. r.phase \notin {"thinking", "answered"} => r.offer \in Offers
  BY <1>1 DEF Sound
<1>3. CASE Conclude(c)
  <2> PICK x : x = [Fresh EXCEPT !.phase = "answered"]
    OBVIOUS
  <2>1. Sound(x) /\ x.phase = "answered"
    BY DiscoveryBounds DEF Sound, CallOK, Fresh, Fields, Phases, Answer, None
  <2> QED
    BY <1>3, <2>1, TableUntouched DEF Conclude, At
<1>4. ASSUME NEW offer \in Offers, AskBlocked(c, offer) \/ AskAgain(c, offer) \/ Ask(c, offer)
      PROVE  Kept
  <2>1. r.phase = "thinking" /\ r.loops < LoopLimit /\ UNCHANGED cache
    BY <1>4 DEF AskBlocked, AskAgain, Ask, Thinks, At
  <2> PICK x, y, z :
        /\ x = [r EXCEPT !.loops = @ + 1, !.told = None]
        /\ y = [r EXCEPT !.loops = @ + 1, !.blocked = @ \cup {offer[1]}, !.told = None]
        /\ z = [r EXCEPT !.phase = "planning", !.loops = @ + 1, !.offer = offer, !.told = None]
    OBVIOUS
  <2>2. Goto(c, x) \/ Goto(c, y) \/ Goto(c, z)
    BY <1>4 DEF AskBlocked, AskAgain, Ask
  <2>3. Sound(x) /\ Sound(y) /\ Sound(z)
    BY <1>1, <2>1, Asking
  <2>4. x.phase = "thinking" /\ y.phase = "thinking" /\ z.phase = "planning"
    BY <1>1, <2>1 DEF Sound, Fields
  <2> QED
    BY <2>1, <2>2, <2>3, <2>4, TableUntouched
<1>5. CASE Draft(c)
  <2>1. PICK plan : Goto(c, [r EXCEPT !.phase = "looking", !.plan = plan])
    BY <1>5 DEF Draft
  <2> PICK x : x = [r EXCEPT !.phase = "looking", !.plan = plan]
    OBVIOUS
  <2>2. r.phase = "planning" /\ UNCHANGED cache
    BY <1>5 DEF Draft, At
  <2>3. "OK" \in Answer
    BY DEF Answer
  <2>4. Sound(x) /\ x.phase = "looking"
    BY <1>1, <1>2, <2>2, <2>3, GoingOn DEF Sound, Fields
  <2> QED
    BY <2>1, <2>2, <2>4, TableUntouched
<1>6. CASE DraftFails(c)
  <2> PICK x : x = Forget(r)
    OBVIOUS
  <2>1. Sound(x) /\ x.phase = "thinking"
    BY <1>1, Forgetting DEF Forget, Sound, Fields
  <2> QED
    BY <1>6, <2>1, TableUntouched DEF DraftFails, At
<1>7. CASE Hit(c)
  <2>1. r.phase = "looking" /\ UNCHANGED cache
    BY <1>7 DEF Hit, At
  <2>2. PICK entry \in cache : Goto(c, [Answered(r) EXCEPT !.told = entry.answer])
    BY <1>7 DEF Hit
  <2>3. entry.answer = "OK"
    BY <1>1 DEF TableSound
  <2> PICK x : x = [Answered(r) EXCEPT !.told = "OK"]
    OBVIOUS
  <2>4. Sound(x)
    BY <1>1, <1>2, <2>1, Forgetting
  <2>5. x.phase = "thinking"
    BY <1>1 DEF Answered, Forget, Sound, Fields
  <2> QED
    BY <2>1, <2>2, <2>3, <2>4, <2>5, TableUntouched
<1>8. CASE Miss(c)
  <2>1. r.phase = "looking" /\ UNCHANGED cache
    BY <1>8 DEF Miss, At
  <2>2. PICK plan : \/ Goto(c, [r EXCEPT !.phase = "running", !.plan = plan])
                    \/ Goto(c, Forget(r))
    BY <1>1, <1>8 DEF Miss
  <2>3. "OK" \in Answer
    BY DEF Answer
  <2> PICK x, y : x = [r EXCEPT !.phase = "running", !.plan = plan] /\ y = Forget(r)
    OBVIOUS
  <2>4. Sound(x) /\ x.phase = "running"
    BY <1>1, <1>2, <2>1, <2>3, GoingOn DEF Sound, Fields
  <2>5. Sound(y) /\ y.phase = "thinking"
    BY <1>1, Forgetting DEF Forget, Sound, Fields
  <2> QED
    BY <2>1, <2>2, <2>4, <2>5, TableUntouched
<1>9. CASE Step(c)
  <2>1. r.phase = "running" /\ UNCHANGED cache
    BY <1>9 DEF Step, At
  <2>2. PICK outcome : Goto(c, [r EXCEPT !.plan = Tail(@), !.found = Gather(@, outcome)])
    BY <1>9 DEF Step
  <2> PICK plan, found : plan = Tail(r.plan) /\ found = Gather(r.found, outcome)
    OBVIOUS
  <2> PICK x : x = [r EXCEPT !.plan = plan, !.found = found]
    OBVIOUS
  <2>3. found \in Answer
    BY <1>1 DEF Gather, Answer, Sound, CallOK
  <2>4. Sound(x) /\ x.phase = "running"
    BY <1>1, <1>2, <2>1, <2>3, GoingOn DEF Sound, Fields
  <2>5. Goto(c, x)
    BY <1>1, <2>2 DEF Sound, Fields
  <2> QED
    BY <2>1, <2>4, <2>5, TableUntouched
<1>10. CASE StepRaises(c) \/ SessionEnds(c)
  <2>1. r.phase = "running" /\ UNCHANGED cache
    BY <1>10 DEF StepRaises, SessionEnds, At
  <2>2. \/ Goto(c, Answered(r))
        \/ r.found = "OK" /\ Goto(c, [r EXCEPT !.phase = "storing"])
    BY <1>10 DEF StepRaises, SessionEnds, WorthStoring
  <2> PICK x, y : x = Answered(r) /\ y = [r EXCEPT !.phase = "storing"]
    OBVIOUS
  <2>3. Sound(x) /\ x.phase = "thinking"
    BY <1>1, <1>2, <2>1, Forgetting DEF Answered, Forget, Sound, Fields
  <2>4. "OK" \in Answer
    BY DEF Answer
  <2>5. y.phase = "storing" /\ (r.found = "OK" => Sound(y))
    BY <1>1, <1>2, <2>1, <2>4, GoingOn DEF Sound, Fields
  <2> QED
    BY <2>1, <2>2, <2>3, <2>5, TableUntouched
<1>11. CASE Store(c)
  <2>1. r.phase = "storing" /\ r.found = "OK" /\ r.offer \in Offers
    BY <1>1, <1>2, <1>11 DEF Store, At, Sound
  <2> PICK sig, x : sig = Sig(r) /\ x = [r EXCEPT !.phase = "counting"]
    OBVIOUS
  <2>2. sig \in {Signature(o[1], o[2], o[3]) : o \in Offers}
    BY <2>1 DEF Sig, Kind, Target, Goal
  <2>3. cache' = Put(sig, "OK") /\ Goto(c, x)
    BY <1>11, <2>1 DEF Store
  <2>4. TableSound' /\ Cardinality(cache') <= Cardinality(cache) + 1
    BY <1>1, <2>2, <2>3, Putting
  <2>5. "OK" \in Answer
    BY DEF Answer
  <2>6. Sound(x) /\ x.phase = "counting"
    BY <1>1, <2>1, <2>5, GoingOn DEF Sound, Fields
  <2>7. Inv'
    BY <2>3, <2>4, <2>6, CallMoves
  <2>8. Trimmers' = Trimmers \cup {c} /\ c \notin Trimmers
    BY <1>1, <2>1, <2>3, <2>6 DEF Goto, Trimmers, At
  <2>9. Cardinality(Trimmers') = Cardinality(Trimmers) + 1
    BY <2>8, TrimmersCount, FS_AddElement
  <2>10. Cardinality(cache) \in Nat /\ Cardinality(cache') \in Nat /\ MaxEntries \in Nat
    BY <1>1, <2>4, FS_CardinalityType, DiscoveryBounds DEF TableSound
  <2>11. ASSUME CacheStaysBounded PROVE CacheStaysBounded'
    <3>1. Cardinality(cache) <= MaxEntries + Cardinality(Trimmers)
      BY <2>11 DEF CacheStaysBounded, Trimmers
    <3>2. Cardinality(cache') <= MaxEntries + Cardinality(Trimmers')
      BY <2>4, <2>9, <2>10, <3>1, TrimmersCount
    <3> QED
      BY <3>2 DEF CacheStaysBounded, Trimmers
  <2> QED
    BY <2>7, <2>11 DEF Kept
<1>12. CASE Trim(c)
  <2>1. r.phase = "cleaning"
    BY <1>12 DEF Trim, At
  <2>2. PICK out \in SUBSET cache : Cardinality(out) = Excess /\ cache' = cache \ out
    BY <1>12 DEF Trim
  <2>3. TableSound' /\ Cardinality(cache') <= MaxEntries
    BY <1>1, <2>2, Trimming
  <2> PICK x : x = Answered(r)
    OBVIOUS
  <2>4. Sound(x) /\ Goto(c, x)
    BY <1>1, <1>2, <1>12, <2>1, Forgetting DEF Trim
  <2>5. Inv'
    BY <2>3, <2>4, CallMoves
  <2>6. Cardinality(cache') \in Nat /\ MaxEntries \in Nat
    BY <2>3, FS_CardinalityType, DiscoveryBounds DEF TableSound
  <2>7. Cardinality(cache') <= MaxEntries + Cardinality(Trimmers')
    BY <2>3, <2>6, TrimmersCount
  <2> QED
    BY <2>5, <2>7 DEF Kept, CacheStaysBounded, Trimmers
<1>13. CASE Count(c)
  <2>1. r.phase = "counting" /\ r.offer \in Offers /\ UNCHANGED cache
    BY <1>2, <1>13 DEF Count, At
  <2> PICK x, y : x = Answered(r) /\ y = [r EXCEPT !.phase = "cleaning"]
    OBVIOUS
  <2>2. "OK" \in Answer
    BY DEF Answer
  <2>3. Sound(y) /\ y.phase = "cleaning"
    BY <1>1, <2>1, <2>2, GoingOn DEF Sound, Fields
  <2>4. CASE Excess = 0 /\ Goto(c, x)
    <3>1. Sound(x)
      BY <1>1, <1>2, <2>1, Forgetting
    <3>2. Inv'
      BY <2>1, <2>4, <3>1, TableStays, CallMoves
    <3>3. Cardinality(cache) \in Nat /\ MaxEntries \in Nat
      BY <1>1, FS_CardinalityType, DiscoveryBounds DEF TableSound
    <3>4. Cardinality(cache') <= MaxEntries
      BY <2>1, <2>4, <3>3 DEF Excess
    <3>5. Cardinality(cache') <= MaxEntries + Cardinality(Trimmers')
      BY <2>1, <3>3, <3>4, TrimmersCount
    <3> QED
      BY <3>2, <3>5 DEF Kept, CacheStaysBounded, Trimmers
  <2>5. CASE Goto(c, y)
    BY <2>1, <2>3, <2>5, TableUntouched
  <2> QED
    BY <1>13, <2>4, <2>5 DEF Count
<1> QED
  BY <1>3, <1>4, <1>5, <1>6, <1>7, <1>8, <1>9, <1>10, <1>11, <1>12, <1>13 DEF Proceed

LEMMA ClearingStep ==
  ASSUME Inv, ClearAll
  PROVE  Kept
<1>1. cache' = {} /\ calls' = calls
  BY DEF ClearAll
<1>2. TableSound'
  BY <1>1, FS_EmptySet DEF TableSound
<1>3. Inv'
  BY <1>1, <1>2 DEF Inv, Sound, CallOK
<1>4. Cardinality(cache') <= MaxEntries + Cardinality(Trimmers')
  BY <1>1, FS_EmptySet, TrimmersCount, DiscoveryBounds
<1> QED
  BY <1>3, <1>4 DEF Kept, CacheStaysBounded, Trimmers

LEMMA Initially == Init => Inv /\ CacheStaysBounded
<1> SUFFICES ASSUME Init PROVE Inv /\ CacheStaysBounded
  OBVIOUS
<1>1. Sound(Fresh)
  BY DiscoveryBounds DEF Sound, CallOK, Fresh, Fields, Phases, Answer, None
<1>2. TableSound
  BY FS_EmptySet DEF Init, TableSound
<1>3. Inv
  BY <1>1, <1>2 DEF Init, Inv
<1>4. Cardinality(cache) <= MaxEntries + Cardinality(Trimmers)
  BY FS_EmptySet, TrimmersCount, DiscoveryBounds DEF Init
<1> QED
  BY <1>3, <1>4 DEF CacheStaysBounded, Trimmers

LEMMA NextStep ==
  ASSUME Inv, [Next]_vars
  PROVE  Kept
<1>1. CASE UNCHANGED vars
  <2>1. Inv'
    BY <1>1 DEF vars, Inv, TableSound, Sound, CallOK
  <2>2. CacheStaysBounded => CacheStaysBounded'
    BY <1>1 DEF vars, CacheStaysBounded, At
  <2> QED
    BY <2>1, <2>2 DEF Kept
<1> QED
  BY <1>1, ProceedStep, ClearingStep DEF Next, Done

-----------------------------------------------------------------------------
(* The theorems.                                                             *)

THEOREM Invariance == Spec => []Inv
<1>1. Inv /\ [Next]_vars => Inv'
  BY NextStep DEF Kept
<1> QED
  BY <1>1, Initially, PTL DEF Spec

\* The state of every call is well formed, and the table holds at most one
\* answer per signature, whichever sessions end at once (INSERT OR REPLACE in
\* CacheManager.set).
THEOREM TypeCorrect == Spec => []TypeOK
<1>1. Inv => TypeOK
  BY DEF Inv, TypeOK, Sound, TableSound
<1> QED
  BY <1>1, Invariance, PTL

\* A call is never served the failure of another.
THEOREM FailuresAreNotShared == Spec => []FailuresStayPrivate
<1>1. Inv => FailuresStayPrivate
  BY DEF Inv, Sound, FailuresStayPrivate
<1> QED
  BY <1>1, Invariance, PTL

\* The table outgrows its limit by no more than the sessions that have inserted
\* and not cleaned up yet, however their awaits interleave.
THEOREM TheTableIsBounded == Spec => []CacheStaysBounded
<1>1. Inv /\ CacheStaysBounded /\ [Next]_vars => CacheStaysBounded'
  BY NextStep DEF Kept
<1> QED
  BY <1>1, Initially, Invariance, PTL DEF Spec
=============================================================================
