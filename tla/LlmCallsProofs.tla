--------------------------- MODULE LlmCallsProofs ---------------------------
(***************************************************************************)
(* What holds of the calls to the models for every number of keys, models,   *)
(* providers and calls.  A pool stays an order in which each key has one     *)
(* place, whichever calls demote and promote its keys in whatever order; a   *)
(* call keeps within its attempts, and what it has excluded is not its       *)
(* model, because a fallback to another model is one step with the exclusion *)
(* of the last.                                                              *)
(***************************************************************************)
EXTENDS LlmCalls, FiniteSetTheorems, SequenceTheorems, WellFoundedInduction, TLAPS

-----------------------------------------------------------------------------
(* The least of a set of numbers: the first that rests least, the best model. *)

Before == {ss \in Nat \X Nat : ss[1] < ss[2]}

LEMMA Least ==
  ASSUME NEW T \in SUBSET Nat, T # {}
  PROVE  \E m \in T : \A n \in T : m <= n
<1>1. IsWellFoundedOn(OpToRel(<, Nat), Nat)
  BY NatLessThanWellFounded
<1>2. OpToRel(<, Nat) = Before
  BY DEF OpToRel, Before
<1>3. IsWellFoundedOn(Before, Nat)
  BY <1>1, <1>2
<1>4. \E m \in T : \A n \in T : ~(<<n, m>> \in Before)
  BY <1>3, WFMin
<1>5. \A m, n \in T : n < m => <<n, m>> \in Before
  <2> SUFFICES ASSUME NEW m \in T, NEW n \in T, n < m PROVE <<n, m>> \in Before
    OBVIOUS
  <2>1. m \in Nat /\ n \in Nat
    OBVIOUS
  <2>2. <<n, m>> \in Nat \X Nat /\ <<n, m>>[1] = n /\ <<n, m>>[2] = m
    BY <2>1
  <2> QED
    BY <2>2 DEF Before
<1>6. PICK m \in T : \A n \in T : ~(n < m)
  BY <1>4, <1>5
<1> QED
  BY <1>6

-----------------------------------------------------------------------------
(* The pool of keys.                                                         *)

\* What remains of a rest is a number, and time takes it to another.
LEMMA Rest ==
  /\ Left \subseteq Nat /\ 0 \in Left /\ NetworkRest \in Left /\ AuthRest \in Left
  /\ Len(Rests) \in Nat /\ Len(Rests) >= 1
  /\ \A n \in 1..Len(Rests) : Rests[n] \in Left
  /\ \A n \in Left : Less(n) \in Left
<1>1. Rests \in Seq(Nat \ {0}) /\ Rests # << >> /\ NetworkRest \in Nat /\ AuthRest \in Nat
  BY RestsAssumption
<1>2. Len(Rests) \in Nat /\ Len(Rests) >= 1 /\ DOMAIN Rests = 1..Len(Rests)
  BY <1>1
<1>3. Lengths \subseteq Nat /\ NetworkRest \in Lengths /\ AuthRest \in Lengths
  BY <1>1, <1>2 DEF Lengths
<1>4. \A r \in Lengths : r \in 0..r /\ 0 \in 0..r
  BY <1>3
<1>5. Left \subseteq Nat /\ Lengths \subseteq Left /\ 0 \in Left
  BY <1>3, <1>4 DEF Left
<1>6. \A n \in 1..Len(Rests) : Rests[n] \in Lengths
  BY <1>2 DEF Lengths
<1>7. ASSUME NEW n \in Left PROVE Less(n) \in Left
  <2>1. PICK r \in Lengths : n \in 0..r
    BY DEF Left
  <2>2. Less(n) \in 0..r
    BY <1>3, <2>1 DEF Less
  <2> QED
    BY <2>2 DEF Left
<1> QED
  BY <1>2, <1>3, <1>5, <1>6, <1>7

\* The places but one, in their order: where a sequence without its element at
\* place takes its own from.
From(n, place) == [i \in 1..(n - 1) |-> IF i < place THEN i ELSE i + 1]

LEMMA Skipping ==
  ASSUME NEW n \in Nat, NEW place \in 1..n
  PROVE  /\ From(n, place) \in [1..(n - 1) -> (1..n) \ {place}]
         /\ \A i, j \in 1..(n - 1) : From(n, place)[i] = From(n, place)[j] => i = j
         /\ \A h \in (1..n) \ {place} : \E i \in 1..(n - 1) : From(n, place)[i] = h
<1>1. \A i \in 1..(n - 1) : (IF i < place THEN i ELSE i + 1) \in (1..n) \ {place}
  OBVIOUS
<1>2. From(n, place) \in [1..(n - 1) -> (1..n) \ {place}]
  BY <1>1 DEF From
<1>3. \A i \in 1..(n - 1) : From(n, place)[i] = IF i < place THEN i ELSE i + 1
  BY DEF From
<1>4. \A i, j \in 1..(n - 1) : From(n, place)[i] = From(n, place)[j] => i = j
  BY <1>3
<1>5. ASSUME NEW h \in (1..n) \ {place} PROVE \E i \in 1..(n - 1) : From(n, place)[i] = h
  <2>1. CASE h < place
    <3>1. h \in 1..(n - 1)
      BY <2>1
    <3> QED
      BY <1>3, <2>1, <3>1
  <2>2. CASE ~(h < place)
    <3>1. h - 1 \in 1..(n - 1) /\ ~(h - 1 < place) /\ (h - 1) + 1 = h
      BY <2>2
    <3> QED
      BY <1>3, <3>1
  <2> QED
    BY <2>1, <2>2
<1> QED
  BY <1>2, <1>4, <1>5

\* Each of n places has a key of a set, and each of these one place.
Placed(n, o, S) ==
  /\ o \in [1..n -> S]
  /\ \A x \in S : \E i \in 1..n : o[i] = x
  /\ \A i, j \in 1..n : o[i] = o[j] => i = j

\* A sequence without the element at a place.
LEMMA Shortened ==
  ASSUME NEW n \in Nat, NEW o, Placed(n, o, Keys), NEW place \in 1..n
  PROVE  Placed(n - 1, [i \in 1..(n - 1) |-> o[From(n, place)[i]]], Keys \ {o[place]})
<1> DEFINE w == [i \in 1..(n - 1) |-> o[From(n, place)[i]]]
<1>0. /\ o \in [1..n -> Keys] /\ \A x \in Keys : \E i \in 1..n : o[i] = x
      /\ \A i, j \in 1..n : o[i] = o[j] => i = j
  BY DEF Placed
<1>1. \A i \in 1..(n - 1) : From(n, place)[i] \in 1..n /\ From(n, place)[i] # place
  BY Skipping
<1>2. \A i \in 1..(n - 1) : w[i] = o[From(n, place)[i]]
  OBVIOUS
<1>3. ASSUME NEW i \in 1..(n - 1) PROVE o[From(n, place)[i]] \in Keys \ {o[place]}
  BY <1>0, <1>1
<1>4. w \in [1..(n - 1) -> Keys \ {o[place]}]
  BY <1>3
<1>5. ASSUME NEW x \in Keys \ {o[place]} PROVE \E i \in 1..(n - 1) : w[i] = x
  <2>1. PICK h \in 1..n : o[h] = x
    BY <1>0
  <2>2. PICK i \in 1..(n - 1) : From(n, place)[i] = h
    <3>1. h \in (1..n) \ {place}
      BY <2>1
    <3>2. \A y \in (1..n) \ {place} : \E i \in 1..(n - 1) : From(n, place)[i] = y
      BY Skipping, ZenonT(60)
    <3> QED
      BY <3>1, <3>2, Zenon
  <2> QED
    BY <1>2, <2>1, <2>2
<1>6. ASSUME NEW i \in 1..(n - 1), NEW j \in 1..(n - 1), w[i] = w[j] PROVE i = j
  <2>1. From(n, place)[i] = From(n, place)[j]
    BY <1>0, <1>1, <1>2, <1>6
  <2> QED
    BY <2>1, Skipping
<1> QED
  BY <1>4, <1>5, <1>6 DEF Placed

\* A key that is popped leaves the others, each in one place.
LEMMA Popped ==
  ASSUME NEW p, IsPool(p), NEW k \in Keys
  PROVE  \E n \in Nat : Placed(n, Without(p, k), Keys \ {k})
<1> DEFINE o == p.order
           n == Len(o)
           place == CHOOSE i \in DOMAIN o : o[i] = k
<1>1. /\ o \in Seq(Keys) /\ {o[i] : i \in DOMAIN o} = Keys
      /\ \A i, j \in DOMAIN o : o[i] = o[j] => i = j
  BY DEF IsPool, IsOrder
<1>2. n \in Nat /\ o \in [1..n -> Keys]
  BY <1>1
<1>3. Placed(n, o, Keys)
  BY <1>1, <1>2 DEF Placed
<1>4. place \in 1..n /\ o[place] = k
  BY <1>1, <1>2
<1>5. Without(p, k) = [i \in 1..(n - 1) |-> o[From(n, place)[i]]]
  BY DEF Without, From
<1>6. n - 1 \in Nat
  BY <1>2, <1>4
<1> HIDE DEF o, n, place
<1>7. Placed(n - 1, [i \in 1..(n - 1) |-> o[From(n, place)[i]]], Keys \ {o[place]})
  BY <1>2, <1>3, <1>4, Shortened
<1> QED
  BY <1>4, <1>5, <1>6, <1>7

\* The key put back at either end.
LEMMA Replaced ==
  ASSUME NEW n \in Nat, NEW k \in Keys, NEW w, Placed(n, w, Keys \ {k})
  PROVE  /\ Append(w, k) \in Seq(Keys) /\ IsOrder(Append(w, k))
         /\ <<k>> \o w \in Seq(Keys) /\ IsOrder(<<k>> \o w)
<1>0. /\ w \in [1..n -> Keys \ {k}] /\ \A x \in Keys \ {k} : \E i \in 1..n : w[i] = x
      /\ \A i, j \in 1..n : w[i] = w[j] => i = j
  BY DEF Placed
<1>1. w \in Seq(Keys) /\ Len(w) = n
  BY <1>0
<1>2. ASSUME NEW last, last = Append(w, k) PROVE last \in Seq(Keys) /\ IsOrder(last)
  <2>1. /\ last \in Seq(Keys) /\ DOMAIN last = 1..(n + 1)
        /\ \A i \in 1..n : last[i] = w[i]
        /\ last[n + 1] = k
    BY <1>1, <1>2, AppendProperties
  <2>2. \A i \in 1..(n + 1) : i = n + 1 \/ i \in 1..n
    OBVIOUS
  <2>3. 1..n \subseteq 1..(n + 1) /\ n + 1 \in 1..(n + 1)
    OBVIOUS
  <2>4. \A i \in DOMAIN last : last[i] \in Keys
    BY <1>0, <2>1, <2>2
  <2>5. ASSUME NEW x \in Keys PROVE \E i \in DOMAIN last : last[i] = x
    <3>1. CASE x = k
      BY <2>1, <2>3, <3>1
    <3>2. CASE x # k
      BY <1>0, <2>1, <2>3, <3>2
    <3> QED
      BY <3>1, <3>2
  <2>6. {last[i] : i \in DOMAIN last} = Keys
    BY <2>4, <2>5
  <2>7. ASSUME NEW i \in 1..(n + 1), NEW j \in 1..(n + 1), last[i] = last[j] PROVE i = j
    BY <1>0, <2>1, <2>2, <2>7
  <2> QED
    BY <2>1, <2>6, <2>7 DEF IsOrder
<1>3. ASSUME NEW first, first = <<k>> \o w PROVE first \in Seq(Keys) /\ IsOrder(first)
  <2>1. /\ first \in Seq(Keys) /\ DOMAIN first = 1..(n + 1)
        /\ first[1] = k
        /\ \A i \in 1..n : first[i + 1] = w[i]
    <3>1. <<k>> \in Seq(Keys) /\ Len(<<k>>) = 1 /\ <<k>>[1] = k
      OBVIOUS
    <3> QED
      BY <1>1, <1>3, <3>1, ConcatProperties
  <2>2. \A i \in 1..(n + 1) : i = 1 \/ (i - 1 \in 1..n /\ first[i] = w[i - 1])
    <3> SUFFICES ASSUME NEW i \in 1..(n + 1), i # 1 PROVE i - 1 \in 1..n /\ first[i] = w[i - 1]
      OBVIOUS
    <3>1. i - 1 \in 1..n /\ i = (i - 1) + 1
      OBVIOUS
    <3> QED
      BY <2>1, <3>1
  <2>3. 1 \in 1..(n + 1) /\ \A i \in 1..n : i + 1 \in 1..(n + 1)
    OBVIOUS
  <2>4. \A i \in DOMAIN first : first[i] \in Keys
    BY <1>0, <2>1, <2>2
  <2>5. ASSUME NEW x \in Keys PROVE \E i \in DOMAIN first : first[i] = x
    <3>1. CASE x = k
      BY <2>1, <2>3, <3>1
    <3>2. CASE x # k
      <4>1. PICK i \in 1..n : w[i] = x
        BY <1>0, <3>2
      <4>2. i + 1 \in DOMAIN first /\ first[i + 1] = x
        BY <2>1, <2>3, <4>1
      <4> QED
        BY <4>2
    <3> QED
      BY <3>1, <3>2
  <2>6. {first[i] : i \in DOMAIN first} = Keys
    BY <2>4, <2>5
  <2>7. ASSUME NEW i \in 1..(n + 1), NEW j \in 1..(n + 1), first[i] = first[j] PROVE i = j
    <3>1. \A h \in 1..n : w[h] # k
      BY <1>0
    <3>2. CASE i = 1
      BY <1>0, <2>1, <2>2, <2>7, <3>1, <3>2
    <3>3. CASE i # 1
      <4>1. i - 1 \in 1..n /\ first[i] = w[i - 1] /\ first[i] # k
        BY <2>2, <3>1, <3>3
      <4>2. j - 1 \in 1..n /\ first[j] = w[j - 1]
        BY <1>0, <2>1, <2>2, <2>7, <4>1
      <4>3. i - 1 = j - 1
        BY <1>0, <2>7, <4>1, <4>2
      <4> QED
        BY <4>3
    <3> QED
      BY <3>2, <3>3
  <2> QED
    BY <2>1, <2>6, <2>7 DEF IsOrder
<1> QED
  BY <1>2, <1>3

\* The fields of a pool are independent.
LEMMA PoolWith ==
  ASSUME NEW p, IsPool(p), NEW o \in Seq(Keys), IsOrder(o), NEW rest \in [Keys -> Left],
         NEW streak \in 0..Len(Rests), NEW poolRest \in Left
  PROVE  /\ IsPool([p EXCEPT !.order = o, !.rest = rest])
         /\ IsPool([p EXCEPT !.order = o, !.streak = streak, !.poolRest = poolRest])
         /\ IsPool([p EXCEPT !.rest = rest, !.poolRest = poolRest])
BY DEF IsPool

\* Whatever a call, its own or another, makes of a key leaves a pool.
LEMMA PoolKept ==
  ASSUME NEW p, IsPool(p), NEW k \in Keys
  PROVE  /\ \A time \in Left : IsPool(Rested(p, k, time))
         /\ IsPool(NoteRateLimit(p, k))
         /\ IsPool(Promoted(p, k))
<1>1. /\ p \in [order : Seq(Keys), rest : [Keys -> Left], streak : 0..Len(Rests), poolRest : Left]
      /\ p.streak \in 0..Len(Rests)
  BY DEF IsPool
<1>2. /\ Append(Without(p, k), k) \in Seq(Keys) /\ IsOrder(Append(Without(p, k), k))
      /\ <<k>> \o Without(p, k) \in Seq(Keys) /\ IsOrder(<<k>> \o Without(p, k))
  <2>1. PICK n \in Nat : Placed(n, Without(p, k), Keys \ {k})
    BY Popped
  <2> QED
    BY <2>1, Replaced
<1>3. 0 \in Left /\ 0 \in 0..Len(Rests)
  BY Rest
<1>4. ASSUME NEW time \in Left PROVE IsPool(Rested(p, k, time))
  <2>1. [p.rest EXCEPT ![k] = time] \in [Keys -> Left]
    BY <1>1
  <2> PICK o, rest : o = Append(Without(p, k), k) /\ rest = [p.rest EXCEPT ![k] = time]
    OBVIOUS
  <2>2. Rested(p, k, time)
        = [p EXCEPT !.order = o, !.rest = rest]
    BY <1>1 DEF Rested
  <2>3. IsPool([p EXCEPT !.order = o, !.rest = rest])
    BY <1>2, <1>3, <2>1, PoolWith
  <2> QED
    BY <2>2, <2>3
<1>5. IsPool(NoteRateLimit(p, k))
  <2> PICK n : n = IF p.streak < Len(Rests) THEN p.streak + 1 ELSE p.streak
    OBVIOUS
  <2>1. n \in 1..Len(Rests) /\ n \in 0..Len(Rests) /\ Rests[n] \in Left
    BY <1>1, Rest
  <2>2. IsPool(Rested(p, k, Rests[n]))
    BY <1>4, <2>1
  <2> PICK next : next = [Rested(p, k, Rests[n]) EXCEPT !.streak = n]
    OBVIOUS
  <2>3. IsPool(next)
    BY <2>1, <2>2 DEF IsPool
  <2>4. IsPool([next EXCEPT !.poolRest = Rests[n]])
    BY <2>1, <2>3 DEF IsPool
  <2> QED
    BY <2>3, <2>4 DEF NoteRateLimit
<1>6. IsPool(Promoted(p, k))
  <2>1. p.rest \in [Keys -> Left]
    BY <1>1
  <2> QED
    BY <1>2, <1>3, <2>1, PoolWith DEF Promoted
<1> QED
  BY <1>4, <1>5, <1>6

LEMMA TimePasses ==
  ASSUME NEW p, IsPool(p)
  PROVE  IsPool(Elapsed(p))
<1>1. p \in [order : Seq(Keys), rest : [Keys -> Left], streak : 0..Len(Rests), poolRest : Left]
  BY DEF IsPool
<1>2. [k \in Keys |-> Less(p.rest[k])] \in [Keys -> Left] /\ Less(p.poolRest) \in Left
  BY <1>1, Rest
<1>3. p.order \in Seq(Keys) /\ IsOrder(p.order) /\ p.streak \in 0..Len(Rests)
  BY DEF IsPool
<1> QED
  BY <1>2, <1>3, PoolWith DEF Elapsed

\* The key to use next is a key.
LEMMA AKeyIsActive ==
  ASSUME NEW p, IsPool(p), ActiveKey(p) # NoKey
  PROVE  ActiveKey(p) \in Keys
<1> DEFINE Wait(i) == p.rest[p.order[i]]
           IsFirst(i) == /\ \A j \in DOMAIN p.order : Wait(i) <= Wait(j)
                         /\ \A j \in 1..(i - 1) : Wait(i) < Wait(j)
<1>1. /\ p.order \in Seq(Keys) /\ IsOrder(p.order) /\ Keys # {}
      /\ DOMAIN p.order \subseteq Nat \ {0} /\ DOMAIN p.order = 1..Len(p.order)
      /\ Len(p.order) \in Nat
  BY LlmAssumption DEF IsPool
<1>2. \A i \in DOMAIN p.order : p.order[i] \in Keys /\ Wait(i) \in Nat
  <2> SUFFICES ASSUME NEW i \in DOMAIN p.order PROVE p.order[i] \in Keys /\ Wait(i) \in Nat
    OBVIOUS
  <2>1. p.rest \in [Keys -> Left] /\ p.order[i] \in Keys
    BY <1>1 DEF IsPool
  <2>2. Wait(i) \in Left
    BY <2>1
  <2> QED
    BY <2>1, <2>2, Rest
<1>3. \E i \in DOMAIN p.order : TRUE
  BY <1>1 DEF IsOrder
<1>4. PICK shortest \in {Wait(i) : i \in DOMAIN p.order} :
             \A w \in {Wait(i) : i \in DOMAIN p.order} : shortest <= w
  <2>1. {Wait(i) : i \in DOMAIN p.order} \in SUBSET Nat
    BY <1>2
  <2>2. {Wait(i) : i \in DOMAIN p.order} # {}
    BY <1>3
  <2> QED
    BY <2>1, <2>2, Least
<1>5. PICK i \in {j \in DOMAIN p.order : Wait(j) = shortest} :
             \A j \in {j \in DOMAIN p.order : Wait(j) = shortest} : i <= j
  <2>1. {j \in DOMAIN p.order : Wait(j) = shortest} \in SUBSET Nat
    BY <1>1
  <2>2. {j \in DOMAIN p.order : Wait(j) = shortest} # {}
    BY <1>4
  <2> QED
    BY <2>1, <2>2, Least
<1>6. IsFirst(i)
  <2>1. \A j \in DOMAIN p.order : Wait(i) <= Wait(j)
    BY <1>4, <1>5
  <2>2. ASSUME NEW j \in 1..(i - 1) PROVE Wait(i) < Wait(j)
    <3>1. j \in DOMAIN p.order /\ ~(i <= j)
      BY <1>1, <1>5
    <3>2. Wait(j) # shortest
      BY <1>5, <3>1
    <3> QED
      BY <1>2, <1>5, <2>1, <3>1, <3>2
  <2> QED
    BY <2>1, <2>2
<1> PICK first : first = CHOOSE h \in DOMAIN p.order : IsFirst(h)
  OBVIOUS
<1>7. first \in DOMAIN p.order
  BY <1>5, <1>6
<1>8. ActiveKey(p) = p.order[first]
  BY DEF ActiveKey
<1> QED
  BY <1>2, <1>7, <1>8

-----------------------------------------------------------------------------
(* One call.                                                                 *)

\* Within its attempts: a text is tried once more, a structured call up to the
\* last of its attempts.
Within(r) == IF Structured(r) THEN r.attempt < MaxAttempts ELSE r.attempt <= 1

Fine(r) ==
  /\ r \in Call /\ r.model \notin r.excluded
  /\ r.pc # "over" => Within(r)
  /\ r.pc = "over" => /\ r.attempt = 0 /\ r.excluded = {} /\ ~r.last_try
                      /\ r.kind = "disclosing" => r.outcome # "asks"
  /\ r.pc = "wire" => r.key \in Keys /\ r.tries < Cardinality(Keys)
  /\ r.pc = "back" /\ ~Structured(r) => r.outcome \notin {"asks", "invalid"}
  /\ r.pc = "probing" \/ (r.pc = "back" /\ r.outcome = "asks") => r.wanted \in Signatures

LEMMA Numbers ==
  /\ Cardinality(Keys) \in Nat /\ MaxAttempts \in Nat /\ MaxAttempts >= 1
  /\ MaxIterations \in Nat /\ MaxIterations >= 1
  /\ ProviderOf \in [Models -> Providers] /\ ModelOf \in [Calls -> Models]
BY RestsAssumption, LlmAssumption, FS_CardinalityType

LEMMA OverIsFine ==
  ASSUME NEW r \in Call, NEW outcome \in Outcomes \cup {Nothing, "failed"},
         r.kind = "disclosing" => outcome # "asks"
  PROVE  Fine(Over(r, outcome))
<1>1. 0 \in 0..Cardinality(Keys) /\ 0 \in 0..MaxAttempts /\ 0 \in 0..MaxIterations
  BY Numbers
<1>2. Over(r, outcome) \in Call
  BY <1>1 DEF Over, Call, Pcs
<1>3. /\ Over(r, outcome).pc = "over" /\ Over(r, outcome).excluded = {}
      /\ Over(r, outcome).attempt = 0 /\ ~Over(r, outcome).last_try
      /\ Over(r, outcome).kind = r.kind /\ Over(r, outcome).outcome = outcome
  BY DEF Over, Call
<1> QED
  BY <1>2, <1>3 DEF Fine

LEMMA BackIsFine ==
  ASSUME NEW r, Fine(r), NEW outcome \in Outcomes, r.pc # "over",
         ~Structured(r) => outcome \notin {"asks", "invalid"}
  PROVE  /\ outcome # "asks" => Fine(Back(r, outcome))
         /\ \A s \in Signatures : Fine([Back(r, "asks") EXCEPT !.wanted = s]) \/ outcome # "asks"
<1>1. r \in Call /\ Within(r) /\ r.model \notin r.excluded
  BY DEF Fine
<1>2. 0 \in 0..Cardinality(Keys)
  BY Numbers
<1>3. /\ Back(r, outcome) \in Call
      /\ Back(r, outcome).pc = "back" /\ Back(r, outcome).outcome = outcome
      /\ Back(r, outcome).kind = r.kind /\ Back(r, outcome).attempt = r.attempt
      /\ Back(r, outcome).model = r.model /\ Back(r, outcome).excluded = r.excluded
  BY <1>1, <1>2 DEF Back, Call, Pcs
<1>4. ASSUME NEW s \in Signatures, NEW b \in Call
      PROVE  /\ [b EXCEPT !.wanted = s] \in Call
             /\ [b EXCEPT !.wanted = s].pc = b.pc /\ [b EXCEPT !.wanted = s].kind = b.kind
             /\ [b EXCEPT !.wanted = s].attempt = b.attempt
             /\ [b EXCEPT !.wanted = s].model = b.model
             /\ [b EXCEPT !.wanted = s].excluded = b.excluded
             /\ [b EXCEPT !.wanted = s].outcome = b.outcome
             /\ [b EXCEPT !.wanted = s].wanted = s
  BY DEF Call
<1>5. outcome # "asks" => Fine(Back(r, outcome))
  BY <1>1, <1>3 DEF Fine, Within, Structured
<1>6. ASSUME NEW s \in Signatures, outcome = "asks"
      PROVE  Fine([Back(r, "asks") EXCEPT !.wanted = s])
  <2> PICK b : b = [Back(r, "asks") EXCEPT !.wanted = s]
    OBVIOUS
  <2>1. /\ b \in Call /\ b.pc = "back" /\ b.outcome = "asks"
        /\ b.kind = r.kind /\ b.attempt = r.attempt /\ b.wanted = s
        /\ b.model = r.model /\ b.excluded = r.excluded
    BY <1>3, <1>4, <1>6
  <2> QED
    BY <1>1, <1>6, <2>1 DEF Fine, Within, Structured
<1> QED
  BY <1>5, <1>6

\* A request that is scheduled, at once or from a pause.
LEMMA ScheduledIsFine ==
  ASSUME NEW r \in Call, Within(r), r.model \notin r.excluded
  PROVE  /\ Fine([r EXCEPT !.pc = "scheduled", !.current = TRUE, !.outcome = Nothing])
         /\ Fine([r EXCEPT !.pc = "scheduled"])
         /\ Fine(Over([r EXCEPT !.current = TRUE], "failed"))
<1>1. ASSUME NEW x, x = [r EXCEPT !.pc = "scheduled", !.current = TRUE, !.outcome = Nothing]
      PROVE  Fine(x)
  <2>1. /\ x \in Call /\ x.pc = "scheduled" /\ x.kind = r.kind /\ x.attempt = r.attempt
        /\ x.model = r.model /\ x.excluded = r.excluded
    BY <1>1 DEF Call, Pcs
  <2> QED
    BY <2>1 DEF Fine, Within, Structured
<1>2. ASSUME NEW x, x = [r EXCEPT !.pc = "scheduled"] PROVE Fine(x)
  <2>1. /\ x \in Call /\ x.pc = "scheduled" /\ x.kind = r.kind /\ x.attempt = r.attempt
        /\ x.model = r.model /\ x.excluded = r.excluded
    BY <1>2 DEF Call, Pcs
  <2> QED
    BY <2>1 DEF Fine, Within, Structured
<1>3. [r EXCEPT !.current = TRUE] \in Call
  BY DEF Call
<1>4. Fine(Over([r EXCEPT !.current = TRUE], "failed"))
  BY <1>3, OverIsFine
<1> QED
  BY <1>1, <1>2, <1>4

\* What the next iteration takes over from the last.
LEMMA NextIterationIsFine ==
  ASSUME NEW r \in Call
  PROVE  /\ NextIteration(r) \in Call /\ Within(NextIteration(r))
         /\ NextIteration(r).excluded = {}
<1> PICK again : again = [r EXCEPT !.attempt = 0, !.excluded = {}, !.wanted = Nothing]
  OBVIOUS
<1>0. 0 \in 0..MaxAttempts
  BY Numbers
<1>1. again \in Call /\ again.attempt = 0 /\ again.excluded = {} /\ again.iteration = r.iteration
  BY <1>0 DEF Call
<1>2. r.iteration \in 0..MaxIterations
  BY DEF Call
<1>3. CASE r.iteration < MaxIterations
  <2> PICK x : x = [again EXCEPT !.iteration = @ + 1]
    OBVIOUS
  <2>1. r.iteration + 1 \in 0..MaxIterations
    BY <1>2, <1>3, Numbers
  <2>2. x \in Call /\ x.attempt = 0 /\ x.excluded = {}
    BY <1>1, <2>1 DEF Call
  <2> QED
    BY <1>3, <2>2, Numbers DEF NextIteration, Within
<1>4. CASE ~(r.iteration < MaxIterations)
  <2> PICK x : x = [again EXCEPT !.last_try = TRUE]
    OBVIOUS
  <2>1. x \in Call /\ x.attempt = 0 /\ x.excluded = {}
    BY <1>1 DEF Call
  <2> QED
    BY <1>4, <2>1, Numbers DEF NextIteration, Within
<1> QED
  BY <1>3, <1>4
-----------------------------------------------------------------------------
(* The invariant, and the ways a call moves on.                              *)

Around ==
  /\ vendor \in [Providers -> TheVendors]
  /\ DOMAIN pool = Providers /\ \A p \in Providers : IsPool(pool[p])
  /\ model_name \in [Providers -> Models]
  /\ call_epoch \in [Providers -> BOOLEAN]
  /\ flag \in BOOLEAN

Inv ==
  /\ Around
  /\ call \in [Calls -> Call]
  /\ \A c \in Calls : Fine(call[c])

\* One call moves, whatever moves around it.
LEMMA OneMoves ==
  ASSUME Inv, Around', NEW c \in Calls, NEW r, Fine(r), call' = [call EXCEPT ![c] = r]
  PROVE  Inv'
<1>1. r \in Call
  BY DEF Fine
<1>2. call' \in [Calls -> Call] /\ call'[c] = r /\ \A d \in Calls \ {c} : call'[d] = call[d]
  BY <1>1 DEF Inv
<1>3. \A d \in Calls : Fine(call[d])
  BY DEF Inv
<1>4. ASSUME NEW d \in Calls PROVE Fine(call'[d])
  BY <1>2, <1>3, Zenon
<1> QED
  BY <1>2, <1>4, Zenon DEF Inv, Fine, Within, Structured

LEMMA AsksStep ==
  ASSUME Inv, NEW c \in Calls, NEW r \in Call, Within(r), r.model \notin r.excluded,
         Asks(c, r), UNCHANGED <<vendor, pool, flag>>
  PROVE  Inv'
<1>1. r.model \in Models /\ Provider(r) \in Providers
  BY Numbers DEF Call, Provider
<1>2. Around'
  BY <1>1 DEF Inv, Around, Asks
<1> PICK x : x = IF Structured(r) /\ ~vendor[Provider(r)].structured
                 THEN Over([r EXCEPT !.current = TRUE], "failed")
                 ELSE [r EXCEPT !.pc = "scheduled", !.current = TRUE, !.outcome = Nothing]
  OBVIOUS
<1>3. Fine(x)
  BY ScheduledIsFine
<1>4. call' = [call EXCEPT ![c] = x]
  BY DEF Asks
<1> QED
  BY <1>2, <1>3, <1>4, OneMoves

LEMMA EndsStep ==
  ASSUME Inv, NEW c \in Calls, NEW r \in Call, NEW outcome \in Outcomes \cup {Nothing, "failed"},
         r.kind = "disclosing" => outcome # "asks",
         EndsAs(c, r, outcome), UNCHANGED <<vendor, pool, flag>>
  PROVE  Inv'
<1>1. Around'
  BY DEF Inv, Around, EndsAs
<1> PICK x : x = Over(r, outcome)
  OBVIOUS
<1>2. Fine(x)
  BY OverIsFine
<1>3. call' = [call EXCEPT ![c] = x]
  BY DEF EndsAs
<1> QED
  BY <1>1, <1>2, <1>3, OneMoves

LEMMA ReturnsStep ==
  ASSUME Inv, Around', NEW c \in Calls, NEW outcome \in Outcomes \ {"asks", "invalid"},
         call[c].pc # "over", Returns(c, outcome)
  PROVE  Inv'
<1> PICK r : r = call[c]
  OBVIOUS
<1>1. Fine(r) /\ r.pc # "over"
  BY DEF Inv
<1> PICK x : x = Back(r, outcome)
  OBVIOUS
<1>2. Fine(x)
  BY <1>1, BackIsFine
<1>3. call' = [call EXCEPT ![c] = x]
  BY DEF Returns, Inv
<1> QED
  BY <1>2, <1>3, OneMoves

\* The best of the models that are left is one of them.
LEMMA TheBestIsLeft ==
  ASSUME NEW excluded, Candidates(excluded) # {}
  PROVE  Best(excluded) \in Models \ excluded
<1> DEFINE T == {i \in DOMAIN Ranking : Ranking[i] \in Candidates(excluded)}
           IsBest(i) == /\ Ranking[i] \in Candidates(excluded)
                        /\ \A j \in 1..(i - 1) : Ranking[j] \notin Candidates(excluded)
<1>1. DOMAIN Ranking = 1..Len(Ranking) /\ Len(Ranking) \in Nat
  BY LlmAssumption
<1>2. T \in SUBSET Nat /\ T # {}
  <2>1. PICK m \in Candidates(excluded) : TRUE
    OBVIOUS
  <2>2. PICK i \in DOMAIN Ranking : m = Ranking[i]
    BY <2>1 DEF Candidates
  <2> QED
    BY <1>1, <2>1, <2>2
<1>3. PICK i \in T : \A j \in T : i <= j
  BY <1>2, Least
<1>4. i \in DOMAIN Ranking /\ IsBest(i)
  <2>1. ASSUME NEW j \in 1..(i - 1) PROVE Ranking[j] \notin Candidates(excluded)
    <3>1. j \in DOMAIN Ranking /\ ~(i <= j)
      BY <1>1, <1>3
    <3>2. j \notin T
      BY <1>3, <3>1
    <3> QED
      BY <3>1, <3>2
  <2> QED
    BY <1>3, <2>1
<1> PICK best : best = CHOOSE h \in DOMAIN Ranking : IsBest(h)
  OBVIOUS
<1>5. IsBest(best)
  BY <1>4
<1>6. Best(excluded) = Ranking[best]
  BY DEF Best
<1> QED
  BY <1>5, <1>6 DEF Candidates

-----------------------------------------------------------------------------
(* The steps.                                                                *)

LEMMA VendorsRead ==
  ASSUME Inv, NEW p \in Providers, NEW content \in Contents
  PROVE  vendor[p].reads[content] \in Outcomes
<1>1. vendor[p] \in TheVendors
  BY DEF Inv, Around
<1>2. /\ OpenAIReads[content] \in Outcomes /\ GroqReads[content] \in Outcomes
      /\ DeepSeekReads[content] \in Outcomes /\ OpenRouterReads[content] \in Outcomes
  BY DEF OpenAIReads, GroqReads, DeepSeekReads, OpenRouterReads, Parsed, Contents, Outcomes
<1>3. GeminiReads[content] \in Outcomes /\ AnthropicReads[content] \in Outcomes
  BY DEF GeminiReads, AnthropicReads, Contents, Outcomes
<1>4. /\ OpenAI.reads = OpenAIReads /\ Groq.reads = GroqReads
      /\ DeepSeek.reads = DeepSeekReads /\ OpenRouter.reads = OpenRouterReads
  BY DEF Talking, OpenAI, Groq, DeepSeek, OpenRouter
<1>5. Anthropic.reads = AnthropicReads /\ Gemini.reads = GeminiReads
  BY DEF Talking, Anthropic, Gemini
<1> QED
  BY <1>1, <1>2, <1>3, <1>4, <1>5 DEF TheVendors

LEMMA Initially == Init => Inv
<1> SUFFICES ASSUME Init PROVE Inv
  OBVIOUS
<1>1. Orders # {}
  <2>1. ExistsBijection(1..Cardinality(Keys), Keys)
    BY RestsAssumption, FS_CardinalityType
  <2>2. PICK o \in [1..Cardinality(Keys) -> Keys] :
               /\ \A i, j \in 1..Cardinality(Keys) : i # j => o[i] # o[j]
               /\ \A k \in Keys : \E i \in 1..Cardinality(Keys) : o[i] = k
    BY <2>1 DEF ExistsBijection, Bijection, Injection, Surjection, IsInjective
  <2>3. IsOrder(o)
    BY <2>2 DEF IsOrder
  <2> QED
    BY <2>3 DEF Orders
<1>2. ASSUME NEW o \in Orders PROVE IsPool(FreshPool(o))
  <2>1. o \in Seq(Keys) /\ IsOrder(o)
    BY Numbers DEF Orders
  <2>2. 0 \in Left /\ 0 \in 0..Len(Rests)
    BY Rest
  <2> QED
    BY <2>1, <2>2 DEF IsPool, FreshPool
<1>3. Around
  <2>1. \A p \in Providers : IsPool(pool[p])
    BY <1>1, <1>2 DEF Init
  <2> QED
    BY <2>1 DEF Init, Around
<1>4. ASSUME NEW c \in Calls PROVE Fine(call[c])
  <2>1. ModelOf[c] \in Models /\ 0 \in 0..Cardinality(Keys) /\ 0 \in 0..MaxAttempts
        /\ 0 \in 0..MaxIterations
    BY Numbers
  <2> PICK r : r = call[c]
    OBVIOUS
  <2>2. r = [pc |-> "over", kind |-> "text", last_try |-> FALSE, model |-> ModelOf[c],
             carried |-> ModelOf[c], key |-> NoKey, tries |-> 0, attempt |-> 0,
             excluded |-> {}, iteration |-> 0, last |-> Nothing, wanted |-> Nothing,
             barred |-> {}, current |-> TRUE, outcome |-> "failed"]
    BY DEF Init
  <2>3. r \in Call
    BY <2>1, <2>2 DEF Call, Pcs
  <2>4. r.pc = "over" /\ r.kind = "text" /\ r.attempt = 0 /\ r.excluded = {} /\ ~r.last_try
    BY <2>2
  <2> QED
    BY <2>3, <2>4 DEF Fine
<1>5. call \in [Calls -> Call]
  BY <1>4 DEF Fine, Init
<1> QED
  BY <1>3, <1>4, <1>5 DEF Inv

LEMMA BeginStep ==
  ASSUME Inv, NEW c \in Calls, Begin(c), Kinds \subseteq {"text", "plain", "disclosing"}
  PROVE  Inv'
<1> PICK r : r = call[c]
  OBVIOUS
<1>1. r \in Call /\ r.attempt = 0 /\ r.excluded = {}
  BY DEF Inv, Fine, Begin
<1>2. PICK kind \in Kinds :
         Asks(c, [r EXCEPT !.kind = kind, !.iteration = IF kind = "disclosing" THEN 1 ELSE 0])
  BY DEF Begin
<1> PICK n, x : /\ n = IF kind = "disclosing" THEN 1 ELSE 0
                /\ x = [r EXCEPT !.kind = kind, !.iteration = n]
  OBVIOUS
<1>3. n \in 0..MaxIterations /\ kind \in {"text", "plain", "disclosing"}
  BY Numbers
<1>4. x \in Call /\ x.attempt = 0 /\ x.excluded = {}
  <2>1. [r EXCEPT !.kind = kind] \in Call
    BY <1>1, <1>3 DEF Call
  <2>2. x = [[r EXCEPT !.kind = kind] EXCEPT !.iteration = n]
    BY <1>1
  <2>3. x \in Call
    BY <1>3, <2>1, <2>2 DEF Call
  <2>4. x.attempt = r.attempt /\ x.excluded = r.excluded
    BY <1>1 DEF Call
  <2> QED
    BY <1>1, <2>3, <2>4
<1>5. Within(x)
  BY <1>4, Numbers DEF Within
<1> QED
  BY <1>2, <1>4, <1>5, AsksStep DEF Begin

\* What a call that is under way knows of itself and of its provider.
LEMMA OfTheCall ==
  ASSUME Inv, NEW c \in Calls
  PROVE  /\ Fine(call[c]) /\ call[c] \in Call /\ DOMAIN call = Calls
         /\ Provider(call[c]) \in Providers /\ IsPool(pool[Provider(call[c])])
<1>1. Fine(call[c]) /\ call[c] \in Call /\ DOMAIN call = Calls
  BY DEF Inv
<1>2. call[c].model \in Models
  BY <1>1 DEF Call
<1>3. Provider(call[c]) \in Providers
  BY <1>2, Numbers DEF Provider
<1> QED
  BY <1>1, <1>3 DEF Inv, Around

LEMMA SendStep ==
  ASSUME Inv, NEW c \in Calls, Send(c)
  PROVE  Inv'
<1>0. Around'
  BY DEF Inv, Around, Send
<1> PICK r, p : r = call[c] /\ p = Provider(call[c])
  OBVIOUS
<1>1. Fine(r) /\ r \in Call /\ p \in Providers /\ IsPool(pool[p]) /\ DOMAIN call = Calls
  BY OfTheCall
<1> PICK k, named : k = ActiveKey(pool[p]) /\ named = Named(c, p)
  OBVIOUS
<1>2. r.pc \in {"scheduled", "asleep"} /\ r.tries < Cardinality(Keys) /\ k # NoKey
  BY DEF Send
<1>3. k \in Keys
  BY <1>1, <1>2, AKeyIsActive
<1>4. named \in Models
  <2>1. model_name[p] \in Models /\ call[c].carried \in Models
    BY <1>1 DEF Inv, Around, Call
  <2> QED
    BY <2>1 DEF Named
<1>5. call' = [call EXCEPT ![c].pc = "wire", ![c].key = k, ![c].carried = named]
  BY DEF Send
<1> PICK x : x = [r EXCEPT !.pc = "wire", !.key = k, !.carried = named]
  OBVIOUS
<1>6. call' = [call EXCEPT ![c] = x]
  BY <1>1, <1>5
<1>7. x \in Call /\ x.pc = "wire" /\ x.key = k /\ x.tries = r.tries /\ x.kind = r.kind
      /\ x.attempt = r.attempt /\ x.model = r.model /\ x.excluded = r.excluded
  BY <1>1, <1>3, <1>4 DEF Call, Pcs
<1>8. Fine(x)
  BY <1>1, <1>2, <1>3, <1>7 DEF Fine, Within, Structured
<1> QED
  BY <1>0, <1>6, <1>8, OneMoves

LEMMA GiveUpStep ==
  ASSUME Inv, NEW c \in Calls, GiveUp(c)
  PROVE  Inv'
<1>1. Around' /\ call[c].pc # "over"
  BY DEF Inv, Around, GiveUp
<1>2. \/ Returns(c, "cancelled") \/ Returns(c, "quota") \/ Returns(c, "broken")
  BY DEF GiveUp
<1>3. {"cancelled", "quota", "broken"} \subseteq Outcomes \ {"asks", "invalid"}
  BY DEF Outcomes
<1> QED
  BY <1>1, <1>2, <1>3, ReturnsStep

\* A pool that changes leaves the rest as it is.
LEMMA PoolChanges ==
  ASSUME Inv, NEW p \in Providers, NEW next, IsPool(next), pool' = [pool EXCEPT ![p] = next],
         UNCHANGED <<vendor, model_name, call_epoch, flag>>
  PROVE  Around'
BY DEF Inv, Around

LEMMA TryNextKeyStep ==
  ASSUME Inv, NEW c \in Calls, call[c].pc = "wire", NEW next, IsPool(next),
         NEW outcome \in {"quota", "network"}, TryNextKey(c, Provider(call[c]), next, outcome),
         UNCHANGED <<vendor, model_name, call_epoch, flag>>
  PROVE  Inv'
<1> PICK r, p : r = call[c] /\ p = Provider(call[c])
  OBVIOUS
<1>1. Fine(r) /\ r \in Call /\ p \in Providers /\ DOMAIN call = Calls
  BY OfTheCall
<1>2. pool' = [pool EXCEPT ![p] = next]
  BY DEF TryNextKey
<1>3. Around'
  BY <1>1, <1>2, PoolChanges
<1>4. CASE HasAvailableKeys(next)
  <2> PICK x : x = [r EXCEPT !.tries = @ + 1, !.key = NoKey, !.pc = "asleep"]
    OBVIOUS
  <2>1. call' = [call EXCEPT ![c] = x]
    BY <1>1, <1>4 DEF TryNextKey
  <2>2. r.tries + 1 \in 0..Cardinality(Keys)
    BY <1>1, Numbers DEF Fine, Call
  <2>3. x \in Call /\ x.pc = "asleep" /\ x.kind = r.kind
        /\ x.attempt = r.attempt /\ x.model = r.model /\ x.excluded = r.excluded
    BY <1>1, <2>2 DEF Call, Pcs
  <2>4. Fine(x)
    BY <1>1, <2>3 DEF Fine, Within, Structured
  <2> QED
    BY <1>3, <2>1, <2>4, OneMoves
<1>5. CASE ~HasAvailableKeys(next)
  <2>1. Returns(c, outcome) /\ outcome \in Outcomes \ {"asks", "invalid"} /\ call[c].pc # "over"
    BY <1>5 DEF TryNextKey, Outcomes
  <2> QED
    BY <1>3, <2>1, ReturnsStep
<1> QED
  BY <1>4, <1>5

LEMMA ReplyStep ==
  ASSUME Inv, NEW c \in Calls, Reply(c)
  PROVE  Inv'
<1> PICK r, p : r = call[c] /\ p = Provider(call[c])
  OBVIOUS
<1>1. /\ Fine(r) /\ r \in Call /\ p \in Providers /\ IsPool(pool[p])
      /\ DOMAIN call = Calls /\ DOMAIN pool = Providers
  BY OfTheCall DEF Inv, Around
<1>2. r.pc = "wire" => r.key \in Keys
  BY <1>1 DEF Fine
<1>3. NetworkRest \in Left /\ AuthRest \in Left
  BY Rest
<1>4. {"cancelled", "quota", "network", "broken", "transient", "answer"} \subseteq Outcomes \ {"asks", "invalid"}
  BY DEF Outcomes
<1>5. CASE Limited(c)
  <2> PICK next : next = NoteRateLimit(pool[p], r.key)
    OBVIOUS
  <2>1. IsPool(next) /\ r.pc = "wire"
    BY <1>1, <1>2, <1>5, PoolKept DEF Limited
  <2>2. UNCHANGED <<vendor, model_name, call_epoch, flag>>
    BY <1>5 DEF Limited
  <2>3. CASE vendor[p].sdk /\ CheckCancelled(p)
    <3>1. pool' = [pool EXCEPT ![p] = next] /\ Returns(c, "cancelled")
      BY <1>5, <2>3 DEF Limited
    <3>2. Around'
      BY <1>1, <2>1, <2>2, <3>1, PoolChanges
    <3> QED
      BY <1>4, <2>1, <3>1, <3>2, ReturnsStep
  <2>4. CASE ~(vendor[p].sdk /\ CheckCancelled(p))
    <3>1. TryNextKey(c, Provider(call[c]), next, "quota")
      BY <1>5, <2>4 DEF Limited
    <3> QED
      BY <2>1, <2>2, <3>1, TryNextKeyStep
  <2> QED
    BY <2>3, <2>4
<1>6. CASE Lost(c)
  <2> PICK next : next = Rested(pool[p], r.key, NetworkRest)
    OBVIOUS
  <2>1. IsPool(next) /\ r.pc = "wire"
    BY <1>1, <1>2, <1>3, <1>6, PoolKept DEF Lost
  <2>2. UNCHANGED <<vendor, model_name, call_epoch, flag>>
    BY <1>6 DEF Lost
  <2>3. CASE vendor[p].rotates
    <3>1. TryNextKey(c, Provider(call[c]), next, "network")
      BY <1>6, <2>3 DEF Lost
    <3> QED
      BY <2>1, <2>2, <3>1, TryNextKeyStep
  <2>4. CASE ~vendor[p].rotates
    <3>1. Returns(c, "network") /\ UNCHANGED pool
      BY <1>6, <2>4 DEF Lost
    <3>2. Around'
      BY <2>2, <3>1 DEF Inv, Around
    <3> QED
      BY <1>4, <2>1, <3>1, <3>2, ReturnsStep
  <2> QED
    BY <2>3, <2>4
<1>7. CASE Refused(c)
  <2> PICK next : next = Rested(pool[p], r.key, AuthRest)
    OBVIOUS
  <2>1. IsPool(next) /\ r.pc = "wire"
    BY <1>1, <1>2, <1>3, <1>7, PoolKept DEF Refused
  <2>2. /\ UNCHANGED <<vendor, model_name, call_epoch, flag>>
        /\ pool' = [pool EXCEPT ![p] = next] /\ Returns(c, "broken")
    BY <1>1, <1>7 DEF Refused
  <2>3. Around'
    BY <1>1, <2>1, <2>2, PoolChanges
  <2> QED
    BY <1>4, <2>1, <2>2, <2>3, ReturnsStep
<1>8. CASE Served(c)
  <2> PICK next : next = Promoted(pool[p], r.key)
    OBVIOUS
  <2>1. IsPool(next) /\ r.pc = "wire"
    BY <1>1, <1>2, <1>8, PoolKept DEF Served
  <2>2. /\ UNCHANGED <<vendor, model_name, call_epoch, flag>>
        /\ pool' = pool \/ pool' = [pool EXCEPT ![p] = next]
    BY <1>1, <1>8 DEF Served
  <2>3. Around'
    <3>1. CASE pool' = pool
      BY <2>2, <3>1 DEF Inv, Around
    <3>2. CASE pool' = [pool EXCEPT ![p] = next]
      BY <1>1, <2>1, <2>2, <3>2, PoolChanges
    <3> QED
      BY <2>2, <3>1, <3>2
  <2>4. PICK content \in Contents :
          LET outcome == IF Structured(call[c]) THEN vendor[p].reads[content] ELSE "answer" IN
          IF outcome # "asks" THEN Returns(c, outcome)
          ELSE \E s \in Signatures :
                 call' = [call EXCEPT ![c] = [Back(@, "asks") EXCEPT !.wanted = s]]
    BY <1>8 DEF Served
  <2> PICK outcome : outcome = IF Structured(call[c]) THEN vendor[p].reads[content] ELSE "answer"
    OBVIOUS
  <2>5. outcome \in Outcomes /\ (~Structured(r) => outcome = "answer")
    BY <1>1, VendorsRead DEF Outcomes
  <2>6. CASE outcome # "asks"
    <3>1. PICK x : x = Back(r, outcome)
      OBVIOUS
    <3>2. call' = [call EXCEPT ![c] = x]
      BY <1>1, <2>4, <2>6, <3>1 DEF Returns
    <3>3. Fine(x)
      BY <1>1, <2>1, <2>5, <2>6, <3>1, BackIsFine
    <3> QED
      BY <2>3, <3>2, <3>3, OneMoves
  <2>7. CASE outcome = "asks"
    <3>1. PICK s \in Signatures :
            call' = [call EXCEPT ![c] = [Back(@, "asks") EXCEPT !.wanted = s]]
      BY <2>4, <2>7
    <3>2. PICK x : x = [Back(r, "asks") EXCEPT !.wanted = s]
      OBVIOUS
    <3>3. call' = [call EXCEPT ![c] = x]
      BY <1>1, <3>1, <3>2
    <3>4. Fine(x)
      BY <1>1, <2>1, <2>5, <2>7, <3>2, BackIsFine
    <3> QED
      BY <2>3, <3>3, <3>4, OneMoves
  <2> QED
    BY <2>6, <2>7
<1>9. CASE Broken(c)
  <2>1. PICK outcome \in {"broken", "transient"} :
          (outcome = "transient" => Structured(call[c])) /\ Returns(c, outcome)
    BY <1>9 DEF Broken
  <2>2. Around' /\ r.pc = "wire"
    BY <1>9 DEF Inv, Around, Broken
  <2> QED
    BY <1>4, <2>1, <2>2, ReturnsStep
<1>10. Limited(c) \/ Lost(c) \/ Refused(c) \/ Served(c) \/ Broken(c)
  BY DEF Reply
<1> QED
  BY <1>5, <1>6, <1>7, <1>8, <1>9, <1>10

LEMMA PollStep ==
  ASSUME Inv, NEW c \in Calls, Poll(c)
  PROVE  Inv'
<1> PICK r : r = call[c]
  OBVIOUS
<1>1. r \in Call /\ EndsAs(c, r, "cancelled") /\ UNCHANGED <<vendor, pool, flag>>
  BY DEF Inv, Poll
<1>2. "cancelled" \in Outcomes \cup {Nothing, "failed"}
  BY DEF Outcomes
<1> QED
  BY <1>1, <1>2, EndsStep

LEMMA AnswerComesStep ==
  ASSUME Inv, NEW c \in Calls, AnswerComes(c)
  PROVE  Inv'
<1> PICK r, outcome : /\ r = call[c]
                      /\ outcome = IF ~Legacy(r) /\ CancellationRequested(r) THEN "cancelled"
                                   ELSE IF r.last_try THEN "answer" ELSE r.outcome
  OBVIOUS
<1>1. r \in Call /\ EndsAs(c, r, outcome) /\ UNCHANGED <<vendor, pool, flag>>
  BY DEF Inv, AnswerComes
<1>2. outcome \in Outcomes \cup {Nothing, "failed"}
  BY DEF AnswerComes, Done, Outcomes
<1>3. r.kind = "disclosing" => outcome # "asks"
  BY DEF AnswerComes, Done, Legacy
<1> QED
  BY <1>1, <1>2, <1>3, EndsStep

\* The loop of investigations goes on with a request of no excluded model.
LEMMA NextIterationStep ==
  ASSUME Inv, NEW c \in Calls, NEW r \in Call, Asks(c, NextIteration(r)),
         UNCHANGED <<vendor, pool, flag>>
  PROVE  Inv'
<1> PICK x : x = NextIteration(r)
  OBVIOUS
<1>1. x \in Call /\ Within(x) /\ x.model \notin x.excluded
  BY NextIterationIsFine
<1> QED
  BY <1>1, AsksStep

LEMMA InvestigationAskedStep ==
  ASSUME Inv, NEW c \in Calls, InvestigationAsked(c)
  PROVE  Inv'
<1> PICK r, type : r = call[c] /\ type = TypeOf[r.wanted]
  OBVIOUS
<1>1. Fine(r) /\ r \in Call /\ DOMAIN call = Calls /\ r.pc = "back" /\ r.outcome = "asks"
  BY DEF Inv, InvestigationAsked, Done
<1>2. r.wanted \in Signatures
  BY <1>1 DEF Fine
<1>3. UNCHANGED <<vendor, pool, flag>>
  BY DEF InvestigationAsked
<1>4. \/ Asks(c, NextIteration([r EXCEPT !.barred = @ \cup {type}]))
      \/ call' = [call EXCEPT ![c].pc = "probing"] /\ UNCHANGED <<model_name, call_epoch>>
  BY DEF InvestigationAsked
<1>5. CASE Asks(c, NextIteration([r EXCEPT !.barred = @ \cup {type}]))
  <2> PICK x : x = [r EXCEPT !.barred = @ \cup {type}]
    OBVIOUS
  <2>1. r.barred \cup {type} \in SUBSET {TypeOf[s] : s \in Signatures}
    BY <1>1, <1>2 DEF Call
  <2>2. x \in Call
    BY <1>1, <2>1 DEF Call
  <2> QED
    BY <1>3, <1>5, <2>2, NextIterationStep
<1>6. CASE call' = [call EXCEPT ![c].pc = "probing"] /\ UNCHANGED <<model_name, call_epoch>>
  <2> PICK x : x = [r EXCEPT !.pc = "probing"]
    OBVIOUS
  <2>1. call' = [call EXCEPT ![c] = x]
    BY <1>1, <1>6
  <2>2. x \in Call /\ x.pc = "probing" /\ x.kind = r.kind /\ x.attempt = r.attempt
        /\ x.model = r.model /\ x.excluded = r.excluded /\ x.wanted = r.wanted
    BY <1>1 DEF Call, Pcs
  <2>3. Fine(x)
    BY <1>1, <1>2, <2>2 DEF Fine, Within, Structured
  <2>4. Around'
    BY <1>3, <1>6 DEF Inv, Around
  <2> QED
    BY <2>1, <2>3, <2>4, OneMoves
<1> QED
  BY <1>4, <1>5, <1>6

LEMMA InvestigatedStep ==
  ASSUME Inv, NEW c \in Calls, Investigated(c)
  PROVE  Inv'
<1> PICK r, x : r = call[c] /\ x = [r EXCEPT !.last = r.wanted]
  OBVIOUS
<1>1. Fine(r) /\ r \in Call /\ r.pc = "probing" /\ UNCHANGED <<vendor, pool, flag>>
  BY DEF Inv, Investigated
<1>2. x \in Call
  BY <1>1 DEF Call
<1>3. "cancelled" \in Outcomes \cup {Nothing, "failed"}
  BY DEF Outcomes
<1>4. \/ Asks(c, NextIteration(x)) \/ Asks(c, NextIteration(r)) \/ EndsAs(c, r, "cancelled")
  BY DEF Investigated
<1> QED
  BY <1>1, <1>2, <1>3, <1>4, NextIterationStep, EndsStep

\* A fallback leaves the model that is excluded for one that is not.
LEMMA FallbackStep ==
  ASSUME Inv, NEW c \in Calls, NEW r \in Call, Within(r), NEW excluded \in SUBSET Models,
         Fallback(c, r, excluded), UNCHANGED <<vendor, pool, flag>>
  PROVE  Inv'
<1>1. CASE Candidates(excluded) # {}
  <2> PICK best, x : best = Best(excluded) /\ x = [r EXCEPT !.excluded = excluded, !.model = best]
    OBVIOUS
  <2>1. best \in Models \ excluded
    BY <1>1, TheBestIsLeft
  <2>2. x \in Call /\ x.kind = r.kind /\ x.attempt = r.attempt /\ x.model \notin x.excluded
    BY <2>1 DEF Call
  <2>3. Within(x)
    BY <2>2 DEF Within, Structured
  <2>4. Asks(c, x)
    BY <1>1 DEF Fallback
  <2> QED
    BY <2>2, <2>3, <2>4, AsksStep
<1>2. CASE ~(Candidates(excluded) # {})
  <2>1. EndsAs(c, r, "failed")
    BY <1>2 DEF Fallback
  <2> QED
    BY <2>1, EndsStep
<1> QED
  BY <1>1, <1>2

\* Unless it was the last, the attempt after this one is within the limit.
LEMMA NextAttemptIsFine ==
  ASSUME NEW r, Fine(r), r.pc # "over", Structured(r), ~LastAttempt(r)
  PROVE  /\ NextAttempt(r) \in Call /\ Within(NextAttempt(r))
         /\ NextAttempt(r).model \notin NextAttempt(r).excluded
<1>1. r \in Call /\ r.model \notin r.excluded /\ r.attempt < MaxAttempts
  BY DEF Fine, Within
<1>2. r.attempt + 1 \in 0..MaxAttempts /\ r.attempt + 1 < MaxAttempts
  BY <1>1, Numbers DEF Call, LastAttempt
<1> PICK x : x = [r EXCEPT !.attempt = @ + 1]
  OBVIOUS
<1>3. x \in Call /\ x.kind = r.kind /\ x.attempt = r.attempt + 1
      /\ x.model = r.model /\ x.excluded = r.excluded
  BY <1>1, <1>2 DEF Call
<1> QED
  BY <1>1, <1>2, <1>3 DEF NextAttempt, Within, Structured

LEMMA QuotaSpentStep ==
  ASSUME Inv, NEW c \in Calls, QuotaSpent(c)
  PROVE  Inv'
<1> PICK r, excluded : r = call[c] /\ excluded = r.excluded \cup {r.model}
  OBVIOUS
<1>1. Fine(r) /\ r \in Call /\ r.pc = "back" /\ UNCHANGED <<vendor, pool, flag>>
  BY DEF Inv, QuotaSpent, Done
<1>2. excluded \in SUBSET Models
  BY <1>1 DEF Call
<1>3. \/ EndsAs(c, r, "failed")
      \/ ~Structured(r) /\ Fallback(c, [r EXCEPT !.attempt = 0], excluded)
      \/ Structured(r) /\ ~LastAttempt(r) /\ Fallback(c, NextAttempt(r), excluded)
      \/ Candidates(excluded) # {} /\ EndsAs(c, [r EXCEPT !.model = Best(excluded)], Nothing)
  BY DEF QuotaSpent
<1>4. CASE EndsAs(c, r, "failed")
  BY <1>1, <1>4, EndsStep
<1>5. CASE ~Structured(r) /\ Fallback(c, [r EXCEPT !.attempt = 0], excluded)
  <2> PICK x : x = [r EXCEPT !.attempt = 0]
    OBVIOUS
  <2>1. 0 \in 0..MaxAttempts
    BY Numbers
  <2>2. x \in Call /\ x.attempt = 0 /\ x.kind = r.kind
    BY <1>1, <2>1 DEF Call
  <2>3. Within(x)
    BY <1>5, <2>2 DEF Within, Structured
  <2> QED
    BY <1>1, <1>2, <1>5, <2>2, <2>3, FallbackStep
<1>6. CASE Structured(r) /\ ~LastAttempt(r) /\ Fallback(c, NextAttempt(r), excluded)
  <2> PICK x : x = NextAttempt(r)
    OBVIOUS
  <2>1. x \in Call /\ Within(x)
    BY <1>1, <1>6, NextAttemptIsFine
  <2> QED
    BY <1>1, <1>2, <1>6, <2>1, FallbackStep
<1>7. CASE Candidates(excluded) # {} /\ EndsAs(c, [r EXCEPT !.model = Best(excluded)], Nothing)
  <2> PICK best, x : best = Best(excluded) /\ x = [r EXCEPT !.model = best]
    OBVIOUS
  <2>1. best \in Models
    BY <1>7, TheBestIsLeft
  <2>2. x \in Call
    BY <1>1, <2>1 DEF Call
  <2> QED
    BY <1>1, <1>7, <2>2, EndsStep DEF Nothing
<1> QED
  BY <1>3, <1>4, <1>5, <1>6, <1>7

LEMMA InvalidStep ==
  ASSUME Inv, NEW c \in Calls, Invalid(c)
  PROVE  Inv'
<1> PICK r : r = call[c]
  OBVIOUS
<1>1. /\ Fine(r) /\ r \in Call /\ r.pc = "back" /\ r.outcome = "invalid"
      /\ UNCHANGED <<vendor, pool, flag>>
  BY DEF Inv, Invalid, Done
<1>2. Structured(r)
  BY <1>1 DEF Fine
<1>3. \/ EndsAs(c, r, "failed")
      \/ ~LastAttempt(r) /\ Asks(c, NextAttempt(r))
  BY DEF Invalid
<1>4. CASE EndsAs(c, r, "failed")
  BY <1>1, <1>4, EndsStep
<1>5. CASE ~LastAttempt(r) /\ Asks(c, NextAttempt(r))
  <2> PICK x : x = NextAttempt(r)
    OBVIOUS
  <2>1. x \in Call /\ Within(x) /\ x.model \notin x.excluded
    BY <1>1, <1>2, <1>5, NextAttemptIsFine
  <2> QED
    BY <1>1, <1>5, <2>1, AsksStep
<1> QED
  BY <1>3, <1>4, <1>5

LEMMA TransientStep ==
  ASSUME Inv, NEW c \in Calls, Transient(c)
  PROVE  Inv'
<1> PICK r : r = call[c]
  OBVIOUS
<1>1. /\ Fine(r) /\ r \in Call /\ r.pc = "back" /\ DOMAIN call = Calls
      /\ UNCHANGED <<vendor, pool, flag>>
  BY DEF Inv, Transient, Done
<1>2. \/ EndsAs(c, r, "failed")
      \/ /\ IF Structured(r) THEN ~LastAttempt(r) ELSE r.attempt = 0
         /\ call' = [call EXCEPT ![c].pc = "pause", ![c].attempt = @ + 1]
         /\ UNCHANGED <<model_name, call_epoch>>
  BY DEF Transient
<1>3. CASE EndsAs(c, r, "failed")
  BY <1>1, <1>3, EndsStep
<1>4. CASE /\ IF Structured(r) THEN ~LastAttempt(r) ELSE r.attempt = 0
           /\ call' = [call EXCEPT ![c].pc = "pause", ![c].attempt = @ + 1]
           /\ UNCHANGED <<model_name, call_epoch>>
  <2> PICK x : x = [r EXCEPT !.pc = "pause", !.attempt = @ + 1]
    OBVIOUS
  <2>1. call' = [call EXCEPT ![c] = x]
    BY <1>1, <1>4
  <2>2. /\ r.attempt + 1 \in 0..MaxAttempts
        /\ IF Structured(r) THEN r.attempt + 1 < MaxAttempts ELSE r.attempt + 1 <= 1
    BY <1>1, <1>4, Numbers DEF Fine, Within, Call, LastAttempt
  <2>3. x \in Call /\ x.pc = "pause" /\ x.kind = r.kind /\ x.attempt = r.attempt + 1
        /\ x.model = r.model /\ x.excluded = r.excluded
    BY <1>1, <2>2 DEF Call, Pcs
  <2>4. Within(x)
    BY <2>2, <2>3 DEF Within, Structured
  <2>5. Fine(x)
    BY <1>1, <2>3, <2>4 DEF Fine
  <2>6. Around'
    BY <1>1, <1>4 DEF Inv, Around
  <2> QED
    BY <2>1, <2>5, <2>6, OneMoves
<1> QED
  BY <1>2, <1>3, <1>4

LEMMA ResumeStep ==
  ASSUME Inv, NEW c \in Calls, Resume(c)
  PROVE  Inv'
<1> PICK r : r = call[c]
  OBVIOUS
<1>1. /\ r \in Call /\ Within(r) /\ r.model \notin r.excluded /\ DOMAIN call = Calls
      /\ UNCHANGED <<vendor, pool, flag>>
  BY DEF Inv, Fine, Resume
<1>2. CASE Structured(r)
  <2>1. Asks(c, r)
    BY <1>2 DEF Resume
  <2> QED
    BY <1>1, <2>1, AsksStep
<1>3. CASE ~Structured(r)
  <2> PICK x : x = [r EXCEPT !.pc = "scheduled"]
    OBVIOUS
  <2>1. call' = [call EXCEPT ![c] = x] /\ UNCHANGED <<model_name, call_epoch>>
    BY <1>1, <1>3 DEF Resume
  <2>2. Fine(x)
    BY <1>1, ScheduledIsFine
  <2>3. Around'
    BY <1>1, <2>1 DEF Inv, Around
  <2> QED
    BY <2>1, <2>2, <2>3, OneMoves
<1> QED
  BY <1>2, <1>3

LEMMA RaisedStep ==
  ASSUME Inv, NEW c \in Calls, Raised(c)
  PROVE  Inv'
<1> PICK r, outcome : r = call[c] /\ outcome = IF r.outcome = "cancelled" THEN "cancelled" ELSE "failed"
  OBVIOUS
<1>1. r \in Call /\ EndsAs(c, r, outcome) /\ UNCHANGED <<vendor, pool, flag>>
  BY DEF Inv, Raised
<1>2. outcome \in Outcomes \cup {Nothing, "failed"} /\ outcome # "asks"
  BY DEF Outcomes
<1> QED
  BY <1>1, <1>2, EndsStep

\* The epoch moves under all of the calls.
LEMMA EpochStep ==
  ASSUME Inv, flag' \in BOOLEAN, EpochMoves
  PROVE  Inv'
<1>1. Around'
  BY DEF Inv, Around, EpochMoves
<1>2. ASSUME NEW c \in Calls PROVE Fine(call'[c])
  <2> PICK r, x : r = call[c] /\ x = [r EXCEPT !.current = FALSE]
    OBVIOUS
  <2>1. Fine(r) /\ r \in Call
    BY DEF Inv
  <2>2. x \in Call /\ x.pc = r.pc /\ x.kind = r.kind /\ x.last_try = r.last_try
        /\ x.attempt = r.attempt /\ x.model = r.model /\ x.excluded = r.excluded
        /\ x.outcome = r.outcome /\ x.key = r.key /\ x.tries = r.tries /\ x.wanted = r.wanted
    BY <2>1 DEF Call
  <2>3. Fine(x)
    BY <2>1, <2>2 DEF Fine, Within, Structured
  <2> QED
    BY <2>3 DEF EpochMoves
<1>3. call' \in [Calls -> Call]
  BY <1>2 DEF EpochMoves, Fine
<1> QED
  BY <1>1, <1>2, <1>3, Zenon DEF Inv, Fine, Within, Structured

LEMMA AroundStep ==
  ASSUME Inv, Tick \/ Others
  PROVE  Inv'
<1>1. CASE Tick
  <2>1. \A p \in Providers : IsPool(Elapsed(pool[p]))
    BY TimePasses DEF Inv, Around
  <2>2. Around'
    BY <1>1, <2>1 DEF Inv, Around, Tick
  <2> QED
    BY <1>1, <2>2 DEF Inv, Tick
<1>2. CASE OthersAsk
  <2>1. PICK m \in Models : /\ model_name' = [model_name EXCEPT ![ProviderOf[m]] = m]
                            /\ call_epoch' = [call_epoch EXCEPT ![ProviderOf[m]] = TRUE]
                            /\ UNCHANGED <<vendor, pool, flag, call>>
    BY <1>2 DEF OthersAsk
  <2>2. Around'
    BY <2>1 DEF Inv, Around
  <2> QED
    BY <2>1, <2>2 DEF Inv
<1>3. CASE OthersUseKeys
  <2>1. PICK p \in Providers, k \in Keys :
          /\ pool' \in {[pool EXCEPT ![p] = NoteRateLimit(@, k)],
                        [pool EXCEPT ![p] = Rested(@, k, NetworkRest)],
                        [pool EXCEPT ![p] = Rested(@, k, AuthRest)],
                        [pool EXCEPT ![p] = Promoted(@, k)]}
          /\ UNCHANGED <<vendor, model_name, call_epoch, flag, call>>
    BY <1>3 DEF OthersUseKeys
  <2>2. DOMAIN pool = Providers /\ IsPool(pool[p])
    BY DEF Inv, Around
  <2>3. PICK next : /\ next \in {NoteRateLimit(pool[p], k), Rested(pool[p], k, NetworkRest),
                                 Rested(pool[p], k, AuthRest), Promoted(pool[p], k)}
                    /\ pool' = [pool EXCEPT ![p] = next]
    BY <2>1, <2>2
  <2>4. IsPool(next)
    BY <2>2, <2>3, PoolKept, Rest
  <2>5. Around'
    BY <2>1, <2>3, <2>4, PoolChanges
  <2> QED
    BY <2>1, <2>5 DEF Inv
<1> QED
  BY <1>1, <1>2, <1>3 DEF Others

-----------------------------------------------------------------------------
(* The theorems.                                                             *)

\* The invariant is kept by every step of every call and of what is around.
THEOREM Invariance == Spec => []Inv
<1>1. Init => Inv
  BY Initially
<1>2. Inv /\ [Next]_vars => Inv'
  <2> SUFFICES ASSUME Inv, [Next]_vars PROVE Inv'
    OBVIOUS
  <2>1. CASE Stop \/ NewTurn
    <3>1. flag' \in BOOLEAN /\ EpochMoves
      BY <2>1 DEF Stop, NewTurn
    <3> QED
      BY <3>1, EpochStep
  <2>2. CASE Tick \/ Others
    BY <2>2, AroundStep
  <2>3. ASSUME NEW c \in Calls, Begin(c) PROVE Inv'
    BY <2>3, BeginStep, LlmAssumption
  <2>4. ASSUME NEW c \in Calls, Step(c) PROVE Inv'
    BY <2>4, SendStep, GiveUpStep, ReplyStep, PollStep, AnswerComesStep,
       InvestigationAskedStep, InvestigatedStep, QuotaSpentStep, InvalidStep, TransientStep,
       ResumeStep, RaisedStep DEF Step
  <2>5. CASE UNCHANGED vars
    BY <2>5 DEF vars, Inv, Around, Fine, Within, Structured
  <2> QED
    BY <2>1, <2>2, <2>3, <2>4, <2>5 DEF Next
<1> QED
  BY <1>1, <1>2, PTL DEF Spec

\* Every key keeps one place in the order of its pool, whichever calls demote,
\* rest and promote it (BaseProvider's key pool), and every call stays within
\* its attempts, its iterations and its keys.
THEOREM TypeCorrect == Spec => []TypeOK
<1>1. Inv => TypeOK
  BY DEF Inv, Around, TypeOK
<1> QED
  BY <1>1, Invariance, PTL

\* A call does not go back to a model that told it that its quota is spent.
THEOREM TheSpentAreLeft == Spec => []SpentModelsAreLeft
<1>1. Inv => SpentModelsAreLeft
  BY DEF Inv, Fine, SpentModelsAreLeft
<1> QED
  BY <1>1, Invariance, PTL

\* What the loop of investigations returns asks for none, however many
\* investigations, attempts, fallbacks and stops it went through.
THEOREM TheLoopAnswers == Spec => []FinalAnswersAskNothing
<1>1. Inv => FinalAnswersAskNothing
  BY DEF Inv, Fine, FinalAnswersAskNothing
<1> QED
  BY <1>1, Invariance, PTL
=============================================================================
