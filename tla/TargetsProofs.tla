---------------------------- MODULE TargetsProofs ----------------------------
(***************************************************************************)
(* What holds of targets for every set of targets, references, names,      *)
(* tools, contracts and plans: the index of the registry is true           *)
(* (TheRegistryIsSound), it holds what the freshest answer told            *)
(* (TheFreshestWins), and a call carries the target its step chose         *)
(* (TheChosenIsMeant).                                                     *)
(*                                                                         *)
(* An answer is applied by two folds, over the targets it reports and over *)
(* those it says are gone.  FoldSteps gives the steps of such a fold, and  *)
(* each invariant of the registry is carried along them: Fine, the types   *)
(* and the index; Faithful, which ties every entry to what the host said   *)
(* and every target that keeps its references to itself to its one entry;  *)
(* Stays and Grown, which say that a name is never another target's.       *)
(***************************************************************************)
EXTENDS Targets, FiniteSetTheorems, SequenceTheorems, TLAPS

-----------------------------------------------------------------------------
(* Folds over the items of an answer                                         *)

LEMMA Least ==
  ASSUME NEW T \in SUBSET Nat, T # {}
  PROVE  \E m \in T : \A n \in T : m <= n
<1>1. IsWellFoundedOn(OpToRel(<, Nat), Nat)
  BY NatLessThanWellFounded
<1>3. \E m \in T : \A n \in T : ~(<<n, m>> \in OpToRel(<, Nat))
  BY <1>1, WFMin
<1>4. ASSUME NEW m \in T, NEW n \in T, n < m PROVE <<n, m>> \in OpToRel(<, Nat)
  <2>1. <<n, m>> \in Nat \X Nat /\ <<n, m>>[1] = n /\ <<n, m>>[2] = m
    OBVIOUS
  <2> QED
    BY <1>4, <2>1 DEF OpToRel
<1>5. PICK m \in T : \A n \in T : ~(n < m)
  BY <1>3, <1>4
<1> QED
  BY <1>5

\* One thing an answer does: a target of it is registered, or, when it tells
\* the generation of its updates, a target of it is gone.
Does(gen, acc, x) == IF gen = NoGen THEN Register(acc, x) ELSE Invalidate(acc, Update(x, gen))

\* How a fold defines its value on a set of places, from smaller sets.
Passing(gen, list, base, s, g) ==
  IF s = {} THEN base ELSE Does(gen, g[s \ {Max(s)}], list[Max(s)])

Trace(gen, list, base, n, g) ==
  g = [s \in SUBSET (1..n) |-> Passing(gen, list, base, s, g)]

LEMMA MaxIs ==
  ASSUME NEW k \in Nat, NEW s, s \in SUBSET (1..k), k \in s
  PROVE  Max(s) = k
<1>1. \A y \in s : k >= y
  OBVIOUS
<1>2. \A x \in s : (\A y \in s : x >= y) => x = k
  OBVIOUS
<1> QED
  BY <1>1, <1>2 DEF Max

LEMMA TraceExists ==
  ASSUME NEW gen, NEW list, NEW base, NEW n \in Nat
  PROVE  \E g : Trace(gen, list, base, n, g)
<1> USE DEF Trace
<1> DEFINE T == {k \in Nat : ~ \E g : g = [s \in SUBSET (1..k) |-> Passing(gen, list, base, s, g)]}
<1>1. CASE T = {}
  BY <1>1
<1>2. CASE T # {}
  <2>1. PICK k \in T : \A j \in T : k <= j
    <3>1. T \in SUBSET Nat
      OBVIOUS
    <3> HIDE DEF T
    <3> QED
      BY <1>2, <3>1, Least
  <2>2. k # 0
    <3> SUFFICES ASSUME k = 0 PROVE FALSE
      OBVIOUS
    <3> PICK g : g = [s \in SUBSET (1..k) |-> base]
      OBVIOUS
    <3>1. g = [s \in SUBSET (1..k) |-> Passing(gen, list, base, s, g)]
      BY DEF Passing
    <3> QED
      BY <3>1
  <2>3. k - 1 \in Nat /\ k - 1 \notin T
    <3>1. k \in Nat /\ \A j \in T : j \in Nat /\ k <= j
      BY <2>1
    <3> HIDE DEF T
    <3> QED
      BY <2>2, <3>1
  <2>4. PICK g : g = [s \in SUBSET (1..(k-1)) |-> Passing(gen, list, base, s, g)]
    BY <2>3
  <2>5. PICK h : h = [s \in SUBSET (1..k) |->
                 IF k \in s THEN Does(gen, g[s \ {k}], list[k]) ELSE g[s]]
    OBVIOUS
  <2>6. ASSUME NEW s \in SUBSET (1..k) PROVE h[s] = Passing(gen, list, base, s, h)
    <3>1. CASE k \in s
      <4>1. Max(s) = k
        BY <3>1, MaxIs
      <4>2. s \ {k} \in SUBSET (1..k) /\ k \notin s \ {k}
        OBVIOUS
      <4>3. h[s \ {k}] = g[s \ {k}]
        BY <4>2, <2>5
      <4> QED
        BY <2>5, <3>1, <4>1, <4>3 DEF Passing
    <3>2. CASE k \notin s
      <4>1. s \in SUBSET (1..(k-1))
        BY <2>3, <3>2
      <4>2. h[s] = g[s] /\ g[s] = Passing(gen, list, base, s, g)
        BY <4>1, <3>2, <2>4, <2>5
      <4>3. CASE s = {}
        BY <4>2, <4>3 DEF Passing
      <4>4. CASE s # {}
        <5>1. /\ s \ {Max(s)} \in SUBSET (1..(k-1)) /\ k \notin s \ {Max(s)}
              /\ s \ {Max(s)} \in SUBSET (1..k)
          BY <4>1, <3>2
        <5>2. h[s \ {Max(s)}] = g[s \ {Max(s)}]
          BY <5>1, <2>5
        <5> QED
          BY <4>2, <4>4, <5>2 DEF Passing
      <4> QED
        BY <4>3, <4>4
    <3> QED
      BY <3>1, <3>2
  <2>7. h = [s \in SUBSET (1..k) |-> Passing(gen, list, base, s, h)]
    BY <2>5, <2>6
  <2> QED
    BY <2>1, <2>7
<1> QED
  BY <1>1, <1>2

\* Along the places of the list, a fold does one thing after another.
Steps(gen, list, base, n, acc) ==
  /\ acc[0] = base
  /\ \A i \in 1..n : acc[i] = Does(gen, acc[i - 1], list[i])

LEMMA FoldSteps ==
  ASSUME NEW gen, NEW list, NEW base, NEW n \in Nat, NEW g,
         Trace(gen, list, base, n, g)
  PROVE  \E acc : Steps(gen, list, base, n, acc) /\ acc[n] = g[1..n]
<1> PICK acc : acc = [i \in 0..n |-> g[1..i]]
  OBVIOUS
<1>1. acc[0] = base
  <2>1. 1..0 = {} /\ 1..0 \in SUBSET (1..n)
    OBVIOUS
  <2> QED
    BY <2>1 DEF Trace, Passing
<1>2. ASSUME NEW i \in 1..n PROVE acc[i] = Does(gen, acc[i - 1], list[i])
  <2> i \in Nat /\ i \in 1..i
    OBVIOUS
  <2>1. 1..i \in SUBSET (1..n) /\ 1..i # {}
    OBVIOUS
  <2>2. Max(1..i) = i
    BY <2>1, MaxIs
  <2>3. (1..i) \ {i} = 1..(i - 1) /\ i - 1 \in 0..n /\ i \in 0..n
    OBVIOUS
  <2>4. g[1..i] = Does(gen, g[(1..i) \ {i}], list[i])
    BY <2>1, <2>2 DEF Trace, Passing
  <2> QED
    BY <2>3, <2>4
<1>3. acc[n] = g[1..n]
  OBVIOUS
<1> QED
  BY <1>1, <1>2, <1>3 DEF Steps

LEMMA RegisterSteps ==
  ASSUME NEW base, NEW n \in Nat, NEW list, DOMAIN list = 1..n
  PROVE  \E acc : /\ Steps(NoGen, list, base, n, acc)
                  /\ FoldLeft(Register, base, list) = acc[n]
<1>1. PICK h : Trace(NoGen, list, base, n, h)
  BY TraceExists
<1>2. \E g : /\ Trace(NoGen, list, base, n, g)
             /\ FoldLeft(Register, base, list) = g[1..n]
  BY <1>1 DEF FoldLeft, MapThenFoldSet, Trace, Passing, Does
<1> QED
  BY <1>2, FoldSteps

LEMMA UpdateSteps ==
  ASSUME NEW r, NEW reply, reply.gen # NoGen, NEW n \in Nat, DOMAIN SetToSeq(reply.gone) = 1..n
  PROVE  \E acc : /\ Steps(reply.gen, SetToSeq(reply.gone), r, n, acc)
                  /\ ApplyUpdates(r, reply) = acc[n]
<1> PICK list : list = SetToSeq(reply.gone)
  OBVIOUS
<1>1. PICK h : Trace(reply.gen, list, r, n, h)
  BY TraceExists
<1>2. \E g : /\ Trace(reply.gen, list, r, n, g)
             /\ ApplyUpdates(r, reply) = g[1..n]
  BY <1>1 DEF ApplyUpdates, FoldLeft, MapThenFoldSet, Trace, Passing, Does
<1> QED
  BY <1>2, FoldSteps
\* The items of an answer, one list after another.
Flattens(lists, n, f) ==
  f = [i \in 1..n |-> IF i = 1 THEN lists[i] ELSE f[i - 1] \o lists[i]]

LEMMA FlatExists ==
  ASSUME NEW lists, NEW n \in Nat
  PROVE  \E f : Flattens(lists, n, f)
<1> DEFINE T == {k \in Nat : ~ \E f : Flattens(lists, k, f)}
<1>1. CASE T = {}
  BY <1>1
<1>2. CASE T # {}
  <2>1. PICK k \in T : \A j \in T : k <= j
    <3>1. T \in SUBSET Nat
      OBVIOUS
    <3> HIDE DEF T
    <3> QED
      BY <1>2, <3>1, Least
  <2>2. k # 0
    <3> SUFFICES ASSUME k = 0 PROVE FALSE
      OBVIOUS
    <3> PICK f : f = [i \in 1..k |-> lists[i]]
      OBVIOUS
    <3>1. Flattens(lists, k, f)
      BY DEF Flattens
    <3> QED
      BY <3>1
  <2>3. k - 1 \in Nat /\ k - 1 \notin T
    <3>1. k \in Nat /\ \A j \in T : j \in Nat /\ k <= j
      BY <2>1
    <3> HIDE DEF T
    <3> QED
      BY <2>2, <3>1
  <2>4. PICK g : Flattens(lists, k - 1, g)
    BY <2>3
  <2>5. PICK h : h = [i \in 1..k |-> IF i = 1 THEN lists[i] ELSE g[i - 1] \o lists[i]]
    OBVIOUS
  <2>6. ASSUME NEW i \in 1..k, i # 1 PROVE h[i - 1] = g[i - 1]
    <3>1. i - 1 \in 1..k /\ i - 1 \in 1..(k - 1)
      BY <2>6
    <3>2. g[i - 1] = IF i - 1 = 1 THEN lists[i - 1] ELSE g[(i - 1) - 1] \o lists[i - 1]
      BY <2>4, <3>1 DEF Flattens
    <3> QED
      BY <2>5, <3>1, <3>2
  <2>7. Flattens(lists, k, h)
    BY <2>5, <2>6 DEF Flattens
  <2> QED
    BY <2>1, <2>7
<1> QED
  BY <1>1, <1>2

LEMMA FlatIn ==
  ASSUME NEW S, NEW n \in Nat, NEW lists \in [1..n -> Seq(S)]
  PROVE  FlattenSeq(lists) \in Seq(S)
<1>1. Len(lists) = n /\ lists \in Seq(Seq(S))
  OBVIOUS
<1>2. CASE n = 0
  <2>1. lists = << >>
    BY <1>2
  <2> QED
    BY <1>1, <1>2, <2>1 DEF FlattenSeq
<1>3. CASE n # 0
  <2>1. PICK h : Flattens(lists, n, h)
    BY FlatExists
  <2>2. PICK f : /\ Flattens(lists, n, f)
                 /\ FlattenSeq(lists) = f[n]
    BY <1>1, <1>3, <2>1 DEF FlattenSeq, Flattens
  <2> DEFINE T == {i \in 1..n : f[i] \notin Seq(S)}
  <2>3. T = {}
    <3> SUFFICES ASSUME T # {} PROVE FALSE
      OBVIOUS
    <3>1. PICK i \in T : \A j \in T : i <= j
      <4>1. T \in SUBSET Nat
        OBVIOUS
      <4> HIDE DEF T
      <4> QED
        BY <4>1, Least
    <3>2. i \in 1..n /\ f[i] \notin Seq(S) /\ lists[i] \in Seq(S)
      BY <3>1
    <3>3. i # 1
      BY <2>2, <3>2 DEF Flattens
    <3>4. i - 1 \in 1..n /\ i - 1 \notin T
      BY <3>1, <3>2, <3>3
    <3>5. f[i] = f[i - 1] \o lists[i]
      BY <2>2, <3>2, <3>3 DEF Flattens
    <3> QED
      BY <3>2, <3>4, <3>5
  <2>4. n \in 1..n
    BY <1>3
  <2>5. f[n] \in Seq(S)
    BY <2>3, <2>4
  <2> QED
    BY <2>2, <2>5
<1> QED
  BY <1>2, <1>3

-----------------------------------------------------------------------------
(* What an answer of the host is made of                                     *)

Present(g) == {c \in Corrs : was[g][c] # Gone}

\* The places of the targets, generation by generation, and what was told.
HistoryOK ==
  /\ was \in Seq([Corrs -> Refs \cup {Gone}]) /\ Now >= 1
  /\ \A c \in Corrs : was[1][c] \in Refs /\ was[1][c] # Gone
  /\ \A g \in 1..Now : \A c \in Corrs : was[g][c] # Gone => was[g][c] \in Home[c]
  /\ told \in [Corrs -> 0..Now]

\* An answer tells of the targets there were when it was given.
ReplyOK(reply) ==
  /\ reply.gen \in 1..Now
  /\ reply.items \in Seq(Present(reply.gen))
  /\ reply.gone \subseteq Corrs \ Present(reply.gen)

\* What is read of such a target.
Readings(g) ==
  {item \in [ref : Refs, corr : Corrs \cup {None}, gen : {NoGen, g}, scope : Scopes,
             usable : SUBSET Scopes] :
     /\ \E c \in Present(g) : item.ref = was[g][c] /\ item.corr \in {None, c}
     /\ DatesAreNamed => (item.gen # NoGen => item.corr # None)
     /\ NamesAreDated => (item.corr # None => item.gen # NoGen)}

LEMMA ItemIsReading ==
  ASSUME HistoryOK, NEW t \in Tools, NEW p \in ToSet(Producers(t)), NEW g \in 1..Now,
         NEW c \in Present(g)
  PROVE  Item(p, c, g) \in Readings(g)
<1>1. c \in Corrs /\ was[g][c] \in Refs /\ g # NoGen
  BY DEF HistoryOK, Present, Now, NoGen
<1>2. /\ p.scope \in Scopes \cup {None} /\ p.usable \subseteq Scopes /\ KindOf[c] \in Scopes
  BY <1>1, ContractAssumption, TargetBounds
<1>3. /\ DatesAreNamed => ("generation" \in p.fields => "correlation_id" \in p.fields)
      /\ NamesAreDated => ("correlation_id" \in p.fields => "generation" \in p.fields)
  BY DEF DatesAreNamed, NamesAreDated
<1> PICK item : item = Item(p, c, g)
  OBVIOUS
<1>4. /\ item = [ref |-> was[g][c], corr |-> item.corr, gen |-> item.gen,
                 scope |-> item.scope, usable |-> p.usable]
      /\ item.corr \in {None, c} /\ item.gen \in {NoGen, g} /\ item.scope \in Scopes
      /\ item.ref = was[g][c] /\ item.usable = p.usable
  BY <1>2 DEF Item
<1>5. /\ DatesAreNamed => (item.gen # NoGen => item.corr # None)
      /\ NamesAreDated => (item.corr # None => item.gen # NoGen)
  BY <1>1, <1>3, NoneIsNothing DEF Item
<1>6. item \in [ref : Refs, corr : Corrs \cup {None}, gen : {NoGen, g}, scope : Scopes,
                usable : SUBSET Scopes]
  BY <1>1, <1>2, <1>4
<1> QED
  BY <1>4, <1>5, <1>6 DEF Readings

LEMMA ItemsAreReadings ==
  ASSUME HistoryOK, NEW t \in Tools, NEW reply, ReplyOK(reply)
  PROVE  ItemsOf(t, reply) \in Seq(Readings(reply.gen))
<1> PICK ps : ps = Producers(t)
  OBVIOUS
<1>1. ps \in Seq(ToSet(ps))
  BY ContractAssumption
<1> PICK n \in Nat : n = Len(ps) /\ DOMAIN ps = 1..n
  BY <1>1
<1>2. ASSUME NEW k \in 1..n PROVE ReadBy(ps[k], reply) \in Seq(Readings(reply.gen))
  <2> PICK m : m = IF ps[k].mode = "single" /\ Len(reply.items) > 1 THEN 1 ELSE Len(reply.items)
    OBVIOUS
  <2>1. m \in Nat /\ m <= Len(reply.items) /\ Len(reply.items) \in Nat
    BY DEF ReplyOK
  <2>2. ps[k] \in ToSet(ps)
    BY DEF ToSet
  <2>3. ASSUME NEW i \in 1..m PROVE Item(ps[k], reply.items[i], reply.gen) \in Readings(reply.gen)
    <3>1. reply.items[i] \in Present(reply.gen) /\ reply.gen \in 1..Now
      BY <2>1 DEF ReplyOK
    <3> QED
      BY <2>2, <3>1, ItemIsReading
  <2>4. ReadBy(ps[k], reply) = [i \in 1..m |-> Item(ps[k], reply.items[i], reply.gen)]
    BY DEF ReadBy
  <2> QED
    BY <2>1, <2>3, <2>4
<1> PICK lists : lists = [k \in 1..n |-> ReadBy(ps[k], reply)]
  OBVIOUS
<1>3. lists \in [1..n -> Seq(Readings(reply.gen))]
  BY <1>2
<1>4. ItemsOf(t, reply) = FlattenSeq(lists)
  BY DEF ItemsOf
<1> QED
  BY <1>3, <1>4, FlatIn

LEMMA Listed ==
  ASSUME NEW S, IsFiniteSet(S)
  PROVE  \E n \in Nat : SetToSeq(S) \in [1..n -> S] /\ n = Cardinality(S)
<1>1. PICK n \in Nat : n = Cardinality(S) /\ ExistsBijection(1..n, S)
  BY FS_CardinalityType
<1>2. PICK f \in [1..n -> S] : IsInjective(f)
  BY <1>1 DEF ExistsBijection, Bijection, Injection, IsInjective
<1> QED
  BY <1>1, <1>2 DEF SetToSeq

-----------------------------------------------------------------------------
(* The registry                                                              *)

Fine(r) == r \in Registry /\ Indexed(r)

\* What leads somewhere leads to an entry, and a reference to one that has it.
LEMMA LeadsToKnown ==
  ASSUME NEW r, Fine(r), NEW corr \in Corrs \cup {None}, NEW ref \in Refs \cup {None},
         Led(r, corr, ref) # None
  PROVE  /\ Led(r, corr, ref) \in Names /\ Known(r, Led(r, corr, ref))
         /\ LedByCorr(r, corr) = None =>
              /\ ref # None /\ Led(r, corr, ref) = r.byRef[ref]
              /\ Active(r, Led(r, corr, ref)) /\ r.entries[Led(r, corr, ref)].ref = ref
         /\ LedByCorr(r, corr) # None =>
              corr # None /\ Led(r, corr, ref) = r.byCorr[corr]
BY NoneIsNothing DEF Fine, Registry, Indexed, Led, LedByCorr, Known, Active

LEMMA EntryFields ==
  ASSUME NEW r, r \in Registry, NEW n, Known(r, n)
  PROVE  r.entries[n] \in Entry
BY DEF Registry, Known

LEMMA EmptyIsFine == Fine(Empty)
BY DEF Fine, Empty, Registry, Indexed, Known, Active

LEMMA ReadingTyped ==
  ASSUME NEW g \in Nat, NEW item \in Readings(g)
  PROVE  /\ item.corr \in Corrs \cup {None} /\ item.ref \in Refs /\ item.gen \in Nat
         /\ item.scope \in Scopes /\ item.usable \in SUBSET Scopes
BY DEF Readings, NoGen

\* A report that mints a name enters it and leads its keys to it.
LEMMA MintedIsFine ==
  ASSUME NEW r, Fine(r), NEW g \in Nat, NEW item \in Readings(g), NEW n \in Names, ~Known(r, n),
         LedByCorr(r, item.corr) = None
  PROVE  /\ Fine(Minted(r, n, item))
         /\ \A m \in Names : Known(Minted(r, n, item), m) <=> (m = n \/ Known(r, m))
<1> PICK e : e = [scope |-> item.scope, usable |-> item.usable, ref |-> item.ref,
                  corr |-> item.corr, gen |-> item.gen, active |-> TRUE]
  OBVIOUS
<1> PICK q : q = Minted(r, n, item)
  OBVIOUS
<1>0. /\ item.corr \in Corrs \cup {None} /\ item.ref \in Refs /\ item.gen \in Nat
      /\ item.scope \in Scopes /\ item.usable \in SUBSET Scopes
  BY ReadingTyped
<1>1. e \in Entry /\ e # None /\ item.corr \in Corrs \cup {None} /\ item.ref \in Refs
      /\ e.ref = item.ref /\ e.corr = item.corr /\ e.active
  <2>1. e \in Entry
    BY <1>0 DEF Entry
  <2> QED
    BY <1>0, <2>1, NoneIsNothing
<1>2. /\ q.entries = [r.entries EXCEPT ![n] = e]
      /\ q.byCorr = SetCorr(r.byCorr, item.corr, n)
      /\ q.byRef = [r.byRef EXCEPT ![item.ref] = n]
      /\ q = [entries |-> q.entries, byCorr |-> q.byCorr, byRef |-> q.byRef]
  BY DEF Minted
<1>3. q.entries \in [Names -> Entry \cup {None}] /\ q.byRef \in [Refs -> Names \cup {None}]
  BY <1>1, <1>2 DEF Fine, Registry
<1>4. q.byCorr \in [Corrs -> Names \cup {None}]
  BY <1>1, <1>2 DEF Fine, Registry, SetCorr
<1>5. /\ q.entries[n] = e /\ \A m \in Names \ {n} : q.entries[m] = r.entries[m]
      /\ q.byRef[item.ref] = n /\ \A x \in Refs \ {item.ref} : q.byRef[x] = r.byRef[x]
      /\ \A c \in Corrs : q.byCorr[c] = IF c = item.corr THEN n ELSE r.byCorr[c]
  BY <1>1, <1>2, NoneIsNothing DEF Fine, Registry, SetCorr
<1>6. \A m \in Names : Known(q, m) <=> (m = n \/ Known(r, m))
  BY <1>1, <1>5 DEF Known
<1>7. ASSUME NEW x \in Refs, q.byRef[x] # None
      PROVE  Active(q, q.byRef[x]) /\ q.entries[q.byRef[x]].ref = x
  <2>1. CASE x = item.ref
    BY <2>1, <1>1, <1>5, <1>6 DEF Active
  <2>2. CASE x # item.ref
    <3>1. r.byRef[x] # None /\ q.byRef[x] = r.byRef[x]
      BY <1>5, <1>7, <2>2
    <3>2. Active(r, r.byRef[x]) /\ r.entries[r.byRef[x]].ref = x
      BY <3>1 DEF Fine, Indexed
    <3>3. r.byRef[x] # n /\ r.byRef[x] \in Names
      BY <3>2 DEF Active, Known
    <3> QED
      BY <1>5, <1>6, <3>1, <3>2, <3>3 DEF Active
  <2> QED
    BY <2>1, <2>2
<1>8. ASSUME NEW m \in Names, Known(q, m), q.entries[m].corr # None
      PROVE  q.byCorr[q.entries[m].corr] = m
  <2>1. CASE m = n
    BY <2>1, <1>1, <1>5, <1>8
  <2>2. CASE m # n
    <3>1. Known(r, m) /\ q.entries[m] = r.entries[m]
      BY <1>5, <1>6, <1>8, <2>2
    <3> PICK c : c = r.entries[m].corr
      OBVIOUS
    <3>2. r.byCorr[c] = m /\ c # None /\ c \in Corrs
      BY <3>1, <1>8, EntryFields DEF Fine, Indexed, Entry
    <3>3. c # item.corr
      BY <3>2, <1>1, NoneIsNothing DEF LedByCorr
    <3> QED
      BY <1>5, <3>1, <3>2, <3>3
  <2> QED
    BY <2>1, <2>2
<1>9. ASSUME NEW c \in Corrs, q.byCorr[c] # None PROVE Known(q, q.byCorr[c])
  <2>1. CASE c = item.corr
    BY <2>1, <1>5, <1>6
  <2>2. CASE c # item.corr
    BY <2>2, <1>5, <1>6, <1>9 DEF Fine, Indexed, Known
  <2> QED
    BY <2>1, <2>2
<1>10. Fine(q)
  BY <1>2, <1>3, <1>4, <1>7, <1>8, <1>9 DEF Fine, Registry, Indexed
<1> QED
  BY <1>6, <1>10

\* A report that refreshes an entry moves its reference and leads its keys to it.
LEMMA RefreshedIsFine ==
  ASSUME NEW r, Fine(r), NEW g \in Nat, NEW item \in Readings(g), NEW n,
         n = Led(r, item.corr, item.ref), n # None
  PROVE  /\ Fine(Refreshed(r, n, item)) /\ n \in Names
         /\ \A m \in Names : Known(Refreshed(r, n, item), m) <=> Known(r, m)
<1> PICK old : old = r.entries[n]
  OBVIOUS
<1> PICK corr : corr = IF item.corr # None THEN item.corr ELSE old.corr
  OBVIOUS
<1> PICK e : e = [scope |-> item.scope, usable |-> item.usable, ref |-> item.ref, corr |-> corr,
                  gen |-> IF item.gen # NoGen THEN item.gen ELSE old.gen, active |-> TRUE]
  OBVIOUS
<1> PICK q : q = Refreshed(r, n, item)
  OBVIOUS
<1>0. /\ item.corr \in Corrs \cup {None} /\ item.ref \in Refs /\ item.gen \in Nat
      /\ item.scope \in Scopes /\ item.usable \in SUBSET Scopes
  BY ReadingTyped
<1>1. n \in Names /\ Known(r, n) /\ old \in Entry
  BY <1>0, LeadsToKnown, EntryFields DEF Fine
<1>2. old.corr \in Corrs \cup {None} /\ old.ref \in Refs /\ old.gen \in Nat
  BY <1>1 DEF Entry
<1>3. e \in Entry /\ e # None /\ corr \in Corrs \cup {None}
      /\ e.ref = item.ref /\ e.corr = corr /\ e.active
  <2>1. e \in Entry
    BY <1>0, <1>2 DEF Entry
  <2> QED
    BY <1>0, <1>2, <2>1, NoneIsNothing
<1>4. /\ q.entries = [r.entries EXCEPT ![n] = e]
      /\ q.byCorr = SetCorr(r.byCorr, corr, n)
      /\ q.byRef = [r.byRef EXCEPT ![old.ref] = None, ![item.ref] = n]
      /\ q = [entries |-> q.entries, byCorr |-> q.byCorr, byRef |-> q.byRef]
  BY DEF Refreshed
<1>5. q.entries \in [Names -> Entry \cup {None}] /\ q.byRef \in [Refs -> Names \cup {None}]
  BY <1>0, <1>1, <1>2, <1>3, <1>4 DEF Fine, Registry
<1>6. q.byCorr \in [Corrs -> Names \cup {None}]
  BY <1>1, <1>3, <1>4 DEF Fine, Registry, SetCorr
<1>7. /\ q.entries[n] = e /\ \A m \in Names \ {n} : q.entries[m] = r.entries[m]
      /\ q.byRef[item.ref] = n
      /\ \A x \in Refs \ {item.ref} : q.byRef[x] = IF x = old.ref THEN None ELSE r.byRef[x]
  BY <1>0, <1>1, <1>2, <1>4 DEF Fine, Registry
<1>8. \A c \in Corrs : q.byCorr[c] = IF c = corr THEN n ELSE r.byCorr[c]
  BY <1>3, <1>4, NoneIsNothing DEF Fine, Registry, SetCorr
<1>9. \A m \in Names : Known(q, m) <=> Known(r, m)
  BY <1>1, <1>3, <1>7 DEF Known
<1>10. ASSUME NEW x \in Refs, q.byRef[x] # None
       PROVE  Active(q, q.byRef[x]) /\ q.entries[q.byRef[x]].ref = x
  <2>1. CASE x = item.ref
    BY <2>1, <1>1, <1>3, <1>7, <1>9 DEF Active
  <2>2. CASE x # item.ref
    <3>1. r.byRef[x] # None /\ q.byRef[x] = r.byRef[x] /\ x # old.ref
      BY <1>7, <1>10, <2>2
    <3>2. Active(r, r.byRef[x]) /\ r.entries[r.byRef[x]].ref = x
      BY <3>1 DEF Fine, Indexed
    <3>3. r.byRef[x] # n /\ r.byRef[x] \in Names
      BY <3>1, <3>2 DEF Active, Known
    <3> QED
      BY <1>7, <1>9, <3>1, <3>2, <3>3 DEF Active
  <2> QED
    BY <2>1, <2>2
<1>11. ASSUME NEW m \in Names, Known(q, m), q.entries[m].corr # None
       PROVE  q.byCorr[q.entries[m].corr] = m
  <2>1. CASE m = n
    BY <2>1, <1>3, <1>7, <1>8, <1>11
  <2>2. CASE m # n
    <3>1. Known(r, m) /\ q.entries[m] = r.entries[m]
      BY <1>7, <1>9, <1>11, <2>2
    <3> PICK c : c = r.entries[m].corr
      OBVIOUS
    <3>2. r.byCorr[c] = m /\ c # None /\ c \in Corrs
      BY <3>1, <1>11, EntryFields DEF Fine, Indexed, Entry
    <3>3. c # item.corr
      BY <3>2, <2>2, <1>1, NoneIsNothing DEF LedByCorr, Led
    <3>4. c # old.corr
      BY <3>2, <2>2, <1>1 DEF Fine, Indexed
    <3> QED
      BY <1>8, <3>1, <3>2, <3>3, <3>4
  <2> QED
    BY <2>1, <2>2
<1>12. ASSUME NEW c \in Corrs, q.byCorr[c] # None PROVE Known(q, q.byCorr[c])
  <2>1. CASE c = corr
    BY <2>1, <1>1, <1>8, <1>9
  <2>2. CASE c # corr
    BY <2>2, <1>8, <1>9, <1>12 DEF Fine, Indexed, Known
  <2> QED
    BY <2>1, <2>2
<1>13. Fine(q)
  BY <1>4, <1>5, <1>6, <1>10, <1>11, <1>12 DEF Fine, Registry, Indexed
<1> QED
  BY <1>1, <1>9, <1>13

\* A target that is gone leaves an entry no reference leads to.
LEMMA InvalidateIsFine ==
  ASSUME NEW r, Fine(r), NEW update, update.corr \in Corrs \cup {None},
         update.ref \in Refs \cup {None}
  PROVE  LET q == Invalidate(r, update) IN
         /\ Fine(q)
         /\ q.byCorr = r.byCorr
         /\ \A m \in Names : /\ Known(q, m) <=> Known(r, m)
                             /\ Known(r, m) => /\ q.entries[m].corr = r.entries[m].corr
                                               /\ q.entries[m].gen = r.entries[m].gen
                                               /\ q.entries[m].ref = r.entries[m].ref
<1> PICK q : q = Invalidate(r, update)
  OBVIOUS
<1>1. CASE ~Invalidates(r, update)
  <2>1. q = r
    BY <1>1 DEF Invalidate
  <2> QED
    BY <2>1
<1>2. CASE Invalidates(r, update)
  <2> PICK n : n = Led(r, update.corr, update.ref)
    OBVIOUS
  <2>1. n # None /\ Active(r, n) /\ n \in Names /\ Known(r, n) /\ r.entries[n] \in Entry
    BY <1>2, LeadsToKnown, EntryFields DEF Invalidates, Fine
  <2> PICK e : e = [r.entries[n] EXCEPT !.active = FALSE]
    OBVIOUS
  <2>2. e \in Entry /\ e # None /\ e.corr = r.entries[n].corr /\ e.gen = r.entries[n].gen
        /\ e.ref = r.entries[n].ref /\ ~e.active /\ e.ref \in Refs
    <3>1. e \in Entry
      BY <2>1 DEF Entry
    <3>2. e.corr = r.entries[n].corr /\ e.gen = r.entries[n].gen /\ e.ref = r.entries[n].ref
          /\ ~e.active
      BY <2>1 DEF Entry
    <3> QED
      BY <3>1, <3>2, NoneIsNothing DEF Entry
  <2>3. /\ q.entries = [r.entries EXCEPT ![n] = e]
        /\ q.byCorr = r.byCorr
        /\ q.byRef = [r.byRef EXCEPT ![r.entries[n].ref] = None]
        /\ q = [entries |-> q.entries, byCorr |-> q.byCorr, byRef |-> q.byRef]
    BY <1>2 DEF Invalidate, Fine, Registry
  <2>4. q \in Registry
    BY <2>1, <2>2, <2>3 DEF Fine, Registry
  <2>5. /\ q.entries[n] = e /\ \A m \in Names \ {n} : q.entries[m] = r.entries[m]
        /\ \A x \in Refs : q.byRef[x] = IF x = e.ref THEN None ELSE r.byRef[x]
    <3>1. DOMAIN r.entries = Names /\ DOMAIN r.byRef = Refs
      BY DEF Fine, Registry
    <3>2. q.entries[n] = e /\ \A m \in Names \ {n} : q.entries[m] = r.entries[m]
      BY <2>1, <2>3, <3>1
    <3>3. \A x \in Refs : q.byRef[x] = IF x = e.ref THEN None ELSE r.byRef[x]
      BY <2>2, <2>3, <3>1
    <3> QED
      BY <3>2, <3>3
  <2>6. \A m \in Names : /\ Known(q, m) <=> Known(r, m)
                         /\ Known(r, m) => /\ q.entries[m].corr = r.entries[m].corr
                                           /\ q.entries[m].gen = r.entries[m].gen
                                           /\ q.entries[m].ref = r.entries[m].ref
    BY <2>1, <2>2, <2>5 DEF Known
  <2>7. ASSUME NEW x \in Refs, q.byRef[x] # None
        PROVE  Active(q, q.byRef[x]) /\ q.entries[q.byRef[x]].ref = x
    <3>1. r.byRef[x] # None /\ q.byRef[x] = r.byRef[x] /\ x # e.ref
      BY <2>5, <2>7
    <3>2. Active(r, r.byRef[x]) /\ r.entries[r.byRef[x]].ref = x
      BY <3>1 DEF Fine, Indexed
    <3>3. r.byRef[x] # n /\ r.byRef[x] \in Names
      BY <2>2, <3>1, <3>2 DEF Active, Known
    <3> QED
      BY <2>5, <2>6, <3>1, <3>2, <3>3 DEF Active
  <2>8. Indexed(q)
    <3>1. ASSUME NEW m \in Names, Known(q, m), q.entries[m].corr # None
          PROVE  q.byCorr[q.entries[m].corr] = m
      <4>1. Known(r, m) /\ q.entries[m].corr = r.entries[m].corr
        BY <2>6, <3>1
      <4> QED
        BY <2>3, <3>1, <4>1 DEF Fine, Indexed
    <3>2. ASSUME NEW c \in Corrs, q.byCorr[c] # None PROVE Known(q, q.byCorr[c])
      <4>1. Known(r, r.byCorr[c]) /\ r.byCorr[c] \in Names
        BY <2>3, <3>2 DEF Fine, Indexed, Known
      <4> QED
        BY <2>3, <2>6, <4>1
    <3> QED
      BY <2>7, <3>1, <3>2 DEF Indexed
  <2> QED
    BY <2>3, <2>4, <2>6, <2>8 DEF Fine
<1> QED
  BY <1>1, <1>2

\* What a report does, in three cases: no other is possible.
LEMMA UpsertCases ==
  ASSUME NEW r, Fine(r), NEW g \in Nat, NEW item \in Readings(g), NEW fresh, NEW n,
         n = Led(r, item.corr, item.ref)
  PROVE  \/ /\ n = None /\ MintsName(r, item) /\ Upsert(r, item, fresh) = Minted(r, fresh, item)
            /\ LedByCorr(r, item.corr) = None
            /\ Upserted(r, item, fresh) = fresh
         \/ /\ n # None /\ ~MintsName(r, item) /\ Upserted(r, item, fresh) = n
            /\ ~GenerationAllows(item.gen, r.entries[n].gen)
            /\ Upsert(r, item, fresh) = r
         \/ /\ n # None /\ ~MintsName(r, item) /\ Upserted(r, item, fresh) = n
            /\ GenerationAllows(item.gen, r.entries[n].gen)
            /\ Upsert(r, item, fresh) = Refreshed(r, n, item)
<1>1. item.corr \in Corrs \cup {None} /\ item.ref \in Refs
  BY ReadingTyped
<1>2. n # None /\ LedByCorr(r, item.corr) = None => Active(r, n)
  BY <1>1, LeadsToKnown
<1>3. n = None => LedByCorr(r, item.corr) = None
  BY DEF Led
<1>4. MintsName(r, item) <=> n = None
  BY <1>2 DEF MintsName
<1>5. CASE n = None
  <2>1. Upsert(r, item, fresh) = Minted(r, fresh, item)
    BY <1>4, <1>5 DEF Upsert
  <2> QED
    BY <1>3, <1>4, <1>5, <2>1 DEF Upserted
<1>6. CASE n # None
  <2>1. ~MintsName(r, item) /\ Upserted(r, item, fresh) = n
    BY <1>4, <1>6 DEF Upserted
  <2>2. GenerationAllows(item.gen, r.entries[n].gen) =>
          Upsert(r, item, fresh) = Refreshed(r, n, item)
    BY <2>1 DEF Upsert
  <2>3. ~GenerationAllows(item.gen, r.entries[n].gen) => Upsert(r, item, fresh) = r
    BY <2>1 DEF Upsert
  <2> QED
    BY <1>6, <2>1, <2>2, <2>3
<1> QED
  BY <1>5, <1>6

LEMMA UpsertIsFine ==
  ASSUME NEW r, Fine(r), NEW g \in Nat, NEW item \in Readings(g), NEW fresh,
         MintsName(r, item) => fresh \in Names /\ ~Known(r, fresh)
  PROVE  /\ Fine(Upsert(r, item, fresh))
         /\ Upserted(r, item, fresh) \in Names
         /\ Known(Upsert(r, item, fresh), Upserted(r, item, fresh))
         /\ \A m \in Names : /\ Known(r, m) => Known(Upsert(r, item, fresh), m)
                             /\ Known(Upsert(r, item, fresh), m) =>
                                  Known(r, m) \/ (MintsName(r, item) /\ m = fresh)
<1> PICK n : n = Led(r, item.corr, item.ref)
  OBVIOUS
<1>0. item.corr \in Corrs \cup {None} /\ item.ref \in Refs
  BY ReadingTyped
<1>1. n # None => n \in Names /\ Known(r, n)
  BY <1>0, LeadsToKnown
<1>2. CASE n = None /\ MintsName(r, item) /\ Upsert(r, item, fresh) = Minted(r, fresh, item)
            /\ LedByCorr(r, item.corr) = None /\ Upserted(r, item, fresh) = fresh
  BY <1>2, MintedIsFine
<1>3. CASE n # None /\ Upserted(r, item, fresh) = n /\ Upsert(r, item, fresh) = r
  BY <1>1, <1>3
<1>4. CASE n # None /\ Upserted(r, item, fresh) = n /\ Upsert(r, item, fresh) = Refreshed(r, n, item)
  <2>1. /\ Fine(Refreshed(r, n, item)) /\ n \in Names
        /\ \A m \in Names : Known(Refreshed(r, n, item), m) <=> Known(r, m)
    BY <1>4, RefreshedIsFine
  <2> QED
    BY <1>1, <1>4, <2>1
<1> QED
  BY <1>2, <1>3, <1>4, UpsertCases

-----------------------------------------------------------------------------
(* What the registry holds is what it was told                               *)

PlaceOf(ref, c) == ref # Gone /\ \E h \in 1..Now : ref = was[h][c]

\* An entry says of its target what the host has said.
Told(e) ==
  /\ \E c \in Corrs : PlaceOf(e.ref, c)
  /\ e.gen # NoGen => e.corr # None /\ e.gen \in 1..Now /\ e.ref = was[e.gen][e.corr]
  /\ NamesAreDated => (e.corr # None => e.gen # NoGen)

\* Of a target that keeps its references to itself: its entry says the newest,
\* is found by its name, and is nobody else's.
Kept(r, T, c) ==
  /\ \A n \in Names : Known(r, n) =>
       /\ r.entries[n].corr = c => r.entries[n].gen = T[c] /\ PlaceOf(r.entries[n].ref, c)
       /\ PlaceOf(r.entries[n].ref, c) => r.entries[n].corr \in {None, c}
  /\ r.byCorr[c] # None => r.entries[r.byCorr[c]].corr = c
  /\ \A d \in Corrs : r.byCorr[d] # None /\ r.entries[r.byCorr[d]].corr = c => d = c
  /\ T[c] # NoGen => r.byCorr[c] # None

\* A target held for gone went away no sooner than it was last listed.
Departed(e) ==
  ~e.active /\ e.corr # None /\ e.gen # NoGen /\ ~Confusable(e.corr) =>
    \E g \in e.gen..Now : was[g][e.corr] = Gone

Faithful(r, T) ==
  /\ \A n \in Names : Known(r, n) => Told(r.entries[n]) /\ Departed(r.entries[n])
  /\ \A d \in Corrs : r.byCorr[d] # None => r.entries[r.byCorr[d]].corr # None
  /\ \A c \in Corrs : ~Confusable(c) => Kept(r, T, c)

\* The newest generations, with one more report.
Heard(T, item) ==
  IF item.corr # None /\ item.gen > T[item.corr] THEN [T EXCEPT ![item.corr] = item.gen] ELSE T

LEMMA HeardIs ==
  ASSUME NEW T \in [Corrs -> Nat], NEW g \in Nat, NEW item \in Readings(g)
  PROVE  /\ Heard(T, item) \in [Corrs -> Nat]
         /\ \A c \in Corrs : Heard(T, item)[c] =
              IF c = item.corr /\ item.gen > T[c] THEN item.gen ELSE T[c]
<1>1. item.corr \in Corrs \cup {None} /\ item.gen \in Nat
  BY ReadingTyped
<1> QED
  BY <1>1, NoneIsNothing DEF Heard

\* A place of a target that keeps its references to itself is read of it alone.
LEMMA ReadOfItself ==
  ASSUME HistoryOK, NEW g \in 1..Now, NEW item \in Readings(g)
  PROVE  \E x \in Corrs :
           /\ item.ref = was[g][x] /\ item.corr \in {None, x} /\ PlaceOf(item.ref, x)
           /\ \A c \in Corrs : ~Confusable(c) /\ PlaceOf(item.ref, c) => x = c
<1>1. PICK x \in Present(g) : item.ref = was[g][x] /\ item.corr \in {None, x}
  BY DEF Readings
<1>2. x \in Corrs /\ item.ref # Gone /\ PlaceOf(item.ref, x)
  BY <1>1 DEF Present, PlaceOf
<1>3. ASSUME NEW c \in Corrs, PlaceOf(item.ref, c), x # c PROVE Confusable(c)
  BY <1>1, <1>2, <1>3 DEF PlaceOf, Confusable
<1> QED
  BY <1>1, <1>2, <1>3

\* A report that is ignored tells nothing newer of such a target.
LEMMA IgnoredKept ==
  ASSUME DatesAreNamed, HistoryOK, NEW r, Fine(r), NEW T \in [Corrs -> Nat], Faithful(r, T),
         NEW g \in 1..Now, NEW item \in Readings(g), NEW n,
         n = Led(r, item.corr, item.ref), n # None,
         ~GenerationAllows(item.gen, r.entries[n].gen),
         NEW c \in Corrs, ~Confusable(c)
  PROVE  Kept(r, Heard(T, item), c)
<1>1. item.corr \in Corrs \cup {None} /\ item.ref \in Refs /\ item.gen \in Nat /\ g \in Nat
  BY ReadingTyped DEF Now
<1>2. PICK x \in Corrs :
           /\ item.ref = was[g][x] /\ item.corr \in {None, x} /\ PlaceOf(item.ref, x)
           /\ \A d \in Corrs : ~Confusable(d) /\ PlaceOf(item.ref, d) => x = d
  BY ReadOfItself
<1>3. /\ n \in Names /\ Known(r, n) /\ r.entries[n] \in Entry
      /\ LedByCorr(r, item.corr) = None => r.entries[n].ref = item.ref
      /\ LedByCorr(r, item.corr) # None => n = r.byCorr[item.corr]
  BY <1>1, LeadsToKnown, EntryFields DEF Fine
<1>4. Kept(r, T, c) /\ Told(r.entries[n])
  BY <1>3 DEF Faithful
<1>5. r.entries[n].gen \in Nat /\ r.entries[n].gen # NoGen
      /\ (item.gen = NoGen \/ item.gen < r.entries[n].gen)
  BY <1>1, <1>3 DEF GenerationAllows, Entry
<1>6. ~(c = item.corr /\ item.gen > T[c])
  <2> SUFFICES ASSUME c = item.corr PROVE ~(item.gen > T[c])
    OBVIOUS
  <2>1. r.entries[n].corr = c
    <3>1. CASE r.byCorr[c] # None
      <4>1. n = r.byCorr[c]
        BY <1>3, <3>1, NoneIsNothing DEF LedByCorr
      <4> QED
        BY <1>4, <3>1, <4>1 DEF Kept
    <3>2. CASE r.byCorr[c] = None
      <4>1. r.entries[n].ref = item.ref /\ x = c
        BY <1>2, <1>3, <3>2, NoneIsNothing DEF LedByCorr
      <4>2. r.entries[n].corr \in {None, c}
        BY <1>2, <1>3, <1>4, <4>1 DEF Kept
      <4> QED
        BY <1>4, <1>5, <4>2 DEF Told
    <3> QED
      BY <3>1, <3>2
  <2>2. T[c] = r.entries[n].gen
    BY <1>3, <1>4, <2>1 DEF Kept
  <2> QED
    BY <1>1, <1>5, <2>2 DEF NoGen
<1>7. Heard(T, item)[c] = T[c]
  BY <1>1, <1>6, HeardIs
<1> QED
  BY <1>4, <1>7 DEF Kept

\* A report that leads nowhere is the first of its target.
LEMMA MintedKept ==
  ASSUME DatesAreNamed, HistoryOK, NEW r, Fine(r), NEW T \in [Corrs -> Nat], Faithful(r, T),
         NEW g \in 1..Now, NEW item \in Readings(g),
         LedByCorr(r, item.corr) = None, NEW fresh \in Names, ~Known(r, fresh),
         NEW c \in Corrs, ~Confusable(c)
  PROVE  Kept(Minted(r, fresh, item), Heard(T, item), c)
<1>1. item.corr \in Corrs \cup {None} /\ item.ref \in Refs /\ item.gen \in Nat /\ g \in Nat
  BY ReadingTyped DEF Now
<1>2. PICK x \in Corrs :
           /\ item.ref = was[g][x] /\ item.corr \in {None, x} /\ PlaceOf(item.ref, x)
           /\ \A d \in Corrs : ~Confusable(d) /\ PlaceOf(item.ref, d) => x = d
  BY ReadOfItself
<1> PICK q : q = Minted(r, fresh, item)
  OBVIOUS
<1> PICK U : U = Heard(T, item)
  OBVIOUS
<1>3. /\ q.entries[fresh].corr = item.corr /\ q.entries[fresh].gen = item.gen
      /\ q.entries[fresh].ref = item.ref
      /\ \A m \in Names \ {fresh} : q.entries[m] = r.entries[m]
      /\ \A d \in Corrs : q.byCorr[d] = IF d = item.corr THEN fresh ELSE r.byCorr[d]
  BY <1>1, NoneIsNothing DEF Minted, Fine, Registry, SetCorr
<1>4. \A m \in Names : Known(q, m) <=> (m = fresh \/ Known(r, m))
  BY <1>1, MintedIsFine
<1>5. Kept(r, T, c)
  BY DEF Faithful
<1>6. U[c] = IF c = item.corr /\ item.gen > T[c] THEN item.gen ELSE T[c]
  BY <1>1, HeardIs
<1>7. c = item.corr => /\ r.byCorr[c] = None /\ T[c] = NoGen /\ U[c] = item.gen
                       /\ \A m \in Names : Known(r, m) => r.entries[m].corr # c
  <2> SUFFICES ASSUME c = item.corr
               PROVE /\ r.byCorr[c] = None /\ T[c] = NoGen /\ U[c] = item.gen
                     /\ \A m \in Names : Known(r, m) => r.entries[m].corr # c
    OBVIOUS
  <2>1. r.byCorr[c] = None
    BY NoneIsNothing DEF LedByCorr
  <2>2. T[c] = NoGen
    BY <1>5, <2>1 DEF Kept
  <2>3. U[c] = item.gen
    BY <1>1, <1>6, <2>2 DEF NoGen
  <2>4. \A m \in Names : Known(r, m) => r.entries[m].corr # c
    BY <2>1, NoneIsNothing DEF Fine, Indexed
  <2> QED
    BY <2>1, <2>2, <2>3, <2>4
<1>8. c # item.corr => U[c] = T[c]
  BY <1>6
<1>9. ASSUME NEW m \in Names, Known(q, m)
      PROVE  /\ q.entries[m].corr = c => q.entries[m].gen = U[c] /\ PlaceOf(q.entries[m].ref, c)
             /\ PlaceOf(q.entries[m].ref, c) => q.entries[m].corr \in {None, c}
  <2>1. CASE m = fresh
    BY <2>1, <1>2, <1>3, <1>7, NoneIsNothing
  <2>2. CASE m # fresh
    <3>1. Known(r, m) /\ q.entries[m] = r.entries[m]
      BY <1>3, <1>4, <1>9, <2>2
    <3> QED
      BY <1>5, <1>7, <1>8, <3>1 DEF Kept
  <2> QED
    BY <2>1, <2>2
<1>10. \A d \in Corrs : d # item.corr /\ r.byCorr[d] # None =>
         q.byCorr[d] = r.byCorr[d] /\ q.entries[r.byCorr[d]] = r.entries[r.byCorr[d]]
  BY <1>3 DEF Fine, Indexed, Known
<1>11. q.byCorr[c] # None => q.entries[q.byCorr[c]].corr = c
  BY <1>3, <1>5, <1>10 DEF Kept
<1>12. ASSUME NEW d \in Corrs, q.byCorr[d] # None, q.entries[q.byCorr[d]].corr = c PROVE d = c
  BY <1>3, <1>5, <1>10, <1>12 DEF Kept
<1>13. U[c] # NoGen => q.byCorr[c] # None
  BY <1>3, <1>5, <1>8, NoneIsNothing DEF Kept
<1> QED
  BY <1>9, <1>11, <1>12, <1>13 DEF Kept

\* A report that refreshes an entry: either it names the target of the entry,
\* or the reference says which one it is.
LEMMA RefreshedKept ==
  ASSUME DatesAreNamed, HistoryOK, NEW r, Fine(r), NEW T \in [Corrs -> Nat], Faithful(r, T),
         NEW g \in 1..Now, NEW item \in Readings(g), NEW n,
         n = Led(r, item.corr, item.ref), n # None,
         GenerationAllows(item.gen, r.entries[n].gen),
         NEW c \in Corrs, ~Confusable(c)
  PROVE  Kept(Refreshed(r, n, item), Heard(T, item), c)
<1>1. item.corr \in Corrs \cup {None} /\ item.ref \in Refs /\ item.gen \in Nat /\ g \in Nat
  BY ReadingTyped DEF Now
<1>2. PICK x \in Corrs :
           /\ item.ref = was[g][x] /\ item.corr \in {None, x} /\ PlaceOf(item.ref, x)
           /\ \A d \in Corrs : ~Confusable(d) /\ PlaceOf(item.ref, d) => x = d
  BY ReadOfItself
<1> PICK old : old = r.entries[n]
  OBVIOUS
<1> PICK corr : corr = IF item.corr # None THEN item.corr ELSE old.corr
  OBVIOUS
<1> PICK q : q = Refreshed(r, n, item)
  OBVIOUS
<1> PICK U : U = Heard(T, item)
  OBVIOUS
<1>3. /\ n \in Names /\ Known(r, n) /\ old \in Entry
      /\ LedByCorr(r, item.corr) = None => old.ref = item.ref
      /\ LedByCorr(r, item.corr) # None => item.corr # None /\ n = r.byCorr[item.corr]
  BY <1>1, LeadsToKnown, EntryFields DEF Fine
<1>4. old.gen \in Nat /\ old.corr \in Corrs \cup {None} /\ old.ref \in Refs
  BY <1>3 DEF Entry
<1>5. /\ q.entries[n].corr = corr /\ q.entries[n].ref = item.ref
      /\ q.entries[n].gen = IF item.gen # NoGen THEN item.gen ELSE old.gen
      /\ \A m \in Names \ {n} : q.entries[m] = r.entries[m]
  BY <1>3 DEF Refreshed, Fine, Registry
<1>6. \A d \in Corrs : q.byCorr[d] = IF d = corr THEN n ELSE r.byCorr[d]
  BY <1>1, <1>4, NoneIsNothing DEF Refreshed, Fine, Registry, SetCorr
<1>7. \A m \in Names : Known(q, m) <=> Known(r, m)
  BY <1>1, RefreshedIsFine
<1>8. Kept(r, T, c) /\ Told(old)
  BY <1>3 DEF Faithful
<1>9. U[c] = IF c = item.corr /\ item.gen > T[c] THEN item.gen ELSE T[c]
  BY <1>1, HeardIs
\* What the report leaves of the target an entry is of.
<1>10. item.corr = c => old.corr \in {None, c}
  <2> SUFFICES ASSUME item.corr = c PROVE old.corr \in {None, c}
    OBVIOUS
  <2>1. CASE r.byCorr[c] # None
    BY <2>1, <1>3, <1>8, NoneIsNothing DEF LedByCorr, Kept
  <2>2. CASE r.byCorr[c] = None
    <3>1. old.ref = item.ref /\ x = c
      BY <2>2, <1>2, <1>3, NoneIsNothing DEF LedByCorr
    <3> QED
      BY <1>2, <1>3, <1>8, <3>1 DEF Kept
  <2> QED
    BY <2>1, <2>2
<1>11. old.corr = c /\ item.corr # None => item.corr = c
  <2> SUFFICES ASSUME old.corr = c, item.corr # None PROVE item.corr = c
    OBVIOUS
  <2>1. CASE r.byCorr[item.corr] # None
    <3>1. n = r.byCorr[item.corr] /\ item.corr \in Corrs
      BY <2>1, <1>1, <1>3 DEF LedByCorr
    <3> QED
      BY <2>1, <1>8, <3>1 DEF Kept
  <2>2. CASE r.byCorr[item.corr] = None
    <3>1. old.ref = item.ref
      BY <2>2, <1>3 DEF LedByCorr
    <3>2. PlaceOf(old.ref, c)
      BY <1>3, <1>8 DEF Kept
    <3> QED
      BY <1>2, <3>1, <3>2
  <2> QED
    BY <2>1, <2>2
<1>12. item.corr = None => old.ref = item.ref /\ item.gen = NoGen /\ old.gen = NoGen
  <2> SUFFICES ASSUME item.corr = None
               PROVE  old.ref = item.ref /\ item.gen = NoGen /\ old.gen = NoGen
    OBVIOUS
  <2>1. item.gen = NoGen
    BY DEF Readings
  <2> QED
    BY <1>3, <2>1 DEF LedByCorr, GenerationAllows
<1>13. item.corr = c => /\ q.entries[n].gen = U[c]
                        /\ \A m \in Names : Known(r, m) /\ r.entries[m].corr = c => m = n
  <2> SUFFICES ASSUME item.corr = c
               PROVE  /\ q.entries[n].gen = U[c]
                      /\ \A m \in Names : Known(r, m) /\ r.entries[m].corr = c => m = n
    OBVIOUS
  <2>1. CASE r.byCorr[c] # None
    <3>1. n = r.byCorr[c] /\ old.corr = c /\ old.gen = T[c]
      BY <2>1, <1>3, <1>8, NoneIsNothing DEF LedByCorr, Kept
    <3>2. q.entries[n].gen = U[c]
      BY <1>1, <1>4, <1>5, <1>9, <3>1 DEF GenerationAllows, NoGen
    <3>3. \A m \in Names : Known(r, m) /\ r.entries[m].corr = c => m = n
      BY <3>1, NoneIsNothing DEF Fine, Indexed
    <3> QED
      BY <3>2, <3>3
  <2>2. CASE r.byCorr[c] = None
    <3>1. T[c] = NoGen
      BY <2>2, <1>8 DEF Kept
    <3>2. \A m \in Names : Known(r, m) => r.entries[m].corr # c
      BY <2>2, NoneIsNothing DEF Fine, Indexed
    <3>3. old.corr = None
      BY <1>3, <1>10, <3>2
    <3>4. old.gen = NoGen
      BY <1>8, <3>3 DEF Told
    <3>5. q.entries[n].gen = U[c]
      BY <1>1, <1>5, <1>9, <3>1, <3>4 DEF NoGen
    <3> QED
      BY <3>2, <3>5
  <2> QED
    BY <2>1, <2>2
<1>14. c # item.corr => U[c] = T[c]
  BY <1>9
<1>15. ASSUME NEW m \in Names, Known(q, m)
       PROVE  /\ q.entries[m].corr = c => q.entries[m].gen = U[c] /\ PlaceOf(q.entries[m].ref, c)
              /\ PlaceOf(q.entries[m].ref, c) => q.entries[m].corr \in {None, c}
  <2>1. CASE m = n
    <3>1. ASSUME corr = c PROVE q.entries[n].gen = U[c] /\ PlaceOf(item.ref, c)
      <4>1. CASE item.corr = c
        BY <4>1, <1>2, <1>13, NoneIsNothing
      <4>2. CASE item.corr = None
        <5>1. old.corr = c /\ old.gen = T[c] /\ PlaceOf(old.ref, c)
          BY <3>1, <4>2, <1>3, <1>8 DEF Kept
        <5> QED
          BY <4>2, <5>1, <1>5, <1>12, <1>14, NoneIsNothing
      <4> QED
        BY <3>1, <4>1, <4>2
    <3>2. ASSUME PlaceOf(item.ref, c) PROVE corr \in {None, c}
      <4>1. item.corr \in {None, c}
        BY <3>2, <1>2
      <4>2. CASE item.corr = None
        BY <3>2, <4>2, <1>3, <1>8, <1>12 DEF Kept
      <4> QED
        BY <4>1, <4>2
    <3> QED
      BY <2>1, <3>1, <3>2, <1>5
  <2>2. CASE m # n
    <3>1. Known(r, m) /\ q.entries[m] = r.entries[m]
      BY <1>5, <1>7, <1>15, <2>2
    <3>2. r.entries[m].corr = c => item.corr # c
      BY <1>13, <2>2, <3>1
    <3> QED
      BY <1>8, <1>14, <3>1, <3>2 DEF Kept
  <2> QED
    BY <2>1, <2>2
<1>16. ASSUME q.byCorr[c] # None PROVE q.entries[q.byCorr[c]].corr = c
  <2>1. CASE c = corr
    BY <2>1, <1>5, <1>6
  <2>2. CASE c # corr
    <3>1. q.byCorr[c] = r.byCorr[c] /\ r.entries[r.byCorr[c]].corr = c
      BY <2>2, <1>6, <1>8, <1>16 DEF Kept
    <3>2. r.byCorr[c] # n /\ r.byCorr[c] \in Names
      BY <2>2, <1>11, <1>16, <3>1 DEF Fine, Indexed, Known
    <3> QED
      BY <1>5, <3>1, <3>2
  <2> QED
    BY <2>1, <2>2
<1>17. ASSUME NEW d \in Corrs, q.byCorr[d] # None, q.entries[q.byCorr[d]].corr = c PROVE d = c
  <2>1. CASE d = corr
    BY <2>1, <1>5, <1>6, <1>17
  <2>2. CASE d # corr
    <3>1. q.byCorr[d] = r.byCorr[d] /\ r.byCorr[d] # None /\ r.byCorr[d] \in Names
      BY <2>2, <1>6, <1>17 DEF Fine, Indexed, Known
    <3>2. CASE r.byCorr[d] # n
      BY <1>5, <1>8, <1>17, <3>1, <3>2 DEF Kept
    <3>3. CASE r.byCorr[d] = n
      <4>1. corr = c /\ old.corr # None
        BY <1>5, <1>17, <3>1, <3>3 DEF Faithful
      <4>2. old.corr = c
        BY <1>10, <4>1
      <4> QED
        BY <1>8, <3>1, <3>3, <4>2 DEF Kept
    <3> QED
      BY <3>2, <3>3
  <2> QED
    BY <2>1, <2>2
<1>18. ASSUME U[c] # NoGen PROVE q.byCorr[c] # None
  <2>1. CASE c = item.corr
    BY <2>1, <1>3, <1>6, NoneIsNothing
  <2>2. CASE c # item.corr
    BY <2>2, <1>3, <1>6, <1>8, <1>14, <1>18, NoneIsNothing DEF Kept
  <2> QED
    BY <2>1, <2>2
<1> QED
  BY <1>15, <1>16, <1>17, <1>18 DEF Kept

LEMMA ReportTold ==
  ASSUME DatesAreNamed, HistoryOK, NEW g \in 1..Now, NEW item \in Readings(g), NEW e,
         e.ref = item.ref, e.gen = item.gen,
         e.corr = item.corr \/ (item.corr = None /\ (NamesAreDated => e.corr = None))
  PROVE  Told(e)
<1>1. \E x \in Corrs : item.ref = was[g][x] /\ item.corr \in {None, x} /\ PlaceOf(item.ref, x)
  BY ReadOfItself
<1>2. /\ item.gen \in {NoGen, g}
      /\ item.gen # NoGen => item.corr # None
      /\ NamesAreDated => (item.corr # None => item.gen # NoGen)
  BY DEF Readings
<1> QED
  BY <1>1, <1>2 DEF Told

LEMMA UpsertIsFaithful ==
  ASSUME DatesAreNamed, HistoryOK, NEW r, Fine(r), NEW T \in [Corrs -> Nat], Faithful(r, T),
         NEW g \in 1..Now, NEW item \in Readings(g), NEW fresh,
         MintsName(r, item) => fresh \in Names /\ ~Known(r, fresh)
  PROVE  Faithful(Upsert(r, item, fresh), Heard(T, item))
<1> PICK n : n = Led(r, item.corr, item.ref)
  OBVIOUS
<1> PICK q : q = Upsert(r, item, fresh)
  OBVIOUS
<1>1. item.corr \in Corrs \cup {None} /\ item.ref \in Refs /\ item.gen \in Nat /\ g \in Nat
  BY ReadingTyped DEF Now
<1>2. CASE n = None /\ MintsName(r, item) /\ q = Minted(r, fresh, item)
            /\ LedByCorr(r, item.corr) = None
  <2>1. fresh \in Names /\ ~Known(r, fresh)
    BY <1>2
  <2>2. \A m \in Names : Known(q, m) <=> (m = fresh \/ Known(r, m))
    BY <1>1, <1>2, <2>1, MintedIsFine
  <2>3. /\ q.entries[fresh].corr = item.corr /\ q.entries[fresh].gen = item.gen
        /\ q.entries[fresh].ref = item.ref /\ q.entries[fresh].active
        /\ \A m \in Names \ {fresh} : q.entries[m] = r.entries[m]
        /\ \A d \in Corrs : q.byCorr[d] = IF d = item.corr THEN fresh ELSE r.byCorr[d]
    BY <1>1, <1>2, <2>1, NoneIsNothing DEF Minted, Fine, Registry, SetCorr
  <2>4. Told(q.entries[fresh]) /\ Departed(q.entries[fresh])
    BY <2>3, ReportTold DEF Departed
  <2>5. \A m \in Names : Known(q, m) => Told(q.entries[m]) /\ Departed(q.entries[m])
    BY <2>2, <2>3, <2>4 DEF Faithful
  <2>6. ASSUME NEW d \in Corrs, q.byCorr[d] # None PROVE q.entries[q.byCorr[d]].corr # None
    <3>1. CASE d = item.corr
      BY <2>3, <3>1, NoneIsNothing
    <3>2. CASE d # item.corr
      <4>1. q.byCorr[d] = r.byCorr[d] /\ Known(r, r.byCorr[d]) /\ r.entries[r.byCorr[d]].corr # None
        BY <2>3, <2>6, <3>2 DEF Fine, Indexed, Faithful
      <4>2. r.byCorr[d] \in Names \ {fresh}
        BY <2>1, <4>1 DEF Known
      <4> QED
        BY <2>3, <4>1, <4>2
    <3> QED
      BY <3>1, <3>2
  <2>7. \A c \in Corrs : ~Confusable(c) => Kept(q, Heard(T, item), c)
    BY <1>2, <2>1, MintedKept
  <2> QED
    BY <2>5, <2>6, <2>7 DEF Faithful
<1>3. CASE n # None /\ ~GenerationAllows(item.gen, r.entries[n].gen) /\ q = r
  <2>1. \A c \in Corrs : ~Confusable(c) => Kept(r, Heard(T, item), c)
    BY <1>3, IgnoredKept
  <2> QED
    BY <1>3, <2>1 DEF Faithful
<1>4. CASE n # None /\ GenerationAllows(item.gen, r.entries[n].gen) /\ q = Refreshed(r, n, item)
  <2> PICK old : old = r.entries[n]
    OBVIOUS
  <2> PICK corr : corr = IF item.corr # None THEN item.corr ELSE old.corr
    OBVIOUS
  <2>1. n \in Names /\ Known(r, n) /\ old \in Entry /\ Told(old)
    BY <1>1, <1>4, LeadsToKnown, EntryFields DEF Fine, Faithful
  <2>2. /\ q.entries[n].corr = corr /\ q.entries[n].ref = item.ref /\ q.entries[n].active
        /\ q.entries[n].gen = IF item.gen # NoGen THEN item.gen ELSE old.gen
        /\ \A m \in Names \ {n} : q.entries[m] = r.entries[m]
    BY <1>4, <2>1 DEF Refreshed, Fine, Registry
  <2>3. old.corr \in Corrs \cup {None}
    BY <2>1 DEF Entry
  <2>4. \A d \in Corrs : q.byCorr[d] = IF d = corr THEN n ELSE r.byCorr[d]
    BY <1>1, <1>4, <2>3, NoneIsNothing DEF Refreshed, Fine, Registry, SetCorr
  <2>5. \A m \in Names : Known(q, m) <=> Known(r, m)
    BY <1>1, <1>4, RefreshedIsFine
  <2>6. q.entries[n].gen = item.gen
    BY <1>4, <2>2 DEF GenerationAllows
  <2>7. item.corr = None /\ NamesAreDated => corr = None
    <3>1. item.corr = None => item.gen = NoGen
      BY DEF Readings
    <3>2. item.gen = NoGen => old.gen = NoGen
      BY <1>4 DEF GenerationAllows
    <3> QED
      BY <2>1, <3>1, <3>2 DEF Told
  <2>8. Told(q.entries[n]) /\ Departed(q.entries[n])
    <3>1. item.corr # None => q.entries[n].corr = item.corr
      BY <2>2
    <3>2. item.corr = None => (NamesAreDated => q.entries[n].corr = None)
      BY <2>2, <2>7
    <3>3. Told(q.entries[n])
      BY <2>2, <2>6, <3>1, <3>2, ReportTold
    <3> QED
      BY <2>2, <3>3 DEF Departed
  <2>9. \A m \in Names : Known(q, m) => Told(q.entries[m]) /\ Departed(q.entries[m])
    BY <2>2, <2>5, <2>8 DEF Faithful
  <2>10. ASSUME NEW d \in Corrs, q.byCorr[d] # None PROVE q.entries[q.byCorr[d]].corr # None
    <3>1. CASE d = corr
      BY <2>2, <2>4, <3>1, NoneIsNothing
    <3>2. CASE d # corr
      <4>1. /\ q.byCorr[d] = r.byCorr[d] /\ r.byCorr[d] \in Names
            /\ r.entries[r.byCorr[d]].corr # None
        BY <2>4, <2>10, <3>2 DEF Fine, Indexed, Faithful, Known
      <4> QED
        BY <2>2, <4>1
    <3> QED
      BY <3>1, <3>2
  <2>11. \A c \in Corrs : ~Confusable(c) => Kept(q, Heard(T, item), c)
    BY <1>4, RefreshedKept
  <2> QED
    BY <2>9, <2>10, <2>11 DEF Faithful
<1> QED
  BY <1>1, <1>2, <1>3, <1>4, UpsertCases

\* A removal finds its target by its name, which leads to nobody else's entry,
\* and comes no sooner than the entry was listed.
LEMMA InvalidateDeparts ==
  ASSUME HistoryOK, NEW r, Fine(r), NEW T, Faithful(r, T), NEW g \in 1..Now,
         NEW c \in Corrs \ Present(g), NEW m \in Names, Known(r, m)
  PROVE  Departed(Invalidate(r, Update(c, g)).entries[m])
<1> PICK update : update = Update(c, g)
  OBVIOUS
<1> PICK q : q = Invalidate(r, update)
  OBVIOUS
<1> PICK e : e = r.entries[m]
  OBVIOUS
<1>1. Departed(e) /\ e \in Entry
  BY EntryFields DEF Fine, Faithful
<1>2. CASE q.entries[m] = e
  BY <1>1, <1>2
<1>3. CASE q.entries[m] # e
  <2>1. Invalidates(r, update) /\ m = Led(r, update.corr, update.ref)
    <3>1. Invalidates(r, update)
      BY <1>3 DEF Invalidate
    <3> QED
      BY <1>3, <3>1 DEF Invalidate, Fine, Registry
  <2>2. GenerationAllows(update.gen, e.gen) /\ q.entries[m] = [e EXCEPT !.active = FALSE]
    BY <2>1 DEF Invalidates, Invalidate, Fine, Registry
  <2>3. q.entries[m].corr = e.corr /\ q.entries[m].gen = e.gen
    BY <1>1, <2>2 DEF Entry
  <2>4. ASSUME e.corr # None, e.gen # NoGen, ~Confusable(e.corr)
        PROVE  \E h \in e.gen..Now : was[h][e.corr] = Gone
    <3>1. update.gen # NoGen /\ update.gen >= e.gen
      BY <2>2, <2>4 DEF GenerationAllows
    <3>2. update.corr = c /\ update.ref = None /\ update.gen = g
      BY <3>1 DEF Update
    <3>3. m = r.byCorr[c]
      <4>1. Led(r, c, None) # None
        BY <2>1, <3>2, NoneIsNothing
      <4> QED
        BY <2>1, <3>2, <4>1, LeadsToKnown
    <3>4. c = e.corr
      <4>1. e.corr \in Corrs
        BY <1>1, <2>4 DEF Entry
      <4>2. Kept(r, T, e.corr)
        BY <2>4, <4>1 DEF Faithful
      <4>3. r.byCorr[c] # None
        BY <3>3, NoneIsNothing
      <4> QED
        BY <3>3, <4>2, <4>3 DEF Kept
    <3>5. was[g][c] = Gone /\ g \in e.gen..Now
      <4>1. was[g][c] = Gone
        BY DEF Present
      <4>2. e.gen \in Nat /\ Now \in Nat
        BY <1>1 DEF Entry, HistoryOK, Now
      <4> QED
        BY <3>1, <3>2, <4>1, <4>2
    <3> QED
      BY <3>4, <3>5
  <2> QED
    BY <2>3, <2>4 DEF Departed
<1> QED
  BY <1>2, <1>3

LEMMA InvalidateIsFaithful ==
  ASSUME HistoryOK, NEW r, Fine(r), NEW T, Faithful(r, T), NEW g \in 1..Now,
         NEW c \in Corrs \ Present(g), Update(c, g).corr \in Corrs \cup {None},
         Update(c, g).ref \in Refs \cup {None}
  PROVE  Faithful(Invalidate(r, Update(c, g)), T)
<1> PICK update : update = Update(c, g)
  OBVIOUS
<1> PICK q : q = Invalidate(r, update)
  OBVIOUS
<1>1. /\ Fine(q) /\ q.byCorr = r.byCorr
      /\ \A m \in Names : /\ Known(q, m) <=> Known(r, m)
                          /\ Known(r, m) => /\ q.entries[m].corr = r.entries[m].corr
                                            /\ q.entries[m].gen = r.entries[m].gen
                                            /\ q.entries[m].ref = r.entries[m].ref
  BY InvalidateIsFine
<1>2. \A d \in Corrs : r.byCorr[d] # None =>
        r.byCorr[d] \in Names /\ Known(r, r.byCorr[d])
        /\ q.entries[r.byCorr[d]].corr = r.entries[r.byCorr[d]].corr
  BY <1>1 DEF Fine, Indexed, Known
<1>3. \A m \in Names : Known(q, m) => Told(q.entries[m]) /\ Departed(q.entries[m])
  <2>1. \A m \in Names : Known(r, m) => Departed(q.entries[m])
    BY InvalidateDeparts
  <2> QED
    BY <1>1, <2>1 DEF Faithful, Told
<1>4. ASSUME NEW d \in Corrs, Kept(r, T, d) PROVE Kept(q, T, d)
  BY <1>1, <1>2, <1>4 DEF Kept
<1> QED
  BY <1>1, <1>2, <1>3, <1>4 DEF Faithful

\* A name stays the name of its target, of one that keeps its references.
Stays(r, q) ==
  \A m \in Names, c \in Corrs :
    Known(r, m) /\ ~Confusable(c) /\ r.entries[m].corr = c => q.entries[m].corr = c

LEMMA UpsertStays ==
  ASSUME HistoryOK, NEW r, Fine(r), NEW T, Faithful(r, T),
         NEW g \in 1..Now, NEW item \in Readings(g), NEW fresh,
         MintsName(r, item) => fresh \in Names /\ ~Known(r, fresh)
  PROVE  Stays(r, Upsert(r, item, fresh))
<1> PICK n : n = Led(r, item.corr, item.ref)
  OBVIOUS
<1> PICK q : q = Upsert(r, item, fresh)
  OBVIOUS
<1>1. item.corr \in Corrs \cup {None} /\ item.ref \in Refs /\ item.gen \in Nat /\ g \in Nat
  BY ReadingTyped DEF Now
<1>2. CASE MintsName(r, item) /\ q = Minted(r, fresh, item)
  BY <1>2 DEF Stays, Minted, Fine, Registry
<1>3. CASE q = r
  BY <1>3 DEF Stays
<1>4. CASE n # None /\ q = Refreshed(r, n, item)
  <2>1. PICK x \in Corrs :
           /\ item.corr \in {None, x}
           /\ \A d \in Corrs : ~Confusable(d) /\ PlaceOf(item.ref, d) => x = d
    BY ReadOfItself
  <2> PICK old : old = r.entries[n]
    OBVIOUS
  <2>2. /\ n \in Names /\ Known(r, n)
        /\ LedByCorr(r, item.corr) = None => old.ref = item.ref
        /\ LedByCorr(r, item.corr) # None => item.corr # None /\ n = r.byCorr[item.corr]
    BY <1>1, <1>4, LeadsToKnown DEF Fine
  <2>3. /\ q.entries[n].corr = IF item.corr # None THEN item.corr ELSE old.corr
        /\ \A m \in Names \ {n} : q.entries[m] = r.entries[m]
    BY <1>4, <2>2 DEF Refreshed, Fine, Registry
  <2>4. ASSUME NEW c \in Corrs, ~Confusable(c), old.corr = c, item.corr # None PROVE item.corr = c
    <3>1. Kept(r, T, c)
      BY <2>4 DEF Faithful
    <3>2. CASE r.byCorr[item.corr] # None
      <4>1. n = r.byCorr[item.corr] /\ item.corr \in Corrs
        BY <2>4, <3>2, <1>1, <2>2 DEF LedByCorr
      <4> QED
        BY <2>4, <3>1, <3>2, <4>1 DEF Kept
    <3>3. CASE r.byCorr[item.corr] = None
      <4>1. old.ref = item.ref
        BY <2>2, <3>3 DEF LedByCorr
      <4>2. PlaceOf(old.ref, c)
        BY <2>2, <2>4, <3>1 DEF Kept
      <4> QED
        BY <2>1, <2>4, <4>1, <4>2
    <3> QED
      BY <3>2, <3>3
  <2> QED
    BY <2>2, <2>3, <2>4 DEF Stays
<1> QED
  BY <1>1, <1>2, <1>3, <1>4, UpsertCases

-----------------------------------------------------------------------------
(* What an answer leaves                                                     *)

\* What the registry has become after some of an answer.
Grown(q) ==
  /\ Fine(q)
  /\ \A m \in Names : /\ Known(reg, m) => Known(q, m)
                      /\ Known(q, m) => Known(reg, m) \/ m \notin Held

\* The newest generations, after the first i items.
HeardTo(items, gen, i) ==
  [c \in Corrs |-> IF \E j \in 1..i : items[j].corr = c /\ items[j].gen > told[c]
                   THEN gen ELSE told[c]]

LEMMA HeardToNext ==
  ASSUME HistoryOK, NEW g \in 1..Now, NEW items \in Seq(Readings(g)), NEW i \in 1..Len(items)
  PROVE  HeardTo(items, g, i) = Heard(HeardTo(items, g, i - 1), items[i])
<1> PICK T : T = HeardTo(items, g, i - 1)
  OBVIOUS
<1> PICK item : item = items[i]
  OBVIOUS
<1>0. g \in Nat /\ told \in [Corrs -> Nat] /\ item \in Readings(g) /\ i \in Nat /\ g # NoGen
      /\ i - 1 \in Nat
  BY DEF HistoryOK, Now, NoGen
<1>1. T \in [Corrs -> Nat]
  BY <1>0 DEF HeardTo
<1>2. /\ Heard(T, item) \in [Corrs -> Nat]
      /\ \A c \in Corrs : Heard(T, item)[c] =
              IF c = item.corr /\ item.gen > T[c] THEN item.gen ELSE T[c]
  BY <1>0, <1>1, HeardIs
<1>3. \A j \in 1..i : j \in 1..(i - 1) \/ j = i
  BY <1>0
<1>4. \A j \in 1..(i - 1) : j \in 1..i
  BY <1>0
<1>5. i \in 1..i
  BY <1>0
<1>6. item.gen \in {NoGen, g}
  BY <1>0 DEF Readings
<1>7. ASSUME NEW c \in Corrs PROVE HeardTo(items, g, i)[c] = Heard(T, item)[c]
  <2>1. T[c] = IF \E j \in 1..(i - 1) : items[j].corr = c /\ items[j].gen > told[c]
               THEN g ELSE told[c]
    BY DEF HeardTo
  <2>2. HeardTo(items, g, i)[c] = IF \E j \in 1..i : items[j].corr = c /\ items[j].gen > told[c]
                                  THEN g ELSE told[c]
    BY DEF HeardTo
  <2>3. told[c] \in Nat
    BY <1>0
  <2>4. CASE \E j \in 1..(i - 1) : items[j].corr = c /\ items[j].gen > told[c]
    <3>1. T[c] = g /\ HeardTo(items, g, i)[c] = g
      BY <1>4, <2>1, <2>2, <2>4
    <3> QED
      BY <1>0, <1>2, <1>6, <3>1 DEF NoGen
  <2>5. CASE ~ \E j \in 1..(i - 1) : items[j].corr = c /\ items[j].gen > told[c]
    <3>1. T[c] = told[c]
      BY <2>1, <2>5
    <3>2. CASE item.corr = c /\ item.gen > told[c]
      <4>1. HeardTo(items, g, i)[c] = g
        BY <1>5, <2>2, <3>2
      <4>2. item.gen = g
        BY <1>6, <2>3, <3>2 DEF NoGen
      <4> QED
        BY <1>2, <3>1, <3>2, <4>1, <4>2
    <3>3. CASE ~(item.corr = c /\ item.gen > told[c])
      <4>1. HeardTo(items, g, i)[c] = told[c]
        BY <1>3, <2>2, <2>5, <3>3
      <4> QED
        BY <1>2, <3>1, <3>3, <4>1
    <3> QED
      BY <3>2, <3>3
  <2> QED
    BY <2>4, <2>5
<1>8. HeardTo(items, g, i) = [c \in Corrs |-> HeardTo(items, g, i)[c]]
  BY DEF HeardTo
<1> QED
  BY <1>2, <1>7, <1>8

LEMMA HeardToEnd ==
  ASSUME HistoryOK, NEW t \in Tools, NEW reply, ReplyOK(reply)
  PROVE  /\ Hears(t, reply) = HeardTo(ItemsOf(t, reply), reply.gen, Len(ItemsOf(t, reply)))
         /\ told = HeardTo(ItemsOf(t, reply), reply.gen, 0)
         /\ Hears(t, reply) \in [Corrs -> 0..Now]
<1> PICK items : items = ItemsOf(t, reply)
  OBVIOUS
<1>1. items \in Seq(Readings(reply.gen)) /\ reply.gen \in 1..Now /\ told \in [Corrs -> 0..Now]
      /\ Now \in Nat
  <2>1. items \in Seq(Readings(reply.gen))
    BY ItemsAreReadings
  <2>2. reply.gen \in 1..Now /\ told \in [Corrs -> 0..Now] /\ Now \in Nat
    BY DEF ReplyOK, HistoryOK, Now
  <2> QED
    BY <2>1, <2>2
<1> PICK seen : seen = {item.corr : item \in {i \in ToSet(items) : i.gen # NoGen}}
  OBVIOUS
<1>2. \A c : c \in seen <=> \E j \in 1..Len(items) : items[j].corr = c /\ items[j].gen # NoGen
  BY <1>1 DEF ToSet
<1>3. \A j \in 1..Len(items) : items[j].gen \in {NoGen, reply.gen}
  BY <1>1 DEF Readings
<1>4. ASSUME NEW c \in Corrs
      PROVE  (c \in seen /\ reply.gen > told[c]) <=>
             (\E j \in 1..Len(items) : items[j].corr = c /\ items[j].gen > told[c])
  <2>1. told[c] \in Nat /\ reply.gen \in Nat
    BY <1>1
  <2>2. ASSUME c \in seen, reply.gen > told[c]
        PROVE  \E j \in 1..Len(items) : items[j].corr = c /\ items[j].gen > told[c]
    <3>1. PICK j \in 1..Len(items) : items[j].corr = c /\ items[j].gen # NoGen
      BY <1>2, <2>2
    <3>2. items[j].gen = reply.gen
      BY <1>3, <3>1
    <3> QED
      BY <2>2, <3>1, <3>2
  <2>3. ASSUME NEW j \in 1..Len(items), items[j].corr = c, items[j].gen > told[c]
        PROVE  c \in seen /\ reply.gen > told[c]
    <3>1. items[j].gen # NoGen
      BY <2>1, <2>3 DEF NoGen
    <3>2. items[j].gen = reply.gen
      BY <1>3, <3>1
    <3> QED
      BY <1>2, <2>3, <3>1, <3>2
  <2> QED
    BY <2>2, <2>3
<1>5. Hears(t, reply) = [c \in Corrs |-> IF c \in seen /\ reply.gen > told[c]
                                         THEN reply.gen ELSE told[c]]
  BY DEF Hears
<1>6. Hears(t, reply) = HeardTo(items, reply.gen, Len(items))
  BY <1>4, <1>5 DEF HeardTo
<1>7. told = HeardTo(items, reply.gen, 0)
  BY <1>1 DEF HeardTo
<1>8. Hears(t, reply) \in [Corrs -> 0..Now]
  BY <1>1, <1>5
<1> QED
  BY <1>6, <1>7, <1>8

\* The registry after the first i of n items: true of them, with names to spare.
RegisteredTo(items, gen, q, names, i) ==
  /\ Grown(q)
  /\ names \subseteq Names
  /\ Len(items) - i <= Cardinality(Unused(q))
  /\ DatesAreNamed /\ Faithful(reg, told) =>
       Faithful(q, HeardTo(items, gen, i)) /\ Stays(reg, q)

LEMMA RegisterStep ==
  ASSUME HistoryOK, NEW g \in 1..Now, NEW items \in Seq(Readings(g)), NEW i \in 1..Len(items),
         NEW acc, RegisteredTo(items, g, acc.reg, acc.names, i - 1)
  PROVE  RegisteredTo(items, g, Register(acc, items[i]).reg, Register(acc, items[i]).names, i)
<1> PICK item : item = items[i]
  OBVIOUS
<1> PICK r : r = acc.reg
  OBVIOUS
<1> PICK fresh : fresh = FreshName(r)
  OBVIOUS
<1> PICK q : q = Upsert(r, item, fresh)
  OBVIOUS
<1>1. item \in Readings(g) /\ g \in Nat /\ Len(items) \in Nat /\ i \in Nat
  BY DEF Now
<1>2. /\ Register(acc, items[i]).reg = q
      /\ Register(acc, items[i]).names = acc.names \cup {Upserted(r, item, fresh)}
  BY DEF Register
<1>3. Fine(r) /\ Grown(r)
  BY DEF RegisteredTo, Grown
<1>4. IsFiniteSet(Unused(r)) /\ Cardinality(Unused(r)) \in Nat
  <2>1. Unused(r) \in SUBSET Names /\ IsFiniteSet(Names)
    BY TargetBounds DEF Unused
  <2> QED
    BY <2>1, FS_Subset, FS_CardinalityType
<1>5. Unused(r) # {}
  <2>1. Cardinality(Unused(r)) # 0
    BY <1>1, <1>4 DEF RegisteredTo
  <2> QED
    BY <2>1, FS_EmptySet
<1>6. fresh \in Unused(r)
  BY <1>5 DEF FreshName
<1>7. fresh \in Names /\ ~Known(r, fresh) /\ fresh \notin Held
  BY <1>6 DEF Unused
<1>8. /\ Fine(q) /\ Upserted(r, item, fresh) \in Names
      /\ \A m \in Names : /\ Known(r, m) => Known(q, m)
                          /\ Known(q, m) => Known(r, m) \/ (MintsName(r, item) /\ m = fresh)
  BY <1>1, <1>3, <1>7, UpsertIsFine
<1>9. Grown(q)
  BY <1>3, <1>7, <1>8 DEF Grown
<1>10. Len(items) - i <= Cardinality(Unused(q))
  <2>1. Unused(r) \ {fresh} \in SUBSET Unused(q)
    BY <1>8 DEF Unused
  <2>2. IsFiniteSet(Unused(q)) /\ Cardinality(Unused(q)) \in Nat
    <3>1. Unused(q) \in SUBSET Names /\ IsFiniteSet(Names)
      BY TargetBounds DEF Unused
    <3> QED
      BY <3>1, FS_Subset, FS_CardinalityType
  <2>3. Cardinality(Unused(r) \ {fresh}) = Cardinality(Unused(r)) - 1
    BY <1>4, <1>6, FS_RemoveElement
  <2>4. Cardinality(Unused(r) \ {fresh}) <= Cardinality(Unused(q))
    BY <2>1, <2>2, FS_Subset
  <2>5. Len(items) - (i - 1) <= Cardinality(Unused(r))
    BY DEF RegisteredTo
  <2> QED
    BY <1>1, <1>4, <2>2, <2>3, <2>4, <2>5
<1>11. ASSUME DatesAreNamed, Faithful(reg, told)
       PROVE  Faithful(q, HeardTo(items, g, i)) /\ Stays(reg, q)
  <2> PICK T : T = HeardTo(items, g, i - 1)
    OBVIOUS
  <2>1. Faithful(r, T) /\ Stays(reg, r)
    BY <1>11 DEF RegisteredTo
  <2>2. T \in [Corrs -> Nat]
    BY <1>1 DEF HeardTo, HistoryOK
  <2>3. HeardTo(items, g, i) = Heard(T, item)
    BY HeardToNext
  <2>4. Faithful(q, Heard(T, item))
    BY <1>1, <1>3, <1>7, <1>11, <2>1, <2>2, UpsertIsFaithful
  <2>5. Stays(r, q)
    BY <1>1, <1>3, <1>7, <2>1, UpsertStays
  <2>6. Stays(reg, q)
    BY <1>3, <2>1, <2>5 DEF Stays, Grown
  <2> QED
    BY <2>3, <2>4, <2>6
<1>12. acc.names \cup {Upserted(r, item, fresh)} \subseteq Names
  BY <1>8 DEF RegisteredTo
<1> QED
  BY <1>2, <1>9, <1>10, <1>11, <1>12 DEF RegisteredTo

LEMMA RegistersAll ==
  ASSUME HistoryOK, Fine(reg), NEW t \in Tools, NEW reply, ReplyOK(reply), NamesSuffice(t, reply)
  PROVE  /\ Grown(Projected(t, reply).reg)
         /\ Projected(t, reply).names \subseteq Names
         /\ DatesAreNamed /\ Faithful(reg, told) =>
              Faithful(Projected(t, reply).reg, Hears(t, reply)) /\ Stays(reg, Projected(t, reply).reg)
<1> PICK items : items = ItemsOf(t, reply)
  OBVIOUS
<1> PICK g : g = reply.gen
  OBVIOUS
<1> PICK base : base = [reg |-> reg, names |-> {}]
  OBVIOUS
<1>1. items \in Seq(Readings(g)) /\ g \in 1..Now
  BY ItemsAreReadings DEF ReplyOK
<1> PICK n \in Nat : n = Len(items) /\ DOMAIN items = 1..n
  BY <1>1
<1>2. PICK acc : Steps(NoGen, items, base, n, acc) /\ FoldLeft(Register, base, items) = acc[n]
  BY RegisterSteps
<1>3. Projected(t, reply) = acc[n]
  BY <1>2 DEF Projected
<1> DEFINE Good(i) == RegisteredTo(items, g, acc[i].reg, acc[i].names, i)
<1>4. Good(0)
  <2>1. acc[0] = base /\ base.reg = reg /\ base.names = {}
    BY <1>2 DEF Steps
  <2>2. Grown(reg)
    BY DEF Grown
  <2>3. Stays(reg, reg)
    BY DEF Stays
  <2>4. told = HeardTo(items, g, 0)
    BY HeardToEnd
  <2>5. Len(items) - 0 <= Cardinality(Unused(reg))
    BY DEF NamesSuffice
  <2> QED
    BY <2>1, <2>2, <2>3, <2>4, <2>5 DEF RegisteredTo
<1>5. ASSUME NEW i \in 1..n, Good(i - 1) PROVE Good(i)
  <2>1. acc[i] = Register(acc[i - 1], items[i])
    BY <1>2 DEF Steps, Does
  <2> QED
    BY <1>1, <1>5, <2>1, RegisterStep
<1> DEFINE T == {i \in 0..n : ~Good(i)}
<1>6. T = {}
  <2> SUFFICES ASSUME T # {} PROVE FALSE
    OBVIOUS
  <2>1. PICK i \in T : \A j \in T : i <= j
    <3>1. T \in SUBSET Nat
      OBVIOUS
    <3> HIDE DEF T
    <3> QED
      BY <3>1, Least
  <2> HIDE DEF Good
  <2>2. i \in 0..n /\ ~Good(i) /\ i # 0
    BY <1>4, <2>1
  <2>3. i \in 1..n /\ i - 1 \in 0..n /\ i - 1 \notin T
    BY <2>1, <2>2
  <2> QED
    BY <1>5, <2>2, <2>3
<1>7. Good(n)
  <2> HIDE DEF Good
  <2> QED
    BY <1>6
<1>8. Hears(t, reply) = HeardTo(items, g, n)
  BY HeardToEnd
<1> QED
  BY <1>3, <1>7, <1>8 DEF RegisteredTo

LEMMA UpdateTyped ==
  ASSUME HistoryOK, NEW g \in 1..Now, NEW c \in Corrs \ Present(g)
  PROVE  Update(c, g).corr \in Corrs \cup {None} /\ Update(c, g).ref \in Refs \cup {None}
<1>1. Now \in Nat /\ g \in Nat /\ was[g][c] = Gone
  BY DEF HistoryOK, Now, Present
<1> DEFINE T == {h \in 1..g : was[h][c] # Gone}
<1>2. T # {} /\ T \in SUBSET (1..g)
  <2>1. 1 \in T
    BY <1>1 DEF HistoryOK
  <2> QED
    BY <2>1
<1>3. \E m \in T : \A h \in T : h <= m
  <2> DEFINE U == {g - h : h \in T}
  <2>1. U \in SUBSET Nat /\ U # {}
    BY <1>1, <1>2
  <2>2. PICK u \in U : \A v \in U : u <= v
    <3> HIDE DEF U
    <3> QED
      BY <2>1, Least
  <2>3. PICK m \in T : u = g - m
    BY <2>2
  <2>4. \A h \in T : g - m <= g - h
    BY <2>2, <2>3
  <2> QED
    BY <1>1, <1>2, <2>3, <2>4
<1>4. PICK m \in 1..g : /\ was[m][c] # Gone
                        /\ \A h \in m+1..g : was[h][c] = Gone
  <2>1. PICK m \in T : \A h \in T : h <= m
    BY <1>3
  <2>2. \A h \in m+1..g : h \in 1..g /\ h > m
    BY <1>1, <2>1
  <2> QED
    BY <2>1, <2>2
<1>5. \A h \in 1..g : was[h][c] # Gone => was[h][c] \in Refs
  <2>1. \A h \in 1..g : h \in 1..Now
    BY <1>1
  <2> QED
    BY <2>1, TargetBounds DEF HistoryOK
<1>6. LastPlace(c, g) \in Refs
  BY <1>4, <1>5 DEF LastPlace
<1> QED
  BY <1>6 DEF Update

LEMMA UpdatesAll ==
  ASSUME HistoryOK, NEW reply, ReplyOK(reply), NEW r, Grown(r)
  PROVE  /\ Grown(ApplyUpdates(r, reply))
         /\ \A T : Faithful(r, T) => Faithful(ApplyUpdates(r, reply), T)
         /\ Stays(reg, r) => Stays(reg, ApplyUpdates(r, reply))
<1> PICK list : list = SetToSeq(reply.gone)
  OBVIOUS
<1> PICK g : g = reply.gen
  OBVIOUS
<1>1. g \in 1..Now /\ g # NoGen /\ reply.gone \subseteq Corrs \ Present(g)
  BY DEF ReplyOK, HistoryOK, Now, NoGen
<1>2. PICK n \in Nat : list \in [1..n -> reply.gone]
  <2>1. IsFiniteSet(reply.gone)
    BY <1>1, TargetBounds, FS_Subset
  <2> QED
    BY <2>1, Listed
<1>3. PICK acc : Steps(g, list, r, n, acc) /\ ApplyUpdates(r, reply) = acc[n]
  BY <1>1, <1>2, UpdateSteps
<1> DEFINE Good(i) == /\ Grown(acc[i])
                      /\ \A T : Faithful(r, T) => Faithful(acc[i], T)
                      /\ Stays(reg, r) => Stays(reg, acc[i])
<1>4. Good(0)
  BY <1>3 DEF Steps
<1>5. ASSUME NEW i \in 1..n, Good(i - 1) PROVE Good(i)
  <2> PICK update : update = Update(list[i], g)
    OBVIOUS
  <2> PICK p : p = acc[i - 1]
    OBVIOUS
  <2> PICK q : q = Invalidate(p, update)
    OBVIOUS
  <2>1. acc[i] = q
    BY <1>1, <1>3 DEF Steps, Does
  <2>0. list[i] \in Corrs \ Present(g)
    BY <1>1, <1>2
  <2>2. update.corr \in Corrs \cup {None} /\ update.ref \in Refs \cup {None}
    BY <1>1, <2>0, UpdateTyped
  <2>3. Grown(p) /\ Fine(p)
    BY <1>5 DEF Grown
  <2>4. /\ Fine(q)
        /\ \A m \in Names : /\ Known(q, m) <=> Known(p, m)
                            /\ Known(p, m) => q.entries[m].corr = p.entries[m].corr
    BY <2>2, <2>3, InvalidateIsFine
  <2>5. Grown(q)
    BY <2>3, <2>4 DEF Grown
  <2>6. ASSUME NEW T, Faithful(r, T) PROVE Faithful(q, T)
    <3>1. Faithful(p, T)
      BY <1>5, <2>6
    <3> QED
      BY <1>1, <2>0, <2>2, <2>3, <3>1, InvalidateIsFaithful
  <2>7. Stays(reg, r) => Stays(reg, q)
    BY <1>5, <2>3, <2>4 DEF Stays, Grown
  <2> QED
    BY <2>1, <2>5, <2>6, <2>7
<1> DEFINE T == {i \in 0..n : ~Good(i)}
<1>6. T = {}
  <2> SUFFICES ASSUME T # {} PROVE FALSE
    OBVIOUS
  <2>1. PICK i \in T : \A j \in T : i <= j
    <3>1. T \in SUBSET Nat
      OBVIOUS
    <3> HIDE DEF T
    <3> QED
      BY <3>1, Least
  <2> HIDE DEF Good
  <2>2. i \in 0..n /\ ~Good(i) /\ i # 0
    BY <1>4, <2>1
  <2>3. i \in 1..n /\ i - 1 \in 0..n /\ i - 1 \notin T
    BY <2>1, <2>2
  <2> QED
    BY <1>5, <2>2, <2>3
<1>7. Good(n)
  <2> HIDE DEF Good
  <2> QED
    BY <1>6
<1> QED
  BY <1>3, <1>7

LEMMA IngressLeaves ==
  ASSUME HistoryOK, Fine(reg), NEW t \in Tools, NEW reply, ReplyOK(reply), NamesSuffice(t, reply)
  PROVE  /\ Grown(Ingress(t, reply).reg)
         /\ Ingress(t, reply).names \subseteq Names
         /\ DatesAreNamed /\ Faithful(reg, told) =>
              Faithful(Ingress(t, reply).reg, Hears(t, reply)) /\ Stays(reg, Ingress(t, reply).reg)
<1>1. CASE Contract[t] = None
  <2>1. Ingress(t, reply).reg = reg /\ Ingress(t, reply).names = {}
    BY <1>1 DEF Ingress
  <2>2. Producers(t) = << >>
    BY <1>1 DEF Producers
  <2>3. ItemsOf(t, reply) = << >>
    <3> PICK lists : lists = [k \in DOMAIN Producers(t) |-> ReadBy(Producers(t)[k], reply)]
      OBVIOUS
    <3>1. lists = << >>
      BY <2>2
    <3>2. FlattenSeq(lists) = lists
      BY <3>1 DEF FlattenSeq
    <3> QED
      BY <3>1, <3>2 DEF ItemsOf
  <2>4. Hears(t, reply) = told
    <3>1. Len(ItemsOf(t, reply)) = 0
      BY <2>3
    <3> QED
      BY <3>1, HeardToEnd
  <2> QED
    BY <2>1, <2>4 DEF Grown, Stays
<1>2. CASE Contract[t] # None
  <2>1. /\ Ingress(t, reply).reg = ApplyUpdates(Projected(t, reply).reg, reply)
        /\ Ingress(t, reply).names = Projected(t, reply).names
    BY <1>2 DEF Ingress
  <2>2. /\ Grown(Projected(t, reply).reg)
        /\ Projected(t, reply).names \subseteq Names
        /\ DatesAreNamed /\ Faithful(reg, told) =>
             Faithful(Projected(t, reply).reg, Hears(t, reply)) /\ Stays(reg, Projected(t, reply).reg)
    BY RegistersAll
  <2> QED
    BY <2>1, <2>2, UpdatesAll
<1> QED
  BY <1>1, <1>2

-----------------------------------------------------------------------------
(* The steps, and what they send                                             *)

FlowFields == {"phase", "step", "stage", "aim", "tool", "args", "sent", "reply", "shown",
               "budget", "used"}

\* A step that looks knows what it looks with; one that is about to turn what
\* it chooses into a target knows by what.
Looks(s, stage, aim) ==
  /\ Executable(s)
  /\ stage = "source" => s.source \in Tools
  /\ stage = "producer" => s.producer \in Tools
  /\ stage \in {"probe", "choosing"} =>
       SelectionTool(s, aim) \in Tools /\ (aim = "source" => s.producer \in Tools)

FlowOK(f) ==
  /\ DOMAIN f = FlowFields
  /\ f.phase \in Phases
  /\ f.shown \subseteq Names
  /\ f.phase \in {"calling", "answered"} => f.tool \in Tools /\ Looks(f.step, f.stage, f.aim)
  /\ f.phase = "choosing" => Looks(f.step, "choosing", f.aim)
  /\ f.phase = "answered" => ReplyOK(f.reply)

\* A value stands for the target it was chosen for.
Stands(r, v) == v.meant \in Corrs => Known(r, v.name) /\ r.entries[v.name].corr = v.meant

\* A call that leaves carries the references of what it was given.
Leaving(r, f) ==
  f.phase = "calling" =>
    /\ f.sent = [p \in DOMAIN f.args |-> Sent(r, f.tool, p, f.args[p].name)]
    /\ \A p \in DOMAIN f.args : Stands(r, f.args[p])

LEMMA IdleIsOK == FlowOK(Idle) /\ (\A r : Leaving(r, Idle))
BY DEF FlowOK, Idle, FlowFields, Phases, Leaving

\* What becomes of a step that calls: a sound state, and the call it sends.
Sends(w, r, tool, args) ==
  \E f2 : /\ FlowOK(f2) /\ flows' = [flows EXCEPT ![w] = f2]
          /\ (\A p \in DOMAIN args : Stands(r, args[p])) => Leaving(r, f2)
          /\ f2.phase = "calling" =>
               /\ f2.tool = tool /\ f2.args = args /\ Passes(r, tool, NamesIn(args))
               /\ f2.sent = [p \in DOMAIN args |-> Sent(r, tool, p, args[p].name)]

LEMMA CallsMove ==
  ASSUME NEW w \in Workers, NEW r, NEW f, DOMAIN f = FlowFields, f.shown \subseteq Names,
         NEW stage, NEW tool \in Tools, NEW args, Looks(f.step, stage, f.aim),
         stage = "probe" => Looks(f.step, "choosing", f.aim),
         Calls(w, r, f, stage, tool, args)
  PROVE  Sends(w, r, tool, args)
<1>1. CASE Dispatches(w, r, f, stage, tool, args)
  <2> PICK f2 : f2 = [f EXCEPT !.phase = "calling", !.stage = stage, !.tool = tool, !.args = args,
       !.sent = [p \in DOMAIN args |-> Sent(r, tool, p, args[p].name)], !.reply = None]
    OBVIOUS
  <2>1. /\ DOMAIN f2 = FlowFields /\ f2.phase = "calling" /\ f2.stage = stage /\ f2.tool = tool
        /\ f2.args = args /\ f2.shown = f.shown /\ f2.step = f.step /\ f2.aim = f.aim
        /\ f2.sent = [p \in DOMAIN args |-> Sent(r, tool, p, args[p].name)]
    BY DEF FlowFields
  <2>2. FlowOK(f2)
    BY <2>1 DEF FlowOK, Phases
  <2>3. (\A p \in DOMAIN args : Stands(r, args[p])) => Leaving(r, f2)
    BY <2>1 DEF Leaving
  <2>4. flows' = [flows EXCEPT ![w] = f2] /\ Passes(r, tool, NamesIn(args))
    BY <1>1 DEF Dispatches, Goto
  <2> QED
    BY <2>1, <2>2, <2>3, <2>4 DEF Sends
<1>2. CASE Goto(w, IF stage = "probe"
                   THEN [f EXCEPT !.phase = "choosing", !.shown = {}, !.reply = None] ELSE Idle)
  <2>1. CASE stage = "probe"
    <3> PICK f2 : f2 = [f EXCEPT !.phase = "choosing", !.shown = {}, !.reply = None]
      OBVIOUS
    <3>1. /\ DOMAIN f2 = FlowFields /\ f2.phase = "choosing" /\ f2.shown = {}
          /\ f2.step = f.step /\ f2.aim = f.aim
      BY DEF FlowFields
    <3>2. FlowOK(f2) /\ Leaving(r, f2)
      BY <2>1, <3>1 DEF FlowOK, Phases, Leaving
    <3> QED
      BY <1>2, <2>1, <3>1, <3>2 DEF Goto, Sends
  <2>2. CASE stage # "probe"
    <3>1. flows' = [flows EXCEPT ![w] = Idle] /\ Idle.phase # "calling"
      BY <1>2, <2>2 DEF Goto, Idle
    <3> QED
      BY <3>1, IdleIsOK DEF Sends
  <2> QED
    BY <2>1, <2>2
<1> QED
  BY <1>1, <1>2 DEF Calls

\* Where a step goes next: a sound state, in which what it sends stands.
Goes(w, r) ==
  \E f2 : FlowOK(f2) /\ Leaving(r, f2) /\ flows' = [flows EXCEPT ![w] = f2]

LEMMA CallsGo ==
  ASSUME NEW w \in Workers, NEW r, NEW f, DOMAIN f = FlowFields, f.shown \subseteq Names,
         NEW stage, NEW tool \in Tools, NEW args, Looks(f.step, stage, f.aim),
         stage = "probe" => Looks(f.step, "choosing", f.aim),
         \A p \in DOMAIN args : Stands(r, args[p]),
         Calls(w, r, f, stage, tool, args)
  PROVE  Goes(w, r)
<1>1. Sends(w, r, tool, args)
  BY CallsMove
<1>2. PICK f2 : /\ FlowOK(f2) /\ flows' = [flows EXCEPT ![w] = f2]
                /\ (\A p \in DOMAIN args : Stands(r, args[p])) => Leaving(r, f2)
  BY <1>1 DEF Sends
<1> QED
  BY <1>2 DEF Goes

LEMMA IdleGoes == ASSUME NEW w, NEW r, Goto(w, Idle) PROVE Goes(w, r)
BY IdleIsOK DEF Goes, Goto

LEMMA EndsGoes == ASSUME NEW w, NEW r, Ends(w) PROVE Goes(w, r) /\ UNCHANGED variables
BY IdleGoes DEF Ends

LEMMA ChosenStands ==
  ASSUME NEW r, NEW n, Active(r, n)
  PROVE  Stands(r, Chosen(r, n)) /\ Chosen(r, n).name = n
BY DEF Stands, Chosen, Value, Active

LEMMA AnchorStands ==
  ASSUME NEW r, NEW name, NEW meant, meant \notin Corrs
  PROVE  Stands(r, Value(name, meant))
BY DEF Stands, Value

\* A step that goes on: it has a plan, and names it may have been shown.
Steady(f) == DOMAIN f = FlowFields /\ f.shown \subseteq Names /\ Executable(f.step)

LEMMA ClearedIsSteady ==
  ASSUME NEW f, Steady(f), NEW f2,
         f2 = [f EXCEPT !.shown = {}, !.used = {}, !.budget = 0, !.aim = None]
  PROVE  DOMAIN f2 = FlowFields /\ f2.shown = {} /\ f2.step = f.step /\ f2.aim = None
BY DEF Steady, FlowFields

LEMMA SelectedGoes ==
  ASSUME NEW w \in Workers, NEW r, NEW f, Steady(f), NEW t, Stands(r, t), Selected(w, r, f, t)
  PROVE  Goes(w, r)
<1> PICK s : s = f.step
  OBVIOUS
<1> PICK args : args = ActionArgs(s, t)
  OBVIOUS
<1> PICK f2 : f2 = [f EXCEPT !.shown = {}, !.used = {}, !.budget = 0, !.aim = None]
  OBVIOUS
<1>1. CASE s.kind # "act" \/ args = None
  BY <1>1, IdleGoes DEF Selected
<1>2. CASE s.kind = "act" /\ args # None
  <2>1. Calls(w, r, f2, "action", s.action, args)
    BY <1>2 DEF Selected
  <2>2. s.action \in Tools /\ Executable(s)
    BY <1>2 DEF Steady, Executable
  <2>3. DOMAIN f2 = FlowFields /\ f2.shown \subseteq Names /\ f2.step = s /\ f2.aim = None
    BY ClearedIsSteady
  <2>4. Looks(s, "action", None)
    BY <2>2 DEF Looks
  <2>5. ASSUME NEW p \in DOMAIN args PROVE Stands(r, args[p])
    <3>1. args[p] = t \/ (\E name : args[p] = Value(name, None))
      BY <1>2 DEF ActionArgs
    <3> QED
      BY <3>1, AnchorStands, NoneIsNothing
  <2> QED
    BY <2>1, <2>2, <2>3, <2>4, <2>5, CallsGo
<1> QED
  BY <1>1, <1>2

LEMMA ProducesGoes ==
  ASSUME NEW w \in Workers, NEW r, NEW f, Steady(f), f.step.producer \in Tools,
         NEW t, Stands(r, t), Produces(w, r, f, t)
  PROVE  Goes(w, r) /\ UNCHANGED variables
<1> PICK tool \in Tools : tool = f.step.producer
  OBVIOUS
<1> PICK f2 : f2 = [f EXCEPT !.shown = {}, !.used = {}, !.budget = 0, !.aim = None]
  OBVIOUS
<1>1. UNCHANGED variables
  BY DEF Produces
<1>2. Goto(w, Idle) \/ (\E param : Calls(w, r, f2, "producer", tool, [p \in {param} |-> t]))
  BY DEF Produces
<1>3. ASSUME NEW param, Calls(w, r, f2, "producer", tool, [p \in {param} |-> t]) PROVE Goes(w, r)
  <2>1. DOMAIN f2 = FlowFields /\ f2.shown \subseteq Names /\ f2.step = f.step /\ f2.aim = None
    BY ClearedIsSteady
  <2>2. Looks(f.step, "producer", None)
    BY DEF Looks, Steady
  <2>3. \A p \in DOMAIN [q \in {param} |-> t] : Stands(r, [q \in {param} |-> t][p])
    OBVIOUS
  <2> QED
    BY <1>3, <2>1, <2>2, <2>3, CallsGo
<1> QED
  BY <1>1, <1>2, <1>3, IdleGoes

\* A selection that begins, with what it looks with.
LEMMA ChoosingGoes ==
  ASSUME NEW w \in Workers, NEW r, NEW f, Steady(f), NEW aim, Looks(f.step, "choosing", aim),
         Goto(w, Choosing(f, aim))
  PROVE  Goes(w, r)
<1> PICK f2 : f2 = Choosing(f, aim)
  OBVIOUS
<1>1. /\ DOMAIN f2 = FlowFields /\ f2.phase = "choosing" /\ f2.shown = f.shown
      /\ f2.step = f.step /\ f2.aim = aim
  BY DEF Choosing, Steady, FlowFields
<1>2. FlowOK(f2) /\ Leaving(r, f2)
  BY <1>1 DEF FlowOK, Leaving, Phases, Steady
<1> QED
  BY <1>2 DEF Goes, Goto

\* The only one of a set of names shown is one of them.
LEMMA TheOnlyOne ==
  ASSUME NEW r, NEW f, Cardinality(Shown(r, f)) = 1, f.shown \subseteq Names
  PROVE  Active(r, CHOOSE n \in Shown(r, f) : TRUE) /\ (CHOOSE n \in Shown(r, f) : TRUE) \in f.shown
<1>1. Shown(r, f) # {}
  BY FS_EmptySet
<1> QED
  BY <1>1 DEF Shown

LEMMA AfterSourceGoes ==
  ASSUME NEW w \in Workers, NEW r, NEW f, Steady(f), f.step.source \in Tools,
         f.step.producer \in Tools, AfterSource(w, r, f)
  PROVE  Goes(w, r)
<1>1. CASE Ends(w)
  BY <1>1, EndsGoes
<1>2. CASE /\ Cardinality(Shown(r, f)) = 1
           /\ Produces(w, r, f, Chosen(r, CHOOSE n \in Shown(r, f) : TRUE))
  <2>1. Stands(r, Chosen(r, CHOOSE n \in Shown(r, f) : TRUE))
    BY <1>2, TheOnlyOne, ChosenStands DEF Steady
  <2> QED
    BY <1>2, <2>1, ProducesGoes
<1>3. CASE Goto(w, Choosing(f, "source"))
  <2>1. Looks(f.step, "choosing", "source")
    BY DEF Looks, SelectionTool, Steady
  <2> QED
    BY <1>3, <2>1, ChoosingGoes
<1> QED
  BY <1>1, <1>2, <1>3 DEF AfterSource

LEMMA AfterLastGoes ==
  ASSUME NEW w \in Workers, NEW r, NEW f, Steady(f), SelectionTool(f.step, "final") \in Tools,
         AfterLast(w, r, f)
  PROVE  Goes(w, r)
<1>1. CASE Ends(w)
  BY <1>1, EndsGoes
<1>2. CASE /\ Cardinality(Shown(r, f)) = 1
           /\ Selected(w, r, f, Chosen(r, CHOOSE n \in Shown(r, f) : TRUE))
  <2>1. Stands(r, Chosen(r, CHOOSE n \in Shown(r, f) : TRUE))
    BY <1>2, TheOnlyOne, ChosenStands DEF Steady
  <2> QED
    BY <1>2, <2>1, SelectedGoes
<1>3. CASE Goto(w, Choosing(f, "final"))
  <2>1. Looks(f.step, "choosing", "final")
    BY DEF Looks, Steady
  <2> QED
    BY <1>3, <2>1, ChoosingGoes
<1> QED
  BY <1>1, <1>2, <1>3 DEF AfterLast

\* After an answer.
LEMMA GoesOnGoes ==
  ASSUME NEW w \in Workers, NEW r, NEW f, Steady(f), Looks(f.step, f.stage, f.aim),
         GoesOn(w, r, f)
  PROVE  Goes(w, r)
<1>1. CASE AfterDirect(w, r, f)
  BY <1>1, IdleGoes DEF AfterDirect
<1>2. CASE f.stage = "probe" /\ AfterProbe(w, r, f)
  <2> PICK f2 : f2 = [f EXCEPT !.phase = "choosing", !.shown = Shown(r, f),
                        !.reply = None, !.stage = None, !.tool = None]
    OBVIOUS
  <2>1. /\ DOMAIN f2 = FlowFields /\ f2.phase = "choosing" /\ f2.shown \subseteq Names
        /\ f2.step = f.step /\ f2.aim = f.aim
    BY DEF Steady, FlowFields, Shown
  <2>2. FlowOK(f2) /\ Leaving(r, f2)
    BY <1>2, <2>1 DEF FlowOK, Leaving, Phases, Looks
  <2> QED
    BY <1>2, <2>2 DEF Goes, Goto, AfterProbe
<1>3. CASE f.stage = "source" /\ f.step.producer # None /\ AfterSource(w, r, f)
  <2>1. f.step.source \in Tools /\ f.step.producer \in Tools
    BY <1>3 DEF Looks, Executable
  <2> QED
    BY <1>3, <2>1, AfterSourceGoes
<1>4. CASE f.stage \in {"source", "producer"} /\ AfterLast(w, r, f)
  <2>1. SelectionTool(f.step, "final") \in Tools
    BY <1>4 DEF Looks, Executable, SelectionTool
  <2> QED
    BY <1>4, <2>1, AfterLastGoes
<1>5. CASE Ends(w)
  BY <1>5, EndsGoes
<1> QED
  BY <1>1, <1>2, <1>3, <1>4, <1>5 DEF GoesOn

\* What a selection does.
LEMMA SelectGoes ==
  ASSUME NEW w \in Workers, FlowOK(flows[w]), Select(w)
  PROVE  Goes(w, reg)
<1> PICK f : f = flows[w]
  OBVIOUS
<1>1. f.phase = "choosing" /\ Looks(f.step, "choosing", f.aim) /\ Steady(f) /\ FlowOK(f)
  BY DEF Select, At, FlowOK, Looks, Steady
<1> PICK tool \in Tools : tool = SelectionTool(f.step, f.aim)
  BY <1>1 DEF Looks
<1>2. f.aim = "source" => f.step.producer \in Tools
  BY <1>1 DEF Looks
<1>3. ASSUME NEW t, Stands(reg, t),
             IF f.aim = "source" THEN Produces(w, reg, f, t) ELSE Selected(w, reg, f, t)
      PROVE  Goes(w, reg)
  BY <1>1, <1>2, <1>3, ProducesGoes, SelectedGoes
<1>4. CASE ChoosesLocal(w)
  <2>1. PICK n \in Shown(reg, f) : IF f.aim = "source" THEN Produces(w, reg, f, Chosen(reg, n))
                                   ELSE Selected(w, reg, f, Chosen(reg, n))
    BY <1>4 DEF ChoosesLocal
  <2>2. Stands(reg, Chosen(reg, n))
    BY ChosenStands DEF Shown
  <2> QED
    BY <1>3, <2>1, <2>2
<1>5. CASE ChoosesAnchor(w)
  <2>1. PICK kind \in OfferedKinds(f.step, f.aim) :
               IF f.aim = "source" THEN Produces(w, reg, f, Value(Raw, kind))
               ELSE Selected(w, reg, f, Value(Raw, kind))
    BY <1>5 DEF ChoosesAnchor
  <2>2. kind \in AnchorKinds(Tools)
    <3>1. f.step.producer # None /\ kind \in AnchorKinds({tool, f.step.producer})
      BY <2>1 DEF OfferedKinds
    <3>2. f.step.producer \in Tools
      BY <1>1, <3>1 DEF Looks, Executable
    <3> QED
      BY <3>1, <3>2 DEF AnchorKinds
  <2>3. Stands(reg, Value(Raw, kind))
    BY <2>2, AnchorStands, ContractAssumption
  <2> QED
    BY <1>3, <2>1, <2>3
<1>6. CASE ChoosesProbe(w)
  <2>1. PICK probe \in Probes(tool), subject \in f.shown \cup {Raw} :
          LET args == ProbeArgs(f, probe, subject)
              g    == [f EXCEPT !.budget = @ - 1, !.used = @ \cup {<<probe.id, subject>>}]
          IN  IF <<probe.id, subject>> \in f.used THEN Goto(w, Idle)
              ELSE IF args = None THEN Goto(w, g)
              ELSE Calls(w, reg, g, "probe", probe.tool, args)
    BY <1>6 DEF ChoosesProbe
  <2> PICK arg : arg = SubjectArg(f, probe, subject)
    OBVIOUS
  <2> PICK g : g = [f EXCEPT !.budget = @ - 1, !.used = @ \cup {<<probe.id, subject>>}]
    OBVIOUS
  <2> PICK args : args = ProbeArgs(f, probe, subject)
    OBVIOUS
  <2>2. /\ DOMAIN g = FlowFields /\ g.phase = "choosing" /\ g.shown = f.shown
        /\ g.step = f.step /\ g.aim = f.aim
    BY <1>1 DEF Steady, FlowFields
  <2>3. CASE Goto(w, Idle)
    BY <2>3, IdleGoes
  <2>4. CASE Goto(w, g)
    <3>1. FlowOK(g) /\ Leaving(reg, g)
      BY <1>1, <2>2 DEF FlowOK, Leaving, Phases, Steady
    <3> QED
      BY <2>4, <3>1 DEF Goes, Goto
  <2>5. CASE args # None /\ Calls(w, reg, g, "probe", probe.tool, args)
    <3>1. probe.tool \in Tools /\ probe.subject \notin Corrs
      BY <2>5, ContractAssumption DEF ProbeArgs
    <3>2. Looks(g.step, "probe", g.aim) /\ Looks(g.step, "choosing", g.aim)
      BY <1>1, <2>2 DEF Looks
    <3>3. ASSUME arg # None, args = [p \in {probe.param} |-> arg]
          PROVE  \A p \in DOMAIN args : Stands(reg, args[p])
      <4> SUFFICES Stands(reg, arg)
        BY <3>3
      <4>1. CASE Active(reg, subject) /\ arg = Chosen(reg, subject)
        BY <4>1, ChosenStands
      <4>2. CASE \E name : arg = Value(name, None)
        BY <4>2, AnchorStands, NoneIsNothing
      <4>3. CASE arg = Value(Raw, probe.subject)
        BY <3>1, <4>3, AnchorStands
      <4> QED
        BY <3>3, <4>1, <4>2, <4>3 DEF SubjectArg, Shown
    <3>4. \A p \in DOMAIN args : Stands(reg, args[p])
      BY <2>5, <3>3 DEF ProbeArgs
    <3> QED
      BY <1>1, <2>2, <2>5, <3>1, <3>2, <3>4, CallsGo DEF Steady
  <2> QED
    BY <2>1, <2>3, <2>4, <2>5
<1>7. CASE Ends(w)
  BY <1>7, EndsGoes
<1> QED
  BY <1>4, <1>5, <1>6, <1>7 DEF Select

-----------------------------------------------------------------------------
(* Every step keeps the registry sound                                       *)

FlowsOK == DOMAIN flows = Workers /\ \A w \in Workers : FlowOK(flows[w])
TodoOK  == DOMAIN todo = Workers /\ \A w \in Workers : todo[w] \in Seq(ToSet(Plan[w]))
Inv == HistoryOK /\ Fine(reg) /\ FlowsOK /\ TodoOK

LEMMA InitIsSound == Init => Inv
<1> SUFFICES ASSUME Init PROVE Inv
  OBVIOUS
<1>1. PICK place \in [Corrs -> Refs] : (\A c \in Corrs : place[c] \in Home[c]) /\ was = << place >>
  BY DEF Init
<1>2. HistoryOK
  <2>1. was \in Seq([Corrs -> Refs \cup {Gone}]) /\ Now = 1 /\ was[1] = place
    BY <1>1 DEF Now
  <2>2. told \in [Corrs -> 0..Now]
    BY <2>1 DEF Init, NoGen
  <2> QED
    BY <1>1, <2>1, <2>2, TargetBounds DEF HistoryOK
<1>3. Fine(reg)
  BY EmptyIsFine DEF Init
<1>4. FlowsOK
  BY IdleIsOK DEF Init, FlowsOK
<1>5. TodoOK
  BY PlanAssumption DEF Init, TodoOK
<1> QED
  BY <1>2, <1>3, <1>4, <1>5 DEF Inv

\* The other steps stay where they are, as long as the host does.
LEMMA OneMoves ==
  ASSUME FlowsOK, was' = was, NEW w \in Workers, NEW f2, FlowOK(f2),
         flows' = [flows EXCEPT ![w] = f2]
  PROVE  FlowsOK'
<1>1. DOMAIN flows' = Workers
  BY DEF FlowsOK
<1>2. ASSUME NEW v \in Workers PROVE FlowOK(flows[v])'
  <2> PICK f : f = flows'[v]
    OBVIOUS
  <2>1. FlowOK(f)
    BY DEF FlowsOK
  <2>2. FlowOK(f)'
    BY <2>1 DEF FlowOK, ReplyOK, Now, Present
  <2> QED
    BY <2>2
<1> QED
  BY <1>1, <1>2 DEF FlowsOK

LEMMA GoesKeeps ==
  ASSUME FlowsOK, was' = was, NEW w \in Workers, NEW r, Goes(w, r)
  PROVE  FlowsOK'
<1>1. PICK f2 : FlowOK(f2) /\ flows' = [flows EXCEPT ![w] = f2]
  BY DEF Goes
<1> QED
  BY <1>1, OneMoves

\* What an answer told is no newer than the host.
LEMMA HearsTyped ==
  ASSUME HistoryOK, NEW t, NEW reply, ReplyOK(reply)
  PROVE  Hears(t, reply) \in [Corrs -> 0..Now]
BY DEF HistoryOK, ReplyOK, Hears, Now

\* A change of the world: answers tell of the generation they were given at.
LEMMA WorldChangesKeeps ==
  ASSUME Inv, NEW c \in Corrs, WorldChanges(c)
  PROVE  Inv'
<1>1. PICK p : p \in Home[c] \cup {Gone} /\ was' = Append(was, [was[Now] EXCEPT ![c] = p])
  BY DEF WorldChanges
<1>2. PICK x : x = [was[Now] EXCEPT ![c] = p]
  OBVIOUS
<1>3. HistoryOK
  BY DEF Inv
<1>4. x \in [Corrs -> Refs \cup {Gone}] /\ \A d \in Corrs : x[d] # Gone => x[d] \in Home[d]
  <2>1. was[Now] \in [Corrs -> Refs \cup {Gone}] /\ Now \in 1..Now
    BY <1>3 DEF HistoryOK, Now
  <2>2. \A d \in Corrs : was[Now][d] # Gone => was[Now][d] \in Home[d]
    BY <1>3, <2>1 DEF HistoryOK
  <2>3. p \in Refs \cup {Gone}
    BY <1>1, TargetBounds
  <2>4. \A d \in Corrs : x[d] = IF d = c THEN p ELSE was[Now][d]
    BY <1>2, <2>1
  <2> QED
    BY <1>1, <1>2, <2>1, <2>2, <2>3, <2>4
<1>5. /\ was' \in Seq([Corrs -> Refs \cup {Gone}]) /\ Now' = Now + 1 /\ Now \in Nat
      /\ was'[Now + 1] = x /\ \A g \in 1..Now : was'[g] = was[g]
  BY <1>1, <1>2, <1>3, <1>4 DEF HistoryOK, Now
<1>6. HistoryOK'
  <2>1. 1 \in 1..Now /\ \A g \in 1..Now' : g \in 1..Now \/ g = Now + 1
    BY <1>3, <1>5 DEF HistoryOK
  <2>2. \A d \in Corrs : was'[1][d] \in Refs /\ was'[1][d] # Gone
    BY <1>3, <1>5, <2>1 DEF HistoryOK
  <2>3. \A g \in 1..Now' : \A d \in Corrs : was'[g][d] # Gone => was'[g][d] \in Home[d]
    BY <1>3, <1>4, <1>5, <2>1 DEF HistoryOK
  <2>4. told' \in [Corrs -> 0..Now']
    BY <1>3, <1>5 DEF HistoryOK, WorldChanges
  <2>5. Now' >= 1
    BY <1>5
  <2> QED
    BY <1>5, <2>2, <2>3, <2>4, <2>5 DEF HistoryOK
<1>7. FlowsOK'
  <2>1. ASSUME NEW reply, ReplyOK(reply) PROVE ReplyOK(reply)'
    <3>1. reply.gen \in 1..Now /\ was'[reply.gen] = was[reply.gen] /\ reply.gen \in 1..Now'
      BY <1>5, <2>1 DEF ReplyOK
    <3>2. Present(reply.gen)' = Present(reply.gen)
      BY <3>1 DEF Present
    <3> QED
      BY <2>1, <3>1, <3>2 DEF ReplyOK
  <2>2. ASSUME NEW v \in Workers PROVE FlowOK(flows[v])'
    <3> PICK f : f = flows[v]
      OBVIOUS
    <3>1. FlowOK(f) /\ flows'[v] = f
      BY DEF Inv, FlowsOK, WorldChanges
    <3>2. FlowOK(f)'
      BY <2>1, <3>1 DEF FlowOK
    <3> QED
      BY <3>1, <3>2
  <2> QED
    BY <2>2 DEF Inv, FlowsOK, WorldChanges
<1>8. Fine(reg)' /\ TodoOK'
  BY DEF Inv, Fine, Indexed, Active, Known, TodoOK, WorldChanges
<1> QED
  BY <1>6, <1>7, <1>8 DEF Inv

\* The host answers with the targets there are.
LEMMA HostAnswersKeeps ==
  ASSUME Inv, NEW w \in Workers, HostAnswers(w)
  PROVE  Inv'
<1> PICK f : f = flows[w]
  OBVIOUS
<1> PICK there : there = Present(Now)
  OBVIOUS
<1>1. PICK ok \in BOOLEAN, items \in Gives(f.tool, there) \cup {<< >>}, gone \in {{}, Corrs \ there} :
         flows' = [flows EXCEPT ![w] = [f EXCEPT !.phase = "answered", !.args = << >>, !.sent = << >>,
                    !.reply = [ok |-> ok, gen |-> Now, items |-> items, gone |-> gone]]]
  BY DEF HostAnswers, Goto, Present
<1> PICK reply : reply = [ok |-> ok, gen |-> Now, items |-> items, gone |-> gone]
  OBVIOUS
<1> PICK f2 : f2 = [f EXCEPT !.phase = "answered", !.args = << >>, !.sent = << >>, !.reply = reply]
  OBVIOUS
<1>2. items \in Seq(there)
  <2>1. IsFiniteSet(there)
    BY TargetBounds, FS_Subset DEF Present
  <2>2. SetToSeq(there) \in Seq(there)
    BY <2>1, Listed
  <2>3. \A c \in there : <<c>> \in Seq(there)
    OBVIOUS
  <2>4. items = << >> \/ items = SetToSeq(there) \/ (\E c \in there : items = <<c>>)
    BY DEF Gives
  <2>5. << >> \in Seq(there)
    OBVIOUS
  <2> QED
    BY <2>2, <2>3, <2>4, <2>5
<1>3. ReplyOK(reply)
  BY <1>2 DEF ReplyOK, Inv, HistoryOK, Now
<1>4. FlowOK(f) /\ f.phase = "calling"
  BY DEF Inv, FlowsOK, HostAnswers, At
<1>5. /\ DOMAIN f2 = FlowFields /\ f2.phase = "answered" /\ f2.reply = reply /\ f2.shown = f.shown
      /\ f2.tool = f.tool /\ f2.step = f.step /\ f2.stage = f.stage /\ f2.aim = f.aim
  BY <1>4 DEF FlowOK, FlowFields
<1>6. FlowOK(f2)
  BY <1>3, <1>4, <1>5 DEF FlowOK, Phases
<1>7. flows' = [flows EXCEPT ![w] = f2] /\ was' = was
  BY <1>1 DEF HostAnswers
<1>8. FlowsOK'
  BY <1>6, <1>7, OneMoves DEF Inv
<1>9. HistoryOK' /\ Fine(reg)' /\ TodoOK'
  BY DEF Inv, HistoryOK, Now, Fine, Indexed, Active, Known, TodoOK, HostAnswers
<1> QED
  BY <1>8, <1>9 DEF Inv

LEMMA StartKeeps ==
  ASSUME Inv, NEW w \in Workers, Start(w)
  PROVE  Inv'
<1>1. PICK s \in Head(todo[w]) : StartCall(w, s) \/ StartPerception(w, s)
  BY DEF Start
<1>2. todo[w] \in Seq(ToSet(Plan[w])) /\ todo[w] # << >>
  BY DEF Inv, TodoOK, Start
<1>3. Head(todo[w]) \in ToSet(Plan[w]) /\ Tail(todo[w]) \in Seq(ToSet(Plan[w]))
  <2> PICK S : S = ToSet(Plan[w])
    OBVIOUS
  <2> PICK t : t = todo[w]
    OBVIOUS
  <2>1. t \in Seq(S) /\ t # << >>
    BY <1>2
  <2>2. Head(t) \in S /\ Tail(t) \in Seq(S)
    BY <2>1, HeadTailProperties
  <2> QED
    BY <2>2
<1>4. Executable(s)
  BY <1>1, <1>3, PlanAssumption
<1> PICK f : f = [Idle EXCEPT !.step = s]
  OBVIOUS
<1>5. DOMAIN f = FlowFields /\ f.shown \subseteq Names /\ f.step = s /\ f.aim = None
  BY DEF Idle, FlowFields
<1>6. was' = was /\ FlowsOK
  BY DEF Start, Inv
<1>7. ASSUME NEW stage, NEW tool \in Tools, NEW args, Looks(s, stage, None), stage # "probe",
             Calls(w, reg, f, stage, tool, args)
      PROVE  FlowsOK'
  <2>1. Sends(w, reg, tool, args)
    BY <1>5, <1>7, CallsMove
  <2> QED
    BY <1>6, <2>1, OneMoves DEF Sends
<1>8. FlowsOK'
  <2>1. CASE StartCall(w, s)
    <3>1. Looks(s, "direct", None) /\ s.action \in Tools
      BY <1>4, <2>1 DEF Looks, Executable, StartCall
    <3> QED
      BY <1>7, <2>1, <3>1 DEF StartCall
  <2>2. CASE StartPerception(w, s) /\ s.source # None
    <3>1. Looks(s, "source", None) /\ s.source \in Tools
      BY <1>4, <2>2 DEF Looks, Executable
    <3> QED
      BY <1>7, <2>2, <3>1 DEF StartPerception
  <2>3. CASE StartPerception(w, s) /\ s.source = None
    <3>1. Looks(s, "producer", None) /\ s.producer \in Tools
      BY <1>4, <2>3 DEF Looks, Executable, StartPerception
    <3> QED
      BY <1>7, <2>3, <3>1 DEF StartPerception
  <2> QED
    BY <1>1, <2>1, <2>2, <2>3
<1>9. TodoOK'
  BY <1>3 DEF Start, Inv, TodoOK
<1>10. HistoryOK' /\ Fine(reg)'
  BY DEF Inv, HistoryOK, Now, Fine, Indexed, Active, Known, Start
<1> QED
  BY <1>8, <1>9, <1>10 DEF Inv

\* The answer is read with a tool of the host, and leaves the registry fine.
LEMMA DeliverReads ==
  ASSUME Inv, NEW w \in Workers, Deliver(w)
  PROVE  /\ Reader(flows[w]) \in Tools
         /\ ReplyOK(flows[w].reply)
         /\ NamesSuffice(Reader(flows[w]), flows[w].reply)
<1> PICK f : f = flows[w]
  OBVIOUS
<1>1. FlowOK(f) /\ f.phase = "answered"
  BY DEF Inv, FlowsOK, Deliver, At
<1>2. ReplyOK(f.reply) /\ f.tool \in Tools /\ Looks(f.step, f.stage, f.aim)
  BY <1>1 DEF FlowOK
<1>3. Reader(f) \in Tools
  BY <1>2 DEF Reader, Looks
<1> QED
  BY <1>2, <1>3 DEF Deliver

LEMMA DeliverKeeps ==
  ASSUME Inv, NEW w \in Workers, Deliver(w)
  PROVE  Inv'
<1> PICK f : f = flows[w]
  OBVIOUS
<1> PICK G : G = Ingress(Reader(f), f.reply)
  OBVIOUS
<1>1. reg' = G.reg /\ told' = Hears(Reader(f), f.reply) /\ was' = was /\ todo' = todo
  BY DEF Deliver
<1>2. Reader(f) \in Tools /\ ReplyOK(f.reply) /\ NamesSuffice(Reader(f), f.reply)
  BY DeliverReads
<1>3. Fine(G.reg) /\ G.names \subseteq Names
  BY <1>2, IngressLeaves DEF Inv, Grown
<1> PICK f1 : f1 = [f EXCEPT !.shown = G.names]
  OBVIOUS
<1>4. GoesOn(w, G.reg, f1)
  BY DEF Deliver
<1>5. Steady(f1) /\ Looks(f1.step, f1.stage, f1.aim)
  <2>1. FlowOK(f) /\ f.phase = "answered"
    BY DEF Inv, FlowsOK, Deliver, At
  <2>2. DOMAIN f1 = FlowFields /\ f1.shown = G.names /\ f1.step = f.step /\ f1.stage = f.stage
        /\ f1.aim = f.aim
    BY <2>1 DEF FlowOK, FlowFields
  <2> QED
    BY <1>3, <2>1, <2>2 DEF Steady, FlowOK, Looks
<1> PICK r : r = G.reg
  OBVIOUS
<1>6. Goes(w, r)
  BY <1>4, <1>5, GoesOnGoes
<1>7. FlowsOK'
  BY <1>1, <1>6, GoesKeeps DEF Inv
<1>8. Hears(Reader(f), f.reply) \in [Corrs -> 0..Now]
  BY <1>2, HearsTyped DEF Inv
<1>9. HistoryOK'
  BY <1>1, <1>8 DEF Inv, HistoryOK, Now
<1>10. Fine(reg)' /\ TodoOK'
  BY <1>1, <1>3 DEF Inv, Fine, Indexed, Active, Known, TodoOK
<1> QED
  BY <1>7, <1>9, <1>10 DEF Inv

LEMMA SelectKeeps ==
  ASSUME Inv, NEW w \in Workers, Select(w)
  PROVE  Inv'
<1> PICK r : r = reg
  OBVIOUS
<1>1. Goes(w, r)
  BY SelectGoes DEF Inv, FlowsOK
<1>2. FlowsOK'
  BY <1>1, GoesKeeps DEF Inv, Select
<1>3. HistoryOK' /\ Fine(reg)' /\ TodoOK'
  BY DEF Inv, HistoryOK, Now, Fine, Indexed, Active, Known, TodoOK, Select
<1> QED
  BY <1>2, <1>3 DEF Inv

\* A purge leaves nothing known, nothing told; a cut call has an answer that
\* tells nothing.
LEMMA PurgesKeeps ==
  ASSUME Inv, Purges, UNCHANGED <<was, todo>>
  PROVE  HistoryOK' /\ Fine(reg)' /\ TodoOK'
<1>1. Fine(reg)'
  BY EmptyIsFine DEF Purges, Fine, Indexed, Active, Known
<1>2. told' \in [Corrs -> 0..Now]
  BY DEF Inv, HistoryOK, Now, Purges, NoGen
<1> QED
  BY <1>1, <1>2 DEF Inv, HistoryOK, Now, TodoOK

LEMMA StopOrResetKeeps ==
  ASSUME Inv, StopOrReset
  PROVE  Inv'
<1>1. was' = was /\ HistoryOK' /\ Fine(reg)' /\ TodoOK'
  BY PurgesKeeps DEF StopOrReset
<1> PICK cut : cut = Cut
  OBVIOUS
<1>2. ReplyOK(cut)
  BY DEF Inv, HistoryOK, ReplyOK, Cut, Now
<1>3. ASSUME NEW v \in Workers PROVE FlowOK(flows[v])'
  <2> PICK f : f = flows[v]
    OBVIOUS
  <2> PICK f2 : f2 = flows'[v]
    OBVIOUS
  <2>1. FlowOK(f)
    BY DEF Inv, FlowsOK
  <2>2. FlowOK(f2)
    <3>1. CASE f.phase \in {"calling", "answered"}
      <4>1. f2 = [f EXCEPT !.phase = "answered", !.reply = cut, !.args = << >>, !.sent = << >>]
        BY <3>1 DEF StopOrReset
      <4>2. /\ DOMAIN f2 = FlowFields /\ f2.phase = "answered" /\ f2.reply = cut
            /\ f2.shown = f.shown /\ f2.tool = f.tool /\ f2.step = f.step
            /\ f2.stage = f.stage /\ f2.aim = f.aim
        BY <2>1, <4>1 DEF FlowOK, FlowFields
      <4> QED
        BY <1>2, <2>1, <3>1, <4>2 DEF FlowOK, Phases
    <3>2. CASE f.phase \notin {"calling", "answered"}
      BY <2>1, <3>2 DEF StopOrReset
    <3> QED
      BY <3>1, <3>2
  <2>3. FlowOK(f2)'
    BY <1>1, <2>2 DEF FlowOK, ReplyOK, Now, Present
  <2> QED
    BY <2>3
<1>4. DOMAIN flows' = Workers
  BY DEF StopOrReset
<1> QED
  BY <1>1, <1>3, <1>4 DEF Inv, FlowsOK

LEMMA ReconfigureKeeps ==
  ASSUME Inv, Reconfigure
  PROVE  Inv'
<1>1. HistoryOK' /\ Fine(reg)' /\ TodoOK'
  BY PurgesKeeps DEF Reconfigure
<1>2. FlowsOK'
  BY DEF Inv, FlowsOK, FlowOK, ReplyOK, Now, Present, Reconfigure
<1> QED
  BY <1>1, <1>2 DEF Inv

LEMMA StepIsSound == Inv /\ [Next]_vars => Inv'
<1> SUFFICES ASSUME Inv, [Next]_vars PROVE Inv'
  OBVIOUS
<1>1. CASE \E c \in Corrs : WorldChanges(c)
  BY <1>1, WorldChangesKeeps
<1>2. CASE \E w \in Workers : HostAnswers(w) \/ Start(w) \/ Deliver(w) \/ Select(w)
  BY <1>2, HostAnswersKeeps, StartKeeps, DeliverKeeps, SelectKeeps
<1>3. CASE StopOrReset
  BY <1>3, StopOrResetKeeps
<1>4. CASE Reconfigure
  BY <1>4, ReconfigureKeeps
<1>5. CASE UNCHANGED vars
  <2> USE <1>5 DEF vars
  <2>1. HistoryOK' /\ TodoOK'
    BY DEF Inv, HistoryOK, Now, TodoOK
  <2>2. Fine(reg)'
    BY DEF Inv, Fine, Indexed, Active, Known
  <2>3. FlowsOK'
    BY DEF Inv, FlowsOK, FlowOK, ReplyOK, Now, Present
  <2> QED
    BY <2>1, <2>2, <2>3 DEF Inv
<1> QED
  BY <1>1, <1>2, <1>3, <1>4, <1>5 DEF Next

\* Whatever the answers, in whatever order, through refreshes, invalidations,
\* traded references and purges, the index of core/targets.py stays true: a
\* reference leads to an active entry that has it, and the correlation of
\* every entry leads to it, so that no two names share a target.
THEOREM TheRegistryIsSound == Spec => []RegistrySound
<1>1. Inv => RegistrySound
  BY DEF Inv, Fine, RegistrySound
<1> QED
  BY InitIsSound, StepIsSound, <1>1, PTL DEF Spec

-----------------------------------------------------------------------------
(* The freshest report wins                                                  *)

\* Nothing known and nothing told.
LEMMA EmptyIsFaithful ==
  ASSUME NEW T, \A c \in Corrs : T[c] = NoGen
  PROVE  Faithful(Empty, T)
<1>1. \A n \in Names : ~Known(Empty, n)
  BY DEF Known, Empty
<1>2. \A c \in Corrs : Empty.byCorr[c] = None
  BY DEF Empty
<1> QED
  BY <1>1, <1>2 DEF Faithful, Kept

\* The world moves on: what was read of a target that keeps its references to
\* itself was read of it, even when it has come to a place it never was at.
LEMMA WorldKeepsFaith ==
  ASSUME Inv, Faithful(reg, told), NEW c \in Corrs, WorldChanges(c)
  PROVE  Faithful(reg, told)'
<1>1. PICK x : was' = Append(was, x)
  BY DEF WorldChanges
<1>2. /\ Now' = Now + 1 /\ Now \in Nat /\ reg' = reg /\ told' = told
      /\ was'[Now + 1] = x /\ \A g \in 1..Now : was'[g] = was[g]
  BY <1>1 DEF Inv, HistoryOK, Now, WorldChanges
<1>3. \A g \in 1..Now : g \in 1..Now'
  BY <1>2
<1>4. ASSUME NEW d \in Corrs, NEW ref, PlaceOf(ref, d) PROVE PlaceOf(ref, d)'
  BY <1>2, <1>3, <1>4 DEF PlaceOf
<1>5. ASSUME NEW d \in Corrs, Confusable(d) PROVE Confusable(d)'
  BY <1>2, <1>3, <1>5 DEF Confusable
<1>6. ASSUME NEW d \in Corrs, NEW e \in Corrs, NEW ref, PlaceOf(ref, d)', PlaceOf(ref, e), d # e
      PROVE  Confusable(d)'
  <2>1. PICK h \in 1..Now' : ref = was'[h][d] /\ ref # Gone
    BY <1>6 DEF PlaceOf
  <2>2. PICK k \in 1..Now' : ref = was'[k][e]
    BY <1>2, <1>3, <1>6 DEF PlaceOf
  <2> QED
    BY <1>6, <2>1, <2>2 DEF Confusable
<1>7. ASSUME NEW n \in Names, Known(reg, n) PROVE Told(reg.entries[n])' /\ Departed(reg.entries[n])'
  <2> PICK e : e = reg.entries[n]
    OBVIOUS
  <2>1. Told(e) /\ Departed(e) /\ e \in Entry
    BY <1>7, EntryFields DEF Faithful, Inv, Fine
  <2>2. Told(e)'
    BY <1>2, <1>3, <1>4, <2>1 DEF Told
  <2>3. Departed(e)'
    <3> SUFFICES ASSUME ~e.active, e.corr # None, e.gen # NoGen, ~Confusable(e.corr)'
                 PROVE  \E g \in e.gen..Now' : was'[g][e.corr] = Gone
      BY DEF Departed
    <3>1. e.corr \in Corrs /\ e.gen \in Nat /\ e.gen >= 1
      BY <2>1 DEF Entry, NoGen
    <3>2. PICK g \in e.gen..Now : was[g][e.corr] = Gone
      BY <1>5, <2>1, <3>1 DEF Departed
    <3>3. g \in 1..Now /\ g \in e.gen..Now'
      BY <1>2, <3>1, <3>2
    <3> QED
      BY <1>2, <3>2, <3>3
  <2> QED
    BY <1>2, <2>2, <2>3
<1>8. ASSUME NEW d \in Corrs, ~Confusable(d)' PROVE Kept(reg, told, d)'
  <2> PICK r : r = reg
    OBVIOUS
  <2> PICK T : T = told
    OBVIOUS
  <2>1. Kept(r, T, d)
    BY <1>5, <1>8 DEF Faithful
  <2>2. ASSUME NEW n \in Names, Known(r, n), PlaceOf(r.entries[n].ref, d)'
        PROVE  PlaceOf(r.entries[n].ref, d)
    <3>1. PICK e \in Corrs : PlaceOf(r.entries[n].ref, e)
      BY <2>2 DEF Faithful, Told
    <3> QED
      BY <1>6, <1>8, <2>2, <3>1
  <2>3. Kept(r, T, d)'
    BY <1>4, <2>1, <2>2 DEF Kept, Known
  <2> QED
    BY <1>2, <2>3
<1>9. \A d \in Corrs : reg'.byCorr[d] # None => reg'.entries[reg'.byCorr[d]].corr # None
  BY <1>2 DEF Faithful
<1>10. \A n \in Names : Known(reg, n)' => Told(reg.entries[n])' /\ Departed(reg.entries[n])'
  BY <1>2, <1>7 DEF Known
<1> QED
  BY <1>8, <1>9, <1>10 DEF Faithful

\* What is faithful stays so while the host stands still.
LEMMA FaithStands ==
  ASSUME was' = was, NEW r, NEW T, Faithful(r, T)
  PROVE  Faithful(r, T)'
BY DEF Faithful, Told, Departed, Kept, PlaceOf, Confusable, Known, Now

LEMMA DeliverKeepsFaith ==
  ASSUME DatesAreNamed, Inv, Faithful(reg, told), NEW w \in Workers, Deliver(w)
  PROVE  Faithful(reg, told)' /\ Stays(reg, reg') /\ Grown(reg')
<1> PICK f : f = flows[w]
  OBVIOUS
<1> PICK q : q = Ingress(Reader(f), f.reply).reg
  OBVIOUS
<1> PICK T : T = Hears(Reader(f), f.reply)
  OBVIOUS
<1>1. reg' = q /\ told' = T /\ was' = was
  BY DEF Deliver
<1>2. Faithful(q, T) /\ Stays(reg, q) /\ Grown(q)
  BY DeliverReads, IngressLeaves DEF Inv
<1>3. Faithful(q, T)'
  BY <1>1, <1>2, FaithStands
<1>4. Stays(reg, reg') /\ Grown(reg')
  BY <1>1, <1>2
<1> QED
  BY <1>1, <1>3, <1>4

LEMMA PurgesKeepsFaith ==
  ASSUME Purges
  PROVE  Faithful(reg, told)'
<1>1. reg' = Empty /\ \A c \in Corrs : told'[c] = NoGen
  BY DEF Purges
<1>2. \A n \in Names : ~Known(reg, n)'
  BY <1>1 DEF Known, Empty
<1>3. \A c \in Corrs : reg'.byCorr[c] = None
  BY <1>1 DEF Empty
<1> QED
  BY <1>1, <1>2, <1>3 DEF Faithful, Kept

LEMMA StepKeepsFaith ==
  DatesAreNamed /\ Inv /\ Faithful(reg, told) /\ [Next]_vars => Faithful(reg, told)'
<1> SUFFICES ASSUME DatesAreNamed, Inv, Faithful(reg, told), [Next]_vars PROVE Faithful(reg, told)'
  OBVIOUS
<1> PICK r : r = reg
  OBVIOUS
<1> PICK T : T = told
  OBVIOUS
<1>1. CASE \E c \in Corrs : WorldChanges(c)
  BY <1>1, WorldKeepsFaith
<1>2. CASE UNCHANGED <<reg, told, was>>
  <2>1. Faithful(r, T)'
    BY <1>2, FaithStands
  <2> QED
    BY <1>2, <2>1
<1>3. CASE \E w \in Workers : Deliver(w)
  BY <1>3, DeliverKeepsFaith
<1>4. CASE Purges
  BY <1>4, PurgesKeepsFaith
<1> QED
  BY <1>1, <1>2, <1>3, <1>4 DEF Next, vars, HostAnswers, Start, Select, StopOrReset, Reconfigure

\* Answers of side-by-side steps come back in any order, while the targets of
\* the host move: what the registry holds of a target is what the host said of
\* it at the generation it holds, the newest at which any answer listed it since
\* the purge for a target whose references no other target ever has; of the
\* removals an answer tells it says nothing.  The contracts must
\* name what they date: a generation read without its correlation is compared
\* with that of another target.
THEOREM TheFreshestWins == DatesAreNamed => (Spec => []FreshestReportWins)
<1> SUFFICES ASSUME DatesAreNamed PROVE Spec => []FreshestReportWins
  OBVIOUS
<1>1. Init => Inv /\ Faithful(reg, told)
  <2>1. ASSUME Init PROVE \A c \in Corrs : told[c] = NoGen
    BY <2>1 DEF Init
  <2> QED
    BY <2>1, InitIsSound, EmptyIsFaithful DEF Init
<1>2. Inv /\ Faithful(reg, told) /\ [Next]_vars => (Inv /\ Faithful(reg, told))'
  BY StepIsSound, StepKeepsFaith
<1>3. Inv /\ Faithful(reg, told) => FreshestReportWins
  <2> SUFFICES ASSUME Inv, Faithful(reg, told), NEW n \in Names, Known(reg, n),
                      reg.entries[n].corr # None, reg.entries[n].gen # NoGen
               PROVE  LET e == reg.entries[n] IN
                      /\ e.ref = was[e.gen][e.corr]
                      /\ ~Confusable(e.corr) => e.gen = told[e.corr]
    BY DEF FreshestReportWins
  <2>1. Told(reg.entries[n])
    BY DEF Faithful
  <2>2. reg.entries[n].corr \in Corrs
    BY EntryFields DEF Inv, Fine, Entry
  <2> QED
    BY <2>1, <2>2 DEF Told, Faithful, Kept
<1> QED
  BY <1>1, <1>2, <1>3, PTL DEF Spec

\* A removal delivered after a newer listing removes nothing: a target the
\* registry holds for gone, whose references no other target ever has, was gone
\* at some generation since it was last listed.
THEOREM TheRemovedHadGone == DatesAreNamed => (Spec => []RemovalsAreNews)
<1> SUFFICES ASSUME DatesAreNamed PROVE Spec => []RemovalsAreNews
  OBVIOUS
<1>1. Init => Inv /\ Faithful(reg, told)
  <2>1. ASSUME Init PROVE \A c \in Corrs : told[c] = NoGen
    BY <2>1 DEF Init
  <2> QED
    BY <2>1, InitIsSound, EmptyIsFaithful DEF Init
<1>2. Inv /\ Faithful(reg, told) /\ [Next]_vars => (Inv /\ Faithful(reg, told))'
  BY StepIsSound, StepKeepsFaith
<1>3. Inv /\ Faithful(reg, told) => RemovalsAreNews
  BY DEF Faithful, Departed, RemovalsAreNews
<1> QED
  BY <1>1, <1>2, <1>3, PTL DEF Spec

-----------------------------------------------------------------------------
(* The target acted on is the one that was chosen                            *)

\* An alias stands for its target as long as the registry knows the name.
AliasOK(r, v) ==
  v.meant \in Corrs /\ ~Confusable(v.meant) /\ Known(r, v.name) => r.entries[v.name].corr = v.meant
AliasesOK(r) == DOMAIN variables = Aliases /\ \A a \in Aliases : AliasOK(r, variables[a])

\* What a step binds stands in the registry it leaves.
Binds(r) ==
  /\ DOMAIN variables' = Aliases
  /\ \A a \in Aliases : variables'[a] = variables[a] \/ Stands(r, variables'[a])

LEMMA UnchangedBinds ==
  ASSUME DOMAIN variables = Aliases, UNCHANGED variables, NEW r
  PROVE  Binds(r)
BY DEF Binds

LEMMA SelectedBinds ==
  ASSUME DOMAIN variables = Aliases, NEW w, NEW r, NEW f, NEW t, Stands(r, t), Selected(w, r, f, t)
  PROVE  Binds(r)
<1>1. UNCHANGED variables \/ (\E a : variables' = [variables EXCEPT ![a] = t])
  BY DEF Selected
<1>2. ASSUME NEW a, variables' = [variables EXCEPT ![a] = t] PROVE Binds(r)
  BY <1>2 DEF Binds
<1> QED
  BY <1>1, <1>2, UnchangedBinds

LEMMA GoesOnBinds ==
  ASSUME DOMAIN variables = Aliases, NEW w, NEW r, NEW f, Steady(f), GoesOn(w, r, f)
  PROVE  Binds(r)
<1> PICK n : n = CHOOSE m \in Shown(r, f) : TRUE
  OBVIOUS
<1>1. ASSUME Cardinality(Shown(r, f)) = 1 PROVE Stands(r, Chosen(r, n))
  BY <1>1, TheOnlyOne, ChosenStands DEF Steady
<1>2. CASE AfterDirect(w, r, f)
  <2> PICK t : t = Chosen(r, n)
    OBVIOUS
  <2>1. \/ UNCHANGED variables
        \/ /\ Cardinality(Shown(r, f)) = 1
           /\ \E a : variables' = [variables EXCEPT ![a] = t]
    BY <1>2 DEF AfterDirect
  <2>2. ASSUME NEW a, variables' = [variables EXCEPT ![a] = t], Stands(r, t) PROVE Binds(r)
    BY <2>2 DEF Binds
  <2> QED
    BY <1>1, <2>1, <2>2, UnchangedBinds
<1>3. CASE AfterProbe(w, r, f)
  BY <1>3, UnchangedBinds DEF AfterProbe
<1>4. CASE AfterSource(w, r, f)
  BY <1>4, UnchangedBinds DEF AfterSource, Produces, Ends
<1>5. CASE AfterLast(w, r, f)
  <2>1. \/ UNCHANGED variables
        \/ Cardinality(Shown(r, f)) = 1 /\ Selected(w, r, f, Chosen(r, n))
    BY <1>5 DEF AfterLast, Ends
  <2> QED
    BY <1>1, <2>1, SelectedBinds, UnchangedBinds
<1>6. CASE Ends(w)
  BY <1>6, UnchangedBinds DEF Ends
<1> QED
  BY <1>2, <1>3, <1>4, <1>5, <1>6 DEF GoesOn

LEMMA SelectBinds ==
  ASSUME DOMAIN variables = Aliases, NEW w \in Workers, FlowOK(flows[w]), Select(w)
  PROVE  Binds(reg)
<1> PICK f : f = flows[w]
  OBVIOUS
<1>1. FlowOK(f) /\ Looks(f.step, "choosing", f.aim)
  BY DEF FlowOK, Select, At
<1>2. CASE ChoosesLocal(w)
  <2>1. PICK m \in Shown(reg, f) : \/ UNCHANGED variables
                                   \/ Selected(w, reg, f, Chosen(reg, m))
    BY <1>2 DEF ChoosesLocal, Produces
  <2>2. Stands(reg, Chosen(reg, m))
    BY ChosenStands DEF Shown
  <2> QED
    BY <2>1, <2>2, SelectedBinds, UnchangedBinds
<1>3. CASE ChoosesAnchor(w)
  <2>1. PICK kind \in OfferedKinds(f.step, f.aim) :
               \/ UNCHANGED variables
               \/ Selected(w, reg, f, Value(Raw, kind))
    BY <1>3 DEF ChoosesAnchor, Produces
  <2>2. Selected(w, reg, f, Value(Raw, kind)) => UNCHANGED variables
    BY DEF Selected, IsAnchor, Value
  <2> QED
    BY <2>1, <2>2, UnchangedBinds
<1>4. CASE ChoosesProbe(w) \/ Ends(w)
  BY <1>4, UnchangedBinds DEF ChoosesProbe, Ends
<1> QED
  BY <1>2, <1>3, <1>4 DEF Select

\* An alias still stands after what was bound, when names stay and a new one
\* is none that was held.
LEMMA BindsKeeps ==
  ASSUME was' = was, AliasesOK(reg), NEW q, q = reg', Grown(q), Stays(reg, q), Binds(q)
  PROVE  AliasesOK(reg)'
<1>1. ASSUME NEW a \in Aliases PROVE AliasOK(reg, variables[a])'
  <2> PICK v : v = variables'[a]
    OBVIOUS
  <2>1. CASE Stands(q, v)
    <3>1. AliasOK(q, v)
      BY <2>1 DEF Stands, AliasOK
    <3> QED
      BY <3>1 DEF AliasOK, Confusable, Known, Now
  <2>2. CASE v = variables[a]
    <3> SUFFICES ASSUME v.meant \in Corrs, ~Confusable(v.meant), Known(q, v.name)
                 PROVE  q.entries[v.name].corr = v.meant
      BY DEF AliasOK, Confusable, Known, Now
    <3>1. v.name \in Names /\ v.name \in Held
      BY <2>2 DEF Held, Known
    <3>2. Known(reg, v.name)
      BY <3>1 DEF Grown
    <3>3. reg.entries[v.name].corr = v.meant
      BY <2>2, <3>2 DEF AliasesOK, AliasOK
    <3> QED
      BY <3>1, <3>2, <3>3 DEF Stays
  <2> QED
    BY <2>1, <2>2 DEF Binds
<1> QED
  BY <1>1 DEF AliasesOK, Binds

Meant == Inv /\ Faithful(reg, told) /\ AliasesOK(reg)

LEMMA InitIsMeant == Init => Meant
<1> SUFFICES ASSUME Init PROVE Meant
  OBVIOUS
<1>1. Faithful(reg, told)
  <2>1. \A c \in Corrs : told[c] = NoGen
    BY DEF Init
  <2> QED
    BY <2>1, EmptyIsFaithful DEF Init
<1>2. AliasesOK(reg)
  BY DEF Init, AliasesOK, AliasOK, Known, Empty
<1> QED
  BY <1>1, <1>2, InitIsSound DEF Meant

\* A registry grows from itself.
LEMMA ItselfGrown ==
  ASSUME Inv
  PROVE  Grown(reg) /\ Stays(reg, reg)
BY DEF Inv, Grown, Stays

\* An answer registers its targets before its step goes on: what the step
\* binds or sends stands in what the answer left.
LEMMA DeliverGoes ==
  ASSUME Inv, NEW w \in Workers, Deliver(w), DOMAIN variables = Aliases, NEW q, q = reg'
  PROVE  Goes(w, q) /\ Binds(q)
<1> PICK f : f = flows[w]
  OBVIOUS
<1> PICK G : G = Ingress(Reader(f), f.reply)
  OBVIOUS
<1> PICK f1 : f1 = [f EXCEPT !.shown = G.names]
  OBVIOUS
<1>1. q = G.reg /\ GoesOn(w, q, f1)
  BY DEF Deliver
<1>2. G.names \subseteq Names
  BY DeliverReads, IngressLeaves DEF Inv
<1>3. Steady(f1) /\ Looks(f1.step, f1.stage, f1.aim)
  <2>1. FlowOK(f) /\ f.phase = "answered"
    BY DEF Inv, FlowsOK, Deliver, At
  <2>2. DOMAIN f1 = FlowFields /\ f1.shown = G.names /\ f1.step = f.step /\ f1.stage = f.stage
        /\ f1.aim = f.aim
    BY <2>1 DEF FlowOK, FlowFields
  <2> QED
    BY <1>2, <2>1, <2>2 DEF Steady, FlowOK, Looks
<1> QED
  BY <1>1, <1>3, GoesOnGoes, GoesOnBinds

LEMMA StepKeepsAliases == DatesAreNamed /\ Meant /\ [Next]_vars => AliasesOK(reg)'
<1> SUFFICES ASSUME DatesAreNamed, Meant, [Next]_vars PROVE AliasesOK(reg)'
  OBVIOUS
<1>1. Inv /\ Faithful(reg, told) /\ AliasesOK(reg) /\ DOMAIN variables = Aliases
  BY DEF Meant, AliasesOK
<1>2. CASE \E c \in Corrs : WorldChanges(c)
  <2>1. PICK x : was' = Append(was, x) /\ reg' = reg /\ variables' = variables
    BY <1>2 DEF WorldChanges
  <2>2. Now' = Now + 1 /\ Now \in Nat /\ \A g \in 1..Now : was'[g] = was[g] /\ g \in 1..Now'
    BY <1>1, <2>1 DEF Inv, HistoryOK, Now
  <2>3. \A c \in Corrs : Confusable(c) => Confusable(c)'
    BY <2>2 DEF Confusable
  <2> QED
    BY <1>1, <2>1, <2>3 DEF AliasesOK, AliasOK, Known
<1>3. CASE UNCHANGED <<reg, was, variables>>
  BY <1>1, <1>3 DEF AliasesOK, AliasOK, Known, Confusable, Now
<1>4. CASE \E w \in Workers : Deliver(w)
  <2> PICK w \in Workers : Deliver(w)
    BY <1>4
  <2> PICK q : q = reg'
    OBVIOUS
  <2>1. Stays(reg, q) /\ Grown(q)
    BY <1>1, DeliverKeepsFaith
  <2>2. Binds(q)
    BY <1>1, DeliverGoes
  <2>3. was' = was
    BY DEF Deliver
  <2> QED
    BY <1>1, <2>1, <2>2, <2>3, BindsKeeps
<1>5. CASE \E w \in Workers : Select(w)
  <2> PICK w \in Workers : Select(w)
    BY <1>5
  <2> PICK q : q = reg
    OBVIOUS
  <2>1. Stays(reg, q) /\ Grown(q)
    BY <1>1, ItselfGrown
  <2>2. Binds(q)
    BY <1>1, SelectBinds DEF Inv, FlowsOK
  <2>3. was' = was /\ q = reg'
    BY DEF Select
  <2> QED
    BY <1>1, <2>1, <2>2, <2>3, BindsKeeps
<1>6. CASE Purges /\ UNCHANGED variables
  <2>1. \A n : ~Known(reg, n)'
    BY <1>6 DEF Purges, Known, Empty
  <2> QED
    BY <1>1, <1>6, <2>1 DEF AliasesOK, AliasOK
<1> QED
  BY <1>2, <1>3, <1>4, <1>5, <1>6 DEF Next, vars, HostAnswers, Start, StopOrReset, Reconfigure

LEMMA StepIsMeant == DatesAreNamed /\ Meant /\ [Next]_vars => Meant'
BY StepIsSound, StepKeepsFaith, StepKeepsAliases DEF Meant

\* What a call carries is what its step chose.
OnTarget(T, f) ==
  \A p \in DOMAIN f.args :
    f.args[p].meant \in Corrs /\ Takes(f.tool, p) /\ ~Confusable(f.args[p].meant) =>
      T[f.args[p].meant] # NoGen /\ f.sent[p] = was[T[f.args[p].meant]][f.args[p].meant]

\* A value that is known, and known as the target it was chosen for, goes out
\* at the newest place told.
LEMMA KnownIsSent ==
  ASSUME NamesAreDated, NEW r, r \in Registry, NEW T, Faithful(r, T), NEW v, v.meant \in Corrs,
         ~Confusable(v.meant), Known(r, v.name), r.entries[v.name].corr = v.meant,
         NEW tool, NEW p, Takes(tool, p)
  PROVE  T[v.meant] # NoGen /\ Sent(r, tool, p, v.name) = was[T[v.meant]][v.meant]
<1> PICK e : e = r.entries[v.name]
  OBVIOUS
<1>1. v.name \in Names
  BY DEF Known
<1>2. Told(e) /\ Kept(r, T, v.meant)
  BY <1>1 DEF Faithful
<1>3. e.corr # None /\ e.corr = v.meant
  BY NoneIsNothing
<1>4. e.gen = T[v.meant] /\ e.gen # NoGen /\ e.ref = was[e.gen][e.corr]
  BY <1>1, <1>2, <1>3 DEF Told, Kept
<1>5. Sent(r, tool, p, v.name) = e.ref
  BY DEF Sent
<1> QED
  BY <1>3, <1>4, <1>5

LEMMA AliasIsSent ==
  ASSUME NamesAreDated, Meant, NEW v, v.meant \in Corrs, ~Confusable(v.meant),
         Known(reg, v.name), reg.entries[v.name].corr = v.meant,
         NEW tool, NEW p, Takes(tool, p)
  PROVE  told[v.meant] # NoGen /\ Sent(reg, tool, p, v.name) = was[told[v.meant]][v.meant]
<1> PICK r : r = reg
  OBVIOUS
<1> PICK T : T = told
  OBVIOUS
<1>1. r \in Registry /\ Faithful(r, T)
  BY DEF Meant, Inv, Fine
<1> QED
  BY <1>1, KnownIsSent

LEMMA LeavingIsOnTarget ==
  ASSUME NamesAreDated, NEW r, r \in Registry, NEW T, Faithful(r, T),
         NEW f, f.phase = "calling", Leaving(r, f)
  PROVE  OnTarget(T, f)
<1> SUFFICES ASSUME NEW p \in DOMAIN f.args, f.args[p].meant \in Corrs, Takes(f.tool, p),
                    ~Confusable(f.args[p].meant)
             PROVE  /\ T[f.args[p].meant] # NoGen
                    /\ f.sent[p] = was[T[f.args[p].meant]][f.args[p].meant]
  BY DEF OnTarget
<1> PICK v : v = f.args[p]
  OBVIOUS
<1>1. Stands(r, v) /\ f.sent[p] = Sent(r, f.tool, p, v.name)
  BY DEF Leaving
<1>2. Known(r, v.name) /\ r.entries[v.name].corr = v.meant
  BY <1>1 DEF Stands
<1> QED
  BY <1>1, <1>2, KnownIsSent

LEMMA SentIs ==
  ASSUME NEW w \in Workers, DOMAIN flows = Workers, NEW r, NEW tool, NEW args,
         Sends(w, r, tool, args), flows'[w].phase = "calling"
  PROVE  /\ flows'[w].tool = tool /\ flows'[w].args = args /\ Passes(r, tool, NamesIn(args))
         /\ flows'[w].sent = [p \in DOMAIN args |-> Sent(r, tool, p, args[p].name)]
BY DEF Sends

\* A plain call takes its targets from the aliases: one the membrane lets
\* through is known, for its parameter takes nothing else.
LEMMA StartIsOnTarget ==
  ASSUME NamesAreDated, AliasesAreStrict, Meant, NEW w \in Workers, Start(w), Leaves(w)
  PROVE  OnTarget(told, flows'[w])
<1> PICK s \in Head(todo[w]) : StartCall(w, s) \/ StartPerception(w, s)
  BY DEF Start
<1> PICK f2 : f2 = flows'[w]
  OBVIOUS
<1>1. todo[w] \in Seq(ToSet(Plan[w])) /\ todo[w] # << >> /\ flows[w].phase = "idle"
  BY DEF Meant, Inv, TodoOK, Start, At
<1>2. Head(todo[w]) \in ToSet(Plan[w])
  BY <1>1, HeadTailProperties
<1>3. Executable(s)
  BY <1>2, PlanAssumption
<1> PICK f : f = [Idle EXCEPT !.step = s]
  OBVIOUS
<1>4. DOMAIN f = FlowFields /\ f.shown \subseteq Names /\ f.step = s /\ f.aim = None
  BY DEF Idle, FlowFields
<1>5. Now \in Nat /\ reg \in Registry /\ Faithful(reg, told) /\ DOMAIN flows = Workers
  BY DEF Meant, Inv, HistoryOK, Now, Fine, FlowsOK
<1>6. f2.phase = "calling"
  BY DEF Leaves
<1>7. ASSUME NEW stage, NEW tool \in Tools, NEW args, Looks(s, stage, None), stage # "probe",
             Calls(w, reg, f, stage, tool, args)
      PROVE  /\ f2.tool = tool /\ f2.args = args /\ Passes(reg, tool, NamesIn(args))
             /\ f2.sent = [p \in DOMAIN args |-> Sent(reg, tool, p, args[p].name)]
  <2>1. Sends(w, reg, tool, args)
    BY <1>4, <1>7, CallsMove
  <2> QED
    BY <1>5, <1>6, <2>1 DEF Sends
<1>8. CASE StartCall(w, s)
  <2> PICK args : args = [p \in DOMAIN s.args |-> IF s.args[p] \in Aliases THEN variables[s.args[p]]
                                                  ELSE Value(Raw, None)]
    OBVIOUS
  <2>1. Looks(s, "direct", None) /\ s.action \in Tools /\ s.kind = "call"
    BY <1>3, <1>8 DEF Looks, Executable, StartCall
  <2>2. Calls(w, reg, f, "direct", s.action, args)
    BY <1>8 DEF StartCall
  <2>3. /\ f2.tool = s.action /\ f2.args = args /\ Passes(reg, s.action, NamesIn(args))
        /\ f2.sent = [p \in DOMAIN args |-> Sent(reg, s.action, p, args[p].name)]
    <3> PICK tool \in Tools : tool = s.action
      BY <2>1
    <3>1. Calls(w, reg, f, "direct", tool, args) /\ "direct" # "probe"
      BY <2>2
    <3>2. Sends(w, reg, tool, args)
      BY <1>4, <2>1, <3>1, CallsMove
    <3>3. /\ f2.tool = tool /\ f2.args = args /\ Passes(reg, tool, NamesIn(args))
          /\ f2.sent = [p \in DOMAIN args |-> Sent(reg, tool, p, args[p].name)]
      BY <1>5, <1>6, <3>2, SentIs
    <3> QED
      BY <3>3
  <2> SUFFICES ASSUME NEW p \in DOMAIN args, args[p].meant \in Corrs, Takes(s.action, p),
                      ~Confusable(args[p].meant)
               PROVE  /\ told[args[p].meant] # NoGen
                      /\ f2.sent[p] = was[told[args[p].meant]][args[p].meant]
    BY <2>3 DEF OnTarget
  <2> PICK v : v = args[p]
    OBVIOUS
  <2>4. s.args[p] \in Aliases /\ v = variables[s.args[p]]
    BY NoneIsNothing DEF Value
  <2>5. PICK c \in Consumers(s.action) : c.param = p
    BY DEF Takes
  <2>6. c.raw = "deny"
    BY <1>2, <2>1, <2>4, <2>5 DEF AliasesAreStrict
  <2>7. Resolves(reg, v.name, c.scope)
    <3>1. p \in DOMAIN NamesIn(args) /\ NamesIn(args)[p] = v.name
      BY DEF NamesIn
    <3> QED
      BY <2>3, <2>5, <2>6, <3>1 DEF Passes, Literal
  <2>8. Known(reg, v.name)
    BY <2>7 DEF Resolves, Active
  <2>9. reg.entries[v.name].corr = v.meant
    BY <2>4, <2>8 DEF Meant, AliasesOK, AliasOK
  <2>10. told[v.meant] # NoGen /\ Sent(reg, s.action, p, v.name) = was[told[v.meant]][v.meant]
    <3>1. v.meant \in Corrs
      OBVIOUS
    <3>2. ~Confusable(v.meant)
      OBVIOUS
    <3>3. Takes(s.action, p)
      OBVIOUS
    <3>4. ASSUME NEW tool, Takes(tool, p)
          PROVE  told[v.meant] # NoGen /\ Sent(reg, tool, p, v.name) = was[told[v.meant]][v.meant]
      BY <2>8, <2>9, <3>1, <3>2, <3>4, AliasIsSent
    <3> QED
      BY <3>3, <3>4
  <2> QED
    BY <2>3, <2>10
<1>9. CASE StartPerception(w, s)
  <2>1. CASE s.source # None
    <3>1. Looks(s, "source", None) /\ s.source \in Tools
      BY <1>3, <1>9, <2>1 DEF Looks, Executable
    <3>2. f2.args = << >>
      BY <1>7, <1>9, <2>1, <3>1 DEF StartPerception
    <3> QED
      BY <3>2 DEF OnTarget
  <2>2. CASE s.source = None
    <3>1. Looks(s, "producer", None) /\ s.producer \in Tools
      BY <1>3, <1>9, <2>2 DEF Looks, Executable, StartPerception
    <3>2. f2.args = << >>
      BY <1>7, <1>9, <2>2, <3>1 DEF StartPerception
    <3> QED
      BY <3>2 DEF OnTarget
  <2> QED
    BY <2>1, <2>2
<1> QED
  BY <1>8, <1>9

\* Steps run side by side, targets move and disappear, answers come in any
\* order, aliases outlive purges: yet a call that leaves carries, for each
\* target its step chose, the place the freshest answer gave for it.
THEOREM TheChosenIsMeant ==
  DatesAreNamed /\ NamesAreDated /\ AliasesAreStrict => (Spec => ActsOnTheChosen)
<1> SUFFICES ASSUME DatesAreNamed, NamesAreDated, AliasesAreStrict PROVE Spec => ActsOnTheChosen
  OBVIOUS
<1> DEFINE Acts == \A w \in Workers : Leaves(w) => OnTarget(told', flows'[w])
<1>1. Meant /\ [Next]_vars => Acts
  <2> SUFFICES ASSUME Meant, [Next]_vars, NEW w \in Workers, Leaves(w)
               PROVE  OnTarget(told', flows'[w])
    OBVIOUS
  <2> PICK f2 : f2 = flows'[w]
    OBVIOUS
  <2> PICK T : T = told'
    OBVIOUS
  <2>1. f2.phase = "calling" /\ flows[w].phase # "calling" /\ f2 # flows[w]
    BY DEF Leaves
  <2>2. Inv /\ Faithful(reg, told) /\ DOMAIN flows = Workers /\ DOMAIN variables = Aliases
    BY DEF Meant, Inv, FlowsOK, AliasesOK
  <2>3. ASSUME NEW r, r \in Registry, Faithful(r, T), NEW v \in Workers, Goes(v, r)
        PROVE  OnTarget(T, f2)
    <3>1. PICK g : FlowOK(g) /\ Leaving(r, g) /\ flows' = [flows EXCEPT ![v] = g]
      BY <2>3 DEF Goes
    <3>2. f2 = g
      BY <2>1, <2>2, <3>1
    <3> QED
      BY <2>1, <2>3, <3>1, <3>2, LeavingIsOnTarget
  <2>4. CASE \E v \in Workers : HostAnswers(v)
    <3> PICK v \in Workers : HostAnswers(v)
      BY <2>4
    <3>1. PICK g : flows' = [flows EXCEPT ![v] = g] /\ g.phase = "answered"
      <4>1. PICK reply : flows' = [flows EXCEPT ![v] = [flows[v] EXCEPT !.phase = "answered",
                !.args = << >>, !.sent = << >>, !.reply = reply]]
        BY DEF HostAnswers, Goto
      <4>2. FlowOK(flows[v])
        BY <2>2 DEF Inv, FlowsOK
      <4> PICK h : h = flows[v]
        OBVIOUS
      <4> PICK g : g = [h EXCEPT !.phase = "answered", !.args = << >>, !.sent = << >>, !.reply = reply]
        OBVIOUS
      <4>3. g.phase = "answered"
        BY <4>2 DEF FlowOK, FlowFields
      <4> QED
        BY <4>1, <4>3
    <3> QED
      BY <2>1, <2>2, <3>1
  <2>5. CASE \E v \in Workers : Start(v)
    <3> PICK v \in Workers : Start(v)
      BY <2>5
    <3>1. v = w
      <4>1. PICK g : flows' = [flows EXCEPT ![v] = g]
        BY DEF Start, StartCall, StartPerception, Calls, Dispatches, Goto
      <4> QED
        BY <2>1, <2>2, <4>1
    <3>2. T = told
      BY DEF Start
    <3> QED
      BY <3>1, <3>2, StartIsOnTarget
  <2>6. CASE \E v \in Workers : Deliver(v)
    <3> PICK v \in Workers : Deliver(v)
      BY <2>6
    <3> PICK r : r = reg'
      OBVIOUS
    <3>1. Goes(v, r)
      BY <2>2, DeliverGoes
    <3>2. r \in Registry /\ Faithful(r, T)
      <4>1. r = Ingress(Reader(flows[v]), flows[v].reply).reg
            /\ T = Hears(Reader(flows[v]), flows[v].reply)
        BY DEF Deliver
      <4> QED
        BY <2>2, <4>1, DeliverReads, IngressLeaves DEF Inv, Grown, Fine
    <3> QED
      BY <2>3, <3>1, <3>2
  <2>7. CASE \E v \in Workers : Select(v)
    <3> PICK v \in Workers : Select(v)
      BY <2>7
    <3> PICK r : r = reg
      OBVIOUS
    <3>1. Goes(v, r)
      BY <2>2, SelectGoes DEF Inv, FlowsOK
    <3>2. r \in Registry /\ Faithful(r, T)
      BY <2>2 DEF Inv, Fine, Select
    <3> QED
      BY <2>3, <3>1, <3>2
  <2>8. CASE StopOrReset
    <3>1. f2 = flows[w] \/ f2 = [flows[w] EXCEPT !.phase = "answered", !.reply = Cut,
                                   !.args = << >>, !.sent = << >>]
      BY <2>8 DEF StopOrReset
    <3>2. FlowOK(flows[w])
      BY <2>2 DEF Inv, FlowsOK
    <3> QED
      BY <2>1, <3>1, <3>2 DEF FlowOK, FlowFields
  <2>9. CASE flows' = flows
    BY <2>1, <2>9
  <2> QED
    BY <2>4, <2>5, <2>6, <2>7, <2>8, <2>9 DEF Next, vars, WorldChanges, Reconfigure
<1>2. Acts => \A w \in Workers : Leaves(w) =>
         LET f == flows'[w] IN
         \A p \in DOMAIN f.args :
           f.args[p].meant \in Corrs /\ Takes(f.tool, p) /\ ~Confusable(f.args[p].meant) =>
             LET c == f.args[p].meant IN
             told'[c] # NoGen /\ f.sent[p] = was[told'[c]][c]
  BY DEF OnTarget
<1> HIDE DEF Acts
<1>3. Meant /\ [Next]_vars => Meant'
  BY StepIsMeant
<1> QED
  BY InitIsMeant, <1>1, <1>2, <1>3, PTL DEF Spec, ActsOnTheChosen
=============================================================================
