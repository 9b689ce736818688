------------------------------ MODULE KeyPool ------------------------------
(***************************************************************************)
(* The pool of API keys of a provider and its cooldowns                      *)
(* (providers/base_provider.py), as operators on a record:                   *)
(*   order     the keys, the next one to use first                           *)
(*   rest      how long each key still rests                                 *)
(*   streak    rate limits since the last success, capped where the code's   *)
(*             cooldown stops growing                                        *)
(*   poolRest  how long the whole pool still rests                           *)
(* Time is what remains of each rest, in units the constants choose.         *)
(***************************************************************************)
EXTENDS Integers, Sequences, FiniteSets

CONSTANTS
  Keys,         \* the active keys of a provider
  Rests,        \* Rests[n]: the cooldown of the n-th rate limit in a row
  NetworkRest,  \* the cooldown of a key whose connection failed
  AuthRest      \* the cooldown of a key that was refused

ASSUME RestsAssumption ==
  /\ IsFiniteSet(Keys)
  /\ Rests \in Seq(Nat \ {0}) /\ Rests # << >>
  /\ {NetworkRest, AuthRest} \subseteq Nat \ {0}

NoKey == "no key"

Lengths == {Rests[n] : n \in DOMAIN Rests} \cup {NetworkRest, AuthRest}
Left    == UNION {0..r : r \in Lengths}

\* Each key has one place in the order.
IsOrder(o) ==
  /\ {o[i] : i \in DOMAIN o} = Keys
  /\ \A i, j \in DOMAIN o : o[i] = o[j] => i = j

IsPool(p) ==
  /\ p \in [order : Seq(Keys), rest : [Keys -> Left], streak : 0..Len(Rests), poolRest : Left]
  /\ IsOrder(p.order)

FreshPool(order) ==
  [order |-> order, rest |-> [k \in Keys |-> 0], streak |-> 0, poolRest |-> 0]

-----------------------------------------------------------------------------
HasAvailableKeys(p) == p.poolRest = 0 /\ \E k \in Keys : p.rest[k] = 0

\* The first key that does not rest; else the one that will be back first.
ActiveKey(p) ==
  IF p.poolRest > 0 \/ Keys = {} THEN NoKey
  ELSE LET Rest(i) == p.rest[p.order[i]]
           first == CHOOSE i \in DOMAIN p.order :
                      /\ \A j \in DOMAIN p.order : Rest(i) <= Rest(j)
                      /\ \A j \in 1..(i - 1) : Rest(i) < Rest(j)
       IN p.order[first]

\* The keys that are left when one is popped from its place.
Without(p, k) ==
  LET place == CHOOSE i \in DOMAIN p.order : p.order[i] = k
  IN [i \in 1..(Len(p.order) - 1) |-> p.order[IF i < place THEN i ELSE i + 1]]

\* A slip: the key is put last without being taken out.
RestedTwice(p, k, time) == [p EXCEPT !.order = Append(p.order, k), !.rest[k] = time]

\* The key rests, and is the last one to be tried.
Rested(p, k, time) ==
  [p EXCEPT !.order = Append(Without(p, k), k), !.rest[k] = time]

\* A rate limit: the rest of the key grows with the streak; when no key is
\* left, the pool rests as long as the key.
NoteRateLimit(p, k) ==
  LET n    == IF p.streak < Len(Rests) THEN p.streak + 1 ELSE p.streak
      next == [Rested(p, k, Rests[n]) EXCEPT !.streak = n]
  IN IF HasAvailableKeys(next) THEN next ELSE [next EXCEPT !.poolRest = Rests[n]]

\* A success ends the streak and the rest of the pool; the rests of the keys stay.
Promoted(p, k) ==
  [p EXCEPT !.order = <<k>> \o Without(p, k), !.streak = 0, !.poolRest = 0]

\* A unit of time passes.
Less(n) == IF n = 0 THEN 0 ELSE n - 1
Elapsed(p) ==
  [p EXCEPT !.rest = [k \in Keys |-> Less(p.rest[k])], !.poolRest = Less(p.poolRest)]
=============================================================================
