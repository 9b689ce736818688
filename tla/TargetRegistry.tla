---------------------------- MODULE TargetRegistry ----------------------------
(***************************************************************************)
(* The registry of targets (core/targets.py): the entries, one per local   *)
(* name, and the index that finds a name by the correlation id or by the   *)
(* reference of a target.  Its operations are synchronous functions of the *)
(* code and operators here, from a registry to the next; Targets is the    *)
(* system that calls them.  A name once taken is never another target's:   *)
(* names are random, so a new one differs from all the names in use.       *)
(***************************************************************************)
EXTENDS TargetContracts

CONSTANTS
  Names,      \* local names
  Corrs,      \* the correlation ids hosts give
  Refs,       \* the opaque references hosts give
  Scopes      \* the scopes of targets

NoGen == 0    \* a report without a generation; hosts count from 1

Entry == [scope : Scopes, usable : SUBSET Scopes, ref : Refs,
          corr : Corrs \cup {None}, gen : Nat, active : BOOLEAN]

ASSUME NoneIsNothing ==
  None \notin Names \cup Corrs \cup Refs \cup Scopes \cup Tools \cup Entry

Registry == [entries : [Names -> Entry \cup {None}],
             byCorr  : [Corrs -> Names \cup {None}],
             byRef   : [Refs -> Names \cup {None}]]

Empty == [entries |-> [n \in Names |-> None],
          byCorr  |-> [c \in Corrs |-> None],
          byRef   |-> [r \in Refs |-> None]]

Known(reg, n)  == n \in Names /\ reg.entries[n] # None
Active(reg, n) == Known(reg, n) /\ reg.entries[n].active

\* The index is true of the entries: a reference leads to an active entry that
\* has it, and the correlation of every entry, dead or alive, leads to it, so
\* that no two names share one.
Indexed(reg) ==
  /\ \A r \in Refs : reg.byRef[r] # None =>
       Active(reg, reg.byRef[r]) /\ reg.entries[reg.byRef[r]].ref = r
  /\ \A n \in Names : Known(reg, n) /\ reg.entries[n].corr # None =>
       reg.byCorr[reg.entries[n].corr] = n
  /\ \A c \in Corrs : reg.byCorr[c] # None => Known(reg, reg.byCorr[c])

\* A slip: the last answer to arrive wins.
ArrivalAllows(incoming, existing) == TRUE

\* The host counts generations per target: an older report is ignored, and
\* one without a generation never overwrites one that has one.
GenerationAllows(incoming, existing) ==
  existing = NoGen \/ (incoming # NoGen /\ incoming >= existing)

\* The correlation leads before the reference.
LedByCorr(reg, corr) == IF corr = None THEN None ELSE reg.byCorr[corr]
Led(reg, corr, ref) ==
  IF LedByCorr(reg, corr) # None THEN LedByCorr(reg, corr)
  ELSE IF ref = None THEN None ELSE reg.byRef[ref]

SetCorr(index, corr, n) == IF corr = None THEN index ELSE [index EXCEPT ![corr] = n]

\* A slip: a target keeps the reference it was first given.
RefreshedInPlace(reg, n, item) ==
  LET old  == reg.entries[n]
      corr == IF item.corr # None THEN item.corr ELSE old.corr
      gen  == IF item.gen # NoGen THEN item.gen ELSE old.gen
  IN [entries |-> [reg.entries EXCEPT ![n] =
        [scope |-> item.scope, usable |-> item.usable, ref |-> old.ref,
         corr |-> corr, gen |-> gen, active |-> TRUE]],
      byCorr  |-> SetCorr(reg.byCorr, corr, n),
      byRef   |-> [reg.byRef EXCEPT ![old.ref] = n]]

\* A report of a target the registry knows: the entry takes what it says and
\* the index follows, whoever else held the old reference.
Refreshed(reg, n, item) ==
  LET old  == reg.entries[n]
      corr == IF item.corr # None THEN item.corr ELSE old.corr
      gen  == IF item.gen # NoGen THEN item.gen ELSE old.gen
  IN [entries |-> [reg.entries EXCEPT ![n] =
        [scope |-> item.scope, usable |-> item.usable, ref |-> item.ref,
         corr |-> corr, gen |-> gen, active |-> TRUE]],
      byCorr  |-> SetCorr(reg.byCorr, corr, n),
      byRef   |-> [reg.byRef EXCEPT ![old.ref] = None, ![item.ref] = n]]

Minted(reg, n, item) ==
  [entries |-> [reg.entries EXCEPT ![n] =
     [scope |-> item.scope, usable |-> item.usable, ref |-> item.ref,
      corr |-> item.corr, gen |-> item.gen, active |-> TRUE]],
   byCorr  |-> SetCorr(reg.byCorr, item.corr, n),
   byRef   |-> [reg.byRef EXCEPT ![item.ref] = n]]

\* The name a report ends up with.
MintsName(reg, item) ==
  LET n == Led(reg, item.corr, item.ref)
  IN  \/ n = None
      \/ /\ GenerationAllows(item.gen, reg.entries[n].gen)
         /\ ~Active(reg, n)
         /\ LedByCorr(reg, item.corr) = None
Upserted(reg, item, fresh) ==
  IF MintsName(reg, item) THEN fresh ELSE Led(reg, item.corr, item.ref)

\* What a report does: the entry it leads to keeps a newer state, comes back
\* to life only through its correlation, and is refreshed otherwise; what
\* leads nowhere gets the fresh name.
Upsert(reg, item, fresh) ==
  LET n == Led(reg, item.corr, item.ref)
  IN  IF MintsName(reg, item) THEN Minted(reg, fresh, item)
      ELSE IF GenerationAllows(item.gen, reg.entries[n].gen) THEN Refreshed(reg, n, item)
      ELSE reg

\* Whether an update marks a target gone, and what it leaves.
Invalidates(reg, update) ==
  LET n == Led(reg, update.corr, update.ref)
  IN  n # None /\ Active(reg, n) /\ GenerationAllows(update.gen, reg.entries[n].gen)

\* A slip: the index keeps the reference of a target that is gone.
InvalidateByFlag(reg, update) ==
  IF Invalidates(reg, update)
  THEN [reg EXCEPT !.entries[Led(reg, update.corr, update.ref)].active = FALSE] ELSE reg

\* A slip: a removal is taken at its word, however old.
InvalidateByArrival(reg, update) ==
  LET n == Led(reg, update.corr, update.ref)
  IN  IF n # None /\ Active(reg, n)
      THEN [reg EXCEPT !.entries[n].active = FALSE, !.byRef[reg.entries[n].ref] = None]
      ELSE reg

Invalidate(reg, update) ==
  LET n == Led(reg, update.corr, update.ref)
  IN  IF Invalidates(reg, update)
      THEN [reg EXCEPT !.entries[n].active = FALSE, !.byRef[reg.entries[n].ref] = None]
      ELSE reg

\* A name stands for its reference while it is active and of a fitting scope.
AcceptsScope(entry, scope) == scope = None \/ scope \in entry.usable \cup {entry.scope}
Resolves(reg, n, scope) == Active(reg, n) /\ AcceptsScope(reg.entries[n], scope)

-----------------------------------------------------------------------------
(* The membrane of calls: arguments to references *)

\* A raw consumer lets through what is no name; every other value must
\* resolve, and one that does not stops the whole call.
Literal(reg, c, value)  == c.raw = "allow" /\ ~Known(reg, value)
Passes(reg, tool, args) ==
  \A c \in Consumers(tool) : c.param \in DOMAIN args =>
     Literal(reg, c, args[c.param]) \/ Resolves(reg, args[c.param], c.scope)

\* What the host receives for a parameter.
Sent(reg, tool, param, value) ==
  IF Takes(tool, param) /\ Known(reg, value) THEN reg.entries[value].ref ELSE value
==============================================================================
