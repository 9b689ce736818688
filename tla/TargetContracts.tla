--------------------------- MODULE TargetContracts ---------------------------
(***************************************************************************)
(* What the tools of a host may do with targets (core/target_contract.py): *)
(* the contract a tool declares in the manifest, what the parser of the    *)
(* brain admits of it, and which parameter of a tool takes a given target. *)
(* A contract is admitted whole or not at all: one malformed part leaves   *)
(* the tool registered without a contract, and its calls untouched.        *)
(*                                                                         *)
(* A declaration lists                                                     *)
(*   consumes   : [param, scope, raw, enum, inSchema], the parameters that *)
(*                take a target;                                           *)
(*   produces   : [path, mode, scope, fields, usable], the places of a     *)
(*                result where targets are reported;                       *)
(*   disclosure : None, or the views a selector reads, the raw anchors it  *)
(*                takes and the probes by which it may look closer.        *)
(***************************************************************************)
EXTENDS Naturals, Sequences, FiniteSets, SequencesExt

CONSTANTS
  Tools,       \* the tools of the host
  Declared,    \* [Tools -> the declaration of each, None when it has none]
  None         \* no value

Malformed == "malformed"      \* any value of the wrong type or shape
Modes     == {"single", "candidates"}
Reserved  == {"source_data", "source", "sources"}

-----------------------------------------------------------------------------
(* What the parser refuses *)

Repeats(s, Key(_)) == \E i, j \in DOMAIN s : i # j /\ Key(s[i]) = Key(s[j])

BadConsumer(c) ==
  \/ c.param \in Reserved \cup {Malformed}
  \/ c.scope = Malformed
  \/ c.raw \notin {"allow", "deny"}
  \/ ~c.inSchema
  \/ c.enum

BadConsumers(cs) ==
  \/ \E i \in DOMAIN cs : BadConsumer(cs[i])
  \/ Repeats(cs, LAMBDA c : c.param)

\* The scope of a target is declared once: for all, or read from each item.
BadProducer(p) ==
  \/ p.path = Malformed
  \/ p.mode \notin Modes
  \/ p.scope = Malformed
  \/ "ref" \notin p.fields
  \/ (p.scope # None) = ("scope" \in p.fields)
  \/ Malformed \in p.fields \cup p.usable

BadViews(vs) ==
  \/ \E i \in DOMAIN vs : Malformed \in {vs[i].name, vs[i].path}
  \/ Repeats(vs, LAMBDA v : v.name)

BadAnchors(as) ==
  \/ \E i \in DOMAIN as : Malformed \in {as[i].kind, as[i].param}
  \/ Repeats(as, LAMBDA a : a.kind)

BadProbes(ps) ==
  \/ \E i \in DOMAIN ps : Malformed \in {ps[i].id, ps[i].tool, ps[i].subject, ps[i].param}
  \/ Repeats(ps, LAMBDA p : p.id)

BadDisclosure(d) ==
  d # None /\ (BadViews(d.views) \/ BadAnchors(d.anchors) \/ BadProbes(d.probes))

Admitted(d) ==
  /\ d.version = 1
  /\ ~BadConsumers(d.consumes)
  /\ \A i \in DOMAIN d.produces : ~BadProducer(d.produces[i])
  /\ ~BadDisclosure(d.disclosure)

\* The contract of a tool: None when it declares none, or a malformed one.
Contract == [t \in Tools |->
  IF Declared[t] # None /\ Admitted(Declared[t]) THEN Declared[t] ELSE None]

-----------------------------------------------------------------------------
(* What is read from a contract *)

Consumers(t)  == IF Contract[t] = None THEN {} ELSE ToSet(Contract[t].consumes)
Producers(t)  == IF Contract[t] = None THEN << >> ELSE Contract[t].produces
Disclosure(t) == IF Contract[t] = None THEN None ELSE Contract[t].disclosure
Anchors(t)    == IF Disclosure(t) = None THEN {} ELSE ToSet(Disclosure(t).anchors)
Probes(t)     == IF Disclosure(t) = None THEN {} ELSE ToSet(Disclosure(t).probes)
Takes(t, param) == \E c \in Consumers(t) : c.param = param

\* What an unscoped raw consumer is an anchor of: its own parameter.
RawKind(c) == IF c.scope = None THEN c.param ELSE c.scope

\* The kinds of raw anchor the tools of a selection take.
AnchorKinds(ts) ==
  UNION { {a.kind : a \in Anchors(t)} \cup {RawKind(c) : c \in {x \in Consumers(t) : x.raw = "allow"}}
          : t \in ts }

\* The parameter of a tool for a target of a scope: refused, with None, when
\* none or several could take it.
ParamForScope(t, scope) ==
  LET fit == {c \in Consumers(t) : c.scope \in {None, scope}} IN
  IF Cardinality(fit) = 1 THEN (CHOOSE c \in fit : TRUE).param ELSE None

\* The parameter of a tool for a raw anchor: the one its disclosure names,
\* else the only raw one of that scope, else the raw one of that name.
ParamForAnchor(t, kind) ==
  LET raw     == {c \in Consumers(t) : c.raw = "allow"}
      named   == {c \in raw : \E a \in Anchors(t) : a.kind = kind /\ a.param = c.param}
      byScope == {c \in raw : c.scope = kind}
      byParam == {c \in raw : c.param = kind}
  IN  IF named # {} THEN (CHOOSE c \in named : TRUE).param
      ELSE IF Cardinality(byScope) = 1 THEN (CHOOSE c \in byScope : TRUE).param
      ELSE IF Cardinality(byParam) = 1 THEN kind ELSE None

\* The parameter an action puts its target in when its template names none.
DefaultParam(t) ==
  IF Takes(t, "target") THEN "target"
  ELSE IF Cardinality(Consumers(t)) = 1 THEN (CHOOSE c \in Consumers(t) : TRUE).param
  ELSE None
==============================================================================
