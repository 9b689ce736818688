------------------------------- MODULE Targets -------------------------------
(***************************************************************************)
(* Targets in use.  Steps of a plan run side by side: one calls a tool     *)
(* that reports a target and binds it to an alias (core/executor.py), one  *)
(* passes an alias to a tool, one perceives (perceive_understand and       *)
(* perceive_action of tools/internal_tools.py, with the selection loop of  *)
(* core/targeting.py).  Their calls go to the host, whose targets move and *)
(* disappear meanwhile, and whose answers come back in any order; each     *)
(* answer goes through the membrane of core/target_ingress.py, and each    *)
(* call through the one of core/orchestrator.py.  A stop or a reset cuts   *)
(* the calls in flight and purges the registry; a new configuration or     *)
(* manifest purges it under the feet of the running steps.                 *)
(*                                                                         *)
(* The host is external: its state is the place of each of its targets,    *)
(* remembered for every generation so that answers can be compared with    *)
(* it.  The correlation id of a target is the target itself.               *)
(***************************************************************************)
EXTENDS TargetRegistry

CONSTANTS
  Workers,      \* steps that run side by side
  Plan,         \* [Workers -> a sequence of sets of steps: each runs one of each set,
                \* a step being [kind, source, producer, action, alias, args]]
  Aliases,      \* the aliases of the plan (output_target_name)
  Utilities,    \* the tools of kind "utility"
  Home,         \* [Corrs -> the references a target may have]
  KindOf,       \* [Corrs -> the scope the host gives each target]
  Plain,        \* targets the host reports by their reference alone
  Changes,      \* bound: changes of the host's world
  MaxPurges,    \* bound: stops, resets and reconfigurations
  ProbeBudget   \* MAX_TARGETING_ROUNDS

Gone  == "gone"
Token == "$@_"         \* an alias nothing is bound to, as a call carries it
Raw   == "raw"         \* a literal of the host, or the value of a raw anchor
TheTarget == "$TARGET" \* where the template of an action wants its target

\* A value on its way to a tool: a local name (or Raw, or Token), and the
\* target it was chosen for (for a raw anchor, its kind).
Value(name, meant) == [name |-> name, meant |-> meant]
Unbound == Value(Token, None)

\* A step of a plan names tools of the host: what it looks with, what it acts with.
Executable(s) ==
  /\ s.kind \in {"call", "understand", "act"}
  /\ {s.source, s.producer} \subseteq Tools \cup {None}
  /\ s.kind # "call" => {s.source, s.producer} # {None}
  /\ s.kind # "understand" => s.action \in Tools

ASSUME PlanAssumption ==
  DOMAIN Plan = Workers /\ \A w \in Workers :
    /\ Plan[w] \in Seq(ToSet(Plan[w]))
    /\ \A step \in ToSet(Plan[w]) : \A s \in step : Executable(s)

\* So does an admitted contract; it speaks of the scopes there are, and the
\* kinds of raw anchors are no targets.
ASSUME ContractAssumption ==
  /\ AnchorKinds(Tools) \cap Corrs = {}
  /\ \A t \in Tools :
    /\ Producers(t) \in Seq(ToSet(Producers(t)))
    /\ \A p \in ToSet(Producers(t)) : p.scope \in Scopes \cup {None} /\ p.usable \subseteq Scopes
    /\ \A probe \in Probes(t) : probe.tool \in Tools \cup {None} /\ probe.subject \notin Corrs

ASSUME TargetBounds ==
  /\ IsFiniteSet(Corrs) /\ IsFiniteSet(Names)
  /\ Changes \in Nat /\ MaxPurges \in Nat /\ ProbeBudget \in Nat
  /\ Gone \notin Refs
  /\ \A c \in Corrs : Home[c] \subseteq Refs /\ Home[c] # {} /\ KindOf[c] \in Scopes

VARIABLES
  reg,          \* the registry
  told,         \* [Corrs -> the newest generation listed since the purge]
  was,          \* the places of the host's targets, generation by generation
  variables,    \* [Aliases -> what each stands for]
  flows,        \* [Workers -> the step each is at]
  todo,         \* [Workers -> what remains of its plan]
  purges        \* purges so far

vars == <<reg, told, was, variables, flows, todo, purges>>

Phases == {"idle", "calling", "answered", "choosing"}
Stages == {"direct", "source", "producer", "probe", "action"}
Idle == [phase |-> "idle", step |-> None, stage |-> None, aim |-> None, tool |-> None,
         args |-> << >>, sent |-> << >>, reply |-> None,
         shown |-> {}, budget |-> 0, used |-> {}]

Now == Len(was)

Init ==
  /\ reg = Empty
  /\ told = [c \in Corrs |-> NoGen]
  /\ \E place \in [Corrs -> Refs] :
        /\ \A c \in Corrs : place[c] \in Home[c]
        /\ \A c, d \in Corrs : place[c] = place[d] => c = d
        /\ was = << place >>
  /\ variables = [a \in Aliases |-> Unbound]
  /\ flows = [w \in Workers |-> Idle]
  /\ todo = Plan
  /\ purges = 0

At(w, phase) == flows[w].phase = phase
Goto(w, f)   == flows' = [flows EXCEPT ![w] = f]
Ends(w)      == Goto(w, Idle) /\ UNCHANGED variables

-----------------------------------------------------------------------------
(* The host *)

\* A target moves, goes away or comes back: a new generation.
WorldChanges(c) ==
  /\ Now <= Changes
  /\ \E p \in (Home[c] \cup {Gone}) \ {was[Now][c]} :
       /\ p # Gone => \A d \in Corrs : was[Now][d] # p
       /\ was' = Append(was, [was[Now] EXCEPT ![c] = p])
  /\ UNCHANGED <<reg, told, variables, flows, todo, purges>>

\* The host serves a call, or fails to: a tool that lists targets lists all
\* there are, in the order of the host, one that gives a single target gives
\* any of them; and the answer may tell which targets are gone.  What a tool
\* without a contract tells is not read.
Gives(tool, there) ==
  IF Producers(tool) = << >> THEN {<< >>}
  ELSE IF \A i \in DOMAIN Producers(tool) : Producers(tool)[i].mode = "single"
  THEN {<<c>> : c \in there} \cup {<< >>}
  ELSE {SetToSeq(there)}
HostAnswers(w) ==
  /\ At(w, "calling")
  /\ LET there == {c \in Corrs : was[Now][c] # Gone}
         tool  == flows[w].tool
     IN \E ok \in BOOLEAN, items \in Gives(tool, there) \cup {<< >>}, gone \in {{}, Corrs \ there} :
       /\ IF ok THEN items \in Gives(tool, there) ELSE items = << >>
       /\ Contract[tool] = None => gone = {}
       /\ Goto(w, [flows[w] EXCEPT !.phase = "answered", !.args = << >>, !.sent = << >>,
             !.reply = [ok |-> ok, gen |-> Now, items |-> items, gone |-> gone]])
  /\ UNCHANGED <<reg, told, was, variables, todo, purges>>

-----------------------------------------------------------------------------
(* Ingress: what an answer does to the registry *)

\* A target as a producer of the contract reads it from the answer.
Item(p, c, gen) ==
  [ref    |-> was[gen][c],
   corr   |-> IF "correlation_id" \in p.fields /\ c \notin Plain THEN c ELSE None,
   gen    |-> IF "generation" \in p.fields /\ c \notin Plain THEN gen ELSE NoGen,
   scope  |-> IF p.scope # None THEN p.scope ELSE KindOf[c],
   usable |-> p.usable]

ReadBy(p, reply) ==
  LET n == Len(reply.items) IN
  [i \in 1..(IF p.mode = "single" /\ n > 1 THEN 1 ELSE n) |-> Item(p, reply.items[i], reply.gen)]
ItemsOf(tool, reply) ==
  FlattenSeq([k \in DOMAIN Producers(tool) |-> ReadBy(Producers(tool)[k], reply)])

\* The last place of a target that went away.
LastPlace(c, gen) == was[CHOOSE g \in 1..gen : was[g][c] # Gone
                            /\ \A h \in g+1..gen : was[h][c] = Gone][c]
Update(c, gen) ==
  IF c \in Plain THEN [corr |-> None, ref |-> LastPlace(c, gen), gen |-> NoGen]
  ELSE [corr |-> c, ref |-> None, gen |-> gen]

\* A random name differs from every name in use.
Held == {variables[a].name : a \in Aliases}
     \cup UNION { flows[w].shown \cup {flows[w].args[p].name : p \in DOMAIN flows[w].args}
                  : w \in Workers }

\* A slip: names are numbered, again from the first after a purge.
NumberedName(r) == CHOOSE n \in Names : ~Known(r, n)

Unused(r)    == {n \in Names : ~Known(r, n) /\ n \notin Held}
FreshName(r) == CHOOSE n \in Unused(r) : TRUE

\* Every target of the answer is registered, in order, and shown by its name.
Register(acc, item) ==
  LET n == Upserted(acc.reg, item, FreshName(acc.reg))
  IN  [reg |-> Upsert(acc.reg, item, FreshName(acc.reg)), names |-> acc.names \cup {n}]
Projected(tool, reply) ==
  FoldLeft(Register, [reg |-> reg, names |-> {}], ItemsOf(tool, reply))

\* Then the updates of the answer are applied, when the tool has a contract.
ApplyUpdates(r, reply) ==
  FoldLeft(LAMBDA q, c : Invalidate(q, Update(c, reply.gen)), r, SetToSeq(reply.gone))
Ingress(tool, reply) ==
  IF Contract[tool] = None THEN [reg |-> reg, names |-> {}]
  ELSE LET P == Projected(tool, reply)
       IN  [reg |-> ApplyUpdates(P.reg, reply), names |-> P.names]

\* The newest generation at which an answer listed each target: for the
\* properties.  What an answer says of targets that are gone is not counted.
Hears(tool, reply) ==
  LET seen == {item.corr : item \in {i \in ToSet(ItemsOf(tool, reply)) : i.gen # NoGen}}
  IN  [c \in Corrs |-> IF c \in seen /\ reply.gen > told[c] THEN reply.gen ELSE told[c]]

-----------------------------------------------------------------------------
(* Egress: a call goes out with references, or not at all *)

NamesIn(args) == [p \in DOMAIN args |-> args[p].name]

Dispatches(w, r, f, stage, tool, args) ==
  /\ Passes(r, tool, NamesIn(args))
  /\ Goto(w, [f EXCEPT !.phase = "calling", !.stage = stage, !.tool = tool, !.args = args,
       !.sent = [p \in DOMAIN args |-> Sent(r, tool, p, args[p].name)], !.reply = None])

\* A refused call ends its step; a refused probe leaves nothing to choose from.
Calls(w, r, f, stage, tool, args) ==
  \/ Dispatches(w, r, f, stage, tool, args)
  \/ /\ ~Passes(r, tool, NamesIn(args))
     /\ Goto(w, IF stage = "probe"
                THEN [f EXCEPT !.phase = "choosing", !.shown = {}, !.reply = None]
                ELSE Idle)

-----------------------------------------------------------------------------
(* What a perception does with what it was shown *)

Shown(r, f)  == {n \in f.shown : Active(r, n)}
Chosen(r, n) == Value(n, r.entries[n].corr)
IsAnchor(t)  == t.name = Raw
SelectionTool(s, aim) == IF aim = "final" /\ s.producer # None THEN s.producer ELSE s.source

\* A slip: one round too many.
ChoosingOnceMore(f, aim) == [f EXCEPT !.phase = "choosing", !.aim = aim, !.budget = ProbeBudget + 1,
                               !.used = {}, !.reply = None, !.stage = None, !.tool = None]

Choosing(f, aim) == [f EXCEPT !.phase = "choosing", !.aim = aim, !.budget = ProbeBudget,
                       !.used = {}, !.reply = None, !.stage = None, !.tool = None]

\* The action takes its target where its template says, else in its one
\* target parameter; a template that puts it anywhere else is refused.
ActionArgs(s, t) ==
  LET places  == {p \in DOMAIN s.args : s.args[p] = TheTarget}
      default == IF IsAnchor(t) THEN ParamForAnchor(s.action, t.meant)
                 ELSE IF places = {} THEN DefaultParam(s.action) ELSE None
      bad     == IF IsAnchor(t) THEN default = None \/ ~(places \subseteq {default})
                 ELSE IF places = {} THEN default = None
                 ELSE \E p \in places : ~Takes(s.action, p)
  IN  IF bad THEN None
      ELSE [p \in (DOMAIN s.args \cup {default}) \ {None} |->
             IF p \in places \cup {default} THEN t ELSE Value(s.args[p], None)]

\* A target found is bound to the alias of the step (a raw anchor cannot be),
\* and the action of a perceive_action follows at once.  The alias one without
\* any is given is a name no plan reads.
Selected(w, r, f, t) ==
  LET s == f.step IN
  /\ variables' = IF IsAnchor(t) \/ s.alias = None THEN variables
                  ELSE [variables EXCEPT ![s.alias] = t]
  /\ IF s.kind # "act" \/ ActionArgs(s, t) = None THEN Goto(w, Idle)
     ELSE Calls(w, r, [f EXCEPT !.shown = {}, !.used = {}, !.budget = 0, !.aim = None],
                "action", s.action, ActionArgs(s, t))

\* The candidate of the source goes to the one parameter of the producer
\* that can take it.
Produces(w, r, f, t) ==
  LET param == IF IsAnchor(t) THEN ParamForAnchor(f.step.producer, t.meant)
               ELSE ParamForScope(f.step.producer, r.entries[t.name].scope)
  IN  /\ IF param = None THEN Goto(w, Idle)
         ELSE Calls(w, r, [f EXCEPT !.shown = {}, !.used = {}, !.budget = 0, !.aim = None],
                    "producer", f.step.producer, [p \in {param} |-> t])
      /\ UNCHANGED variables

CanProduce(tool) == Producers(tool) # << >> /\ tool \in Utilities

\* One candidate and nothing to look closer with: it is taken.  Otherwise the
\* model chooses, among several or with the probes of the tool.
AfterSource(w, r, f) ==
  LET names == Shown(r, f) IN
  IF ~CanProduce(f.step.producer) \/ (names = {} /\ Disclosure(f.step.source) = None) THEN Ends(w)
  ELSE IF Cardinality(names) = 1 /\ Disclosure(f.step.source) = None
  THEN Produces(w, r, f, Chosen(r, CHOOSE n \in names : TRUE))
  ELSE Goto(w, Choosing(f, "source")) /\ UNCHANGED variables

\* The last selection: one target is taken, several are chosen among when the
\* step wants one.
AfterLast(w, r, f) ==
  LET names == Shown(r, f)
      tool  == SelectionTool(f.step, "final")
  IN  IF Cardinality(names) = 1 THEN Selected(w, r, f, Chosen(r, CHOOSE n \in names : TRUE))
      ELSE IF (names # {} \/ Disclosure(tool) # None)
              /\ (f.step.kind = "act" \/ f.step.alias # None \/ f.step.producer # None)
      THEN Goto(w, Choosing(f, "final")) /\ UNCHANGED variables
      ELSE Ends(w)

-----------------------------------------------------------------------------
(* The steps *)

\* A plain call: its aliases give the names, an unbound one stays a token.
StartCall(w, s) ==
  /\ s.kind = "call"
  /\ Calls(w, reg, [Idle EXCEPT !.step = s], "direct", s.action,
           [p \in DOMAIN s.args |-> IF s.args[p] \in Aliases THEN variables[s.args[p]]
                                    ELSE Value(Raw, None)])

\* A perception reads its source, or goes straight to its producer.
StartPerception(w, s) ==
  /\ s.kind \in {"understand", "act"}
  /\ IF s.source # None THEN Calls(w, reg, [Idle EXCEPT !.step = s], "source", s.source, << >>)
     ELSE /\ CanProduce(s.producer)
          /\ Calls(w, reg, [Idle EXCEPT !.step = s], "producer", s.producer, << >>)

Start(w) ==
  /\ At(w, "idle") /\ todo[w] # << >>
  /\ \E s \in Head(todo[w]) : StartCall(w, s) \/ StartPerception(w, s)
  /\ todo' = [todo EXCEPT ![w] = Tail(@)]
  /\ UNCHANGED <<reg, told, was, variables, purges>>

\* An answer comes in: its targets are registered, then the step goes on.
\* The answer of a probe is read by the contract of the tool it looks for.
Reader(f) == IF f.stage = "probe" THEN SelectionTool(f.step, f.aim) ELSE f.tool

AfterDirect(w, r, f) ==
  LET names == Shown(r, f) IN
  /\ variables' = IF f.step.alias # None /\ f.reply.ok /\ Cardinality(names) = 1
                  THEN [variables EXCEPT ![f.step.alias] = Chosen(r, CHOOSE n \in names : TRUE)]
                  ELSE variables
  /\ Goto(w, Idle)

AfterProbe(w, r, f) ==
  /\ Goto(w, [f EXCEPT !.phase = "choosing", !.shown = Shown(r, f),
                !.reply = None, !.stage = None, !.tool = None])
  /\ UNCHANGED variables

GoesOn(w, r, f) ==
  IF f.stage = "direct" THEN AfterDirect(w, r, f)
  ELSE IF f.stage = "probe" THEN AfterProbe(w, r, f)
  ELSE IF f.stage = "source" /\ f.reply.ok /\ f.step.producer # None THEN AfterSource(w, r, f)
  ELSE IF /\ f.stage \in {"source", "producer"} /\ f.reply.ok
          /\ Contract[SelectionTool(f.step, "final")] # None
  THEN AfterLast(w, r, f)
  ELSE Ends(w)

\* Bound: names never run out (they are drawn at random from four thousand million).
NamesSuffice(tool, reply) == Len(ItemsOf(tool, reply)) <= Cardinality(Unused(reg))

Deliver(w) ==
  /\ At(w, "answered")
  /\ NamesSuffice(Reader(flows[w]), flows[w].reply)
  /\ LET f == flows[w]
         G == Ingress(Reader(f), f.reply)
     IN  /\ reg' = G.reg
         /\ told' = Hears(Reader(f), f.reply)
         /\ GoesOn(w, G.reg, [f EXCEPT !.shown = G.names])
  /\ UNCHANGED <<was, todo, purges>>

\* The selector answers: a target it was shown, a raw anchor of a declared
\* kind, or nothing that can be used.
OfferedKinds(s, aim) ==
  IF s.producer = None THEN {} ELSE AnchorKinds({SelectionTool(s, aim), s.producer})
ChoosesLocal(w) ==
  \E n \in Shown(reg, flows[w]) :
     IF flows[w].aim = "source" THEN Produces(w, reg, flows[w], Chosen(reg, n))
     ELSE Selected(w, reg, flows[w], Chosen(reg, n))
ChoosesAnchor(w) ==
  \E kind \in OfferedKinds(flows[w].step, flows[w].aim) :
     IF flows[w].aim = "source" THEN Produces(w, reg, flows[w], Value(Raw, kind))
     ELSE Selected(w, reg, flows[w], Value(Raw, kind))

\* What the probe is given as its subject: None when it cannot have it.
SubjectArg(f, probe, subject) ==
  IF probe.subject = "local"
  THEN IF subject \notin Shown(reg, f) THEN None
       ELSE IF Takes(probe.tool, probe.param) THEN Chosen(reg, subject)
       ELSE Value(reg.entries[subject].ref, None)
  ELSE LET kinds == {a.kind : a \in Anchors(SelectionTool(f.step, f.aim))}
           strict == \E c \in Consumers(probe.tool) : c.param = probe.param /\ c.raw = "deny"
       IN  IF strict \/ (kinds # {} /\ probe.subject \notin kinds) THEN None
           ELSE Value(Raw, probe.subject)

\* The arguments of a probe: None when it cannot be run.
ProbeArgs(f, probe, subject) ==
  LET arg == SubjectArg(f, probe, subject) IN
  IF probe.tool = None THEN None
  ELSE IF probe.subject = None THEN << >>
  ELSE IF arg = None THEN None ELSE [p \in {probe.param} |-> arg]

\* Or it asks for a probe: one it has not asked for yet, while any is left.
\* Asking again for the same ends the selection.
ChoosesProbe(w) ==
  LET f == flows[w] IN
  /\ f.budget > 0
  /\ \E probe \in Probes(SelectionTool(f.step, f.aim)), subject \in f.shown \cup {Raw} :
       LET marker == <<probe.id, subject>>
           args   == ProbeArgs(f, probe, subject)
           g      == [f EXCEPT !.budget = @ - 1, !.used = @ \cup {marker}]
       IN  IF marker \in f.used THEN Goto(w, Idle)
           ELSE IF args = None THEN Goto(w, g)
           ELSE Calls(w, reg, g, "probe", probe.tool, args)
  /\ UNCHANGED variables

Select(w) ==
  /\ At(w, "choosing")
  /\ ChoosesLocal(w) \/ ChoosesAnchor(w) \/ ChoosesProbe(w) \/ Ends(w)
  /\ UNCHANGED <<reg, told, was, todo, purges>>

\* chat.stop and chat.reset answer every pending call with a failure and
\* purge; runtime.configure and a new manifest only purge.
Cut == [ok |-> FALSE, gen |-> Now, items |-> << >>, gone |-> {}]
Purges ==
  /\ purges < MaxPurges /\ purges' = purges + 1
  /\ reg' = Empty
  /\ told' = [c \in Corrs |-> NoGen]
StopOrReset ==
  /\ Purges
  /\ flows' = [w \in Workers |->
       IF flows[w].phase \in {"calling", "answered"}
       THEN [flows[w] EXCEPT !.phase = "answered", !.reply = Cut, !.args = << >>, !.sent = << >>]
       ELSE flows[w]]
  /\ UNCHANGED <<was, variables, todo>>
Reconfigure == Purges /\ UNCHANGED <<was, variables, flows, todo>>

Next ==
  \/ \E c \in Corrs : WorldChanges(c)
  \/ \E w \in Workers : HostAnswers(w) \/ Start(w) \/ Deliver(w) \/ Select(w)
  \/ StopOrReset
  \/ Reconfigure

Spec == Init /\ [][Next]_vars

-----------------------------------------------------------------------------
(* Properties *)

\* The values the variables take.
TypeOK ==
  /\ reg \in Registry
  /\ purges \in 0..MaxPurges
  /\ told \in [Corrs -> 0..Now]
  /\ \A g \in 1..Now : \A c \in Corrs : was[g][c] \in Home[c] \cup {Gone}
  /\ \A a \in Aliases : variables[a].name \in Names \cup {Token}
  /\ \A w \in Workers :
       /\ flows[w].phase \in Phases
       /\ flows[w].stage \in Stages \cup {None}
       /\ flows[w].budget \in 0..ProbeBudget
       /\ flows[w].shown \subseteq Names

\* Through refreshes, invalidations and targets that trade their references,
\* the index stays true: what is looked up is found, and is what was meant.
RegistrySound == Indexed(reg)

\* A host that gives the reference of one target to another has them confused.
Confusable(c) == \E d \in Corrs \ {c} : \E g, h \in 1..Now : was[g][c] = was[h][d] /\ was[g][c] # Gone

\* What the contracts of a host may read together: no generation of a target
\* they cannot name, and no name without its generation.
DatesAreNamed == \A t \in Tools : \A p \in ToSet(Producers(t)) :
  "generation" \in p.fields => "correlation_id" \in p.fields
NamesAreDated == \A t \in Tools : \A p \in ToSet(Producers(t)) :
  "correlation_id" \in p.fields => "generation" \in p.fields

\* And what its plans may do: an alias is given to a parameter that takes a
\* target and nothing else (a literal goes through the others unread, and the
\* name of a target the registry has forgotten is one).
AliasesAreStrict ==
  \A w \in Workers : \A step \in ToSet(Plan[w]) : \A s \in step : s.kind = "call" =>
    \A p \in DOMAIN s.args : s.args[p] \in Aliases =>
      \A c \in Consumers(s.action) : c.param = p => c.raw = "deny"

\* Answers come back in any order, yet what the registry holds of a target
\* is what the host said of it at the generation it holds; and that is the
\* newest at which any answer listed it, unless the host gives references
\* away: then a report may be ignored for the newer one of the target that
\* has its old reference.  This is about listings: removals are the
\* matter of the next property.
FreshestReportWins ==
  \A n \in Names : Known(reg, n) =>
    LET e == reg.entries[n] IN
    e.corr # None /\ e.gen # NoGen =>
      /\ e.ref = was[e.gen][e.corr]
      /\ ~Confusable(e.corr) => e.gen = told[e.corr]

\* An answer that tells of a removal may come after a newer one that lists
\* the target again: a target the registry holds for gone was gone when it was
\* last listed, or has gone since.  (The other way about nothing is promised: a
\* removal leaves no generation behind, and an older listing after it counts.)
RemovalsAreNews ==
  \A n \in Names : Known(reg, n) =>
    LET e == reg.entries[n] IN
    ~e.active /\ e.corr # None /\ e.gen # NoGen /\ ~Confusable(e.corr) =>
      \E g \in e.gen..Now : was[g][e.corr] = Gone

\* When a call leaves for the host, each target in it is the one its step
\* chose, at the place the freshest listing gave for it: whatever moved since,
\* whatever the other steps registered, and never after a purge.
Leaves(w) == flows[w].phase # "calling" /\ flows'[w].phase = "calling"
ActsOnTheChosen ==
  [][\A w \in Workers : Leaves(w) =>
       LET f == flows'[w] IN
       \A p \in DOMAIN f.args :
         f.args[p].meant \in Corrs /\ Takes(f.tool, p) /\ ~Confusable(f.args[p].meant) =>
           LET c == f.args[p].meant IN
           told'[c] # NoGen /\ f.sent[p] = was[told'[c]][c]]_vars
==============================================================================
