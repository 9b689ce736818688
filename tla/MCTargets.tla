------------------------------ MODULE MCTargets ------------------------------
(* Small instances of Targets: a host with a tool that lists its targets and *)
(* can look closer, one that turns a target or a cell into a fresh target,   *)
(* one that acts on a target, and one whose contract is malformed.           *)
EXTENDS Targets, TLC

CONSTANTS w1, w2, t1, t2, n1, n2, n3, n4, n5, r1, r2, r3

All   == {"ref", "correlation_id", "generation"}
Takes1(param, raw) == [param |-> param, scope |-> "ui", raw |-> raw, enum |-> FALSE, inSchema |-> TRUE]
Reports(mode) == [path |-> "data.targets", mode |-> mode, scope |-> "ui", fields |-> All, usable |-> {}]
Plainly(consumes, produces, disclosure) ==
  [version |-> 1, consumes |-> consumes, produces |-> produces, disclosure |-> disclosure]

Cells == [views  |-> << >>, anchors |-> <<[kind |-> "cell", param |-> "cell"]>>, probes |-> << >>]
Looks == [views  |-> << >>, anchors |-> <<[kind |-> "cell", param |-> "cell"]>>,
          probes |-> <<[id |-> "zoom", tool |-> "pick", subject |-> "local", param |-> "from"],
                       [id |-> "look", tool |-> "odd", subject |-> None, param |-> None]>>]

Scan  == Plainly(<< >>, <<Reports("candidates")>>, Looks)
Read  == Plainly(<< >>, <<Reports("candidates")>>, None)
Pick  == Plainly(<<Takes1("from", "allow")>>, <<Reports("single")>>, Cells)
Click == Plainly(<<Takes1("target", "deny"), Takes1("cell", "allow")>>, << >>, None)
Odd   == Plainly(<<[Takes1("target", "deny") EXCEPT !.enum = TRUE]>>, << >>, None)

ToolNames == {"scan", "read", "pick", "click", "odd"}
Manifest == [t \in ToolNames |->
  CASE t = "scan" -> Scan [] t = "read" -> Read [] t = "pick" -> Pick
    [] t = "click" -> Click [] t = "odd" -> Odd]

Step(kind, source, producer, action, alias, args) ==
  [kind |-> kind, source |-> source, producer |-> producer, action |-> action,
   alias |-> alias, args |-> args]

\* One branch of the plan finds a target and clicks it; the other picks one,
\* or finds, anchors and acts in one step.
Picks   == Step("call", None, None, "pick", "a", << >>)
Clicks  == Step("call", None, None, "click", None, "target" :> "a")
Finds   == Step("understand", "read", None, None, "a", << >>)
ActsOn  == Step("act", "scan", "pick", "click", None, << >>)
Branches == [w \in Workers |-> IF w = w1 THEN <<{Finds}, {Clicks}>> ELSE <<{Picks, ActsOn}>>]

\* One target moves between two places of its own and may come to the place of
\* the other, which has no other.
Homes == [c \in Corrs |-> IF c = t1 THEN {r1, r2, r3} ELSE {r2}]
\* The two places of its own are alike.
OwnPlaces == Permutations({r1, r3})

OneKind == [c \in Corrs |-> "ui"]

\* What the theorems about FreshestReportWins and ActsOnTheChosen ask for.
ASSUME TheContractsAreWhole == DatesAreNamed /\ NamesAreDated /\ AliasesAreStrict
==============================================================================
