--------------------------- MODULE MCPlanExecution ---------------------------
(* PlanExecution for TLC: a handful of plans, each there for one hazard.      *)
EXTENDS PlanExecution

Blank == [id |-> "s1", type |-> "tool_call", tool |-> "act", source |-> None,
          producer |-> None, readable |-> TRUE, args |-> {}, aim |-> Always.ref,
          cond |-> Always, out |-> None, tells |-> "data", alias |-> None,
          expected |-> "unset", crucial |-> FALSE, risky |-> FALSE,
          changes |-> FALSE, deed |-> "d1"]

Bool(root) == Ref("bool", root)
Data(root) == Ref("data", root)

Look == [Blank EXCEPT !.tool = "perceive_understand", !.source = "look"]
Say  == [Blank EXCEPT !.type = "direct_answer", !.tool = None]
Sub  == [Blank EXCEPT !.type = "abstract_task", !.tool = None]

\* Look, act on what is seen, and act on the outcome.
Branching ==
  <<[Look EXCEPT !.expected = "any"],
    [Blank EXCEPT !.id = "s2", !.cond = When(Bool("s1"), "true"), !.out = "x",
                  !.crucial = TRUE],
    [Blank EXCEPT !.id = "s3", !.cond = When(Bool("x"), "true"), !.args = {Data("x")}]>>

\* An action on what the one before produced.
Chained ==
  <<[Blank EXCEPT !.changes = TRUE],
    [Blank EXCEPT !.id = "s2", !.args = {Data("s1")}, !.risky = TRUE]>>

\* The perception is called directly; the gate repairs it.
Direct == <<[Blank EXCEPT !.tool = "look"]>>

\* A subtask, and a condition on the content of its answer.
Delegated ==
  <<[Sub EXCEPT !.out = "x", !.crucial = TRUE],
    [Blank EXCEPT !.id = "s2", !.cond = When(Data("x"), "yes")]>>

\* A condition, and an argument, on names that no step before it makes.
Premature == <<[Blank EXCEPT !.cond = When(Bool("x"), "true"), !.crucial = TRUE],
               [Blank EXCEPT !.id = "s2", !.out = "x"]>>
Guessed   == <<[Blank EXCEPT !.args = {Data("x")}]>>

\* An answer in words, with what an earlier attempt may have left.
Words == <<[Say EXCEPT !.args = {Data("x")}]>>

\* A target that is produced and then aimed at.
Aimed == <<[Blank EXCEPT !.tool = "aim", !.alias = "t"],
           [Blank EXCEPT !.id = "s2", !.tool = "click", !.aim = Ref("bare", "t")]>>

\* A condition on a target as if it were a status.
Presumed == <<[Blank EXCEPT !.tool = "aim", !.alias = "t", !.expected = "any"],
              [Blank EXCEPT !.id = "s2", !.cond = When(Bool("t"), "true")]>>

ThePlans == {Branching, Chained, Direct, Delegated, Premature, Guessed, Words, Aimed,
             Presumed}

\* No output is called like a step: what TheAttemptIsRead asks of the plans.
ASSUME ThePlansAreApart == NamesApart
=============================================================================
