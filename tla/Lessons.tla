------------------------------- MODULE Lessons -------------------------------
(***************************************************************************)
(* What the runtime learns: the analysis of finished missions              *)
(* (core/learner.py), the table of lessons (memory/lesson_store.py), the   *)
(* consolidation of its raw rows (core/entity_learner.py), the facts a     *)
(* turn notes, the host's edits, and the embedding space the rows live in  *)
(* (core/embedding_service.py, embeddings/manager.py and the embeddings.*  *)
(* packets of core/orchestrator.py).                                       *)
(*                                                                         *)
(* Analyses, consolidations, turns and packets are tasks of one loop; an   *)
(* action is the code between two awaits of one of them.  SQLite keeps the *)
(* rows and the episodes when the process dies.  The contradictions and    *)
(* the confidence of a row only rank it: any row of a group may win.       *)
(***************************************************************************)
EXTENDS Integers, Sequences, FiniteSetsExt, Functions

CONSTANTS
  Missions,      \* the missions whose episodes are saved
  Teaches,       \* [Missions -> Seq(Polarities)]: what an episode has to teach
  Subjects,      \* an entity, a scope and an environment
  Facts,         \* the subjects of scope semantic_fact
  Texts,         \* recommendations, up to case and blanks
  Models,        \* embedding models
  Dim,           \* [Models -> Nat]: the length of their vectors
  Historic,      \* HISTORIC_MODEL_ID, whose rows bear no label
  Fallback,      \* the model of the embedding service of the process
  Tasks,
  MinEvidence,   \* ENTITY_LEARNER_MIN_EVIDENCE
  MaxRows,       \* bound: rows ever inserted
  MaxActs,       \* bound: packets of the host, and restarts
  None

Polarities == {"avoid", "prefer"}

ASSUME LearningBounds ==
  /\ \A m \in Missions : Teaches[m] \in Seq(Polarities) \ {<< >>}
  /\ Facts \subseteq Subjects /\ {Historic, Fallback} \subseteq Models
  /\ None \notin Models \cup Missions
  /\ {MinEvidence, MaxRows, MaxActs} \subseteq Nat /\ MinEvidence > 0

VARIABLES
  episodes,  \* [Missions -> unborn, waiting, analyzed or gone]
  rows,      \* the lessons: a function whose domain are their ids
  lastId,    \* the AUTOINCREMENT of the table
  active,    \* EmbeddingProviderManager._active_provider_id
  space,     \* LessonStore.embedding_model
  tasks,     \* [Tasks -> what each awaits]
  acts,      \* how often the host has acted
  offered,   \* history: <<mission, n>>, the lessons that reached the store
  disowned   \* history: subjects the host took rows from or moved rows to

vars == <<episodes, rows, lastId, active, space, tasks, acts, offered, disowned>>

Row == [subject : Subjects, text : Texts, polarity : Polarities, evidence : 0 .. MinEvidence,
        filed : BOOLEAN, heir : BOOLEAN, active : BOOLEAN,
        label : Models \cup {None}, vector : Models \cup {None}]

Idle == [pc |-> "idle", todo |-> {}, mission |-> None, n |-> 0, lesson |-> None,
         vector |-> None, groups |-> {}]

Init ==
  /\ episodes = [m \in Missions |-> "unborn"]
  /\ rows = << >> /\ lastId = 0
  /\ active \in Models /\ space = active
  /\ tasks = [k \in Tasks |-> Idle]
  /\ acts = 0 /\ offered = {} /\ disowned = {}

\* An order of the host, of which the bound allows some.
Act == acts < MaxActs /\ acts' = acts + 1

At(k, pc)  == tasks[k].pc = pc
Goto(k, r) == tasks' = [tasks EXCEPT ![k] = r]

-----------------------------------------------------------------------------
(* The table *)

\* A vector of another length does not enter the vector table of the space:
\* the insertion raises, and nothing is committed.
Fits(vector) == vector # None => Dim[vector] = Dim[space]

Born(lesson, vector) ==
  [subject |-> lesson.subject, text |-> lesson.text, polarity |-> lesson.polarity,
   evidence |-> lesson.evidence, filed |-> FALSE, heir |-> FALSE, active |-> TRUE,
   label |-> space, vector |-> vector]

\* A slip: the row does not use up its id.
InsertWithoutId(row) ==
  /\ lastId < MaxRows /\ UNCHANGED lastId
  /\ rows' = [i \in DOMAIN rows \cup {lastId + 1} |->
                IF i = lastId + 1 THEN row ELSE rows[i]]

Insert(row) ==
  /\ lastId < MaxRows
  /\ lastId' = lastId + 1
  /\ rows' = [i \in DOMAIN rows \cup {lastId'} |-> IF i = lastId' THEN row ELSE rows[i]]

InSpace(row) == row.label \in {space, None}

\* The living rows that already say this ...
Twins(lesson) ==
  {i \in DOMAIN rows : /\ InSpace(rows[i]) /\ rows[i].active
                       /\ rows[i].subject = lesson.subject /\ rows[i].text = lesson.text
                       /\ rows[i].polarity = lesson.polarity}

\* ... and, if there is none, for a fact the dead ones and those elsewhere too.
Echoes(lesson) ==
  IF Twins(lesson) # {} THEN Twins(lesson)
  ELSE {i \in DOMAIN rows : /\ InSpace(rows[i]) /\ rows[i].text = lesson.text
                            /\ {rows[i].subject, lesson.subject} \subseteq Facts}

\* Evidence is counted as far as the threshold, which is all it is compared with.
Enough(evidence) == IF evidence >= MinEvidence THEN MinEvidence ELSE evidence

\* upsert_lesson: the newest echo is reinforced; without one a row is added.
\* An error of the database is logged and forgotten.
Upsert(lesson, vector) ==
  \/ /\ Echoes(lesson) # {}
     /\ rows' = [rows EXCEPT ![Max(Echoes(lesson))].evidence = Enough(@ + 1)]
     /\ UNCHANGED lastId
  \/ /\ Echoes(lesson) = {} /\ Fits(vector)
     /\ Insert(Born(lesson, vector))
  \/ UNCHANGED <<rows, lastId>>

Raw(subject) ==
  {i \in DOMAIN rows : rows[i].subject = subject /\ rows[i].active /\ ~rows[i].filed}
Evidence(subject) == MapThenSumSet(LAMBDA i : rows[i].evidence, Raw(subject))
Groups == {s \in Subjects : Evidence(s) >= MinEvidence}

\* What is made for the space expected when the embedding began: a vector of
\* the active model or, when that fails, of the fallback, if it is of the space.
Embeddings == {active, IF Fallback = space THEN Fallback ELSE None}

-----------------------------------------------------------------------------
(* The analysis of the episodes, then the consolidation *)

Ask(r, mission, n) ==
  [r EXCEPT !.pc = "asking", !.mission = mission, !.n = n, !.lesson = None, !.vector = None]

\* The next group that still has its evidence is read, and the text of its heir
\* goes to the embedding model; groups that lost theirs are skipped.
Consolidate(k, groups) ==
  LET live == groups \cap Groups IN
  IF live = {} THEN Goto(k, Idle)
  ELSE \E s \in live, vector \in Embeddings : \E best \in Raw(s) :
         Goto(k, [Idle EXCEPT !.pc = "merging", !.groups = live \ {s}, !.vector = vector,
                    !.lesson = [subject |-> s, text |-> rows[best].text,
                                polarity |-> rows[best].polarity,
                                evidence |-> Enough(Evidence(s))]])

\* The next episode of the list, or the consolidation after the last one.
Onward(k, todo) ==
  IF todo = {} THEN Consolidate(k, Groups)
  ELSE \E m \in todo : Goto(k, Ask([Idle EXCEPT !.todo = todo \ {m}], m, 1))

\* A mission is saved.
Save(m) ==
  /\ episodes[m] = "unborn"
  /\ episodes' = [episodes EXCEPT ![m] = "waiting"]
  /\ UNCHANGED <<rows, lastId, active, space, tasks, acts, offered, disowned>>

\* Markers or learner.analyze start an analysis of every episode not analysed.
Analyze(k) ==
  /\ At(k, "idle")
  /\ \E m \in Missions : episodes[m] = "waiting"
  /\ Onward(k, {m \in Missions : episodes[m] = "waiting"})
  /\ UNCHANGED <<episodes, rows, lastId, active, space, acts, offered, disowned>>

Saved == {m \in Missions : episodes[m] \in {"waiting", "analyzed"}}

\* With "force" all of them are analysed again.
AnalyzeAgain(k) ==
  /\ At(k, "idle") /\ Act
  /\ Saved # {}
  /\ episodes' = [m \in Missions |-> IF m \in Saved THEN "waiting" ELSE episodes[m]]
  /\ Onward(k, Saved)
  /\ UNCHANGED <<rows, lastId, active, space, offered, disowned>>

\* The LLM, or its fallback, gives the lesson; it is sent to be embedded.
Extract(k) ==
  /\ At(k, "asking")
  /\ \E s \in Subjects \ Facts, x \in Texts, vector \in Embeddings :
       Goto(k, [tasks[k] EXCEPT !.pc = "embedding", !.vector = vector,
                  !.lesson = [subject |-> s, text |-> x, evidence |-> 1,
                              polarity |-> Teaches[tasks[k].mission][tasks[k].n]]])
  /\ UNCHANGED <<episodes, rows, lastId, active, space, acts, offered, disowned>>

\* mark_analyzed, which may fail without saying so.
Mark(m) ==
  \/ episodes' = [episodes EXCEPT ![m] = IF @ = "gone" THEN @ ELSE "analyzed"]
  \/ UNCHANGED episodes

\* After the last lesson the episode is marked and the task goes on.
NextLesson(k) ==
  LET r == tasks[k] IN
  IF r.n < Len(Teaches[r.mission])
  THEN Goto(k, Ask(r, r.mission, r.n + 1)) /\ UNCHANGED episodes
  ELSE Mark(r.mission) /\ Onward(k, r.todo)

\* A lesson that would discourage skills is dropped, and nothing is awaited.
Drop(k) ==
  /\ At(k, "asking")
  /\ offered' = offered \cup {<<tasks[k].mission, tasks[k].n>>}
  /\ NextLesson(k)
  /\ UNCHANGED <<rows, lastId, active, space, acts, disowned>>

\* The lesson is stored; the caches that quote its scope are cleared.
Teach(k) ==
  /\ At(k, "embedding")
  /\ Upsert(tasks[k].lesson, tasks[k].vector)
  /\ offered' = offered \cup {<<tasks[k].mission, tasks[k].n>>}
  /\ Goto(k, [tasks[k] EXCEPT !.pc = "told", !.lesson = None, !.vector = None])
  /\ UNCHANGED <<episodes, active, space, acts, disowned>>

Told(k) ==
  /\ At(k, "told")
  /\ NextLesson(k)
  /\ UNCHANGED <<rows, lastId, active, space, acts, offered, disowned>>

\* A slip: the episode is marked in a finally clause.
MarkAnyway(k) ==
  /\ At(k, "embedding")
  /\ Mark(tasks[k].mission) /\ Onward(k, tasks[k].todo)
  /\ UNCHANGED <<rows, lastId, active, space, acts, offered, disowned>>

\* No vector at all: the episode is left as it is, the next one is taken.
EmbedFails(k) ==
  /\ At(k, "embedding")
  /\ Onward(k, tasks[k].todo)
  /\ UNCHANGED <<episodes, rows, lastId, active, space, acts, offered, disowned>>

-----------------------------------------------------------------------------
(* The consolidation of one group *)

\* lesson.consolidate, without an analysis.
ConsolidateNow(k) ==
  /\ At(k, "idle") /\ Act
  /\ Groups # {} /\ Consolidate(k, Groups)
  /\ UNCHANGED <<episodes, rows, lastId, active, space, offered, disowned>>

\* The heir is inserted, with the evidence the group had when it was read.
Bear(k) ==
  LET r == tasks[k] IN
  /\ At(k, "merging") /\ Fits(r.vector)
  /\ Insert([Born(r.lesson, r.vector) EXCEPT !.filed = TRUE, !.heir = TRUE])
  /\ Goto(k, [r EXCEPT !.pc = "filing", !.vector = None])
  /\ UNCHANGED <<episodes, active, space, acts, offered, disowned>>

\* A slip: the sources are filed although no heir was born.
FileAnyway(k) ==
  /\ At(k, "merging")
  /\ Goto(k, [tasks[k] EXCEPT !.pc = "filing", !.vector = None])
  /\ UNCHANGED <<episodes, rows, lastId, active, space, acts, offered, disowned>>

\* The embedding or the insertion fails: the group keeps its raw rows.
BearFails(k) ==
  /\ At(k, "merging")
  /\ Consolidate(k, tasks[k].groups)
  /\ UNCHANGED <<episodes, rows, lastId, active, space, acts, offered, disowned>>

\* The rows that are raw by now are filed, or the database refuses.
File(k) ==
  LET s == tasks[k].lesson.subject IN
  /\ At(k, "filing")
  /\ \/ rows' = [i \in DOMAIN rows |->
                   IF i \in Raw(s) THEN [rows[i] EXCEPT !.filed = TRUE] ELSE rows[i]]
     \/ UNCHANGED rows
  /\ Consolidate(k, tasks[k].groups)
  /\ UNCHANGED <<episodes, lastId, active, space, acts, offered, disowned>>

-----------------------------------------------------------------------------
(* A turn that learned a fact *)

Hear(k) ==
  /\ At(k, "idle")
  /\ \E s \in Facts, x \in Texts, vector \in Embeddings :
       Goto(k, [Idle EXCEPT !.pc = "noting", !.vector = vector,
                  !.lesson = [subject |-> s, text |-> x, polarity |-> "prefer",
                              evidence |-> 1]])
  /\ UNCHANGED <<episodes, rows, lastId, active, space, acts, offered, disowned>>

Note(k) ==
  /\ At(k, "noting")
  /\ Upsert(tasks[k].lesson, tasks[k].vector)
  /\ Goto(k, Idle)
  /\ UNCHANGED <<episodes, active, space, acts, offered, disowned>>

-----------------------------------------------------------------------------
(* The host: lesson.create, lesson.update, lesson.delete and data.purge *)

Create ==
  /\ Act
  /\ \E s \in Subjects, x \in Texts, p \in Polarities, e \in 1 .. MinEvidence :
       Insert(Born([subject |-> s, text |-> x, polarity |-> p, evidence |-> e], None))
  /\ UNCHANGED <<episodes, active, space, tasks, offered, disowned>>

\* What the history remembers of a row the host has touched.
Disown(ids) == disowned' = disowned \cup {rows[i].subject : i \in ids}

\* A packet that sets the text, be it to the same one, takes the vector and the
\* label away; one that sets other fields may move the row to another subject;
\* one that does both is two edits in a row.
Edit(i) ==
  /\ Act
  /\ \E s \in Subjects, p \in Polarities, e \in 0 .. MinEvidence, alive, done \in BOOLEAN :
       /\ \/ rows' = [rows EXCEPT ![i].subject = s, ![i].polarity = p, ![i].evidence = e,
                                  ![i].active = alive, ![i].filed = done]
          \/ /\ s = rows[i].subject
             /\ \E x \in Texts :
                  rows' = [rows EXCEPT ![i].text = x, ![i].vector = None, ![i].label = None]
       /\ disowned' = disowned \cup {rows[i].subject, s}
  /\ UNCHANGED <<episodes, lastId, active, space, tasks, offered>>

\* A soft deletion keeps the row.
Delete(i) ==
  /\ Act
  /\ \/ rows' = [rows EXCEPT ![i].active = FALSE]
     \/ rows' = Restrict(rows, DOMAIN rows \ {i})
  /\ Disown({i})
  /\ UNCHANGED <<episodes, lastId, active, space, tasks, offered>>

Purge ==
  /\ Act
  /\ \/ rows' = << >> /\ Disown(DOMAIN rows) /\ UNCHANGED episodes
     \/ /\ episodes' = [m \in Missions |-> IF m \in Saved THEN "gone" ELSE episodes[m]]
        /\ UNCHANGED <<rows, disowned>>
  /\ UNCHANGED <<lastId, active, space, tasks, offered>>

-----------------------------------------------------------------------------
(* The embedding space *)

\* use_embedding_model: the store turns to a space, and rows without a label
\* are taken for rows of the historic one.
Sync(model) ==
  /\ space' = model
  /\ rows' = [i \in DOMAIN rows |-> IF rows[i].label = None
                                    THEN [rows[i] EXCEPT !.label = Historic] ELSE rows[i]]

\* runtime.configure, or embeddings.prepare once the model is downloaded.
Adopt(model) ==
  /\ Act /\ active' = model /\ Sync(model)
  /\ UNCHANGED <<episodes, lastId, tasks, offered, disowned>>

\* embeddings.prepare of a model that is installed: the store is not told.
AdoptInstalled(model) ==
  /\ Act /\ active' = model
  /\ UNCHANGED <<episodes, rows, lastId, space, tasks, offered, disowned>>

\* embeddings.set_default tells the host before it tells the store.
SetDefault(k, model) ==
  /\ At(k, "idle") /\ Act
  /\ active' = model
  /\ Goto(k, [Idle EXCEPT !.pc = "swapping"])
  /\ UNCHANGED <<episodes, rows, lastId, space, offered, disowned>>

Swap(k) ==
  /\ At(k, "swapping")
  /\ Sync(active) /\ Goto(k, Idle)
  /\ UNCHANGED <<episodes, lastId, active, acts, offered, disowned>>

-----------------------------------------------------------------------------
(* Stops and restarts *)

\* chat.stop ends what awaits an LLM, embeddings.cancel what awaits a model that
\* is being downloaded.
Stop(k) ==
  /\ Act /\ tasks[k].pc \in {"asking", "embedding", "merging", "noting"}
  /\ Goto(k, Idle)
  /\ UNCHANGED <<episodes, rows, lastId, active, space, offered, disowned>>

\* The process dies; the next one is configured anew.
Restart ==
  /\ Act /\ tasks' = [k \in Tasks |-> Idle]
  /\ \E model \in Models : active' = model /\ Sync(model)
  /\ UNCHANGED <<episodes, lastId, offered, disowned>>

-----------------------------------------------------------------------------
Learn(k) ==
  \/ Analyze(k) \/ AnalyzeAgain(k) \/ Extract(k) \/ Drop(k) \/ Teach(k) \/ Told(k)
  \/ EmbedFails(k) \/ ConsolidateNow(k) \/ Bear(k) \/ BearFails(k) \/ File(k)
  \/ Hear(k) \/ Note(k) \/ Stop(k)

TheHost ==
  \/ Create \/ Purge \/ Restart
  \/ \E i \in DOMAIN rows : Edit(i) \/ Delete(i)
  \/ \E model \in Models :
       \/ Adopt(model) \/ AdoptInstalled(model)
       \/ \E k \in Tasks : SetDefault(k, model)

Next ==
  \/ \E m \in Missions : Save(m)
  \/ \E k \in Tasks : Learn(k) \/ Swap(k)
  \/ TheHost

Spec == Init /\ [][Next]_vars

-----------------------------------------------------------------------------
\* The values the variables take.  No id is given twice: those of the rows
\* never exceed the last one drawn.
TypeOK ==
  /\ episodes \in [Missions -> {"unborn", "waiting", "analyzed", "gone"}]
  /\ lastId \in 0 .. MaxRows
  /\ DOMAIN rows \subseteq 1 .. lastId /\ \A i \in DOMAIN rows : rows[i] \in Row
  /\ {active, space} \subseteq Models
  /\ \A k \in Tasks : /\ tasks[k].todo \subseteq Missions
                      /\ tasks[k].groups \subseteq Subjects
                      /\ tasks[k].vector \in Models \cup {None}
  /\ disowned \subseteq Subjects /\ acts \in 0 .. MaxActs

\* An episode is marked as analysed only when everything it teaches has been
\* offered to the store, whatever stopped, failed, overlapped or died on the
\* way (Learner.analyze_all_episodes, mark_analyzed after analyze_episode).
AnalyzedMeansTaught ==
  \A m \in Missions :
    episodes[m] = "analyzed" => \A n \in 1 .. Len(Teaches[m]) : <<m, n>> \in offered

\* No raw lesson is put aside for nothing: one that is filed has an heir that
\* speaks for its subject, unless the host has had a hand in it
\* (EntityLearner._consolidate_group, "Classer sans effacer").
FiledLessonsHaveHeirs ==
  \A i \in DOMAIN rows :
    rows[i].filed =>
      \/ rows[i].subject \in disowned
      \/ \E h \in DOMAIN rows : rows[h].heir /\ rows[h].subject = rows[i].subject

\* No vector outside its space: each row bears the name of the model that made
\* its vector (LessonStore, "R6 : pas de mélange").
VectorsKeepTheirSpace ==
  \A i \in DOMAIN rows : rows[i].vector \in {None, rows[i].label}
==============================================================================
