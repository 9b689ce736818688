---------------------------- MODULE LessonsProofs ----------------------------
(***************************************************************************)
(* What holds of the lessons for any missions, tasks, rows and models.  The *)
(* invariant says of a task what the loop cannot see of it: how much of its  *)
(* episode has been offered, and that a group it is about to file has its    *)
(* heir.  Both are claims about shared state (the history of the offers, the *)
(* table) and last because no step takes an offer or an heir away, unless    *)
(* the host's hand is remembered.                                            *)
(***************************************************************************)
EXTENDS Lessons, TLAPS

Lesson == [subject : Subjects, text : Texts, polarity : Polarities, evidence : 1 .. MinEvidence]

Task == [pc : {"idle", "asking", "embedding", "told", "merging", "filing", "noting", "swapping"},
         todo : SUBSET Missions, mission : Missions \cup {None}, n : Nat,
         lesson : Lesson \cup {None}, vector : Models \cup {None}, groups : SUBSET Subjects]

\* Somebody speaks for the subject, or the host has had a hand in it.
HasHeir(s) == s \in disowned \/ \E h \in DOMAIN rows : rows[h].heir /\ rows[h].subject = s

\* What is offered of the episode a task is at.
OfferedUpTo(m, n) == \A j \in 1 .. n : <<m, j>> \in offered

Sound(r) ==
  /\ r \in Task
  /\ r.pc \in {"asking", "embedding", "told"} =>
       /\ r.mission \in Missions /\ r.n \in 1 .. Len(Teaches[r.mission])
       /\ OfferedUpTo(r.mission, r.n - 1)
       /\ r.pc = "told" => <<r.mission, r.n>> \in offered
  /\ r.pc \in {"embedding", "merging", "filing", "noting"} => r.lesson \in Lesson
  /\ r.pc = "filing" => HasHeir(r.lesson.subject)

EpisodesOK == episodes \in [Missions -> {"unborn", "waiting", "analyzed", "gone"}]
RowsOK == /\ lastId \in 0 .. MaxRows
          /\ DOMAIN rows \subseteq 1 .. lastId /\ \A i \in DOMAIN rows : rows[i] \in Row
SpaceOK == {active, space} \subseteq Models /\ acts \in 0 .. MaxActs
TasksOK == tasks \in [Tasks -> Task] /\ \A k \in Tasks : Sound(tasks[k])

Inv == /\ EpisodesOK /\ RowsOK /\ SpaceOK /\ disowned \subseteq Subjects
       /\ TasksOK /\ AnalyzedMeansTaught /\ FiledLessonsHaveHeirs

-----------------------------------------------------------------------------
(* The constants and the table.                                              *)

LEMMA Bounds ==
  /\ MinEvidence \in Nat /\ MinEvidence > 0 /\ MaxRows \in Nat /\ MaxActs \in Nat
  /\ Fallback \in Models /\ Historic \in Models /\ Facts \subseteq Subjects
  /\ \A m \in Missions : /\ Teaches[m] \in Seq(Polarities)
                         /\ Len(Teaches[m]) \in Nat /\ Len(Teaches[m]) >= 1
<1>1. \A m \in Missions : Teaches[m] \in Seq(Polarities) /\ Teaches[m] # << >>
  BY LearningBounds
<1>2. ASSUME NEW m \in Missions PROVE Len(Teaches[m]) \in Nat /\ Len(Teaches[m]) >= 1
  BY <1>1
<1> QED
  BY <1>1, <1>2, LearningBounds

\* The table stays a table, no heir is lost and no row is filed without one.
RowsStep == /\ RowsOK' /\ FiledLessonsHaveHeirs'
            /\ \A s \in Subjects : HasHeir(s) => HasHeir(s)'

\* Rows that keep their ids and their heirs, of which none is filed anew without
\* one and none leaves its subject, but those the host has had a hand in.
LEMMA TableKept ==
  ASSUME Inv, disowned \subseteq disowned', UNCHANGED lastId,
         DOMAIN rows' = DOMAIN rows,
         \A i \in DOMAIN rows :
           /\ rows'[i] \in Row /\ rows'[i].heir = rows[i].heir
           /\ \/ {rows[i].subject, rows'[i].subject} \subseteq disowned'
              \/ /\ rows'[i].subject = rows[i].subject
                 /\ rows'[i].filed /\ ~rows[i].filed => HasHeir(rows[i].subject)'
  PROVE  RowsStep
<1>1. RowsOK'
  BY DEF Inv, RowsOK
<1>2. ASSUME NEW s \in Subjects, HasHeir(s) PROVE HasHeir(s)'
  BY <1>2 DEF HasHeir
<1>3. ASSUME NEW i \in DOMAIN rows, rows'[i].filed
      PROVE  \/ rows'[i].subject \in disowned'
             \/ \E h \in DOMAIN rows' : rows'[h].heir /\ rows'[h].subject = rows'[i].subject
  <2>1. CASE rows'[i].subject # rows[i].subject \/ ~rows[i].filed
    BY <1>3, <2>1 DEF HasHeir
  <2>2. CASE rows'[i].subject = rows[i].subject /\ rows[i].filed
    <3>1. HasHeir(rows[i].subject) /\ rows[i].subject \in Subjects
      BY <2>2 DEF HasHeir, Inv, FiledLessonsHaveHeirs, RowsOK, Row
    <3>2. HasHeir(rows[i].subject)'
          <=> \/ rows'[i].subject \in disowned'
              \/ \E h \in DOMAIN rows' : rows'[h].heir /\ rows'[h].subject = rows'[i].subject
      BY DEF HasHeir
    <3> QED
      BY <3>1 DEF HasHeir
  <2> QED
    BY <2>1, <2>2
<1>4. FiledLessonsHaveHeirs'
  BY <1>3 DEF FiledLessonsHaveHeirs
<1> QED
  BY <1>1, <1>2, <1>4 DEF RowsStep

LEMMA TableUntouched ==
  ASSUME Inv, disowned \subseteq disowned', UNCHANGED <<rows, lastId>>
  PROVE  RowsStep
BY TableKept DEF Inv, RowsOK

\* A row is added under an id of its own.
LEMMA TableGrows ==
  ASSUME Inv, UNCHANGED disowned, NEW row \in Row, row.filed => row.heir, Insert(row)
  PROVE  RowsStep /\ (row.heir => HasHeir(row.subject)')
<1>1. lastId \in Nat /\ lastId' = lastId + 1 /\ lastId < MaxRows /\ MaxRows \in Nat
  BY Bounds DEF Insert, Inv, RowsOK
<1>2. /\ DOMAIN rows' = DOMAIN rows \cup {lastId'}
      /\ rows'[lastId'] = row /\ \A i \in DOMAIN rows : i # lastId' => rows'[i] = rows[i]
  BY DEF Insert
<1>3. lastId' \notin DOMAIN rows
  BY <1>1 DEF Inv, RowsOK
<1>4. \A i \in DOMAIN rows : rows'[i] = rows[i] /\ i \in DOMAIN rows'
  BY <1>2, <1>3
<1>5. RowsOK'
  BY <1>1, <1>2, <1>4 DEF Inv, RowsOK
<1>6. \A s \in Subjects : HasHeir(s) => HasHeir(s)'
  BY <1>4 DEF HasHeir
<1>7. row.heir => HasHeir(row.subject)'
  BY <1>2 DEF HasHeir
<1>8. ASSUME NEW i \in DOMAIN rows', rows'[i].filed
      PROVE  \/ rows'[i].subject \in disowned'
             \/ \E h \in DOMAIN rows' : rows'[h].heir /\ rows'[h].subject = rows'[i].subject
  BY <1>2, <1>4, <1>8 DEF Inv, FiledLessonsHaveHeirs
<1>9. FiledLessonsHaveHeirs'
  BY <1>8 DEF FiledLessonsHaveHeirs
<1> QED
  BY <1>5, <1>6, <1>7, <1>9 DEF RowsStep

LEMMA BornIsRow ==
  ASSUME Inv, NEW lesson \in Lesson, NEW vector \in Models \cup {None}
  PROVE  /\ Born(lesson, vector) \in Row
         /\ ~Born(lesson, vector).filed /\ Born(lesson, vector).subject = lesson.subject
         /\ [Born(lesson, vector) EXCEPT !.filed = TRUE, !.heir = TRUE] \in Row
         /\ [Born(lesson, vector) EXCEPT !.filed = TRUE, !.heir = TRUE].subject = lesson.subject
         /\ [Born(lesson, vector) EXCEPT !.filed = TRUE, !.heir = TRUE].heir
<1>1. space \in Models
  BY DEF Inv, SpaceOK
<1>2. /\ lesson.subject \in Subjects /\ lesson.text \in Texts
      /\ lesson.polarity \in Polarities /\ lesson.evidence \in 0 .. MinEvidence
  BY Bounds DEF Lesson
<1> QED
  BY <1>1, <1>2 DEF Born, Row

\* What reaches the store reinforces a row, adds one or is refused.
LEMMA TableTaught ==
  ASSUME Inv, UNCHANGED disowned, NEW lesson \in Lesson, NEW vector \in Models \cup {None},
         Upsert(lesson, vector)
  PROVE  RowsStep
<1>1. CASE UNCHANGED <<rows, lastId>>
  BY <1>1, TableUntouched
<1>2. CASE Insert(Born(lesson, vector))
  <2>1. Born(lesson, vector) \in Row /\ ~Born(lesson, vector).filed
    BY BornIsRow
  <2> QED
    BY <1>2, <2>1, TableGrows
<1>3. ASSUME NEW e, rows' = [rows EXCEPT ![e].evidence = Enough(@ + 1)], UNCHANGED lastId
      PROVE  RowsStep
  <2>1. DOMAIN rows' = DOMAIN rows
    BY <1>3
  <2>2. ASSUME NEW i \in DOMAIN rows
        PROVE  /\ rows'[i] \in Row
               /\ rows'[i].subject = rows[i].subject
               /\ rows'[i].heir = rows[i].heir /\ rows'[i].filed = rows[i].filed
    <3>1. rows[i] \in Row /\ rows[i].evidence \in 0 .. MinEvidence
      BY DEF Inv, RowsOK, Row
    <3>2. Enough(rows[i].evidence + 1) \in 0 .. MinEvidence
      BY <3>1, Bounds DEF Enough
    <3>3. rows'[i] = rows[i] \/ rows'[i] = [rows[i] EXCEPT !.evidence = Enough(rows[i].evidence + 1)]
      BY <1>3
    <3> QED
      BY <3>1, <3>2, <3>3 DEF Row
  <2> QED
    BY <1>3, <2>1, <2>2, TableKept
<1> QED
  BY <1>1, <1>2, <1>3 DEF Upsert

\* The rows without a label get one.
LEMMA TableSynced ==
  ASSUME Inv, UNCHANGED <<disowned, lastId>>, NEW model \in Models, Sync(model)
  PROVE  RowsStep
<1>1. DOMAIN rows' = DOMAIN rows
  BY DEF Sync
<1>2. ASSUME NEW i \in DOMAIN rows
      PROVE  /\ rows'[i] \in Row
             /\ rows'[i].subject = rows[i].subject
             /\ rows'[i].heir = rows[i].heir /\ rows'[i].filed = rows[i].filed
  <2>1. rows[i] \in Row /\ Historic \in Models
    BY Bounds DEF Inv, RowsOK
  <2>2. rows'[i] = rows[i] \/ rows'[i] = [rows[i] EXCEPT !.label = Historic]
    BY DEF Sync
  <2> QED
    BY <2>1, <2>2 DEF Row
<1> QED
  BY <1>1, <1>2, TableKept

-----------------------------------------------------------------------------
(* The tasks.                                                                *)

\* What the store has of an episode stays, and so do the heirs: a task that is
\* not stepping stays sound.
LEMMA SoundLasts ==
  ASSUME Inv, RowsStep, offered \subseteq offered', NEW r, Sound(r)
  PROVE  Sound(r)'
<1>1. \A s \in Subjects : HasHeir(s) => HasHeir(s)'
  BY DEF RowsStep
<1>2. r.pc = "filing" => r.lesson.subject \in Subjects
  BY DEF Sound, Lesson
<1> QED
  BY <1>1, <1>2 DEF Sound, OfferedUpTo

\* A task that turns to something sound.
LEMMA Turned ==
  ASSUME Inv, RowsStep, offered \subseteq offered', NEW k \in Tasks,
         \/ UNCHANGED tasks
         \/ \E r \in Task : Goto(k, r) /\ Sound(r)'
  PROVE  TasksOK'
<1>1. ASSUME NEW j \in Tasks PROVE Sound(tasks[j])'
  <2>1. CASE tasks'[j] = tasks[j]
    <3>1. PICK r : r = tasks[j]
      OBVIOUS
    <3>2. Sound(r)'
      BY <3>1, SoundLasts DEF Inv, TasksOK
    <3> QED
      BY <2>1, <3>1, <3>2 DEF Sound, OfferedUpTo, HasHeir
  <2>2. CASE tasks'[j] # tasks[j]
    <3>1. PICK r \in Task : Goto(k, r) /\ Sound(r)'
      BY <2>2
    <3>2. tasks'[j] = r
      BY <2>2, <3>1 DEF Goto, Inv, TasksOK
    <3> QED
      BY <3>1, <3>2 DEF Sound, OfferedUpTo, HasHeir
  <2> QED
    BY <2>1, <2>2
<1>2. tasks' \in [Tasks -> Task]
  BY DEF Goto, Inv, TasksOK
<1> QED
  BY <1>1, <1>2 DEF TasksOK

\* A task that awaits nothing is sound.
LEMMA IdleIsSound == Idle \in Task /\ Sound(Idle)'
BY DEF Idle, Task, Sound

\* The first group that keeps its evidence, or none.
LEMMA Consolidating ==
  ASSUME Inv, NEW k \in Tasks, NEW groups \in SUBSET Subjects, Consolidate(k, groups)
  PROVE  \E r \in Task : Goto(k, r) /\ Sound(r)'
<1>1. CASE groups \cap Groups = {}
  BY <1>1, IdleIsSound DEF Consolidate
<1>2. CASE groups \cap Groups # {}
  <2> DEFINE live == groups \cap Groups
             Merge(s, best, vector) ==
               [Idle EXCEPT !.pc = "merging", !.groups = live \ {s}, !.vector = vector,
                  !.lesson = [subject |-> s, text |-> rows[best].text,
                              polarity |-> rows[best].polarity,
                              evidence |-> Enough(Evidence(s))]]
  <2>0. PICK s \in live, vector \in Embeddings :
          \E best \in Raw(s) : Goto(k, Merge(s, best, vector))
    BY <1>2 DEF Consolidate
  <2>1. PICK best \in Raw(s) : Goto(k, Merge(s, best, vector))
    BY <2>0
  <2>2. rows[best] \in Row
    BY DEF Raw, Inv, RowsOK
  <2>3. Enough(Evidence(s)) \in 1 .. MinEvidence
    BY Bounds DEF Enough, Groups
  <2>4. vector \in Models \cup {None}
    BY Bounds DEF Embeddings, Inv, SpaceOK
  <2>5. s \in Subjects
    OBVIOUS
  <2>6. Merge(s, best, vector).lesson \in Lesson
    BY <2>2, <2>3, <2>5 DEF Lesson, Row, Idle
  <2>7. Merge(s, best, vector) \in Task /\ Merge(s, best, vector).pc = "merging"
    BY <2>4, <2>6 DEF Idle, Task
  <2>8. PICK r : r = Merge(s, best, vector)
    OBVIOUS
  <2>9. Goto(k, r) /\ r \in Task /\ r.pc = "merging" /\ r.lesson \in Lesson
    BY <2>1, <2>6, <2>7, <2>8
  <2>10. Sound(r)'
    BY <2>9 DEF Sound
  <2> QED
    BY <2>9, <2>10
<1> QED
  BY <1>1, <1>2

\* The first lesson of an episode, of which nothing need be offered yet.
LEMMA GoingOn ==
  ASSUME Inv, NEW k \in Tasks, NEW todo \in SUBSET Missions, Onward(k, todo)
  PROVE  \E r \in Task : Goto(k, r) /\ Sound(r)'
<1>1. CASE todo = {}
  BY <1>1, Consolidating DEF Onward, Groups
<1>2. CASE todo # {}
  <2>1. PICK m \in todo : Goto(k, Ask([Idle EXCEPT !.todo = todo \ {m}], m, 1))
    BY <1>2 DEF Onward
  <2> DEFINE r == Ask([Idle EXCEPT !.todo = todo \ {m}], m, 1)
  <2>2. r \in Task /\ r.pc = "asking" /\ r.mission = m /\ r.n = 1
    BY DEF Ask, Idle, Task
  <2>3. 1 \in 1 .. Len(Teaches[m]) /\ 1 .. 1 - 1 = {}
    BY Bounds
  <2>4. Sound(r)'
    BY <2>2, <2>3 DEF Sound, OfferedUpTo
  <2> QED
    BY <2>1, <2>2, <2>4
<1> QED
  BY <1>1, <1>2

\* The next lesson of the episode, or what comes after the last one.
LEMMA Continuing ==
  ASSUME Inv, RowsStep, offered \subseteq offered', NEW k \in Tasks, NextLesson(k),
         tasks[k].pc \in {"asking", "told"},
         <<tasks[k].mission, tasks[k].n>> \in offered'
  PROVE  /\ \E r \in Task : Goto(k, r) /\ Sound(r)'
         /\ EpisodesOK'
         /\ AnalyzedMeansTaught'
<1> PICK r : r = tasks[k]
  OBVIOUS
<1>1. /\ r \in Task /\ r.mission \in Missions /\ r.n \in 1 .. Len(Teaches[r.mission])
      /\ \A j \in 1 .. r.n - 1 : <<r.mission, j>> \in offered
  BY DEF Inv, TasksOK, Sound, OfferedUpTo
<1>2. Len(Teaches[r.mission]) \in Nat /\ r.n \in Nat
  BY <1>1, Bounds
<1>3. \A j \in 1 .. r.n : <<r.mission, j>> \in offered'
  BY <1>1, <1>2
<1>4. CASE r.n < Len(Teaches[r.mission])
  <2> DEFINE next == Ask(r, r.mission, r.n + 1)
  <2>1. Goto(k, next) /\ UNCHANGED episodes
    BY <1>4 DEF NextLesson
  <2>2. /\ next \in Task /\ next.pc = "asking" /\ next.mission = r.mission /\ next.n = r.n + 1
    <3>1. r.n + 1 \in Nat
      BY <1>2
    <3>2. \A x \in Missions, y \in Nat : Ask(r, x, y) \in Task
      BY <1>1 DEF Ask, Task
    <3>3. next.pc = "asking" /\ next.mission = r.mission /\ next.n = r.n + 1
      BY <1>1 DEF Ask, Task
    <3> QED
      BY <1>1, <3>1, <3>2, <3>3
  <2>3. Sound(next)'
    BY <1>1, <1>2, <1>3, <1>4, <2>2 DEF Sound, OfferedUpTo
  <2> QED
    BY <2>1, <2>2, <2>3 DEF Inv, EpisodesOK, AnalyzedMeansTaught
<1>5. CASE ~(r.n < Len(Teaches[r.mission]))
  <2>1. Mark(r.mission) /\ Onward(k, r.todo)
    BY <1>5 DEF NextLesson
  <2>2. r.todo \in SUBSET Missions
    BY <1>1 DEF Task
  <2>3. \E next \in Task : Goto(k, next) /\ Sound(next)'
    BY <2>1, <2>2, GoingOn
  <2>4. r.n = Len(Teaches[r.mission])
    BY <1>1, <1>2, <1>5
  <2>5. EpisodesOK' /\ \A m \in Missions : m # r.mission => episodes'[m] = episodes[m]
    BY <2>1 DEF Mark, Inv, EpisodesOK
  <2>6. AnalyzedMeansTaught'
    BY <1>3, <2>4, <2>5 DEF Inv, AnalyzedMeansTaught
  <2> QED
    BY <2>3, <2>5, <2>6
<1> QED
  BY <1>4, <1>5

-----------------------------------------------------------------------------
(* The steps.                                                                *)

\* A step that keeps the table, turns one task at most to something sound and
\* marks nothing.
LEMMA PlainStep ==
  ASSUME Inv, RowsStep, offered \subseteq offered', SpaceOK', disowned' \subseteq Subjects,
         EpisodesOK', \A m \in Missions : episodes'[m] = "analyzed" => episodes[m] = "analyzed",
         NEW k \in Tasks,
         UNCHANGED tasks \/ \E r \in Task : Goto(k, r) /\ Sound(r)'
  PROVE  Inv'
<1>1. TasksOK'
  BY Turned
<1>2. AnalyzedMeansTaught'
  BY DEF Inv, AnalyzedMeansTaught
<1> QED
  BY <1>1, <1>2 DEF Inv, RowsStep

\* The same without a task.
LEMMA HostsStep ==
  ASSUME Inv, RowsStep, UNCHANGED <<tasks, offered>>, SpaceOK', disowned' \subseteq Subjects,
         EpisodesOK', \A m \in Missions : episodes'[m] = "analyzed" => episodes[m] = "analyzed"
  PROVE  Inv'
<1>1. TasksOK'
  <2>1. \A k \in Tasks : Sound(tasks[k])'
    <3> SUFFICES ASSUME NEW k \in Tasks PROVE Sound(tasks[k])'
      OBVIOUS
    <3>1. PICK r : r = tasks[k]
      OBVIOUS
    <3>2. Sound(r)'
      BY <3>1, SoundLasts DEF Inv, TasksOK
    <3> QED
      BY <3>1, <3>2 DEF Sound, OfferedUpTo, HasHeir
  <2> QED
    BY <2>1 DEF Inv, TasksOK
<1>2. AnalyzedMeansTaught'
  BY DEF Inv, AnalyzedMeansTaught
<1> QED
  BY <1>1, <1>2 DEF Inv, RowsStep

LEMMA Acting == Inv /\ Act => acts' \in 0 .. MaxActs
BY Bounds DEF Act, Inv, SpaceOK

\* Episodes are saved and analysed.
LEMMA AnalysisStep ==
  ASSUME Inv, NEW k \in Tasks, Analyze(k) \/ AnalyzeAgain(k)
  PROVE  Inv'
<1>1. UNCHANGED <<rows, lastId, active, space, offered, disowned>>
  BY DEF Analyze, AnalyzeAgain
<1>2. RowsStep
  BY <1>1, TableUntouched
<1>3. PICK todo \in SUBSET Missions : Onward(k, todo)
  BY DEF Analyze, AnalyzeAgain, Saved
<1>4. SpaceOK'
  BY <1>1, Acting DEF Analyze, AnalyzeAgain, Inv, SpaceOK
<1>5. EpisodesOK' /\ \A m \in Missions : episodes'[m] = "analyzed" => episodes[m] = "analyzed"
  BY DEF Analyze, AnalyzeAgain, Inv, EpisodesOK, Saved
<1>6. \E r \in Task : Goto(k, r) /\ Sound(r)'
  BY <1>3, GoingOn
<1> QED
  BY <1>1, <1>2, <1>4, <1>5, <1>6, PlainStep DEF Inv

\* A mission is saved.
LEMMA SaveStep ==
  ASSUME Inv, NEW m \in Missions, Save(m)
  PROVE  Inv'
<1>1. UNCHANGED <<rows, lastId, active, space, tasks, acts, offered, disowned>>
  BY DEF Save
<1>2. RowsStep
  BY <1>1, TableUntouched
<1>3. EpisodesOK' /\ \A x \in Missions : episodes'[x] = "analyzed" => episodes[x] = "analyzed"
  BY DEF Save, Inv, EpisodesOK
<1> QED
  BY <1>1, <1>2, <1>3, HostsStep DEF Inv, SpaceOK

LEMMA Vectors == Inv => Embeddings \subseteq Models \cup {None}
BY Bounds DEF Embeddings, Inv, SpaceOK

\* A task that leaves the episodes, the offers and the table alone.
LEMMA WaitingStep ==
  ASSUME Inv, NEW k \in Tasks,
         \/ Extract(k) \/ EmbedFails(k) \/ ConsolidateNow(k) \/ BearFails(k) \/ Hear(k) \/ Stop(k)
  PROVE  Inv'
<1>1. UNCHANGED <<episodes, rows, lastId, active, space, offered, disowned>>
  BY DEF Extract, EmbedFails, ConsolidateNow, BearFails, Hear, Stop
<1>2. RowsStep
  BY <1>1, TableUntouched
<1>3. SpaceOK'
  BY <1>1, Acting
  DEF Extract, EmbedFails, ConsolidateNow, BearFails, Hear, Stop, Inv, SpaceOK
<1>4. Sound(tasks[k]) /\ tasks[k] \in Task
  BY DEF Inv, TasksOK
<1>5. \E r \in Task : Goto(k, r) /\ Sound(r)'
  <2>1. CASE EmbedFails(k)
    <3>1. tasks[k].todo \in SUBSET Missions /\ Onward(k, tasks[k].todo)
      BY <1>4, <2>1 DEF EmbedFails, Task
    <3> QED
      BY <3>1, GoingOn
  <2>2. CASE ConsolidateNow(k) \/ BearFails(k)
    <3>1. PICK groups \in SUBSET Subjects : Consolidate(k, groups)
      BY <1>4, <2>2 DEF ConsolidateNow, BearFails, Task, Groups
    <3> QED
      BY <3>1, Consolidating
  <2>3. CASE Stop(k)
    BY <2>3, IdleIsSound DEF Stop
  <2>4. CASE Hear(k)
    <3> DEFINE Hearing(s, x, v) ==
                 [Idle EXCEPT !.pc = "noting", !.vector = v,
                    !.lesson = [subject |-> s, text |-> x, polarity |-> "prefer", evidence |-> 1]]
    <3>1. PICK s \in Facts, x \in Texts, v \in Embeddings : Goto(k, Hearing(s, x, v))
      BY <2>4 DEF Hear
    <3>2. s \in Subjects /\ v \in Models \cup {None} /\ 1 \in 1 .. MinEvidence
      BY Bounds, Vectors
    <3>3. Hearing(s, x, v).lesson \in Lesson
      BY <3>2 DEF Idle, Lesson, Polarities
    <3>4. Hearing(s, x, v) \in Task /\ Hearing(s, x, v).pc = "noting"
      BY <3>2, <3>3 DEF Idle, Task
    <3>5. Sound(Hearing(s, x, v))'
      BY <3>3, <3>4 DEF Sound
    <3> QED
      BY <3>1, <3>4, <3>5
  <2>5. CASE Extract(k)
    <3> PICK r : r = tasks[k]
      OBVIOUS
    <3> DEFINE Extracted(s, x, v) ==
                 [r EXCEPT !.pc = "embedding", !.vector = v,
                    !.lesson = [subject |-> s, text |-> x, evidence |-> 1,
                                polarity |-> Teaches[r.mission][r.n]]]
    <3>1. r.pc = "asking" /\ r \in Task /\ Sound(r)
      BY <1>4, <2>5 DEF Extract, At
    <3>2. PICK s \in Subjects \ Facts, x \in Texts, v \in Embeddings : Goto(k, Extracted(s, x, v))
      BY <2>5 DEF Extract
    <3>3. r.mission \in Missions /\ r.n \in 1 .. Len(Teaches[r.mission]) /\ OfferedUpTo(r.mission, r.n - 1)
      BY <3>1 DEF Sound
    <3>4. Teaches[r.mission][r.n] \in Polarities /\ 1 \in 1 .. MinEvidence /\ v \in Models \cup {None}
      BY <3>3, Bounds, Vectors
    <3>5. \A y \in Lesson : [r EXCEPT !.pc = "embedding", !.vector = v, !.lesson = y] \in Task
      BY <3>1, <3>4 DEF Task
    <3>6. [subject |-> s, text |-> x, evidence |-> 1, polarity |-> Teaches[r.mission][r.n]] \in Lesson
      BY <3>4 DEF Lesson
    <3>7. /\ Extracted(s, x, v) \in Task /\ Extracted(s, x, v).lesson \in Lesson
          /\ Extracted(s, x, v).pc = "embedding"
          /\ Extracted(s, x, v).mission = r.mission /\ Extracted(s, x, v).n = r.n
      <4>1. Extracted(s, x, v) \in Task
        BY <3>5, <3>6
      <4> QED
        BY <3>1, <3>6, <4>1 DEF Task
    <3>8. Sound(Extracted(s, x, v))'
      BY <1>1, <3>3, <3>7 DEF Sound, OfferedUpTo
    <3> QED
      BY <3>2, <3>7, <3>8
  <2> QED
    BY <2>1, <2>2, <2>3, <2>4, <2>5
<1> QED
  BY <1>1, <1>2, <1>3, <1>5, PlainStep DEF Inv, EpisodesOK

\* A lesson is dropped or has been stored, and the episode goes on.
LEMMA LessonStep ==
  ASSUME Inv, NEW k \in Tasks, Drop(k) \/ Told(k)
  PROVE  Inv'
<1>1. UNCHANGED <<rows, lastId, active, space, acts, disowned>>
  BY DEF Drop, Told
<1>2. RowsStep
  BY <1>1, TableUntouched
<1>3. /\ offered \subseteq offered' /\ NextLesson(k) /\ tasks[k].pc \in {"asking", "told"}
      /\ <<tasks[k].mission, tasks[k].n>> \in offered'
  BY DEF Drop, Told, At, Inv, TasksOK, Sound
<1>4. /\ \E r \in Task : Goto(k, r) /\ Sound(r)'
      /\ EpisodesOK' /\ AnalyzedMeansTaught'
  BY <1>2, <1>3, Continuing
<1>5. TasksOK'
  BY <1>2, <1>3, <1>4, Turned
<1> QED
  BY <1>1, <1>2, <1>4, <1>5 DEF Inv, RowsStep, SpaceOK

\* A lesson of an analysis, or a fact, reaches the store.
LEMMA TeachStep ==
  ASSUME Inv, NEW k \in Tasks, Teach(k) \/ Note(k)
  PROVE  Inv'
<1> PICK r : r = tasks[k]
  OBVIOUS
<1>1. r \in Task /\ Sound(r) /\ r.lesson \in Lesson /\ r.vector \in Models \cup {None}
  BY DEF Inv, TasksOK, Sound, Teach, Note, At, Task
<1>2. UNCHANGED <<episodes, active, space, acts, disowned>> /\ offered \subseteq offered'
  BY DEF Teach, Note
<1>3. RowsStep
  BY <1>1, <1>2, TableTaught DEF Teach, Note
<1>4. \E next \in Task : Goto(k, next) /\ Sound(next)'
  <2>1. CASE Note(k)
    BY <2>1, IdleIsSound DEF Note
  <2>2. CASE Teach(k)
    <3> DEFINE next == [r EXCEPT !.pc = "told", !.lesson = None, !.vector = None]
    <3>1. Goto(k, next) /\ offered' = offered \cup {<<r.mission, r.n>>} /\ r.pc = "embedding"
      BY <2>2 DEF Teach, At
    <3>2. next \in Task /\ next.pc = "told" /\ next.mission = r.mission /\ next.n = r.n
      BY <1>1 DEF Task
    <3>3. r.mission \in Missions /\ r.n \in 1 .. Len(Teaches[r.mission]) /\ OfferedUpTo(r.mission, r.n - 1)
      BY <1>1, <3>1 DEF Sound
    <3>4. Sound(next)'
      BY <3>1, <3>2, <3>3 DEF Sound, OfferedUpTo
    <3> QED
      BY <3>1, <3>2, <3>4
  <2> QED
    BY <2>1, <2>2
<1>5. SpaceOK' /\ EpisodesOK' /\ disowned' \subseteq Subjects
  BY <1>2 DEF Inv, SpaceOK, EpisodesOK
<1>6. \A m \in Missions : episodes'[m] = "analyzed" => episodes[m] = "analyzed"
  BY <1>2
<1> QED
  BY <1>2, <1>3, <1>4, <1>5, <1>6, PlainStep

\* The heir of a group is inserted: from here on its sources may be filed.
LEMMA HeirStep ==
  ASSUME Inv, NEW k \in Tasks, Bear(k)
  PROVE  Inv'
<1> PICK r : r = tasks[k]
  OBVIOUS
<1> PICK row : row = [Born(r.lesson, r.vector) EXCEPT !.filed = TRUE, !.heir = TRUE]
  OBVIOUS
<1>1. r \in Task /\ r.lesson \in Lesson /\ r.vector \in Models \cup {None}
  BY DEF Inv, TasksOK, Sound, Bear, At, Task
<1>2. UNCHANGED <<episodes, active, space, acts, offered, disowned>> /\ Insert(row)
  BY DEF Bear
<1>3. row \in Row /\ row.heir /\ row.subject = r.lesson.subject
  BY <1>1, BornIsRow
<1>4. RowsStep /\ HasHeir(r.lesson.subject)'
  BY <1>2, <1>3, TableGrows
<1>5. \E next \in Task : Goto(k, next) /\ Sound(next)'
  <2> DEFINE next == [r EXCEPT !.pc = "filing", !.vector = None]
  <2>1. Goto(k, next)
    BY DEF Bear
  <2>2. next \in Task /\ next.pc = "filing" /\ next.lesson = r.lesson
    BY <1>1 DEF Task
  <2>3. Sound(next)'
    BY <1>1, <1>4, <2>2 DEF Sound, HasHeir
  <2> QED
    BY <2>1, <2>2, <2>3
<1>6. SpaceOK' /\ EpisodesOK' /\ disowned' \subseteq Subjects
  BY <1>2 DEF Inv, SpaceOK, EpisodesOK
<1> QED
  BY <1>2, <1>4, <1>5, <1>6, PlainStep

\* The rows that are raw by now are filed: their subject has its heir.
LEMMA FileStep ==
  ASSUME Inv, NEW k \in Tasks, File(k)
  PROVE  Inv'
<1> PICK s : s = tasks[k].lesson.subject
  OBVIOUS
<1>1. tasks[k] \in Task /\ s \in Subjects /\ HasHeir(s)
  BY DEF Inv, TasksOK, Sound, File, At, Lesson
<1>2. UNCHANGED <<episodes, lastId, active, space, acts, offered, disowned>>
  BY DEF File
<1>3. RowsStep
  <2>1. CASE UNCHANGED rows
    BY <1>2, <2>1, TableUntouched
  <2>2. CASE rows' = [i \in DOMAIN rows |->
                        IF i \in Raw(s) THEN [rows[i] EXCEPT !.filed = TRUE] ELSE rows[i]]
    <3>1. ASSUME NEW i \in DOMAIN rows
          PROVE  /\ rows'[i] \in Row
                 /\ rows'[i].subject = rows[i].subject
                 /\ rows'[i].heir = rows[i].heir
                 /\ rows'[i].filed /\ ~rows[i].filed => rows[i].subject = s
      <4>1. rows[i] \in Row
        BY DEF Inv, RowsOK
      <4>2. \/ rows'[i] = rows[i]
            \/ rows'[i] = [rows[i] EXCEPT !.filed = TRUE] /\ rows[i].subject = s
        BY <2>2 DEF Raw
      <4> QED
        BY <4>1, <4>2 DEF Row
    <3>2. DOMAIN rows' = DOMAIN rows
      BY <2>2
    <3>3. HasHeir(s)'
      BY <1>1, <1>2, <3>1, <3>2 DEF HasHeir
    <3>4. ASSUME NEW i \in DOMAIN rows, rows'[i].filed, ~rows[i].filed
          PROVE  HasHeir(rows[i].subject)'
      <4>1. rows[i].subject = s /\ rows'[i].subject = s
        BY <3>1, <3>4
      <4> QED
        BY <3>3, <4>1 DEF HasHeir
    <3> QED
      BY <1>2, <3>1, <3>2, <3>4, TableKept
  <2> QED
    BY <2>1, <2>2 DEF File
<1>4. \E r \in Task : Goto(k, r) /\ Sound(r)'
  <2>1. tasks[k].groups \in SUBSET Subjects /\ Consolidate(k, tasks[k].groups)
    BY <1>1 DEF File, Task
  <2> QED
    BY <2>1, Consolidating
<1>5. SpaceOK' /\ EpisodesOK' /\ disowned' \subseteq Subjects
  BY <1>2 DEF Inv, SpaceOK, EpisodesOK
<1> QED
  BY <1>2, <1>3, <1>4, <1>5, PlainStep

\* The host writes a row, changes one, deletes one, or purges.
LEMMA CreateStep == Inv /\ Create => Inv'
<1> SUFFICES ASSUME Inv, Create PROVE Inv'
  OBVIOUS
<1>1. UNCHANGED <<episodes, active, space, tasks, offered, disowned>> /\ Act
  BY DEF Create
<1>2. PICK lesson \in Lesson : Insert(Born(lesson, None))
  BY DEF Create, Lesson
<1>3. Born(lesson, None) \in Row /\ ~Born(lesson, None).filed
  BY BornIsRow
<1>4. RowsStep
  BY <1>1, <1>2, <1>3, TableGrows
<1>5. SpaceOK' /\ EpisodesOK' /\ disowned' \subseteq Subjects
  BY <1>1, Acting DEF Inv, SpaceOK, EpisodesOK
<1> QED
  BY <1>1, <1>4, <1>5, HostsStep

\* The subject a row leaves and the one it goes to are disowned.
LEMMA EditStep ==
  ASSUME Inv, NEW i \in DOMAIN rows, Edit(i)
  PROVE  Inv'
<1> PICK s \in Subjects, p \in Polarities, e \in 0 .. MinEvidence,
         alive \in BOOLEAN, done \in BOOLEAN :
      /\ \/ rows' = [rows EXCEPT ![i].subject = s, ![i].polarity = p, ![i].evidence = e,
                                 ![i].active = alive, ![i].filed = done]
         \/ /\ s = rows[i].subject
            /\ \E x \in Texts :
                 rows' = [rows EXCEPT ![i].text = x, ![i].vector = None, ![i].label = None]
      /\ disowned' = disowned \cup {rows[i].subject, s}
  BY DEF Edit
<1>1. UNCHANGED <<episodes, lastId, active, space, tasks, offered>> /\ Act
  BY DEF Edit
<1>2. DOMAIN rows' = DOMAIN rows /\ \A j \in DOMAIN rows \ {i} : rows'[j] = rows[j]
  OBVIOUS
<1>3. \A j \in DOMAIN rows : rows[j] \in Row
  BY DEF Inv, RowsOK
<1>4. rows'[i] \in Row /\ rows'[i].subject = s /\ rows'[i].heir = rows[i].heir
  <2>1. CASE rows' = [rows EXCEPT ![i].subject = s, ![i].polarity = p, ![i].evidence = e,
                                  ![i].active = alive, ![i].filed = done]
    <3>1. rows'[i] = [rows[i] EXCEPT !.subject = s, !.polarity = p, !.evidence = e,
                                     !.active = alive, !.filed = done]
      BY <2>1
    <3> QED
      BY <1>3, <3>1 DEF Row
  <2>2. CASE /\ s = rows[i].subject
             /\ \E x \in Texts :
                  rows' = [rows EXCEPT ![i].text = x, ![i].vector = None, ![i].label = None]
    <3>1. PICK x \in Texts :
            rows' = [rows EXCEPT ![i].text = x, ![i].vector = None, ![i].label = None]
      BY <2>2
    <3>2. rows'[i] = [rows[i] EXCEPT !.text = x, !.vector = None, !.label = None]
      BY <3>1
    <3> QED
      BY <1>3, <2>2, <3>2 DEF Row
  <2> QED
    BY <2>1, <2>2
<1>5. RowsStep
  <2>1. disowned \subseteq disowned' /\ UNCHANGED lastId
    BY <1>1
  <2>2. ASSUME NEW j \in DOMAIN rows
        PROVE  /\ rows'[j] \in Row /\ rows'[j].heir = rows[j].heir
               /\ \/ {rows[j].subject, rows'[j].subject} \subseteq disowned'
                  \/ /\ rows'[j].subject = rows[j].subject
                     /\ rows'[j].filed /\ ~rows[j].filed => HasHeir(rows[j].subject)'
    <3>1. CASE j = i
      BY <1>4, <3>1
    <3>2. CASE j # i
      BY <1>2, <1>3, <3>2
    <3> QED
      BY <3>1, <3>2
  <2> QED
    BY <1>2, <2>1, <2>2, TableKept
<1>6. SpaceOK' /\ EpisodesOK' /\ disowned' \subseteq Subjects
  BY <1>1, <1>3, Acting DEF Inv, SpaceOK, EpisodesOK, Row
<1> QED
  BY <1>1, <1>5, <1>6, HostsStep

\* A row that goes takes no heir from a subject the host has not touched.
LEMMA TableShrinks ==
  ASSUME Inv, UNCHANGED lastId, NEW gone \in SUBSET DOMAIN rows,
         rows' = [i \in DOMAIN rows \ gone |-> rows[i]], Disown(gone)
  PROVE  RowsStep /\ disowned' \subseteq Subjects
<1>1. DOMAIN rows' = DOMAIN rows \ gone /\ \A i \in DOMAIN rows' : rows'[i] = rows[i]
  OBVIOUS
<1>2. disowned \subseteq disowned' /\ \A i \in gone : rows[i].subject \in disowned'
  BY DEF Disown
<1>3. RowsOK'
  BY <1>1 DEF Inv, RowsOK
<1>4. \A s \in Subjects : HasHeir(s) => HasHeir(s)'
  BY <1>1, <1>2 DEF HasHeir
<1>5. ASSUME NEW i \in DOMAIN rows', rows'[i].filed
      PROVE  \/ rows'[i].subject \in disowned'
             \/ \E h \in DOMAIN rows' : rows'[h].heir /\ rows'[h].subject = rows'[i].subject
  BY <1>1, <1>2, <1>5 DEF Inv, FiledLessonsHaveHeirs
<1>6. FiledLessonsHaveHeirs'
  BY <1>5 DEF FiledLessonsHaveHeirs
<1>7. disowned' \subseteq Subjects
  BY DEF Disown, Inv, RowsOK, Row
<1> QED
  BY <1>3, <1>4, <1>6, <1>7 DEF RowsStep

LEMMA DeleteStep ==
  ASSUME Inv, NEW i \in DOMAIN rows, Delete(i)
  PROVE  Inv'
<1>1. UNCHANGED <<episodes, lastId, active, space, tasks, offered>> /\ Act /\ Disown({i})
  BY DEF Delete
<1>2. SpaceOK' /\ EpisodesOK'
  BY <1>1, Acting DEF Inv, SpaceOK, EpisodesOK
<1>3. RowsStep /\ disowned' \subseteq Subjects
  <2>1. CASE rows' = [rows EXCEPT ![i].active = FALSE]
    <3>1. ASSUME NEW j \in DOMAIN rows
          PROVE  /\ rows'[j] \in Row
                 /\ rows'[j].subject = rows[j].subject
                 /\ rows'[j].heir = rows[j].heir /\ rows'[j].filed = rows[j].filed
      <4>1. rows[j] \in Row
        BY DEF Inv, RowsOK
      <4>2. rows'[j] = rows[j] \/ rows'[j] = [rows[j] EXCEPT !.active = FALSE]
        BY <2>1
      <4> QED
        BY <4>1, <4>2 DEF Row
    <3>2. disowned \subseteq disowned' /\ disowned' \subseteq Subjects
      BY <1>1 DEF Disown, Inv, RowsOK, Row
    <3> QED
      BY <1>1, <2>1, <3>1, <3>2, TableKept
  <2>2. CASE rows' = Restrict(rows, DOMAIN rows \ {i})
    BY <1>1, <2>2, TableShrinks DEF Restrict
  <2> QED
    BY <2>1, <2>2 DEF Delete
<1> QED
  BY <1>1, <1>2, <1>3, HostsStep

LEMMA PurgeStep == Inv /\ Purge => Inv'
<1> SUFFICES ASSUME Inv, Purge PROVE Inv'
  OBVIOUS
<1>1. UNCHANGED <<lastId, active, space, tasks, offered>> /\ Act
  BY DEF Purge
<1>2. SpaceOK'
  BY <1>1, Acting DEF Inv, SpaceOK
<1>3. RowsStep /\ disowned' \subseteq Subjects
  <2>1. CASE rows' = << >> /\ Disown(DOMAIN rows)
    <3>1. rows' = [i \in DOMAIN rows \ DOMAIN rows |-> rows[i]]
      BY <2>1
    <3> QED
      BY <1>1, <2>1, <3>1, TableShrinks
  <2>2. CASE UNCHANGED <<rows, disowned>>
    BY <1>1, <2>2, TableUntouched DEF Inv
  <2> QED
    BY <2>1, <2>2 DEF Purge
<1>4. EpisodesOK' /\ \A m \in Missions : episodes'[m] = "analyzed" => episodes[m] = "analyzed"
  BY DEF Purge, Inv, EpisodesOK
<1> QED
  BY <1>1, <1>2, <1>3, <1>4, HostsStep

\* The host turns to another embedding model, and the store follows or does not.
LEMMA ModelStep ==
  ASSUME Inv, NEW model \in Models,
         Adopt(model) \/ AdoptInstalled(model) \/ \E k \in Tasks : SetDefault(k, model) \/ Swap(k)
  PROVE  RowsStep /\ SpaceOK' /\ UNCHANGED <<episodes, offered, disowned>>
<1>1. UNCHANGED <<episodes, lastId, offered, disowned>>
  BY DEF Adopt, AdoptInstalled, SetDefault, Swap
<1>2. RowsStep
  <2>1. CASE UNCHANGED rows
    BY <1>1, <2>1, TableUntouched
  <2>2. CASE \E to \in Models : Sync(to)
    BY <1>1, <2>2, TableSynced
  <2> QED
    BY <2>1, <2>2 DEF Adopt, AdoptInstalled, SetDefault, Swap, Inv, SpaceOK
<1>3. SpaceOK'
  BY Acting DEF Adopt, AdoptInstalled, SetDefault, Swap, Inv, SpaceOK, Sync
<1> QED
  BY <1>1, <1>2, <1>3

\* At once, or after an await.
LEMMA AdoptStep ==
  ASSUME Inv, NEW model \in Models, Adopt(model) \/ AdoptInstalled(model)
  PROVE  Inv'
<1>1. RowsStep /\ SpaceOK' /\ UNCHANGED <<episodes, offered, disowned, tasks>>
  BY ModelStep DEF Adopt, AdoptInstalled
<1> QED
  BY <1>1, HostsStep DEF Inv, EpisodesOK

LEMMA SwapStep ==
  ASSUME Inv, NEW k \in Tasks, Swap(k) \/ \E model \in Models : SetDefault(k, model)
  PROVE  Inv'
<1>1. RowsStep /\ SpaceOK' /\ UNCHANGED <<episodes, offered, disowned>>
  BY ModelStep, Bounds
<1>2. \E r \in Task : Goto(k, r) /\ Sound(r)'
  <2>1. CASE \E model \in Models : SetDefault(k, model)
    <3>1. PICK r : r = [Idle EXCEPT !.pc = "swapping"]
      OBVIOUS
    <3>2. r \in Task /\ r.pc = "swapping"
      BY <3>1 DEF Idle, Task
    <3>3. Sound(r)'
      BY <3>2 DEF Sound
    <3> QED
      BY <2>1, <3>1, <3>2, <3>3 DEF SetDefault
  <2>2. CASE Swap(k)
    BY <2>2, IdleIsSound DEF Swap
  <2> QED
    BY <2>1, <2>2
<1> QED
  BY <1>1, <1>2, PlainStep DEF Inv, EpisodesOK

\* The process dies: the tasks are forgotten, the tables are not.
LEMMA RestartStep == Inv /\ Restart => Inv'
<1> SUFFICES ASSUME Inv, Restart PROVE Inv'
  OBVIOUS
<1>1. UNCHANGED <<episodes, lastId, offered, disowned>> /\ Act
  BY DEF Restart
<1>2. PICK model \in Models : active' = model /\ Sync(model)
  BY DEF Restart
<1>3. RowsStep
  BY <1>1, <1>2, TableSynced
<1>4. SpaceOK'
  BY <1>1, <1>2, Acting DEF SpaceOK, Sync
<1>5. TasksOK'
  <2>1. \A k \in Tasks : tasks'[k] = Idle
    BY DEF Restart
  <2>2. ASSUME NEW k \in Tasks PROVE Sound(tasks[k])'
    BY <2>1, IdleIsSound DEF Sound, Idle
  <2> QED
    BY <2>1, <2>2, IdleIsSound DEF TasksOK, Restart
<1>6. EpisodesOK' /\ AnalyzedMeansTaught'
  BY <1>1 DEF Inv, EpisodesOK, AnalyzedMeansTaught
<1> QED
  BY <1>1, <1>3, <1>4, <1>5, <1>6 DEF Inv, RowsStep

-----------------------------------------------------------------------------
(* The theorems.                                                             *)

LEMMA Initially == Init => Inv
<1> SUFFICES ASSUME Init PROVE Inv
  OBVIOUS
<1>1. EpisodesOK /\ AnalyzedMeansTaught
  BY DEF Init, EpisodesOK, AnalyzedMeansTaught
<1>2. RowsOK /\ FiledLessonsHaveHeirs
  BY Bounds DEF Init, RowsOK, FiledLessonsHaveHeirs
<1>3. SpaceOK /\ disowned \subseteq Subjects
  BY Bounds DEF Init, SpaceOK
<1>4. Sound(Idle) /\ Idle \in Task
  BY DEF Sound, Idle, Task
<1>5. TasksOK
  BY <1>4 DEF Init, TasksOK
<1> QED
  BY <1>1, <1>2, <1>3, <1>5 DEF Inv

LEMMA NextStep == Inv /\ [Next]_vars => Inv'
<1> SUFFICES ASSUME Inv, [Next]_vars PROVE Inv'
  OBVIOUS
<1>1. CASE \E m \in Missions : Save(m)
  BY <1>1, SaveStep
<1>2. CASE \E k \in Tasks : Learn(k)
  BY <1>2, AnalysisStep, WaitingStep, LessonStep, TeachStep, HeirStep, FileStep DEF Learn
<1>3. CASE \E k \in Tasks : Swap(k)
  BY <1>3, SwapStep
<1>4. CASE TheHost
  <2>1. CASE Create \/ Purge \/ Restart
    BY <2>1, CreateStep, PurgeStep, RestartStep
  <2>2. CASE \E i \in DOMAIN rows : Edit(i) \/ Delete(i)
    BY <2>2, EditStep, DeleteStep
  <2>3. CASE \E model \in Models, k \in Tasks : SetDefault(k, model)
    BY <2>3, SwapStep
  <2>4. CASE \E model \in Models : Adopt(model) \/ AdoptInstalled(model)
    BY <2>4, AdoptStep
  <2> QED
    BY <1>4, <2>1, <2>2, <2>3, <2>4 DEF TheHost
<1>5. CASE UNCHANGED vars
  BY <1>5, HostsStep, TableUntouched DEF vars, Inv, SpaceOK, EpisodesOK
<1> QED
  BY <1>1, <1>2, <1>3, <1>4, <1>5 DEF Next

\* The learning keeps its invariant.
THEOREM Invariance == Spec => []Inv
BY Initially, NextStep, PTL DEF Spec

\* The tables, the space and the tasks stay typed, and no id is given twice
\* (TypeOK).
THEOREM TypeCorrect == Spec => []TypeOK
<1>1. Inv => TypeOK
  BY DEF Inv, TypeOK, EpisodesOK, RowsOK, SpaceOK, TasksOK, Task
<1> QED
  BY <1>1, Invariance, PTL

\* However analyses overlap, are stopped or die with the process, an episode is
\* marked only when all it teaches was offered (AnalyzedMeansTaught).
THEOREM TheAnalyzedAreTaught == Spec => []AnalyzedMeansTaught
BY Invariance, PTL DEF Inv

\* No row is filed by the consolidation of a group, of however many at once,
\* unless an heir speaks for its subject (FiledLessonsHaveHeirs).
THEOREM TheFiledHaveHeirs == Spec => []FiledLessonsHaveHeirs
BY Invariance, PTL DEF Inv
=============================================================================
