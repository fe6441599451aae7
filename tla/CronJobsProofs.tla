---------------------------- MODULE CronJobsProofs ----------------------------
(***************************************************************************)
(* Proofs about CronJobs, for any number of gateways, editors, jobs and     *)
(* batches: its type invariant, that the runs of a job do not overlap, and  *)
(* that a job is not charged with runs it did not have.                     *)
(***************************************************************************)
EXTENDS CronJobs, FiniteSetTheorems, TLAPS

-----------------------------------------------------------------------------
(* Types                                                                   *)

\* The clock's bound keeps the next time of a job within NoRun.
LEMMA NextRunType ==
  ASSUME TypeOK, NEW j \in Jobs
  PROVE  NextRun(j) \in 0 .. NoRun /\ NextRun(j) \in Nat /\ NoRun \in 0 .. NoRun
         /\ clock \in 0 .. NoRun
  BY CronAssumption DEF TypeOK, NextRun, NoRun

\* What is loaded is a table.
LEMMA LoadedType ==
  ASSUME TypeOK
  PROVE  NoJob \in JobRecords /\ NoJobs \in Tables /\ Loaded \in Tables
<1>1. NoJob \in JobRecords
  BY CronAssumption DEF NoJob, JobRecords, NoRun
<1> QED  BY <1>1 DEF NoJobs, Tables, Loaded, TypeOK

\* Every change of a job gives a job.
LEMMA ChangesType ==
  ASSUME TypeOK, NEW j \in Jobs, NEW job \in JobRecords, NEW n \in Nat
  PROVE  /\ NewJob(j) \in JobRecords /\ Marked(job, j, n) \in JobRecords
         /\ Delivered(job) \in JobRecords /\ Paused(job) \in JobRecords
         /\ Resumed(job, j) \in JobRecords /\ Triggered(job) \in JobRecords
         /\ Rescheduled(job, j) \in JobRecords
  BY NextRunType DEF JobRecords, NewJob, Marked, Delivered, Paused, Resumed, Triggered, Rescheduled

\* An actor at rest.
LEMMA IdleType == TypeOK => Idle \in ActorRecords /\ Asleep \in TickerRecords
  BY LoadedType DEF Idle, Asleep, ActorRecords, TickerRecords

\* An actor that goes on to a label, with or without a new copy of the table.
LEMMA RelabelType ==
  ASSUME NEW r \in ActorRecords, NEW copy \in Tables,
         NEW label \in {"idle", "next", "run", "mark", "save", "write", "deliver", "resave",
                        "rewrite", "done"}
  PROVE  /\ [r EXCEPT !.pc = label] \in ActorRecords
         /\ [r EXCEPT !.copy = copy, !.pc = label] \in ActorRecords
  BY DEF ActorRecords

\* Where an actor may be.
Labels == {"idle", "next", "run", "mark", "save", "write", "deliver", "resave", "rewrite", "done"}

\* A step of one actor.
LEMMA ActorType ==
  ASSUME TypeOK, NEW a \in Actors
  PROVE  /\ actor[a] \in ActorRecords
         /\ \A r \in ActorRecords : [actor EXCEPT ![a] = r] \in [Actors -> ActorRecords]
  BY DEF TypeOK

\* An actor that goes on, or ends, is an actor.
LEMMA GotoType ==
  ASSUME TypeOK, NEW a \in Actors, NEW label \in Labels, Goto(a, label) \/ Finish(a, label)
  PROVE  actor' \in [Actors -> ActorRecords]
<1>1. CASE Goto(a, label)
  <2>1. [actor[a] EXCEPT !.pc = label] \in ActorRecords
    BY ActorType, RelabelType, LoadedType DEF Labels
  <2> QED  BY <1>1, <2>1, ActorType DEF Goto
<1>2. CASE Finish(a, label)
  <2>1. [Idle EXCEPT !.pc = label] \in ActorRecords
    BY IdleType, RelabelType, LoadedType DEF Labels
  <2> QED  BY <1>2, <2>1, ActorType DEF Finish
<1> QED  BY <1>1, <1>2

\* An actor that has changed a job in its copy is an actor.
LEMMA ChangeType ==
  ASSUME TypeOK, NEW a \in Actors, NEW j \in Jobs, NEW job \in JobRecords, NEW label \in Labels,
         Change(a, j, job, label)
  PROVE  actor' \in [Actors -> ActorRecords]
<1> DEFINE copy == [Loaded EXCEPT ![j] = job]
<1>1. copy \in Tables
  BY LoadedType DEF Tables
<1> HIDE DEF copy
<1>2. [actor[a] EXCEPT !.copy = copy, !.pc = label] \in ActorRecords
  BY <1>1, ActorType, RelabelType DEF Labels
<1>3. actor' = [actor EXCEPT ![a] = [actor[a] EXCEPT !.copy = copy, !.pc = label]]
  BY DEF Change, copy
<1> QED  BY <1>2, <1>3, ActorType

\* A written table is a table.
LEMMA WriteType ==
  ASSUME TypeOK, NEW a \in Actors, WriteTable(a)
  PROVE  /\ table' \in Tables /\ readable' \in BOOLEAN
         /\ UNCHANGED <<clock, lock, ticker, ran, orphans, faults>>
  BY LoadedType, ActorType DEF WriteTable, ActorRecords

\* A batch that is not between two jobs has a job in hand.
HasJob == \A b \in Batches : actor[b].pc \notin {"idle", "next"} => actor[b].job \in Jobs

\* At the start everything has its type.
LEMMA InitTypes == Init => TypeOK /\ HasJob
<1> SUFFICES ASSUME Init PROVE TypeOK /\ HasJob
  OBVIOUS
<1>1. clock \in 0 .. MaxClock /\ readable \in BOOLEAN /\ ran \in [Jobs -> Nat]
      /\ faults \subseteq FaultKinds /\ lock \in Gateways \cup {None} /\ orphans \subseteq Scripts
  BY CronAssumption DEF Init
<1>2. NoJob \in JobRecords
      /\ [state |-> "scheduled", enabled |-> TRUE, next |-> 1, done |-> 0] \in JobRecords
  BY CronAssumption DEF NoJob, JobRecords, NoRun
<1>3. table \in Tables /\ NoJobs \in Tables
  BY <1>2 DEF Init, Tables, NoJobs
<1>4. Idle \in ActorRecords /\ Asleep \in TickerRecords
  BY <1>3 DEF Idle, Asleep, ActorRecords, TickerRecords
<1> QED  BY <1>1, <1>3, <1>4 DEF Init, TypeOK, HasJob, Actors, Idle

\* Every step keeps the types.
LEMMA NextTypes == TypeOK /\ HasJob /\ [Next]_vars => TypeOK'
<1> SUFFICES ASSUME TypeOK, HasJob, [Next]_vars PROVE TypeOK'
  OBVIOUS
<1> USE DEF Labels
<1>1. ASSUME NEW g \in Gateways, ReadDue(g) PROVE TypeOK'
  <2>1. [ticker[g] EXCEPT !.pc = "lock", !.due = Due] \in TickerRecords
    BY DEF TypeOK, TickerRecords, Due
  <2> QED  BY <1>1, <2>1 DEF ReadDue, TypeOK
<1>2. ASSUME NEW g \in Gateways, Submit(g) PROVE TypeOK'
  <2>1. PICK s \in Slots : Hand(g, s)
    BY <1>2 DEF Submit
  <2>2. [Idle EXCEPT !.pc = "next", !.todo = ticker[g].due] \in ActorRecords
    BY IdleType DEF TypeOK, TickerRecords, ActorRecords
  <2>3. <<g, s>> \in Actors
    BY DEF Actors, Batches
  <2>4. [pc |-> "wait", due |-> {}, slot |-> s] \in TickerRecords
    BY DEF TickerRecords
  <2>5. actor' \in [Actors -> ActorRecords] /\ ticker' \in [Gateways -> TickerRecords]
    BY <2>1, <2>2, <2>3, <2>4, ActorType DEF Hand, TypeOK
  <2> QED  BY <1>2, <2>1, <2>5 DEF Submit, Hand, TypeOK
<1>3. ASSUME NEW g \in Gateways, SkipTick(g) \/ BatchDone(g) \/ Overrun(g) PROVE TypeOK'
  BY <1>3, IdleType DEF SkipTick, BatchDone, Overrun, EndTick, Fail, FaultKinds, TypeOK
<1>4. ASSUME NEW b \in Batches, NEW j \in Jobs, StartJob(b, j) PROVE TypeOK'
  <2>1. [actor[b] EXCEPT !.pc = "run", !.job = j, !.todo = @ \ {j}] \in ActorRecords
    BY ActorType DEF Actors, ActorRecords
  <2>2. actor' \in [Actors -> ActorRecords]
    BY <1>4, <2>1, ActorType DEF StartJob, Actors
  <2>3. ran' \in [Jobs -> Nat]
    BY <1>4 DEF StartJob, TypeOK
  <2> QED  BY <1>4, <2>2, <2>3 DEF StartJob, TypeOK
<1>5. ASSUME NEW b \in Batches, EndBatch(b) PROVE TypeOK'
  <2>1. actor' \in [Actors -> ActorRecords]
    BY <1>5, GotoType DEF EndBatch, Actors
  <2> QED  BY <1>5, <2>1 DEF EndBatch, TypeOK
<1>6. ASSUME NEW b \in Batches, RunEnds(b) PROVE TypeOK'
  <2> DEFINE n == Loaded[actor[b].job].done + 1
  <2>1. n \in Nat
    BY <1>6, LoadedType DEF RunEnds, At, HasJob, Tables, JobRecords
  <2> HIDE DEF n
  <2>2. [actor[b] EXCEPT !.pc = "mark", !.done = n] \in ActorRecords /\ b \in Actors
    BY <2>1, ActorType DEF Actors, ActorRecords
  <2>3. \/ Goto(b, "next") \/ Goto(b, "deliver")
        \/ actor' = [actor EXCEPT ![b] = [actor[b] EXCEPT !.pc = "mark", !.done = n]]
    BY <1>6 DEF RunEnds, n
  <2>4. actor' \in [Actors -> ActorRecords]
    BY <2>2, <2>3, ActorType, GotoType
  <2>5. faults' \subseteq FaultKinds
    BY <1>6 DEF RunEnds, Fail, FaultKinds, TypeOK
  <2> QED  BY <1>6, <2>4, <2>5 DEF RunEnds, TypeOK
<1>7. ASSUME NEW b \in Batches, MarkRun(b) \/ MarkDelivery(b) PROVE TypeOK'
  <2>1. actor[b].job \in Jobs /\ b \in Actors /\ actor[b].done \in Nat
    BY <1>7, ActorType DEF MarkRun, MarkDelivery, At, HasJob, Actors, ActorRecords
  <2>2. Loaded[actor[b].job] \in JobRecords
    BY <2>1, LoadedType DEF Tables
  <2>3. \/ Goto(b, "next") \/ Goto(b, "deliver")
        \/ \E job \in JobRecords, label \in Labels : Change(b, actor[b].job, job, label)
    BY <1>7, <2>1, <2>2, ChangesType DEF MarkRun, MarkDelivery
  <2>4. actor' \in [Actors -> ActorRecords]
    BY <2>1, <2>3, ChangeType, GotoType
  <2> QED  BY <1>7, <2>4 DEF MarkRun, MarkDelivery, TypeOK
<1>8. ASSUME NEW b \in Batches, SaveRun(b) \/ SaveDelivery(b) PROVE TypeOK'
  <2>1. actor' \in [Actors -> ActorRecords] /\ WriteTable(b) /\ b \in Actors
    BY <1>8, GotoType DEF SaveRun, SaveDelivery, Actors
  <2> QED  BY <2>1, WriteType DEF TypeOK
<1>9. ASSUME NEW a \in Actors, Truncate(a) PROVE TypeOK'
  <2>1. actor' \in [Actors -> ActorRecords]
    BY <1>9, GotoType DEF Truncate
  <2> QED  BY <1>9, <2>1 DEF Truncate, TypeOK
<1>10. ASSUME NEW e \in Editors, NEW j \in Jobs, Create(e, j) \/ Edit(e, j) PROVE TypeOK'
  <2>1. Loaded[j] \in JobRecords /\ NoJob \in JobRecords /\ e \in Actors
    BY LoadedType DEF Tables, Actors
  <2>2. PICK job \in JobRecords : Change(e, j, job, "save")
    BY <1>10, <2>1, ChangesType DEF Create, Edit
  <2>3. actor' \in [Actors -> ActorRecords]
    BY <2>1, <2>2, ChangeType
  <2> QED  BY <1>10, <2>3 DEF Create, Edit, TypeOK
<1>11. ASSUME NEW e \in Editors, SaveEdit(e) PROVE TypeOK'
  <2>1. actor' \in [Actors -> ActorRecords] /\ WriteTable(e) /\ e \in Actors
    BY <1>11, GotoType DEF SaveEdit, Actors
  <2> QED  BY <2>1, WriteType DEF TypeOK
<1>12. CASE TimePasses
  BY <1>12, CronAssumption DEF TimePasses, TypeOK
<1>13. ASSUME NEW dead, LoseFile(dead) PROVE table' \in Tables /\ readable' \in BOOLEAN
  BY <1>13, LoadedType DEF LoseFile, TypeOK
<1>14. ASSUME NEW g \in Gateways, Crash(g) PROVE TypeOK'
  <2>1. actor' \in [Actors -> ActorRecords] /\ ticker' \in [Gateways -> TickerRecords]
    BY <1>14, IdleType DEF Crash, TypeOK
  <2>2. lock' \in Gateways \cup {None} /\ faults' \subseteq FaultKinds
    BY <1>14 DEF Crash, Fail, FaultKinds, TypeOK
  <2>3. orphans' \subseteq Scripts
    BY <1>14 DEF Crash, TypeOK
  <2> QED  BY <1>14, <1>13, <2>1, <2>2, <2>3 DEF Crash, TypeOK
<1>15. ASSUME NEW e \in Editors, EditorDies(e) PROVE TypeOK'
  <2>1. actor' \in [Actors -> ActorRecords]
    BY <1>15, GotoType DEF EditorDies, Actors
  <2>2. faults' \subseteq FaultKinds
    BY <1>15 DEF EditorDies, Fail, FaultKinds, TypeOK
  <2> QED  BY <1>15, <1>13, <2>1, <2>2 DEF EditorDies, TypeOK
<1>16. CASE UNCHANGED vars
  BY <1>16 DEF vars, TypeOK
<1>17. ASSUME NEW j \in Jobs, OrphanEnds(j) PROVE TypeOK'
  BY <1>17 DEF OrphanEnds, TypeOK
<1> QED
  BY <1>1, <1>2, <1>3, <1>4, <1>5, <1>6, <1>7, <1>8, <1>9, <1>10, <1>11, <1>12, <1>14, <1>15, <1>16,
     <1>17
  DEF Next, TickerStep, BatchStep, EditorStep, Actors

\* Who changes what in actor: all but a submission and a crash change one entry.
LEMMA NextHasJob == TypeOK /\ HasJob /\ [Next]_vars => HasJob'
<1> SUFFICES ASSUME TypeOK, HasJob, [Next]_vars, NEW q \in Batches,
                    actor'[q].pc \notin {"idle", "next"}
             PROVE  actor'[q].job \in Jobs
  BY DEF HasJob
<1>0. q \in Actors /\ q \notin Editors /\ actor[q] \in ActorRecords
      /\ actor \in [Actors -> ActorRecords]
  BY CronAssumption, ActorType DEF Actors, Batches, TypeOK
<1>q. actor[q].pc \notin {"idle", "next"} => actor[q].job \in Jobs
  BY DEF HasJob
<1>1. ASSUME NEW g \in Gateways, ReadDue(g) \/ SkipTick(g) \/ BatchDone(g) \/ Overrun(g)
      PROVE  actor'[q].job \in Jobs
  BY <1>1, <1>q DEF ReadDue, SkipTick, BatchDone, Overrun, EndTick
<1>2. ASSUME NEW g \in Gateways, Submit(g) PROVE actor'[q].job \in Jobs
  BY <1>2, <1>q, <1>0 DEF Submit, Hand, Idle, Actors, Batches, ActorRecords
<1>3. ASSUME NEW b \in Batches, NEW j \in Jobs, StartJob(b, j) PROVE actor'[q].job \in Jobs
  BY <1>3, <1>q, <1>0 DEF StartJob, Actors, ActorRecords
<1>4. ASSUME NEW b \in Batches, EndBatch(b) PROVE actor'[q].job \in Jobs
  BY <1>4, <1>q, <1>0 DEF EndBatch, Finish, Idle, Actors, ActorRecords
<1>5. ASSUME NEW b \in Batches, RunEnds(b) PROVE actor'[q].job \in Jobs
  BY <1>5, <1>q, <1>0 DEF RunEnds, Goto, At, Actors, ActorRecords
<1>6. ASSUME NEW b \in Batches, MarkRun(b) \/ MarkDelivery(b) PROVE actor'[q].job \in Jobs
  BY <1>6, <1>q, <1>0 DEF MarkRun, MarkDelivery, Change, Goto, At, Actors, ActorRecords
<1>7. ASSUME NEW b \in Batches, SaveRun(b) \/ SaveDelivery(b) PROVE actor'[q].job \in Jobs
  BY <1>7, <1>q, <1>0 DEF SaveRun, SaveDelivery, Goto, At, Actors, ActorRecords
<1>8. ASSUME NEW a \in Actors, Truncate(a) PROVE actor'[q].job \in Jobs
  BY <1>8, <1>q, <1>0 DEF Truncate, Goto, At, Actors, ActorRecords
<1>9. ASSUME NEW e \in Editors, NEW j \in Jobs, Create(e, j) \/ Edit(e, j)
      PROVE  actor'[q].job \in Jobs
  BY <1>9, <1>q, <1>0 DEF Create, Edit, Change, Actors
<1>10. ASSUME NEW e \in Editors, SaveEdit(e) \/ EditorDies(e) PROVE actor'[q].job \in Jobs
  BY <1>10, <1>q, <1>0 DEF SaveEdit, EditorDies, Finish, Actors
<1>11. CASE TimePasses \/ UNCHANGED vars \/ \E j \in Jobs : OrphanEnds(j)
  BY <1>11, <1>q DEF TimePasses, OrphanEnds, vars
<1>12. ASSUME NEW g \in Gateways, Crash(g) PROVE actor'[q].job \in Jobs
  BY <1>12, <1>q, <1>0 DEF Crash, Idle
<1> QED
  BY <1>1, <1>2, <1>3, <1>4, <1>5, <1>6, <1>7, <1>8, <1>9, <1>10, <1>11, <1>12
  DEF Next, TickerStep, BatchStep, EditorStep, Actors

\* Every variable keeps its type.
THEOREM TypesHold == Spec => []TypeOK
<1>1. TypeOK /\ HasJob /\ [Next]_vars => (TypeOK /\ HasJob)'
  BY NextTypes, NextHasJob
<1> QED  BY InitTypes, <1>1, PTL DEF Spec

-----------------------------------------------------------------------------
(* Runs of one job do not overlap                                          *)

\* Until a batch outlives the hour, whoever waits for its batch holds the lock, and
\* every batch that is not idle is waited for.
Guarded ==
  "overrun" \notin faults =>
    /\ \A g \in Gateways : ticker[g].pc = "wait" => lock = g
    /\ \A g \in Gateways, s \in Slots :
         ~At(<<g, s>>, "idle") => ticker[g].pc = "wait" /\ ticker[g].slot = s

LEMMA InitGuarded == Init => Guarded
  BY DEF Init, Guarded, At, Idle, Asleep, Actors, Batches

\* Steps that neither wake an idle batch nor touch ticker and lock.
LEMMA GuardedStays ==
  ASSUME Guarded, faults \subseteq faults', UNCHANGED <<ticker, lock>>,
         \A b \in Batches : At(b, "idle") => At(b, "idle")'
  PROVE  Guarded'
  BY DEF Guarded, Batches, At

LEMMA NextGuarded == TypeOK /\ Guarded /\ [Next]_vars => Guarded'
<1> SUFFICES ASSUME TypeOK, Guarded, [Next]_vars PROVE Guarded'
  OBVIOUS
<1>a. /\ actor \in [Actors -> ActorRecords] /\ ticker \in [Gateways -> TickerRecords]
      /\ \A b \in Batches : b \in Actors /\ b \notin Editors
      /\ \A g \in Gateways, s \in Slots : <<g, s>> \in Batches
  BY CronAssumption DEF TypeOK, Actors, Batches
<1>1. ASSUME NEW g \in Gateways, ReadDue(g) \/ SkipTick(g) PROVE Guarded'
  <2>1. UNCHANGED <<actor, lock, faults>> /\ ticker[g].pc # "wait" /\ ticker'[g].pc # "wait"
        /\ \A h \in Gateways : h # g => ticker'[h] = ticker[h]
    BY <1>1, <1>a DEF ReadDue, SkipTick, Asleep, TickerRecords
  <2> QED  BY <2>1 DEF Guarded, At
<1>2. ASSUME NEW g \in Gateways, Submit(g) PROVE Guarded'
  <2>1. PICK t \in Slots : At(<<g, t>>, "idle") /\ Hand(g, t)
    BY <1>2 DEF Submit
  <2>2. ASSUME "overrun" \notin faults, NEW h \in Gateways
        PROVE  (ticker'[h].pc = "wait" => h = g) /\ lock' = g /\ ticker[h].pc # "wait"
    BY <1>2, <1>a, <2>1, <2>2, CronAssumption DEF Submit, Hand, Guarded
  <2>3. ASSUME "overrun" \notin faults, NEW h \in Gateways, NEW s \in Slots, ~At(<<h, s>>, "idle")'
        PROVE  h = g /\ s = t
    BY <1>a, <2>1, <2>2, <2>3 DEF Hand, Guarded, At
  <2>4. ticker'[g].pc = "wait" /\ ticker'[g].slot = t /\ faults' = faults
    BY <1>a, <2>1 DEF Hand
  <2> QED  BY <2>2, <2>3, <2>4 DEF Guarded
<1>3. ASSUME NEW g \in Gateways, BatchDone(g) PROVE Guarded'
  <2>1. /\ ticker' = [ticker EXCEPT ![g] = Asleep] /\ UNCHANGED <<actor, faults>>
        /\ ticker[g].pc = "wait" /\ At(<<g, ticker[g].slot>>, "idle")
    BY <1>3 DEF BatchDone, EndTick
  <2>2. ASSUME "overrun" \notin faults, NEW h \in Gateways PROVE ticker'[h].pc # "wait"
    BY <1>a, <2>1, <2>2 DEF Guarded, Asleep
  <2>3. ASSUME "overrun" \notin faults, NEW h \in Gateways, NEW s \in Slots
        PROVE  At(<<h, s>>, "idle")'
    <3>1. At(<<h, s>>, "idle")
      BY <2>1, <2>3 DEF Guarded
    <3> QED  BY <3>1, <2>1 DEF At
  <2> QED  BY <2>1, <2>2, <2>3 DEF Guarded
<1>4. ASSUME NEW g \in Gateways, Overrun(g) PROVE Guarded'
  BY <1>4 DEF Overrun, Fail, Guarded
<1>5. ASSUME NEW g \in Gateways, Crash(g) PROVE Guarded'
  BY <1>5, <1>a, CronAssumption DEF Crash, Fail, Guarded, At, Asleep, Idle, Batches
<1>6. ASSUME NEW b \in Batches, NEW j \in Jobs, StartJob(b, j) PROVE Guarded'
  BY <1>6, <1>a, GuardedStays DEF StartJob, At, ActorRecords
<1>7. ASSUME NEW b \in Batches, EndBatch(b) PROVE Guarded'
  BY <1>7, <1>a, GuardedStays DEF EndBatch, Finish, At, Idle
<1>8. ASSUME NEW b \in Batches, RunEnds(b) PROVE Guarded'
  BY <1>8, <1>a, GuardedStays DEF RunEnds, Goto, Fail, At, ActorRecords
<1>9. ASSUME NEW b \in Batches, MarkRun(b) \/ MarkDelivery(b) PROVE Guarded'
  BY <1>9, <1>a, GuardedStays DEF MarkRun, MarkDelivery, Change, Goto, At, ActorRecords
<1>10. ASSUME NEW b \in Batches, SaveRun(b) \/ SaveDelivery(b) PROVE Guarded'
  BY <1>10, <1>a, GuardedStays DEF SaveRun, SaveDelivery, WriteTable, Goto, At, ActorRecords
<1>11. ASSUME NEW a \in Actors, Truncate(a) PROVE Guarded'
  BY <1>11, <1>a, GuardedStays DEF Truncate, Goto, At, ActorRecords
<1>12. ASSUME NEW e \in Editors, NEW j \in Jobs, Create(e, j) \/ Edit(e, j) PROVE Guarded'
  BY <1>12, <1>a, GuardedStays DEF Create, Edit, Change, At
<1>13. ASSUME NEW e \in Editors, SaveEdit(e) PROVE Guarded'
  BY <1>13, <1>a, GuardedStays DEF SaveEdit, WriteTable, Finish, At
<1>14. ASSUME NEW e \in Editors, EditorDies(e) PROVE Guarded'
  BY <1>14, <1>a, GuardedStays DEF EditorDies, Fail, Finish, At
<1>15. CASE TimePasses \/ UNCHANGED vars \/ \E j \in Jobs : OrphanEnds(j)
  BY <1>15, GuardedStays DEF TimePasses, OrphanEnds, vars, At
<1> QED
  BY <1>1, <1>2, <1>3, <1>4, <1>5, <1>6, <1>7, <1>8, <1>9, <1>10, <1>11, <1>12, <1>13, <1>14, <1>15
  DEF Next, TickerStep, BatchStep, EditorStep, Actors

\* What is left of a run was left by a crash.
LeftByCrash == orphans # {} => "crash" \in faults

LEMMA NextLeft == LeftByCrash /\ [Next]_vars => LeftByCrash'
<1> SUFFICES ASSUME LeftByCrash, [Next]_vars PROVE LeftByCrash'
  OBVIOUS
<1>1. ASSUME NEW g \in Gateways, Crash(g) PROVE LeftByCrash'
  BY <1>1 DEF Crash, Fail, LeftByCrash
<1>2. ASSUME orphans' \subseteq orphans, faults \subseteq faults' PROVE LeftByCrash'
  BY <1>2 DEF LeftByCrash
<1>3. ASSUME NEW g \in Gateways, TickerStep(g) \/ Overrun(g) PROVE LeftByCrash'
  BY <1>2, <1>3
  DEF TickerStep, ReadDue, Submit, Hand, SkipTick, BatchDone, Overrun, EndTick, Fail
<1>4. ASSUME NEW b \in Batches, BatchStep(b) \/ RunEnds(b) PROVE LeftByCrash'
  BY <1>2, <1>4
  DEF BatchStep, StartJob, EndBatch, RunEnds, MarkRun, SaveRun, MarkDelivery, SaveDelivery,
      Truncate, WriteTable, Fail
<1>5. ASSUME NEW e \in Editors, NEW j \in Jobs, Create(e, j) \/ Edit(e, j) PROVE LeftByCrash'
  BY <1>2, <1>5 DEF Create, Edit
<1>6. CASE TimePasses \/ UNCHANGED vars \/ \E j \in Jobs : OrphanEnds(j)
  BY <1>2, <1>6 DEF TimePasses, OrphanEnds, vars
<1>7. ASSUME NEW e \in Editors, EditorStep(e) \/ EditorDies(e) PROVE LeftByCrash'
  BY <1>2, <1>7 DEF EditorStep, Truncate, SaveEdit, WriteTable, EditorDies, Fail
<1> QED  BY <1>1, <1>3, <1>4, <1>5, <1>6, <1>7 DEF Next

\* Two runs of a job do not overlap, however many gateways tick, as long as no batch
\* has outlived the tick that submitted it; nor does a run with what a gateway left of
\* one, unless that gateway crashed while it ran a script.
THEOREM RunsApart == Spec => []NeverTogether
<1>1. ASSUME Guarded, NEW b \in Batches, NEW c \in Batches, b # c,
             At(b, "run"), At(c, "run")
      PROVE  "overrun" \in faults
  <2> SUFFICES ASSUME "overrun" \notin faults PROVE FALSE
    OBVIOUS
  <2>1. PICK g \in Gateways, s \in Slots : b = <<g, s>>
    BY DEF Batches
  <2>2. PICK h \in Gateways, t \in Slots : c = <<h, t>>
    BY DEF Batches
  <2>3. lock = g /\ ticker[g].slot = s
    BY <1>1, <2>1 DEF Guarded, At
  <2>4. lock = h /\ ticker[h].slot = t
    BY <1>1, <2>2 DEF Guarded, At
  <2> QED  BY <1>1, <2>1, <2>2, <2>3, <2>4
<1>2. TypeOK /\ Guarded /\ LeftByCrash => NeverTogether
  BY <1>1 DEF NeverTogether, Runs, LeftByCrash, TypeOK
<1>3. TypeOK /\ Guarded /\ [Next]_vars => Guarded'
  BY NextGuarded
<1>4. Init => LeftByCrash
  BY DEF Init, LeftByCrash
<1> QED  BY <1>2, <1>3, <1>4, NextLeft, InitGuarded, TypesHold, PTL DEF Spec

-----------------------------------------------------------------------------
(* No run is charged that did not happen                                   *)

Running(j) == {b \in Batches : At(b, "run") /\ actor[b].job = j}

\* The runs of a job that have ended (or were cut off) and may have been charged.
Room(j) == ran[j] - Cardinality(Running(j))

\* Wherever a number of runs is kept, in the file, in a copy or in the hands of
\* mark_job_run, it is within the room.
Charged ==
  /\ \A j \in Jobs : table[j].done <= Room(j)
  /\ \A j \in Jobs, a \in Actors : actor[a].copy[j].done <= Room(j)
  /\ \A j \in Jobs, b \in Batches :
       At(b, "mark") /\ actor[b].job = j => actor[b].done <= Room(j)

\* There are finitely many batches, so that those running can be counted.
LEMMA RoomType ==
  /\ \A j : IsFiniteSet(Running(j)) /\ Cardinality(Running(j)) \in Nat
  /\ TypeOK => \A j \in Jobs : Room(j) \in Int
<1>1. IsFiniteSet(Batches)
  BY CronAssumption, FS_Product DEF Batches
<1>2. \A j : IsFiniteSet(Running(j)) /\ Cardinality(Running(j)) \in Nat
  BY <1>1, FS_Subset, FS_CardinalityType DEF Running
<1> QED  BY <1>2 DEF Room, TypeOK

\* The room of a job grows when runs end, and stays when one starts.
LEMMA RoomGrows ==
  ASSUME TypeOK, NEW j \in Jobs, ran' = ran, Running(j)' \subseteq Running(j)
  PROVE  Room(j) <= Room(j)' /\ Room(j)' \in Int
<1>1. Cardinality(Running(j)') <= Cardinality(Running(j)) /\ Cardinality(Running(j)') \in Nat
  BY RoomType, FS_Subset, FS_CardinalityType
<1>2. ran[j] \in Nat
  BY DEF TypeOK
<1> QED  BY <1>1, <1>2, RoomType DEF Room

LEMMA InitCharged == Init => Charged
<1> SUFFICES ASSUME Init PROVE Charged
  OBVIOUS
<1>1. \A j \in Jobs : table[j].done = 0 /\ NoJobs[j].done = 0 /\ ran[j] = 0
  BY DEF Init, NoJobs, NoJob
<1>2. \A a \in Actors : actor[a] = Idle
  BY DEF Init
<1>3. \A j : Running(j) = {}
  BY <1>2 DEF Running, At, Idle, Actors
<1>4. ASSUME NEW j \in Jobs PROVE Room(j) = 0
  <2>1. Running(j) = {} /\ Cardinality({}) = 0 /\ ran[j] = 0
    BY <1>1, <1>3, FS_EmptySet
  <2>2. Cardinality(Running(j)) = 0
    BY <2>1, Zenon
  <2> QED  BY <2>1, <2>2 DEF Room
<1> QED  BY <1>1, <1>2, <1>4 DEF Charged, At, Idle, Actors

\* What is loaded is within the room, as an empty table is.
LEMMA LoadedCharged ==
  ASSUME TypeOK, Charged, NEW j \in Jobs
  PROVE  /\ Loaded[j].done <= Room(j) /\ Loaded[j].done \in Nat
         /\ NoJobs[j].done = 0 /\ 0 <= Room(j)
<1>1. table[j].done \in Nat /\ table[j].done <= Room(j) /\ Room(j) \in Int
  BY RoomType DEF TypeOK, Tables, JobRecords, Charged
<1>2. NoJobs[j].done = 0
  BY DEF NoJobs, NoJob
<1> QED  BY <1>1, <1>2 DEF Loaded

\* A step that starts no run: what must be shown of it.
LEMMA ChargedStays ==
  ASSUME TypeOK, TypeOK', Charged,
         \A j \in Jobs : Room(j) <= Room(j)' /\ Room(j)' \in Int,
         \A j \in Jobs : table'[j].done <= Room(j),
         \A j \in Jobs, a \in Actors : actor'[a].copy[j].done <= Room(j),
         \A j \in Jobs, b \in Batches :
           At(b, "mark")' /\ actor'[b].job = j => actor'[b].done <= Room(j)'
  PROVE  Charged'
<1>1. \A j \in Jobs : table'[j].done \in Nat /\ Room(j) \in Int
  BY RoomType DEF TypeOK, Tables, JobRecords
<1>2. ASSUME NEW a \in Actors, NEW j \in Jobs PROVE actor'[a].copy[j].done \in Nat
  <2>1. actor'[a] \in ActorRecords
    BY DEF TypeOK
  <2>2. actor'[a].copy \in Tables
    BY <2>1 DEF ActorRecords
  <2> QED  BY <2>2 DEF Tables, JobRecords
<1>3. \A j \in Jobs : table'[j].done <= Room(j)'
  BY <1>1
<1>4. ASSUME NEW j \in Jobs, NEW a \in Actors PROVE actor'[a].copy[j].done <= Room(j)'
  <2>1. actor'[a].copy[j].done \in Nat /\ actor'[a].copy[j].done <= Room(j)
    BY <1>2
  <2>2. Room(j) \in Int /\ Room(j)' \in Int /\ Room(j) <= Room(j)'
    BY <1>1
  <2> QED  BY <2>1, <2>2
<1> QED  BY <1>3, <1>4 DEF Charged

LEMMA NextCharged == TypeOK /\ TypeOK' /\ HasJob /\ Charged /\ [Next]_vars => Charged'
<1> SUFFICES ASSUME TypeOK, TypeOK', HasJob, Charged, [Next]_vars PROVE Charged'
  OBVIOUS
<1>a. /\ actor \in [Actors -> ActorRecords] /\ NoJobs \in Tables /\ Loaded \in Tables
      /\ \A b \in Batches : b \in Actors /\ b \notin Editors
  BY CronAssumption, LoadedType DEF TypeOK, Actors, Batches
<1>b. \A j \in Jobs : /\ table[j].done <= Room(j) /\ Room(j) \in Int
                      /\ Loaded[j].done <= Room(j) /\ NoJobs[j].done <= Room(j)
  BY RoomType, LoadedCharged DEF Charged
<1>c. \A a \in Actors, j \in Jobs : actor[a].copy[j].done <= Room(j)
  BY DEF Charged
<1>d. \A j \in Jobs, b \in Batches :
        At(b, "mark") /\ actor[b].job = j => actor[b].done <= Room(j)
  BY DEF Charged
<1>e. \A b \in Batches : actor[b].done \in Nat
  BY <1>a DEF ActorRecords
\* A step that charges nobody and ends or starts no run.
<1>f. ASSUME ran' = ran, \A j \in Jobs : Running(j)' \subseteq Running(j),
             \A j \in Jobs : table'[j].done <= Room(j),
             \A j \in Jobs, a \in Actors : actor'[a].copy[j].done <= Room(j),
             \A b \in Batches : At(b, "mark")' => At(b, "mark") /\ actor'[b] = actor[b]
      PROVE  Charged'
  <2>1. \A j \in Jobs : Room(j) <= Room(j)' /\ Room(j)' \in Int
    BY <1>f, RoomGrows
  <2>2. ASSUME NEW j \in Jobs, NEW b \in Batches, At(b, "mark")' /\ actor'[b].job = j
        PROVE  actor'[b].done <= Room(j)'
    <3>1. actor'[b] = actor[b] /\ At(b, "mark")
      BY <1>f, <2>2
    <3>2. actor[b].done <= Room(j)
      BY <1>d, <2>2, <3>1
    <3> QED  BY <1>b, <1>e, <2>1, <3>1, <3>2
  <2> QED  BY <1>f, <2>1, <2>2, ChargedStays
<1>1. ASSUME UNCHANGED <<actor, table, ran>> PROVE Charged'
  BY <1>1 DEF Charged, At, Room, Running
<1>2. ASSUME NEW g \in Gateways, Submit(g) PROVE Charged'
  <2>1. PICK s \in Slots : At(<<g, s>>, "idle") /\ Hand(g, s)
    BY <1>2 DEF Submit
  <2>2. <<g, s>> \in Batches /\ UNCHANGED <<table, ran>>
        /\ actor' = [actor EXCEPT ![<<g, s>>] = [Idle EXCEPT !.pc = "next", !.todo = ticker[g].due]]
    BY <2>1 DEF Hand, Batches
  <2>3. \A j \in Jobs : Running(j)' \subseteq Running(j)
    BY <1>a, <2>2 DEF Running, At, Idle
  <2>4. \A j \in Jobs, a \in Actors : actor'[a].copy[j].done <= Room(j)
    BY <1>a, <1>b, <1>c, <2>2 DEF Idle
  <2>5. \A b \in Batches : At(b, "mark")' => At(b, "mark") /\ actor'[b] = actor[b]
    BY <1>a, <2>2 DEF At, Idle
  <2> QED  BY <1>b, <1>f, <2>2, <2>3, <2>4, <2>5
<1>3. ASSUME NEW b \in Batches, NEW k \in Jobs, StartJob(b, k) PROVE Charged'
  <2>1. /\ table' = table /\ ran' = [ran EXCEPT ![k] = @ + 1]
        /\ actor' = [actor EXCEPT ![b] = [actor[b] EXCEPT !.pc = "run", !.job = k, !.todo = @ \ {k}]]
        /\ At(b, "next")
    BY <1>3 DEF StartJob
  <2>2. Running(k)' = Running(k) \cup {b} /\ b \notin Running(k)
    BY <1>a, <2>1 DEF Running, At, ActorRecords
  <2>3. \A j \in Jobs : j # k => Running(j)' = Running(j)
    BY <1>a, <2>1 DEF Running, At, ActorRecords
  <2>4. ASSUME NEW j \in Jobs PROVE Room(j)' = Room(j)
    <3>1. CASE j = k
      <4>1. Cardinality(Running(k)') = Cardinality(Running(k)) + 1
        BY <2>2, RoomType, FS_AddElement
      <4>2. ran'[k] = ran[k] + 1 /\ ran[k] \in Nat /\ Cardinality(Running(k)) \in Nat
        BY <2>1, RoomType DEF TypeOK
      <4> QED  BY <3>1, <4>1, <4>2 DEF Room
    <3>2. CASE j # k
      BY <2>1, <2>3, <3>2 DEF Room, TypeOK
    <3> QED  BY <3>1, <3>2
  <2>5. \A j \in Jobs, a \in Actors : actor'[a].copy[j].done <= Room(j)
    BY <1>a, <1>c, <2>1 DEF ActorRecords
  <2>6. \A j \in Jobs, c \in Batches :
          At(c, "mark")' /\ actor'[c].job = j => actor'[c].done <= Room(j)'
    BY <1>a, <1>d, <2>1, <2>4 DEF At, ActorRecords
  <2> QED  BY <1>b, <2>1, <2>4, <2>5, <2>6, ChargedStays
<1>4. ASSUME NEW b \in Batches, RunEnds(b) PROVE Charged'
  <2>1. PICK k \in Jobs : actor[b].job = k /\ At(b, "run") /\ UNCHANGED <<table, ran>>
    BY <1>4 DEF RunEnds, HasJob, At
  <2> DEFINE n == Loaded[k].done + 1
  <2>2. /\ actor'[b].pc \in {"mark", "next", "deliver"} /\ actor'[b].copy = actor[b].copy
        /\ actor'[b].job = k /\ (actor'[b].pc = "mark" => actor'[b].done = n)
        /\ \A a \in Actors : a # b => actor'[a] = actor[a]
    BY <1>4, <1>a, <2>1 DEF RunEnds, Goto, ActorRecords
  <2>3. Running(k)' = Running(k) \ {b} /\ b \in Running(k)
    BY <1>a, <2>1, <2>2 DEF Running, At
  <2>4. Room(k)' = Room(k) + 1
    <3>1. Cardinality(Running(k)') = Cardinality(Running(k)) - 1
      BY <2>3, RoomType, FS_RemoveElement
    <3>2. ran'[k] = ran[k] /\ ran[k] \in Nat /\ Cardinality(Running(k)) \in Nat
      BY <2>1, RoomType DEF TypeOK
    <3> QED  BY <3>1, <3>2 DEF Room
  <2>5. \A j \in Jobs : Running(j)' \subseteq Running(j)
    BY <1>a, <2>2 DEF Running, At
  <2>6. \A j \in Jobs : Room(j) <= Room(j)' /\ Room(j)' \in Int
    BY <2>1, <2>5, RoomGrows
  <2>7. \A j \in Jobs, a \in Actors : actor'[a].copy[j].done <= Room(j)
    BY <1>a, <1>c, <2>2
  <2>8. ASSUME NEW j \in Jobs, NEW c \in Batches, At(c, "mark")' /\ actor'[c].job = j
        PROVE  actor'[c].done <= Room(j)'
    <3>1. CASE c = b
      <4>1. j = k /\ actor'[b].done = Loaded[j].done + 1
        BY <2>2, <2>8, <3>1 DEF At
      <4>2. Loaded[j].done \in Nat /\ Loaded[j].done <= Room(j) /\ Room(j) \in Int
        BY <1>b, LoadedCharged
      <4> QED  BY <2>4, <3>1, <4>1, <4>2
    <3>2. CASE c # b
      <4>1. actor'[c] = actor[c]
        BY <1>a, <2>2, <3>2
      <4>2. actor[c].done <= Room(j) /\ actor[c].done \in Nat
        BY <1>d, <1>e, <2>8, <4>1 DEF At
      <4> QED  BY <1>b, <2>6, <4>1, <4>2
    <3> QED  BY <3>1, <3>2
  <2> QED  BY <1>b, <2>1, <2>6, <2>7, <2>8, ChargedStays
\* A change of the copy of one actor that goes on to save it.
<1>5. ASSUME NEW a \in Actors, NEW k \in Jobs, NEW job \in JobRecords, NEW label \in {"save", "resave"},
             Change(a, k, job, label), job.done <= Room(k), UNCHANGED <<table, ran>>
      PROVE  Charged'
  <2> DEFINE copy == [Loaded EXCEPT ![k] = job]
  <2>1. \A j \in Jobs : copy[j].done <= Room(j)
    BY <1>5, <1>a, <1>b DEF Tables
  <2>2. actor' = [actor EXCEPT ![a] = [actor[a] EXCEPT !.copy = copy, !.pc = label]]
    BY <1>5 DEF Change
  <2> HIDE DEF copy
  <2>3. \A j \in Jobs, c \in Actors : actor'[c].copy[j].done <= Room(j)
    BY <1>a, <1>c, <2>1, <2>2 DEF ActorRecords
  <2>4. actor'[a].pc = label /\ \A c \in Actors : c # a => actor'[c] = actor[c]
    BY <1>a, <2>2 DEF ActorRecords
  <2>5. \A j \in Jobs : Running(j)' \subseteq Running(j)
    BY <1>a, <2>4 DEF Running, At
  <2>6. \A b \in Batches : At(b, "mark")' => At(b, "mark") /\ actor'[b] = actor[b]
    BY <1>a, <2>4 DEF At
  <2> QED  BY <1>5, <1>b, <1>f, <2>3, <2>5, <2>6
\* A step of one actor to another label, its copy kept or forgotten.
<1>6. ASSUME NEW a \in Actors, NEW label \in Labels \ {"run", "mark"},
             Goto(a, label) \/ Finish(a, label),
             ran' = ran, \A j \in Jobs : table'[j].done <= Room(j)
      PROVE  Charged'
  <2>1. /\ actor'[a].pc = label /\ \A c \in Actors : c # a => actor'[c] = actor[c]
        /\ actor'[a].copy \in {actor[a].copy, NoJobs}
    BY <1>6, <1>a DEF Goto, Finish, Idle, ActorRecords
  <2>2. \A j \in Jobs, c \in Actors : actor'[c].copy[j].done <= Room(j)
    BY <1>b, <1>c, <2>1
  <2>3. \A j \in Jobs : Running(j)' \subseteq Running(j)
    BY <1>6, <1>a, <2>1 DEF Running, At
  <2>4. \A b \in Batches : At(b, "mark")' => At(b, "mark") /\ actor'[b] = actor[b]
    BY <1>6, <1>a, <2>1 DEF At
  <2> QED  BY <1>6, <1>f, <2>2, <2>3, <2>4
<1>7. ASSUME NEW b \in Batches, EndBatch(b) PROVE Charged'
  BY <1>7, <1>a, <1>b, <1>6 DEF EndBatch, Labels
<1>8. ASSUME NEW b \in Batches, MarkRun(b) \/ MarkDelivery(b) PROVE Charged'
  <2>1. PICK k \in Jobs : actor[b].job = k /\ b \in Actors /\ UNCHANGED <<table, ran>>
    BY <1>8, <1>a DEF MarkRun, MarkDelivery, HasJob, At
  <2> DEFINE marked == Marked(Loaded[k], k, actor[b].done)
  <2>2. Loaded[k] \in JobRecords /\ Delivered(Loaded[k]) = Loaded[k] /\ Loaded[k].done <= Room(k)
    BY <1>a, <1>b, <2>1 DEF Tables, Delivered
  <2>3. MarkRun(b) => marked \in JobRecords /\ marked.done <= Room(k)
    BY <1>d, <1>e, <2>1, <2>2, ChangesType DEF MarkRun, Marked, At
  <2>4. CASE Goto(b, "next") \/ Goto(b, "deliver")
    BY <1>6, <1>b, <2>1, <2>4 DEF Labels
  <2>5. CASE MarkRun(b) /\ Change(b, k, marked, "save")
    <3> HIDE DEF marked
    <3> QED  BY <1>5, <2>1, <2>3, <2>5
  <2>6. CASE MarkDelivery(b) /\ Change(b, k, Loaded[k], "resave")
    <3> HIDE DEF marked
    <3> QED  BY <1>5, <2>1, <2>2, <2>6
  <2> QED  BY <1>8, <2>1, <2>2, <2>4, <2>5, <2>6 DEF MarkRun, MarkDelivery
\* What is written is the actor's copy or nothing.
<1>9. ASSUME NEW a \in Actors, WriteTable(a)
      PROVE  ran' = ran /\ \A j \in Jobs : table'[j].done <= Room(j)
  BY <1>9, <1>b, <1>c DEF WriteTable
<1>10. ASSUME NEW b \in Batches, SaveRun(b) \/ SaveDelivery(b) PROVE Charged'
  BY <1>10, <1>a, <1>6, <1>9 DEF SaveRun, SaveDelivery, Labels
<1>11. ASSUME NEW a \in Actors, Truncate(a) PROVE Charged'
  BY <1>11, <1>b, <1>6 DEF Truncate, Labels
<1>12. ASSUME NEW e \in Editors, NEW j \in Jobs, Create(e, j) \/ Edit(e, j) PROVE Charged'
  <2>1. Loaded[j] \in JobRecords /\ NoJob \in JobRecords /\ e \in Actors
        /\ Loaded[j].done <= Room(j) /\ 0 <= Room(j)
    BY <1>b, LoadedType, LoadedCharged DEF Tables, Actors
  <2>2. /\ NewJob(j).done = 0 /\ NoJob.done = 0 /\ Paused(Loaded[j]).done = Loaded[j].done
        /\ Resumed(Loaded[j], j).done = Loaded[j].done /\ Triggered(Loaded[j]).done = Loaded[j].done
        /\ Rescheduled(Loaded[j], j).done = Loaded[j].done
    BY <2>1 DEF NewJob, NoJob, Paused, Resumed, Triggered, Rescheduled, JobRecords
  <2>3. PICK job \in JobRecords : Change(e, j, job, "save") /\ job.done <= Room(j)
    BY <1>12, <2>1, <2>2, ChangesType DEF Create, Edit
  <2>4. UNCHANGED <<table, ran>>
    BY <1>12 DEF Create, Edit
  <2> QED  BY <1>5, <2>1, <2>3, <2>4
<1>13. ASSUME NEW e \in Editors, SaveEdit(e) PROVE Charged'
  BY <1>13, <1>6, <1>9 DEF SaveEdit, Labels, Actors
<1>14. ASSUME NEW dead, LoseFile(dead) PROVE \A j \in Jobs : table'[j].done <= Room(j)
  BY <1>14, <1>b DEF LoseFile
<1>15. ASSUME NEW e \in Editors, EditorDies(e) PROVE Charged'
  BY <1>15, <1>6, <1>14 DEF EditorDies, Labels, Actors
<1>16. ASSUME NEW g \in Gateways, Crash(g) PROVE Charged'
  <2>1. \A a \in Actors : actor'[a] \in {Idle, actor[a]}
    BY <1>16 DEF Crash
  <2>2. \A j \in Jobs : Running(j)' \subseteq Running(j)
    BY <1>a, <2>1 DEF Running, At, Idle
  <2>3. \A j \in Jobs, a \in Actors : actor'[a].copy[j].done <= Room(j)
    BY <1>b, <1>c, <2>1 DEF Idle
  <2>4. \A b \in Batches : At(b, "mark")' => At(b, "mark") /\ actor'[b] = actor[b]
    BY <1>a, <2>1 DEF At, Idle
  <2> QED  BY <1>16, <1>14, <1>f, <2>2, <2>3, <2>4 DEF Crash
<1>17. ASSUME NEW g \in Gateways, ReadDue(g) \/ SkipTick(g) \/ BatchDone(g) \/ Overrun(g)
       PROVE  Charged'
  BY <1>17, <1>1 DEF ReadDue, SkipTick, BatchDone, Overrun, EndTick
<1>18. CASE TimePasses \/ UNCHANGED vars \/ \E j \in Jobs : OrphanEnds(j)
  BY <1>18, <1>1 DEF TimePasses, OrphanEnds, vars
<1> QED
  BY <1>2, <1>3, <1>4, <1>7, <1>8, <1>10, <1>11, <1>12, <1>13, <1>15, <1>16, <1>17, <1>18
  DEF Next, TickerStep, BatchStep, EditorStep, Actors

\* A job is never charged with more runs than it had, whatever overtakes whatever.
THEOREM ChargesAreRuns == Spec => []NeverOvercounted
<1>1. TypeOK /\ Charged => NeverOvercounted
  <2> SUFFICES ASSUME TypeOK, Charged, NEW j \in Jobs PROVE table[j].done <= ran[j]
    BY DEF NeverOvercounted
  <2>1. table[j].done \in Nat /\ ran[j] \in Nat /\ Cardinality(Running(j)) \in Nat
    BY RoomType DEF TypeOK, Tables, JobRecords
  <2>2. table[j].done <= ran[j] - Cardinality(Running(j))
    BY DEF Charged, Room
  <2> QED  BY <2>1, <2>2
<1>2. TypeOK /\ TypeOK' /\ HasJob /\ Charged /\ [Next]_vars => Charged'
  BY NextCharged
<1>3. Spec => [](TypeOK /\ HasJob)
  BY InitTypes, NextTypes, NextHasJob, PTL DEF Spec
<1> QED  BY <1>1, <1>2, <1>3, InitCharged, PTL DEF Spec
=============================================================================
