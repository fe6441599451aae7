------------------------------- MODULE CronJobs -------------------------------
(* Scheduled jobs: the table in jobs.json (cron/jobs.py), the tick of each       *)
(* gateway (cron/scheduler.py), the batch of due jobs it runs on the event loop  *)
(* (gateway/cron_mixin.py) and the processes that edit jobs (command line, web   *)
(* server).  Nothing locks the table: a change is a load, a truncation and a     *)
(* write, and other processes and the ticker thread come in between.             *)
EXTENDS Naturals, FiniteSets

CONSTANTS
  Jobs,       \* job ids, each created at most once
  Created,    \* those in the table from the start
  Once,       \* those with a one-time schedule, at time 1; the others repeat
  Limited,    \* those with a repeat.times
  Scripts,    \* those that run a script, in a session of its own; the others run an agent
  RepeatTimes,
  Gateways,   \* gateway processes on one home directory (a replacement overlaps)
  Slots,      \* bound: batches a gateway may have on its loop at once
  Editors,    \* other processes that change jobs, one change each
  None,
  MaxClock,   \* bound: how far time goes
  MaxFaults   \* bound: how many kinds of fault one behaviour may show

NoRun == MaxClock + 2  \* next_run_at is None
FaultKinds == {"crash", "overrun", "unmarked"}

ASSUME CronAssumption ==
  /\ Created \subseteq Jobs /\ Once \subseteq Jobs /\ Limited \subseteq Jobs
  /\ Scripts \subseteq Jobs
  /\ IsFiniteSet(Gateways) /\ IsFiniteSet(Slots) /\ Editors \cap (Gateways \X Slots) = {}
  /\ None \notin Gateways \cup Jobs \cup Slots
  /\ RepeatTimes \in Nat /\ MaxClock \in Nat /\ MaxFaults \in Nat

Batches == Gateways \X Slots
Actors == Batches \cup Editors

VARIABLES
  clock,
  table,     \* the jobs in the file, or that were in it before a truncation
  readable,  \* FALSE between the truncation and the write of a save
  lock,      \* who holds the flock on .tick.lock
  ticker,    \* the ticker thread of each gateway: the due jobs it has read
  actor,     \* batches and editors: where they are, and the copy they loaded
  ran,       \* how often each job was started
  orphans,   \* jobs with a script that goes on after its gateway's end
  faults

vars == <<clock, table, readable, lock, ticker, actor, ran, orphans, faults>>

-----------------------------------------------------------------------------
NoJob == [state |-> "none", enabled |-> FALSE, next |-> NoRun, done |-> 0]
NoJobs == [j \in Jobs |-> NoJob]
Asleep == [pc |-> "idle", due |-> {}, slot |-> None]
Idle == [pc |-> "idle", todo |-> {}, job |-> None, done |-> 0, copy |-> NoJobs]

\* compute_next_run, from now.
NextRun(j) == IF j \notin Once THEN clock + 1 ELSE IF clock < 1 THEN 1 ELSE NoRun
NewJob(j) == [state |-> "scheduled", enabled |-> TRUE, next |-> NextRun(j), done |-> 0]

\* load_jobs: a file that is missing, empty or damaged is an empty list.
Loaded == IF readable THEN table ELSE NoJobs
Exists(t, j) == t[j].state # "none"

\* get_due_jobs.
IsDue(t, j) == Exists(t, j) /\ t[j].enabled /\ t[j].next <= clock
Due == {j \in Jobs : IsDue(Loaded, j)}

Fail(kind) ==
  /\ kind \notin faults /\ Cardinality(faults) < MaxFaults
  /\ faults' = faults \cup {kind}

Init ==
  /\ clock = 0
  /\ table = [j \in Jobs |-> IF j \in Created
                THEN [state |-> "scheduled", enabled |-> TRUE, next |-> 1, done |-> 0] ELSE NoJob]
  /\ readable = TRUE
  /\ lock = None
  /\ ticker = [g \in Gateways |-> Asleep]
  /\ actor = [a \in Actors |-> Idle]
  /\ ran = [j \in Jobs |-> 0]
  /\ orphans = {}
  /\ faults = {}

-----------------------------------------------------------------------------
(* Saving.  On one event loop nothing runs between mark_job_run's first load     *)
(* and its write.                                                                *)

At(a, label) == actor[a].pc = label
Runs(b, j) == At(b, "run") /\ actor[b].job = j
Writing(a) == At(a, "write") \/ At(a, "rewrite")
Marking(b) == actor[b].pc \in {"mark", "save", "write", "resave", "rewrite"}
LoopFree(b) == \A c \in Batches \ {b} : c[1] = b[1] => ~Marking(c)
Goto(a, label) == actor' = [actor EXCEPT ![a].pc = label]
Finish(a, label) == actor' = [actor EXCEPT ![a] = [Idle EXCEPT !.pc = label]]

\* A load and the changes made to it.
Change(a, j, job, label) ==
  actor' = [actor EXCEPT ![a].copy = [Loaded EXCEPT ![j] = job], ![a].pc = label]

Truncate(a) ==
  /\ At(a, "save") \/ At(a, "resave")
  /\ readable' = FALSE
  /\ Goto(a, IF At(a, "save") THEN "write" ELSE "rewrite")
  /\ UNCHANGED <<clock, table, lock, ticker, ran, orphans, faults>>

\* Where another's text has been written since the truncation, the tail of a longer
\* text may stay behind, and nobody can read the file.
WriteTable(a) ==
  /\ table' \in IF readable THEN {actor[a].copy, NoJobs} ELSE {actor[a].copy}
  /\ readable' = TRUE
  /\ UNCHANGED <<clock, lock, ticker, ran, orphans, faults>>

-----------------------------------------------------------------------------
(* The tick of a gateway.                                                        *)

ReadDue(g) ==
  /\ ticker[g].pc = "idle" /\ Due # {}
  /\ ticker' = [ticker EXCEPT ![g].pc = "lock", ![g].due = Due]
  /\ UNCHANGED <<clock, table, readable, lock, actor, ran, orphans, faults>>

\* The batch goes to the event loop with the list read before the lock was taken
\* (SubmitUnlocked does not try the lock).
Hand(g, s) ==
  /\ actor' = [actor EXCEPT ![<<g, s>>] = [Idle EXCEPT !.pc = "next", !.todo = ticker[g].due]]
  /\ ticker' = [ticker EXCEPT ![g] = [pc |-> "wait", due |-> {}, slot |-> s]]
  /\ UNCHANGED <<clock, table, readable, ran, orphans, faults>>
SubmitUnlocked(g) ==
  /\ ticker[g].pc = "lock" /\ lock' = g
  /\ \E s \in Slots : At(<<g, s>>, "idle") /\ Hand(g, s)
Submit(g) ==
  /\ ticker[g].pc = "lock"
  /\ lock = None /\ lock' = g
  /\ \E s \in Slots : At(<<g, s>>, "idle") /\ Hand(g, s)

SkipTick(g) ==
  /\ ticker[g].pc = "lock" /\ lock # None
  /\ ticker' = [ticker EXCEPT ![g] = Asleep]
  /\ UNCHANGED <<clock, table, readable, lock, actor, ran, orphans, faults>>

\* The future has its result and the lock is released (BatchDoneKeepsLock: it is not).
EndTick(g) ==
  /\ ticker' = [ticker EXCEPT ![g] = Asleep]
  /\ UNCHANGED <<clock, table, readable, actor, ran, orphans>>
BatchDoneKeepsLock(g) ==
  /\ ticker[g].pc = "wait" /\ At(<<g, ticker[g].slot>>, "idle")
  /\ EndTick(g) /\ UNCHANGED <<lock, faults>>
BatchDone(g) ==
  /\ ticker[g].pc = "wait" /\ At(<<g, ticker[g].slot>>, "idle")
  /\ lock' = None
  /\ EndTick(g) /\ UNCHANGED faults

\* fut.result(timeout=3600) gives up and the lock is released; the batch goes on.
Overrun(g) ==
  /\ ticker[g].pc = "wait" /\ ~At(<<g, ticker[g].slot>>, "idle")
  /\ Fail("overrun")
  /\ lock' = None
  /\ EndTick(g)

-----------------------------------------------------------------------------
(* A batch: execute_cron_job for one job after the other.                        *)

StartJob(b, j) ==
  /\ At(b, "next") /\ j \in actor[b].todo
  /\ actor' = [actor EXCEPT ![b].pc = "run", ![b].job = j, ![b].todo = @ \ {j}]
  /\ ran' = [ran EXCEPT ![j] = @ + 1]
  /\ UNCHANGED <<clock, table, readable, lock, ticker, orphans, faults>>

EndBatch(b) ==
  /\ At(b, "next") /\ actor[b].todo = {}
  /\ Finish(b, "idle")
  /\ UNCHANGED <<clock, table, readable, lock, ticker, ran, orphans, faults>>

\* A run ends.  mark_job_run looks the job up, and counts from what it finds; if it finds
\* none, the result is delivered all the same.  A run may fail before it is marked.
RunEnds(b) ==
  /\ At(b, "run") /\ LoopFree(b)
  /\ LET j == actor[b].job
     IN \/ /\ Exists(Loaded, j) /\ UNCHANGED faults
           /\ actor' = [actor EXCEPT ![b].pc = "mark", ![b].done = Loaded[j].done + 1]
        \/ /\ ~Exists(Loaded, j) /\ UNCHANGED faults
           /\ \E label \in {"deliver", "next"} : Goto(b, label)
        \/ Fail("unmarked") /\ Goto(b, "next")
  /\ UNCHANGED <<clock, table, readable, lock, ticker, ran, orphans>>

\* The updates alone, not merged into the job.
MarkedOnly(job, j, done) ==
  LET last == j \in Limited /\ done >= RepeatTimes
  IN [enabled |-> ~last, next |-> IF last THEN NoRun ELSE NextRun(j), done |-> done]
\* The job after a run: enabled again unless it has reached its limit, also if it
\* was paused meanwhile.
Marked(job, j, done) ==
  LET last == j \in Limited /\ done >= RepeatTimes
      next == IF last THEN NoRun ELSE NextRun(j)
  IN [state |-> IF next = NoRun THEN "completed" ELSE "scheduled",
      enabled |-> ~last, next |-> next, done |-> done]

\* update_job, which loads the table again.
MarkRun(b) ==
  /\ At(b, "mark")
  /\ LET j == actor[b].job
     IN IF Exists(Loaded, j)
          THEN Change(b, j, Marked(Loaded[j], j, actor[b].done), "save")
          ELSE \E label \in {"deliver", "next"} : Goto(b, label)
  /\ UNCHANGED <<clock, table, readable, lock, ticker, ran, orphans, faults>>

\* Then the result is delivered, unless there is none or it is silent.
SaveRun(b) ==
  /\ At(b, "write") /\ WriteTable(b)
  /\ \E label \in {"deliver", "next"} : Goto(b, label)

\* mark_job_delivery writes fields of its own and leaves the others as loaded
\* (DeliveredAgain counts the run a second time).
DeliveredAgain(job) == [job EXCEPT !.done = @ + 1]
Delivered(job) == job
MarkDelivery(b) ==
  /\ At(b, "deliver") /\ LoopFree(b)
  /\ LET j == actor[b].job
     IN IF Exists(Loaded, j)
          THEN Change(b, j, Delivered(Loaded[j]), "resave")
          ELSE Goto(b, "next")
  /\ UNCHANGED <<clock, table, readable, lock, ticker, ran, orphans, faults>>
SaveDelivery(b) == At(b, "rewrite") /\ WriteTable(b) /\ Goto(b, "next")

-----------------------------------------------------------------------------
(* Editors.                                                                      *)

Paused(job) == [job EXCEPT !.enabled = FALSE, !.state = "paused"]
Resumed(job, j) == [job EXCEPT !.enabled = TRUE, !.state = "scheduled", !.next = NextRun(j)]
Triggered(job) == [job EXCEPT !.enabled = TRUE, !.state = "scheduled", !.next = clock]
Rescheduled(job, j) == IF job.state = "paused" THEN job ELSE [job EXCEPT !.next = NextRun(j)]

Create(e, j) ==
  /\ At(e, "idle") /\ j \notin Created /\ ~Exists(Loaded, j)
  /\ Change(e, j, NewJob(j), "save")
  /\ UNCHANGED <<clock, table, readable, lock, ticker, ran, orphans, faults>>

Edit(e, j) ==
  /\ At(e, "idle") /\ Exists(Loaded, j)
  /\ \E job \in LET old == Loaded[j]
                IN {NoJob, Paused(old), Resumed(old, j), Triggered(old), Rescheduled(old, j)} :
       Change(e, j, job, "save")
  /\ UNCHANGED <<clock, table, readable, lock, ticker, ran, orphans, faults>>

SaveEdit(e) == At(e, "write") /\ WriteTable(e) /\ Finish(e, "done")

-----------------------------------------------------------------------------
(* Time and crashes.                                                             *)

TimePasses ==
  /\ clock < MaxClock /\ clock' = clock + 1
  /\ UNCHANGED <<table, readable, lock, ticker, actor, ran, orphans, faults>>

\* A writer that dies after its truncation leaves an empty file.
LoseFile(dead) ==
  IF ~readable /\ {a \in Actors : Writing(a)} \subseteq dead
    THEN table' = NoJobs /\ readable' = TRUE
    ELSE UNCHANGED <<table, readable>>

\* A gateway ends, killed or stopped, with what its batches were at.  The scripts they
\* run are not in its process group and may go on; nobody kills them at their time-out.
Crash(g) ==
  /\ Fail("crash")
  /\ LoseFile({g} \X Slots)
  /\ ticker' = [ticker EXCEPT ![g] = Asleep]
  /\ actor' = [a \in Actors |-> IF a \in {g} \X Slots THEN Idle ELSE actor[a]]
  /\ lock' = IF lock = g THEN None ELSE lock
  /\ \E left \in SUBSET {j \in Scripts : \E s \in Slots : Runs(<<g, s>>, j)} :
       orphans' = orphans \cup left
  /\ UNCHANGED <<clock, ran>>

OrphanEnds(j) ==
  /\ j \in orphans /\ orphans' = orphans \ {j}
  /\ UNCHANGED <<clock, table, readable, lock, ticker, actor, ran, faults>>

EditorDies(e) ==
  /\ At(e, "save") \/ At(e, "write")
  /\ Fail("crash")
  /\ LoseFile({e})
  /\ Finish(e, "done")
  /\ UNCHANGED <<clock, lock, ticker, ran, orphans>>

-----------------------------------------------------------------------------
TickerStep(g) == ReadDue(g) \/ Submit(g) \/ SkipTick(g) \/ BatchDone(g)

BatchStep(b) ==
  \/ \E j \in Jobs : StartJob(b, j)
  \/ EndBatch(b) \/ MarkRun(b) \/ SaveRun(b) \/ MarkDelivery(b) \/ SaveDelivery(b)
  \/ Truncate(b)

EditorStep(e) == Truncate(e) \/ SaveEdit(e)

Next ==
  \/ \E g \in Gateways : TickerStep(g) \/ Overrun(g) \/ Crash(g)
  \/ \E b \in Batches : BatchStep(b) \/ RunEnds(b)
  \/ \E e \in Editors :
       EditorStep(e) \/ EditorDies(e) \/ \E j \in Jobs : Create(e, j) \/ Edit(e, j)
  \/ TimePasses \/ \E j \in Jobs : OrphanEnds(j)

\* The ticker threads, the event loops and the editors' processes keep running, and a
\* gateway kills a script at its time-out.  Nothing ends the run of an agent that hangs.
Fairness ==
  /\ \A g \in Gateways : WF_vars(TickerStep(g))
  /\ \A b \in Batches : WF_vars(BatchStep(b) \/ (actor[b].job \in Scripts /\ RunEnds(b)))
  /\ \A e \in Editors : WF_vars(EditorStep(e))

Spec == Init /\ [][Next]_vars
FairSpec == Spec /\ Fairness

-----------------------------------------------------------------------------
(* Properties.                                                                   *)

JobRecords == [state : {"none", "scheduled", "paused", "completed"}, enabled : BOOLEAN,
               next : 0 .. NoRun, done : Nat]
Tables == [Jobs -> JobRecords]
TickerRecords == [pc : {"idle", "lock", "wait"}, due : SUBSET Jobs, slot : Slots \cup {None}]
ActorRecords ==
  [pc : {"idle", "next", "run", "mark", "save", "write", "deliver", "resave", "rewrite", "done"},
   todo : SUBSET Jobs, job : Jobs \cup {None}, done : Nat, copy : Tables]
TypeOK ==
  /\ clock \in 0 .. MaxClock
  /\ table \in Tables /\ readable \in BOOLEAN
  /\ lock \in Gateways \cup {None}
  /\ ticker \in [Gateways -> TickerRecords] /\ actor \in [Actors -> ActorRecords]
  /\ ran \in [Jobs -> Nat] /\ orphans \subseteq Scripts /\ faults \subseteq FaultKinds

\* Two runs of one job do not overlap, however many gateways tick, unless a batch
\* has outlived the hour for which the tick holds its lock.  Beside what a dead gateway
\* has left of a run, another may start; only a script is left so, never an agent's run.
NeverTogether ==
  \A j \in Jobs, b \in Batches : Runs(b, j) =>
    /\ \A c \in Batches \ {b} : Runs(c, j) => "overrun" \in faults
    /\ j \in orphans => j \in Scripts /\ "crash" \in faults

\* A job is never charged with more runs than it had (which would use up
\* repeat.times early), whatever overtakes whatever: a lost update only loses counts.
NeverOvercounted == \A j \in Jobs : table[j].done <= ran[j]

\* No agent hangs for ever in the run of a job.
AgentsReturn ==
  \A b \in Batches : []<>(At(b, "run") => actor[b].job \in Scripts)

\* If the agents' runs end, a job that is due is run, or somebody has changed that: no
\* crash, no overlong batch and no skipped tick leaves the scheduler stuck.
DueIsRun ==
  AgentsReturn =>
    \A j \in Jobs : IsDue(table, j) ~> ~IsDue(table, j) \/ \E b \in Batches : Runs(b, j)
=============================================================================
