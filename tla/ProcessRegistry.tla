---------------------------- MODULE ProcessRegistry ----------------------------
(* Background processes of tools/process_registry.py: who moves a process from *)
(* _running to _finished, who announces its end, and what survives a restart.  *)
(* A step is one critical section of the registry's lock or one effect outside *)
(* it.  Every process is spawned by the terminal tool with notify_on_complete. *)
EXTENDS Naturals, FiniteSets

CONSTANTS
  Procs,      \* session ids, each spawned once
  Sandboxed,  \* those run through a non-local environment
  Killable,   \* bound: the processes that somebody kills
  MaxProcs,   \* MAX_PROCESSES
  MaxUpsets   \* bound: kills, failed starts, readers that give up, restarts

ASSUME RegistryAssumption ==
  /\ IsFiniteSet(Procs) /\ Sandboxed \subseteq Procs /\ Killable \subseteq Procs
  /\ MaxProcs \in Nat /\ MaxUpsets \in Nat

VARIABLES
  os,         \* whether the process is "none" (not spawned), "alive" or "dead"
  running,    \* _running
  finished,   \* _finished
  exited,     \* ProcessSession.exited
  notify,     \* ProcessSession.notify_on_complete and watcher_interval
  detached,   \* sessions recovered from the checkpoint
  leaked,     \* processes registered when nobody was left to move them
  thread,     \* what each thread that works on a process is doing
  file,       \* the checkpoint: processes, and those of them with a watcher
  announced,  \* completion events put in the queue since the last restart
  watch,      \* whether the gateway has a watcher for it, pending or polling
  told,       \* messages injected into the agent's session
  consumed,   \* _completion_consumed
  missed,     \* processes whose watcher did not find them any more
  upsets

memory == <<running, finished, exited, notify, detached, consumed, watch, leaked, missed>>
vars == <<os, memory, thread, file, announced, told, upsets>>

-----------------------------------------------------------------------------
Roles == {"spawner", "reader", "killer", "refresher"}
Threads == Roles \X Procs
NoFile == [procs |-> {}, watched |-> {}]
Off == [pc |-> "off", was |-> FALSE, snap |-> NoFile]

Known == running \cup finished
At(role, p, label) == thread[<<role, p>>].pc = label
Goto(role, p, label) == thread' = [thread EXCEPT ![<<role, p>>].pc = label]
Stop(role, p) == thread' = [thread EXCEPT ![<<role, p>>] = Off]

Upset == upsets < MaxUpsets /\ upsets' = upsets + 1

\* What _write_checkpoint collects under the lock (and a version without the watchers).
SnapshotOfNames == [procs |-> {p \in running : ~exited[p]}]
Snapshot ==
  [procs   |-> {p \in running : ~exited[p]},
   watched |-> {p \in running : ~exited[p] /\ notify[p]}]

\* _prune_if_needed: the sessions that have expired (age counts from the start of the
\* process, so any finished one may have), then the oldest if the registry is full.
Pruned ==
  UNION {IF kept # {} /\ Cardinality(running) + Cardinality(kept) >= MaxProcs
           THEN {kept \ {oldest} : oldest \in kept}
           ELSE {kept} : kept \in SUBSET finished}

Init ==
  /\ os = [p \in Procs |-> "none"]
  /\ running = {} /\ finished = {} /\ detached = {} /\ consumed = {} /\ leaked = {} /\ missed = {}
  /\ exited = [p \in Procs |-> FALSE] /\ notify = [p \in Procs |-> FALSE]
  /\ thread = [t \in Threads |-> Off]
  /\ file = NoFile
  /\ announced = [p \in Procs |-> 0] /\ told = [p \in Procs |-> 0]
  /\ watch = [p \in Procs |-> FALSE]
  /\ upsets = 0

-----------------------------------------------------------------------------
(* Spawning: the reader runs before the session is registered.                *)

Spawn(p) ==
  /\ os[p] = "none"
  /\ os' = [os EXCEPT ![p] = "alive"]
  /\ thread' = [thread EXCEPT ![<<"spawner", p>>].pc = "register", ![<<"reader", p>>].pc = "read"]
  /\ UNCHANGED <<memory, file, announced, told, upsets>>

\* The sandbox cannot start it: no reader, and the session is born exited.
SpawnFails(p) ==
  /\ p \in Sandboxed /\ os[p] = "none" /\ Upset
  /\ os' = [os EXCEPT ![p] = "dead"]
  /\ exited' = [exited EXCEPT ![p] = TRUE]
  /\ Goto("spawner", p, "register")
  /\ UNCHANGED <<running, finished, notify, detached, consumed, watch, leaked, missed, file,
                 announced, told>>

Register(p) ==
  /\ At("spawner", p, "register")
  /\ finished' \in Pruned
  /\ running' = running \cup {p}
  /\ leaked' = IF exited[p] /\ ~At("reader", p, "move") THEN leaked \cup {p} ELSE leaked
  /\ Goto("spawner", p, "save")
  /\ UNCHANGED <<os, exited, notify, detached, consumed, watch, missed, file, announced, told,
                 upsets>>

\* The terminal tool asks for the notification once the spawn has returned.
AskForNotice(p) ==
  /\ At("spawner", p, "mark")
  /\ notify' = [notify EXCEPT ![p] = TRUE]
  /\ watch' = [watch EXCEPT ![p] = TRUE]
  /\ Stop("spawner", p)
  /\ UNCHANGED <<os, running, finished, exited, detached, consumed, leaked, missed, file, announced,
                 told, upsets>>

-----------------------------------------------------------------------------
(* A process ends; readers, killers and refreshers notice.                    *)

ProcessEnds(p) ==
  /\ os[p] = "alive" /\ os' = [os EXCEPT ![p] = "dead"]
  /\ UNCHANGED <<memory, thread, file, announced, told, upsets>>

MarkExited(p) == exited' = [exited EXCEPT ![p] = TRUE]
ExitedThreadAndUpsets ==
  UNCHANGED <<os, running, finished, notify, detached, consumed, watch, leaked, missed, file,
              announced, told>>
OnlyExitedAndThread == ExitedThreadAndUpsets /\ UNCHANGED upsets

\* End of output, or the poller's check: also when somebody marked the exit meanwhile.
ReaderEnds(p) ==
  /\ At("reader", p, "read") /\ os[p] = "dead"
  /\ Goto("reader", p, "move") /\ MarkExited(p)
  /\ OnlyExitedAndThread

\* Output closed but the process goes on (wait(timeout=5)), or the sandbox is gone.
ReaderGivesUp(p) ==
  /\ At("reader", p, "read") /\ os[p] = "alive" /\ Upset
  /\ Goto("reader", p, "move") /\ MarkExited(p)
  /\ ExitedThreadAndUpsets

\* A sandbox poller goes round only until somebody has marked the exit.
PollerStops(p) ==
  /\ p \in Sandboxed /\ At("reader", p, "read") /\ exited[p]
  /\ Stop("reader", p)
  /\ UNCHANGED <<os, memory, file, announced, told, upsets>>

\* kill_process looks, signals and marks, without a lock; the signal may fail, and a
\* process may survive it.
KillLooks(p) ==
  /\ p \in Known \cap Killable /\ ~exited[p] /\ At("killer", p, "off") /\ Upset
  /\ Goto("killer", p, "signal")
  /\ UNCHANGED <<os, memory, file, announced, told>>
KillMarks(p) ==
  /\ At("killer", p, "signal")
  /\ Goto("killer", p, "move") /\ MarkExited(p)
  /\ OnlyExitedAndThread
KillFails(p) ==
  /\ At("killer", p, "signal")
  /\ Stop("killer", p)
  /\ UNCHANGED <<os, memory, file, announced, told, upsets>>

\* Whoever looks at a recovered session finds its pid gone (RefreshMarks leaves it
\* where it is).
RefreshMarks(p) ==
  /\ p \in Known \cap detached /\ ~exited[p] /\ os[p] = "dead"
  /\ MarkExited(p)
  /\ UNCHANGED thread /\ OnlyExitedAndThread
Refresh(p) ==
  /\ p \in Known \cap detached /\ ~exited[p] /\ os[p] = "dead"
  /\ Goto("refresher", p, "move") /\ MarkExited(p)
  /\ OnlyExitedAndThread

-----------------------------------------------------------------------------
(* _move_to_finished and _write_checkpoint, by any of these threads.          *)

Move(role, p) ==
  /\ At(role, p, "move")
  /\ thread' = [thread EXCEPT ![<<role, p>>] = [Off EXCEPT !.pc = "save", !.was = p \in running]]
  /\ running' = running \ {p} /\ finished' = finished \cup {p}
  /\ UNCHANGED <<os, exited, notify, detached, consumed, watch, leaked, missed, file,
                 announced, told, upsets>>

\* The snapshot is taken under the lock, the file is replaced after it.
TakeSnapshot(role, p) ==
  /\ At(role, p, "save") \/ At(role, p, "resave")
  /\ thread' = [thread EXCEPT ![<<role, p>>].pc = IF @ = "save" THEN "write" ELSE "rewrite",
                              ![<<role, p>>].snap = Snapshot]
  /\ UNCHANGED <<os, memory, file, announced, told, upsets>>

\* Only the first mover announces, and only if a notice has been asked for by now
\* (AnnouncesAlways forgets the first half).
AnnouncesAlways(role, p) == notify[p]
Announces(role, p) == thread[<<role, p>>].was /\ notify[p]

\* What a thread does once its checkpoint is written.  A killer saves once more, unless
\* it had found the pid of a recovered session gone.
After(role, p) ==
  CASE role = "spawner" -> {"mark"}
    [] role = "killer"  -> IF p \in detached THEN {"off", "resave"} ELSE {"resave"}
    [] OTHER            -> {"off"}

\* The queue is in memory and the file is read at start-up only: announcing belongs
\* to the step that writes the file.
WriteAndAnnounce(role, p) ==
  /\ At(role, p, "write")
  /\ file' = thread[<<role, p>>].snap
  /\ announced' = IF Announces(role, p) THEN [announced EXCEPT ![p] = @ + 1] ELSE announced
  /\ \E next \in After(role, p) :
       thread' = [thread EXCEPT ![<<role, p>>] = [Off EXCEPT !.pc = next]]
  /\ UNCHANGED <<os, memory, told, upsets>>

WriteAgain(p) ==
  /\ At("killer", p, "rewrite")
  /\ file' = thread[<<"killer", p>>].snap
  /\ Stop("killer", p)
  /\ UNCHANGED <<os, memory, announced, told, upsets>>

-----------------------------------------------------------------------------
(* The agent's and the gateway's interest in a process.                       *)

\* poll, log and wait: the agent sees the end for itself.  Only a watcher reads the mark.
Poll(p) ==
  /\ p \in Known /\ exited[p] /\ watch[p]
  /\ consumed' = consumed \cup {p}
  /\ UNCHANGED <<os, running, finished, exited, notify, detached, watch, leaked, missed, thread, file,
                 announced, told, upsets>>

\* A watcher becomes a task at the end of an agent turn or at start-up, and polls.  It
\* ends when the session is gone or has exited, and tells the agent unless the agent
\* has seen it (EndOfRunning looks in one table only).
EndOfRunning(p) == p \in running /\ exited[p]
EndOf(p) == p \in Known /\ exited[p]
WatchEnds(p) ==
  /\ watch[p]
  /\ EndOf(p) \/ p \notin Known
  /\ watch' = [watch EXCEPT ![p] = FALSE]
  /\ told' = IF EndOf(p) /\ p \notin consumed THEN [told EXCEPT ![p] = @ + 1] ELSE told
  /\ missed' = IF p \in Known THEN missed ELSE missed \cup {p}
  /\ UNCHANGED <<os, running, finished, exited, notify, detached, consumed, leaked, thread,
                 file, announced, upsets>>

-----------------------------------------------------------------------------
(* Restarts.                                                                  *)

\* The gateway dies, starts again and probes the pids of its checkpoint.
Restart ==
  /\ Upset
  /\ LET back == {p \in file.procs \ Sandboxed : os[p] = "alive"}
         watched == back \cap file.watched
     IN /\ running' = back /\ detached' = back
        /\ notify' = [p \in Procs |-> p \in watched]
        /\ watch' = [p \in Procs |-> p \in watched]
        /\ file' = [procs |-> back, watched |-> watched]
  /\ finished' = {} /\ consumed' = {} /\ leaked' = {} /\ missed' = {}
  /\ announced' = [p \in Procs |-> 0]
  /\ exited' = [p \in Procs |-> FALSE]
  /\ thread' = [t \in Threads |-> Off]
  /\ UNCHANGED <<os, told>>

-----------------------------------------------------------------------------
Finishing(role, p) ==
  Move(role, p) \/ TakeSnapshot(role, p) \/ WriteAndAnnounce(role, p)

SpawnerStep(p) == Register(p) \/ AskForNotice(p) \/ Finishing("spawner", p)
ReaderStep(p) == ReaderEnds(p) \/ PollerStops(p) \/ Finishing("reader", p)
KillerStep(p) == KillMarks(p) \/ KillFails(p) \/ WriteAgain(p) \/ Finishing("killer", p)
RefresherStep(p) == Finishing("refresher", p)
WatcherStep(p) == WatchEnds(p) \/ (watch[p] /\ Refresh(p))

Next ==
  \/ \E p \in Procs :
       \/ Spawn(p) \/ SpawnFails(p) \/ ProcessEnds(p) \/ ReaderGivesUp(p) \/ KillLooks(p)
       \/ Refresh(p) \/ Poll(p)
       \/ SpawnerStep(p) \/ ReaderStep(p) \/ KillerStep(p) \/ RefresherStep(p) \/ WatchEnds(p)
  \/ Restart

\* Threads run, agent turns end, and a watcher polls, which refreshes a recovered session.
Fairness ==
  \A p \in Procs :
    /\ WF_vars(SpawnerStep(p)) /\ WF_vars(ReaderStep(p)) /\ WF_vars(KillerStep(p))
    /\ WF_vars(RefresherStep(p)) /\ WF_vars(WatcherStep(p))

Spec == Init /\ [][Next]_vars
FairSpec == Spec /\ Fairness

-----------------------------------------------------------------------------
(* Properties.                                                                *)

Labels == {"off", "register", "save", "write", "mark", "read", "mark", "signal", "move",
           "resave", "rewrite"}
Checkpoints == [procs : SUBSET Procs, watched : SUBSET Procs]
ThreadRecords == [pc : Labels, was : BOOLEAN, snap : Checkpoints]
TypeOK ==
  /\ os \in [Procs -> {"none", "alive", "dead"}]
  /\ running \subseteq Procs /\ finished \subseteq Procs
  /\ exited \in [Procs -> BOOLEAN] /\ notify \in [Procs -> BOOLEAN]
  /\ detached \subseteq Procs /\ consumed \subseteq Procs
  /\ leaked \subseteq Procs /\ missed \subseteq Procs
  /\ thread \in [Threads -> ThreadRecords]
  /\ file \in Checkpoints
  /\ announced \in [Procs -> Nat] /\ told \in [Procs -> Nat]
  /\ watch \in [Procs -> BOOLEAN]
  /\ upsets \in 0 .. MaxUpsets

\* However its reader, a killer and whoever probes its pid race, and wherever the
\* checkpoint brings it back, the end of a process is queued at most once between
\* two restarts ("the second call is a no-op").
AnnouncedOnce == \A p \in Procs : announced[p] <= 1

\* A session whose end has been recorded does not stay among the running ones (which
\* are never pruned): a thread is about to move it, unless all of them had come and
\* gone before the spawner registered it.
EndsAreMoved ==
  \A p \in running : exited[p] => p \in leaked \/ \E role \in Roles : At(role, p, "move")

\* The end of a process for which a notice was asked reaches the agent, by message
\* or because it looked, unless a restart forgot the request or the session had been
\* pruned when its watcher came by.
EndIsTold ==
  \A p \in Procs :
    notify[p] /\ os[p] = "dead" ~> told[p] > 0 \/ p \in consumed \/ ~notify[p] \/ p \in missed
=============================================================================
