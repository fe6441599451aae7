--------------------------- MODULE GatewayInstances ---------------------------
(* Which gateway processes run under one home and which of them uses a bot    *)
(* token.  start_gateway looks into the PID file, connects its platforms and  *)
(* only then writes the PID file; a platform takes a lock file for its token  *)
(* (gateway/status.py).  Nothing is locked meanwhile: every read, unlink,     *)
(* create and write below is a step of its own.  A process is known by its    *)
(* PID and start time together, so a reused PID is a dead process; all        *)
(* processes belong to one user, so a signal is never refused.                *)
EXTENDS Naturals, FiniteSets

CONSTANTS
  Gateways,      \* processes, each started once
  Replacers,     \* those started with --replace
  Unrecognized, \* those whose command line contains none of the names looked for
  Missing, Blank,
  MaxFaults      \* bound: faults in one behaviour

FaultKinds == {"crash", "suspend", "connect", "write", "drop"}
Causes == {"together", "unlisted", "raced", "suspended", "swept", "unlocked",
           "unrecognized"}

ASSUME InstancesAssumption ==
  /\ Replacers \subseteq Gateways /\ Unrecognized \subseteq Gateways
  /\ Missing # Blank /\ {Missing, Blank} \cap Gateways = {}
  /\ MaxFaults \in Nat

VARIABLES
  pidFile,    \* text: the process named, Blank or Missing; open: who writes into it
  lockFile,   \* likewise
  pc,         \* what each process is doing
  seen,       \* what it has read: a process to be replaced, or a record not believed
  up,         \* processes past their start
  token,      \* the platform's connection: none, using, queued for a retry
  stopping,   \* processes that got a SIGTERM
  suspended,  \* processes stopped by a signal (Ctrl-Z)
  cli,        \* the one command of the command line: idle, remove, done
  causes,     \* how a live process has lost its file, or passed another's check
  faults      \* which fault struck which process

vars == <<pidFile, lockFile, pc, seen, up, token, stopping, suspended, cli, causes, faults>>

-----------------------------------------------------------------------------
NoFile == [text |-> Missing, open |-> {}]
Alive(g) == pc[g] \notin {"off", "dead"}
Acts(g) == g \notin suspended
Starting(g) == Alive(g) /\ pc[g] # "exit" /\ g \notin up
Goto(g, label) == pc' = [pc EXCEPT ![g] = label]

\* Opening for writing truncates what is there; a write reaches the file only while
\* it has not been unlinked since.
Opened(f, g) == [text |-> Blank, open |-> f.open \cup {g}]
Written(f, g) == IF g \in f.open THEN [text |-> g, open |-> f.open \ {g}] ELSE f
Closed(f, g) == [f EXCEPT !.open = @ \ {g}]

\* A live process is named in this file or writes into it.
Uses(h, f) == Alive(h) /\ (f.text = h \/ h \in f.open)

\* Touching this file takes it from a live process other than g; what is more, g has
\* not read that process's record in it.
Hits(f, g) == \E h \in Gateways \ {g} : Uses(h, f)
Misses(f, g) == Hits(f, g) /\ (f.text # seen[g] \/ f.text = Blank)
Blame(cause, occurs) == causes' = IF occurs THEN causes \cup {cause} ELSE causes

Fail(kind, g) ==
  /\ <<kind, g>> \notin faults /\ Cardinality(faults) < MaxFaults
  /\ faults' = faults \cup {<<kind, g>>}

Init ==
  /\ pidFile = NoFile /\ lockFile = NoFile
  /\ pc = [g \in Gateways |-> "off"]
  /\ seen = [g \in Gateways |-> Missing]
  /\ up = {} /\ stopping = {} /\ suspended = {}
  /\ token = [g \in Gateways |-> "none"]
  /\ cli = "idle"
  /\ causes = {} /\ faults = {}

\* A process ends; its files stay.
Ends(g) ==
  /\ Goto(g, "dead")
  /\ token' = [token EXCEPT ![g] = "none"]
  /\ seen' = [seen EXCEPT ![g] = Missing]
  /\ up' = up \ {g} /\ suspended' = suspended \ {g} /\ stopping' = stopping \ {g}

-----------------------------------------------------------------------------
(* start_gateway                                                              *)

\* get_running_pid: the record is believed if its process is there and looks like a
\* gateway, which one started as "python -m mimir_cli.main gateway run" may not.
RunningUnlessStopped(text) ==
  text \in Gateways \ Unrecognized /\ Alive(text) /\ text \notin suspended
RunningIfListed(text) == text # Missing
Running(text) == text \in Gateways \ Unrecognized /\ Alive(text)

\* Why a process that starts may not see another: its PID file is still to be written,
\* or does not convince.
Overlooked(g, old) ==
  {c \in {"together"} : \E h \in Gateways \ {g} : Starting(h)}
    \cup {c \in {"unrecognized"} : old \in Unrecognized /\ Alive(old)}

\* A process starts and reads the PID file.
Start(g) ==
  /\ pc[g] = "off"
  /\ LET old == pidFile.text
     IN \/ /\ Running(old) /\ g \notin Replacers
           /\ Ends(g) /\ UNCHANGED causes
        \/ /\ Running(old) => g \in Replacers
           /\ seen' = [seen EXCEPT ![g] = old]
           /\ stopping' = IF Running(old) THEN stopping \cup {old} ELSE stopping
           /\ Goto(g, IF Running(old) THEN "await" ELSE "unlist")
           /\ causes' = causes \cup Overlooked(g, old)
           /\ UNCHANGED <<up, token, suspended>>
  /\ UNCHANGED <<pidFile, lockFile, cli, faults>>

\* A record that is not believed is removed: whatever is there by now.
Unlist(g) ==
  /\ pc[g] = "unlist" /\ Acts(g)
  /\ pidFile' = NoFile /\ Blame("unlisted", Misses(pidFile, g))
  /\ Goto(g, "lock") /\ seen' = [seen EXCEPT ![g] = Missing]
  /\ UNCHANGED <<lockFile, up, token, stopping, suspended, cli, faults>>

\* Ten seconds for the old process to go, then SIGKILL.
OldHasGone(g) ==
  /\ pc[g] = "await" /\ Acts(g) /\ ~Alive(seen[g])
  /\ Goto(g, "clear")
  /\ UNCHANGED <<pidFile, lockFile, seen, up, token, stopping, suspended, cli, causes, faults>>

KillOld(g) ==
  /\ pc[g] = "await" /\ Acts(g) /\ Alive(seen[g])
  /\ LET old == seen[g]
     IN /\ pc' = [pc EXCEPT ![g] = "clear", ![old] = "dead"]
        /\ token' = [token EXCEPT ![old] = "none"]
        /\ seen' = [seen EXCEPT ![old] = Missing]
        /\ up' = up \ {old} /\ suspended' = suspended \ {old} /\ stopping' = stopping \ {old}
        /\ pidFile' = Closed(pidFile, old) /\ lockFile' = Closed(lockFile, old)
  /\ UNCHANGED <<cli, causes, faults>>

ClearPid(g) ==
  /\ pc[g] = "clear" /\ Acts(g)
  /\ pidFile' = NoFile /\ Blame("unlisted", Misses(pidFile, g))
  /\ Goto(g, "sweep")
  /\ UNCHANGED <<lockFile, seen, up, token, stopping, suspended, cli, faults>>

\* release_all_scoped_locks: every lock in the directory, whoever holds it.
SweepLocks(g) ==
  /\ pc[g] = "sweep" /\ Acts(g)
  /\ lockFile' = NoFile /\ Blame("swept", Hits(lockFile, g))
  /\ Goto(g, "lock")
  /\ seen' = [seen EXCEPT ![g] = Missing]
  /\ UNCHANGED <<pidFile, up, token, stopping, suspended, cli, faults>>

-----------------------------------------------------------------------------
(* acquire_scoped_lock, while starting or for a retry                         *)

\* Another process has the token: no retry.  A start goes on if some other platform
\* has connected.
Refused(g) ==
  \/ g \notin up /\ Ends(g)
  \/ /\ Goto(g, IF g \in up THEN "run" ELSE "list")
     /\ token' = [token EXCEPT ![g] = "none"]
     /\ seen' = [seen EXCEPT ![g] = Missing]
     /\ UNCHANGED <<up, stopping, suspended>>

\* No lock, none that can be read, or one whose owner is dead or stopped by a signal.
OwnerGone(g, r) == r \in Gateways \ {g} /\ (~Alive(r) \/ r \in suspended)
StaleIfReadable(g, r) == r = Missing \/ OwnerGone(g, r)
Stale(g, r) == r \in {Missing, Blank} \/ OwnerGone(g, r)

ReadLock(g) ==
  /\ pc[g] = "lock" /\ Acts(g)
  /\ LET r == lockFile.text
     IN \/ /\ r = g \/ Stale(g, r)
           /\ seen' = [seen EXCEPT ![g] = r]
           /\ Goto(g, IF r = g THEN "rewrite" ELSE "unlink")
           /\ UNCHANGED <<up, token, stopping, suspended>>
        \/ r # g /\ ~Stale(g, r) /\ Refused(g)
  /\ UNCHANGED <<pidFile, lockFile, cli, causes, faults>>

\* Its own lock, from an earlier attempt, is rewritten in place, whoever has it now.
RewriteLock(g) ==
  /\ pc[g] = "rewrite" /\ Acts(g)
  /\ lockFile' = Opened(lockFile, g) /\ Blame("raced", Misses(lockFile, g))
  /\ seen' = [seen EXCEPT ![g] = Missing] /\ Goto(g, "refill")
  /\ UNCHANGED <<pidFile, up, token, stopping, suspended, cli, faults>>

\* A lock judged stale is unlinked, and so is one that appears after the read.
UnlinkStale(g) ==
  /\ pc[g] = "unlink" /\ Acts(g)
  /\ lockFile' = NoFile
  /\ IF Misses(lockFile, g)
       THEN Blame("raced", TRUE)
       ELSE Blame("suspended", Hits(lockFile, g) /\ <<"suspend", lockFile.text>> \in faults)
  /\ seen' = [seen EXCEPT ![g] = Missing]
  /\ Goto(g, "create")
  /\ UNCHANGED <<pidFile, up, token, stopping, suspended, cli, faults>>

\* Without O_EXCL, and with it.
CreateAnyway(g) ==
  /\ lockFile' = Opened(lockFile, g) /\ Goto(g, "fill")
  /\ UNCHANGED <<seen, up, token, stopping, suspended>>
Create(g) ==
  \/ /\ lockFile.text = Missing
     /\ lockFile' = Opened(lockFile, g) /\ Goto(g, "fill")
     /\ UNCHANGED <<seen, up, token, stopping, suspended>>
  \/ lockFile.text # Missing /\ Refused(g) /\ UNCHANGED lockFile

CreateLock(g) ==
  /\ pc[g] = "create" /\ Acts(g) /\ Create(g)
  /\ UNCHANGED <<pidFile, cli, causes, faults>>

FillLock(g) ==
  /\ pc[g] \in {"fill", "refill"} /\ Acts(g)
  /\ lockFile' = Written(lockFile, g)
  /\ Goto(g, "connect")
  /\ UNCHANGED <<pidFile, seen, up, token, stopping, suspended, cli, causes, faults>>

Connect(g) ==
  /\ pc[g] = "connect" /\ Acts(g)
  /\ token' = [token EXCEPT ![g] = "using"]
  /\ Goto(g, IF g \in up THEN "run" ELSE "list")
  /\ UNCHANGED <<pidFile, lockFile, seen, up, stopping, suspended, cli, causes, faults>>

\* An attempt fails: a start that has connected nothing ends, otherwise the platform
\* is queued for a retry.
GivesUp(g) ==
  \/ g \notin up /\ Ends(g)
  \/ /\ token' = [token EXCEPT ![g] = "queued"]
     /\ Goto(g, IF g \in up THEN "run" ELSE "list")
     /\ UNCHANGED <<seen, up, stopping, suspended>>

\* The service does not answer: the adapter is dropped, its lock is not released.
ConnectFails(g) ==
  /\ pc[g] = "connect" /\ Acts(g) /\ Fail("connect", g)
  /\ GivesUp(g)
  /\ UNCHANGED <<pidFile, lockFile, cli, causes>>

\* The record cannot be written: a lock just created is unlinked again, whoever has it
\* by now.  Some adapters then go on without it.
FillFails(g) ==
  /\ pc[g] \in {"fill", "refill"} /\ Acts(g) /\ Fail("write", g)
  /\ lockFile' = IF pc[g] = "fill" THEN NoFile ELSE Closed(lockFile, g)
  /\ \/ Blame("raced", pc[g] = "fill" /\ Hits(lockFile, g)) /\ GivesUp(g)
     \/ /\ causes' = causes \cup {"unlocked"}
        /\ Goto(g, "connect") /\ UNCHANGED <<seen, up, token, stopping, suspended>>
  /\ UNCHANGED <<pidFile, cli>>

-----------------------------------------------------------------------------
(* Running and leaving                                                        *)

\* write_pid_file, only after the platforms are connected.
ListPid(g) ==
  /\ pc[g] = "list" /\ Acts(g)
  /\ pidFile' = Opened(pidFile, g)
  /\ Goto(g, "listing")
  /\ UNCHANGED <<lockFile, seen, up, token, stopping, suspended, cli, causes, faults>>

FillPid(g) ==
  /\ pc[g] = "listing" /\ Acts(g)
  /\ pidFile' = Written(pidFile, g)
  /\ up' = up \cup {g} /\ Goto(g, "run")
  /\ UNCHANGED <<lockFile, seen, token, stopping, suspended, cli, causes, faults>>

\* The reconnect watcher tries a queued platform again.
Retry(g) ==
  /\ pc[g] = "run" /\ Acts(g) /\ g \notin stopping /\ token[g] = "queued"
  /\ Goto(g, "lock")
  /\ UNCHANGED <<pidFile, lockFile, seen, up, token, stopping, suspended, cli, causes, faults>>

\* disconnect: the connection is closed first, then the lock is released; because
\* the gateway stops, or because the platform failed: it is queued for a retry, unless
\* the error is final, and the gateway stops if it was the last one.
Disconnect(g) ==
  /\ pc[g] = "run" /\ Acts(g) /\ token[g] = "using"
  /\ \/ /\ g \in stopping /\ token' = [token EXCEPT ![g] = "none"]
        /\ UNCHANGED <<stopping, faults>>
     \/ /\ Fail("drop", g)
        /\ \E next \in {"queued", "none"} : token' = [token EXCEPT ![g] = next]
        /\ stopping' \in {stopping, stopping \cup {g}}
  /\ Goto(g, "release")
  /\ UNCHANGED <<pidFile, lockFile, seen, up, suspended, cli, causes>>

\* stop() cancels a reconnection that is under way; its lock stays.
Stop(g) ==
  /\ Acts(g) /\ g \in stopping /\ g \in up
  /\ pc[g] \in {"run", "connect"} /\ token[g] # "using"
  /\ Goto(g, "leave")
  /\ UNCHANGED <<pidFile, lockFile, seen, up, token, stopping, suspended, cli, causes, faults>>

\* release_scoped_lock: its own lock only, as it was read.
Released(g) == Goto(g, IF g \in stopping THEN "leave" ELSE "run")
ReadOwnLock(g) ==
  /\ pc[g] = "release" /\ Acts(g)
  /\ IF lockFile.text = g THEN Goto(g, "unlinkOwn") ELSE Released(g)
  /\ UNCHANGED <<pidFile, lockFile, seen, up, token, stopping, suspended, cli, causes, faults>>

UnlinkOwn(g) ==
  /\ pc[g] = "unlinkOwn" /\ Acts(g)
  /\ lockFile' = NoFile /\ Blame("raced", Hits(lockFile, g))
  /\ Released(g)
  /\ UNCHANGED <<pidFile, seen, up, token, stopping, suspended, cli, faults>>

\* remove_pid_file in stop(), and once more at exit: whoever the file names.
Leave(g) ==
  /\ pc[g] = "leave" /\ Acts(g)
  /\ pidFile' = NoFile /\ Blame("unlisted", Hits(pidFile, g))
  /\ up' = up \ {g} /\ Goto(g, "exit")
  /\ UNCHANGED <<lockFile, seen, token, stopping, suspended, cli, faults>>

Exit(g) ==
  /\ pc[g] = "exit" /\ Acts(g)
  /\ pidFile' = NoFile /\ Blame("unlisted", Hits(pidFile, g))
  /\ Ends(g)
  /\ UNCHANGED <<lockFile, cli, faults>>

-----------------------------------------------------------------------------
(* Faults, and the command line                                               *)

Crash(g) ==
  /\ Alive(g) /\ Fail("crash", g)
  /\ Ends(g)
  /\ pidFile' = Closed(pidFile, g) /\ lockFile' = Closed(lockFile, g)
  /\ UNCHANGED <<cli, causes>>

Suspend(g) ==
  /\ Alive(g) /\ Acts(g) /\ Fail("suspend", g)
  /\ suspended' = suspended \cup {g}
  /\ UNCHANGED <<pidFile, lockFile, pc, seen, up, token, stopping, cli, causes>>

Resume(g) ==
  /\ g \in suspended /\ suspended' = suspended \ {g}
  /\ UNCHANGED <<pidFile, lockFile, pc, seen, up, token, stopping, cli, causes, faults>>

\* A command: stop sends a SIGTERM; status only asks get_running_pid.
CliReads ==
  /\ cli = "idle" /\ cli' = "remove"
  /\ stopping' = stopping \cup IF Running(pidFile.text) THEN {pidFile.text} ELSE {}
  /\ UNCHANGED <<pidFile, lockFile, pc, seen, up, token, suspended, causes, faults>>

\* stop waits ten seconds at most and removes the PID file in any case.
CliRemoves ==
  /\ cli = "remove" /\ cli' = "done"
  /\ pidFile' = NoFile /\ Blame("unlisted", \E g \in Gateways : Uses(g, pidFile))
  /\ UNCHANGED <<lockFile, pc, seen, up, token, stopping, suspended, faults>>

-----------------------------------------------------------------------------
Progress(g) ==
  \/ Unlist(g) \/ OldHasGone(g) \/ KillOld(g) \/ ClearPid(g) \/ SweepLocks(g)
  \/ ReadLock(g) \/ RewriteLock(g) \/ UnlinkStale(g) \/ CreateLock(g) \/ FillLock(g) \/ Connect(g)
  \/ ListPid(g) \/ FillPid(g) \/ Retry(g) \/ Stop(g) \/ ReadOwnLock(g) \/ UnlinkOwn(g)
  \/ Leave(g) \/ Exit(g)

Next ==
  \/ \E g \in Gateways :
       \/ Start(g) \/ Progress(g) \/ ConnectFails(g) \/ FillFails(g) \/ Disconnect(g)
       \/ Crash(g) \/ Suspend(g) \/ Resume(g)
  \/ CliReads \/ CliRemoves

\* A process that has started goes on; starts, faults and commands just happen.
Fairness == \A g \in Gateways : WF_vars(Progress(g))

Spec == Init /\ [][Next]_vars /\ Fairness

-----------------------------------------------------------------------------
(* Properties.                                                                *)

Labels == {"off", "unlist", "await", "clear", "sweep", "lock", "rewrite", "unlink", "create", "fill",
           "refill", "connect", "list", "listing", "run", "release", "unlinkOwn", "leave", "exit", "dead"}
FileStates == [text : Gateways \cup {Missing, Blank}, open : SUBSET Gateways]
\* The variables keep their types; a signal goes to a process that was named.
TypeOK ==
  /\ pidFile \in FileStates /\ lockFile \in FileStates
  /\ pc \in [Gateways -> Labels]
  /\ seen \in [Gateways -> Gateways \cup {Missing, Blank}]
  /\ up \subseteq Gateways /\ stopping \subseteq Gateways /\ suspended \subseteq Gateways
  /\ token \in [Gateways -> {"none", "using", "queued"}]
  /\ cli \in {"idle", "remove", "done"}
  /\ causes \subseteq Causes /\ faults \subseteq FaultKinds \X Gateways

\* Two gateways use one token at once only if one went on without a lock it could not
\* write, or after a live process's lock was unlinked in one of the three ways the code
\* has: by a process that had read something else there or caught it half written,
\* because its owner was stopped by a signal, or by the sweep of a --replace.
TokenExclusive ==
  \A a, b \in Gateways :
    a # b /\ token[a] = "using" /\ token[b] = "using"
      => causes \cap {"raced", "suspended", "swept", "unlocked"} # {}

\* Two gateways of one home run at once only if they started together (the check
\* comes long before the PID file is written), a live one's PID file was removed
\* by another's start, stop or exit or by the command line, or the live one did not
\* look like a gateway to the one that started.
OneInstance ==
  \A a, b \in up : a # b => causes \cap {"together", "unlisted", "unrecognized"} # {}

Alone(g) == \A h \in Gateways \ {g} : pc[h] = "dead"

\* Whatever crashed processes have left behind, an unfinished lock file included, a
\* gateway that starts when all others have ended gets the token, unless a fault of
\* its own or a stop comes first.
Recovers ==
  (\E g \in Gateways : Alone(g) /\ pc[g] = "unlist")
    ~> \E g \in Gateways :
         Alone(g) /\ (token[g] = "using" \/ g \in stopping \/ \E k \in FaultKinds : <<k, g>> \in faults)
=============================================================================
