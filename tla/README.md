# MimirAether: TLA+ specifications

MimirAether is a self-hosted agent runtime: a gateway receives messages from about
25 chat platforms, runs one language-model agent per chat session, and lets agents
execute tools, wake up on their own and be approved, interrupted and restarted by
their users. This directory holds TLA+ models of the parts whose correctness
depends on the order in which coroutines, threads and files meet, the TLC runs that
check them, and TLAPS proofs of their main invariants. `PROJECT.json` maps every
definition to the lines it models.

    tlc -workers 2 -config DispatchPhotos.cfg MCSessionDispatch
    tlapm SessionDispatchProofs.tla
    tlapm WakeGateProofs.tla
    tlapm ApprovalProofs.tla
    tlapm ProcessRegistryProofs.tla
    tlapm InboxAccountProofs.tla
    tlapm CronJobsProofs.tla
    tlapm GatewayInstancesProofs.tla

## 1. Inventory

| part (source) | state it keeps | operations | what makes it correct |
|---|---|---|---|
| **session dispatch**: `gateway/platforms/base.py`, `gateway/router/core_route_mixin.py`, `agent_route_mixin.py`, `gateway/agent_mixin.py`, `session_mixin.py` | per session: adapter guard `_active_sessions`, one-slot `_pending_messages`, runner lock `_running_agents` with its sentinel; the cached agent's interrupt flag | message arrives, background task, claim, run, follow-up recursion, hand-off between nested frames, `/stop`, inactivity timeout, drain, cancellation | a message is answered once or told its fate; locks have owners and are released; no turn starts during shutdown |
| **wake gate**: `gateway/wake_gate.py`, used by `agent_mixin.run_sync` | holder per session, remembered event fingerprints, counters | acquire, release, wait, prune | one autonomous wake-up per session, no duplicate within the window, counters agree with decisions |
| **approval**: `tools/approval.py`, `/approve`, `/deny`, `/yolo` | per session: callback, queue of waiting threads with an event each, trusted keys; permanent keys, `config.yaml` | check, enqueue, notify, wait, resolve, dismiss, remember, save, reload | a dangerous command runs only on its own yes or on trust; nobody waits for ever |
| **inbox claim**: `deploy/data-surface/buzz_inbox_claim.py`, `buzz-inbox-watcher.sh`, `gateway/inbox_claim_gate.py`, `platforms/api_server.py` | the inbox file, the cursors `offset` and `dispatched`, one claim file, the watcher's lock file | count and read cursors, reserve, post, record, commit, abort, mark states; declare a line to the API | a line has one owner at a time, is not forgotten behind the cursor, and is handed to a run |
| **process registry**: `tools/process_registry.py`, `tools/terminal_tool.py`, `gateway/process_mixin.py` | `_running`, `_finished`, the completion queue, consumed marks, the checkpoint file | spawn, read to the end, poll, kill, refresh, move, prune, checkpoint, recover, watch | an end is announced once, moved out of the running ones, and told to the agent |
| **cron**: `cron/jobs.py`, `cron/scheduler.py`, `gateway/cron_mixin.py` | `jobs.json` (no lock), the tick's lock file, batches on the event loop | tick, run a batch, mark a run, mark a delivery, create, pause, resume, trigger, change, remove | two gateways do not run one job at once, no run is charged that did not happen, a due job is run |
| **pid file, token locks**: `gateway/status.py`, `start_gateway` (`run.py`), `_acquire_platform_lock` (`platforms/base.py`), `mimir_cli/gateway.py` | the PID file, one lock file per bot token, each process's place | check and replace, sweep, acquire, take over, connect, list, retry, release, leave; stop command | one gateway per home, of these one per token, and no crash keeps the next one out |
| compression cooldown: `agent/compress_cooldown.py` | failure count and deadline in one file under `flock` | record failure/success, is_cooling | overlapping attempts are counted once; back-off bounded |
| pairing: `gateway/pairing.py` | pending codes, approved users, lock-out in JSON files | request, approve, revoke, rate limit | no approved user is lost between gateway and CLI |
| credential pool: `agent/credential_pool.py` | keys with cool-downs | select, mark exhausted, refresh | an exhausted key rests, a pool is never stuck |
| session store, persistent store: `gateway/session.py`, `agent/persistent_store.py` | session index, transcripts | create, reset, expire, save | a session key has one live session |
| iteration budget, retries: `agent/iteration_budget.py`, `agent/retry_utils.py` | counters | consume, refund, delay | bounds |
| platform reconnection: `gateway/session_mixin.py` | failed platforms with attempts | retry with back-off | every retryable platform is retried |
| conversation loop: `agent/core_loop.py`, `agent_loop.py` | messages, interrupt flag | model call, tool calls, compression | (only interrupt and end are modelled, inside session dispatch) |
| platform adapters, CLI, skills, environments, training, deploy scripts | | | not modelled: I/O of external services, interactive text, content |

How they meet: an adapter's `handle_message` spawns a background task that calls the
runner's `_handle_message`; the runner claims the session and `_run_agent` submits
`run_sync` to a thread pool. `run_sync` asks the wake gate, registers the approval
callback and runs the conversation, whose tools block in the approval queue.
`/approve`, `/deny` and `/stop` enter beside the guard of the session (base.py:1559).
Coroutines share the adapter's and runner's dictionaries without locks and rely on
"no await in between"; threads share the gate and the queue under locks; processes
share files, mostly without: the gateway, the command line and a replacing gateway
write one `jobs.json`; the watcher script and the API meet in the claim tool, whose
commands hold one `flock` while the script's own reads and writes of the cursors do
not. A background process is known to its spawner, its reader thread, whoever kills
or polls it and the gateway's watcher task, which meet in the registry's lock but do
half of what they do outside it; a restart knows only the checkpoint.

The hard behaviours are listed, with their lines, under `hazards` in `PROJECT.json`.

## 2. Modules

| module | models |
|---|---|
| `DispatchContract` | what the gateway promises the senders of one chat session |
| `SessionDispatch`, `SessionDispatchProofs` | how it keeps it: one session of the gateway; and the proofs |
| `WakeGate`, `WakeGateProofs` | the gate, and the proofs about it |
| `ApprovalContract` | what the approval queue promises |
| `ApprovalQueue`, `ApprovalProofs` | how it keeps it: threads, events, time-outs, files; and the proofs |
| `InboxClaim`, `InboxClaimProofs`, `InboxAccountProofs` | the two channels that wake the agent for a line of the inbox; and the proofs |
| `ProcessRegistry`, `ProcessRegistryProofs` | background processes from spawn to notice, with restarts; and the proofs |
| `CronJobs`, `CronJobsProofs` | the job table, the ticks of several gateways, their batches, the scripts they leave behind, and editors; and the proofs |
| `GatewayInstances`, `GatewayInstancesProofs` | the gateway processes of one home, their PID file and one token's lock; and the proofs |
| `MC*` | the symmetry sets and module each configuration is run with |

**SessionDispatch.** All dictionaries are keyed by the session, so one session is the
model. A step is the code between two awaits. A task is named by the message whose
arrival spawned it, an agent run by the message it answers. `pc[t]` is where a
background task is: *created, hook, emit, setup, run, followup, unwind, persist,
reply, handoff, error, closing*. `stack[t]` are the open `_run_agent` frames,
`outer[t]` counts the frames of `_process_message_background` around the current one
(base.py:1864 says "new background task", but the code calls itself). `thread[m]` is
the executor thread of a run; the inactivity timeout leaves it running. As a rule
that timeout never comes: `run_agent.py` starts a heartbeat that reports activity every 30
seconds while a conversation lasts, hung or not, and the poll counts no idle time before
there is an agent. It stays possible (a shorter time-out, an agent that hangs outside its
conversation), but nothing relies on it. `/queue` beside a running agent does not wait
itself: its argument does, as a text event (`QueueArgument`), unless it has none. `plain`
are the `/queue` messages that stand for such a text; an argument that is a command keeps
its slash, and one that is `/stop` is left out. A cancellation is swallowed where the code
catches it: by a task that awaits its typing indicator, and by one that awaits the stream
of a first response before its follow-up (agent_mixin.py:2032-2039; `CancelTasks` leaves
open which). `fate[m]`
is history: what the sender could have observed. Photos, commands that become turns,
`/queue` and `/stop` are the classes of messages the code tells apart; which command
stands for them is not modelled, nor are media, transcripts and delivery formats.

**DispatchContract** knows no guards, locks, frames or threads: a slot, a hand per task,
the messages a run was begun for, whether the gateway shuts down, and fates. A message
leaves the slot or a hand only by an action of the contract, which says for which reason
it may meet which fate: only a photo is merged, and only into a photo; only a command that
needs no run is executed; refusals and cancellations come only with the shutdown; a command
that waits is never taken as an agent's next input, unless it waits as the words of its
argument (`spoken`); an answer comes from the run begun for the
message, in the hand that holds it. `ImplementsContract` is the refinement: `pending` is
the slot, `plain` is `spoken`, `Hand(t)` is what task `t` carries or the message of its innermost run, `Begun`
the messages with an executor thread.

**WakeGate.** `ReadClock` is separate from the decision because `acquire` reads the
clock before it takes the lock; the decision and its changes are one step, as they
are under the lock. `Kept` is the result of the pruning loop; which of two equally
old entries goes first depends on dictionary order and is left open. `Release`,
`Continue` and `Finish` are `run_sync`'s finally clause and the follow-up recursion
around it. `grants` is history. The metrics file is not modelled.

**ApprovalQueue.** A step is one critical section of `_lock` or one effect outside
it. `Resolve` pops under the lock and `HandOut` sets one result and event after it;
the pair result/event is one step because a thread reads the result only after it has
seen the event. `TurnEnds` is `unregister_gateway_notify`, which drops callback and
queue whichever turn they belong to. Saving is three steps (load with the copy of the
list, truncate, write) because another thread or a crash may come between them; a text
written over another's that arrived in between may win, mix or not parse
(`Overlaid`). The gateway in mode `manual` or `smart` is modelled (smart always
escalates, approval.py:540); the prompt of the CLI is not, nor writers of
`config.yaml` outside approval.py.

**ApprovalContract** knows no threads: a line of requests, verdicts, trust and
outcomes. `ImplementsContract` is the refinement, with `queue` as the line and as
verdict what a request has been given or will be handed out.

**InboxClaim.** A command of `buzz_inbox_claim.py` is one step, since it runs under the
lock, with two exceptions: `reserve` may die between its two writes (`CrashInReserve`),
and marking the states of lines copies the inbox file and replaces it later
(`StartMarking`, `ReplaceInbox`). The script's counting, its reading of the cursors and
its writing of `dispatched` are steps of their own. `Reservation` is what `reserve` answers
and leaves; a take-over is granted, but the script, which looks for the word CLAIMED,
keeps its own range. `job` is where an owner is and the script's `$offset` and `$total`;
`held`, `woken` and `overlooked` are history. Senders, the run that closes lines and
the rotation of the file are outside the repository and modelled from what the tool
expects of them. The text of lines and states is not modelled (only that the file is
replaced), nor are `check`, `show`, `mark-state`, the back-fill of old states and the
exit for a missing ledger, which is taken to exist.

**ProcessRegistry.** A step is one critical section of the registry's lock or one effect
outside it. Up to four threads work on a process: its spawner, its reader (or the poller
of a sandbox), a killer and whoever probes a recovered pid. `was` is the local variable
by which `_move_to_finished` knows whether it was the first; `leaked` and `missed` are
history. The snapshot of the checkpoint and its writing are two steps, and a restart reads
whatever was written last. Pruning may drop any finished process, as the age is counted
from the start (process_registry.py:957). Every process is spawned with
`notify_on_complete`. Output, watch patterns and standard input are not modelled, and a
PTY is a local process.

**CronJobs.** Each save is a load with the change, a truncation and a write (`Truncate`,
`WriteTable`); a reader in between finds an empty file, as `load_jobs` answers one. The
ticker thread of a gateway reads the due jobs, tries the lock, hands the batch to the loop
and waits for at most an hour. `LoopFree` says that `mark_job_run` has no await. The next
time of a repeating job is the next value of the clock. A job in `Scripts` runs a script, which
the gateway starts in a session of its own (cron_mixin.py:998): when the gateway ends it may
go on (`orphans`) and nobody kills it at its time-out any more. The others run an agent. A run
may fail before it is marked (`"unmarked"`), and a result is delivered although its job is
gone. The parsing of schedules, scripts,
delivery targets and the output files are not modelled.

**GatewayInstances.** A file has a text and those who have it open: opening truncates, a
write reaches it only while it has not been unlinked since (`Opened`, `Written`). Reading,
unlinking, creating and writing are steps of their own, because the code locks nothing
around them; `get_running_pid`'s check is one step with its read, and so is the lock's, as
the outcomes of a later check (the record's owner gone in between) are those of a later
read. `causes` is history: by which window of the code a live process has lost its file or
gone without. `seen` is what a process has read. A process is one start, and dead
when its PID is gone or reused (PID and start time together; the PID-only records of
systems without `/proc` are not modelled). `Unrecognized` are processes whose command line and
argv contain none of the names `get_running_pid` looks for (status.py:440-443): they are not
believed though alive. All processes belong to one user, so no signal is refused (status.py:430
would take that for death), and to one home, since the lock directory is the home's unless an
environment variable says otherwise (status.py:52-59). Each gateway has the platform with the token; whether it has
others is left open where the code asks for it. `gateway_state.json` only reports.

## 3. Runs

| run | instance | shows |
|---|---|---|
| `dispatch_photos` | 1 text, 2 photos, follow-up depth 1, 2 nested frames | `HeldExactlyOnce`: a message whose fate is open is in exactly one place; `AnsweredAtMostOnce`; `LocksHaveOwners`; `ImplementsContract` |
| `dispatch_commands` | 1 text, 1 `/queue`, 1 `/stop`, shutdown in queue mode at any moment | the same, `NoTurnAdmittedWhileDraining`; `TasksEnd` and `LockReleased` if the agents' runs return; `StopCompletes` also beside hung agents |
| `gate_safety` | 3 runs, 2 sessions, 2 events, lease and window 1, 3 clock values, room for 1 event | `SingleFlight`, `HoldersAreInside`, `OnlyOwnerReleases`, `SeenBounded`, `NoDuplicateGrant`, `CountersAddUp` |
| `approval` | 2 requests, 2 overlapping turns, 3 keys, 1 restart | `LineMatchesWaiters`, `ImplementsContract`, `RequestsSettle` |
| `inbox_claims` | 2 watchers, 1 request, 2 messages, 1 kind of fault | `Exclusive`: two owners of one message only after a lapse or changed line numbers; `Accounted`: no line behind the cursor is forgotten; `Delivered` |
| `processes` | a local and a sandboxed process, room for 1, 1 upset (kill, failed start, lost reader or restart) | `AnnouncedOnce`, `EndsAreMoved`, `EndIsTold` |
| `cron_jobs` | 2 gateways, 1 editor, a repeating script limited to 2 runs and a one-time agent job, clock to 1, 1 kind of fault | `NeverTogether`: two runs of a job overlap only after an overrun, and only a script outlives its gateway; `NeverOvercounted`; `DueIsRun` if the agents' runs end |
| `gateway_instances` | 2 gateways, one of them not recognised, 1 with `--replace`, 1 command, 1 fault (crash, suspension, failed or lost connection, failed write) | `TokenExclusive` and `OneInstance`: two gateways use a token, or run, only through the windows named; `Recovers` |
| `dispatch_stranded`, `dispatch_two_agents`, `inbox_woken_twice`, `approval_forgets` | the smallest that show it | the code does not do what a comment or help text says (see findings) |

Bounds. Each is a CONSTANT. Three messages are enough for one being processed, one
waiting and one replacing, merging or overtaking; depth 1 reaches both sides of
`_MAX_INTERRUPT_DEPTH`, and two nested frames both sides of the recursion limit. Two
sessions and three runs are enough for a holder, a rival of the same session and a
bystander whose session must stay untouched; three clock values put an event before,
at and after the end of lease and window; room for one event makes the second evict
the first. Two requests make "oldest" differ from "all", two turns overlap, one
restart cuts any step. Two watcher names make one watcher's claim a rival's obstacle, two
messages let one be claimed and one arrive late, and each kind of fault (crash, failing
tool, refusal, late answer, lapsed claim, bad request, rotation) occurs once, any of them
with refusals. Room for one process makes the second spawn prune the first. Two gateways
and one editor give three writers of the table; a clock from 0 to 1 has every job before
and at its time, and a repeating job due again only by a trigger or a stale list. Three
gateways are an owner, one that takes over and one that comes between them; one fault
leaves any file behind. Taking one cause out of `TokenExclusive` or `OneInstance`
makes TLC find a violation by it alone, so each window listed is one the code has.
`CHECK_DEADLOCK FALSE`: every message may have met its fate,
every run be done, the gateway be stopped. Symmetry only where no liveness is checked.

Fairness. Weak fairness of every task's steps: asyncio resumes every runnable
coroutine. The agent threads have no fairness, and neither has `InactivityTimeout`, since
the heartbeat keeps a hung agent from ever looking idle. What waits for a run is therefore
promised only if runs return (`RunsReturn`, a premise of `TasksEnd` and `LockReleased`, not a
fairness assumption). `stop()` is driven by its own time-outs, and `StopCompletes` has no such
premise: its one exception is a task that went on to a follow-up in spite of its cancellation
and waits there for a hung agent. (A stop by a signal is cut short by the exit watchdog,
run.py:1205, which is not modelled; `/restart` and a stop after a fatal adapter error have
none.) In `ApprovalQueue` each thread's steps are weakly fair because `wait` has a
time-out; users, turns, the restart and the handing out of answers are not fair. Gate
calls never block, so the gate has no fairness. `InboxClaim`: owners go on with what they
have begun, the timer starts a watcher again and again, lock files and claims without an
owner age; senders, closing runs and faults are not fair. `ProcessRegistry`: threads run
and the gateway's watcher polls (every few seconds, which also probes a recovered
process); that a process ends is not assumed. `CronJobs`: tickers, event loops and
editors' processes run, and a script ends, since its gateway kills it at its time-out; an agent's
run need not, so `DueIsRun` has the premise `AgentsReturn`; orphans, the clock, new edits and
crashes are not fair. `GatewayInstances`: a started
process goes on (start, stop, retries are sequential code with time-outs); starts, faults,
resuming and commands are not fair.

### Findings

* **A message can be stranded** (`dispatch_stranded`): queued while the task awaits its
  typing indicator in its last step, it waits for a task that is already leaving.
* **Two agents for one session** (`dispatch_two_agents`): a command awaited its hook and
  claims without looking again.
* **A wake-up for a line already dispatched** (`inbox_woken_twice`): the API's gate reserves
  whatever is new, not the line the request declares; it then wakes the agent for the old
  line, and the new one is committed unseen.
* **Concurrent "always" answers lose an entry** of `config.yaml` (`approval_forgets`).

The others have no run; `findings` in `PROJECT.json` quotes code and documentation.

* Dispatch: "queued for the next turn after it comes back" is not kept across a restart.
* Wake gate: a wake-up's continuation does not hold the slot it is documented to hold.
* Inbox: after an owner died the watcher exits before `reserve` could take its claim over
  (dispatched >= total), so the lines wait for another message; aborting a claim that was
  taken over leaves its lines behind the cursor (`overlooked`); the script handles the
  cursors outside the lock, and lines claimed between its count and its read look like a
  rotation (`"reset"`); an append during the replacement of the file is swallowed; a
  request answered 400 keeps its claim.
* Registry: the watcher's metadata is set after the checkpoint was written, so a restart
  forgets it; a process that ends before it is registered stays among the running ones
  for ever (`leaked`); the thirty minutes of a finished process count from its start, so a
  watcher may miss it (`missed`).
* Cron: the due list is read before the lock is taken and not again, so a second gateway
  runs the same jobs once more; a script outlives a gateway that is killed, and the next gateway
  runs the job again beside it (`NeverTogether` names this and the overlong batch); a trigger
  or a pause given while the job runs is undone by `mark_job_run`.
* Hung agents: "caught and killed" after the inactivity timeout (agent_mixin.py:1752) does not
  happen, since the heartbeat reports activity for them. The guard of the session stays with the
  hung task, also after `/stop`, and a hung cron job is first again in every hourly batch,
  so that the jobs behind it never run.
* Instances: "prevent two gateways" fails for gateways that start together, since the PID file
  is written only after every platform has connected, after anyone has removed a file that is not
  its own, and beside a gateway whose command line contains none of the names looked for; "prevent multiple local gateways" from using a token fails when two judge one
  lock stale, when a lock is found empty while it is being written, and under `--replace`;
  gateways of different homes, which the same comment names, do not even share a lock directory.

Met while modelling, without a run of their own: the guard is
deleted before an await, so a second task can start (base.py:1858); a `/queue` that
the adapter itself puts into the slot (base.py:1598), because the guard is held, is discarded as
a command later, while one that reaches the runner beside a running agent waits as text;
`wait_for_slot` has no limit of waiters.

## 4. Proofs

TLC checks instances; TLAPS proves the following for every value of the constants.

**WakeGateProofs** assumes `GateAssumption` (finite sets of sessions and events,
naturals) and proves, for any number of runs: `TypeCorrect`; `HoldersCorrect`,
`MutualExclusion` and `ReleaseByOwner`; `MemoryBounded`; `Deduplicated`;
`CountersCorrect`.

* Mutual exclusion rests on `SlotInv` (`TypeOK /\ HoldersAreInside`): the holder of a
  session is a run between grant and release and conversely. `SingleFlight` alone is not
  inductive: a grant looks at `holders`, not at the other runs.
* `Deduplicated` rests on `DedupInv`: readings and grants are in the past, remembered
  entries are grants, and every grant that is neither out of the window nor outnumbered
  by newer ones is still remembered. The last conjunct is what survives both prunings.
* `CountersCorrect` rests on `CounterInv`: a run grants once, so the number of grants grows with
  the counter.

**ApprovalProofs** assumes `ApprovalAssumption` (a command raises at most one finding of
the scan and one pattern; finitely many restarts) and proves, for any number of requests,
turns and keys:

* `LineCorrect`: `LineMatchesWaiters` is not inductive. `LineInv` adds what it rests on:
  those being answered are distinct, have left the queue and are not yet woken; a thread
  that has not joined has no event set; one that writes an answer down was given an
  answer to remember. Without that a time-out beside an answer could leave a ghost.
* `Implements`: every step maps to a step of `ApprovalContract` or is not seen by it. That
  a command allowed on trust really has all its keys trusted needs `TrustInv`: each key
  is still to be looked up or written down, is to be asked about, or is trusted; and the
  file never holds a key that was not trusted permanently, so a restart adds no trust.
* The lemmas on sequences (`SplitRange`, `TailRange`, `WithoutRange`) say what the slices
  and removals of the queue keep.

**ProcessRegistryProofs** assumes `RegistryAssumption` (finitely many processes, naturals)
and proves, for any number of processes, any capacity and any number of upsets:

* `TypesHold`.
* `Announcement` (`AnnouncedOnce`) and `Moving` (`EndsAreMoved`), both from the invariant `Owned`.
  "At most one announcement" is not inductive: a second thread may be on its way. `Owned`
  follows the right to announce (`Token`), which is in exactly one place: with the spawner
  that has not registered the process, with its entry in `running`, with the one thread that popped it
  (`was`), or spent in the queue. An ended process among the running ones has a thread
  about to move it, or nobody was left when it was registered.

**InboxClaimProofs** and **InboxAccountProofs** assume `ConstantsAreDistinct` and prove, for any
number of watcher runs, requests, lines and faults:

* `TypesHold`, with `Numbered`: a claim in the file starts at line 1 or later.
* `OneOwnerPerLine` (`Exclusive`) from `OneOwner`. That the sets `held` are disjoint is
  not inductive, since reserve looks at files and not at other owners. `Ownership` relates the
  two: whoever holds lines has the claim over them, or their run has closed them; and
  nobody else holds lines of the claim. It needs `LapsedIsLeft` (only the claim of a run that is
  gone can lapse, as long as no owner is slow) for the take-over, and `WithinInbox` (no cursor
  and no range beyond the file) so that the lock's own rotation check never fires.
* `NoLineForgotten` (`Accounted`) from `Account`. `Books` says which lines are settled: those
  closed, those before the claim, and those handed out but for the claim's own. `Script`
  follows what a watcher run has in hand outside the lock, between reading the cursors and
  writing `dispatched` back; `Closing` says why dropping the claim leaves nothing behind: a
  commit comes after the write of the cursor, an abort either puts the cursor back or finds
  it where another run, which was accepted, has put it. Slow owners, zeroed cursors and a
  reserve that dies between its two writes are included.

**CronJobsProofs** assumes `CronAssumption` (finitely many gateways and slots, editors that
are not batches, naturals) and proves, for any number of gateways, editors, jobs and crashes:

* `TypesHold`.
* `RunsApart` (`NeverTogether`) from `Guarded`: until a batch outlives the tick that waits for
  it, a ticker that waits holds the lock, and every batch that is not idle is waited for.
  The overlap itself says nothing about the lock, so it cannot be carried from step to step.
  That only a crash leaves a script behind (`LeftByCrash`) is an invariant of its own.
* `ChargesAreRuns` (`NeverOvercounted`) from `Charged`: in the file, in every loaded copy and
  in the hands of `mark_job_run`, the number of runs of a job is at most the runs started
  minus those still going (`Room`). Stale copies overwrite each other freely: the bound holds
  of each copy, so it holds of whichever wins.

**SessionDispatchProofs** assumes `DispatchAssumption` (photos, prompts and stops are
different messages; `/queue` is a prompt; naturals) and proves, for any number of messages
of each kind, any follow-up and nesting depth, with and without a shutdown and its queue:

* `TypesHold`, with `Carried`: a task where an event is processed has one, and what waits
  inline is a stop that is its own event.
  Only a `/queue` is ever in `plain`.
* `NoneAdmitted` (`NoTurnAdmittedWhileDraining`): each of the three ways into a turn looks at
  the drain in the step that admits.
* `LocksOwned` (`LocksHaveOwners`) from `Owned`. It is not inductive: `track_agent` registers an
  agent later, so one must know that its run still has a frame (`Tracked`), and that a
  task has frames exactly where it is inside a turn (`Nested`), so that no exit from the handler
  leaves one behind. `/stop` and foreign finally clauses only remove entries.
* `HeldOnce` (`HeldExactlyOnce`) and `AnsweredOnce` (`AnsweredAtMostOnce`) from `InOnePlace`. Counting
  holders says nothing about the runs around the innermost one: their messages
  must have been answered before the nested run began, or a timeout of the inner frame would
  leave the outer one's message open. `Answering` says so, and that a thread that was
  begun belongs to a settled message or to the innermost run of a task, so nobody can
  begin it again; `Handed` says which hands hold what. The lemma `PassOn` is the heart: slot,
  one hand and one arriving message may exchange what they hold in any way, as long as exactly
  those still held are left waiting; `MoveHanded` and `StillHanded` apply it to the steps. A
  cancellation opens many hands at once (`CancelOpens`): what `CancelTasks` writes into `fate`
  is what those hands held, whichever tasks swallowed their cancellation, since a frame that is
  not innermost holds nothing any more.
* `Implements` (`ImplementsContract`): by `InOnePlace` the message in hand before a run has no
  thread (`InHand`), so that the contract's `Fresh` holds where a message is put back or
  declined. `Spellings` translates the commands of the model, less
  those that stand for words, into those of the contract. Each task step maps to one action of the
  contract or is not seen; a cancellation maps
  to `Cancel` with the set of tasks whose hands it opens.

**GatewayInstancesProofs** assumes nothing but that the special values are distinct
(`InstancesAssumption`) and proves, for any number of gateways, commands and faults:

* `TypesHold`.
* `OneGateway` (`OneInstance`) from `OneAtATime`: as long as no guard was passed together and no
  live process's PID file was taken away or not recognised, one process starts at a time, next to a running one only
  while it waits for that one to end, and who runs is named by the file. "At most one is
  up" alone is not inductive, as a second one may have passed the check.
* `OneUser` (`TokenExclusive`) from `OwnersHaveLocks`: as long as no live lock was taken and nobody
  went on without one, whoever connects or uses the token is named by the lock, and who
  writes it has created it and is alone (`Filling`). `Read` says what a process that is about to
  unlink a lock has seen in it: its own name, or that of one that was dead or suspended.

Both theorems say that the windows listed in `causes` are all there are, for any number of
processes; the runs show that each of them occurs.

Only model-checked: liveness (`TasksEnd`, `LockReleased`, `StopCompletes`, `RequestsSettle`,
`Delivered`, `EndIsTold`, `DueIsRun`, `Recovers`), since fairness and ENABLED are out of the
prover's reach. Every safety property of the passing runs has a theorem.

## 5. Not modelled

The repository is large (660 implementation files), and most of it is what a state
machine says nothing useful about: clients of some 25 services, prompts, the text of the
command line and its set-up, skills, training environments and migration scripts. These
have no state that two actors share, or leave the ordering to an external service. The
models cover the places where coroutines, threads, processes and files of the gateway
meet. Of those, still open:

* compression cooldown, pairing, persistent store: the same two shapes (a file
  changed without a lock, a lock that is given up or taken over) as `CronJobs` and
  `GatewayInstances`, with retry counters and lock-outs of their own;
* the credential pool, whose correctness is mostly in how provider errors are read;
* the metrics file of the wake gate, and the limit on waiters it documents;
* reconnection of platforms beyond its use of the token's lock, which meets only adapters.

`PROJECT.json` gives the reason for each component and each hazard without a property.

## 6. Plan

1. *(done)* `SessionDispatch`, `WakeGate`, `ApprovalQueue` with `ApprovalContract`; proofs of
   the gate and of the approval queue.
2. *(done)* `InboxClaim`, `ProcessRegistry`, `CronJobs`, `GatewayInstances`; proofs of all their
   safety properties.
3. *(done)* Proofs of all safety properties of `SessionDispatch`; `DispatchContract` and the proof
   that `SessionDispatch` implements it.
4. `CompressCooldown` (the lock that fails open, attempt identifiers, back-off), `Pairing`,
   `PersistentStore`.
5. Composition of `SessionDispatch` with `WakeGate`: interactive and autonomous runs of a session.
