--------------------------- MODULE SessionDispatch ---------------------------
(***************************************************************************)
(* How the message gateway serialises the messages of ONE chat session.    *)
(*                                                                         *)
(* Two guards protect a session.  The platform adapter keeps               *)
(* _active_sessions and a one-slot _pending_messages (gateway/platforms/   *)
(* base.py); the runner keeps _running_agents (gateway/router/             *)
(* core_route_mixin.py, gateway/agent_mixin.py).  All four dictionaries    *)
(* are keyed by the session key, so one session is the whole model.        *)
(*                                                                         *)
(* Coroutines run on one event loop: a step here is the code between two   *)
(* awaits.  Agents run on executor threads, which interleave freely.  A    *)
(* background task is named by the message whose arrival spawned it; a     *)
(* run of the agent by the message it answers.  Consecutive runs of a      *)
(* session reuse one cached AIAgent, so its interrupt flag is one          *)
(* variable.                                                               *)
(***************************************************************************)
EXTENDS Naturals, Sequences, FiniteSets, Functions

CONSTANTS
  Msgs,               \* the inbound events of the session
  Photos,             \* those that are photos
  Prompts,            \* slash commands that become agent turns: /plan, /queue
  Queues,             \* those Prompts that are /queue
  Stops,              \* /stop: bypasses the adapter's guard
  MaxInterruptDepth,  \* _MAX_INTERRUPT_DEPTH
  MaxNesting,         \* nested calls the interpreter's recursion limit allows
  QueueDuringDrain,   \* _queue_during_drain_enabled(): restart in "queue" mode
  MayShutDown,        \* whether stop() is called in this instance
  NoMsg,              \* empty _pending_messages / _running_agents entry
  Sentinel            \* _AGENT_PENDING_SENTINEL

ASSUME DispatchAssumption ==
  /\ Photos \subseteq Msgs /\ Prompts \subseteq Msgs /\ Stops \subseteq Msgs
  /\ Queues \subseteq Prompts
  /\ Photos \cap Prompts = {} /\ Photos \cap Stops = {} /\ Prompts \cap Stops = {}
  /\ MaxInterruptDepth \in Nat /\ MaxNesting \in Nat
  /\ QueueDuringDrain \in BOOLEAN /\ MayShutDown \in BOOLEAN
  /\ NoMsg \notin Msgs /\ Sentinel \notin Msgs /\ NoMsg # Sentinel

VARIABLES
  guard,        \* _active_sessions entry: NoGuard or [owner, set]
  pending,      \* _pending_messages entry of the adapter
  running,      \* _running_agents entry: NoMsg, Sentinel or the run's message
  runningTs,    \* whether _running_agents_ts has an entry
  pc,           \* where each background (or inline) task is
  cur,          \* the event the innermost frame of each task processes
  outer,        \* outer _process_message_background frames still to finish
  stack,        \* open _run_agent frames of each task, innermost last
  failing,      \* an exception is unwinding the task
  thread,       \* executor thread of each run
  interrupted,  \* AIAgent._interrupt_requested
  armed,        \* track_agent() of this run has yet to register the agent
  watching,     \* monitor_for_interrupt() of this run has yet to fire
  phase,        \* gateway lifecycle
  gathered,     \* tasks cancel_background_tasks() waits for
  plain,        \* /queue commands whose argument waits as a text event instead
  fate          \* history: what became of each message

adapterVars == <<guard, pending>>
lockVars    == <<running, runningTs>>
taskVars    == <<pc, cur, outer, stack, failing>>
agentVars   == <<thread, interrupted, armed, watching>>
vars == <<guard, pending, running, runningTs, pc, cur, outer, stack, failing,
          thread, interrupted, armed, watching, phase, gathered, plain, fate>>

NoGuard  == [owner |-> NoMsg, set |-> FALSE]
Guards   == [owner: Msgs \cup {NoMsg}, set: BOOLEAN]
PCs      == {"idle", "created", "hook", "emit", "setup", "run", "followup", "unwind",
             "persist", "reply", "handoff", "error", "closing", "inline", "done"}
Threads  == {"none", "queued", "built", "running", "done", "empty"}
Phases   == {"up", "draining", "interrupting", "cancelling", "stopped"}
Fates    == {"unsent", "live", "promised", "answered", "merged", "replaced", "discarded", "rejected",
             "swallowed", "failed", "executed"}

Draining == phase # "up"
Texts    == Msgs \ (Photos \cup Prompts \cup Stops)

\* What an event is read as: a command by its slash, words by the agent.
Slashes  == Prompts \ plain
Words    == Texts \cup plain

\* A task runs on the event loop until "done"; an inline command is not a task.
Busy(t)  == pc[t] \notin {"idle", "done"}
Top(t)   == stack[t][Len(stack[t])]
Frames   == UNION {Range(stack[t]) : t \in Msgs}

\* Where a task holds an event that no run has taken yet.
Carrying == {"created", "hook", "emit", "setup", "followup", "handoff", "inline"}
Waiting  == {"live", "promised"}

Init ==
  /\ guard = NoGuard /\ pending = NoMsg
  /\ running = NoMsg /\ runningTs = FALSE
  /\ pc = [t \in Msgs |-> "idle"]
  /\ cur = [t \in Msgs |-> NoMsg]
  /\ outer = [t \in Msgs |-> 0]
  /\ stack = [t \in Msgs |-> <<>>]
  /\ failing = [t \in Msgs |-> FALSE]
  /\ thread = [m \in Msgs |-> "none"]
  /\ interrupted = FALSE
  /\ armed = [m \in Msgs |-> FALSE]
  /\ watching = [m \in Msgs |-> FALSE]
  /\ phase = "up" /\ gathered = {} /\ plain = {}
  /\ fate = [m \in Msgs |-> "unsent"]

-----------------------------------------------------------------------------
(* The pending slot holds one event.  A photo joins a waiting photo; any   *)
(* other event replaces the one that waits.                                 *)

\* m is assigned to the slot outright; as is "promised" if its sender is told
\* that it will be answered after the restart, "live" otherwise.
ReplacePending(m, as) ==
  /\ pending' = m
  /\ fate' = [x \in Msgs |-> IF x = m THEN as
                             ELSE IF x = pending THEN "replaced" ELSE fate[x]]

\* merge_pending_message_event
MergeIntoAny(m, as) ==
  IF pending # NoMsg /\ m \in Photos
  THEN pending' = pending /\ fate' = [fate EXCEPT ![m] = "merged"]
  ELSE ReplacePending(m, as)
MergePending(m, as) ==
  IF pending \in Photos /\ m \in Photos
  THEN pending' = pending /\ fate' = [fate EXCEPT ![m] = "merged"]
  ELSE ReplacePending(m, as)

\* A message that finds the gateway draining: queued with a promise, or refused.
QueueOrRefuse(m) ==
  IF QueueDuringDrain THEN MergePending(m, "promised")
  ELSE fate' = [fate EXCEPT ![m] = "rejected"] /\ UNCHANGED pending

\* The slot's event is taken by whoever will process it.
PeekPending == UNCHANGED pending
TakePending == pending' = NoMsg

\* get_pending_message: consume and discard
DiscardPending ==
  /\ TakePending
  /\ fate' = [x \in Msgs |-> IF x = pending THEN "discarded" ELSE fate[x]]

Goto(t, where) == pc' = [pc EXCEPT ![t] = where]

-----------------------------------------------------------------------------
(* The adapter: handle_message                                             *)

\* No guard: install it and spawn the background task in the same step.
ArriveIdle(m) ==
  /\ phase # "stopped" /\ fate[m] = "unsent"
  /\ guard = NoGuard
  /\ guard' = [owner |-> m, set |-> FALSE]
  /\ Goto(m, "created")
  /\ cur' = [cur EXCEPT ![m] = m]
  /\ fate' = [fate EXCEPT ![m] = "live"]
  /\ UNCHANGED <<pending, lockVars, outer, stack, failing, agentVars, phase, gathered, plain>>

\* Guard held and the gateway drains: the busy-session handler answers.
ArriveDraining(m) ==
  /\ phase \notin {"up", "stopped"} /\ fate[m] = "unsent"
  /\ guard # NoGuard /\ m \notin Stops
  /\ QueueOrRefuse(m)
  /\ UNCHANGED <<guard, lockVars, taskVars, agentVars, phase, gathered, plain>>

\* Guard held: a photo waits quietly, anything else also asks for an interrupt.
ArriveBusy(m) ==
  /\ phase = "up" /\ fate[m] = "unsent"
  /\ guard # NoGuard /\ m \notin Stops
  /\ IF m \in Photos THEN MergePending(m, "live") /\ UNCHANGED guard
     ELSE ReplacePending(m, "live") /\ guard' = [guard EXCEPT !.set = TRUE]
  /\ UNCHANGED <<lockVars, taskVars, agentVars, phase, gathered, plain>>

\* _handle_message for /stop while an agent runs: interrupt it, drop what
\* waits, and delete the runner's entry whoever owns it.
StopClean(m) ==
  /\ running # NoMsg
  /\ interrupted' = (interrupted \/ running # Sentinel)
  /\ running' = NoMsg
  /\ pending' = NoMsg
  /\ fate' = [x \in Msgs |-> IF x = m THEN "executed"
                             ELSE IF x = pending THEN "discarded" ELSE fate[x]]
  /\ UNCHANGED <<runningTs, thread, armed, watching>>

\* Guard held: /stop is dispatched inline, outside any background task.
ArriveStop(m) ==
  /\ phase # "stopped" /\ fate[m] = "unsent"
  /\ guard # NoGuard /\ m \in Stops
  /\ cur' = [cur EXCEPT ![m] = m]
  /\ \/ StopClean(m) /\ Goto(m, "done")
     \/ /\ running = NoMsg
        /\ Goto(m, "inline")
        /\ fate' = [fate EXCEPT ![m] = "live"]
        /\ UNCHANGED <<pending, lockVars, agentVars>>
  /\ UNCHANGED <<guard, outer, stack, failing, phase, gathered, plain>>

\* _handle_stop_command, reached after the awaited command hook.
LateStop(m) ==
  /\ interrupted' = (interrupted \/ running \in Msgs)
  /\ running' = NoMsg
  /\ fate' = [fate EXCEPT ![m] = "executed"]
  /\ UNCHANGED <<runningTs, thread, armed, watching, pending>>

InlineStop(m) ==
  /\ pc[m] = "inline"
  /\ LateStop(m) /\ Goto(m, "done")
  /\ UNCHANGED <<guard, cur, outer, stack, failing, phase, gathered, plain>>

-----------------------------------------------------------------------------
(* The background task: _process_message_background up to the handler      *)

\* Reuse the guard, or install one if it was removed meanwhile.
Begin(t) ==
  /\ pc[t] = "created"
  /\ guard' = IF guard = NoGuard THEN [owner |-> t, set |-> FALSE] ELSE guard
  /\ Goto(t, "hook")
  /\ UNCHANGED <<pending, lockVars, cur, outer, stack, failing, agentVars,
                 phase, gathered, plain, fate>>

\* Staleness eviction at the top of _handle_message: never the sentinel, and
\* only an entry whose start time is known; whether it looks idle is open.
MayEvict == running \in Msgs /\ runningTs

\* The drain check made in the same step as the claim.
MayStartAlways == TRUE
MayStart == ~Draining

\* The event finds no running agent and claims the session with the sentinel.
Claim(t) ==
  /\ running' = Sentinel /\ runningTs' = TRUE
  /\ Goto(t, "setup")
  /\ UNCHANGED fate

RejectDraining(t) ==
  /\ fate' = [fate EXCEPT ![cur[t]] = "rejected"]
  /\ Goto(t, "reply")

\* No running agent (or a stale one, evicted): command hooks are awaited, plain
\* events go straight to the claim.
EnterFree(t) ==
  /\ pc[t] = "hook"
  /\ running = NoMsg \/ MayEvict
  /\ LET m == cur[t] IN
       \/ /\ m \in Slashes \cup Stops
          /\ Goto(t, "emit") /\ running' = NoMsg
          /\ runningTs' = (running = NoMsg /\ runningTs)
          /\ UNCHANGED fate
       \/ /\ m \in Words \cup Photos /\ MayStart /\ Claim(t)
       \/ /\ m \in Words \cup Photos /\ Draining /\ RejectDraining(t)
          /\ running' = NoMsg /\ runningTs' = (running = NoMsg /\ runningTs)
  /\ UNCHANGED <<adapterVars, cur, outer, stack, failing, agentVars, phase, gathered, plain>>

\* /queue: its argument, if it has one, waits as a text event of its own.  That event
\* has no slash, unless the argument is itself a command.
QueueArgument(m) ==
  \/ fate' = [fate EXCEPT ![m] = "executed"] /\ UNCHANGED <<pending, plain>>
  \/ ReplacePending(m, "live") /\ plain' \in {plain, plain \cup {m}}

\* An agent runs: every branch of the running-agent block of _handle_message.
EnterBusy(t) ==
  /\ pc[t] = "hook" /\ running # NoMsg
  /\ LET m == cur[t] IN
       \/ /\ m \in Queues \ plain /\ QueueArgument(m)
          /\ UNCHANGED <<running, interrupted>>
       \/ /\ m \in Stops /\ StopClean(m) /\ UNCHANGED plain
       \/ /\ m \in Photos /\ MergePending(m, "live")
          /\ UNCHANGED <<running, interrupted, plain>>
       \/ /\ m \in Words \cup (Slashes \ Queues) /\ running = Sentinel
          /\ ReplacePending(m, "live") /\ UNCHANGED <<running, interrupted, plain>>
       \/ /\ m \in Words \cup (Slashes \ Queues) /\ running # Sentinel /\ Draining
          /\ QueueOrRefuse(m)
          /\ UNCHANGED <<running, interrupted, plain>>
       \/ /\ m \in Words \cup (Slashes \ Queues) /\ running # Sentinel /\ ~Draining
          /\ interrupted' = TRUE
          /\ fate' = [fate EXCEPT ![m] = "swallowed"]
          /\ UNCHANGED <<pending, running, plain>>
  /\ Goto(t, "reply")
  /\ UNCHANGED <<guard, runningTs, cur, outer, stack, failing, thread, armed, watching,
                 phase, gathered>>

\* After the awaited hook: /stop executes, a prompt command claims the session
\* without looking at _running_agents again.
AfterEmit(t) ==
  /\ pc[t] = "emit"
  /\ LET m == cur[t] IN
       \/ m \in Stops /\ LateStop(m) /\ Goto(t, "reply")
       \/ m \in Slashes /\ MayStart /\ Claim(t) /\ UNCHANGED <<pending, agentVars>>
       \/ /\ m \in Slashes /\ Draining /\ RejectDraining(t)
          /\ UNCHANGED <<pending, lockVars, agentVars>>
  /\ UNCHANGED <<guard, cur, outer, stack, failing, phase, gathered, plain>>

-----------------------------------------------------------------------------
(* The turn: _handle_message_with_agent and _run_agent                     *)

\* Setup (session, transcript, attachments) ends without an agent: the finally
\* clause of _handle_message removes a sentinel, whoever placed it.
LeaveHandlerLocked(t) == runningTs' = FALSE /\ UNCHANGED running
LeaveHandler(t) ==
  /\ running' = IF running = Sentinel THEN NoMsg ELSE running
  /\ runningTs' = FALSE

SetupFails(t) ==
  /\ pc[t] = "setup"
  /\ LeaveHandler(t)
  /\ \E raised \in BOOLEAN : Goto(t, IF raised THEN "error" ELSE "reply")
  /\ fate' = [fate EXCEPT ![cur[t]] = "failed"]
  /\ UNCHANGED <<adapterVars, cur, outer, stack, failing, agentVars, phase, gathered, plain>>

\* A new _run_agent frame: submit run_sync, start track_agent and the monitor.
OpenRun(t, m) ==
  /\ stack' = [stack EXCEPT ![t] = Append(@, m)]
  /\ thread' = [thread EXCEPT ![m] = "queued"]
  /\ armed' = [armed EXCEPT ![m] = TRUE]
  /\ watching' = [watching EXCEPT ![m] = TRUE]
  /\ Goto(t, "run")

StartRun(t) ==
  /\ pc[t] = "setup"
  /\ OpenRun(t, cur[t])
  /\ UNCHANGED <<adapterVars, lockVars, cur, outer, failing, interrupted, phase, gathered, plain,
                 fate>>

\* run_sync: fetch or build the agent ...
BuildAgent(m) ==
  /\ thread[m] = "queued"
  /\ thread' = [thread EXCEPT ![m] = "built"]
  /\ UNCHANGED <<adapterVars, lockVars, taskVars, interrupted, armed, watching, phase,
                 gathered, plain, fate>>

\* ... or return without a result (wake gate, missing credentials, exception).
RefuseRun(m) ==
  /\ thread[m] \in {"queued", "built"}
  /\ thread' = [thread EXCEPT ![m] = "empty"]
  /\ UNCHANGED <<adapterVars, lockVars, taskVars, interrupted, armed, watching, phase,
                 gathered, plain, fate>>

\* run_conversation first clears the interrupt flag "left from last time".
Converse(m) ==
  /\ thread[m] = "built"
  /\ thread' = [thread EXCEPT ![m] = "running"]
  /\ interrupted' = FALSE
  /\ UNCHANGED <<adapterVars, lockVars, taskVars, armed, watching, phase, gathered, plain, fate>>

\* The conversation ends by itself or because it saw the flag.
ConversationEnds(m) ==
  /\ thread[m] = "running"
  /\ thread' = [thread EXCEPT ![m] = "done"]
  /\ UNCHANGED <<adapterVars, lockVars, taskVars, interrupted, armed, watching, phase,
                 gathered, plain, fate>>

\* track_agent registers the real agent once it exists.
TrackAgent(m) ==
  /\ armed[m] /\ thread[m] \in {"built", "running", "done"}
  /\ running' = m
  /\ armed' = [armed EXCEPT ![m] = FALSE]
  /\ UNCHANGED <<adapterVars, runningTs, taskVars, thread, interrupted, watching, phase,
                 gathered, plain, fate>>

\* monitor_for_interrupt and its backup in the poll loop: fire once per run.
MonitorInterrupt(m) ==
  /\ watching[m] /\ m \in Frames
  /\ guard.set
  /\ thread[m] \in {"built", "running", "done"}
  /\ interrupted' = TRUE
  /\ watching' = [watching EXCEPT ![m] = FALSE]
  /\ UNCHANGED <<adapterVars, lockVars, taskVars, thread, armed, phase, gathered, plain, fate>>

\* The run has a result and looks at the waiting event, if any ...
RunFinished(t) ==
  /\ pc[t] = "run" /\ thread[Top(t)] = "done"
  /\ UNCHANGED <<lockVars, outer, stack, failing, agentVars, phase, gathered, plain>>

Answered(t) == [fate EXCEPT ![Top(t)] = "answered"]

FinishAlone(t) ==
  /\ RunFinished(t) /\ pending = NoMsg
  /\ fate' = Answered(t) /\ Goto(t, "unwind")
  /\ UNCHANGED <<adapterVars, cur>>

\* ... a slash command is discarded, and so is anything while draining ...
DiscardableInDrain == Draining
Discardable == pending \in Slashes \cup Stops \/ Draining

FinishDiscarding(t) ==
  /\ RunFinished(t) /\ pending # NoMsg
  /\ Discardable
  /\ pending' = NoMsg
  /\ fate' = [Answered(t) EXCEPT ![pending] = "discarded"] /\ Goto(t, "unwind")
  /\ UNCHANGED <<guard, cur>>

\* ... anything else clears the interrupt event and is answered by a nested run,
\* or is put back when the recursion is too deep.
FinishThenFollow(t) ==
  /\ RunFinished(t) /\ pending # NoMsg /\ ~Discardable
  /\ guard' = [guard EXCEPT !.set = FALSE]
  /\ fate' = Answered(t)
  /\ IF Len(stack[t]) > MaxInterruptDepth
     THEN Goto(t, "unwind") /\ UNCHANGED <<pending, cur>>
     ELSE /\ TakePending /\ cur' = [cur EXCEPT ![t] = pending]
          /\ Goto(t, "followup")

\* The first response is delivered and the follow-up prepared: run it, or drop
\* it when preparation decides so.
FollowUp(t) ==
  /\ pc[t] = "followup"
  /\ \/ OpenRun(t, cur[t]) /\ UNCHANGED <<fate, interrupted>>
     \/ /\ fate' = [fate EXCEPT ![cur[t]] = "failed"]
        /\ Goto(t, "unwind") /\ UNCHANGED <<stack, agentVars>>
  /\ UNCHANGED <<adapterVars, lockVars, cur, outer, failing, phase, gathered, plain>>

\* No result: nothing is dequeued.
EmptyRun(t) ==
  /\ pc[t] = "run" /\ thread[Top(t)] = "empty"
  /\ fate' = [fate EXCEPT ![Top(t)] = "failed"]
  /\ Goto(t, "unwind")
  /\ UNCHANGED <<adapterVars, lockVars, cur, outer, stack, failing, agentVars, phase,
                 gathered, plain>>

\* The poll loop may find an agent idle: not before there is one, and as a rule never
\* (a heartbeat every 30 seconds reports activity for as long as the conversation
\* lasts), but with a shorter time-out, or where the agent hangs outside of it.
Overdue(m) == thread[m] \in {"built", "running"}

\* Inactivity timeout: interrupt the agent and stop waiting; its thread lives on.
InactivityTimeout(t) ==
  /\ pc[t] = "run" /\ Overdue(Top(t))
  /\ interrupted' = TRUE
  /\ fate' = [fate EXCEPT ![Top(t)] = "failed"]
  /\ Goto(t, "unwind")
  /\ UNCHANGED <<adapterVars, lockVars, cur, outer, stack, failing, thread, armed,
                 watching, phase, gathered, plain>>

\* Cancel the helpers of a run: an uncancelled track_agent would register the agent
\* of a run that is over.
StopMonitor(m) == watching' = [watching EXCEPT ![m] = FALSE] /\ UNCHANGED armed
StopHelpers(m) ==
  /\ armed' = [armed EXCEPT ![m] = FALSE]
  /\ watching' = [watching EXCEPT ![m] = FALSE]

\* The finally clause of the innermost _run_agent frame: cancel its helpers and
\* delete the session's entry, then return into the frame around it.
UnwindRun(t) ==
  /\ pc[t] = "unwind"
  /\ StopHelpers(Top(t))
  /\ running' = NoMsg /\ runningTs' = FALSE
  /\ stack' = [stack EXCEPT ![t] = SubSeq(@, 1, Len(@) - 1)]
  /\ Goto(t, IF Len(stack[t]) = 1 THEN "persist" ELSE "unwind")
  /\ UNCHANGED <<adapterVars, cur, outer, failing, thread, interrupted, phase, gathered, plain,
                 fate>>

\* The transcript is saved and _handle_message returns.
HandlerReturns(t) ==
  /\ pc[t] = "persist"
  /\ LeaveHandler(t)
  /\ Goto(t, IF failing[t] THEN "error" ELSE "reply")
  /\ UNCHANGED <<adapterVars, cur, outer, stack, failing, agentVars, phase, gathered, plain, fate>>

-----------------------------------------------------------------------------
(* The background task after the handler                                   *)

\* The response is delivered: without a waiting event, clean up ...
DeliverLast(t) ==
  /\ pc[t] = "reply" /\ pending = NoMsg
  /\ Goto(t, "closing")
  /\ UNCHANGED <<adapterVars, lockVars, cur, outer, stack, failing, agentVars, phase,
                 gathered, plain, fate>>

\* ... with one, take it and release the guard before awaiting the typing
\* indicator.  The event is processed by a nested call, not by a new task: at the
\* recursion limit the call raises and the event is gone.
DeliverAndTake(t) ==
  /\ pc[t] = "reply" /\ pending # NoMsg
  /\ TakePending /\ guard' = NoGuard
  /\ IF outer[t] < MaxNesting
     THEN /\ cur' = [cur EXCEPT ![t] = pending]
          /\ outer' = [outer EXCEPT ![t] = @ + 1]
          /\ Goto(t, "handoff") /\ UNCHANGED fate
     ELSE /\ fate' = [fate EXCEPT ![pending] = "failed"]
          /\ Goto(t, "error") /\ UNCHANGED <<cur, outer>>
  /\ UNCHANGED <<lockVars, stack, failing, agentVars, phase, gathered, plain>>

\* Delivery failed or was cancelled: the waiting event is not looked at.
DeliverFails(t) ==
  /\ pc[t] \in {"reply", "error"}
  /\ Goto(t, "closing")
  /\ UNCHANGED <<adapterVars, lockVars, cur, outer, stack, failing, agentVars, phase,
                 gathered, plain, fate>>

\* Typing indicator gone: _process_message_background calls itself.
Handoff(t) ==
  /\ pc[t] = "handoff"
  /\ guard' = IF guard = NoGuard THEN [owner |-> t, set |-> FALSE] ELSE guard
  /\ Goto(t, "hook")
  /\ UNCHANGED <<pending, lockVars, cur, outer, stack, failing, agentVars, phase,
                 gathered, plain, fate>>

\* Return to the frame around this one, or end the task.
LeaveFrameUncounted(t) ==
  /\ outer' = [outer EXCEPT ![t] = @ - 1]
  /\ IF outer[t] = 0 THEN Goto(t, "done") ELSE UNCHANGED pc
LeaveFrameStuck(t) == outer[t] = 0 /\ Goto(t, "done") /\ UNCHANGED outer
LeaveFrame(t) ==
  IF outer[t] = 0 THEN Goto(t, "done") /\ UNCHANGED outer
  ELSE outer' = [outer EXCEPT ![t] = @ - 1] /\ UNCHANGED pc

\* End of the finally clause of a frame: delete the guard, whoever installed it.
Close(t) ==
  /\ pc[t] = "closing"
  /\ guard' = NoGuard
  /\ LeaveFrame(t)
  /\ UNCHANGED <<pending, lockVars, cur, stack, failing, agentVars, phase, gathered, plain, fate>>

-----------------------------------------------------------------------------
(* stop(): drain, interrupt, cancel, clear                                 *)

BeginDrain ==
  /\ MayShutDown /\ phase = "up"
  /\ phase' = "draining"
  /\ UNCHANGED <<adapterVars, lockVars, taskVars, agentVars, gathered, plain, fate>>

\* The drain budget is exhausted: interrupt every registered agent.
DrainTimesOut ==
  /\ phase = "draining" /\ running # NoMsg
  /\ phase' = "interrupting"
  /\ interrupted' = (interrupted \/ running # Sentinel)
  /\ UNCHANGED <<adapterVars, lockVars, taskVars, thread, armed, watching, gathered, plain, fate>>

Live == {t \in Msgs : Busy(t) /\ pc[t] # "inline"}

\* cancel_background_tasks: a task that never started never runs; one awaiting
\* its typing indicator (or a run's own finally clause) swallows the cancellation.
CancelledAt(p) ==
  CASE p = "created"                               -> "done"
    [] p \in {"hook", "emit", "reply", "error"}    -> "closing"
    [] p = "setup"                                 -> "persist"
    [] p \in {"run", "followup"}                   -> "unwind"
    [] OTHER                                       -> p

\* So does one that awaits the end of the first response's stream before its
\* follow-up: it goes on to the nested run.
CancelTasks ==
  /\ \/ phase = "draining" /\ running = NoMsg
     \/ phase = "interrupting"
  /\ phase' = "cancelling"
  /\ gathered' = Live
  /\ \E deaf \in SUBSET {t \in Live : pc[t] = "followup"} :
       LET hit == Live \ deaf IN
       /\ pc' = [t \in Msgs |-> IF t \in hit THEN CancelledAt(pc[t]) ELSE pc[t]]
       /\ failing' = [t \in Msgs |->
            failing[t] \/ (t \in hit /\ pc[t] \in {"setup", "run", "followup", "persist"})]
       /\ fate' = [m \in Msgs |->
            IF /\ fate[m] \in Waiting
               /\ \E t \in hit : /\ pc'[t] # pc[t]
                                 /\ (m = cur[t] /\ pc[t] \in Carrying) \/ m \in Range(stack[t])
            THEN "failed" ELSE fate[m]]
  /\ UNCHANGED <<adapterVars, lockVars, cur, outer, stack, agentVars, plain>>

\* All cancelled tasks have finished: forget everything and disconnect.
FinishStop ==
  /\ phase = "cancelling"
  /\ \A t \in gathered : pc[t] = "done"
  /\ phase' = "stopped"
  /\ guard' = NoGuard /\ running' = NoMsg
  /\ DiscardPending
  /\ UNCHANGED <<runningTs, taskVars, agentVars, gathered, plain>>

-----------------------------------------------------------------------------
Arrive(m) == ArriveIdle(m) \/ ArriveDraining(m) \/ ArriveBusy(m) \/ ArriveStop(m)

\* What the event loop does next for a task, once what the task awaits is there.
LoopStep(t) ==
  \/ Begin(t) \/ EnterFree(t) \/ EnterBusy(t) \/ AfterEmit(t) \/ InlineStop(t)
  \/ SetupFails(t) \/ StartRun(t) \/ FinishAlone(t)
  \/ FinishDiscarding(t) \/ FinishThenFollow(t) \/ FollowUp(t) \/ EmptyRun(t)
  \/ UnwindRun(t) \/ HandlerReturns(t)
  \/ DeliverLast(t) \/ DeliverAndTake(t) \/ DeliverFails(t) \/ Handoff(t) \/ Close(t)

AgentStep(m) ==
  \/ BuildAgent(m) \/ RefuseRun(m) \/ Converse(m) \/ ConversationEnds(m)
  \/ TrackAgent(m) \/ MonitorInterrupt(m)

StopStep == BeginDrain \/ DrainTimesOut \/ CancelTasks \/ FinishStop

Next ==
  \/ \E m \in Msgs : Arrive(m)
  \/ \E t \in Msgs : LoopStep(t) \/ InactivityTimeout(t)
  \/ \E m \in Msgs : AgentStep(m)
  \/ StopStep

\* The event loop resumes every runnable coroutine, and stop() moves on after its
\* time-outs.  Neither an agent's thread nor the inactivity poll owes anything.
Fairness ==
  /\ \A t \in Msgs : WF_vars(LoopStep(t))
  /\ WF_vars(DrainTimesOut \/ CancelTasks \/ FinishStop)

Spec == Init /\ [][Next]_vars /\ Fairness

-----------------------------------------------------------------------------
(* Properties                                                              *)

\* Every variable holds a value of its type.
TypeOK ==
  /\ guard \in Guards
  /\ pending \in Msgs \cup {NoMsg}
  /\ running \in Msgs \cup {NoMsg, Sentinel} /\ runningTs \in BOOLEAN
  /\ pc \in [Msgs -> PCs] /\ cur \in [Msgs -> Msgs \cup {NoMsg}]
  /\ outer \in [Msgs -> 0..MaxNesting]
  /\ stack \in [Msgs -> Seq(Msgs)]
  /\ failing \in [Msgs -> BOOLEAN]
  /\ thread \in [Msgs -> Threads] /\ interrupted \in BOOLEAN
  /\ armed \in [Msgs -> BOOLEAN] /\ watching \in [Msgs -> BOOLEAN]
  /\ phase \in Phases /\ gathered \subseteq Msgs /\ plain \subseteq Queues
  /\ fate \in [Msgs -> Fates]

\* Where m is: in the pending slot (NoMsg stands for it), carried by a task, or
\* answered by a run a task waits for.
Holders(m) ==
  (IF pending = m THEN {NoMsg} ELSE {})
    \cup {t \in Msgs : cur[t] = m /\ pc[t] \in Carrying}
    \cup {t \in Msgs : m \in Range(stack[t]) /\ fate[m] \in Waiting}

\* A message that has not met its fate is in exactly one place, and one that has
\* is in none: the slot, the hand-off between frames and the follow-up recursion
\* of base.py and agent_mixin.py neither duplicate a message nor drop it untold.
HeldExactlyOnce ==
  \A m \in Msgs : Cardinality(Holders(m)) = (IF fate[m] \in Waiting THEN 1 ELSE 0)

\* No lock outlives its owner: an agent in _running_agents has a _run_agent frame
\* that will remove it, a sentinel has a task still inside the handler, and the
\* adapter's guard a task still running, except between the cancellation of a task
\* that never started and the end of cancel_background_tasks (core_route_mixin.py:509
\* "the sentinel must not linger or the session would be permanently locked out").
LocksHaveOwners ==
  /\ running \in Msgs => running \in Frames
  /\ running = Sentinel =>
       \E t \in Msgs : pc[t] \in {"setup", "run", "followup", "unwind", "persist"}
  /\ (guard # NoGuard /\ phase # "cancelling") =>
       \E t \in Msgs : Busy(t) /\ pc[t] # "inline"

\* Once stop() has begun no message is admitted to a turn: not by a claim, not by
\* a command that awaited its hook across the change, not as a follow-up of a run.
NoTurnAdmittedWhileDraining ==
  [][Draining => \A t \in Msgs :
       pc'[t] \in {"setup", "followup"} => pc'[t] = pc[t]]_vars

\* A message is answered by at most one run, and its fate does not change again.
AnsweredAtMostOnce ==
  [][\A m \in Msgs :
       /\ thread[m] # "none" => (thread'[m] = "queued" => thread[m] = "queued")
       /\ fate[m] \notin Waiting \cup {"unsent"} => fate'[m] = fate[m]]_vars

\* No agent hangs for ever: whatever thread was given a run comes back.
RunsReturn == \A m \in Msgs : []<>(thread[m] \notin {"queued", "built", "running"})

\* If the agents' runs return, every background task ends, with all its nested frames.
TasksEnd == RunsReturn => \A t \in Msgs : (pc[t] = "created") ~> (pc[t] = "done")

\* If the agents' runs return, the runner's lock on the session is always released again.
LockReleased == RunsReturn => ((running # NoMsg) ~> (running = NoMsg))

\* stop() terminates whatever the session was doing when it began, hung agents included:
\* only a task that swallowed its cancellation before a follow-up, and waits for the
\* agent of that follow-up for ever, can hold up cancel_background_tasks.
StopCompletes ==
  (phase = "draining") ~> (phase = "stopped" \/ [](\E t \in gathered : pc[t] = "run"))

\* The event a task answers for: the one it carries or the one of its innermost run.
Hand(t) == IF pc[t] \in Carrying THEN cur[t] ELSE IF pc[t] = "run" THEN Top(t) ELSE NoMsg
Hands == [t \in Msgs |-> Hand(t)]
Begun == {m \in Msgs : thread[m] # "none"}

Contract ==
  INSTANCE DispatchContract
    WITH Nobody <- NoMsg, Commands <- Prompts \cup Stops,
         slot <- pending, spoken <- plain, hand <- Hands, begun <- Begun, closing <- Draining

\* Adapter, runner, recursion and shutdown implement the contract: a message meets a fate
\* only for a reason the contract gives, in the slot or in the hand of the task that has
\* it, and is answered only by the run begun for it.
ImplementsContract == Contract!CSpec

-----------------------------------------------------------------------------
(* What comments and help texts say, and the code does not do              *)

\* base.py:1598 "Don't process now - will be handled after current task
\* finishes": no event waits in the slot when nothing is left to take it.
QueuedIsHandled ==
  (pending # NoMsg /\ phase = "up") => \E t \in Msgs : Busy(t)

\* core_route_mixin.py:496 "Claim this session before any await": no second agent
\* is started for a session whose agent runs.
OneAgentPerSession == Cardinality({t \in Msgs : stack[t] # <<>>}) <= 1
=============================================================================
