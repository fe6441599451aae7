------------------------- MODULE SessionDispatchProofs -------------------------
(***************************************************************************)
(* Proofs about SessionDispatch, for any number of messages of each kind,   *)
(* any nesting and interrupt depth, with and without the queue of a         *)
(* restart: its type invariant, that stop() admits no turn, that no lock    *)
(* outlives its owner, that a message is always in one place, and that its  *)
(* fate is sealed once.                                                     *)
(***************************************************************************)
EXTENDS SessionDispatch, FiniteSetTheorems, SequenceTheorems, TLAPS

-----------------------------------------------------------------------------
(* Invariants                                                              *)

\* A task that carries an event has one; a /stop that waits inline is its own.
Carried ==
  \A t \in Msgs : /\ pc[t] \in Carrying => cur[t] \in Msgs
                  /\ pc[t] = "inline" => cur[t] = t /\ t \in Stops

Typed == TypeOK /\ Carried

\* A message that has not come has no task, and the frames of a task are those of a turn.
InTurn == {"run", "followup", "unwind"}
Nested ==
  /\ \A m \in Msgs : fate[m] = "unsent" => pc[m] = "idle"
  /\ \A t \in Msgs : stack[t] # <<>> <=> pc[t] \in InTurn

\* Where a task is inside the handler that placed the sentinel.
InHandler == {"setup", "run", "followup", "unwind", "persist"}

\* A run whose agent may still register has a frame that will see to it.
Tracked == \A m \in Msgs : armed[m] => m \in Frames

Owned == Nested /\ Tracked /\ LocksHaveOwners

Settled(m) == fate[m] \notin Waiting \cup {"unsent"}

\* The waiting messages are those in the slot and in the tasks' hands, each once.
Handed ==
  /\ \A m \in Msgs : fate[m] \in Waiting <=> (pending = m \/ \E t \in Msgs : Hand(t) = m)
  /\ \A t \in Msgs : Hand(t) \in Msgs => Hand(t) # pending
  /\ \A t, u \in Msgs : Hand(t) \in Msgs /\ Hand(t) = Hand(u) => t = u

\* The runs around the innermost one have their answers, and so has every run that began
\* and is not the innermost of a task.
Answering ==
  /\ \A t \in Msgs : \A i \in 1..Len(stack[t]) :
       ~(pc[t] = "run" /\ i = Len(stack[t])) => Settled(stack[t][i])
  /\ \A m \in Msgs : thread[m] # "none" /\ ~Settled(m) =>
       \E t \in Msgs : pc[t] = "run" /\ Hand(t) = m

InOnePlace == Typed /\ Nested /\ Handed /\ Answering

\* A step of a task: the event loop's, or the time-out of the run it waits for.
TaskStep(t) == LoopStep(t) \/ InactivityTimeout(t)

-----------------------------------------------------------------------------
(* Stacks of runs                                                          *)

\* A frame that opens is the innermost one.
LEMMA PushStack ==
  ASSUME NEW s \in Seq(Msgs), NEW m \in Msgs
  PROVE  /\ Append(s, m) \in Seq(Msgs) /\ Append(s, m) # <<>>
         /\ Len(Append(s, m)) = Len(s) + 1 /\ Append(s, m)[Len(s) + 1] = m
         /\ \A i \in 1..Len(s) : Append(s, m)[i] = s[i]
         /\ Range(s) \subseteq Range(Append(s, m)) /\ m \in Range(Append(s, m))
<1>1. /\ Append(s, m) \in Seq(Msgs) /\ Append(s, m) # <<>>
      /\ Len(Append(s, m)) = Len(s) + 1 /\ Append(s, m)[Len(s) + 1] = m
      /\ \A i \in 1..Len(s) : Append(s, m)[i] = s[i]
  OBVIOUS
<1>2. DOMAIN s = 1..Len(s) /\ DOMAIN Append(s, m) = 1..(Len(s) + 1) /\ Len(s) \in Nat
  OBVIOUS
<1> QED  BY <1>1, <1>2 DEF Range

\* The innermost frame that closes is the only one to go.
LEMMA PopStack ==
  ASSUME NEW s \in Seq(Msgs), s # <<>>
  PROVE  /\ SubSeq(s, 1, Len(s) - 1) \in Seq(Msgs) /\ s[Len(s)] \in Msgs
         /\ Len(SubSeq(s, 1, Len(s) - 1)) = Len(s) - 1 /\ Len(s) \in Nat \ {0}
         /\ \A i \in 1..(Len(s) - 1) : SubSeq(s, 1, Len(s) - 1)[i] = s[i]
         /\ \A x \in Range(s) : x = s[Len(s)] \/ x \in Range(SubSeq(s, 1, Len(s) - 1))
<1> DEFINE r == SubSeq(s, 1, Len(s) - 1)
<1>1. Len(s) \in Nat \ {0} /\ s[Len(s)] \in Msgs
  OBVIOUS
<1>2. r \in Seq(Msgs) /\ Len(r) = Len(s) - 1 /\ \A i \in 1..(Len(s) - 1) : r[i] = s[i]
  BY <1>1, SubSeqProperties
<1> HIDE DEF r
<1>3. DOMAIN s = 1..Len(s) /\ DOMAIN r = 1..(Len(s) - 1)
  BY <1>2, LenProperties
<1>4. \A x \in Range(s) : x = s[Len(s)] \/ x \in Range(r)
  <2> SUFFICES ASSUME NEW i \in 1..Len(s), i # Len(s) PROVE s[i] \in Range(r)
    BY <1>3 DEF Range
  <2>1. i \in 1..(Len(s) - 1) /\ r[i] = s[i]
    BY <1>1, <1>2
  <2> QED  BY <1>3, <2>1 DEF Range
<1> USE DEF r
<1> QED  BY <1>1, <1>2, <1>4

-----------------------------------------------------------------------------
(* Types                                                                   *)

\* Where a task may go, it is carried.
LEMMA GotoType ==
  ASSUME Typed, NEW t \in Msgs, NEW where \in PCs, Goto(t, where)
  PROVE  /\ pc' \in [Msgs -> PCs]
         /\ \A h \in Msgs : pc'[h] = IF h = t THEN where ELSE pc[h]
  BY DEF Typed, TypeOK, Goto

\* The slot's moves keep the types of the slot and of the fates.
LEMMA SlotType ==
  ASSUME Typed, NEW m \in Msgs, NEW as \in Waiting,
         \/ ReplacePending(m, as) \/ MergePending(m, as) \/ QueueOrRefuse(m) \/ StopClean(m)
         \/ QueueArgument(m)
  PROVE  pending' \in Msgs \cup {NoMsg} /\ fate' \in [Msgs -> Fates]
  BY DEF Typed, TypeOK, Waiting, Fates, ReplacePending, MergePending, QueueOrRefuse, StopClean,
         QueueArgument

\* A stop, early or late, keeps the types of the runner and the agents.
LEMMA StopType ==
  ASSUME Typed, NEW m \in Msgs, StopClean(m) \/ LateStop(m)
  PROVE  /\ running' \in Msgs \cup {NoMsg, Sentinel} /\ interrupted' \in BOOLEAN
         /\ fate' \in [Msgs -> Fates]
         /\ pending' \in Msgs \cup {NoMsg} /\ UNCHANGED <<runningTs, thread, armed, watching>>
  BY DEF Typed, TypeOK, Fates, StopClean, LateStop

\* A run that opens keeps the types of the frames and the agents.
LEMMA OpenType ==
  ASSUME Typed, NEW t \in Msgs, NEW m \in Msgs, OpenRun(t, m)
  PROVE  /\ pc' \in [Msgs -> PCs] /\ stack' \in [Msgs -> Seq(Msgs)]
         /\ thread' \in [Msgs -> Threads]
         /\ armed' \in [Msgs -> BOOLEAN] /\ watching' \in [Msgs -> BOOLEAN]
  BY PushStack DEF Typed, TypeOK, OpenRun, Goto, PCs, Threads

\* At the start everything has its type.
LEMMA InitTypes == Init => Typed
<1> SUFFICES ASSUME Init PROVE Typed
  OBVIOUS
<1>1. stack \in [Msgs -> Seq(Msgs)] /\ outer \in [Msgs -> 0..MaxNesting]
  BY DispatchAssumption DEF Init
<1> QED
  BY <1>1 DEF Init, Typed, TypeOK, Carried, Carrying, Guards, NoGuard, PCs, Threads, Phases, Fates

\* Every arrival keeps the types.
LEMMA ArriveTypes == Typed /\ (\E m \in Msgs : Arrive(m)) => Typed'
<1> SUFFICES ASSUME Typed, NEW m \in Msgs, Arrive(m) PROVE Typed'
  OBVIOUS
<1> USE DEF Guards, NoGuard, PCs, Fates, Carrying
<1>1. CASE ArriveIdle(m)
  <2>1. /\ pc' \in [Msgs -> PCs]
        /\ \A h \in Msgs : pc'[h] = IF h = m THEN "created" ELSE pc[h]
    BY <1>1, GotoType DEF ArriveIdle
  <2>2. Carried'
    BY <1>1, <2>1 DEF ArriveIdle, Typed, TypeOK, Carried
  <2> QED  BY <1>1, <2>1, <2>2 DEF ArriveIdle, Typed, TypeOK, lockVars, agentVars
<1>2. CASE ArriveDraining(m)
  <2>1. pending' \in Msgs \cup {NoMsg} /\ fate' \in [Msgs -> Fates]
    BY <1>2, SlotType DEF ArriveDraining, Waiting
  <2> QED  BY <1>2, <2>1 DEF ArriveDraining, Typed, TypeOK, Carried, lockVars, taskVars, agentVars
<1>3. CASE ArriveBusy(m)
  <2>1. pending' \in Msgs \cup {NoMsg} /\ fate' \in [Msgs -> Fates]
    BY <1>3, SlotType DEF ArriveBusy, Waiting
  <2>2. guard' \in Guards
    BY <1>3 DEF ArriveBusy, Typed, TypeOK
  <2> QED  BY <1>3, <2>1, <2>2 DEF ArriveBusy, Typed, TypeOK, Carried, lockVars, taskVars, agentVars
<1>4. CASE ArriveStop(m)
  <2>1. cur' \in [Msgs -> Msgs \cup {NoMsg}] /\ \A h \in Msgs : cur'[h] = IF h = m THEN m ELSE cur[h]
    BY <1>4 DEF ArriveStop, Typed, TypeOK
  <2>2. CASE StopClean(m) /\ Goto(m, "done")
    <3>1. /\ pc' \in [Msgs -> PCs]
          /\ \A h \in Msgs : pc'[h] = IF h = m THEN "done" ELSE pc[h]
      BY <2>2, GotoType
    <3>2. Carried'
      BY <2>1, <3>1 DEF Typed, Carried
    <3> QED  BY <1>4, <2>1, <2>2, <3>1, <3>2, StopType DEF ArriveStop, Typed, TypeOK
  <2>3. CASE /\ Goto(m, "inline") /\ fate' = [fate EXCEPT ![m] = "live"]
             /\ UNCHANGED <<pending, lockVars, agentVars>>
    <3>1. /\ pc' \in [Msgs -> PCs]
          /\ \A h \in Msgs : pc'[h] = IF h = m THEN "inline" ELSE pc[h]
      BY <2>3, GotoType
    <3>2. Carried'
      BY <1>4, <2>1, <3>1 DEF ArriveStop, Typed, Carried
    <3> QED  BY <1>4, <2>1, <2>3, <3>1, <3>2 DEF ArriveStop, Typed, TypeOK, lockVars, agentVars
  <2> QED  BY <1>4, <2>2, <2>3 DEF ArriveStop
<1> QED  BY <1>1, <1>2, <1>3, <1>4 DEF Arrive

\* A task that goes on with the event it carries, or carries none any more.
LEMMA MoveTypes ==
  ASSUME Typed, NEW t \in Msgs, NEW where \in PCs, Goto(t, where), UNCHANGED cur,
         where \in Carrying => pc[t] \in Carrying, where # "inline"
  PROVE  Carried' /\ pc' \in [Msgs -> PCs]
<1>1. \A h \in Msgs : pc'[h] = IF h = t THEN where ELSE pc[h]
  BY GotoType
<1> QED  BY <1>1, GotoType DEF Typed, Carried

\* Every step of a task keeps the types.
LEMMA TaskTypes == Typed /\ (\E t \in Msgs : TaskStep(t)) => Typed'
<1> SUFFICES ASSUME Typed, NEW t \in Msgs, TaskStep(t) PROVE Typed'
  OBVIOUS
<1> USE DEF PCs, Carrying
<1>1. CASE Begin(t) \/ Handoff(t)
  <2>1. Carried' /\ pc' \in [Msgs -> PCs]
    BY <1>1, MoveTypes DEF Begin, Handoff
  <2>2. guard' \in Guards
    <3>1. guard' \in {guard, [owner |-> t, set |-> FALSE]}
      BY <1>1 DEF Begin, Handoff
    <3>2. guard \in Guards /\ [owner |-> t, set |-> FALSE] \in Guards
      BY DEF Guards, Typed, TypeOK
    <3> QED  BY <3>1, <3>2
  <2> QED  BY <1>1, <2>1, <2>2 DEF Begin, Handoff, Typed, TypeOK, lockVars, agentVars
<1>2. CASE EnterFree(t)
  <2>1. PICK where \in {"emit", "setup", "reply"} : Goto(t, where)
    BY <1>2 DEF EnterFree, Claim, RejectDraining
  <2>2. running' \in Msgs \cup {NoMsg, Sentinel} /\ runningTs' \in BOOLEAN
    BY <1>2 DEF EnterFree, Claim, Typed, TypeOK
  <2>3. fate' \in [Msgs -> Fates]
    BY <1>2 DEF EnterFree, Claim, RejectDraining, Typed, TypeOK, Fates
  <2>4. Carried' /\ pc' \in [Msgs -> PCs]
    BY <1>2, <2>1, MoveTypes DEF EnterFree
  <2> QED  BY <1>2, <2>2, <2>3, <2>4 DEF EnterFree, Typed, TypeOK, adapterVars, agentVars
<1>3. CASE EnterBusy(t)
  <2>1. cur[t] \in Msgs
    BY <1>3 DEF EnterBusy, Typed, Carried
  <2>2. pending' \in Msgs \cup {NoMsg} /\ fate' \in [Msgs -> Fates]
    <3>1. CASE /\ interrupted' = TRUE /\ fate' = [fate EXCEPT ![cur[t]] = "swallowed"]
               /\ UNCHANGED <<pending, running, plain>>
      BY <3>1 DEF Typed, TypeOK, Fates
    <3> QED  BY <1>3, <2>1, <3>1, SlotType DEF EnterBusy, Waiting
  <2>3. running' \in Msgs \cup {NoMsg, Sentinel} /\ interrupted' \in BOOLEAN
    BY <1>3, <2>1, StopType DEF EnterBusy, Typed, TypeOK
  <2>4. Carried' /\ pc' \in [Msgs -> PCs]
    BY <1>3, MoveTypes DEF EnterBusy
  <2>5. plain' \subseteq Queues
    BY <1>3, <2>1 DEF EnterBusy, QueueArgument, Typed, TypeOK
  <2> QED  BY <1>3, <2>2, <2>3, <2>4, <2>5 DEF EnterBusy, Typed, TypeOK
<1>4. CASE AfterEmit(t)
  <2>1. cur[t] \in Msgs
    BY <1>4 DEF AfterEmit, Typed, Carried
  <2>2. PICK where \in {"setup", "reply"} : Goto(t, where)
    BY <1>4 DEF AfterEmit, Claim, RejectDraining
  <2>3. Carried' /\ pc' \in [Msgs -> PCs]
    BY <1>4, <2>2, MoveTypes DEF AfterEmit
  <2>4. CASE LateStop(cur[t])
    BY <1>4, <2>1, <2>3, <2>4, StopType DEF AfterEmit, Typed, TypeOK
  <2>5. CASE (Claim(t) \/ (RejectDraining(t) /\ UNCHANGED lockVars)) /\ UNCHANGED <<pending, agentVars>>
    <3>1. running' \in Msgs \cup {NoMsg, Sentinel} /\ runningTs' \in BOOLEAN /\ fate' \in [Msgs -> Fates]
      BY <2>5 DEF Claim, RejectDraining, lockVars, Typed, TypeOK, Fates
    <3> QED  BY <1>4, <2>3, <2>5, <3>1 DEF AfterEmit, Typed, TypeOK, agentVars
  <2> QED  BY <1>4, <2>4, <2>5 DEF AfterEmit
<1>5. CASE InlineStop(t)
  <2>1. Carried' /\ pc' \in [Msgs -> PCs]
    BY <1>5, MoveTypes DEF InlineStop
  <2> QED  BY <1>5, <2>1, StopType DEF InlineStop, Typed, TypeOK
<1>6. CASE SetupFails(t) \/ HandlerReturns(t)
  <2>1. PICK where \in {"error", "reply"} : Goto(t, where)
    BY <1>6 DEF SetupFails, HandlerReturns
  <2>2. Carried' /\ pc' \in [Msgs -> PCs]
    BY <1>6, <2>1, MoveTypes DEF SetupFails, HandlerReturns
  <2>3. running' \in Msgs \cup {NoMsg, Sentinel} /\ runningTs' \in BOOLEAN
    BY <1>6 DEF SetupFails, HandlerReturns, LeaveHandler, Typed, TypeOK
  <2>4. fate' \in [Msgs -> Fates]
    BY <1>6 DEF SetupFails, HandlerReturns, Typed, TypeOK, Fates
  <2> QED
    BY <1>6, <2>2, <2>3, <2>4 DEF SetupFails, HandlerReturns, Typed, TypeOK, adapterVars, agentVars
<1>7. CASE StartRun(t)
  <2>1. cur[t] \in Msgs
    BY <1>7 DEF StartRun, Typed, Carried
  <2>2. Carried'
    BY <1>7, MoveTypes DEF StartRun, OpenRun
  <2> QED  BY <1>7, <2>1, <2>2, OpenType DEF StartRun, Typed, TypeOK, adapterVars, lockVars
<1>8. CASE FollowUp(t)
  <2>1. cur[t] \in Msgs
    BY <1>8 DEF FollowUp, Typed, Carried
  <2>2. CASE OpenRun(t, cur[t]) /\ UNCHANGED <<fate, interrupted>>
    <3>1. Carried'
      BY <1>8, <2>2, MoveTypes DEF FollowUp, OpenRun
    <3> QED  BY <1>8, <2>1, <2>2, <3>1, OpenType DEF FollowUp, Typed, TypeOK, adapterVars, lockVars
  <2>3. CASE /\ fate' = [fate EXCEPT ![cur[t]] = "failed"]
             /\ Goto(t, "unwind") /\ UNCHANGED <<stack, agentVars>>
    <3>1. Carried' /\ pc' \in [Msgs -> PCs]
      BY <1>8, <2>3, MoveTypes DEF FollowUp
    <3>2. fate' \in [Msgs -> Fates]
      BY <2>3 DEF Typed, TypeOK, Fates
    <3> QED  BY <1>8, <2>3, <3>1, <3>2 DEF FollowUp, Typed, TypeOK, adapterVars, lockVars, agentVars
  <2> QED  BY <1>8, <2>2, <2>3 DEF FollowUp
<1>9. CASE FinishAlone(t) \/ FinishDiscarding(t)
  <2>1. Carried' /\ pc' \in [Msgs -> PCs]
    BY <1>9, MoveTypes DEF FinishAlone, FinishDiscarding
  <2>2. fate' \in [Msgs -> Fates] /\ pending' \in Msgs \cup {NoMsg} /\ UNCHANGED <<guard, cur>>
    BY <1>9 DEF FinishAlone, FinishDiscarding, Answered, Typed, TypeOK, Fates, adapterVars
  <2> QED
    BY <1>9, <2>1, <2>2
    DEF FinishAlone, FinishDiscarding, RunFinished, Typed, TypeOK, lockVars, agentVars
<1>10. CASE FinishThenFollow(t)
  <2>1. fate' \in [Msgs -> Fates] /\ guard' \in Guards
    BY <1>10 DEF FinishThenFollow, Answered, Typed, TypeOK, Fates, Guards
  <2>2. CASE Goto(t, "unwind") /\ UNCHANGED <<pending, cur>>
    <3>1. Carried' /\ pc' \in [Msgs -> PCs]
      BY <2>2, MoveTypes
    <3> QED
      BY <1>10, <2>1, <2>2, <3>1 DEF FinishThenFollow, RunFinished, Typed, TypeOK, lockVars, agentVars
  <2>3. CASE TakePending /\ cur' = [cur EXCEPT ![t] = pending] /\ Goto(t, "followup")
    <3>1. pending \in Msgs
      BY <1>10 DEF FinishThenFollow, Typed, TypeOK
    <3>2. /\ pc' \in [Msgs -> PCs]
          /\ \A h \in Msgs : pc'[h] = IF h = t THEN "followup" ELSE pc[h]
      BY <2>3, GotoType
    <3>3. /\ cur' \in [Msgs -> Msgs \cup {NoMsg}]
          /\ \A h \in Msgs : cur'[h] = IF h = t THEN pending ELSE cur[h]
      BY <2>3, <3>1 DEF Typed, TypeOK
    <3>4. Carried'
      BY <3>1, <3>2, <3>3 DEF Typed, Carried
    <3> QED
      BY <1>10, <2>1, <2>3, <3>2, <3>3, <3>4
      DEF FinishThenFollow, TakePending, RunFinished, Typed, TypeOK, lockVars, agentVars
  <2> QED  BY <1>10, <2>2, <2>3 DEF FinishThenFollow
<1>11. CASE EmptyRun(t) \/ InactivityTimeout(t)
  <2>1. Carried' /\ pc' \in [Msgs -> PCs]
    BY <1>11, MoveTypes DEF EmptyRun, InactivityTimeout
  <2>2. fate' \in [Msgs -> Fates] /\ interrupted' \in BOOLEAN
    BY <1>11 DEF EmptyRun, InactivityTimeout, Typed, TypeOK, Fates, agentVars
  <2> QED
    BY <1>11, <2>1, <2>2
    DEF EmptyRun, InactivityTimeout, Typed, TypeOK, adapterVars, lockVars, agentVars
<1>12. CASE UnwindRun(t)
  <2>1. PICK where \in {"persist", "unwind"} : Goto(t, where)
    BY <1>12 DEF UnwindRun
  <2>2. Carried' /\ pc' \in [Msgs -> PCs]
    BY <1>12, <2>1, MoveTypes DEF UnwindRun
  <2>3. SubSeq(stack[t], 1, Len(stack[t]) - 1) \in Seq(Msgs)
    <3>1. CASE stack[t] = <<>>
      BY <3>1, SubSeqEmpty, EmptySeq
    <3>2. CASE stack[t] # <<>>
      BY <3>2, PopStack DEF Typed, TypeOK
    <3> QED  BY <3>1, <3>2
  <2>4. stack' \in [Msgs -> Seq(Msgs)]
    BY <1>12, <2>3 DEF UnwindRun, Typed, TypeOK
  <2> QED  BY <1>12, <2>2, <2>4 DEF UnwindRun, StopHelpers, Typed, TypeOK, adapterVars
<1>13. CASE DeliverLast(t) \/ DeliverFails(t)
  <2>1. Carried' /\ pc' \in [Msgs -> PCs]
    BY <1>13, MoveTypes DEF DeliverLast, DeliverFails
  <2> QED
    BY <1>13, <2>1 DEF DeliverLast, DeliverFails, Typed, TypeOK, adapterVars, lockVars, agentVars
<1>14. CASE DeliverAndTake(t)
  <2>1. pending \in Msgs /\ pending' = NoMsg /\ guard' \in Guards
    BY <1>14 DEF DeliverAndTake, TakePending, Typed, TypeOK, Guards, NoGuard
  <2>2. CASE /\ outer[t] < MaxNesting /\ cur' = [cur EXCEPT ![t] = pending]
             /\ outer' = [outer EXCEPT ![t] = @ + 1]
             /\ Goto(t, "handoff") /\ UNCHANGED fate
    <3>1. /\ pc' \in [Msgs -> PCs]
          /\ \A h \in Msgs : pc'[h] = IF h = t THEN "handoff" ELSE pc[h]
      BY <2>2, GotoType
    <3>2. /\ cur' \in [Msgs -> Msgs \cup {NoMsg}]
          /\ \A h \in Msgs : cur'[h] = IF h = t THEN pending ELSE cur[h]
      BY <2>1, <2>2 DEF Typed, TypeOK
    <3>3. Carried'
      BY <2>1, <3>1, <3>2 DEF Typed, Carried
    <3>4. outer' \in [Msgs -> 0..MaxNesting]
      BY <2>2, DispatchAssumption DEF Typed, TypeOK
    <3> QED
      BY <1>14, <2>1, <2>2, <3>1, <3>2, <3>3, <3>4 DEF DeliverAndTake, Typed, TypeOK, lockVars, agentVars
  <2>3. CASE /\ fate' = [fate EXCEPT ![pending] = "failed"]
             /\ Goto(t, "error") /\ UNCHANGED <<cur, outer>>
    <3>1. Carried' /\ pc' \in [Msgs -> PCs]
      BY <2>3, MoveTypes
    <3>2. fate' \in [Msgs -> Fates]
      BY <2>3 DEF Typed, TypeOK, Fates
    <3> QED
      BY <1>14, <2>1, <2>3, <3>1, <3>2 DEF DeliverAndTake, Typed, TypeOK, lockVars, agentVars
  <2> QED  BY <1>14, <2>2, <2>3 DEF DeliverAndTake
<1>15. CASE Close(t)
  <2>1. CASE Goto(t, "done") /\ UNCHANGED outer
    <3>1. Carried' /\ pc' \in [Msgs -> PCs]
      BY <1>15, <2>1, MoveTypes DEF Close
    <3> QED  BY <1>15, <2>1, <3>1 DEF Close, Typed, TypeOK, Guards, NoGuard, lockVars, agentVars
  <2>2. CASE outer[t] # 0 /\ outer' = [outer EXCEPT ![t] = @ - 1] /\ UNCHANGED pc
    <3>1. outer' \in [Msgs -> 0..MaxNesting]
      BY <2>2, DispatchAssumption DEF Typed, TypeOK
    <3> QED
      BY <1>15, <2>2, <3>1 DEF Close, Typed, TypeOK, Carried, Guards, NoGuard, lockVars, agentVars
  <2> QED  BY <1>15, <2>1, <2>2 DEF Close, LeaveFrame
<1> QED
  BY <1>1, <1>2, <1>3, <1>4, <1>5, <1>6, <1>7, <1>8, <1>9, <1>10, <1>11, <1>12, <1>13, <1>14,
     <1>15 DEF TaskStep, LoopStep

\* Every step of an agent's thread or of a run's helpers keeps the types.
LEMMA AgentTypes == Typed /\ (\E m \in Msgs : AgentStep(m)) => Typed'
<1> SUFFICES ASSUME Typed, NEW m \in Msgs, AgentStep(m) PROVE Typed'
  OBVIOUS
<1>1. /\ UNCHANGED <<guard, pending, runningTs, pc, cur, outer, stack, failing, phase, gathered,
                     plain, fate>>
      /\ running' \in {running, m}
  BY DEF AgentStep, BuildAgent, RefuseRun, Converse, ConversationEnds, TrackAgent, MonitorInterrupt,
         adapterVars, lockVars, taskVars
<1>2. /\ thread' \in [Msgs -> Threads] /\ interrupted' \in BOOLEAN
      /\ armed' \in [Msgs -> BOOLEAN] /\ watching' \in [Msgs -> BOOLEAN]
  BY DEF AgentStep, BuildAgent, RefuseRun, Converse, ConversationEnds, TrackAgent, MonitorInterrupt,
         Typed, TypeOK, Threads
<1> QED  BY <1>1, <1>2 DEF Typed, TypeOK, Carried

\* A cancellation takes a task to the end of what it is in, or leaves it alone.
LEMMA CancelType ==
  ASSUME NEW p \in PCs
  PROVE  /\ CancelledAt(p) \in PCs
         /\ CancelledAt(p) \in {"done", "closing", "persist", "unwind"} \/ CancelledAt(p) = p
         /\ CancelledAt(p) = p <=>
              p \notin {"created", "hook", "emit", "reply", "error", "setup", "run", "followup"}
         /\ CancelledAt(p) \in InTurn <=> p \in InTurn
         /\ CancelledAt(p) = "idle" <=> p = "idle"
         /\ p \in InHandler => CancelledAt(p) \in InHandler
  BY DEF CancelledAt, PCs, InTurn, InHandler

\* Every step of stop() keeps the types.
LEMMA StopTypes == Typed /\ StopStep => Typed'
<1> SUFFICES ASSUME Typed, StopStep PROVE Typed'
  OBVIOUS
<1>1. CASE BeginDrain \/ DrainTimesOut
  BY <1>1
  DEF BeginDrain, DrainTimesOut, Typed, TypeOK, Carried, Phases, adapterVars, lockVars, taskVars, agentVars
<1>2. CASE CancelTasks
  <2>1. \A t \in Msgs : pc'[t] \in {CancelledAt(pc[t]), pc[t]}
    BY <1>2 DEF CancelTasks
  <2>2. pc' \in [Msgs -> PCs]
    BY <1>2, CancelType DEF CancelTasks, Typed, TypeOK
  <2>3. Carried'
    BY <1>2, <2>1, CancelType DEF CancelTasks, Typed, TypeOK, Carried, Carrying
  <2>4. failing' \in [Msgs -> BOOLEAN]
    BY <1>2 DEF CancelTasks, Typed, TypeOK
  <2>5. fate' \in [Msgs -> Fates]
    BY <1>2 DEF CancelTasks, Typed, TypeOK, Fates
  <2>6. gathered' \subseteq Msgs /\ phase' \in Phases
    BY <1>2 DEF CancelTasks, Live, Phases
  <2> QED
    BY <1>2, <2>2, <2>3, <2>4, <2>5, <2>6
    DEF CancelTasks, Typed, TypeOK, adapterVars, lockVars, agentVars
<1>3. CASE FinishStop
  <2>1. fate' \in [Msgs -> Fates] /\ pending' = NoMsg
    BY <1>3 DEF FinishStop, DiscardPending, TakePending, Typed, TypeOK, Fates
  <2> QED
    BY <1>3, <2>1
    DEF FinishStop, Typed, TypeOK, Carried, Guards, NoGuard, Phases, taskVars, agentVars
<1> QED  BY <1>1, <1>2, <1>3 DEF StopStep

\* Every step keeps the types.
LEMMA NextTypes == Typed /\ [Next]_vars => Typed'
<1>1. Typed /\ UNCHANGED vars => Typed'
  BY DEF vars, Typed, TypeOK, Carried
<1> QED  BY <1>1, ArriveTypes, TaskTypes, AgentTypes, StopTypes DEF Next, TaskStep

\* The session's guards, locks, tasks and runs keep their types, for any messages,
\* nesting and interrupt depth.
THEOREM TypesHold == Spec => []TypeOK
<1>1. Typed => TypeOK
  BY DEF Typed
<1> QED  BY <1>1, InitTypes, NextTypes, PTL DEF Spec

-----------------------------------------------------------------------------
(* No turn while draining                                                  *)

\* A task moves alone, and no step takes one into a turn once stop() has begun.
LEMMA NextAdmits ==
  ASSUME Typed, Next, Draining, NEW t \in Msgs, pc'[t] \in {"setup", "followup"}
  PROVE  pc'[t] = pc[t]
<1>1. ASSUME NEW u \in Msgs, NEW where \in PCs, Goto(u, where), where \notin {"setup", "followup"}
      PROVE  pc'[t] = pc[t]
  BY <1>1, GotoType
<1> USE DEF PCs
<1>2. ASSUME NEW m \in Msgs, Arrive(m) PROVE pc'[t] = pc[t]
  <2>1. CASE ArriveIdle(m) \/ ArriveStop(m)
    BY <2>1, <1>1 DEF ArriveIdle, ArriveStop
  <2>2. CASE ArriveDraining(m) \/ ArriveBusy(m)
    BY <2>2 DEF ArriveDraining, ArriveBusy, taskVars
  <2> QED  BY <1>2, <2>1, <2>2 DEF Arrive
<1>3. ASSUME NEW u \in Msgs, TaskStep(u) PROVE pc'[t] = pc[t]
  <2>1. CASE Begin(u) \/ Handoff(u) \/ EnterBusy(u) \/ InlineStop(u)
    BY <2>1, <1>1 DEF Begin, Handoff, EnterBusy, InlineStop
  <2>2. CASE EnterFree(u)
    BY <2>2, <1>1 DEF EnterFree, MayStart, RejectDraining
  <2>3. CASE AfterEmit(u)
    BY <2>3, <1>1 DEF AfterEmit, MayStart, RejectDraining
  <2>4. CASE SetupFails(u) \/ HandlerReturns(u) \/ UnwindRun(u)
    <3>1. PICK where \in {"error", "reply", "persist", "unwind"} : Goto(u, where)
      BY <2>4 DEF SetupFails, HandlerReturns, UnwindRun
    <3> QED  BY <3>1, <1>1
  <2>5. CASE StartRun(u) \/ FollowUp(u)
    BY <2>5, <1>1 DEF StartRun, FollowUp, OpenRun
  <2>6. CASE FinishAlone(u) \/ FinishDiscarding(u) \/ FinishThenFollow(u)
    BY <2>6, <1>1 DEF FinishAlone, FinishDiscarding, FinishThenFollow, Discardable
  <2>7. CASE EmptyRun(u) \/ InactivityTimeout(u)
    BY <2>7, <1>1 DEF EmptyRun, InactivityTimeout
  <2>8. CASE DeliverLast(u) \/ DeliverFails(u) \/ DeliverAndTake(u)
    BY <2>8, <1>1 DEF DeliverLast, DeliverFails, DeliverAndTake
  <2>9. CASE Close(u)
    BY <2>9, <1>1 DEF Close, LeaveFrame
  <2> QED  BY <1>3, <2>1, <2>2, <2>3, <2>4, <2>5, <2>6, <2>7, <2>8, <2>9 DEF TaskStep, LoopStep
<1>4. ASSUME NEW m \in Msgs, AgentStep(m) PROVE pc'[t] = pc[t]
  BY <1>4
  DEF AgentStep, BuildAgent, RefuseRun, Converse, ConversationEnds, TrackAgent, MonitorInterrupt, taskVars
<1>5. CASE StopStep
  <2>1. CASE CancelTasks
    <3>1. pc'[t] \in {CancelledAt(pc[t]), pc[t]} /\ pc[t] \in PCs
      BY <2>1 DEF CancelTasks, Typed, TypeOK
    <3> QED  BY <3>1, CancelType
  <2> QED  BY <1>5, <2>1 DEF StopStep, BeginDrain, DrainTimesOut, FinishStop, taskVars
<1> QED  BY <1>2, <1>3, <1>4, <1>5 DEF Next, TaskStep

\* Once stop() has begun no message is admitted to a turn: the claim, the one after the
\* awaited hook and the follow-up of a run look at the drain in the step that admits.
THEOREM NoneAdmitted == Spec => NoTurnAdmittedWhileDraining
<1>1. Typed /\ [Next]_vars =>
        [Draining => \A t \in Msgs : pc'[t] \in {"setup", "followup"} => pc'[t] = pc[t]]_vars
  BY NextAdmits
<1> QED  BY <1>1, InitTypes, NextTypes, PTL DEF Spec, NoTurnAdmittedWhileDraining

-----------------------------------------------------------------------------
(* Locks and their owners                                                  *)

\* A message that has come stays so.
LEMMA NeverUnsent ==
  ASSUME Typed, [Next]_vars, NEW x \in Msgs, fate'[x] = "unsent"
  PROVE  fate[x] = "unsent"
<1> USE DEF Typed, TypeOK
<1>1. ASSUME NEW m \in Msgs, Arrive(m) PROVE fate[x] = "unsent"
  BY <1>1
  DEF Arrive, ArriveIdle, ArriveDraining, ArriveBusy, ArriveStop, StopClean, QueueOrRefuse, MergePending,
      ReplacePending
<1>2. ASSUME NEW t \in Msgs, TaskStep(t) PROVE fate[x] = "unsent"
  <2>1. CASE Begin(t) \/ Handoff(t) \/ StartRun(t) \/ UnwindRun(t) \/ HandlerReturns(t)
             \/ DeliverLast(t) \/ DeliverFails(t) \/ Close(t)
    BY <2>1 DEF Begin, Handoff, StartRun, UnwindRun, HandlerReturns, DeliverLast, DeliverFails, Close
  <2>2. CASE EnterFree(t) \/ AfterEmit(t) \/ InlineStop(t) \/ SetupFails(t)
    BY <2>2 DEF EnterFree, AfterEmit, InlineStop, LateStop, Claim, RejectDraining, SetupFails
  <2>3. CASE EnterBusy(t)
    BY <2>3 DEF EnterBusy, QueueArgument, StopClean, QueueOrRefuse, MergePending, ReplacePending
  <2>4. CASE FinishAlone(t) \/ FinishDiscarding(t) \/ FinishThenFollow(t)
    BY <2>4 DEF FinishAlone, FinishDiscarding, FinishThenFollow, Answered
  <2>5. CASE FollowUp(t) \/ EmptyRun(t) \/ InactivityTimeout(t) \/ DeliverAndTake(t)
    BY <2>5 DEF FollowUp, EmptyRun, InactivityTimeout, DeliverAndTake
  <2> QED  BY <1>2, <2>1, <2>2, <2>3, <2>4, <2>5 DEF TaskStep, LoopStep
<1>3. ASSUME NEW m \in Msgs, AgentStep(m) PROVE fate[x] = "unsent"
  BY <1>3
  DEF AgentStep, BuildAgent, RefuseRun, Converse, ConversationEnds, TrackAgent, MonitorInterrupt
<1>4. CASE StopStep
  BY <1>4
  DEF StopStep, BeginDrain, DrainTimesOut, CancelTasks, FinishStop, DiscardPending
<1>5. CASE UNCHANGED vars
  BY <1>5 DEF vars
<1> QED  BY <1>1, <1>2, <1>3, <1>4, <1>5 DEF Next, TaskStep

\* Where a task holds the adapter's guard.
Active(p) == p \notin {"idle", "done", "inline"}

\* The owners stay when one task moves that opens and closes no frame, gives up no sentinel
\* on its way out of the handler and no guard on its way to the end.
LEMMA MoveOwned ==
  ASSUME Typed, Owned, NEW t \in Msgs, NEW where \in PCs, Goto(t, where), UNCHANGED stack,
         \A m \in Msgs : fate'[m] = "unsent" => fate[m] = "unsent",
         where \in InTurn <=> pc[t] \in InTurn,
         pc[t] # "idle" \/ fate'[t] # "unsent",
         \A m \in Msgs : armed'[m] => armed[m],
         running' \in Msgs => running' = running,
         running' = Sentinel => where \in InHandler \/ (running = Sentinel /\ pc[t] \notin InHandler),
         guard' = NoGuard \/ Active(where)
           \/ (guard # NoGuard /\ UNCHANGED phase /\ ~Active(pc[t]))
  PROVE  Owned'
<1>1. \A h \in Msgs : pc'[h] = IF h = t THEN where ELSE pc[h]
  BY GotoType
<1>2. Frames' = Frames
  BY DEF Frames
<1>3. Nested'
  BY <1>1 DEF Owned, Nested
<1>4. Tracked'
  BY <1>2 DEF Owned, Tracked
<1>5. (running = Sentinel => \E u \in Msgs : pc[u] \in InHandler)'
  BY <1>1 DEF Owned, LocksHaveOwners, InHandler
<1>6. (guard # NoGuard /\ phase # "cancelling" => \E u \in Msgs : Active(pc[u]))'
  <2>1. CASE Active(where)
    BY <1>1, <2>1
  <2>2. CASE guard # NoGuard /\ UNCHANGED phase /\ ~Active(pc[t])
    BY <1>1, <2>2 DEF Owned, LocksHaveOwners, Busy, Active
  <2> QED  BY <2>1, <2>2
<1>7. LocksHaveOwners'
  BY <1>2, <1>5, <1>6 DEF Owned, LocksHaveOwners, Busy, Active, InHandler
<1> QED  BY <1>3, <1>4, <1>7 DEF Owned

\* They stay when no task moves.
LEMMA StillOwned ==
  ASSUME Typed, Owned, UNCHANGED <<pc, stack>>,
         \A m \in Msgs : fate'[m] = "unsent" => fate[m] = "unsent",
         \A m \in Msgs : armed'[m] => armed[m],
         running' = running \/ running' \in Frames \/ running' = NoMsg,
         guard' # NoGuard => guard # NoGuard, phase' = phase \/ phase # "cancelling"
  PROVE  Owned'
<1>1. Frames' = Frames /\ Frames \subseteq Msgs
  BY DEF Frames, Range, Typed, TypeOK
<1>2. Nested' /\ Tracked'
  BY <1>1 DEF Owned, Nested, Tracked
<1>3. LocksHaveOwners'
  BY <1>1, DispatchAssumption DEF Owned, LocksHaveOwners, Busy
<1> QED  BY <1>2, <1>3 DEF Owned

\* A frame that opens has the runs it has, and one more.
LEMMA OpenOwned ==
  ASSUME Typed, Owned, NEW t \in Msgs, NEW m \in Msgs, OpenRun(t, m), pc[t] \in {"setup", "followup"},
         UNCHANGED <<running, guard, phase, fate>>
  PROVE  Owned'
<1>1. \A h \in Msgs : pc'[h] = IF h = t THEN "run" ELSE pc[h]
  BY GotoType DEF OpenRun, PCs
<1>2. \A h \in Msgs : stack'[h] = IF h = t THEN Append(stack[t], m) ELSE stack[h]
  BY DEF OpenRun, Typed, TypeOK
<1>3. /\ stack'[t] # <<>> /\ m \in Range(stack'[t]) /\ Range(stack[t]) \subseteq Range(stack'[t])
  <2>1. stack'[t] = Append(stack[t], m) /\ stack[t] \in Seq(Msgs)
    BY <1>2 DEF Typed, TypeOK
  <2> QED  BY <2>1, PushStack
<1>4. Frames \subseteq Frames' /\ m \in Frames'
  BY <1>2, <1>3 DEF Frames
<1>5. Nested'
  BY <1>1, <1>2, <1>3 DEF Owned, Nested, InTurn
<1>6. Tracked'
  BY <1>4 DEF Owned, Tracked, OpenRun, Typed, TypeOK
<1>7. LocksHaveOwners'
  BY <1>1, <1>4 DEF Owned, LocksHaveOwners, Busy
<1> QED  BY <1>5, <1>6, <1>7 DEF Owned

\* The innermost frame that closes takes its helpers and the runner's entry along.
LEMMA UnwindOwned ==
  ASSUME Typed, Owned, NEW t \in Msgs, UnwindRun(t)
  PROVE  Owned'
<1> DEFINE rest == SubSeq(stack[t], 1, Len(stack[t]) - 1)
           where == IF Len(stack[t]) = 1 THEN "persist" ELSE "unwind"
<1>1. \A h \in Msgs : pc'[h] = IF h = t THEN where ELSE pc[h]
  BY GotoType DEF UnwindRun, PCs
<1>2. stack[t] \in Seq(Msgs) /\ stack[t] # <<>>
  BY DEF UnwindRun, Owned, Nested, InTurn, Typed, TypeOK
<1>3. rest \in Seq(Msgs) /\ Len(rest) = Len(stack[t]) - 1 /\ Len(stack[t]) \in Nat \ {0}
      /\ \A x \in Range(stack[t]) : x = Top(t) \/ x \in Range(rest)
  BY <1>2, PopStack DEF Top
<1>4. \A h \in Msgs : stack'[h] = IF h = t THEN rest ELSE stack[h]
  BY DEF UnwindRun, Typed, TypeOK
<1> HIDE DEF rest
<1>5. rest = <<>> <=> Len(stack[t]) = 1
  <2>1. Len(rest) = 0 <=> Len(stack[t]) = 1
    BY <1>3
  <2>2. rest = <<>> <=> Len(rest) = 0
    BY <1>3, EmptySeq
  <2> QED  BY <2>1, <2>2
<1>6. \A x \in Frames : x = Top(t) \/ x \in Frames'
  BY <1>3, <1>4 DEF Frames
<1>7. Nested'
  BY <1>1, <1>4, <1>5 DEF UnwindRun, Owned, Nested, InTurn
<1>8. Tracked'
  BY <1>6 DEF UnwindRun, StopHelpers, Owned, Tracked, Typed, TypeOK
<1>9. LocksHaveOwners'
  BY <1>1, DispatchAssumption DEF UnwindRun, adapterVars, Owned, LocksHaveOwners, Busy
<1> QED  BY <1>7, <1>8, <1>9 DEF Owned

\* Every arrival leaves the locks to their owners.
LEMMA ArriveOwned == Typed /\ Owned /\ (\E m \in Msgs : Arrive(m)) => Owned'
<1> SUFFICES ASSUME Typed, Owned, NEW m \in Msgs, Arrive(m) PROVE Owned'
  OBVIOUS
<1> USE DEF PCs, InTurn
<1>1. \A x \in Msgs : fate'[x] = "unsent" => fate[x] = "unsent"
  BY NeverUnsent DEF Next
<1>2. fate[m] = "unsent" /\ pc[m] = "idle"
  BY DEF Arrive, ArriveIdle, ArriveDraining, ArriveBusy, ArriveStop, Owned, Nested
<1>3. CASE ArriveIdle(m)
  <2>1. fate'[m] # "unsent"
    BY <1>3 DEF ArriveIdle, Typed, TypeOK
  <2> QED  BY <1>1, <1>2, <1>3, <2>1, MoveOwned DEF ArriveIdle, lockVars, agentVars, Active, InHandler
<1>4. CASE ArriveDraining(m) \/ ArriveBusy(m)
  <2>1. UNCHANGED <<pc, stack, armed, running, phase>> /\ (guard' # NoGuard => guard # NoGuard)
    BY <1>4 DEF ArriveDraining, ArriveBusy, lockVars, taskVars, agentVars
  <2> QED  BY <1>1, <2>1, StillOwned
<1>5. CASE ArriveStop(m)
  <2>1. PICK where \in {"done", "inline"} : Goto(m, where)
    BY <1>5 DEF ArriveStop
  <2>2. fate'[m] # "unsent"
    BY <1>5 DEF ArriveStop, StopClean, Typed, TypeOK
  <2>3. running' \in {running, NoMsg} /\ UNCHANGED <<stack, armed, guard, phase>>
    BY <1>5 DEF ArriveStop, StopClean, lockVars, agentVars
  <2>4. guard # NoGuard
    BY <1>5 DEF ArriveStop
  <2> QED
    BY <1>1, <1>2, <2>1, <2>2, <2>3, <2>4, MoveOwned, DispatchAssumption DEF Active, InHandler
<1> QED  BY <1>3, <1>4, <1>5 DEF Arrive

\* Every step of a task leaves the locks to their owners.
LEMMA TaskOwned == Typed /\ Owned /\ (\E t \in Msgs : TaskStep(t)) => Owned'
<1> SUFFICES ASSUME Typed, Owned, NEW t \in Msgs, TaskStep(t) PROVE Owned'
  OBVIOUS
<1> USE DEF PCs, InTurn, Active
<1>0. \A x \in Msgs : fate'[x] = "unsent" => fate[x] = "unsent"
  BY NeverUnsent DEF Next, TaskStep
<1>1. CASE Begin(t) \/ Handoff(t)
  <2>1. UNCHANGED <<stack, armed, running>> /\ Goto(t, "hook") /\ pc[t] \in {"created", "handoff"}
    BY <1>1 DEF Begin, Handoff, lockVars, agentVars
  <2> QED  BY <1>0, <2>1, MoveOwned DEF InHandler
<1>2. CASE EnterFree(t)
  <2>1. PICK where \in {"emit", "setup", "reply"} :
          /\ Goto(t, where) /\ UNCHANGED <<stack, armed>> /\ pc[t] = "hook"
          /\ running' = IF where = "setup" THEN Sentinel ELSE NoMsg
    BY <1>2 DEF EnterFree, Claim, RejectDraining, agentVars
  <2> QED  BY <1>0, <2>1, MoveOwned, DispatchAssumption DEF InHandler
<1>3. CASE EnterBusy(t)
  <2>1. /\ Goto(t, "reply") /\ UNCHANGED <<stack, armed>> /\ pc[t] = "hook"
        /\ running' \in {running, NoMsg}
    BY <1>3 DEF EnterBusy, StopClean
  <2> QED  BY <1>0, <2>1, MoveOwned, DispatchAssumption DEF InHandler
<1>4. CASE AfterEmit(t)
  <2>1. PICK where \in {"setup", "reply"} :
          /\ Goto(t, where) /\ UNCHANGED <<stack, armed>> /\ pc[t] = "emit"
          /\ running' \in {running, NoMsg} \/ (where = "setup" /\ running' = Sentinel)
    BY <1>4 DEF AfterEmit, LateStop, Claim, RejectDraining, lockVars, agentVars
  <2> QED  BY <1>0, <2>1, MoveOwned, DispatchAssumption DEF InHandler
<1>5. CASE InlineStop(t)
  <2>1. /\ Goto(t, "done") /\ UNCHANGED <<stack, armed, guard, phase>> /\ pc[t] = "inline"
        /\ running' = NoMsg
    BY <1>5 DEF InlineStop, LateStop
  <2> QED  BY <1>0, <2>1, MoveOwned, DispatchAssumption DEF InHandler
<1>6. CASE SetupFails(t) \/ HandlerReturns(t)
  <2>1. PICK where \in {"error", "reply"} :
          /\ Goto(t, where) /\ UNCHANGED <<stack, armed>> /\ pc[t] \in {"setup", "persist"}
          /\ running' = IF running = Sentinel THEN NoMsg ELSE running
    BY <1>6 DEF SetupFails, HandlerReturns, LeaveHandler, agentVars
  <2> QED  BY <1>0, <2>1, MoveOwned, DispatchAssumption DEF InHandler
<1>7. CASE StartRun(t) \/ (FollowUp(t) /\ OpenRun(t, cur[t]) /\ UNCHANGED fate)
  <2>1. cur[t] \in Msgs
    BY <1>7 DEF StartRun, FollowUp, Typed, Carried, Carrying
  <2> QED  BY <1>7, <2>1, OpenOwned DEF StartRun, FollowUp, adapterVars, lockVars
<1>8. CASE FollowUp(t) /\ Goto(t, "unwind") /\ UNCHANGED <<stack, agentVars>>
  <2>1. UNCHANGED <<armed, running>> /\ pc[t] = "followup"
    BY <1>8 DEF FollowUp, lockVars, agentVars
  <2> QED  BY <1>0, <1>8, <2>1, MoveOwned DEF InHandler
<1>9. CASE FinishAlone(t) \/ FinishDiscarding(t) \/ FinishThenFollow(t)
  <2>1. PICK where \in {"unwind", "followup"} : Goto(t, where)
    BY <1>9 DEF FinishAlone, FinishDiscarding, FinishThenFollow
  <2>2. UNCHANGED <<stack, armed, running>> /\ pc[t] = "run"
    BY <1>9 DEF FinishAlone, FinishDiscarding, FinishThenFollow, RunFinished, lockVars, agentVars
  <2> QED  BY <1>0, <2>1, <2>2, MoveOwned DEF InHandler
<1>10. CASE EmptyRun(t) \/ InactivityTimeout(t)
  <2>1. UNCHANGED <<stack, armed, running>> /\ pc[t] = "run" /\ Goto(t, "unwind")
    BY <1>10 DEF EmptyRun, InactivityTimeout, lockVars, agentVars
  <2> QED  BY <1>0, <2>1, MoveOwned DEF InHandler
<1>11. CASE UnwindRun(t)
  BY <1>11, UnwindOwned
<1>12. CASE DeliverLast(t) \/ DeliverFails(t) \/ DeliverAndTake(t)
  <2>1. PICK where \in {"closing", "handoff", "error"} : Goto(t, where)
    BY <1>12 DEF DeliverLast, DeliverFails, DeliverAndTake
  <2>2. UNCHANGED <<stack, armed, running>> /\ pc[t] \in {"reply", "error"}
    BY <1>12 DEF DeliverLast, DeliverFails, DeliverAndTake, lockVars, agentVars
  <2> QED  BY <1>0, <2>1, <2>2, MoveOwned DEF InHandler
<1>13. CASE Close(t)
  <2>1. UNCHANGED <<stack, armed, running, phase>> /\ pc[t] = "closing" /\ guard' = NoGuard
    BY <1>13 DEF Close, lockVars, agentVars
  <2>2. CASE Goto(t, "done")
    BY <1>0, <2>1, <2>2, MoveOwned DEF InHandler
  <2>3. CASE UNCHANGED pc
    BY <1>0, <2>1, <2>3, StillOwned
  <2> QED  BY <1>13, <2>2, <2>3 DEF Close, LeaveFrame
<1> QED
  BY <1>1, <1>2, <1>3, <1>4, <1>5, <1>6, <1>7, <1>8, <1>9, <1>10, <1>11, <1>12, <1>13
  DEF TaskStep, LoopStep, FollowUp

\* Every step of a thread or a helper leaves the locks to their owners: only a run that
\* has its frame registers an agent.
LEMMA AgentOwned == Typed /\ Owned /\ (\E m \in Msgs : AgentStep(m)) => Owned'
<1> SUFFICES ASSUME Typed, Owned, NEW m \in Msgs, AgentStep(m) PROVE Owned'
  OBVIOUS
<1>1. /\ UNCHANGED <<pc, stack, guard, phase, fate>>
      /\ \A x \in Msgs : armed'[x] => armed[x]
      /\ running' = running \/ (running' = m /\ armed[m])
  BY DEF AgentStep, BuildAgent, RefuseRun, Converse, ConversationEnds, TrackAgent, MonitorInterrupt,
         adapterVars, lockVars, taskVars, Typed, TypeOK
<1>2. armed[m] => m \in Frames
  BY DEF Owned, Tracked
<1> QED  BY <1>1, <1>2, StillOwned

\* Every step of stop() leaves the locks to their owners, until it has waited for them.
LEMMA StopOwned == Typed /\ Owned /\ StopStep => Owned'
<1> SUFFICES ASSUME Typed, Owned, StopStep PROVE Owned'
  OBVIOUS
<1>1. \A x \in Msgs : fate'[x] = "unsent" => fate[x] = "unsent"
  BY NeverUnsent DEF Next
<1>2. CASE BeginDrain \/ DrainTimesOut
  <2>1. UNCHANGED <<pc, stack, armed, running, guard>> /\ phase # "cancelling"
    BY <1>2 DEF BeginDrain, DrainTimesOut, adapterVars, lockVars, taskVars, agentVars
  <2> QED  BY <1>1, <2>1, StillOwned
<1>3. CASE CancelTasks
  <2>1. /\ \A t \in Msgs : pc'[t] \in {CancelledAt(pc[t]), pc[t]}
        /\ \A t \in Msgs : pc[t] \in PCs
    BY <1>3 DEF CancelTasks, Typed, TypeOK
  <2>2. UNCHANGED <<stack, armed, running, guard>> /\ phase' = "cancelling" /\ Frames' = Frames
    BY <1>3 DEF CancelTasks, adapterVars, lockVars, agentVars, Frames
  <2>3. Nested'
    BY <1>1, <2>1, <2>2, CancelType DEF Owned, Nested
  <2>4. Tracked'
    BY <2>2 DEF Owned, Tracked
  <2>5. LocksHaveOwners'
    BY <2>1, <2>2, CancelType DEF Owned, LocksHaveOwners, InHandler
  <2> QED  BY <2>3, <2>4, <2>5 DEF Owned
<1>4. CASE FinishStop
  <2>1. /\ UNCHANGED <<pc, stack, armed>> /\ running' = NoMsg /\ guard' = NoGuard
    BY <1>4 DEF FinishStop, taskVars, agentVars
  <2>2. Nested' /\ Tracked'
    BY <1>1, <2>1 DEF Owned, Nested, Tracked, Frames
  <2>3. LocksHaveOwners'
    BY <2>1, DispatchAssumption DEF LocksHaveOwners
  <2> QED  BY <2>2, <2>3 DEF Owned
<1> QED  BY <1>2, <1>3, <1>4 DEF StopStep

\* At the start nothing is locked.
LEMMA InitOwned == Init => Owned
<1> SUFFICES ASSUME Init PROVE Owned
  OBVIOUS
<1>1. Nested /\ Tracked
  BY DEF Init, Nested, Tracked, InTurn
<1>2. LocksHaveOwners
  BY DispatchAssumption DEF Init, LocksHaveOwners
<1> QED  BY <1>1, <1>2 DEF Owned

\* Every step leaves the locks to their owners.
LEMMA NextOwned == Typed /\ Owned /\ [Next]_vars => Owned'
<1>1. Typed /\ Owned /\ UNCHANGED vars => Owned'
  BY StillOwned DEF vars
<1> QED  BY <1>1, ArriveOwned, TaskOwned, AgentOwned, StopOwned DEF Next, TaskStep

\* No lock outlives its owner: neither the agent in _running_agents, nor the sentinel, nor
\* the adapter's guard, whatever is interrupted, stopped, timed out or cancelled.
THEOREM LocksOwned == Spec => []LocksHaveOwners
<1>1. Owned => LocksHaveOwners
  BY DEF Owned
<1> QED  BY <1>1, InitTypes, NextTypes, InitOwned, NextOwned, PTL DEF Spec

-----------------------------------------------------------------------------
(* Every message in one place                                              *)

\* What a step may do to a run and to a fate that is sealed: AnsweredAtMostOnce.
Sealed ==
  \A m \in Msgs :
    /\ thread[m] # "none" => (thread'[m] = "queued" => thread[m] = "queued")
    /\ Settled(m) => fate'[m] = fate[m]

\* A hand is a task's, a message's or empty.
LEMMA HandType ==
  ASSUME Typed, Nested, NEW t \in Msgs
  PROVE  /\ Hand(t) \in Msgs \cup {NoMsg}
         /\ pc[t] = "run" => Hand(t) = Top(t) /\ Top(t) \in Msgs /\ Top(t) \in Range(stack[t])
         /\ pc[t] \in Carrying => Hand(t) = cur[t] /\ cur[t] \in Msgs
<1>1. ASSUME pc[t] = "run"
      PROVE  Top(t) \in Msgs /\ Top(t) \in Range(stack[t])
  <2>1. stack[t] \in Seq(Msgs) /\ stack[t] # <<>>
    BY <1>1 DEF Typed, TypeOK, Nested, InTurn
  <2>2. Len(stack[t]) \in Nat \ {0} /\ DOMAIN stack[t] = 1..Len(stack[t]) /\ Top(t) \in Msgs
    BY <2>1, PopStack, LenProperties DEF Top
  <2> QED  BY <2>2 DEF Top, Range
<1> QED  BY <1>1 DEF Hand, Carrying, Typed, Carried

\* What is held waits, and is held once; what has not come is held nowhere.
LEMMA HeldWaits ==
  ASSUME Handed
  PROVE  /\ pending \in Msgs => fate[pending] \in Waiting
         /\ \A t \in Msgs : Hand(t) \in Msgs => fate[Hand(t)] \in Waiting /\ Hand(t) # pending
         /\ \A m \in Msgs : fate[m] \notin Waiting => pending # m /\ \A t \in Msgs : Hand(t) # m
  BY DEF Handed

\* A task that moves alone changes only its own hand.
LEMMA HandMoves ==
  ASSUME Typed, NEW t \in Msgs, NEW where \in PCs, Goto(t, where),
         \A u \in Msgs \ {t} : cur'[u] = cur[u] /\ stack'[u] = stack[u]
  PROVE  /\ \A u \in Msgs \ {t} : Hand(u)' = Hand(u)
         /\ Hand(t)' = IF where \in Carrying THEN cur'[t] ELSE IF where = "run" THEN Top(t)' ELSE NoMsg
         /\ \A u \in Msgs : pc'[u] = IF u = t THEN where ELSE pc[u]
<1>1. \A u \in Msgs : pc'[u] = IF u = t THEN where ELSE pc[u]
  BY GotoType
<1> QED  BY <1>1 DEF Hand, Top

\* The slot, the hand of t and an arriving message a, and where they go: nothing else is
\* touched, and of the three exactly those wait that are in the slot or in the hand again.
LEMMA PassOn ==
  ASSUME Handed, NEW t \in Msgs, NEW a \in Msgs \cup {NoMsg},
         a \in Msgs => fate[a] = "unsent",
         \A u \in Msgs \ {t} : Hand(u)' = Hand(u),
         pending' \in {NoMsg, pending, Hand(t), a}, Hand(t)' \in {NoMsg, pending, Hand(t), a},
         pending' = NoMsg \/ Hand(t)' # pending',
         \A m \in Msgs \ {pending, Hand(t), a} : fate'[m] = fate[m],
         \A m \in Msgs \cap {pending, Hand(t), a} : fate'[m] \in Waiting <=> m \in {pending', Hand(t)'}
  PROVE  Handed' /\ \A m \in Msgs : Settled(m) => fate'[m] = fate[m]
<1> USE DispatchAssumption
<1>1. a \in Msgs => a # pending /\ \A u \in Msgs : Hand(u) # a
  BY HeldWaits DEF Waiting
<1>2. ASSUME NEW m \in Msgs, m \notin {pending, Hand(t), a}
      PROVE  /\ m \notin {pending', Hand(t)'} /\ fate'[m] = fate[m]
             /\ fate[m] \in Waiting <=> \E u \in Msgs \ {t} : Hand(u) = m
  BY <1>2 DEF Handed
<1>3. ASSUME NEW m \in Msgs, m \in {pending, Hand(t), a}
      PROVE  \A u \in Msgs \ {t} : Hand(u) # m
  BY <1>1, <1>3 DEF Handed
<1>4. \A m \in Msgs : fate'[m] \in Waiting <=> (pending' = m \/ \E u \in Msgs : Hand(u)' = m)
  <2>1. ASSUME NEW m \in Msgs, m \notin {pending, Hand(t), a}
        PROVE  fate'[m] \in Waiting <=> (pending' = m \/ \E u \in Msgs : Hand(u)' = m)
    BY <1>2, <2>1
  <2>2. ASSUME NEW m \in Msgs, m \in {pending, Hand(t), a}
        PROVE  fate'[m] \in Waiting <=> (pending' = m \/ \E u \in Msgs : Hand(u)' = m)
    BY <1>3, <2>2
  <2> QED  BY <2>1, <2>2
<1>5. \A u \in Msgs : Hand(u)' \in Msgs => Hand(u)' # pending'
  BY <1>1 DEF Handed
<1>6. \A u, v \in Msgs : Hand(u)' \in Msgs /\ Hand(u)' = Hand(v)' => u = v
  <2>1. ASSUME NEW u \in Msgs \ {t}, Hand(u)' \in Msgs PROVE Hand(t)' # Hand(u)'
    BY <1>1, <2>1 DEF Handed
  <2>2. ASSUME NEW u \in Msgs \ {t}, NEW v \in Msgs \ {t}, Hand(u)' \in Msgs, Hand(u)' = Hand(v)'
        PROVE  u = v
    BY <2>2 DEF Handed
  <2> QED  BY <2>1, <2>2
<1>7. Handed'
  BY <1>4, <1>5, <1>6 DEF Handed
<1>8. \A m \in Msgs : Settled(m) => fate'[m] = fate[m]
  BY HeldWaits DEF Settled
<1> QED  BY <1>7, <1>8

\* A task moves, and begins no run: it answers for the event it carries afterwards.
LEMMA MoveHanded ==
  ASSUME InOnePlace, NEW t \in Msgs, NEW where \in PCs, Goto(t, where), where # "run",
         UNCHANGED <<stack, thread>>,
         \A u \in Msgs \ {t} : cur'[u] = cur[u],
         NEW a \in Msgs \cup {NoMsg}, a \in Msgs => fate[a] = "unsent",
         NEW h \in {NoMsg, pending, Hand(t), a}, h = IF where \in Carrying THEN cur'[t] ELSE NoMsg,
         pc[t] = "run" => Hand(t) \notin {pending', h},
         pending' \in {NoMsg, pending, Hand(t), a}, pending' = NoMsg \/ h # pending',
         \A m \in Msgs : fate'[m] = "unsent" => fate[m] = "unsent",
         \A m \in Msgs \ {pending, Hand(t), a} : fate'[m] = fate[m],
         \A m \in Msgs \cap {pending, Hand(t), a} : fate'[m] \in Waiting <=> m \in {pending', h}
  PROVE  Handed' /\ Answering' /\ Sealed
<1>1. Typed /\ Nested /\ Handed /\ Answering
  BY DEF InOnePlace
<1>2. /\ \A u \in Msgs \ {t} : Hand(u)' = Hand(u)
      /\ Hand(t)' = h /\ \A u \in Msgs : pc'[u] = IF u = t THEN where ELSE pc[u]
  BY <1>1, HandMoves
<1>3. Handed' /\ \A m \in Msgs : Settled(m) => fate'[m] = fate[m]
  BY <1>1, <1>2, PassOn
<1> DEFINE sealed == {m \in Msgs : fate'[m] \notin Waiting \cup {"unsent"}}
<1>4. \A m \in Msgs : Settled(m) => m \in sealed
  BY <1>3 DEF Settled
<1>5. pc[t] = "run" => Hand(t) = Top(t) /\ Top(t) \in sealed
  <2> SUFFICES ASSUME pc[t] = "run" PROVE Hand(t) = Top(t) /\ Top(t) \in sealed
    OBVIOUS
  <2>1. Hand(t) = Top(t) /\ Top(t) \in Msgs
    BY <1>1, HandType
  <2>2. fate[Top(t)] \in Waiting /\ fate'[Top(t)] \notin Waiting
    BY <1>1, <2>1, HeldWaits
  <2> QED  BY <2>1, <2>2 DEF Waiting
<1>6. ASSUME NEW u \in Msgs, NEW i \in 1..Len(stack[u]), ~(pc'[u] = "run" /\ i = Len(stack[u]))
      PROVE  stack[u][i] \in sealed
  <2>1. stack[u][i] \in Msgs
    <3>1. stack[u] \in Seq(Msgs)
      BY <1>1 DEF Typed, TypeOK
    <3> QED  BY <3>1, ElementOfSeq
  <2>2. CASE u = t /\ pc[t] = "run" /\ i = Len(stack[t])
    BY <1>5, <2>2 DEF Top
  <2>3. CASE ~(u = t /\ pc[t] = "run" /\ i = Len(stack[t]))
    <3>1. Settled(stack[u][i])
      BY <1>1, <1>2, <1>6, <2>3 DEF Answering
    <3> QED  BY <1>4, <2>1, <3>1
  <2> QED  BY <2>2, <2>3
<1>7. ASSUME NEW m \in Msgs, thread'[m] # "none", m \notin sealed
      PROVE  \E u \in Msgs : pc'[u] = "run" /\ Hand(u)' = m
  <2>1. PICK u \in Msgs : pc[u] = "run" /\ Hand(u) = m
    BY <1>1, <1>4, <1>7 DEF Answering
  <2>2. u # t
    BY <1>5, <1>7, <2>1
  <2> QED  BY <1>2, <2>1, <2>2
<1>8. Answering'
  BY <1>6, <1>7 DEF Answering, Settled
<1> QED  BY <1>3, <1>8 DEF Sealed

\* A task goes on with what it carries, or with nothing as before.
LEMMA KeepHanded ==
  ASSUME InOnePlace, NEW t \in Msgs, NEW where \in PCs, Goto(t, where), where # "run", pc[t] # "run",
         UNCHANGED <<stack, thread, cur, pending, fate>>, where \in Carrying <=> pc[t] \in Carrying
  PROVE  Handed' /\ Answering' /\ Sealed
<1>1. Typed /\ Nested /\ Handed
  BY DEF InOnePlace
<1>2. Hand(t) = IF where \in Carrying THEN cur'[t] ELSE NoMsg
  BY DEF Hand
<1>3. pending = NoMsg \/ Hand(t) # pending
  BY <1>1 DEF Handed, Typed, TypeOK
<1>4. \A m \in Msgs \cap {pending, Hand(t), NoMsg} : fate'[m] \in Waiting <=> m \in {pending', Hand(t)}
  BY <1>1, HeldWaits, DispatchAssumption
<1> QED  BY <1>2, <1>3, <1>4, MoveHanded, DispatchAssumption

\* The event a task answers for meets its fate.
LEMMA SealHanded ==
  ASSUME InOnePlace, NEW t \in Msgs, NEW where \in PCs, Goto(t, where),
         where \notin Carrying \cup {"run"},
         UNCHANGED <<stack, thread, cur, pending>>, Hand(t) \in Msgs,
         NEW as \in Fates \ (Waiting \cup {"unsent"}), fate' = [fate EXCEPT ![Hand(t)] = as]
  PROVE  Handed' /\ Answering' /\ Sealed
<1>1. Typed /\ Nested /\ Handed
  BY DEF InOnePlace
<1>2. \A m \in Msgs : fate'[m] = IF m = Hand(t) THEN as ELSE fate[m]
  BY <1>1 DEF Typed, TypeOK
<1>3. Hand(t) # pending
  BY <1>1 DEF Handed
<1>4. \A m \in Msgs \cap {pending, Hand(t), NoMsg} : fate'[m] \in Waiting <=> m \in {pending', NoMsg}
  BY <1>1, <1>2, <1>3, HeldWaits, DispatchAssumption
<1>5. \A m \in Msgs : fate'[m] = "unsent" => fate[m] = "unsent"
  BY <1>2
<1>6. Hand(t) \notin {pending', NoMsg} /\ NoMsg = IF where \in Carrying THEN cur'[t] ELSE NoMsg
  BY <1>3, DispatchAssumption
<1>7. \A m \in Msgs \ {pending, Hand(t), NoMsg} : fate'[m] = fate[m]
  BY <1>2
<1> QED  BY <1>4, <1>5, <1>6, <1>7, MoveHanded, DispatchAssumption

\* No task moves: a message may come into the slot, and what was there go.
LEMMA StillHanded ==
  ASSUME InOnePlace, UNCHANGED <<pc, cur, stack, thread>>,
         NEW a \in Msgs \cup {NoMsg}, a \in Msgs => fate[a] = "unsent",
         pending' \in {NoMsg, pending, a},
         \A m \in Msgs : fate'[m] = "unsent" => fate[m] = "unsent",
         \A m \in Msgs \ {pending, a} : fate'[m] = fate[m],
         \A m \in Msgs \cap {pending, a} : fate'[m] \in Waiting <=> m = pending'
  PROVE  Handed' /\ Answering' /\ Sealed
<1>1. Typed /\ Nested /\ Handed /\ Answering
  BY DEF InOnePlace
<1>2. \A u \in Msgs : Hand(u)' = Hand(u)
  BY DEF Hand, Top
<1>3. CASE Msgs = {}
  BY <1>3 DEF Handed, Answering, Sealed
<1>4. CASE Msgs # {}
  <2>1. PICK t \in Msgs : TRUE
    BY <1>4
  <2>2. Hand(t) \in Msgs \cup {NoMsg} /\ (a \in Msgs => Hand(t) # a /\ pending # a)
    BY <1>1, HandType, HeldWaits DEF Waiting
  <2>3. Hand(t) \in Msgs => Hand(t) \notin {pending, pending'}
    BY <1>1, <2>2, HeldWaits, DispatchAssumption
  <2>4. pending' = NoMsg \/ Hand(t)' # pending'
    BY <1>2, <2>2, <2>3, <1>1, DispatchAssumption DEF Typed, TypeOK
  <2>5. \A m \in Msgs \cap {pending, Hand(t), a} : fate'[m] \in Waiting <=> m \in {pending', Hand(t)'}
    BY <1>1, <1>2, <2>2, <2>3, HeldWaits
  <2>6. Handed' /\ \A m \in Msgs : Settled(m) => fate'[m] = fate[m]
    BY <1>1, <1>2, <2>1, <2>2, <2>4, <2>5, PassOn
  <2>7. Answering'
    <3>1. \A t1 \in Msgs : \A i \in 1..Len(stack[t1]) : stack[t1][i] \in Msgs
      BY <1>1, ElementOfSeq DEF Typed, TypeOK
    <3> QED  BY <1>1, <1>2, <2>6, <3>1 DEF Answering, Settled
  <2> QED  BY <2>6, <2>7 DEF Sealed
<1> QED  BY <1>3, <1>4

\* A task opens a run for the event it carries, which no run has begun to answer.
LEMMA OpenHanded ==
  ASSUME InOnePlace, NEW t \in Msgs, OpenRun(t, cur[t]), pc[t] \in {"setup", "followup"},
         UNCHANGED <<cur, pending, fate>>
  PROVE  Handed' /\ Answering' /\ Sealed
<1>1. Typed /\ Nested /\ Handed /\ Answering
  BY DEF InOnePlace
<1>2. cur[t] \in Msgs /\ Hand(t) = cur[t] /\ stack[t] \in Seq(Msgs)
  BY <1>1, HandType DEF Carrying, Typed, TypeOK
<1>3. \A u \in Msgs : pc'[u] = IF u = t THEN "run" ELSE pc[u]
  BY <1>1, GotoType DEF OpenRun, PCs
<1>4. /\ \A u \in Msgs \ {t} : stack'[u] = stack[u]
      /\ stack'[t] = Append(stack[t], cur[t])
      /\ \A m \in Msgs : thread'[m] = IF m = cur[t] THEN "queued" ELSE thread[m]
  BY <1>1, <1>2 DEF OpenRun, Typed, TypeOK
<1>5. /\ Len(stack'[t]) = Len(stack[t]) + 1 /\ Top(t)' = cur[t] /\ Len(stack[t]) \in Nat
      /\ \A i \in 1..Len(stack[t]) : stack'[t][i] = stack[t][i]
  BY <1>2, <1>4, PushStack, LenProperties DEF Top
<1>6. \A u \in Msgs : Hand(u)' = Hand(u)
  BY <1>2, <1>3, <1>4, <1>5 DEF Hand, Top, Carrying
<1>7. Handed'
  BY <1>1, <1>6 DEF Handed
<1>8. ASSUME NEW u \in Msgs, NEW i \in 1..Len(stack'[u]), ~(pc'[u] = "run" /\ i = Len(stack'[u]))
      PROVE  fate[stack'[u][i]] \notin Waiting \cup {"unsent"}
  <2>1. CASE u = t
    <3>1. i \in 1..Len(stack[t]) /\ stack'[t][i] = stack[t][i]
      BY <1>3, <1>5, <1>8, <2>1
    <3> QED  BY <1>1, <2>1, <3>1 DEF Answering, Settled
  <2>2. CASE u # t
    BY <1>1, <1>3, <1>4, <1>8, <2>2 DEF Answering, Settled
  <2> QED  BY <2>1, <2>2
<1>9. ASSUME NEW m \in Msgs, thread'[m] # "none", fate[m] \in Waiting \cup {"unsent"}
      PROVE  \E u \in Msgs : pc'[u] = "run" /\ Hand(u)' = m
  <2>1. CASE m = cur[t]
    BY <1>2, <1>3, <1>6, <2>1
  <2>2. CASE m # cur[t]
    BY <1>1, <1>3, <1>4, <1>6, <1>9, <2>2 DEF Answering, Settled
  <2> QED  BY <2>1, <2>2
<1>10. Answering'
  BY <1>8, <1>9 DEF Answering, Settled
<1>11. thread[cur[t]] = "none"
  <2>1. fate[cur[t]] \in Waiting
    BY <1>1, <1>2, HeldWaits
  <2>2. ASSUME NEW u \in Msgs, pc[u] = "run", Hand(u) = cur[t] PROVE FALSE
    BY <1>1, <1>2, <2>2 DEF Handed
  <2> QED  BY <1>1, <1>2, <2>1, <2>2 DEF Answering, Settled
<1> QED  BY <1>4, <1>7, <1>10, <1>11 DEF Sealed

\* A frame that closes has its answer.
LEMMA UnwindHanded ==
  ASSUME InOnePlace, NEW t \in Msgs, UnwindRun(t)
  PROVE  Handed' /\ Answering' /\ Sealed
<1> DEFINE rest == SubSeq(stack[t], 1, Len(stack[t]) - 1)
           where == IF Len(stack[t]) = 1 THEN "persist" ELSE "unwind"
<1>1. Typed /\ Nested /\ Handed /\ Answering
  BY DEF InOnePlace
<1>2. stack[t] \in Seq(Msgs) /\ stack[t] # <<>> /\ pc[t] = "unwind"
  BY <1>1 DEF UnwindRun, Nested, InTurn, Typed, TypeOK
<1>3. /\ Len(rest) = Len(stack[t]) - 1 /\ Len(stack[t]) \in Nat
      /\ \A i \in 1..Len(rest) : rest[i] = stack[t][i]
  BY <1>2, PopStack
<1>4. /\ \A u \in Msgs : pc'[u] = IF u = t THEN where ELSE pc[u]
      /\ \A u \in Msgs : stack'[u] = IF u = t THEN rest ELSE stack[u]
  BY <1>1, GotoType DEF UnwindRun, PCs, Typed, TypeOK
<1> HIDE DEF rest
<1>5. UNCHANGED <<cur, pending, fate, thread>>
  BY DEF UnwindRun, adapterVars
<1>6. \A u \in Msgs : Hand(u)' = Hand(u)
  BY <1>2, <1>4, <1>5 DEF Hand, Top, Carrying
<1>7. Handed'
  BY <1>1, <1>5, <1>6 DEF Handed
<1>8. ASSUME NEW u \in Msgs, NEW i \in 1..Len(stack'[u]), ~(pc'[u] = "run" /\ i = Len(stack'[u]))
      PROVE  fate[stack'[u][i]] \notin Waiting \cup {"unsent"}
  <2>1. CASE u = t
    <3>1. i \in 1..Len(stack[t]) /\ stack'[t][i] = stack[t][i]
      BY <1>3, <1>4, <1>8, <2>1
    <3> QED  BY <1>1, <1>2, <2>1, <3>1 DEF Answering, Settled
  <2>2. CASE u # t
    BY <1>1, <1>4, <1>8, <2>2 DEF Answering, Settled
  <2> QED  BY <2>1, <2>2
<1>9. ASSUME NEW m \in Msgs, thread[m] # "none", fate[m] \in Waiting \cup {"unsent"}
      PROVE  \E u \in Msgs : pc'[u] = "run" /\ Hand(u)' = m
  BY <1>1, <1>2, <1>4, <1>6, <1>9 DEF Answering, Settled
<1>10. Answering'
  BY <1>5, <1>8, <1>9 DEF Answering, Settled
<1> QED  BY <1>5, <1>7, <1>10 DEF Sealed

\* A message that meets the slot waits in it, or is turned away, merged or answered for;
\* what waited there before waits on only if it is still there.
LEMMA SlotMoves ==
  ASSUME Typed, Handed, NEW m \in Msgs, m # pending, NEW as \in Waiting,
         ReplacePending(m, as) \/ MergePending(m, as) \/ QueueOrRefuse(m) \/ StopClean(m)
  PROVE  /\ pending' \in {NoMsg, pending, m}
         /\ \A x \in Msgs \ {pending, m} : fate'[x] = fate[x]
         /\ \A x \in Msgs \cap {pending, m} : fate'[x] \in Waiting <=> x = pending'
<1>1. /\ fate \in [Msgs -> Fates] /\ (pending \in Msgs => fate[pending] \in Waiting)
      /\ pending \in Msgs \cup {NoMsg} /\ NoMsg \notin Msgs
  BY HeldWaits, DispatchAssumption DEF Typed, TypeOK
<1>2. ASSUME NEW w \in Waiting, ReplacePending(m, w)
      PROVE  /\ pending' \in {NoMsg, pending, m}
             /\ \A x \in Msgs \ {pending, m} : fate'[x] = fate[x]
             /\ \A x \in Msgs \cap {pending, m} : fate'[x] \in Waiting <=> x = pending'
  BY <1>1, <1>2 DEF ReplacePending, Waiting
<1>3. ASSUME NEW w \in Waiting, MergePending(m, w)
      PROVE  /\ pending' \in {NoMsg, pending, m}
             /\ \A x \in Msgs \ {pending, m} : fate'[x] = fate[x]
             /\ \A x \in Msgs \cap {pending, m} : fate'[x] \in Waiting <=> x = pending'
  BY <1>1, <1>2, <1>3 DEF MergePending, Waiting
<1>4. ASSUME QueueOrRefuse(m)
      PROVE  /\ pending' \in {NoMsg, pending, m}
             /\ \A x \in Msgs \ {pending, m} : fate'[x] = fate[x]
             /\ \A x \in Msgs \cap {pending, m} : fate'[x] \in Waiting <=> x = pending'
  BY <1>1, <1>3, <1>4 DEF QueueOrRefuse, Waiting
<1>5. ASSUME StopClean(m)
      PROVE  /\ pending' \in {NoMsg, pending, m}
             /\ \A x \in Msgs \ {pending, m} : fate'[x] = fate[x]
             /\ \A x \in Msgs \cap {pending, m} : fate'[x] \in Waiting <=> x = pending'
  BY <1>1, <1>5 DEF StopClean, Waiting
<1> QED  BY <1>2, <1>3, <1>4, <1>5

\* Every arrival is in one place: a task of its own, the slot, or answered at once.
LEMMA ArriveHanded == InOnePlace /\ (\E m \in Msgs : Arrive(m)) => Handed' /\ Answering' /\ Sealed
<1> SUFFICES ASSUME InOnePlace, NEW m \in Msgs, Arrive(m) PROVE Handed' /\ Answering' /\ Sealed
  OBVIOUS
<1> USE DispatchAssumption DEF PCs
<1>1. Typed /\ Nested /\ Handed
  BY DEF InOnePlace
<1>2. \A x \in Msgs : fate'[x] = "unsent" => fate[x] = "unsent"
  BY <1>1, NeverUnsent DEF Next
<1>3. /\ fate[m] = "unsent" /\ pc[m] = "idle" /\ pending # m
      /\ Hand(m) = NoMsg /\ fate \in [Msgs -> Fates]
  BY <1>1, HeldWaits
  DEF Arrive, ArriveIdle, ArriveDraining, ArriveBusy, ArriveStop, Nested, Hand, Carrying, Waiting, Typed,
      TypeOK
<1>4. pending \in Msgs => fate[pending] \in Waiting
  BY <1>1, HeldWaits
<1>5. CASE ArriveIdle(m)
  <2>1. /\ Goto(m, "created") /\ UNCHANGED <<stack, thread, pending>>
        /\ fate' = [fate EXCEPT ![m] = "live"] /\ cur' = [cur EXCEPT ![m] = m]
    BY <1>5 DEF ArriveIdle, agentVars
  <2>2. cur'[m] = m /\ \A u \in Msgs \ {m} : cur'[u] = cur[u]
    BY <1>1, <2>1 DEF Typed, TypeOK
  <2>3. /\ \A x \in Msgs \ {pending, Hand(m), m} : fate'[x] = fate[x]
        /\ \A x \in Msgs \cap {pending, Hand(m), m} : fate'[x] \in Waiting <=> x \in {pending', m}
    BY <1>3, <1>4, <2>1 DEF Waiting
  <2> QED  BY <1>2, <1>3, <2>1, <2>2, <2>3, MoveHanded DEF Carrying
<1>6. CASE ArriveDraining(m) \/ ArriveBusy(m)
  <2>1. UNCHANGED <<pc, cur, stack, thread>>
    BY <1>6 DEF ArriveDraining, ArriveBusy, taskVars, agentVars
  <2>2. /\ pending' \in {NoMsg, pending, m}
        /\ \A x \in Msgs \ {pending, m} : fate'[x] = fate[x]
        /\ \A x \in Msgs \cap {pending, m} : fate'[x] \in Waiting <=> x = pending'
    BY <1>1, <1>3, <1>6, SlotMoves DEF ArriveDraining, ArriveBusy, Waiting
  <2> QED  BY <1>2, <1>3, <2>1, <2>2, StillHanded
<1>7. CASE ArriveStop(m)
  <2>1. UNCHANGED <<stack, thread>> /\ cur' = [cur EXCEPT ![m] = m]
    BY <1>7 DEF ArriveStop, StopClean, agentVars
  <2>2. cur'[m] = m /\ \A u \in Msgs \ {m} : cur'[u] = cur[u]
    BY <1>1, <2>1 DEF Typed, TypeOK
  <2>3. CASE StopClean(m) /\ Goto(m, "done")
    <3>1. /\ pending' = NoMsg
          /\ \A x \in Msgs \ {pending, Hand(m), m} : fate'[x] = fate[x]
          /\ \A x \in Msgs \cap {pending, Hand(m), m} : fate'[x] \in Waiting <=> x \in {pending', NoMsg}
      BY <1>3, <2>3 DEF StopClean, Waiting
    <3>2. NoMsg = IF "done" \in Carrying THEN cur'[m] ELSE NoMsg
      BY DEF Carrying
    <3> QED  BY <1>2, <1>3, <2>1, <2>2, <2>3, <3>1, <3>2, MoveHanded
  <2>4. CASE /\ Goto(m, "inline") /\ fate' = [fate EXCEPT ![m] = "live"]
             /\ UNCHANGED <<pending, lockVars, agentVars>>
    <3>1. /\ \A x \in Msgs \ {pending, Hand(m), m} : fate'[x] = fate[x]
          /\ \A x \in Msgs \cap {pending, Hand(m), m} : fate'[x] \in Waiting <=> x \in {pending', m}
      BY <1>3, <1>4, <2>4 DEF Waiting
    <3> QED  BY <1>2, <1>3, <2>1, <2>2, <2>4, <3>1, MoveHanded DEF Carrying
  <2> QED  BY <1>7, <2>3, <2>4 DEF ArriveStop
<1> QED  BY <1>5, <1>6, <1>7 DEF Arrive

\* Every step of a task leaves each message in one place.
LEMMA TaskHanded == InOnePlace /\ (\E t \in Msgs : TaskStep(t)) => Handed' /\ Answering' /\ Sealed
<1> SUFFICES ASSUME InOnePlace, NEW t \in Msgs, TaskStep(t) PROVE Handed' /\ Answering' /\ Sealed
  OBVIOUS
<1> USE DispatchAssumption DEF PCs, Carrying
<1>a. Typed /\ Nested /\ Handed
  BY DEF InOnePlace
<1>b. \A x \in Msgs : fate'[x] = "unsent" => fate[x] = "unsent"
  BY <1>a, NeverUnsent DEF Next, TaskStep
<1>c. /\ pc[t] \in Carrying => Hand(t) = cur[t] /\ cur[t] \in Msgs
      /\ pc[t] = "run" => Hand(t) = Top(t) /\ Top(t) \in Msgs
      /\ pc[t] \notin Carrying \cup {"run"} => Hand(t) = NoMsg
  BY <1>a, HandType DEF Hand
<1>d. /\ Hand(t) \in Msgs => Hand(t) # pending /\ fate[Hand(t)] \in Waiting
      /\ pending \in Msgs \cup {NoMsg} /\ (pending \in Msgs => fate[pending] \in Waiting)
      /\ fate \in [Msgs -> Fates]
  BY <1>a, HeldWaits DEF Typed, TypeOK
<1>1. CASE Begin(t) \/ Handoff(t)
  <2>1. /\ Goto(t, "hook") /\ UNCHANGED <<stack, thread, cur, pending, fate>>
        /\ pc[t] \in {"created", "handoff"}
    BY <1>1 DEF Begin, Handoff, agentVars
  <2> QED  BY <2>1, KeepHanded
<1>2. CASE EnterFree(t)
  <2>1. UNCHANGED <<stack, thread, cur, pending>> /\ pc[t] = "hook"
    BY <1>2 DEF EnterFree, adapterVars, agentVars
  <2>2. CASE RejectDraining(t)
    BY <1>c, <2>1, <2>2, SealHanded DEF RejectDraining, Fates, Waiting
  <2>3. CASE UNCHANGED fate /\ (Goto(t, "emit") \/ Goto(t, "setup"))
    BY <2>1, <2>3, KeepHanded
  <2> QED  BY <1>2, <2>2, <2>3 DEF EnterFree, Claim
<1>3. CASE EnterBusy(t)
  <2>1. Goto(t, "reply") /\ UNCHANGED <<stack, thread, cur>> /\ pc[t] = "hook"
    BY <1>3 DEF EnterBusy, StopClean
  <2>2. CASE /\ \E end \in {"executed", "swallowed"} : fate' = [fate EXCEPT ![cur[t]] = end]
             /\ UNCHANGED pending
    BY <1>c, <2>1, <2>2, SealHanded DEF Fates, Waiting
  <2>3. CASE \/ ReplacePending(cur[t], "live") \/ MergePending(cur[t], "live")
             \/ QueueOrRefuse(cur[t]) \/ StopClean(cur[t])
    <3>1. cur[t] \in Msgs /\ cur[t] # pending /\ Hand(t) = cur[t]
      BY <1>c, <1>d, <2>1
    <3>2. /\ pending' \in {NoMsg, pending, Hand(t)}
          /\ \A x \in Msgs \ {pending, Hand(t), NoMsg} : fate'[x] = fate[x]
          /\ \A x \in Msgs \cap {pending, Hand(t), NoMsg} : fate'[x] \in Waiting <=> x \in {pending', NoMsg}
      BY <1>a, <2>3, <3>1, SlotMoves DEF Waiting
    <3>3. NoMsg = IF "reply" \in Carrying THEN cur'[t] ELSE NoMsg
      OBVIOUS
    <3>4. pending' = NoMsg \/ NoMsg # pending'
      OBVIOUS
    <3> QED  BY <1>b, <2>1, <3>2, <3>3, <3>4, MoveHanded
  <2> QED  BY <1>3, <2>2, <2>3 DEF EnterBusy, QueueArgument
<1>4. CASE AfterEmit(t)
  <2>1. UNCHANGED <<stack, thread, cur, pending>> /\ pc[t] = "emit"
    BY <1>4 DEF AfterEmit, LateStop, agentVars
  <2>2. CASE fate' = [fate EXCEPT ![cur[t]] = "rejected"] /\ Goto(t, "reply")
    BY <1>c, <2>1, <2>2, SealHanded DEF Fates, Waiting
  <2>3. CASE fate' = [fate EXCEPT ![cur[t]] = "executed"] /\ Goto(t, "reply")
    BY <1>c, <2>1, <2>3, SealHanded DEF Fates, Waiting
  <2>4. CASE Goto(t, "setup") /\ UNCHANGED fate
    BY <2>1, <2>4, KeepHanded
  <2> QED  BY <1>4, <2>2, <2>3, <2>4 DEF AfterEmit, LateStop, Claim, RejectDraining
<1>5. CASE InlineStop(t)
  <2>1. /\ UNCHANGED <<stack, thread, cur, pending>> /\ pc[t] = "inline" /\ Goto(t, "done")
        /\ fate' = [fate EXCEPT ![t] = "executed"]
    BY <1>5 DEF InlineStop, LateStop
  <2>2. Hand(t) = t
    BY <1>a, <1>c, <2>1 DEF Typed, Carried
  <2> QED  BY <2>1, <2>2, SealHanded DEF Fates, Waiting
<1>6. CASE SetupFails(t)
  <2>1. PICK where \in {"error", "reply"} : Goto(t, where)
    BY <1>6 DEF SetupFails
  <2>2. /\ UNCHANGED <<stack, thread, cur, pending>> /\ pc[t] = "setup"
        /\ fate' = [fate EXCEPT ![cur[t]] = "failed"]
    BY <1>6 DEF SetupFails, adapterVars, agentVars
  <2> QED  BY <1>c, <2>1, <2>2, SealHanded DEF Fates, Waiting
<1>7. CASE HandlerReturns(t)
  <2>1. PICK where \in {"error", "reply"} : Goto(t, where)
    BY <1>7 DEF HandlerReturns
  <2>2. UNCHANGED <<stack, thread, cur, pending, fate>> /\ pc[t] = "persist"
    BY <1>7 DEF HandlerReturns, adapterVars, agentVars
  <2> QED  BY <2>1, <2>2, KeepHanded
<1>8. CASE StartRun(t) \/ (FollowUp(t) /\ OpenRun(t, cur[t]) /\ UNCHANGED fate)
  BY <1>8, OpenHanded DEF StartRun, FollowUp, adapterVars
<1>9. CASE /\ FollowUp(t) /\ fate' = [fate EXCEPT ![cur[t]] = "failed"]
           /\ Goto(t, "unwind") /\ UNCHANGED <<stack, agentVars>>
  <2>1. UNCHANGED <<stack, thread, cur, pending>> /\ pc[t] = "followup"
    BY <1>9 DEF FollowUp, adapterVars, agentVars
  <2> QED  BY <1>9, <1>c, <2>1, SealHanded DEF Fates, Waiting
<1>10. CASE FinishAlone(t)
  <2>1. /\ UNCHANGED <<stack, thread, cur, pending>> /\ pc[t] = "run" /\ Goto(t, "unwind")
        /\ fate' = [fate EXCEPT ![Top(t)] = "answered"]
    BY <1>10 DEF FinishAlone, RunFinished, Answered, adapterVars, agentVars
  <2> QED  BY <1>c, <2>1, SealHanded DEF Fates, Waiting
<1>11. CASE FinishDiscarding(t)
  <2>1. /\ UNCHANGED <<stack, thread, cur>> /\ pc[t] = "run" /\ Goto(t, "unwind") /\ pending' = NoMsg
        /\ fate' = [[fate EXCEPT ![Top(t)] = "answered"] EXCEPT ![pending] = "discarded"]
    BY <1>11 DEF FinishDiscarding, RunFinished, Answered, agentVars
  <2>2. \A x \in Msgs :
          fate'[x] = IF x = pending THEN "discarded" ELSE IF x = Hand(t) THEN "answered" ELSE fate[x]
    BY <1>c, <1>d, <2>1
  <2>3. /\ \A x \in Msgs \ {pending, Hand(t), NoMsg} : fate'[x] = fate[x]
        /\ \A x \in Msgs \cap {pending, Hand(t), NoMsg} : fate'[x] \in Waiting <=> x \in {pending', NoMsg}
    <3>1. pending' = NoMsg
      BY <2>1
    <3>2. \A x \in Msgs \cap {pending, Hand(t), NoMsg} : fate'[x] \in {"discarded", "answered"}
      BY <2>2
    <3> QED  BY <2>2, <3>1, <3>2 DEF Waiting
  <2>4. /\ Hand(t) \notin {pending', NoMsg}
        /\ NoMsg = IF "unwind" \in Carrying THEN cur'[t] ELSE NoMsg
    BY <1>c, <2>1
  <2> QED  BY <1>b, <2>1, <2>3, <2>4, MoveHanded
<1>12. CASE FinishThenFollow(t)
  <2>1. /\ UNCHANGED <<stack, thread>> /\ pc[t] = "run"
        /\ fate' = [fate EXCEPT ![Top(t)] = "answered"] /\ pending \in Msgs
    BY <1>12, <1>d DEF FinishThenFollow, RunFinished, Answered, agentVars
  <2>2. CASE Goto(t, "unwind") /\ UNCHANGED <<pending, cur>>
    BY <1>c, <2>1, <2>2, SealHanded DEF Fates, Waiting
  <2>3. CASE TakePending /\ cur' = [cur EXCEPT ![t] = pending] /\ Goto(t, "followup")
    <3>1. pending' = NoMsg /\ cur'[t] = pending /\ \A u \in Msgs \ {t} : cur'[u] = cur[u]
      BY <1>a, <2>3 DEF TakePending, Typed, TypeOK
    <3>2. \A x \in Msgs : fate'[x] = IF x = Hand(t) THEN "answered" ELSE fate[x]
      BY <1>c, <1>d, <2>1
    <3>3. /\ \A x \in Msgs \ {pending, Hand(t), NoMsg} : fate'[x] = fate[x]
          /\ \A x \in Msgs \cap {pending, Hand(t), NoMsg} : fate'[x] \in Waiting <=> x \in {pending', pending}
      BY <1>c, <1>d, <2>1, <3>1, <3>2 DEF Waiting
    <3>4. Hand(t) \notin {pending', pending} /\ pending = IF "followup" \in Carrying THEN cur'[t] ELSE NoMsg
      BY <1>c, <1>d, <2>1, <3>1
    <3> QED  BY <1>b, <2>1, <2>3, <3>1, <3>3, <3>4, MoveHanded
  <2> QED  BY <1>12, <2>2, <2>3 DEF FinishThenFollow
<1>13. CASE EmptyRun(t) \/ InactivityTimeout(t)
  <2>1. /\ UNCHANGED <<stack, thread, cur, pending>> /\ pc[t] = "run" /\ Goto(t, "unwind")
        /\ fate' = [fate EXCEPT ![Top(t)] = "failed"]
    BY <1>13 DEF EmptyRun, InactivityTimeout, adapterVars, agentVars
  <2> QED  BY <1>c, <2>1, SealHanded DEF Fates, Waiting
<1>14. CASE UnwindRun(t)
  BY <1>14, UnwindHanded
<1>15. CASE DeliverLast(t) \/ DeliverFails(t)
  <2>1. /\ UNCHANGED <<stack, thread, cur, pending, fate>> /\ pc[t] \in {"reply", "error"}
        /\ Goto(t, "closing")
    BY <1>15 DEF DeliverLast, DeliverFails, adapterVars, agentVars
  <2> QED  BY <2>1, KeepHanded
<1>16. CASE DeliverAndTake(t)
  <2>1. /\ UNCHANGED <<stack, thread>> /\ pc[t] = "reply" /\ pending \in Msgs /\ pending' = NoMsg
        /\ Hand(t) = NoMsg
    BY <1>16, <1>c, <1>d DEF DeliverAndTake, TakePending, agentVars
  <2>2. CASE cur' = [cur EXCEPT ![t] = pending] /\ Goto(t, "handoff") /\ UNCHANGED fate
    <3>1. cur'[t] = pending /\ \A u \in Msgs \ {t} : cur'[u] = cur[u]
      BY <1>a, <2>2 DEF Typed, TypeOK
    <3>2. /\ pending = IF "handoff" \in Carrying THEN cur'[t] ELSE NoMsg
          /\ \A x \in Msgs \cap {pending, Hand(t), NoMsg} : fate'[x] \in Waiting <=> x \in {pending', pending}
      BY <1>d, <2>1, <2>2, <3>1
    <3> QED  BY <1>b, <2>1, <2>2, <3>1, <3>2, MoveHanded
  <2>3. CASE fate' = [fate EXCEPT ![pending] = "failed"] /\ Goto(t, "error") /\ UNCHANGED cur
    <3>1. /\ NoMsg = IF "error" \in Carrying THEN cur'[t] ELSE NoMsg
          /\ \A x \in Msgs \ {pending, Hand(t), NoMsg} : fate'[x] = fate[x]
          /\ \A x \in Msgs \cap {pending, Hand(t), NoMsg} : fate'[x] \in Waiting <=> x \in {pending', NoMsg}
      BY <1>d, <2>1, <2>3 DEF Waiting
    <3> QED  BY <1>b, <2>1, <2>3, <3>1, MoveHanded
  <2> QED  BY <1>16, <2>2, <2>3 DEF DeliverAndTake
<1>17. CASE Close(t)
  <2>1. UNCHANGED <<stack, thread, cur, pending, fate>> /\ pc[t] = "closing"
    BY <1>17 DEF Close, agentVars
  <2>2. CASE Goto(t, "done")
    BY <2>1, <2>2, KeepHanded
  <2>3. CASE UNCHANGED pc
    <3>1. \A x \in Msgs \cap {pending, NoMsg} : fate'[x] \in Waiting <=> x = pending'
      BY <1>d, <2>1
    <3> QED  BY <1>b, <2>1, <2>3, <3>1, StillHanded
  <2> QED  BY <1>17, <2>2, <2>3 DEF Close, LeaveFrame
<1> QED
  BY <1>1, <1>2, <1>3, <1>4, <1>5, <1>6, <1>7, <1>8, <1>9, <1>10, <1>11, <1>12, <1>13, <1>14,
     <1>15, <1>16, <1>17 DEF TaskStep, LoopStep, FollowUp

\* Every step of a thread or a helper leaves the messages where they are: a thread that
\* has begun is not queued again.
LEMMA AgentHanded == InOnePlace /\ (\E m \in Msgs : AgentStep(m)) => Handed' /\ Answering' /\ Sealed
<1> SUFFICES ASSUME InOnePlace, NEW m \in Msgs, AgentStep(m) PROVE Handed' /\ Answering' /\ Sealed
  OBVIOUS
<1>1. Typed /\ Handed /\ Answering
  BY DEF InOnePlace
<1>2. UNCHANGED <<pc, cur, stack, pending, fate>>
  BY DEF AgentStep, BuildAgent, RefuseRun, Converse, ConversationEnds, TrackAgent, MonitorInterrupt,
         adapterVars, taskVars
<1>3. \A x \in Msgs : thread'[x] = thread[x] \/ (thread[x] # "none" /\ thread'[x] # "queued")
  BY <1>1
  DEF AgentStep, BuildAgent, RefuseRun, Converse, ConversationEnds, TrackAgent, MonitorInterrupt,
      Typed, TypeOK
<1>4. \A u \in Msgs : Hand(u)' = Hand(u)
  BY <1>2 DEF Hand, Top
<1>5. Handed'
  BY <1>1, <1>2, <1>4 DEF Handed
<1>6. Answering'
  BY <1>1, <1>2, <1>3, <1>4 DEF Answering, Settled
<1> QED  BY <1>2, <1>3, <1>5, <1>6 DEF Sealed

\* A cancellation opens the hands of some tasks, all that wait for a run among them, and
\* what was in those hands fails.
LEMMA CancelOpens ==
  ASSUME InOnePlace, CancelTasks
  PROVE  /\ UNCHANGED <<stack, pending, thread>>
         /\ \A t \in Msgs : pc'[t] # "run"
         /\ \E cut \in SUBSET Msgs :
              /\ \A t \in Msgs : pc[t] = "run" => t \in cut
              /\ \A t \in Msgs : Hand(t)' = IF t \in cut THEN NoMsg ELSE Hand(t)
              /\ \A m \in Msgs : fate'[m] = IF fate[m] \in Waiting /\ \E t \in cut : Hand(t) = m
                                             THEN "failed" ELSE fate[m]
<1>1. Typed /\ Nested /\ Handed /\ Answering
  BY DEF InOnePlace
<1>2. PICK deaf \in SUBSET {t \in Live : pc[t] = "followup"} :
        /\ pc' = [t \in Msgs |-> IF t \in Live \ deaf THEN CancelledAt(pc[t]) ELSE pc[t]]
        /\ fate' = [m \in Msgs |->
             IF /\ fate[m] \in Waiting
                /\ \E t \in Live \ deaf :
                     /\ pc'[t] # pc[t]
                     /\ (m = cur[t] /\ pc[t] \in Carrying) \/ m \in Range(stack[t])
             THEN "failed" ELSE fate[m]]
  BY DEF CancelTasks
<1> DEFINE cut == {t \in Live \ deaf : pc[t] \in {"created", "hook", "emit", "setup", "followup", "run"}}
<1>3. /\ UNCHANGED <<cur, stack, pending, thread>> /\ cut \in SUBSET Msgs /\ Live \subseteq Msgs
      /\ \A t \in Msgs : pc'[t] = IF t \in Live \ deaf THEN CancelledAt(pc[t]) ELSE pc[t]
      /\ \A t \in Msgs : pc[t] \in PCs /\ (pc[t] = "run" => t \in Live \ deaf)
  BY <1>1, <1>2 DEF CancelTasks, adapterVars, agentVars, Typed, TypeOK, Live, Busy
<1>4. \A t \in Msgs : /\ t \in cut => pc'[t] \in {"done", "closing", "persist", "unwind"}
                      /\ t \notin cut =>
                           pc'[t] = pc[t] \/ {pc[t], pc'[t]} \cap (Carrying \cup {"run"}) = {}
  BY <1>3, CancelType DEF CancelledAt, Carrying
<1>5. \A t \in Msgs : pc'[t] # "run" /\ (pc[t] = "run" => t \in cut)
  BY <1>3, <1>4
<1>6. \A t \in Msgs : Hand(t)' = IF t \in cut THEN NoMsg ELSE Hand(t)
  BY <1>3, <1>4 DEF Hand, Top, Carrying
<1>7. ASSUME NEW m \in Msgs, fate[m] \in Waiting
      PROVE  (\E t \in Live \ deaf : /\ pc'[t] # pc[t]
                                     /\ (m = cur[t] /\ pc[t] \in Carrying) \/ m \in Range(stack[t]))
               <=> \E t \in cut : Hand(t) = m
  <2>1. ASSUME NEW t \in Live \ deaf, pc'[t] # pc[t], m = cur[t], pc[t] \in Carrying
        PROVE  t \in cut /\ Hand(t) = m
    BY <1>3, <1>4, <2>1 DEF Hand
  <2>2. ASSUME NEW t \in Live \ deaf, m \in Range(stack[t]) PROVE t \in cut /\ Hand(t) = m
    <3>1. stack[t] \in Seq(Msgs) /\ DOMAIN stack[t] = 1..Len(stack[t])
      BY <1>1, <1>3, LenProperties DEF Typed, TypeOK
    <3>2. PICK i \in 1..Len(stack[t]) : stack[t][i] = m
      BY <2>2, <3>1 DEF Range
    <3>3. pc[t] = "run" /\ i = Len(stack[t])
      BY <1>1, <1>3, <1>7, <3>2 DEF Answering, Settled
    <3> QED  BY <1>3, <3>2, <3>3 DEF Hand, Top, Carrying
  <2>3. ASSUME NEW t \in cut, Hand(t) = m
        PROVE  /\ t \in Live \ deaf /\ pc'[t] # pc[t]
               /\ (m = cur[t] /\ pc[t] \in Carrying) \/ m \in Range(stack[t])
    <3>1. pc[t] \in Carrying \/ pc[t] = "run"
      BY <2>3 DEF Carrying
    <3> QED  BY <1>1, <1>3, <1>4, <2>3, <3>1, HandType
  <2> QED  BY <2>1, <2>2, <2>3
<1>8. \A m \in Msgs : fate'[m] = IF fate[m] \in Waiting /\ \E t \in cut : Hand(t) = m
                                 THEN "failed" ELSE fate[m]
  BY <1>2, <1>7
<1> HIDE DEF cut
<1> QED  BY <1>3, <1>5, <1>6, <1>8

\* A cancellation seals what is in the hands it opens, and nothing else.
LEMMA CancelHanded == InOnePlace /\ CancelTasks => Handed' /\ Answering' /\ Sealed
<1> SUFFICES ASSUME InOnePlace, CancelTasks PROVE Handed' /\ Answering' /\ Sealed
  OBVIOUS
<1>1. Typed /\ Nested /\ Handed /\ Answering
  BY DEF InOnePlace
<1>2. UNCHANGED <<stack, pending, thread>> /\ \A t \in Msgs : pc'[t] # "run"
  BY CancelOpens
<1>3. PICK cut \in SUBSET Msgs :
        /\ \A t \in Msgs : pc[t] = "run" => t \in cut
        /\ \A t \in Msgs : Hand(t)' = IF t \in cut THEN NoMsg ELSE Hand(t)
        /\ \A m \in Msgs : fate'[m] = IF fate[m] \in Waiting /\ \E t \in cut : Hand(t) = m
                                       THEN "failed" ELSE fate[m]
  BY CancelOpens
<1>4. Handed'
  <2>1. \A m \in Msgs : fate'[m] \in Waiting <=> (pending = m \/ \E t \in Msgs \ cut : Hand(t) = m)
    BY <1>1, <1>3 DEF Handed, Waiting
  <2> QED  BY <1>1, <1>2, <1>3, <2>1, DispatchAssumption DEF Handed
<1>5. \A m \in Msgs : Settled(m) => fate'[m] = fate[m]
  BY <1>3 DEF Settled
<1>6. \A t \in Msgs : pc[t] = "run" => Hand(t) = Top(t) /\ Top(t) \in Msgs /\ fate'[Top(t)] = "failed"
  BY <1>1, <1>3, HandType, HeldWaits
<1>7. ASSUME NEW t \in Msgs, NEW i \in 1..Len(stack[t])
      PROVE  fate'[stack[t][i]] \notin Waiting \cup {"unsent"}
  <2>1. CASE pc[t] = "run" /\ i = Len(stack[t])
    BY <1>6, <2>1 DEF Top, Waiting
  <2>2. CASE ~(pc[t] = "run" /\ i = Len(stack[t]))
    <3>1. Settled(stack[t][i]) /\ stack[t][i] \in Msgs
      BY <1>1, <2>2, ElementOfSeq DEF Answering, Typed, TypeOK
    <3> QED  BY <1>5, <3>1 DEF Settled
  <2> QED  BY <2>1, <2>2
<1>8. ASSUME NEW m \in Msgs, thread[m] # "none"
      PROVE  fate'[m] \notin Waiting \cup {"unsent"}
  BY <1>1, <1>5, <1>6, <1>8 DEF Answering, Settled, Waiting
<1>9. Answering'
  BY <1>2, <1>7, <1>8 DEF Answering, Settled
<1> QED  BY <1>2, <1>4, <1>5, <1>9 DEF Sealed

\* Every step of stop() leaves each message in one place, or has it meet its fate.
LEMMA StopHanded == InOnePlace /\ StopStep => Handed' /\ Answering' /\ Sealed
<1> SUFFICES ASSUME InOnePlace, StopStep PROVE Handed' /\ Answering' /\ Sealed
  OBVIOUS
<1>1. /\ Typed /\ Handed /\ NoMsg \notin Msgs
      /\ pending \in Msgs \cup {NoMsg} /\ (pending \in Msgs => fate[pending] \in Waiting)
  BY HeldWaits, DispatchAssumption DEF InOnePlace, Typed, TypeOK
<1>2. CASE BeginDrain \/ DrainTimesOut
  <2>1. UNCHANGED <<pc, cur, stack, thread, pending, fate>>
    BY <1>2 DEF BeginDrain, DrainTimesOut, adapterVars, taskVars, agentVars
  <2> QED  BY <1>1, <2>1, StillHanded
<1>3. CASE FinishStop
  <2>1. /\ UNCHANGED <<pc, cur, stack, thread>> /\ pending' = NoMsg
        /\ \A m \in Msgs : fate'[m] = IF m = pending THEN "discarded" ELSE fate[m]
    BY <1>3 DEF FinishStop, DiscardPending, TakePending, taskVars, agentVars
  <2>2. /\ \A m \in Msgs : fate'[m] = "unsent" => fate[m] = "unsent"
        /\ \A m \in Msgs \ {pending, NoMsg} : fate'[m] = fate[m]
        /\ \A m \in Msgs \cap {pending, NoMsg} : fate'[m] \in Waiting <=> m = pending'
    BY <1>1, <2>1 DEF Waiting
  <2> QED  BY <1>1, <2>1, <2>2, StillHanded
<1> QED  BY <1>2, <1>3, CancelHanded DEF StopStep

\* At the start nothing has come.
LEMMA InitHanded == Init => Handed /\ Answering
<1> SUFFICES ASSUME Init PROVE Handed /\ Answering
  OBVIOUS
<1>1. /\ \A t \in Msgs : Hand(t) = NoMsg /\ Len(stack[t]) = 0
      /\ \A m \in Msgs : fate[m] = "unsent" /\ thread[m] = "none" /\ m # pending
  BY DispatchAssumption DEF Init, Hand, Carrying
<1>2. Handed
  BY <1>1, DispatchAssumption DEF Handed, Waiting
<1>3. Answering
  BY <1>1 DEF Answering
<1> QED  BY <1>2, <1>3

\* Every step leaves each message in one place and each sealed fate alone.
LEMMA NextHanded == InOnePlace /\ [Next]_vars => Handed' /\ Answering' /\ Sealed
<1>1. InOnePlace /\ UNCHANGED vars => Handed' /\ Answering' /\ Sealed
  <2> SUFFICES ASSUME InOnePlace, UNCHANGED vars PROVE Handed' /\ Answering' /\ Sealed
    OBVIOUS
  <2>1. /\ Typed /\ Handed /\ NoMsg \notin Msgs
        /\ pending \in Msgs \cup {NoMsg} /\ (pending \in Msgs => fate[pending] \in Waiting)
    BY HeldWaits, DispatchAssumption DEF InOnePlace, Typed, TypeOK
  <2>2. UNCHANGED <<pc, cur, stack, thread, pending, fate>>
    BY DEF vars
  <2> QED  BY <2>1, <2>2, StillHanded
<1> QED  BY <1>1, ArriveHanded, TaskHanded, AgentHanded, StopHanded DEF Next, TaskStep

\* The holders of a message are the slot or the one task that has it in hand.
LEMMA OneHolder == InOnePlace => HeldExactlyOnce
<1> SUFFICES ASSUME InOnePlace, NEW m \in Msgs
             PROVE  Cardinality(Holders(m)) = IF fate[m] \in Waiting THEN 1 ELSE 0
  BY DEF HeldExactlyOnce
<1>1. Typed /\ Nested /\ Handed /\ Answering /\ NoMsg \notin Msgs
  BY DispatchAssumption DEF InOnePlace
<1> DEFINE InHand(t) == (cur[t] = m /\ pc[t] \in Carrying) \/ (m \in Range(stack[t]) /\ fate[m] \in Waiting)
<1>2. ASSUME NEW t \in Msgs PROVE Hand(t) = m <=> InHand(t)
  <2>1. stack[t] \in Seq(Msgs) /\ DOMAIN stack[t] = 1..Len(stack[t])
    BY <1>1, LenProperties DEF Typed, TypeOK
  <2>2. ASSUME m \in Range(stack[t]), fate[m] \in Waiting PROVE Hand(t) = m
    <3>1. PICK i \in 1..Len(stack[t]) : stack[t][i] = m
      BY <2>1, <2>2 DEF Range
    <3>2. pc[t] = "run" /\ i = Len(stack[t])
      BY <1>1, <2>2, <3>1 DEF Answering, Settled
    <3> QED  BY <3>1, <3>2 DEF Hand, Top, Carrying
  <2>3. ASSUME Hand(t) = m PROVE InHand(t)
    <3>1. fate[m] \in Waiting
      BY <1>1, <2>3, HeldWaits
    <3>2. pc[t] \in Carrying \/ pc[t] = "run"
      BY <1>1, <2>3 DEF Hand
    <3> QED  BY <1>1, <2>3, <3>1, <3>2, HandType
  <2>4. ASSUME cur[t] = m, pc[t] \in Carrying PROVE Hand(t) = m
    BY <2>4 DEF Hand
  <2> QED  BY <2>2, <2>3, <2>4
<1>3. Holders(m) = (IF pending = m THEN {NoMsg} ELSE {}) \cup {t \in Msgs : Hand(t) = m}
  BY <1>2 DEF Holders
<1>4. CASE fate[m] \notin Waiting
  <2>1. Holders(m) = {}
    BY <1>1, <1>3, <1>4, HeldWaits
  <2> QED  BY <1>4, <2>1, FS_EmptySet
<1>5. CASE fate[m] \in Waiting
  <2>1. \E h : Holders(m) = {h}
    <3>1. CASE pending = m
      <4>1. \A t \in Msgs : Hand(t) # m
        BY <1>1, <3>1 DEF Handed
      <4>2. Holders(m) = {NoMsg}
        BY <1>3, <3>1, <4>1
      <4> QED  BY <4>2
    <3>2. CASE pending # m
      <4>1. PICK t \in Msgs : Hand(t) = m
        BY <1>1, <1>5, <3>2 DEF Handed
      <4>2. \A u \in Msgs : Hand(u) = m => u = t
        BY <1>1, <4>1 DEF Handed
      <4>3. Holders(m) = {t}
        BY <1>3, <3>2, <4>1, <4>2
      <4> QED  BY <4>3
    <3> QED  BY <3>1, <3>2
  <2> QED  BY <1>5, <2>1, FS_Singleton
<1> QED  BY <1>4, <1>5

\* At the start every message is in its place, and no lock is held.
LEMMA InitPlaced == Init => InOnePlace /\ Owned
  BY InitTypes, InitOwned, InitHanded DEF InOnePlace, Owned

\* InOnePlace, with the types and the locks it needs, is inductive.
LEMMA NextPlaced == InOnePlace /\ Owned /\ [Next]_vars => (InOnePlace /\ Owned)'
<1> SUFFICES ASSUME InOnePlace, Owned, [Next]_vars PROVE InOnePlace' /\ Owned'
  OBVIOUS
<1>1. Typed' /\ Owned' /\ Handed' /\ Answering'
  BY NextTypes, NextOwned, NextHanded DEF InOnePlace
<1> QED  BY <1>1 DEF InOnePlace, Owned

\* A message that waits is in exactly one place, and one that has met its fate in none:
\* the slot, the hand-off between frames, the follow-up recursion and the cancellation
\* neither duplicate a message nor drop it untold.
THEOREM HeldOnce == Spec => []HeldExactlyOnce
  BY InitPlaced, NextPlaced, OneHolder, PTL DEF Spec

\* A message is answered by at most one run, and its fate does not change again.
THEOREM AnsweredOnce == Spec => AnsweredAtMostOnce
<1>1. InOnePlace /\ [Next]_vars =>
        [\A m \in Msgs :
           /\ thread[m] # "none" => (thread'[m] = "queued" => thread[m] = "queued")
           /\ fate[m] \notin Waiting \cup {"unsent"} => fate'[m] = fate[m]]_vars
  BY NextHanded DEF Sealed, Settled
<1> QED  BY <1>1, InitPlaced, NextPlaced, PTL DEF Spec, AnsweredAtMostOnce

-----------------------------------------------------------------------------
(* The contract                                                            *)

\* A task that moves changes its own hand alone.
LEMMA HandsMove ==
  ASSUME Typed, NEW t \in Msgs, NEW where \in PCs, Goto(t, where), where # "run",
         \A u \in Msgs \ {t} : cur'[u] = cur[u], UNCHANGED stack
  PROVE  Hands' = [Hands EXCEPT ![t] = IF where \in Carrying THEN cur'[t] ELSE NoMsg]
<1>1. /\ \A u \in Msgs \ {t} : Hand(u)' = Hand(u)
      /\ Hand(t)' = IF where \in Carrying THEN cur'[t] ELSE NoMsg
  BY HandMoves
<1> QED  BY <1>1 DEF Hands

\* Where every hand stays, all do.
LEMMA HandsStay ==
  ASSUME \A u \in Msgs : Hand(u)' = Hand(u)
  PROVE  UNCHANGED Hands
  BY DEF Hands

\* What is in a hand before its run has begun, while it runs, and when there is nothing.
LEMMA InHand ==
  ASSUME InOnePlace, NEW t \in Msgs
  PROVE  /\ pc[t] \in Carrying => Hands[t] = cur[t] /\ cur[t] \in Msgs \ Begun
         /\ pc[t] = "run" /\ thread[Top(t)] # "none" => Hands[t] = Top(t) /\ Top(t) \in Msgs \cap Begun
         /\ pc[t] \notin Carrying \cup {"run"} => Hands[t] = NoMsg
         /\ Hands[t] \in Msgs => Hands[t] # pending /\ fate[Hands[t]] \in Waiting
         /\ Hands \in [Msgs -> Msgs \cup {NoMsg}]
<1>1. Typed /\ Nested /\ Handed /\ Answering
  BY DEF InOnePlace
<1>2. Hands[t] = Hand(t) /\ Hands \in [Msgs -> Msgs \cup {NoMsg}]
  BY <1>1, HandType DEF Hands
<1>3. pc[t] \in Carrying => Hand(t) = cur[t] /\ cur[t] \in Msgs \ Begun
  <2> SUFFICES ASSUME pc[t] \in Carrying PROVE Hand(t) = cur[t] /\ cur[t] \in Msgs \ Begun
    OBVIOUS
  <2>1. Hand(t) = cur[t] /\ cur[t] \in Msgs
    BY <1>1, HandType
  <2>2. fate[cur[t]] \in Waiting
    BY <1>1, <2>1, HeldWaits
  <2>3. ASSUME NEW u \in Msgs, pc[u] = "run", Hand(u) = cur[t] PROVE FALSE
    <3>1. u = t
      BY <1>1, <2>1, <2>3 DEF Handed
    <3> QED  BY <2>3, <3>1 DEF Carrying
  <2>4. thread[cur[t]] = "none"
    BY <1>1, <2>1, <2>2, <2>3 DEF Answering, Settled
  <2> QED  BY <2>1, <2>4 DEF Begun
<1>4. pc[t] = "run" => Hand(t) = Top(t) /\ Top(t) \in Msgs
  BY <1>1, HandType
<1>5. pc[t] \notin Carrying \cup {"run"} => Hand(t) = NoMsg
  BY DEF Hand
<1> QED  BY <1>1, <1>2, <1>3, <1>4, <1>5, HeldWaits DEF Begun

\* A message that meets the slot does so as the contract says.
LEMMA SlotOffers ==
  ASSUME Typed, NEW m \in Msgs, NEW as \in Waiting, as = "promised" => Draining,
         \/ ReplacePending(m, as) \/ MergePending(m, as)
         \/ (QueueOrRefuse(m) /\ Draining)
         \/ (StopClean(m) /\ m \in Stops)
  PROVE  Contract!Offer(m)
<1>1. fate \in [Msgs -> Fates]
  BY DEF Typed, TypeOK
<1>2. ASSUME NEW w \in Waiting, w = "promised" => Draining, ReplacePending(m, w)
      PROVE  Contract!Offer(m)
  <2>1. fate' = [Contract!SlotMeets("replaced") EXCEPT ![m] = w]
    BY <1>1, <1>2 DEF ReplacePending, Contract!SlotMeets
  <2> QED  BY <1>2, <2>1 DEF ReplacePending, Contract!Offer, Contract!Accepted, Waiting
<1>3. ASSUME NEW w \in Waiting, w = "promised" => Draining, MergePending(m, w)
      PROVE  Contract!Offer(m)
  <2>1. CASE pending \in Photos /\ m \in Photos
    BY <1>3, <2>1 DEF MergePending, Contract!Offer, Contract!Meets
  <2> QED  BY <1>2, <1>3, <2>1 DEF MergePending
<1>4. CASE QueueOrRefuse(m) /\ Draining
  <2>1. CASE QueueDuringDrain
    BY <1>3, <1>4, <2>1 DEF QueueOrRefuse, Waiting
  <2>2. CASE ~QueueDuringDrain
    BY <1>4, <2>2 DEF QueueOrRefuse, Contract!Offer, Contract!Meets
  <2> QED  BY <2>1, <2>2
<1>5. CASE StopClean(m) /\ m \in Stops
  <2>1. fate' = [Contract!SlotMeets("discarded") EXCEPT ![m] = "executed"]
    BY <1>1, <1>5 DEF StopClean, Contract!SlotMeets
  <2> QED  BY <1>5, <2>1 DEF StopClean, Contract!Offer
<1> QED  BY <1>2, <1>3, <1>4, <1>5

\* Every arrival is one of the contract: a task of its own, or the slot.
LEMMA ArriveImplements == InOnePlace /\ (\E m \in Msgs : Arrive(m)) => Contract!CNext
<1> SUFFICES ASSUME InOnePlace, NEW m \in Msgs, Arrive(m) PROVE Contract!CNext
  OBVIOUS
<1>1. Typed /\ Nested
  BY DEF InOnePlace
<1>2. fate[m] = "unsent" /\ Hands[m] = NoMsg /\ UNCHANGED <<plain, Begun, Draining>>
  <2>1. fate[m] = "unsent" /\ UNCHANGED <<thread, phase, plain>>
    BY DEF Arrive, ArriveIdle, ArriveDraining, ArriveBusy, ArriveStop, StopClean, agentVars
  <2>2. pc[m] = "idle"
    BY <1>1, <2>1 DEF Nested
  <2> QED  BY <2>1, <2>2, InHand DEF Carrying, Begun, Draining
<1>3. CASE ArriveIdle(m)
  <2>1. Hands' = [Hands EXCEPT ![m] = m]
    <3>1. /\ Goto(m, "created") /\ UNCHANGED stack /\ cur'[m] = m
          /\ \A u \in Msgs \ {m} : cur'[u] = cur[u]
      BY <1>1, <1>3 DEF ArriveIdle, Typed, TypeOK
    <3> QED  BY <1>1, <3>1, HandsMove DEF PCs, Carrying
  <2>2. Contract!Spawn(m)
    BY <1>2, <1>3, <2>1 DEF ArriveIdle, Contract!Spawn, Contract!Held, Contract!Meets
  <2> QED  BY <2>2 DEF Contract!CNext
<1>4. CASE ArriveDraining(m) \/ ArriveBusy(m)
  <2>1. UNCHANGED Hands
    BY <1>4, HandsStay DEF ArriveDraining, ArriveBusy, taskVars, Hand, Top
  <2>2. Contract!Offer(m)
    <3>1. \/ (QueueOrRefuse(m) /\ Draining)
          \/ MergePending(m, "live") \/ ReplacePending(m, "live")
      BY <1>4 DEF ArriveDraining, ArriveBusy, Draining
    <3>2. "live" \in Waiting /\ "live" # "promised"
      BY DEF Waiting
    <3> QED  BY <1>1, <3>1, <3>2, SlotOffers
  <2>3. Contract!Post(m)
    BY <1>2, <2>1, <2>2 DEF Contract!Post
  <2> QED  BY <2>3 DEF Contract!CNext
<1>5. CASE ArriveStop(m)
  <2>1. UNCHANGED stack /\ cur'[m] = m /\ \A u \in Msgs \ {m} : cur'[u] = cur[u]
    BY <1>1, <1>5 DEF ArriveStop, Typed, TypeOK
  <2>2. CASE StopClean(m) /\ Goto(m, "done")
    <3>1. Hands' = [Hands EXCEPT ![m] = NoMsg]
      BY <1>1, <2>1, <2>2, HandsMove DEF PCs, Carrying
    <3>2. UNCHANGED Hands
      BY <1>2, <3>1, InHand
    <3>3. Contract!Offer(m)
      BY <1>1, <1>5, <2>2, SlotOffers DEF ArriveStop, Waiting
    <3>4. Contract!Post(m)
      BY <1>2, <3>2, <3>3 DEF Contract!Post
    <3> QED  BY <3>4 DEF Contract!CNext
  <2>3. CASE /\ Goto(m, "inline") /\ fate' = [fate EXCEPT ![m] = "live"]
             /\ UNCHANGED <<pending, lockVars, agentVars>>
    <3>1. Hands' = [Hands EXCEPT ![m] = m]
      BY <1>1, <2>1, <2>3, HandsMove DEF PCs, Carrying
    <3>2. Contract!Spawn(m)
      BY <1>2, <2>3, <3>1 DEF Contract!Spawn, Contract!Held, Contract!Meets
    <3> QED  BY <3>2 DEF Contract!CNext
  <2> QED  BY <1>5, <2>2, <2>3 DEF ArriveStop
<1> QED  BY <1>3, <1>4, <1>5 DEF Arrive

\* A task that moves to where it still carries its event, or still nothing, is not seen.
LEMMA UnseenMove ==
  ASSUME InOnePlace, NEW t \in Msgs, NEW where \in PCs, Goto(t, where), where # "run", pc[t] # "run",
         UNCHANGED <<stack, cur, pending, plain, fate, thread, phase>>, where \in Carrying <=> pc[t] \in Carrying
  PROVE  UNCHANGED Contract!cvars
<1>1. Hands' = [Hands EXCEPT ![t] = IF where \in Carrying THEN cur'[t] ELSE NoMsg]
  BY HandsMove DEF InOnePlace
<1>2. Hands[t] = IF where \in Carrying THEN cur'[t] ELSE NoMsg
  BY InHand
<1>3. UNCHANGED Hands
  BY <1>1, <1>2, InHand
<1> QED  BY <1>3 DEF Contract!cvars, Begun, Draining

\* A command that is read as one, for the runner and in the contract.
LEMMA Spellings ==
  ASSUME Typed
  PROVE  /\ Slashes \cup Stops = (Prompts \cup Stops) \ plain
         /\ Queues \subseteq (Prompts \cup Stops) \ Stops
  BY DispatchAssumption DEF Typed, TypeOK, Slashes

\* A task that lets its event go before a run has begun for it declines it.
LEMMA Declines ==
  ASSUME InOnePlace, NEW t \in Msgs, NEW where \in PCs, Goto(t, where),
         where \notin Carrying \cup {"run"}, pc[t] \in Carrying,
         UNCHANGED <<stack, cur, pending, plain, thread, phase>>,
         NEW end \in {"executed", "swallowed", "failed", "rejected"},
         fate' = [fate EXCEPT ![cur[t]] = end],
         end = "rejected" => Draining, end = "swallowed" => ~Draining,
         end = "executed" => cur[t] \in (Prompts \cup Stops) \ plain
  PROVE  Contract!CNext
<1>1. Hands' = [Hands EXCEPT ![t] = NoMsg]
  BY HandsMove DEF InOnePlace
<1>2. Hands[t] = cur[t] /\ cur[t] \in Msgs \ Begun /\ NoMsg \notin Msgs
  BY InHand, DispatchAssumption
<1>3. UNCHANGED <<Begun, Draining>>
  BY DEF Begun, Draining
<1>4. Contract!Decline(t)
  BY <1>1, <1>2, <1>3
  DEF Contract!Decline, Contract!Fresh, Contract!Held, Contract!LetGo, Contract!Meets
<1> QED  BY <1>4 DEF Contract!CNext

\* A run that is opened is the first of its message.
LEMMA Opens ==
  ASSUME InOnePlace, NEW t \in Msgs, OpenRun(t, cur[t]), pc[t] \in {"setup", "followup"},
         UNCHANGED <<cur, pending, plain, fate, phase>>
  PROVE  Contract!CNext
<1>1. Hands[t] = cur[t] /\ cur[t] \in Msgs \ Begun /\ NoMsg \notin Msgs
  BY InHand, DispatchAssumption DEF Carrying
<1>2. UNCHANGED Hands
  <2>1. Typed /\ stack[t] \in Seq(Msgs) /\ Hand(t) = cur[t]
    BY DEF InOnePlace, Typed, TypeOK, Hand, Carrying
  <2>2. /\ \A u \in Msgs : pc'[u] = IF u = t THEN "run" ELSE pc[u]
        /\ \A u \in Msgs \ {t} : stack'[u] = stack[u]
        /\ stack'[t] = Append(stack[t], cur[t])
    BY <2>1, GotoType DEF OpenRun, PCs, Typed, TypeOK
  <2>3. Top(t)' = cur[t]
    BY <1>1, <2>1, <2>2, PushStack DEF Top
  <2>4. \A u \in Msgs : Hand(u)' = Hand(u)
    BY <2>1, <2>2, <2>3 DEF Hand, Top, Carrying
  <2> QED  BY <2>4, HandsStay
<1>3. Begun' = Begun \cup {cur[t]} /\ UNCHANGED Draining
  <2>1. \A m \in Msgs : thread'[m] = IF m = cur[t] THEN "queued" ELSE thread[m]
    BY DEF InOnePlace, OpenRun, Typed, TypeOK
  <2> QED  BY <1>1, <2>1 DEF Begun, Draining
<1>4. Contract!BeginRun(t)
  BY <1>1, <1>2, <1>3 DEF Contract!BeginRun, Contract!Fresh, Contract!Held
<1> QED  BY <1>4 DEF Contract!CNext

\* Every step of a task is one of the contract, or is not seen by it.
LEMMA TaskImplements ==
  InOnePlace /\ (\E t \in Msgs : TaskStep(t)) => Contract!CNext \/ UNCHANGED Contract!cvars
<1> SUFFICES ASSUME InOnePlace, NEW t \in Msgs, TaskStep(t)
             PROVE  Contract!CNext \/ UNCHANGED Contract!cvars
  OBVIOUS
<1> USE DispatchAssumption DEF PCs, Carrying
<1>a. Typed
  BY DEF InOnePlace
<1>b. /\ Hands \in [Msgs -> Msgs \cup {NoMsg}] /\ fate \in [Msgs -> Fates]
      /\ pending \in Msgs \cup {NoMsg} /\ (Hands[t] \in Msgs => Hands[t] # pending)
  BY <1>a, InHand DEF Typed, TypeOK
<1>c. UNCHANGED phase /\ (UNCHANGED thread => UNCHANGED <<Begun, Draining>>)
  BY DEF TaskStep, LoopStep, Begin, EnterFree, EnterBusy, AfterEmit, InlineStop, SetupFails, StartRun,
         FinishAlone, FinishDiscarding, FinishThenFollow, RunFinished, FollowUp, EmptyRun, InactivityTimeout, UnwindRun,
         HandlerReturns, DeliverLast, DeliverAndTake, DeliverFails, Handoff, Close, Begun, Draining
<1>1. CASE Begin(t) \/ Handoff(t)
  <2>1. /\ Goto(t, "hook") /\ UNCHANGED <<stack, thread, plain, cur, pending, fate>>
        /\ pc[t] \in {"created", "handoff"}
    BY <1>1 DEF Begin, Handoff, agentVars
  <2> QED  BY <1>c, <2>1, UnseenMove
<1>2. CASE EnterFree(t)
  <2>1. UNCHANGED <<stack, thread, plain, cur, pending>> /\ pc[t] = "hook"
    BY <1>2 DEF EnterFree, adapterVars, agentVars
  <2>2. CASE Draining /\ RejectDraining(t)
    BY <1>c, <2>1, <2>2, Declines DEF RejectDraining
  <2>3. CASE UNCHANGED fate /\ (Goto(t, "emit") \/ Goto(t, "setup"))
    BY <1>c, <2>1, <2>3, UnseenMove
  <2> QED  BY <1>2, <2>2, <2>3 DEF EnterFree, Claim
<1>3. CASE EnterBusy(t)
  <2>1. Goto(t, "reply") /\ UNCHANGED <<stack, thread, cur>> /\ pc[t] = "hook"
    BY <1>3 DEF EnterBusy, StopClean
  <2>2. CASE /\ UNCHANGED <<pending, plain>>
             /\ \/ fate' = [fate EXCEPT ![cur[t]] = "swallowed"] /\ ~Draining
                \/ fate' = [fate EXCEPT ![cur[t]] = "executed"] /\ cur[t] \in Queues \ plain
    BY <1>a, <1>c, <2>1, <2>2, Spellings, Declines
  <2>3. CASE /\ \/ ReplacePending(cur[t], "live") \/ MergePending(cur[t], "live")
                \/ (QueueOrRefuse(cur[t]) /\ Draining)
                \/ (StopClean(cur[t]) /\ cur[t] \in Stops)
             /\ \/ UNCHANGED plain
                \/ /\ ReplacePending(cur[t], "live") /\ cur[t] \in Queues
                   /\ plain' = plain \cup {cur[t]}
    <3>1. Hands[t] = cur[t] /\ cur[t] \in Msgs \ Begun
      BY <2>1, InHand
    <3>2. Contract!Offer(cur[t])
      BY <1>a, <2>3, <3>1, SlotOffers DEF Waiting
    <3>3. Hands' = [Hands EXCEPT ![t] = NoMsg]
      BY <1>a, <2>1, HandsMove
    <3>4. UNCHANGED plain \/ Contract!Spelt(cur[t])
      BY <1>a, <2>3, Spellings DEF ReplacePending, Contract!Spelt
    <3>5. Contract!PutBack(t)
      BY <1>c, <2>1, <3>1, <3>2, <3>3, <3>4
      DEF Contract!PutBack, Contract!Fresh, Contract!Held, Contract!LetGo
    <3> QED  BY <3>5 DEF Contract!CNext
  <2> QED  BY <1>3, <2>2, <2>3 DEF EnterBusy, QueueArgument
<1>4. CASE AfterEmit(t)
  <2>1. UNCHANGED <<stack, thread, plain, cur, pending>> /\ pc[t] = "emit"
    BY <1>4 DEF AfterEmit, LateStop, agentVars
  <2>2. CASE Draining /\ RejectDraining(t)
    BY <1>c, <2>1, <2>2, Declines DEF RejectDraining
  <2>3. CASE fate' = [fate EXCEPT ![cur[t]] = "executed"] /\ Goto(t, "reply") /\ cur[t] \in Stops
    BY <1>a, <1>c, <2>1, <2>3, Spellings, Declines
  <2>4. CASE Goto(t, "setup") /\ UNCHANGED fate
    BY <1>c, <2>1, <2>4, UnseenMove
  <2>5. \/ Draining /\ RejectDraining(t)
        \/ fate' = [fate EXCEPT ![cur[t]] = "executed"] /\ Goto(t, "reply") /\ cur[t] \in Stops
        \/ Goto(t, "setup") /\ UNCHANGED fate
    BY <1>4 DEF AfterEmit, LateStop, Claim
  <2> QED  BY <2>2, <2>3, <2>4, <2>5
<1>5. CASE InlineStop(t)
  <2>1. /\ UNCHANGED <<stack, thread, plain, cur, pending>> /\ pc[t] = "inline" /\ Goto(t, "done")
        /\ fate' = [fate EXCEPT ![cur[t]] = "executed"] /\ cur[t] \in Stops
    BY <1>5, <1>a DEF InlineStop, LateStop, Typed, Carried
  <2> QED  BY <1>a, <1>c, <2>1, Spellings, Declines
<1>6. CASE SetupFails(t)
  <2>1. PICK where \in {"error", "reply"} : Goto(t, where)
    BY <1>6 DEF SetupFails
  <2>2. /\ UNCHANGED <<stack, thread, plain, cur, pending>> /\ pc[t] = "setup"
        /\ fate' = [fate EXCEPT ![cur[t]] = "failed"]
    BY <1>6 DEF SetupFails, adapterVars, agentVars
  <2> QED  BY <1>c, <2>1, <2>2, Declines
<1>7. CASE HandlerReturns(t)
  <2>1. PICK where \in {"error", "reply"} : Goto(t, where)
    BY <1>7 DEF HandlerReturns
  <2>2. UNCHANGED <<stack, thread, plain, cur, pending, fate>> /\ pc[t] = "persist"
    BY <1>7 DEF HandlerReturns, adapterVars, agentVars
  <2> QED  BY <1>c, <2>1, <2>2, UnseenMove
<1>8. CASE StartRun(t) \/ (FollowUp(t) /\ OpenRun(t, cur[t]) /\ UNCHANGED fate)
  BY <1>8, <1>c, Opens DEF StartRun, FollowUp, adapterVars
<1>9. CASE /\ FollowUp(t) /\ fate' = [fate EXCEPT ![cur[t]] = "failed"]
           /\ Goto(t, "unwind") /\ UNCHANGED <<stack, agentVars>>
  <2>1. UNCHANGED <<stack, thread, plain, cur, pending>> /\ pc[t] = "followup"
    BY <1>9 DEF FollowUp, adapterVars, agentVars
  <2> QED  BY <1>9, <1>c, <2>1, Declines
<1>10. CASE FinishAlone(t)
  <2>1. /\ UNCHANGED <<stack, thread, plain, cur, pending>> /\ pc[t] = "run" /\ Goto(t, "unwind")
        /\ fate' = [fate EXCEPT ![Top(t)] = "answered"] /\ thread[Top(t)] # "none"
    BY <1>10 DEF FinishAlone, RunFinished, Answered, adapterVars, agentVars
  <2>2. Hands' = [Hands EXCEPT ![t] = NoMsg] /\ Hands[t] = Top(t) /\ Top(t) \in Begun
    BY <1>a, <2>1, HandsMove, InHand
  <2>3. Contract!Answer(t)
    BY <1>c, <2>1, <2>2 DEF Contract!Answer, Contract!LetGo, Contract!Meets
  <2> QED  BY <2>3 DEF Contract!CNext
<1>11. CASE FinishDiscarding(t)
  <2>1. /\ UNCHANGED <<stack, thread, plain, cur>> /\ pc[t] = "run" /\ Goto(t, "unwind") /\ pending' = NoMsg
        /\ thread[Top(t)] # "none" /\ pending # NoMsg
        /\ pending \in (Prompts \cup Stops) \ plain \/ Draining
        /\ fate' = [[fate EXCEPT ![Top(t)] = "answered"] EXCEPT ![pending] = "discarded"]
    BY <1>11, <1>a, Spellings DEF FinishDiscarding, RunFinished, Discardable, Answered, agentVars
  <2>2. Hands' = [Hands EXCEPT ![t] = NoMsg] /\ Hands[t] = Top(t) /\ Top(t) \in Msgs \cap Begun
    BY <1>a, <2>1, HandsMove, InHand
  <2>3. fate' = [Contract!SlotMeets("discarded") EXCEPT ![Hands[t]] = "answered"]
    <3>1. pending \in Msgs /\ pending # Top(t)
      BY <1>b, <2>1, <2>2
    <3> QED  BY <1>b, <2>1, <2>2, <3>1 DEF Contract!SlotMeets
  <2>4. Contract!Answer(t)
    BY <1>c, <2>1, <2>2, <2>3 DEF Contract!Answer, Contract!LetGo
  <2> QED  BY <2>4 DEF Contract!CNext
<1>12. CASE FinishThenFollow(t)
  <2>1. /\ UNCHANGED <<stack, thread, plain>> /\ pc[t] = "run" /\ thread[Top(t)] # "none"
        /\ fate' = [fate EXCEPT ![Top(t)] = "answered"]
        /\ pending # NoMsg /\ pending \notin (Prompts \cup Stops) \ plain /\ ~Draining
    BY <1>12, <1>a, Spellings DEF FinishThenFollow, RunFinished, Discardable, Answered, agentVars
  <2>2. Hands[t] = Top(t) /\ Top(t) \in Begun
    BY <2>1, InHand
  <2>3. CASE Goto(t, "unwind") /\ UNCHANGED <<pending, cur>>
    <3>1. Hands' = [Hands EXCEPT ![t] = NoMsg]
      BY <1>a, <2>1, <2>3, HandsMove
    <3>2. Contract!Answer(t)
      BY <1>c, <2>1, <2>2, <2>3, <3>1 DEF Contract!Answer, Contract!LetGo, Contract!Meets
    <3> QED  BY <3>2 DEF Contract!CNext
  <2>4. CASE TakePending /\ cur' = [cur EXCEPT ![t] = pending] /\ Goto(t, "followup")
    <3>1. pending' = NoMsg /\ cur'[t] = pending /\ \A u \in Msgs \ {t} : cur'[u] = cur[u]
      BY <1>a, <2>4 DEF TakePending, Typed, TypeOK
    <3>2. Hands' = [Hands EXCEPT ![t] = pending]
      BY <1>a, <2>1, <2>4, <3>1, HandsMove
    <3>3. Contract!Answer(t)
      BY <1>c, <2>1, <2>2, <3>1, <3>2 DEF Contract!Answer, Contract!Meets
    <3> QED  BY <3>3 DEF Contract!CNext
  <2> QED  BY <1>12, <2>3, <2>4 DEF FinishThenFollow
<1>13. CASE EmptyRun(t) \/ InactivityTimeout(t)
  <2>1. /\ UNCHANGED <<stack, thread, plain, cur, pending>> /\ pc[t] = "run" /\ Goto(t, "unwind")
        /\ fate' = [fate EXCEPT ![Top(t)] = "failed"] /\ thread[Top(t)] # "none"
    BY <1>13 DEF EmptyRun, InactivityTimeout, Overdue, adapterVars, agentVars
  <2>2. Hands' = [Hands EXCEPT ![t] = NoMsg] /\ Hands[t] = Top(t) /\ Top(t) \in Begun
    BY <1>a, <2>1, HandsMove, InHand
  <2>3. Contract!FailRun(t)
    BY <1>c, <2>1, <2>2 DEF Contract!FailRun, Contract!LetGo, Contract!Meets
  <2> QED  BY <2>3 DEF Contract!CNext
<1>14. CASE UnwindRun(t)
  <2>1. UNCHANGED <<cur, pending, plain, fate, thread>> /\ pc[t] = "unwind"
    BY <1>14 DEF UnwindRun, adapterVars
  <2>2. PICK where \in {"persist", "unwind"} : Goto(t, where)
    BY <1>14 DEF UnwindRun
  <2>3. \A u \in Msgs : Hand(u)' = Hand(u)
    <3>1. \A u \in Msgs : pc'[u] = IF u = t THEN where ELSE pc[u]
      BY <1>a, <2>2, GotoType
    <3>2. \A u \in Msgs \ {t} : stack'[u] = stack[u]
      BY <1>14, <1>a DEF UnwindRun, Typed, TypeOK
    <3> QED  BY <2>1, <3>1, <3>2 DEF Hand, Top
  <2> QED  BY <1>c, <2>1, <2>3, HandsStay DEF Contract!cvars
<1>15. CASE DeliverLast(t) \/ DeliverFails(t)
  <2>1. /\ UNCHANGED <<stack, thread, plain, cur, pending, fate>> /\ pc[t] \in {"reply", "error"}
        /\ Goto(t, "closing")
    BY <1>15 DEF DeliverLast, DeliverFails, adapterVars, agentVars
  <2> QED  BY <1>c, <2>1, UnseenMove
<1>16. CASE DeliverAndTake(t)
  <2>1. /\ UNCHANGED <<stack, thread, plain>> /\ pc[t] = "reply" /\ pending # NoMsg /\ pending' = NoMsg
        /\ Hands[t] = NoMsg
    BY <1>16, InHand DEF DeliverAndTake, TakePending, agentVars
  <2>2. CASE cur' = [cur EXCEPT ![t] = pending] /\ Goto(t, "handoff") /\ UNCHANGED fate
    <3>1. cur'[t] = pending /\ \A u \in Msgs \ {t} : cur'[u] = cur[u]
      BY <1>a, <2>2 DEF Typed, TypeOK
    <3>2. Hands' = [Hands EXCEPT ![t] = pending]
      BY <1>a, <2>1, <2>2, <3>1, HandsMove
    <3>3. Contract!Take(t)
      BY <1>c, <2>1, <2>2, <3>2 DEF Contract!Take, Contract!Held
    <3> QED  BY <3>3 DEF Contract!CNext
  <2>3. CASE fate' = [fate EXCEPT ![pending] = "failed"] /\ Goto(t, "error") /\ UNCHANGED cur
    <3>1. Hands' = [Hands EXCEPT ![t] = NoMsg]
      BY <1>a, <2>1, <2>3, HandsMove
    <3>2. UNCHANGED Hands
      BY <1>b, <2>1, <3>1
    <3>3. Contract!Take(t)
      BY <1>c, <2>1, <2>3, <3>2 DEF Contract!Take, Contract!Held, Contract!Meets
    <3> QED  BY <3>3 DEF Contract!CNext
  <2> QED  BY <1>16, <2>2, <2>3 DEF DeliverAndTake
<1>17. CASE Close(t)
  <2>1. UNCHANGED <<stack, thread, plain, cur, pending, fate>> /\ pc[t] = "closing"
    BY <1>17 DEF Close, agentVars
  <2>2. CASE Goto(t, "done")
    BY <1>c, <2>1, <2>2, UnseenMove
  <2>3. CASE UNCHANGED pc
    <3>1. UNCHANGED Hands
      BY <2>1, <2>3, HandsStay DEF Hand, Top
    <3> QED  BY <1>c, <2>1, <3>1 DEF Contract!cvars
  <2> QED  BY <1>17, <2>2, <2>3 DEF Close, LeaveFrame
<1> QED
  BY <1>1, <1>2, <1>3, <1>4, <1>5, <1>6, <1>7, <1>8, <1>9, <1>10, <1>11, <1>12, <1>13, <1>14,
     <1>15, <1>16, <1>17 DEF TaskStep, LoopStep, FollowUp

\* Threads and helpers are not seen by the contract.
LEMMA AgentImplements == InOnePlace /\ (\E m \in Msgs : AgentStep(m)) => UNCHANGED Contract!cvars
<1> SUFFICES ASSUME InOnePlace, NEW m \in Msgs, AgentStep(m) PROVE UNCHANGED Contract!cvars
  OBVIOUS
<1>1. UNCHANGED <<pc, cur, stack, pending, plain, fate, phase>>
  BY DEF AgentStep, BuildAgent, RefuseRun, Converse, ConversationEnds, TrackAgent, MonitorInterrupt,
         adapterVars, taskVars
<1>2. \A x \in Msgs : thread'[x] = "none" <=> thread[x] = "none"
  BY DEF AgentStep, BuildAgent, RefuseRun, Converse, ConversationEnds, TrackAgent, MonitorInterrupt,
         InOnePlace, Typed, TypeOK
<1>3. UNCHANGED Hands
  BY <1>1, HandsStay DEF Hand, Top
<1> QED  BY <1>1, <1>2, <1>3 DEF Contract!cvars, Begun, Draining

\* The steps of stop() are those of the contract; its time-out is not seen.
LEMMA StopImplements == InOnePlace /\ StopStep => Contract!CNext \/ UNCHANGED Contract!cvars
<1> SUFFICES ASSUME InOnePlace, StopStep PROVE Contract!CNext \/ UNCHANGED Contract!cvars
  OBVIOUS
<1>1. CASE BeginDrain \/ DrainTimesOut
  <2>1. UNCHANGED <<pc, cur, stack, pending, plain, fate, thread>>
    BY <1>1 DEF BeginDrain, DrainTimesOut, adapterVars, taskVars, agentVars
  <2>2. UNCHANGED <<Hands, Begun>>
    BY <2>1, HandsStay DEF Hand, Top, Begun
  <2>3. CASE BeginDrain
    BY <2>1, <2>2, <2>3 DEF BeginDrain, Draining, Contract!BeginClosing, Contract!CNext
  <2>4. CASE DrainTimesOut
    BY <2>1, <2>2, <2>4 DEF DrainTimesOut, Draining, Contract!cvars
  <2> QED  BY <1>1, <2>3, <2>4
<1>2. CASE CancelTasks
  <2>1. PICK cut \in SUBSET Msgs :
          /\ \A t \in Msgs : Hand(t)' = IF t \in cut THEN NoMsg ELSE Hand(t)
          /\ \A m \in Msgs : fate'[m] = IF fate[m] \in Waiting /\ \E t \in cut : Hand(t) = m
                                         THEN "failed" ELSE fate[m]
    BY <1>2, CancelOpens
  <2>2. /\ Hands' = [t \in Msgs |-> IF t \in cut THEN NoMsg ELSE Hands[t]]
        /\ fate' = [m \in Msgs |-> IF \E t \in cut : Hands[t] = m THEN "failed" ELSE fate[m]]
    <3>1. \A m \in Msgs : (\E t \in cut : Hand(t) = m) => fate[m] \in Waiting
      BY HeldWaits DEF InOnePlace
    <3>2. \A m \in Msgs : fate'[m] = IF \E t \in cut : Hand(t) = m THEN "failed" ELSE fate[m]
      BY <2>1, <3>1
    <3>3. fate' \in [Msgs -> Fates]
      BY NextTypes DEF InOnePlace, Next, Typed, TypeOK
    <3> QED  BY <2>1, <3>2, <3>3 DEF Hands
  <2>3. Draining /\ UNCHANGED <<pending, plain, Begun, Draining>>
    BY <1>2 DEF CancelTasks, Draining, Begun, adapterVars, agentVars
  <2>4. Contract!Cancel
    BY <2>2, <2>3 DEF Contract!Cancel
  <2> QED  BY <2>4 DEF Contract!CNext
<1>3. CASE FinishStop
  <2>1. UNCHANGED <<pc, cur, stack, thread, plain>> /\ Draining /\ UNCHANGED Draining
    BY <1>3 DEF FinishStop, Draining, taskVars, agentVars
  <2>2. UNCHANGED <<Hands, Begun>>
    BY <2>1, HandsStay DEF Hand, Top, Begun
  <2>3. Contract!Disconnect
    BY <1>3, <2>1, <2>2
    DEF FinishStop, DiscardPending, TakePending, Contract!Disconnect, Contract!SlotMeets
  <2> QED  BY <2>3 DEF Contract!CNext
<1> QED  BY <1>1, <1>2, <1>3 DEF StopStep

\* Adapter, runner, recursion and shutdown implement the contract: a message leaves the
\* slot or a hand only for a reason the contract gives, and is answered only by the run
\* begun for it, in the hand of the task that holds it.
THEOREM Implements == Spec => ImplementsContract
<1>1. Init => Contract!CInit
  <2> SUFFICES ASSUME Init PROVE Contract!CInit
    OBVIOUS
  <2>1. Hands = [t \in Msgs |-> NoMsg] /\ Begun = {} /\ Draining = FALSE
    BY DEF Init, Hands, Hand, Carrying, Begun, Draining
  <2> QED  BY <2>1 DEF Init, Contract!CInit
<1>2. InOnePlace /\ [Next]_vars => [Contract!CNext]_Contract!cvars
  <2>1. UNCHANGED vars => UNCHANGED Contract!cvars
    BY HandsStay DEF vars, Contract!cvars, Hand, Top, Begun, Draining
  <2> QED  BY <2>1, ArriveImplements, TaskImplements, AgentImplements, StopImplements DEF Next, TaskStep
<1> QED  BY <1>1, <1>2, InitPlaced, NextPlaced, PTL DEF Spec, ImplementsContract, Contract!CSpec
=============================================================================
