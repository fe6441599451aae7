------------------------ MODULE GatewayInstancesProofs ------------------------
(***************************************************************************)
(* Proofs about GatewayInstances, for any number of gateways, with and       *)
(* without --replace, and any number of faults: its type invariant, and that *)
(* two gateways run, or use one token, only through the windows it names.    *)
(***************************************************************************)
EXTENDS GatewayInstances, FiniteSetTheorems, TLAPS

-----------------------------------------------------------------------------
(* Invariants                                                              *)

\* Where a process may be before it is up, and only while it is.
BeforeUp == {"off", "unlist", "await", "clear", "sweep", "list", "listing", "exit", "dead"}
WhileUp == {"run", "release", "unlinkOwn", "leave"}

Placed ==
  \A g \in Gateways :
    /\ pc[g] \in BeforeUp => g \notin up
    /\ pc[g] \in WhileUp => g \in up

\* No guard was passed together or by an unrecognized process, no PID file taken away.
PidKept == causes \cap {"together", "unlisted", "unrecognized"} = {}

\* Until then one process starts at a time, beside a running one only to replace it, and
\* who runs is named by the file.
InTurn ==
  /\ \A a, b \in Gateways : Starting(a) /\ Starting(b) => a = b
  /\ \A a, b \in up : a = b
  /\ \A g \in Gateways, h \in up : Starting(g) => pc[g] = "await" /\ seen[g] = h
  /\ \A g \in up : pidFile.text = g
  /\ \A g \in Gateways : pc[g] = "listing" => pidFile.text = Blank /\ g \in pidFile.open

Guarded == PidKept => InTurn

OneAtATime == TypeOK /\ Placed /\ Guarded

\* A process uses the token only where it is connected, and has read the lock it is
\* about to replace: its own, or one whose owner has died or been suspended.
Read ==
  /\ \A g \in Gateways : token[g] = "using" => pc[g] \in {"list", "listing", "run"}
  /\ \A g \in suspended : <<"suspend", g>> \in faults
  /\ lockFile.text \in Gateways => pc[lockFile.text] # "off"
  /\ \A g \in Gateways : pc[g] = "rewrite" => seen[g] = g
  /\ \A g \in Gateways : pc[g] = "unlink" /\ seen[g] \in Gateways =>
       pc[seen[g]] = "dead" \/ <<"suspend", seen[g]>> \in faults

Filling(g) == pc[g] \in {"fill", "refill"}

\* No live process's lock was taken, and none went without.
LockKept == causes \cap {"raced", "suspended", "swept", "unlocked"} = {}

\* Until then who connects or uses the token is named by the lock, and who is writing it
\* has it alone.
Owned ==
  /\ \A g \in Gateways : pc[g] = "connect" \/ token[g] = "using" => lockFile.text = g
  /\ \A g \in Gateways : Filling(g) => lockFile.text = Blank /\ g \in lockFile.open
  /\ \A a, b \in Gateways : Filling(a) /\ Filling(b) => a = b

Locked == LockKept => Owned

OwnersHaveLocks == TypeOK /\ Read /\ Locked

-----------------------------------------------------------------------------
(* Types                                                                   *)

\* Opening, writing, closing and unlinking a file give a file.
LEMMA FilesType ==
  ASSUME NEW f \in FileStates, NEW g \in Gateways
  PROVE  /\ NoFile \in FileStates /\ Opened(f, g) \in FileStates
         /\ Written(f, g) \in FileStates /\ \A h : Closed(f, h) \in FileStates
  BY DEF FileStates, NoFile, Opened, Written, Closed

\* Going on to a label keeps the labels.
LEMMA GotoType ==
  ASSUME TypeOK, NEW g \in Gateways, NEW label \in Labels, Goto(g, label)
  PROVE  pc' \in [Gateways -> Labels]
  BY DEF TypeOK, Goto

\* An end, a refusal and a failed attempt keep the types of what they change.
LEMMA EndsType ==
  ASSUME TypeOK, NEW g \in Gateways, Ends(g) \/ Refused(g) \/ GivesUp(g)
  PROVE  /\ pc' \in [Gateways -> Labels]
         /\ seen' \in [Gateways -> Gateways \cup {Missing, Blank}]
         /\ token' \in [Gateways -> {"none", "using", "queued"}]
         /\ up' \subseteq Gateways /\ stopping' \subseteq Gateways /\ suspended' \subseteq Gateways
  BY DEF TypeOK, Labels, Goto, Ends, Refused, GivesUp

\* A cause is one of the six, and a blame only adds to the causes.
LEMMA BlameType ==
  ASSUME NEW cause \in Causes, NEW occurs, Blame(cause, occurs), causes \subseteq Causes
  PROVE  causes' \subseteq Causes /\ causes \subseteq causes' /\ (occurs => cause \in causes')
  BY DEF Blame

\* A fault is one of the five, at a gateway.
LEMMA FailType ==
  ASSUME NEW kind \in FaultKinds, NEW g \in Gateways, Fail(kind, g),
         faults \subseteq FaultKinds \X Gateways
  PROVE  faults' \subseteq FaultKinds \X Gateways /\ faults \subseteq faults'
  BY DEF Fail

\* At the start everything has its type.
LEMMA InitTypes == Init => TypeOK
  BY DEF Init, TypeOK, NoFile, FileStates, Labels

\* Every step keeps the types.
LEMMA NextTypes == TypeOK /\ [Next]_vars => TypeOK'
<1> SUFFICES ASSUME TypeOK, [Next]_vars PROVE TypeOK'
  OBVIOUS
<1> USE DEF Causes, FaultKinds
<1>0. pidFile \in FileStates /\ lockFile \in FileStates
  BY DEF TypeOK
<1>1. ASSUME NEW g \in Gateways, Start(g) PROVE TypeOK'
  <2>1. CASE Ends(g) /\ UNCHANGED causes
    BY <1>1, <2>1, EndsType DEF Start, TypeOK
  <2>2. CASE /\ seen' = [seen EXCEPT ![g] = pidFile.text]
             /\ stopping' = IF Running(pidFile.text) THEN stopping \cup {pidFile.text} ELSE stopping
             /\ Goto(g, IF Running(pidFile.text) THEN "await" ELSE "unlist")
             /\ causes' = causes \cup Overlooked(g, pidFile.text)
             /\ UNCHANGED <<up, token, suspended>>
    <3>1. pidFile.text \in Gateways \cup {Missing, Blank}
      BY <1>0 DEF FileStates
    <3>2. stopping' \subseteq Gateways
      BY <2>2 DEF Running, TypeOK
    <3>3. pc' \in [Gateways -> Labels]
      BY <2>2, GotoType DEF Labels
    <3>4. causes' \subseteq Causes
      BY <2>2 DEF Overlooked, TypeOK
    <3> QED  BY <1>1, <2>2, <3>1, <3>2, <3>3, <3>4 DEF Start, TypeOK
  <2> QED  BY <1>1, <2>1, <2>2 DEF Start
<1>2. ASSUME NEW g \in Gateways, Unlist(g) \/ ClearPid(g) \/ SweepLocks(g) PROVE TypeOK'
  <2>1. pc' \in [Gateways -> Labels]
    BY <1>2, GotoType DEF Unlist, ClearPid, SweepLocks, Labels
  <2>2. causes' \subseteq Causes
    BY <1>2, BlameType DEF Unlist, ClearPid, SweepLocks, TypeOK
  <2> QED  BY <1>2, <2>1, <2>2, <1>0, FilesType DEF Unlist, ClearPid, SweepLocks, TypeOK
<1>3. ASSUME NEW g \in Gateways, KillOld(g) PROVE TypeOK'
  <2>1. pc' \in [Gateways -> Labels]
    BY <1>3 DEF KillOld, TypeOK, Labels
  <2> QED  BY <1>3, <2>1, <1>0, FilesType DEF KillOld, TypeOK
<1>4. ASSUME NEW g \in Gateways, ReadLock(g) PROVE TypeOK'
  <2>1. CASE Refused(g)
    BY <1>4, <2>1, EndsType DEF ReadLock, TypeOK
  <2>2. CASE /\ seen' = [seen EXCEPT ![g] = lockFile.text]
             /\ Goto(g, IF lockFile.text = g THEN "rewrite" ELSE "unlink")
             /\ UNCHANGED <<up, token, stopping, suspended>>
    <3>1. lockFile.text \in Gateways \cup {Missing, Blank}
      BY <1>0 DEF FileStates
    <3>2. pc' \in [Gateways -> Labels]
      BY <2>2, GotoType DEF Labels
    <3> QED  BY <1>4, <2>2, <3>1, <3>2 DEF ReadLock, TypeOK
  <2> QED  BY <1>4, <2>1, <2>2 DEF ReadLock
<1>5. ASSUME NEW g \in Gateways, RewriteLock(g) \/ UnlinkStale(g) \/ UnlinkOwn(g) PROVE TypeOK'
  <2>1. pc' \in [Gateways -> Labels]
    BY <1>5, GotoType DEF RewriteLock, UnlinkStale, UnlinkOwn, Released, Labels
  <2>2. causes' \subseteq Causes
    BY <1>5, BlameType DEF RewriteLock, UnlinkStale, UnlinkOwn, TypeOK
  <2>3. lockFile' \in FileStates
    BY <1>5, <1>0, FilesType DEF RewriteLock, UnlinkStale, UnlinkOwn
  <2>4. seen' \in [Gateways -> Gateways \cup {Missing, Blank}]
    BY <1>5 DEF RewriteLock, UnlinkStale, UnlinkOwn, TypeOK
  <2> QED  BY <1>5, <2>1, <2>2, <2>3, <2>4 DEF RewriteLock, UnlinkStale, UnlinkOwn, TypeOK
<1>6. ASSUME NEW g \in Gateways, CreateLock(g) PROVE TypeOK'
  <2>1. CASE Refused(g) /\ UNCHANGED lockFile
    BY <1>6, <2>1, EndsType DEF CreateLock, TypeOK
  <2>2. CASE /\ lockFile' = Opened(lockFile, g) /\ Goto(g, "fill")
             /\ UNCHANGED <<seen, up, token, stopping, suspended>>
    <3>1. pc' \in [Gateways -> Labels]
      BY <2>2, GotoType DEF Labels
    <3> QED  BY <1>6, <2>2, <3>1, <1>0, FilesType DEF CreateLock, TypeOK
  <2> QED  BY <1>6, <2>1, <2>2 DEF CreateLock, Create
<1>7. ASSUME NEW g \in Gateways, FillLock(g) \/ ListPid(g) \/ FillPid(g) PROVE TypeOK'
  <2>1. pc' \in [Gateways -> Labels]
    BY <1>7, GotoType DEF FillLock, ListPid, FillPid, Labels
  <2> QED  BY <1>7, <2>1, <1>0, FilesType DEF FillLock, ListPid, FillPid, TypeOK
<1>8. ASSUME NEW g \in Gateways, OldHasGone(g) \/ Connect(g) \/ Retry(g) \/ Stop(g) \/ ReadOwnLock(g)
      PROVE  TypeOK'
  <2>1. pc' \in [Gateways -> Labels]
    BY <1>8, GotoType DEF OldHasGone, Connect, Retry, Stop, ReadOwnLock, Released, Labels
  <2> QED  BY <1>8, <2>1 DEF OldHasGone, Connect, Retry, Stop, ReadOwnLock, TypeOK
<1>9. ASSUME NEW g \in Gateways, ConnectFails(g) PROVE TypeOK'
  BY <1>9, EndsType, FailType DEF ConnectFails, TypeOK
<1>10. ASSUME NEW g \in Gateways, FillFails(g) PROVE TypeOK'
  <2>1. lockFile' \in FileStates
    BY <1>10, <1>0, FilesType DEF FillFails
  <2>2. faults' \subseteq FaultKinds \X Gateways
    BY <1>10, FailType DEF FillFails, TypeOK
  <2>3. CASE Blame("raced", pc[g] = "fill" /\ Hits(lockFile, g)) /\ GivesUp(g)
    <3>1. causes' \subseteq Causes
      BY <2>3, BlameType DEF TypeOK
    <3> QED  BY <1>10, <2>1, <2>2, <2>3, <3>1, EndsType DEF FillFails, TypeOK
  <2>4. CASE /\ causes' = causes \cup {"unlocked"}
             /\ Goto(g, "connect") /\ UNCHANGED <<seen, up, token, stopping, suspended>>
    <3>1. pc' \in [Gateways -> Labels]
      BY <2>4, GotoType DEF Labels
    <3> QED  BY <1>10, <2>1, <2>2, <2>4, <3>1 DEF FillFails, TypeOK
  <2> QED  BY <1>10, <2>3, <2>4 DEF FillFails
<1>11. ASSUME NEW g \in Gateways, Disconnect(g) PROVE TypeOK'
  <2>1. pc' \in [Gateways -> Labels]
    BY <1>11, GotoType DEF Disconnect, Labels
  <2>2. token' \in [Gateways -> {"none", "using", "queued"}] /\ stopping' \subseteq Gateways
    BY <1>11 DEF Disconnect, TypeOK
  <2>3. faults' \subseteq FaultKinds \X Gateways
    BY <1>11, FailType DEF Disconnect, TypeOK
  <2> QED  BY <1>11, <2>1, <2>2, <2>3 DEF Disconnect, TypeOK
<1>12. ASSUME NEW g \in Gateways, Leave(g) PROVE TypeOK'
  <2>1. pc' \in [Gateways -> Labels] /\ causes' \subseteq Causes
    BY <1>12, GotoType, BlameType DEF Leave, Labels, TypeOK
  <2> QED  BY <1>12, <2>1, <1>0, FilesType DEF Leave, TypeOK
<1>13. ASSUME NEW g \in Gateways, Exit(g) PROVE TypeOK'
  <2>1. causes' \subseteq Causes
    BY <1>13, BlameType DEF Exit, TypeOK
  <2> QED  BY <1>13, <2>1, <1>0, FilesType, EndsType DEF Exit, TypeOK
<1>14. ASSUME NEW g \in Gateways, Crash(g) PROVE TypeOK'
  BY <1>14, <1>0, FilesType, EndsType, FailType DEF Crash, TypeOK
<1>15. ASSUME NEW g \in Gateways, Suspend(g) \/ Resume(g) PROVE TypeOK'
  <2>1. faults' \subseteq FaultKinds \X Gateways
    BY <1>15, FailType DEF Suspend, Resume, TypeOK
  <2> QED  BY <1>15, <2>1 DEF Suspend, Resume, TypeOK
<1>16. CASE CliReads
  BY <1>16 DEF CliReads, Running, TypeOK
<1>17. CASE CliRemoves
  <2>1. causes' \subseteq Causes
    BY <1>17, BlameType DEF CliRemoves, TypeOK
  <2>2. NoFile \in FileStates
    BY DEF NoFile, FileStates
  <2> QED  BY <1>17, <2>1, <2>2 DEF CliRemoves, TypeOK
<1>18. CASE UNCHANGED vars
  BY <1>18 DEF vars, TypeOK
<1> QED
  BY <1>1, <1>2, <1>3, <1>4, <1>5, <1>6, <1>7, <1>8, <1>9, <1>10, <1>11, <1>12, <1>13, <1>14,
     <1>15, <1>16, <1>17, <1>18 DEF Next, Progress

\* The variables of the gateways' start and stop keep their types, for any number of
\* gateways and of faults.
THEOREM TypesHold == Spec => []TypeOK
  BY InitTypes, NextTypes, PTL DEF Spec

-----------------------------------------------------------------------------
(* One gateway at a time                                                   *)

\* The causes only grow, so a step after which the files are kept had them kept.
LEMMA CausesGrow ==
  ASSUME NEW cause, NEW occurs, Blame(cause, occurs) \/ UNCHANGED causes \/ causes' = causes \cup {cause}
  PROVE  /\ PidKept' => PidKept
         /\ LockKept' => LockKept
  BY DEF Blame, PidKept, LockKept

\* A blame that leaves the files kept did not occur.
LEMMA NotBlamed ==
  ASSUME NEW cause, NEW occurs, Blame(cause, occurs)
  PROVE  /\ cause \in {"together", "unlisted"} /\ PidKept' => ~occurs
         /\ cause \in {"raced", "suspended", "swept", "unlocked"} /\ LockKept' => ~occurs
  BY DEF Blame, PidKept, LockKept

\* A process is placed after a step that moves it alone.
LEMMA MovePlaced ==
  ASSUME TypeOK, Placed, NEW g \in Gateways, NEW label, Goto(g, label),
         \A h \in Gateways \ {g} : h \in up' => h \in up,
         \A h \in Gateways \ {g} : h \in up => h \in up',
         label \in BeforeUp => g \notin up', label \in WhileUp => g \in up'
  PROVE  Placed'
<1>1. \A h \in Gateways : pc'[h] = IF h = g THEN label ELSE pc[h]
  BY DEF Goto, TypeOK
<1> QED  BY <1>1 DEF Placed

\* So it is after an end, a refusal or a failed attempt of a process that may have one.
LEMMA EndsPlaced ==
  ASSUME TypeOK, Placed, NEW g \in Gateways, Ends(g) \/ Refused(g) \/ GivesUp(g)
  PROVE  Placed'
<1>1. CASE Ends(g)
  BY <1>1, MovePlaced DEF Ends, BeforeUp, WhileUp
<1>2. CASE Goto(g, IF g \in up THEN "run" ELSE "list") /\ UNCHANGED up
  BY <1>2, MovePlaced DEF BeforeUp, WhileUp
<1> QED  BY <1>1, <1>2 DEF Refused, GivesUp

\* Every step leaves each process where it belongs.
LEMMA NextPlaced == TypeOK /\ Placed /\ [Next]_vars => Placed'
<1> SUFFICES ASSUME TypeOK, Placed, [Next]_vars PROVE Placed'
  OBVIOUS
<1> USE DEF BeforeUp, WhileUp
<1>1. ASSUME NEW g \in Gateways, Start(g) PROVE Placed'
  <2>1. CASE Ends(g)
    BY <2>1, EndsPlaced
  <2>2. CASE Goto(g, IF Running(pidFile.text) THEN "await" ELSE "unlist") /\ UNCHANGED up
    <3>1. g \notin up
      BY <1>1 DEF Start, Placed
    <3> QED  BY <2>2, <3>1, MovePlaced
  <2> QED  BY <1>1, <2>1, <2>2 DEF Start
<1>2. ASSUME NEW g \in Gateways,
             Unlist(g) \/ ClearPid(g) \/ SweepLocks(g) \/ OldHasGone(g) \/ RewriteLock(g) \/ UnlinkStale(g)
               \/ FillLock(g) \/ Retry(g)
      PROVE  Placed'
  <2>1. PICK label \in {"lock", "sweep", "clear", "refill", "create", "connect"} :
          Goto(g, label) /\ UNCHANGED up /\ (label = "clear" => pc[g] = "await")
                         /\ (label = "sweep" => pc[g] = "clear")
    BY <1>2 DEF Unlist, ClearPid, SweepLocks, OldHasGone, RewriteLock, UnlinkStale, FillLock, Retry
  <2>2. label \in BeforeUp => g \notin up
    BY <2>1 DEF Placed
  <2> QED  BY <2>1, <2>2, MovePlaced
<1>3. ASSUME NEW g \in Gateways, KillOld(g) PROVE Placed'
  <2>1. g \notin up
    BY <1>3 DEF KillOld, Placed
  <2>2. \A h \in Gateways :
          pc'[h] = IF h = seen[g] THEN "dead" ELSE IF h = g THEN "clear" ELSE pc[h]
    BY <1>3 DEF KillOld, TypeOK
  <2>3. up' = up \ {seen[g]}
    BY <1>3 DEF KillOld
  <2> QED  BY <2>1, <2>2, <2>3 DEF Placed
<1>4. ASSUME NEW g \in Gateways, ReadLock(g) PROVE Placed'
  <2>1. CASE Refused(g)
    BY <2>1, EndsPlaced
  <2>2. CASE Goto(g, IF lockFile.text = g THEN "rewrite" ELSE "unlink") /\ UNCHANGED up
    BY <2>2, MovePlaced
  <2> QED  BY <1>4, <2>1, <2>2 DEF ReadLock
<1>5. ASSUME NEW g \in Gateways, CreateLock(g) PROVE Placed'
  <2>1. CASE Refused(g)
    BY <2>1, EndsPlaced
  <2>2. CASE Goto(g, "fill") /\ UNCHANGED up
    BY <2>2, MovePlaced
  <2> QED  BY <1>5, <2>1, <2>2 DEF CreateLock, Create
<1>6. ASSUME NEW g \in Gateways, Connect(g) PROVE Placed'
  BY <1>6, MovePlaced DEF Connect
<1>7. ASSUME NEW g \in Gateways, ConnectFails(g) PROVE Placed'
  BY <1>7, EndsPlaced DEF ConnectFails
<1>8. ASSUME NEW g \in Gateways, FillFails(g) PROVE Placed'
  <2>1. CASE GivesUp(g)
    BY <2>1, EndsPlaced
  <2>2. CASE Goto(g, "connect") /\ UNCHANGED up
    BY <2>2, MovePlaced
  <2> QED  BY <1>8, <2>1, <2>2 DEF FillFails
<1>9. ASSUME NEW g \in Gateways, ListPid(g) PROVE Placed'
  <2>1. g \notin up
    BY <1>9 DEF ListPid, Placed
  <2> QED  BY <1>9, <2>1, MovePlaced DEF ListPid
<1>10. ASSUME NEW g \in Gateways, FillPid(g) PROVE Placed'
  BY <1>10, MovePlaced DEF FillPid
<1>11. ASSUME NEW g \in Gateways, Disconnect(g) \/ ReadOwnLock(g) \/ UnlinkOwn(g) PROVE Placed'
  <2>1. PICK label \in {"release", "unlinkOwn", "run", "leave"} : Goto(g, label) /\ UNCHANGED up
    BY <1>11 DEF Disconnect, ReadOwnLock, UnlinkOwn, Released
  <2>2. g \in up
    BY <1>11 DEF Disconnect, ReadOwnLock, UnlinkOwn, Placed
  <2> QED  BY <2>1, <2>2, MovePlaced
<1>12. ASSUME NEW g \in Gateways, Stop(g) PROVE Placed'
  BY <1>12, MovePlaced DEF Stop
<1>13. ASSUME NEW g \in Gateways, Leave(g) PROVE Placed'
  BY <1>13, MovePlaced DEF Leave
<1>14. ASSUME NEW g \in Gateways, Exit(g) \/ Crash(g) PROVE Placed'
  BY <1>14, EndsPlaced DEF Exit, Crash
<1>15. ASSUME NEW g \in Gateways, Suspend(g) \/ Resume(g) PROVE Placed'
  BY <1>15 DEF Suspend, Resume, Placed
<1>16. CASE CliReads \/ CliRemoves \/ UNCHANGED vars
  BY <1>16 DEF CliReads, CliRemoves, vars, Placed
<1> QED
  BY <1>1, <1>2, <1>3, <1>4, <1>5, <1>6, <1>7, <1>8, <1>9, <1>10, <1>11, <1>12, <1>13, <1>14,
     <1>15, <1>16 DEF Next, Progress

\* Processes stay in turn over a step of one that starts no other and names nobody anew.
LEMMA MoveInTurn ==
  ASSUME TypeOK, InTurn, NEW g \in Gateways, NEW label, Goto(g, label),
         label # "listing",
         \A h \in Gateways \ {g} : seen'[h] = seen[h],
         \A h \in Gateways \ {g} : h \in up' <=> h \in up, g \in up' => g \in up,
         up' \subseteq Gateways,
         pidFile'.text = pidFile.text, pidFile.open \ {g} \subseteq pidFile'.open,
         Starting(g)' => Starting(g) /\ up = {}
  PROVE  InTurn'
<1>1. \A h \in Gateways : pc'[h] = IF h = g THEN label ELSE pc[h]
  BY DEF Goto, TypeOK
<1>2. up' \subseteq up
  OBVIOUS
<1>3. \A h \in Gateways : Starting(h)' => Starting(h)
  BY <1>1 DEF Starting, Alive
<1>4. (\A a, b \in Gateways : Starting(a) /\ Starting(b) => a = b)'
  BY <1>3 DEF InTurn
<1>5. (\A a \in Gateways, h \in up : Starting(a) => pc[a] = "await" /\ seen[a] = h)'
  <2> SUFFICES ASSUME NEW a \in Gateways, NEW h \in up', Starting(a)'
               PROVE  pc'[a] = "await" /\ seen'[a] = h
    OBVIOUS
  <2>1. a # g
    BY <1>2
  <2> QED  BY <1>1, <1>2, <1>3, <2>1 DEF InTurn
<1>6. (\A a \in Gateways : pc[a] = "listing" => pidFile.text = Blank /\ a \in pidFile.open)'
  BY <1>1 DEF InTurn
<1> QED  BY <1>2, <1>4, <1>5, <1>6 DEF InTurn

\* So they do over an end, a refusal or a failed attempt, of a process that is up or
\* that is alone with its files.
LEMMA EndsInTurn ==
  ASSUME TypeOK, Placed, InTurn, NEW g \in Gateways, Ends(g) \/ Refused(g) \/ GivesUp(g),
         pc[g] \in {"lock", "create", "fill", "refill", "connect"} \/ Ends(g),
         pidFile'.text = pidFile.text, pidFile.open \ {g} \subseteq pidFile'.open
  PROVE  InTurn'
<1>1. CASE Ends(g)
  <2>1. ~Starting(g)'
    BY <1>1 DEF Ends, Goto, TypeOK, Starting, Alive
  <2>2. up' \subseteq Gateways
    BY <1>1, EndsType
  <2> QED  BY <1>1, <2>1, <2>2, MoveInTurn DEF Ends, TypeOK
<1>2. CASE /\ pc[g] \in {"lock", "create", "fill", "refill", "connect"}
           /\ Goto(g, IF g \in up THEN "run" ELSE "list") /\ UNCHANGED up
           /\ \A h \in Gateways \ {g} : seen'[h] = seen[h]
  <2>1. Starting(g)' => Starting(g) /\ up = {}
    BY <1>2 DEF Starting, Alive, InTurn
  <2> QED  BY <1>2, <2>1, MoveInTurn DEF TypeOK
<1> QED  BY <1>1, <1>2 DEF Refused, GivesUp, TypeOK

\* A process that starts at another label than "await" is alone.
LEMMA StartsAlone ==
  ASSUME InTurn, NEW g \in Gateways, Starting(g), pc[g] # "await"
  PROVE  up = {}
  BY DEF InTurn

\* A process is starting where it is not up.
LEMMA StartingAt ==
  ASSUME Placed, NEW g \in Gateways, pc[g] \in {"unlist", "await", "clear", "sweep", "list", "listing"}
  PROVE  Starting(g) /\ g \notin up
  BY DEF Placed, BeforeUp, Starting, Alive

\* Processes that do not move stay where they are.
LEMMA StillInTurn ==
  ASSUME TypeOK, InTurn, UNCHANGED <<pc, up, seen>>,
         (pidFile' = pidFile \/ (up = {} /\ \A h \in Gateways : pc[h] # "listing"))
  PROVE  InTurn'
  BY DEF InTurn, Starting, Alive, TypeOK

\* Who removes a PID file in turn, or unblamed, takes it from nobody.
LEMMA RemovedInTurn ==
  ASSUME TypeOK, Placed, InTurn, NEW g \in Gateways, NEW label, Goto(g, label),
         label \notin {"listing", "await"},
         \A h \in Gateways \ {g} : seen'[h] = seen[h],
         up' = up \ {g}, up \subseteq {g}, \A h \in Gateways \ {g} : pc[h] # "listing",
         Starting(g)' => Starting(g), pidFile' = NoFile
  PROVE  InTurn'
<1>1. \A h \in Gateways : pc'[h] = IF h = g THEN label ELSE pc[h]
  BY DEF Goto, TypeOK
<1>2. up' = {} /\ \A h \in Gateways : pc'[h] # "listing"
  BY <1>1
<1>3. \A h \in Gateways : Starting(h)' => Starting(h)
  BY <1>1 DEF Starting, Alive
<1> QED  BY <1>2, <1>3 DEF InTurn

\* Every step keeps the turns while no guard is passed together and no file taken.
LEMMA NextGuarded == OneAtATime /\ [Next]_vars => Guarded'
<1> SUFFICES ASSUME OneAtATime, [Next]_vars, PidKept' PROVE InTurn'
  BY DEF Guarded
<1>0. TypeOK /\ Placed
  BY DEF OneAtATime
<1>a. TypeOK' /\ Placed'
  BY <1>0, NextTypes, NextPlaced
<1>b. up \subseteq Gateways /\ \A h \in up : Alive(h) /\ ~Starting(h)
  BY <1>0 DEF TypeOK, Placed, BeforeUp, Starting, Alive
<1>c. PidKept => InTurn
  BY DEF OneAtATime, Guarded
<1>1. ASSUME NEW g \in Gateways, Start(g) PROVE InTurn'
  <2>1. CASE Ends(g) /\ UNCHANGED causes
    <3>1. InTurn
      BY <2>1, <1>c DEF PidKept
    <3> QED  BY <1>0, <1>1, <2>1, <3>1, EndsInTurn DEF Start
  <2>2. CASE /\ seen' = [seen EXCEPT ![g] = pidFile.text]
             /\ Goto(g, IF Running(pidFile.text) THEN "await" ELSE "unlist")
             /\ causes' = causes \cup Overlooked(g, pidFile.text)
             /\ UNCHANGED <<up, token, suspended>>
    <3>1. InTurn /\ ~\E h \in Gateways \ {g} : Starting(h)
      BY <2>2, <1>c DEF PidKept, Overlooked
    <3>0. ~(pidFile.text \in Unrecognized /\ Alive(pidFile.text))
      BY <2>2 DEF PidKept, Overlooked
    <3>2. \A h \in Gateways \ {g} : ~Starting(h)'
      BY <2>2, <3>1, <1>0 DEF Starting, Alive, Goto, TypeOK
    <3>3. \A h \in up : pc'[g] = "await" /\ seen'[g] = h
      <4> SUFFICES ASSUME NEW h \in up PROVE pc'[g] = "await" /\ seen'[g] = h
        OBVIOUS
      <4>1. pidFile.text = h /\ Running(h)
        BY <3>0, <3>1, <1>b DEF InTurn, Running
      <4> QED  BY <2>2, <4>1, <1>0 DEF Goto, TypeOK
    <3>4. \A h \in Gateways : pc'[h] # "listing"
      BY <2>2, <3>2, <1>a, StartingAt, <1>0 DEF Goto, TypeOK, Starting, Alive, Placed, BeforeUp
    <3>5. (\A a \in Gateways, h \in up : Starting(a) => pc[a] = "await" /\ seen[a] = h)'
      BY <2>2, <3>2, <3>3
    <3>6. UNCHANGED <<pidFile, up>>
      BY <1>1, <2>2 DEF Start
    <3> QED  BY <3>1, <3>2, <3>4, <3>5, <3>6 DEF InTurn
  <2> QED  BY <1>1, <2>1, <2>2 DEF Start
<1>2. ASSUME NEW g \in Gateways, Unlist(g) \/ ClearPid(g) PROVE InTurn'
  <2>1. InTurn
    BY <1>2, <1>c, CausesGrow DEF Unlist, ClearPid
  <2>2. Starting(g) /\ g \notin up /\ up = {}
    BY <1>2, <2>1, <1>0, StartingAt, StartsAlone DEF Unlist, ClearPid
  <2>3. \A h \in Gateways \ {g} : pc[h] # "listing"
    BY <2>1, <2>2, <1>0, StartingAt DEF InTurn
  <2>4. \A h \in Gateways \ {g} : seen'[h] = seen[h]
    BY <1>2, <1>0 DEF Unlist, ClearPid, TypeOK
  <2>5. PICK label \in {"lock", "sweep"} : Goto(g, label) /\ UNCHANGED up /\ pidFile' = NoFile
    BY <1>2 DEF Unlist, ClearPid
  <2> QED  BY <2>1, <2>2, <2>3, <2>4, <2>5, <1>0, RemovedInTurn
<1>3. ASSUME NEW g \in Gateways, KillOld(g) PROVE InTurn'
  <2>1. InTurn
    BY <1>3, <1>c DEF KillOld, PidKept
  <2>2. Starting(g) /\ g \notin up
    BY <1>3, <1>0, StartingAt DEF KillOld
  <2>3. up' = {}
    BY <1>3, <2>1, <2>2 DEF KillOld, InTurn
  <2>4. \A h \in Gateways :
          pc'[h] = IF h = seen[g] THEN "dead" ELSE IF h = g THEN "clear" ELSE pc[h]
    BY <1>3, <1>0 DEF KillOld, TypeOK
  <2>5. \A h \in Gateways : Starting(h)' => Starting(h)
    <3>1. up \subseteq {seen[g]}
      BY <1>0, <2>1, <2>2 DEF InTurn, TypeOK
    <3> QED  BY <2>2, <2>4, <3>1 DEF Starting, Alive
  <2>6. \A h \in Gateways : pc'[h] # "listing"
    <3> SUFFICES ASSUME NEW h \in Gateways, pc[h] = "listing", h # g PROVE FALSE
      BY <2>4
    <3> QED  BY <2>1, <2>2, <1>0, StartingAt DEF InTurn
  <2> QED  BY <2>1, <2>3, <2>5, <2>6 DEF InTurn
<1>4. ASSUME NEW g \in Gateways, OldHasGone(g) PROVE InTurn'
  <2>1. InTurn
    BY <1>4, <1>c DEF OldHasGone, PidKept
  <2>2. Starting(g) /\ g \notin up
    BY <1>4, <1>0, StartingAt DEF OldHasGone
  <2>3. up = {}
    BY <1>4, <1>b, <2>1, <2>2 DEF OldHasGone, InTurn
  <2> QED  BY <1>4, <1>b, <2>1, <2>2, <2>3, MoveInTurn, <1>0 DEF OldHasGone
<1>5. ASSUME NEW g \in Gateways,
             SweepLocks(g) \/ RewriteLock(g) \/ UnlinkStale(g) \/ FillLock(g) \/ Connect(g)
      PROVE  InTurn'
  <2>1. InTurn
    BY <1>5, <1>c, CausesGrow
    DEF SweepLocks, RewriteLock, UnlinkStale, FillLock, Connect, PidKept, Blame
  <2>2. PICK label \in {"lock", "refill", "create", "connect", "run", "list"} :
          Goto(g, label) /\ (label = "run" => g \in up)
    BY <1>5 DEF SweepLocks, RewriteLock, UnlinkStale, FillLock, Connect
  <2>3. Starting(g)' => Starting(g) /\ up = {}
    BY <1>5, <2>1, StartsAlone
    DEF SweepLocks, RewriteLock, UnlinkStale, FillLock, Connect, Starting, Alive
  <2>4. UNCHANGED <<pidFile, up>> /\ \A h \in Gateways \ {g} : seen'[h] = seen[h]
    BY <1>5, <1>0 DEF SweepLocks, RewriteLock, UnlinkStale, FillLock, Connect, TypeOK
  <2> QED  BY <2>1, <2>2, <2>3, <2>4, MoveInTurn, <1>0, <1>b
<1>6. ASSUME NEW g \in Gateways, ReadLock(g) PROVE InTurn'
  <2>1. InTurn
    BY <1>6, <1>c DEF ReadLock, PidKept
  <2>2. CASE Refused(g)
    BY <1>6, <2>1, <2>2, <1>0, EndsInTurn DEF ReadLock
  <2>3. CASE /\ seen' = [seen EXCEPT ![g] = lockFile.text]
             /\ Goto(g, IF lockFile.text = g THEN "rewrite" ELSE "unlink")
             /\ UNCHANGED <<up, token, stopping, suspended>>
    <3>1. Starting(g)' => Starting(g) /\ up = {}
      BY <1>6, <2>1, <2>3, StartsAlone DEF ReadLock, Starting, Alive
    <3>2. \A h \in Gateways \ {g} : seen'[h] = seen[h]
      BY <2>3, <1>0 DEF TypeOK
    <3> QED  BY <1>6, <2>1, <2>3, <3>1, <3>2, MoveInTurn, <1>0, <1>b DEF ReadLock
  <2> QED  BY <1>6, <2>2, <2>3 DEF ReadLock
<1>7. ASSUME NEW g \in Gateways, CreateLock(g) PROVE InTurn'
  <2>1. InTurn
    BY <1>7, <1>c DEF CreateLock, PidKept
  <2>2. CASE Refused(g)
    BY <1>7, <2>1, <2>2, <1>0, EndsInTurn DEF CreateLock
  <2>3. CASE Goto(g, "fill") /\ UNCHANGED <<seen, up, token, stopping, suspended>>
    <3>1. Starting(g)' => Starting(g) /\ up = {}
      BY <1>7, <2>1, <2>3, StartsAlone DEF CreateLock, Starting, Alive
    <3> QED  BY <1>7, <2>1, <2>3, <3>1, MoveInTurn, <1>0, <1>b DEF CreateLock
  <2> QED  BY <1>7, <2>2, <2>3 DEF CreateLock, Create
<1>8. ASSUME NEW g \in Gateways, ConnectFails(g) PROVE InTurn'
  <2>1. InTurn
    BY <1>8, <1>c DEF ConnectFails, PidKept
  <2> QED  BY <1>8, <2>1, <1>0, EndsInTurn DEF ConnectFails
<1>9. ASSUME NEW g \in Gateways, FillFails(g) PROVE InTurn'
  <2>1. InTurn
    BY <1>9, <1>c, CausesGrow DEF FillFails, PidKept, Blame
  <2>2. CASE GivesUp(g)
    BY <1>9, <2>1, <2>2, <1>0, EndsInTurn DEF FillFails
  <2>3. CASE Goto(g, "connect") /\ UNCHANGED <<seen, up, token, stopping, suspended>>
    <3>1. Starting(g)' => Starting(g) /\ up = {}
      BY <1>9, <2>1, <2>3, StartsAlone DEF FillFails, Starting, Alive
    <3> QED  BY <1>9, <2>1, <2>3, <3>1, MoveInTurn, <1>0, <1>b DEF FillFails
  <2> QED  BY <1>9, <2>2, <2>3 DEF FillFails
<1>10. ASSUME NEW g \in Gateways, ListPid(g) PROVE InTurn'
  <2>1. InTurn
    BY <1>10, <1>c DEF ListPid, PidKept
  <2>2. Starting(g) /\ g \notin up /\ up = {}
    BY <1>10, <2>1, <1>0, StartingAt, StartsAlone DEF ListPid
  <2>3. \A h \in Gateways : pc'[h] = IF h = g THEN "listing" ELSE pc[h]
    BY <1>10, <1>0 DEF ListPid, Goto, TypeOK
  <2>4. \A h \in Gateways : Starting(h)' => Starting(h)
    BY <1>10, <2>2, <2>3 DEF ListPid, Starting, Alive
  <2>5. \A h \in Gateways \ {g} : pc'[h] # "listing"
    BY <2>1, <2>2, <2>3, <1>0, StartingAt DEF InTurn
  <2>6. up' = {} /\ pidFile'.text = Blank /\ g \in pidFile'.open
    BY <1>10, <2>2 DEF ListPid, Opened
  <2> QED  BY <2>1, <2>4, <2>5, <2>6 DEF InTurn
<1>11. ASSUME NEW g \in Gateways, FillPid(g) PROVE InTurn'
  <2>1. InTurn
    BY <1>11, <1>c DEF FillPid, PidKept
  <2>2. Starting(g) /\ g \notin up /\ up = {}
    BY <1>11, <2>1, <1>0, StartingAt, StartsAlone DEF FillPid
  <2>3. up' = {g} /\ pidFile'.text = g
    BY <1>11, <2>1, <2>2 DEF FillPid, Written, InTurn
  <2>4. \A h \in Gateways : pc'[h] = IF h = g THEN "run" ELSE pc[h]
    BY <1>11, <1>0 DEF FillPid, Goto, TypeOK
  <2>5. \A h \in Gateways : ~Starting(h)'
    BY <2>1, <2>2, <2>3, <2>4 DEF InTurn, Starting, Alive
  <2>6. \A h \in Gateways : pc'[h] # "listing"
    BY <2>5, <1>a, <2>3, <2>4, <2>1, <2>2, <1>0, StartingAt DEF InTurn
  <2> QED  BY <2>3, <2>5, <2>6 DEF InTurn
<1>12. ASSUME NEW g \in Gateways, Retry(g) \/ Disconnect(g) \/ Stop(g) \/ ReadOwnLock(g) \/ UnlinkOwn(g)
       PROVE  InTurn'
  <2>1. InTurn
    BY <1>12, <1>c, CausesGrow DEF Retry, Disconnect, Stop, ReadOwnLock, UnlinkOwn, PidKept
  <2>2. PICK label \in {"lock", "release", "leave", "unlinkOwn", "run"} : Goto(g, label)
    BY <1>12 DEF Retry, Disconnect, Stop, ReadOwnLock, UnlinkOwn, Released
  <2>3. g \in up /\ UNCHANGED <<pidFile, up, seen>>
    BY <1>12, <1>0 DEF Retry, Disconnect, Stop, ReadOwnLock, UnlinkOwn, Placed, WhileUp
  <2>4. ~Starting(g)'
    BY <2>3 DEF Starting
  <2> QED  BY <2>1, <2>2, <2>3, <2>4, MoveInTurn, <1>0, <1>b
<1>13. ASSUME NEW g \in Gateways, Leave(g) PROVE InTurn'
  <2>1. InTurn
    BY <1>13, <1>c, CausesGrow DEF Leave
  <2>2. g \in up /\ up \subseteq {g}
    BY <1>13, <1>0, <2>1 DEF Leave, Placed, WhileUp, InTurn
  <2>3. \A h \in Gateways : pc[h] # "listing"
    BY <2>1, <2>2, <1>0, StartingAt DEF InTurn
  <2>4. ~Starting(g)'
    BY <1>13, <1>0 DEF Leave, Starting, Goto, TypeOK
  <2> QED  BY <1>13, <2>1, <2>2, <2>3, <2>4, <1>0, RemovedInTurn DEF Leave
<1>14. ASSUME NEW g \in Gateways, Exit(g) PROVE InTurn'
  <2>1. InTurn /\ ~Hits(pidFile, g)
    BY <1>14, <1>c, CausesGrow, NotBlamed DEF Exit
  <2>2. up = {}
    BY <1>14, <1>0, <1>b, <2>1 DEF Exit, Hits, Uses, InTurn, Placed, BeforeUp
  <2>3. \A h \in Gateways \ {g} : pc[h] # "listing"
    BY <2>1 DEF Hits, Uses, InTurn, Alive
  <2>4. ~Starting(g)'
    BY <1>14, <1>0 DEF Exit, Ends, Starting, Alive, Goto, TypeOK
  <2> QED  BY <1>14, <2>1, <2>2, <2>3, <2>4, <1>0, RemovedInTurn DEF Exit, Ends, TypeOK
<1>15. ASSUME NEW g \in Gateways, Crash(g) PROVE InTurn'
  <2>1. InTurn
    BY <1>15, <1>c DEF Crash, PidKept
  <2>2. pidFile'.text = pidFile.text /\ pidFile'.open = pidFile.open \ {g}
    BY <1>15, <1>0 DEF Crash, Closed, TypeOK, FileStates
  <2> QED  BY <1>15, <2>1, <2>2, <1>0, EndsInTurn DEF Crash
<1>16. ASSUME NEW g \in Gateways, Suspend(g) \/ Resume(g) PROVE InTurn'
  <2>1. InTurn
    BY <1>16, <1>c DEF Suspend, Resume, PidKept
  <2> QED  BY <1>16, <2>1, <1>0, StillInTurn DEF Suspend, Resume
<1>17. CASE CliReads \/ UNCHANGED vars
  <2>1. InTurn
    BY <1>17, <1>c DEF CliReads, vars, PidKept
  <2> QED  BY <1>17, <2>1, <1>0, StillInTurn DEF CliReads, vars
<1>18. CASE CliRemoves
  <2>1. InTurn /\ ~\E g \in Gateways : Uses(g, pidFile)
    BY <1>18, <1>c, CausesGrow, NotBlamed DEF CliRemoves
  <2>2. up = {} /\ \A h \in Gateways : pc[h] # "listing"
    BY <1>b, <2>1 DEF Uses, InTurn, Alive
  <2> QED  BY <1>18, <2>1, <2>2, <1>0, StillInTurn DEF CliRemoves
<1> QED
  BY <1>1, <1>2, <1>3, <1>4, <1>5, <1>6, <1>7, <1>8, <1>9, <1>10, <1>11, <1>12, <1>13, <1>14,
     <1>15, <1>16, <1>17, <1>18 DEF Next, Progress

\* At the start nobody runs.
LEMMA InitOneAtATime == Init => OneAtATime
<1> SUFFICES ASSUME Init PROVE OneAtATime
  OBVIOUS
<1>1. up = {} /\ \A g \in Gateways : pc[g] = "off"
  BY DEF Init
<1> QED  BY <1>1, InitTypes DEF OneAtATime, Placed, Guarded, InTurn, WhileUp, Starting, Alive

\* One gateway runs under a home, unless two started together or a live one's PID file
\* was removed: start_gateway, remove_pid_file and the command line's stop.
THEOREM OneGateway == Spec => []OneInstance
<1>1. OneAtATime /\ [Next]_vars => OneAtATime'
  BY NextTypes, NextPlaced, NextGuarded DEF OneAtATime
<1>2. OneAtATime => OneInstance
  BY DEF OneAtATime, Guarded, InTurn, PidKept, OneInstance
<1> QED  BY <1>1, <1>2, InitOneAtATime, PTL DEF Spec

-----------------------------------------------------------------------------
(* One user of the token                                                   *)

\* What was read still holds after a step of one process that is not dead.
LEMMA MoveRead ==
  ASSUME TypeOK, Read, NEW g \in Gateways, NEW label, Goto(g, label),
         label # "off", pc[g] # "dead",
         \A h \in Gateways \ {g} : token'[h] = token[h] /\ seen'[h] = seen[h],
         token'[g] = "using" => label \in {"list", "listing", "run"},
         suspended' \subseteq suspended, faults \subseteq faults',
         lockFile'.text \in {lockFile.text, Missing, Blank, g},
         label = "rewrite" => seen'[g] = g,
         label = "unlink" /\ seen'[g] \in Gateways =>
           pc[seen'[g]] = "dead" \/ <<"suspend", seen'[g]>> \in faults
  PROVE  Read'
<1>1. \A h \in Gateways : pc'[h] = IF h = g THEN label ELSE pc[h]
  BY DEF Goto, TypeOK
<1>2. (\A h \in Gateways : token[h] = "using" => pc[h] \in {"list", "listing", "run"})'
  BY <1>1 DEF Read
<1>3. (\A h \in suspended : <<"suspend", h>> \in faults)'
  BY DEF Read
<1>4. (lockFile.text \in Gateways => pc[lockFile.text] # "off")'
  BY <1>1, InstancesAssumption DEF Read
<1>5. (\A h \in Gateways : pc[h] = "rewrite" => seen[h] = h)'
  BY <1>1 DEF Read
<1>6. (\A h \in Gateways : pc[h] = "unlink" /\ seen[h] \in Gateways =>
         pc[seen[h]] = "dead" \/ <<"suspend", seen[h]>> \in faults)'
  BY <1>1 DEF Read
<1> QED  BY <1>2, <1>3, <1>4, <1>5, <1>6 DEF Read

\* So it does after an end, a refusal or a failed attempt.
LEMMA EndsRead ==
  ASSUME TypeOK, Read, NEW g \in Gateways, Ends(g) \/ Refused(g) \/ GivesUp(g),
         pc[g] # "dead", faults \subseteq faults',
         lockFile'.text \in {lockFile.text, Missing}
  PROVE  Read'
<1>1. PICK label \in {"dead", "run", "list"} : Goto(g, label)
  BY DEF Ends, Refused, GivesUp
<1>2. /\ \A h \in Gateways \ {g} : token'[h] = token[h] /\ seen'[h] = seen[h]
      /\ token'[g] # "using" /\ suspended' \subseteq suspended
  BY DEF Ends, Refused, GivesUp, TypeOK
<1> QED  BY <1>1, <1>2, MoveRead

\* Every step keeps what was read: a reader goes on from a record to what it may do with it.
LEMMA NextRead == TypeOK /\ Read /\ [Next]_vars => Read'
<1> SUFFICES ASSUME TypeOK, Read, [Next]_vars PROVE Read'
  OBVIOUS
<1>1. ASSUME NEW g \in Gateways, Start(g) PROVE Read'
  <2>1. pc[g] = "off" /\ UNCHANGED <<lockFile, faults>>
    BY <1>1 DEF Start
  <2>2. CASE Ends(g)
    BY <2>1, <2>2, EndsRead
  <2>3. CASE /\ seen' = [seen EXCEPT ![g] = pidFile.text]
             /\ Goto(g, IF Running(pidFile.text) THEN "await" ELSE "unlist")
             /\ UNCHANGED <<up, token, suspended>>
    <3>1. token'[g] # "using" /\ \A h \in Gateways \ {g} : seen'[h] = seen[h]
      BY <2>1, <2>3 DEF Read, TypeOK
    <3> QED  BY <2>1, <2>3, <3>1, MoveRead
  <2> QED  BY <1>1, <2>2, <2>3 DEF Start
<1>2. ASSUME NEW g \in Gateways,
             \/ Unlist(g) \/ ClearPid(g) \/ SweepLocks(g) \/ OldHasGone(g) \/ RewriteLock(g)
             \/ UnlinkStale(g) \/ FillLock(g)
      PROVE  Read'
  <2>1. PICK label \in {"lock", "sweep", "clear", "refill", "create", "connect"} : Goto(g, label)
    BY <1>2 DEF Unlist, ClearPid, SweepLocks, OldHasGone, RewriteLock, UnlinkStale, FillLock
  <2>2. /\ pc[g] \in {"unlist", "clear", "sweep", "await", "rewrite", "unlink", "fill", "refill"}
        /\ UNCHANGED <<token, suspended, faults>>
    BY <1>2 DEF Unlist, ClearPid, SweepLocks, OldHasGone, RewriteLock, UnlinkStale, FillLock
  <2>3. token'[g] # "using"
    BY <2>2 DEF Read
  <2>4. lockFile'.text \in {lockFile.text, Missing, Blank, g}
    <3>1. lockFile' \in {lockFile, NoFile, Opened(lockFile, g), Written(lockFile, g)}
      BY <1>2 DEF Unlist, ClearPid, SweepLocks, OldHasGone, RewriteLock, UnlinkStale, FillLock
    <3> QED  BY <3>1 DEF NoFile, Opened, Written
  <2>5. \A h \in Gateways \ {g} : seen'[h] = seen[h]
    BY <1>2
    DEF Unlist, ClearPid, SweepLocks, OldHasGone, RewriteLock, UnlinkStale, FillLock, TypeOK
  <2> QED  BY <2>1, <2>2, <2>3, <2>4, <2>5, MoveRead
<1>3. ASSUME NEW g \in Gateways, KillOld(g) PROVE Read'
  <2>1. pc[g] = "await"
    BY <1>3 DEF KillOld
  <2>2. \A h \in Gateways :
          pc'[h] = IF h = seen[g] THEN "dead" ELSE IF h = g THEN "clear" ELSE pc[h]
    BY <1>3 DEF KillOld, TypeOK
  <2>3. \A h \in Gateways :
          /\ token'[h] = IF h = seen[g] THEN "none" ELSE token[h]
          /\ seen'[h] = IF h = seen[g] THEN Missing ELSE seen[h]
    BY <1>3 DEF KillOld, TypeOK
  <2>4. suspended' \subseteq suspended /\ UNCHANGED faults
    BY <1>3 DEF KillOld
  <2>5. lockFile'.text = lockFile.text
    BY <1>3 DEF KillOld, Closed, TypeOK, FileStates
  <2>6. (\A h \in Gateways : token[h] = "using" => pc[h] \in {"list", "listing", "run"})'
    BY <2>1, <2>2, <2>3 DEF Read
  <2>7. (lockFile.text \in Gateways => pc[lockFile.text] # "off")'
    BY <2>2, <2>5 DEF Read
  <2>8. (\A h \in Gateways : pc[h] = "rewrite" => seen[h] = h)'
    BY <2>2, <2>3 DEF Read
  <2>9. (\A h \in Gateways : pc[h] = "unlink" /\ seen[h] \in Gateways =>
           pc[seen[h]] = "dead" \/ <<"suspend", seen[h]>> \in faults)'
    BY <2>1, <2>2, <2>3, <2>4 DEF Read
  <2> QED  BY <2>4, <2>6, <2>7, <2>8, <2>9 DEF Read
<1>4. ASSUME NEW g \in Gateways, ReadLock(g) PROVE Read'
  <2>1. pc[g] = "lock" /\ UNCHANGED <<lockFile, faults>>
    BY <1>4 DEF ReadLock
  <2>2. CASE Refused(g)
    BY <2>1, <2>2, EndsRead
  <2>3. CASE /\ lockFile.text = g \/ Stale(g, lockFile.text)
             /\ seen' = [seen EXCEPT ![g] = lockFile.text]
             /\ Goto(g, IF lockFile.text = g THEN "rewrite" ELSE "unlink")
             /\ UNCHANGED <<up, token, stopping, suspended>>
    <3>1. /\ token'[g] # "using" /\ seen'[g] = lockFile.text
          /\ \A h \in Gateways \ {g} : seen'[h] = seen[h]
      BY <2>1, <2>3 DEF Read, TypeOK
    <3>2. lockFile.text # g /\ lockFile.text \in Gateways =>
            pc[lockFile.text] = "dead" \/ <<"suspend", lockFile.text>> \in faults
      BY <2>3, InstancesAssumption DEF Stale, OwnerGone, Alive, Read
    <3> QED  BY <2>1, <2>3, <3>1, <3>2, MoveRead
  <2> QED  BY <1>4, <2>2, <2>3 DEF ReadLock
<1>5. ASSUME NEW g \in Gateways, CreateLock(g) PROVE Read'
  <2>1. pc[g] = "create" /\ UNCHANGED faults /\ token[g] # "using"
    BY <1>5 DEF CreateLock, Read
  <2>2. CASE Refused(g) /\ UNCHANGED lockFile
    BY <2>1, <2>2, EndsRead
  <2>3. CASE /\ lockFile' = Opened(lockFile, g) /\ Goto(g, "fill")
             /\ UNCHANGED <<seen, up, token, stopping, suspended>>
    <3>1. lockFile'.text = Blank
      BY <2>3 DEF Opened
    <3> QED  BY <2>1, <2>3, <3>1, MoveRead
  <2> QED  BY <1>5, <2>2, <2>3 DEF CreateLock, Create
<1>6. ASSUME NEW g \in Gateways, Connect(g) PROVE Read'
  <2>1. \A h \in Gateways \ {g} : token'[h] = token[h]
    BY <1>6 DEF Connect, TypeOK
  <2> QED  BY <1>6, <2>1, MoveRead DEF Connect
<1>7. ASSUME NEW g \in Gateways, ConnectFails(g) PROVE Read'
  BY <1>7, EndsRead DEF ConnectFails, Fail
<1>8. ASSUME NEW g \in Gateways, FillFails(g) PROVE Read'
  <2>1. pc[g] \in {"fill", "refill"} /\ faults \subseteq faults' /\ token[g] # "using"
    BY <1>8 DEF FillFails, Fail, Read
  <2>2. lockFile'.text \in {lockFile.text, Missing}
    BY <1>8 DEF FillFails, NoFile, Closed, TypeOK, FileStates
  <2>3. CASE GivesUp(g)
    BY <2>1, <2>2, <2>3, EndsRead
  <2>4. CASE Goto(g, "connect") /\ UNCHANGED <<seen, up, token, stopping, suspended>>
    BY <2>1, <2>2, <2>4, MoveRead
  <2> QED  BY <1>8, <2>3, <2>4 DEF FillFails
<1>9. ASSUME NEW g \in Gateways, ListPid(g) \/ FillPid(g) PROVE Read'
  <2>1. PICK label \in {"listing", "run"} : Goto(g, label)
    BY <1>9 DEF ListPid, FillPid
  <2>2. pc[g] # "dead" /\ UNCHANGED <<lockFile, seen, token, suspended, faults>>
    BY <1>9 DEF ListPid, FillPid
  <2> QED  BY <2>1, <2>2, MoveRead
<1>10. ASSUME NEW g \in Gateways, Retry(g) \/ Stop(g) \/ ReadOwnLock(g) \/ UnlinkOwn(g) \/ Leave(g)
       PROVE  Read'
  <2>1. PICK label \in {"lock", "leave", "unlinkOwn", "run", "exit"} : Goto(g, label)
    BY <1>10 DEF Retry, Stop, ReadOwnLock, UnlinkOwn, Released, Leave
  <2>2. /\ pc[g] \in {"run", "connect", "release", "unlinkOwn", "leave"}
        /\ UNCHANGED <<seen, token, suspended, faults>>
    BY <1>10 DEF Retry, Stop, ReadOwnLock, UnlinkOwn, Leave
  <2>3. token'[g] # "using"
    BY <1>10, <2>2 DEF Retry, Stop, ReadOwnLock, UnlinkOwn, Leave, Read
  <2>4. lockFile'.text \in {lockFile.text, Missing}
    BY <1>10 DEF Retry, Stop, ReadOwnLock, UnlinkOwn, Leave, NoFile
  <2> QED  BY <2>1, <2>2, <2>3, <2>4, MoveRead
<1>11. ASSUME NEW g \in Gateways, Disconnect(g) PROVE Read'
  <2>1. token'[g] # "using" /\ \A h \in Gateways \ {g} : token'[h] = token[h]
    BY <1>11 DEF Disconnect, TypeOK
  <2>2. faults \subseteq faults'
    BY <1>11 DEF Disconnect, Fail
  <2> QED  BY <1>11, <2>1, <2>2, MoveRead DEF Disconnect
<1>12. ASSUME NEW g \in Gateways, Exit(g) PROVE Read'
  BY <1>12, EndsRead DEF Exit
<1>13. ASSUME NEW g \in Gateways, Crash(g) PROVE Read'
  <2>1. lockFile'.text = lockFile.text
    BY <1>13 DEF Crash, Closed, TypeOK, FileStates
  <2> QED  BY <1>13, <2>1, EndsRead DEF Crash, Fail, Alive
<1>14. ASSUME NEW g \in Gateways, Suspend(g) PROVE Read'
  BY <1>14 DEF Suspend, Fail, Read
<1>15. ASSUME NEW g \in Gateways, Resume(g) PROVE Read'
  BY <1>15 DEF Resume, Read
<1>16. CASE CliReads \/ CliRemoves \/ UNCHANGED vars
  BY <1>16 DEF CliReads, CliRemoves, vars, Read
<1> QED
  BY <1>1, <1>2, <1>3, <1>4, <1>5, <1>6, <1>7, <1>8, <1>9, <1>10, <1>11, <1>12, <1>13, <1>14,
     <1>15, <1>16 DEF Next, Progress

\* A process that writes the lock, connects or uses the token.
Claims(g) == pc[g] = "connect" \/ token[g] = "using" \/ Filling(g)

\* Its claim is in the file, so taking the file from it is seen.
LEMMA ClaimUses ==
  ASSUME Read, Owned, NEW g \in Gateways, Claims(g)
  PROVE  Uses(g, lockFile) /\ lockFile.text \in {g, Blank}
  BY DEF Read, Owned, Claims, Filling, Uses, Alive

\* The lock stays with its owners when one process moves that claims nothing new.
LEMMA MoveOwned ==
  ASSUME TypeOK, Owned, NEW g \in Gateways, NEW label, Goto(g, label),
         label \notin {"connect", "fill", "refill"},
         \A h \in Gateways \ {g} : token'[h] = token[h],
         token'[g] = "using" => token[g] = "using" \/ pc[g] = "connect",
         lockFile'.text = lockFile.text, lockFile.open \ {g} \subseteq lockFile'.open
  PROVE  Owned'
<1>1. \A h \in Gateways : pc'[h] = IF h = g THEN label ELSE pc[h]
  BY DEF Goto, TypeOK
<1> QED  BY <1>1 DEF Owned, Filling

\* So it does when one ends, is refused or gives up.
LEMMA EndsOwned ==
  ASSUME TypeOK, Owned, NEW g \in Gateways, Ends(g) \/ Refused(g) \/ GivesUp(g),
         lockFile'.text = lockFile.text, lockFile.open \ {g} \subseteq lockFile'.open
  PROVE  Owned'
<1>1. PICK label \in {"dead", "run", "list"} : Goto(g, label)
  BY DEF Ends, Refused, GivesUp
<1>2. token'[g] # "using" /\ \A h \in Gateways \ {g} : token'[h] = token[h]
  BY DEF Ends, Refused, GivesUp, TypeOK
<1> QED  BY <1>1, <1>2, MoveOwned

\* A lock that nobody else claims may be unlinked, or opened by who will write it.
LEMMA TakeOwned ==
  ASSUME TypeOK, NEW g \in Gateways, NEW label, Goto(g, label),
         \A h \in Gateways \ {g} : ~Claims(h),
         \A h \in Gateways \ {g} : token'[h] = token[h], token'[g] # "using",
         label # "connect",
         label \in {"fill", "refill"} => lockFile' = Opened(lockFile, g)
  PROVE  Owned'
<1>1. \A h \in Gateways : pc'[h] = IF h = g THEN label ELSE pc[h]
  BY DEF Goto, TypeOK
<1>2. label \in {"fill", "refill"} => lockFile'.text = Blank /\ g \in lockFile'.open
  BY DEF Opened
<1> QED  BY <1>1, <1>2 DEF Owned, Claims, Filling

\* The lock stays with its owners while no process moves.
LEMMA StillOwned ==
  ASSUME Owned, UNCHANGED <<pc, token, lockFile>>
  PROVE  Owned'
  BY DEF Owned, Filling

\* Every step keeps the lock with its owners, while nobody's is taken.
LEMMA NextLocked == OwnersHaveLocks /\ [Next]_vars => Locked'
<1> SUFFICES ASSUME OwnersHaveLocks, [Next]_vars, LockKept' PROVE Owned'
  BY DEF Locked
<1>0. TypeOK /\ Read
  BY DEF OwnersHaveLocks
<1>c. LockKept => Owned
  BY DEF OwnersHaveLocks, Locked
<1>d. ASSUME Owned, NEW g \in Gateways, ~Hits(lockFile, g)
      PROVE  \A h \in Gateways \ {g} : ~Claims(h)
  BY <1>0, <1>d, ClaimUses DEF Hits
<1>1. ASSUME NEW g \in Gateways, Start(g) PROVE Owned'
  <2>1. Owned /\ UNCHANGED lockFile
    BY <1>1, <1>c DEF Start, Overlooked, LockKept
  <2>2. CASE Ends(g)
    BY <2>1, <2>2, <1>0, EndsOwned
  <2>3. CASE Goto(g, IF Running(pidFile.text) THEN "await" ELSE "unlist") /\ UNCHANGED token
    BY <2>1, <2>3, <1>0, MoveOwned
  <2> QED  BY <1>1, <2>2, <2>3 DEF Start
<1>2. ASSUME NEW g \in Gateways,
             \/ Unlist(g) \/ ClearPid(g) \/ OldHasGone(g) \/ ListPid(g) \/ FillPid(g) \/ Retry(g)
             \/ Stop(g) \/ ReadOwnLock(g) \/ Leave(g)
      PROVE  Owned'
  <2>1. PICK label \in {"lock", "sweep", "clear", "listing", "run", "leave", "unlinkOwn", "exit"} :
          Goto(g, label)
    BY <1>2
    DEF Unlist, ClearPid, OldHasGone, ListPid, FillPid, Retry, Stop, ReadOwnLock, Released, Leave
  <2>2. UNCHANGED <<lockFile, token>>
    BY <1>2 DEF Unlist, ClearPid, OldHasGone, ListPid, FillPid, Retry, Stop, ReadOwnLock, Leave
  <2>3. Owned
    BY <1>2, <1>c, CausesGrow
    DEF Unlist, ClearPid, OldHasGone, ListPid, FillPid, Retry, Stop, ReadOwnLock, Leave
  <2> QED  BY <2>1, <2>2, <2>3, <1>0, MoveOwned
<1>3. ASSUME NEW g \in Gateways, KillOld(g) PROVE Owned'
  <2>1. Owned
    BY <1>3, <1>c DEF KillOld, LockKept
  <2>2. \A h \in Gateways :
          pc'[h] = IF h = seen[g] THEN "dead" ELSE IF h = g THEN "clear" ELSE pc[h]
    BY <1>3, <1>0 DEF KillOld, TypeOK
  <2>3. \A h \in Gateways : token'[h] = IF h = seen[g] THEN "none" ELSE token[h]
    BY <1>3, <1>0 DEF KillOld, TypeOK
  <2>4. lockFile'.text = lockFile.text /\ lockFile'.open = lockFile.open \ {seen[g]}
    BY <1>3, <1>0 DEF KillOld, Closed, TypeOK, FileStates
  <2> QED  BY <2>1, <2>2, <2>3, <2>4 DEF Owned, Filling
<1>4. ASSUME NEW g \in Gateways, SweepLocks(g) PROVE Owned'
  <2>1. Owned /\ ~Hits(lockFile, g)
    BY <1>4, <1>c, CausesGrow, NotBlamed DEF SweepLocks
  <2>2. token'[g] # "using"
    BY <1>4, <1>0 DEF SweepLocks, Read
  <2> QED  BY <1>4, <2>1, <2>2, <1>0, <1>d, TakeOwned DEF SweepLocks
<1>5. ASSUME NEW g \in Gateways, ReadLock(g) PROVE Owned'
  <2>1. Owned /\ UNCHANGED lockFile
    BY <1>5, <1>c DEF ReadLock, LockKept
  <2>2. CASE Refused(g)
    BY <2>1, <2>2, <1>0, EndsOwned
  <2>3. CASE Goto(g, IF lockFile.text = g THEN "rewrite" ELSE "unlink") /\ UNCHANGED token
    BY <2>1, <2>3, <1>0, MoveOwned
  <2> QED  BY <1>5, <2>2, <2>3 DEF ReadLock
<1>6. ASSUME NEW g \in Gateways, RewriteLock(g) PROVE Owned'
  <2>1. Owned /\ ~Misses(lockFile, g)
    BY <1>6, <1>c, CausesGrow, NotBlamed DEF RewriteLock
  <2>2. seen[g] = g /\ token'[g] # "using"
    BY <1>6, <1>0 DEF RewriteLock, Read
  <2>3. \A h \in Gateways \ {g} : ~Claims(h)
    BY <2>1, <2>2, <1>0, <1>d, ClaimUses DEF Misses
  <2> QED  BY <1>6, <2>2, <2>3, <1>0, TakeOwned DEF RewriteLock
<1>7. ASSUME NEW g \in Gateways, UnlinkStale(g) PROVE Owned'
  <2>1. Owned
    BY <1>7, <1>c, CausesGrow DEF UnlinkStale
  <2>2. ~Misses(lockFile, g)
    BY <1>7, NotBlamed DEF UnlinkStale
  <2>3. ~(Hits(lockFile, g) /\ <<"suspend", lockFile.text>> \in faults)
    BY <1>7, <2>2, NotBlamed DEF UnlinkStale
  <2>4. token'[g] # "using"
    BY <1>7, <1>0 DEF UnlinkStale, Read
  <2>5. ASSUME NEW h \in Gateways \ {g}, Claims(h) PROVE FALSE
    <3>1. Hits(lockFile, g) /\ lockFile.text = seen[g] /\ lockFile.text = h /\ Alive(h)
      BY <2>1, <2>2, <2>5, <1>0, <1>d, ClaimUses DEF Misses, Uses
    <3>2. pc[h] = "dead" \/ <<"suspend", h>> \in faults
      BY <1>7, <3>1, <1>0 DEF UnlinkStale, Read
    <3> QED  BY <2>3, <3>1, <3>2 DEF Alive
  <2> QED  BY <1>7, <2>4, <2>5, <1>0, TakeOwned DEF UnlinkStale
<1>8. ASSUME NEW g \in Gateways, CreateLock(g) PROVE Owned'
  <2>1. Owned /\ token[g] # "using"
    BY <1>8, <1>0, <1>c DEF CreateLock, LockKept, Read
  <2>2. CASE Refused(g) /\ UNCHANGED lockFile
    BY <2>1, <2>2, <1>0, EndsOwned
  <2>3. CASE /\ lockFile.text = Missing /\ lockFile' = Opened(lockFile, g) /\ Goto(g, "fill")
             /\ UNCHANGED <<seen, up, token, stopping, suspended>>
    <3>1. \A h \in Gateways : ~Claims(h)
      BY <2>1, <2>3, <1>0, ClaimUses, InstancesAssumption
    <3> QED  BY <2>1, <2>3, <3>1, <1>0, TakeOwned
  <2> QED  BY <1>8, <2>2, <2>3 DEF CreateLock, Create
<1>9. ASSUME NEW g \in Gateways, FillLock(g) PROVE Owned'
  <2>1. Owned
    BY <1>9, <1>c DEF FillLock, LockKept
  <2>2. lockFile.text = Blank /\ lockFile'.text = g /\ UNCHANGED token
    BY <1>9, <2>1 DEF FillLock, Owned, Filling, Written
  <2>3. \A h \in Gateways \ {g} : ~Claims(h)
    BY <1>9, <2>1, <2>2, InstancesAssumption DEF FillLock, Owned, Filling, Claims
  <2>4. \A h \in Gateways : pc'[h] = IF h = g THEN "connect" ELSE pc[h]
    BY <1>9, <1>0 DEF FillLock, Goto, TypeOK
  <2> QED  BY <2>2, <2>3, <2>4 DEF Owned, Filling, Claims
<1>10. ASSUME NEW g \in Gateways, Connect(g) PROVE Owned'
  <2>1. Owned
    BY <1>10, <1>c DEF Connect, LockKept
  <2>2. \A h \in Gateways \ {g} : token'[h] = token[h]
    BY <1>10, <1>0 DEF Connect, TypeOK
  <2> QED  BY <1>10, <2>1, <2>2, <1>0, MoveOwned DEF Connect
<1>11. ASSUME NEW g \in Gateways, ConnectFails(g) PROVE Owned'
  <2>1. Owned
    BY <1>11, <1>c DEF ConnectFails, LockKept
  <2> QED  BY <1>11, <2>1, <1>0, EndsOwned DEF ConnectFails
<1>12. ASSUME NEW g \in Gateways, FillFails(g) PROVE Owned'
  <2>1. Blame("raced", pc[g] = "fill" /\ Hits(lockFile, g)) /\ GivesUp(g)
    BY <1>12 DEF FillFails, LockKept
  <2>2. Owned /\ ~(pc[g] = "fill" /\ Hits(lockFile, g))
    BY <2>1, <1>c, CausesGrow, NotBlamed
  <2>3. CASE pc[g] = "fill"
    <3>1. PICK label \in {"dead", "run", "list"} : Goto(g, label)
      BY <2>1 DEF GivesUp, Ends
    <3>2. token'[g] # "using" /\ \A h \in Gateways \ {g} : token'[h] = token[h]
      BY <2>1, <1>0 DEF GivesUp, Ends, TypeOK
    <3> QED  BY <2>2, <2>3, <3>1, <3>2, <1>0, <1>d, TakeOwned
  <2>4. CASE pc[g] # "fill"
    <3>1. lockFile' = Closed(lockFile, g)
      BY <1>12, <2>4 DEF FillFails
    <3>2. lockFile'.text = lockFile.text /\ lockFile'.open = lockFile.open \ {g}
      BY <3>1, <1>0 DEF Closed, TypeOK, FileStates
    <3> QED  BY <2>1, <2>2, <3>2, <1>0, EndsOwned
  <2> QED  BY <2>3, <2>4
<1>13. ASSUME NEW g \in Gateways, Disconnect(g) PROVE Owned'
  <2>1. Owned
    BY <1>13, <1>c DEF Disconnect, LockKept
  <2>2. token'[g] # "using" /\ \A h \in Gateways \ {g} : token'[h] = token[h]
    BY <1>13, <1>0 DEF Disconnect, TypeOK
  <2> QED  BY <1>13, <2>1, <2>2, <1>0, MoveOwned DEF Disconnect
<1>14. ASSUME NEW g \in Gateways, UnlinkOwn(g) PROVE Owned'
  <2>1. Owned /\ ~Hits(lockFile, g)
    BY <1>14, <1>c, CausesGrow, NotBlamed DEF UnlinkOwn
  <2>2. token'[g] # "using"
    BY <1>14, <1>0 DEF UnlinkOwn, Read
  <2> QED  BY <1>14, <2>1, <2>2, <1>0, <1>d, TakeOwned DEF UnlinkOwn, Released
<1>15. ASSUME NEW g \in Gateways, Exit(g) PROVE Owned'
  <2>1. Owned
    BY <1>15, <1>c, CausesGrow DEF Exit
  <2> QED  BY <1>15, <2>1, <1>0, EndsOwned DEF Exit
<1>16. ASSUME NEW g \in Gateways, Crash(g) PROVE Owned'
  <2>1. Owned
    BY <1>16, <1>c DEF Crash, LockKept
  <2>2. lockFile'.text = lockFile.text /\ lockFile'.open = lockFile.open \ {g}
    BY <1>16, <1>0 DEF Crash, Closed, TypeOK, FileStates
  <2> QED  BY <1>16, <2>1, <2>2, <1>0, EndsOwned DEF Crash
<1>17. ASSUME NEW g \in Gateways, Suspend(g) \/ Resume(g) PROVE Owned'
  <2>1. Owned
    BY <1>17, <1>c DEF Suspend, Resume, LockKept
  <2> QED  BY <1>17, <2>1, StillOwned DEF Suspend, Resume
<1>18. CASE CliReads \/ CliRemoves \/ UNCHANGED vars
  <2>1. Owned
    BY <1>18, <1>c, CausesGrow DEF CliReads, CliRemoves, vars
  <2> QED  BY <1>18, <2>1, StillOwned DEF CliReads, CliRemoves, vars
<1> QED
  BY <1>1, <1>2, <1>3, <1>4, <1>5, <1>6, <1>7, <1>8, <1>9, <1>10, <1>11, <1>12, <1>13, <1>14,
     <1>15, <1>16, <1>17, <1>18 DEF Next, Progress

\* At the start nobody has a lock.
LEMMA InitOwnersHaveLocks == Init => OwnersHaveLocks
<1> SUFFICES ASSUME Init PROVE OwnersHaveLocks
  OBVIOUS
<1>1. /\ \A g \in Gateways : pc[g] = "off" /\ token[g] = "none"
      /\ suspended = {} /\ lockFile.text \notin Gateways
  BY InstancesAssumption DEF Init, NoFile
<1> QED  BY <1>1, InitTypes DEF OwnersHaveLocks, Read, Locked, Owned, Filling

\* Two gateways use one token at once only after one went without a lock, or a live one's
\* lock was taken in one of the ways acquire_scoped_lock, release_scoped_lock and
\* release_all_scoped_locks have.
THEOREM OneUser == Spec => []TokenExclusive
<1>1. OwnersHaveLocks /\ [Next]_vars => OwnersHaveLocks'
  BY NextTypes, NextRead, NextLocked DEF OwnersHaveLocks
<1>2. OwnersHaveLocks => TokenExclusive
  BY DEF OwnersHaveLocks, Locked, Owned, LockKept, TokenExclusive
<1> QED  BY <1>1, <1>2, InitOwnersHaveLocks, PTL DEF Spec
=============================================================================
