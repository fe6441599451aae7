------------------------ MODULE ProcessRegistryProofs ------------------------
(***************************************************************************)
(* Proofs about ProcessRegistry, for any number of processes, kills,       *)
(* restarts and other upsets: its type invariant, that the end of a        *)
(* process is announced at most once, and that ended sessions are moved.   *)
(***************************************************************************)
EXTENDS ProcessRegistry, TLAPS

-----------------------------------------------------------------------------
(* Types                                                                   *)

\* The checkpoint that is collected, and the one without processes.
LEMMA CheckpointType == TypeOK => Snapshot \in Checkpoints /\ NoFile \in Checkpoints
  BY DEF TypeOK, Snapshot, NoFile, Checkpoints

\* A thread at rest.
LEMMA OffType == Off \in ThreadRecords
  BY DEF Off, NoFile, Labels, Checkpoints, ThreadRecords

\* A thread that goes on to a label, with or without another checkpoint in hand.
LEMMA RelabelType ==
  ASSUME NEW t \in ThreadRecords, NEW label \in Labels, NEW snap \in Checkpoints
  PROVE  [t EXCEPT !.pc = label] \in ThreadRecords
         /\ [t EXCEPT !.pc = label, !.snap = snap] \in ThreadRecords
  BY DEF ThreadRecords

\* What a thread has in hand after it moved a session.
LEMMA MovedType ==
  ASSUME NEW p \in Procs
  PROVE  [Off EXCEPT !.pc = "save", !.was = p \in running] \in ThreadRecords
<1>1. \A b \in BOOLEAN : [Off EXCEPT !.pc = "save", !.was = b] \in ThreadRecords
  <2>1. NoFile \in Checkpoints
    BY DEF NoFile, Checkpoints
  <2> QED  BY <2>1 DEF Off, ThreadRecords, Labels
<1>2. CASE p \in running
  <2>1. [Off EXCEPT !.pc = "save", !.was = p \in running]
          = [Off EXCEPT !.pc = "save", !.was = TRUE]
    BY <1>2, Zenon
  <2> QED  BY <1>1, <2>1
<1>3. CASE p \notin running
  <2> DEFINE found == p \in running
  <2>1. found = FALSE
    BY <1>3
  <2> HIDE DEF found
  <2>2. [Off EXCEPT !.pc = "save", !.was = found] \in ThreadRecords
    BY <1>1, <2>1
  <2> QED  BY <2>2 DEF found
<1> QED  BY <1>2, <1>3

\* A change of one thread.
LEMMA OneThread ==
  ASSUME TypeOK, NEW role \in Roles, NEW p \in Procs, NEW t \in ThreadRecords
  PROVE  [thread EXCEPT ![<<role, p>>] = t] \in [Threads -> ThreadRecords]
         /\ thread[<<role, p>>] \in ThreadRecords
  BY DEF TypeOK, Threads

\* Moving a thread to a label, or stopping it, keeps the threads' type.
LEMMA GotoType ==
  ASSUME TypeOK, NEW role \in Roles, NEW p \in Procs, NEW label \in Labels,
         Goto(role, p, label) \/ Stop(role, p)
  PROVE  thread' \in [Threads -> ThreadRecords]
<1>1. thread[<<role, p>>] \in ThreadRecords
  BY OneThread, OffType
<1>2. CASE Goto(role, p, label)
  <2> DEFINE t == [thread[<<role, p>>] EXCEPT !.pc = label]
  <2>1. t \in ThreadRecords
    BY <1>1, CheckpointType, RelabelType
  <2>2. thread' = [thread EXCEPT ![<<role, p>>] = t]
    BY <1>2 DEF Goto
  <2> QED  BY <2>1, <2>2, OneThread
<1>3. CASE Stop(role, p)
  BY <1>3, OffType, OneThread DEF Stop
<1> QED  BY <1>2, <1>3

\* The initial state has its types.
LEMMA InitTypes == Init => TypeOK
  BY OffType, RegistryAssumption DEF Init, TypeOK, NoFile, Checkpoints

\* Every step keeps the types.
LEMMA NextTypes == TypeOK /\ [Next]_vars => TypeOK'
<1> SUFFICES ASSUME TypeOK, [Next]_vars PROVE TypeOK'
  OBVIOUS
<1> USE RegistryAssumption DEF memory
<1>1. ASSUME NEW p \in Procs, Spawn(p) PROVE TypeOK'
  <2>1. thread' \in [Threads -> ThreadRecords]
    <3> DEFINE s == [thread[<<"spawner", p>>] EXCEPT !.pc = "register"]
               r == [thread[<<"reader", p>>] EXCEPT !.pc = "read"]
    <3>1. s \in ThreadRecords /\ r \in ThreadRecords
      BY OneThread, OffType, RelabelType, CheckpointType DEF Roles, Labels
    <3>2. thread' = [thread EXCEPT ![<<"spawner", p>>] = s, ![<<"reader", p>>] = r]
      BY <1>1 DEF Spawn
    <3> HIDE DEF s, r
    <3> QED  BY <3>1, <3>2 DEF TypeOK
  <2> QED  BY <1>1, <2>1 DEF Spawn, TypeOK
<1>2. ASSUME NEW p \in Procs, SpawnFails(p) PROVE TypeOK'
  <2>1. thread' \in [Threads -> ThreadRecords]
    BY <1>2, GotoType DEF SpawnFails, Roles, Labels
  <2> QED  BY <1>2, <2>1 DEF SpawnFails, TypeOK, Upset
<1>3. ASSUME NEW p \in Procs, Register(p) PROVE TypeOK'
  <2>1. thread' \in [Threads -> ThreadRecords]
    BY <1>3, GotoType DEF Register, Roles, Labels
  <2>2. finished' \subseteq finished
    BY <1>3 DEF Register, Pruned
  <2> QED  BY <1>3, <2>1, <2>2 DEF Register, TypeOK
<1>4. ASSUME NEW p \in Procs, AskForNotice(p) PROVE TypeOK'
  <2>1. thread' \in [Threads -> ThreadRecords]
    BY <1>4, GotoType DEF AskForNotice, Roles, Labels
  <2> QED  BY <1>4, <2>1 DEF AskForNotice, TypeOK
<1>5. ASSUME NEW p \in Procs, ProcessEnds(p) PROVE TypeOK'
  BY <1>5 DEF ProcessEnds, TypeOK
<1>6. ASSUME NEW p \in Procs, ReaderEnds(p) \/ ReaderGivesUp(p) \/ KillMarks(p) \/ Refresh(p)
      PROVE  TypeOK'
  <2>1. thread' \in [Threads -> ThreadRecords]
    BY <1>6, GotoType DEF ReaderEnds, ReaderGivesUp, KillMarks, Refresh, Roles, Labels
  <2>2. exited' \in [Procs -> BOOLEAN] /\ ExitedThreadAndUpsets
    BY <1>6 DEF ReaderEnds, ReaderGivesUp, KillMarks, Refresh, TypeOK, MarkExited,
                OnlyExitedAndThread
  <2>3. upsets' \in 0 .. MaxUpsets
    BY <1>6 DEF ReaderEnds, ReaderGivesUp, KillMarks, Refresh, TypeOK, OnlyExitedAndThread, Upset
  <2> QED  BY <2>1, <2>2, <2>3 DEF TypeOK, ExitedThreadAndUpsets
<1>7. ASSUME NEW p \in Procs, PollerStops(p) \/ KillLooks(p) \/ KillFails(p) PROVE TypeOK'
  <2>1. thread' \in [Threads -> ThreadRecords]
    BY <1>7, GotoType DEF PollerStops, KillLooks, KillFails, Roles, Labels
  <2> QED  BY <1>7, <2>1 DEF PollerStops, KillLooks, KillFails, TypeOK, Upset
<1>8. ASSUME NEW p \in Procs, WriteAgain(p) PROVE TypeOK'
  <2>1. thread' \in [Threads -> ThreadRecords]
    BY <1>8, GotoType DEF WriteAgain, Roles, Labels
  <2>2. file' \in Checkpoints
    BY <1>8, OneThread, OffType DEF WriteAgain, Roles, ThreadRecords
  <2> QED  BY <1>8, <2>1, <2>2 DEF WriteAgain, TypeOK
<1>9. ASSUME NEW p \in Procs, Poll(p) \/ WatchEnds(p) PROVE TypeOK'
  <2>1. CASE Poll(p)
    BY <2>1 DEF Poll, TypeOK
  <2>2. CASE WatchEnds(p)
    <3>1. /\ watch' \in [Procs -> BOOLEAN] /\ told' \in [Procs -> Nat]
          /\ missed' \subseteq Procs
      BY <2>2 DEF WatchEnds, TypeOK
    <3> QED  BY <2>2, <3>1 DEF WatchEnds, TypeOK
  <2> QED  BY <1>9, <2>1, <2>2
<1>10. ASSUME NEW role \in Roles, NEW p \in Procs, Move(role, p) PROVE TypeOK'
  <2>1. thread' \in [Threads -> ThreadRecords]
    <3> DEFINE t == [Off EXCEPT !.pc = "save", !.was = p \in running]
    <3>1. t \in ThreadRecords
      BY MovedType
    <3>2. thread' = [thread EXCEPT ![<<role, p>>] = t]
      BY <1>10 DEF Move
    <3> HIDE DEF t
    <3> QED  BY <3>1, <3>2, OneThread
  <2> QED  BY <1>10, <2>1 DEF Move, TypeOK
<1>11. ASSUME NEW role \in Roles, NEW p \in Procs, TakeSnapshot(role, p) PROVE TypeOK'
  <2>1. thread' \in [Threads -> ThreadRecords]
    <3> DEFINE old == thread[<<role, p>>]
               t == [old EXCEPT !.pc = IF old.pc = "save" THEN "write" ELSE "rewrite",
                                !.snap = Snapshot]
    <3>1. t \in ThreadRecords
      BY OneThread, OffType, RelabelType, CheckpointType DEF Labels
    <3>2. thread' = [thread EXCEPT ![<<role, p>>] = t]
      BY <1>11 DEF TakeSnapshot
    <3> HIDE DEF t
    <3> QED  BY <3>1, <3>2, OneThread
  <2> QED  BY <1>11, <2>1 DEF TakeSnapshot, TypeOK
<1>12. ASSUME NEW role \in Roles, NEW p \in Procs, WriteAndAnnounce(role, p) PROVE TypeOK'
  <2>1. After(role, p) \subseteq Labels
    BY DEF After, Labels
  <2>2. thread' \in [Threads -> ThreadRecords]
    <3>1. PICK next \in After(role, p) :
            thread' = [thread EXCEPT ![<<role, p>>] = [Off EXCEPT !.pc = next]]
      BY <1>12 DEF WriteAndAnnounce
    <3>2. [Off EXCEPT !.pc = next] \in ThreadRecords
      BY <2>1, OffType, RelabelType, CheckpointType
    <3> QED  BY <3>1, <3>2, OneThread
  <2>3. file' \in Checkpoints
    BY <1>12, OneThread, OffType DEF WriteAndAnnounce, ThreadRecords
  <2>4. announced' \in [Procs -> Nat]
    BY <1>12 DEF WriteAndAnnounce, TypeOK
  <2> QED  BY <1>12, <2>2, <2>3, <2>4 DEF WriteAndAnnounce, TypeOK
<1>13. CASE Restart
  <2>1. file' \in Checkpoints /\ running' \subseteq Procs /\ detached' \subseteq Procs
    BY <1>13 DEF Restart, TypeOK, Checkpoints
  <2>2. thread' \in [Threads -> ThreadRecords]
    BY <1>13, OffType DEF Restart
  <2> QED  BY <1>13, <2>1, <2>2 DEF Restart, TypeOK, Upset
<1>14. CASE UNCHANGED vars
  BY <1>14 DEF vars, TypeOK
<1> QED
  BY <1>1, <1>2, <1>3, <1>4, <1>5, <1>6, <1>7, <1>8, <1>9, <1>10, <1>11, <1>12, <1>13, <1>14
  DEF Next, SpawnerStep, ReaderStep, KillerStep, RefresherStep, Finishing, Roles

\* Every variable keeps the set of values the code gives it.
THEOREM TypesHold == Spec => []TypeOK
<1>1. Init => TypeOK
  BY InitTypes
<1>2. TypeOK /\ [Next]_vars => TypeOK'
  BY NextTypes
<1> QED  BY <1>1, <1>2, PTL DEF Spec

-----------------------------------------------------------------------------
(* Who may announce the end of a process                                   *)
(*                                                                         *)
(* The right to announce passes from the table of running sessions to the  *)
(* one thread that took the session out of it, and from there to the queue *)
(* of events; nobody gives it back.                                        *)

Unregistered(p) == os[p] = "none" \/ At("spawner", p, "register")
Holds(role, p) == thread[<<role, p>>].was = TRUE

Token(p) ==
  /\ announced[p] <= 1
  /\ announced[p] = 1 =>
       p \notin running /\ ~Unregistered(p) /\ \A role \in Roles : ~Holds(role, p)
  /\ \A role \in Roles : Holds(role, p) => p \notin running /\ ~Unregistered(p)
  /\ \A role, other \in Roles : Holds(role, p) /\ Holds(other, p) => role = other
  /\ Unregistered(p) => p \notin running
  /\ At("spawner", p, "register") => os[p] # "none"

\* EndsAreMoved, for one process.
EndIsMoved(p) ==
  p \in running /\ exited[p] => p \in leaked \/ \E role \in Roles : At(role, p, "move")

Owned == \A p \in Procs : Token(p) /\ EndIsMoved(p)

\* A step that passes no right on, and takes nobody from a session's move.
Quiet(p) ==
  /\ p \in running' => p \in running
  /\ announced'[p] = announced[p]
  /\ Unregistered(p)' => Unregistered(p)
  /\ At("spawner", p, "register")' => os'[p] # "none"
  /\ \A role \in Roles : Holds(role, p)' => Holds(role, p)
  /\ p \in running /\ exited'[p] => exited[p] \/ \E role \in Roles : At(role, p, "move")'
  /\ p \in leaked => p \in leaked'
  /\ p \in running => \A role \in Roles : At(role, p, "move") => At(role, p, "move")'

\* A quiet step keeps what is known of a process.
LEMMA QuietKeeps ==
  ASSUME NEW p \in Procs, Token(p), EndIsMoved(p), Quiet(p)
  PROVE  Token(p)' /\ EndIsMoved(p)'
<1>1. Token(p)'
  BY DEF Token, Quiet
<1>2. EndIsMoved(p)'
  BY DEF EndIsMoved, Quiet
<1> QED  BY <1>1, <1>2

\* A step that changes one thread leaves the others as they are.
LEMMA OtherThreads ==
  ASSUME TypeOK, NEW role \in Roles, NEW p \in Procs, NEW t \in ThreadRecords,
         thread' = [thread EXCEPT ![<<role, p>>] = t]
  PROVE  \A r \in Roles, q \in Procs :
           thread'[<<r, q>>] = IF r = role /\ q = p THEN t ELSE thread[<<r, q>>]
  BY DEF TypeOK, Threads

\* A thread that goes on keeps what it holds; one that stops holds nothing.
LEMMA GoingOn ==
  ASSUME TypeOK, NEW role \in Roles, NEW p \in Procs, NEW label \in Labels,
         Goto(role, p, label) \/ (Stop(role, p) /\ label = "off")
  PROVE  /\ \A r \in Roles, q \in Procs : Holds(r, q)' => Holds(r, q)
         /\ \A r \in Roles, q \in Procs : r # role \/ q # p => thread'[<<r, q>>] = thread[<<r, q>>]
         /\ thread'[<<role, p>>].pc = label
<1>1. thread[<<role, p>>] \in ThreadRecords
  BY OneThread, OffType
<1>2. CASE Goto(role, p, label)
  <2> DEFINE t == [thread[<<role, p>>] EXCEPT !.pc = label]
  <2>1. t \in ThreadRecords /\ t.pc = label /\ t.was = thread[<<role, p>>].was
    BY <1>1 DEF ThreadRecords
  <2>2. thread' = [thread EXCEPT ![<<role, p>>] = t]
    BY <1>2 DEF Goto
  <2> HIDE DEF t
  <2>3. \A r \in Roles, q \in Procs :
          thread'[<<r, q>>] = IF r = role /\ q = p THEN t ELSE thread[<<r, q>>]
    BY <2>1, <2>2, OtherThreads
  <2> QED  BY <2>1, <2>3 DEF Holds
<1>3. CASE Stop(role, p) /\ label = "off"
  <2>1. Off.pc = "off" /\ Off.was = FALSE
    BY DEF Off
  <2>2. \A r \in Roles, q \in Procs :
          thread'[<<r, q>>] = IF r = role /\ q = p THEN Off ELSE thread[<<r, q>>]
    BY <1>3, OffType, OtherThreads DEF Stop
  <2> QED  BY <1>3, <2>1, <2>2 DEF Holds
<1> QED  BY <1>2, <1>3

\* A thread that goes on, or stops, by itself is quiet: if it was not about to move or
\* to register a session, and marks an exit only if it moves the session next.
LEMMA AloneIsQuiet ==
  ASSUME TypeOK, NEW q \in Procs, Token(q),
         NEW role \in Roles, NEW p \in Procs, NEW label \in Labels \ {"register"},
         Goto(role, p, label) \/ (Stop(role, p) /\ label = "off"),
         thread[<<role, p>>].pc # "move" \/ label = "move",
         UNCHANGED <<os, running, leaked, announced>>,
         UNCHANGED exited \/ (MarkExited(p) /\ label = "move")
  PROVE  Quiet(q)
<1>1. /\ \A r \in Roles, x \in Procs : Holds(r, x)' => Holds(r, x)
      /\ \A r \in Roles, x \in Procs : r # role \/ x # p => thread'[<<r, x>>] = thread[<<r, x>>]
      /\ thread'[<<role, p>>].pc = label
  BY GoingOn
<1>2. exited'[q] => exited[q] \/ (q = p /\ label = "move")
  BY DEF MarkExited, TypeOK
<1>3. \A r \in Roles : At(r, q, "move") => At(r, q, "move")'
  BY <1>1 DEF At
<1>4. At("spawner", q, "register")' => At("spawner", q, "register")
  BY <1>1 DEF At, Roles
<1>5. q = p /\ label = "move" => At(role, q, "move")'
  BY <1>1 DEF At
<1> QED  BY <1>1, <1>2, <1>3, <1>4, <1>5 DEF Quiet, Token, Unregistered

\* Initially there is nothing to announce.
LEMMA InitOwned == Init => Owned
  BY DEF Init, Owned, Token, EndIsMoved, Unregistered, Holds, At, Off, Threads, Roles

\* Every step keeps the rights in order.
LEMMA NextOwned == TypeOK /\ Owned /\ [Next]_vars => Owned'
<1> SUFFICES ASSUME TypeOK, Owned, [Next]_vars, NEW q \in Procs
             PROVE  Token(q)' /\ EndIsMoved(q)'
  BY DEF Owned
<1>q. Token(q) /\ EndIsMoved(q)
  BY DEF Owned
<1>t. TypeOK'
  BY NextTypes
<1> SUFFICES ASSUME ~Quiet(q) PROVE Token(q)' /\ EndIsMoved(q)'
  BY <1>q, QuietKeeps
<1> USE DEF memory
<1>1. ASSUME NEW p \in Procs, Spawn(p) PROVE FALSE
  <2> DEFINE s == [thread[<<"spawner", p>>] EXCEPT !.pc = "register"]
             r == [thread[<<"reader", p>>] EXCEPT !.pc = "read"]
  <2>1. /\ thread[<<"spawner", p>>] \in ThreadRecords /\ thread[<<"reader", p>>] \in ThreadRecords
    BY OneThread, OffType DEF Roles
  <2>2. /\ s.pc = "register" /\ s.was = thread[<<"spawner", p>>].was
        /\ r.was = thread[<<"reader", p>>].was
    BY <2>1 DEF ThreadRecords
  <2>3. thread' = [thread EXCEPT ![<<"spawner", p>>] = s, ![<<"reader", p>>] = r]
    BY <1>1 DEF Spawn
  <2> HIDE DEF s, r
  <2>4. \A role \in Roles, x \in Procs :
          thread'[<<role, x>>] = IF role = "spawner" /\ x = p THEN s
                                 ELSE IF role = "reader" /\ x = p THEN r ELSE thread[<<role, x>>]
    BY <2>3 DEF TypeOK, Threads, Roles
  <2>5. \A role \in Roles : Holds(role, q)' => Holds(role, q)
    BY <2>2, <2>4 DEF Holds
  <2>6. Unregistered(q)' => Unregistered(q)
    BY <1>1, <2>4 DEF Spawn, Unregistered, At, Roles, TypeOK
  <2>7. At("spawner", q, "register")' => os'[q] # "none"
    BY <1>1, <1>q, <2>4 DEF Spawn, Token, At, Roles, TypeOK
  <2>8. q \in running => q # p
    BY <1>1, <1>q DEF Spawn, Token, Unregistered
  <2>9. q \in running => \A role \in Roles : At(role, q, "move") => At(role, q, "move")'
    BY <2>4, <2>8 DEF At
  <2> QED  BY <1>1, <2>5, <2>6, <2>7, <2>9 DEF Spawn, Quiet
<1>2. ASSUME NEW p \in Procs, SpawnFails(p) PROVE FALSE
  <2>1. Goto("spawner", p, "register")
    BY <1>2 DEF SpawnFails
  <2>2. /\ \A r \in Roles, x \in Procs : Holds(r, x)' => Holds(r, x)
        /\ \A r \in Roles, x \in Procs :
             r # "spawner" \/ x # p => thread'[<<r, x>>] = thread[<<r, x>>]
        /\ thread'[<<"spawner", p>>].pc = "register"
    BY <2>1, GoingOn DEF Roles, Labels
  <2>3. CASE q = p
    BY <1>2, <1>q, <2>2, <2>3 DEF SpawnFails, Quiet, Token, At, Unregistered, TypeOK, Roles
  <2>4. CASE q # p
    BY <1>2, <1>q, <2>2, <2>4 DEF SpawnFails, Quiet, Token, At, Unregistered, TypeOK, Roles
  <2> QED  BY <2>3, <2>4
<1>3. ASSUME NEW p \in Procs, Register(p) PROVE Token(q)' /\ EndIsMoved(q)'
  <2>1. Goto("spawner", p, "save")
    BY <1>3 DEF Register
  <2>2. /\ \A r \in Roles, x \in Procs : Holds(r, x)' => Holds(r, x)
        /\ \A r \in Roles, x \in Procs :
             r # "spawner" \/ x # p => thread'[<<r, x>>] = thread[<<r, x>>]
        /\ thread'[<<"spawner", p>>].pc = "save"
    BY <2>1, GoingOn DEF Roles, Labels
  <2>3. CASE q = p
    <3>1. Token(q)'
      BY <1>3, <1>q, <2>2, <2>3 DEF Register, Token, At, Unregistered, Roles, TypeOK
    <3>2. EndIsMoved(q)'
      BY <1>3, <2>2, <2>3 DEF Register, EndIsMoved, At, Roles
    <3> QED  BY <3>1, <3>2
  <2>4. CASE q # p
    BY <1>3, <1>q, <2>2, <2>4 DEF Register, Quiet, At, Unregistered, Token, TypeOK, Roles
  <2> QED  BY <2>3, <2>4
<1>4. ASSUME NEW p \in Procs,
             \/ AskForNotice(p) \/ PollerStops(p) \/ KillFails(p) \/ WriteAgain(p)
             \/ KillLooks(p) \/ ReaderEnds(p) \/ ReaderGivesUp(p) \/ KillMarks(p) \/ Refresh(p)
      PROVE  FALSE
  <2>1. CASE AskForNotice(p)
    BY <2>1, <1>q, AloneIsQuiet DEF AskForNotice, At, Roles, Labels
  <2>2. CASE PollerStops(p)
    BY <2>2, <1>q, AloneIsQuiet DEF PollerStops, At, Roles, Labels
  <2>3. CASE KillFails(p) \/ WriteAgain(p)
    BY <2>3, <1>q, AloneIsQuiet DEF KillFails, WriteAgain, At, Roles, Labels
  <2>4. CASE KillLooks(p)
    BY <2>4, <1>q, AloneIsQuiet DEF KillLooks, At, Roles, Labels
  <2>5. CASE ReaderEnds(p) \/ ReaderGivesUp(p)
    BY <2>5, <1>q, AloneIsQuiet
    DEF ReaderEnds, ReaderGivesUp, OnlyExitedAndThread, ExitedThreadAndUpsets, At, Roles, Labels
  <2>6. CASE KillMarks(p)
    BY <2>6, <1>q, AloneIsQuiet
    DEF KillMarks, OnlyExitedAndThread, ExitedThreadAndUpsets, At, Roles, Labels
  <2>7. CASE Refresh(p)
    BY <2>7, <1>q, AloneIsQuiet
    DEF Refresh, OnlyExitedAndThread, ExitedThreadAndUpsets, At, Roles, Labels
  <2> QED  BY <1>4, <2>1, <2>2, <2>3, <2>4, <2>5, <2>6, <2>7
<1>5. ASSUME NEW p \in Procs, ProcessEnds(p) \/ Poll(p) \/ WatchEnds(p) PROVE FALSE
  BY <1>5, <1>q DEF ProcessEnds, Poll, WatchEnds, Quiet, Token, Unregistered, Holds, At, TypeOK
<1>6. ASSUME NEW role \in Roles, NEW p \in Procs, Move(role, p)
      PROVE  Token(q)' /\ EndIsMoved(q)'
  <2> DEFINE t == [Off EXCEPT !.pc = "save", !.was = p \in running]
  <2>1. t \in ThreadRecords /\ t.pc = "save" /\ (t.was = TRUE => p \in running)
    BY MovedType DEF Off
  <2>2. thread' = [thread EXCEPT ![<<role, p>>] = t]
    BY <1>6 DEF Move
  <2> HIDE DEF t
  <2>3. \A r \in Roles, x \in Procs :
          thread'[<<r, x>>] = IF r = role /\ x = p THEN t ELSE thread[<<r, x>>]
    BY <2>1, <2>2, OtherThreads
  <2>4. CASE q = p
    <3>1. q \notin running' /\ announced' = announced /\ os' = os
      BY <1>6, <2>4 DEF Move
    <3>2. Unregistered(q)' => Unregistered(q)
      BY <2>1, <2>3, <2>4, <3>1 DEF Unregistered, At, Roles
    <3>3. At("spawner", q, "register")' => At("spawner", q, "register")
      BY <2>1, <2>3, <2>4 DEF At, Roles
    <3>4. \A r \in Roles : Holds(r, q)' => Holds(r, q) \/ (r = role /\ q \in running)
      BY <2>1, <2>3, <2>4 DEF Holds
    <3> QED  BY <1>q, <3>1, <3>2, <3>3, <3>4 DEF Token, EndIsMoved
  <2>5. CASE q # p
    BY <1>6, <1>q, <2>3, <2>5 DEF Move, Quiet, Token, Holds, At, Unregistered, TypeOK, Roles
  <2> QED  BY <2>4, <2>5
<1>7. ASSUME NEW role \in Roles, NEW p \in Procs, TakeSnapshot(role, p) PROVE FALSE
  <2> DEFINE old == thread[<<role, p>>]
             t == [old EXCEPT !.pc = IF old.pc = "save" THEN "write" ELSE "rewrite",
                              !.snap = Snapshot]
  <2>1. t \in ThreadRecords /\ t.pc \in {"write", "rewrite"} /\ t.was = old.was
    BY OneThread, OffType, CheckpointType DEF Labels, ThreadRecords
  <2>2. thread' = [thread EXCEPT ![<<role, p>>] = t]
    BY <1>7 DEF TakeSnapshot
  <2>3. old.pc \in {"save", "resave"}
    BY <1>7 DEF TakeSnapshot, At
  <2> HIDE DEF t
  <2>4. \A r \in Roles, x \in Procs :
          thread'[<<r, x>>] = IF r = role /\ x = p THEN t ELSE thread[<<r, x>>]
    BY <2>1, <2>2, OtherThreads
  <2>5. \A r \in Roles : Holds(r, q)' => Holds(r, q)
    BY <2>1, <2>4 DEF Holds
  <2>6. At("spawner", q, "register")' => At("spawner", q, "register")
    BY <2>1, <2>4 DEF At, Roles
  <2>7. \A r \in Roles : At(r, q, "move") => At(r, q, "move")'
    BY <2>3, <2>4 DEF At
  <2>8. UNCHANGED <<os, running, exited, leaked, announced>>
    BY <1>7 DEF TakeSnapshot
  <2> QED  BY <1>q, <2>5, <2>6, <2>7, <2>8 DEF Quiet, Unregistered, Token
<1>8. ASSUME NEW role \in Roles, NEW p \in Procs, WriteAndAnnounce(role, p)
      PROVE  Token(q)' /\ EndIsMoved(q)'
  <2>1. PICK next \in After(role, p) :
          thread' = [thread EXCEPT ![<<role, p>>] = [Off EXCEPT !.pc = next]]
    BY <1>8 DEF WriteAndAnnounce
  <2> DEFINE t == [Off EXCEPT !.pc = next]
  <2>2. next \in {"mark", "resave", "off"} /\ t \in ThreadRecords /\ t.pc = next /\ t.was = FALSE
    BY OffType, RelabelType, CheckpointType DEF After, Labels, Off
  <2> HIDE DEF t
  <2>3. \A r \in Roles, x \in Procs :
          thread'[<<r, x>>] = IF r = role /\ x = p THEN t ELSE thread[<<r, x>>]
    BY <2>1, <2>2, OtherThreads DEF t
  <2>4. CASE announced'[q] = announced[q]
    BY <1>8, <1>q, <2>2, <2>3, <2>4
    DEF WriteAndAnnounce, Quiet, Token, Holds, At, Unregistered, TypeOK, Roles
  <2>5. CASE announced'[q] # announced[q]
    <3>1. q = p /\ Holds(role, p) /\ announced'[p] = announced[p] + 1
      BY <1>8, <2>5, <1>t DEF WriteAndAnnounce, Announces, Holds, TypeOK
    <3>2. announced[p] = 0 /\ announced'[p] = 1 /\ p \notin running' /\ os' = os
      BY <1>8, <1>q, <3>1 DEF Token, WriteAndAnnounce, TypeOK
    <3>3. \A r \in Roles : ~Holds(r, p)'
      BY <1>q, <2>2, <2>3, <3>1 DEF Token, Holds
    <3>4. ~Unregistered(p)' /\ ~At("spawner", p, "register")'
      BY <1>q, <2>2, <2>3, <3>1, <3>2 DEF Token, Unregistered, At, Roles
    <3> QED  BY <3>1, <3>2, <3>3, <3>4 DEF Token, EndIsMoved
  <2> QED  BY <2>4, <2>5
<1>9. CASE Restart
  <2>1. announced'[q] = 0 /\ exited'[q] = FALSE /\ (q \in running' => os'[q] # "none")
    BY <1>9 DEF Restart
  <2>2. \A r \in Roles : thread'[<<r, q>>].pc = "off" /\ thread'[<<r, q>>].was = FALSE
    BY <1>9 DEF Restart, Threads, Off
  <2> QED
    BY <2>1, <2>2 DEF Token, EndIsMoved, Unregistered, Holds, At, Roles
<1>10. CASE UNCHANGED vars
  BY <1>10, <1>q DEF vars, Quiet, Token, Unregistered, Holds, At
<1> QED
  BY <1>1, <1>2, <1>3, <1>4, <1>5, <1>6, <1>7, <1>8, <1>9, <1>10
  DEF Next, SpawnerStep, ReaderStep, KillerStep, RefresherStep, Finishing, Roles

\* The inductive invariant: who owns the right to announce, and the move of each end.
LEMMA OwnedHolds == Spec => [](TypeOK /\ Owned)
<1>1. Init => TypeOK /\ Owned
  BY InitTypes, InitOwned
<1>2. (TypeOK /\ Owned) /\ [Next]_vars => (TypeOK /\ Owned)'
  BY NextTypes, NextOwned
<1> QED  BY <1>1, <1>2, PTL DEF Spec

\* The end of a process is queued at most once between two restarts, whoever notices it.
THEOREM Announcement == Spec => []AnnouncedOnce
<1>1. TypeOK /\ Owned => AnnouncedOnce
  BY DEF Owned, AnnouncedOnce, Token
<1> QED  BY OwnedHolds, <1>1, PTL

\* A recorded end does not stay among the running sessions: a thread is about to move
\* it, unless all had gone before it was registered.
THEOREM Moving == Spec => []EndsAreMoved
<1>1. TypeOK /\ Owned => EndsAreMoved
  BY DEF TypeOK, Owned, EndsAreMoved, EndIsMoved
<1> QED  BY OwnedHolds, <1>1, PTL
=============================================================================
