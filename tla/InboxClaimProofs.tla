--------------------------- MODULE InboxClaimProofs ---------------------------
(***************************************************************************)
(* Proofs about InboxClaim, for any number of watchers, requests, messages  *)
(* and faults: its type invariant, and that a line has one owner.           *)
(***************************************************************************)
EXTENDS InboxClaim, TLAPS

-----------------------------------------------------------------------------
(* Types                                                                   *)

\* A claim in the file is over lines that are counted from 1.
Numbered == claim.owner # NoOwner => claim.start \in Nat \ {0}

\* The messages of any lines are messages.
LEMMA MessagesType == ASSUME TypeOK, NEW lines PROVE MessagesIn(lines) \subseteq Msgs
  BY DEF TypeOK, MessagesIn

\* What a command starts from.
LEMMA CursorsType ==
  ASSUME TypeOK, Numbered
  PROVE  /\ Cursors.offset \in Nat /\ Cursors.dispatched \in Nat /\ Cursors.claim \in Claims
         /\ Cursors.claim.owner # NoOwner => Cursors.claim.start \in Nat \ {0}
  BY DEF TypeOK, Numbered, Cursors, NoClaim, Claims

\* What a reservation answers; and a granted one is over lines counted from 1.
LEMMA ReservationType ==
  ASSUME TypeOK, Numbered, NEW o \in Owners
  PROVE  /\ Reservation(o).claim \in Claims /\ Reservation(o).upto \in Nat
         /\ Reservation(o).claim.owner # NoOwner => Reservation(o).claim.start \in Nat \ {0}
         /\ Granted(Reservation(o)) => Reservation(o).claim.owner = o
<1> DEFINE k == Cursors
           next == Larger(k.offset, k.dispatched) + 1
<1>1. k.offset \in Nat /\ k.dispatched \in Nat /\ k.claim \in Claims /\ Len(inbox) \in Nat
      /\ (k.claim.owner # NoOwner => k.claim.start \in Nat \ {0})
  BY CursorsType DEF TypeOK
<1>2. next \in Nat \ {0} /\ o # NoOwner
  BY <1>1, ConstantsAreDistinct DEF Larger
<1>3. [k.claim EXCEPT !.fresh = TRUE] \in Claims
      /\ [k.claim EXCEPT !.fresh = TRUE].owner = k.claim.owner
      /\ [k.claim EXCEPT !.fresh = TRUE].start = k.claim.start
  BY <1>1 DEF Claims
<1>4. Record(o, k.claim.start, k.claim.end, k.dispatched) \in Claims
      /\ Record(o, next, Len(inbox), k.dispatched) \in Claims
  BY <1>1, <1>2 DEF Record, Claims
<1>5. k.claim.end \in Nat
  BY <1>1 DEF Claims
<1> HIDE DEF k, next
<1> QED  BY <1>1, <1>2, <1>3, <1>4, <1>5 DEF Reservation, IsOpen, Granted, Record, k, next

\* What reserve leaves in the files.
LEMMA WriteType ==
  ASSUME TypeOK, Numbered, NEW o \in Owners, NEW wholly \in BOOLEAN,
         WriteReservation(Reservation(o), wholly)
  PROVE  /\ offset' \in Nat /\ dispatched' \in Nat /\ claim' \in Claims /\ Numbered'
         /\ UNCHANGED <<inbox, marking, waking>>
  BY ReservationType, CursorsType DEF WriteReservation, Numbered

\* What an owner holds after reserve.
LEMMA HoldType ==
  ASSUME TypeOK, NEW o \in Owners, NEW r, HoldIfGranted(o, r) \/ Drop(o)
  PROVE  held' \in [Owners -> SUBSET Msgs]
  BY MessagesType DEF TypeOK, HoldIfGranted, Drop

\* What is counted of hand-outs stays within its bound.
LEMMA WakeType ==
  ASSUME TypeOK, NEW lines, Wake(lines)
  PROVE  woken' \in [Msgs -> 0 .. MaxWakes]
  BY ConstantsAreDistinct DEF TypeOK, Wake

\* A job with one or more of its fields replaced.
LEMMA JobFields ==
  /\ Idle \in JobRecords
  /\ \A r \in JobRecords, label \in Labels, n \in Nat, k \in Nat, b \in BOOLEAN :
       /\ [r EXCEPT !.pc = label, !.total = n] \in JobRecords
       /\ [r EXCEPT !.pc = label, !.offset = n, !.total = k] \in JobRecords
       /\ [r EXCEPT !.pc = label, !.claimed = b] \in JobRecords
  BY DEF Idle, JobRecords, Labels

\* Where an owner goes.
LEMMA JobType ==
  ASSUME TypeOK, NEW o \in Owners, NEW label \in Labels,
         Goto(o, label) \/ Finish(o)
  PROVE  job' \in [Owners -> JobRecords]
<1>1. Idle \in JobRecords /\ [Idle EXCEPT !.pc = "done"] \in JobRecords
      /\ [job[o] EXCEPT !.pc = label] \in JobRecords
  BY DEF TypeOK, Idle, JobRecords, Labels
<1> QED  BY <1>1 DEF TypeOK, Goto, Finish

\* The faults on record are known kinds.
LEMMA FaultsType ==
  ASSUME TypeOK, NEW kind \in FaultKinds, NEW mishap \in Mishaps, NEW occurs,
         Fail(kind) \/ Note(mishap, occurs)
  PROVE  faults' \subseteq FaultKinds \cup Mishaps /\ faults \subseteq faults'
  BY DEF TypeOK, Fail, Note

\* At the start everything has its type.
LEMMA InitTypes == Init => TypeOK /\ Numbered
<1> SUFFICES ASSUME Init PROVE TypeOK /\ Numbered
  OBVIOUS
<1>1. sent \in 0 .. MaxLines /\ inbox \in Seq(Msgs) /\ woken \in [Msgs -> 0 .. MaxWakes]
  BY ConstantsAreDistinct DEF Init
<1>2. claim \in Claims /\ marking \in Markings /\ Numbered
  BY DEF Init, NoClaim, NoMarking, Claims, Markings, Numbered
<1> QED  BY <1>1, <1>2, JobFields DEF Init, TypeOK

\* Every step keeps the types.
LEMMA NextTypes == TypeOK /\ Numbered /\ [Next]_vars => (TypeOK /\ Numbered)'
<1> SUFFICES ASSUME TypeOK, Numbered, [Next]_vars PROVE TypeOK' /\ Numbered'
  OBVIOUS
<1>a. NoClaim \in Claims /\ NoClaim.owner = NoOwner /\ NoMarking \in Markings /\ Idle \in JobRecords
  BY DEF NoClaim, NoMarking, Idle, Claims, Markings, JobRecords, Labels
<1>b. MaxLines \in Nat
  BY ConstantsAreDistinct
<1>1. ASSUME NEW w \in Watchers, StartWatch(w) PROVE TypeOK' /\ Numbered'
  <2>1. [Idle EXCEPT !.pc = "cursors", !.total = Len(inbox)] \in JobRecords
    <3>1. "cursors" \in Labels /\ Len(inbox) \in Nat
      BY DEF TypeOK, Labels
    <3> QED  BY <3>1, JobFields
  <2> QED  BY <1>1, <2>1 DEF StartWatch, TypeOK, files, Numbered, Owners
<1>2. ASSUME NEW w \in Watchers, CheckCursors(w) PROVE TypeOK' /\ Numbered'
  <2>1. job[w].total \in Nat /\ w \in Owners
    BY DEF TypeOK, JobRecords, Owners
  <2>2. offset' \in {0, offset} /\ dispatched' \in {0, dispatched}
        /\ UNCHANGED <<sent, overlooked, inbox, claim, marking, waking, held, woken>>
    BY <1>2 DEF CheckCursors
  <2>3. Finish(w) \/ job' = [job EXCEPT ![w].pc = "reserve", ![w].offset = offset']
    BY <1>2 DEF CheckCursors
  <2>4. job' \in [Owners -> JobRecords]
    <3>1. CASE Finish(w)
      BY <3>1, <2>1, JobType DEF Labels
    <3>2. CASE job' = [job EXCEPT ![w].pc = "reserve", ![w].offset = offset']
      <4>1. offset' \in Nat
        BY <2>2 DEF TypeOK
      <4>2. \A n \in Nat : [job[w] EXCEPT !.pc = "reserve", !.offset = n] \in JobRecords
        BY <2>1 DEF TypeOK, JobRecords, Labels
      <4>3. job' = [job EXCEPT ![w] = [job[w] EXCEPT !.pc = "reserve", !.offset = offset']]
        BY <3>2
      <4> QED  BY <4>1, <4>2, <4>3 DEF TypeOK
    <3> QED  BY <2>3, <3>1, <3>2
  <2>5. faults' \subseteq FaultKinds \cup Mishaps
    BY <1>2 DEF CheckCursors, Note, Mishaps, TypeOK
  <2> QED  BY <2>2, <2>4, <2>5 DEF TypeOK, Numbered
<1>3. ASSUME NEW w \in Watchers, ReserveLines(w) PROVE TypeOK' /\ Numbered'
  <2> DEFINE r == Reservation(w)
  <2>1. w \in Owners
    BY DEF Owners
  <2>2. WriteReservation(r, TRUE) /\ HoldIfGranted(w, r) /\ UNCHANGED <<sent, overlooked, woken, faults>>
    BY <1>3 DEF ReserveLines
  <2>3. r.claim \in Claims /\ (r.how = "claimed" => r.claim.start \in Nat \ {0})
    BY <2>1, ReservationType, ConstantsAreDistinct DEF Granted
  <2>4. [job[w] EXCEPT !.pc = "post", !.claimed = TRUE] \in JobRecords
        /\ (r.how = "claimed" =>
              [pc |-> "post", offset |-> r.claim.start - 1, total |-> r.claim.end, claimed |-> TRUE]
                \in JobRecords)
    <3>1. "post" \in Labels /\ job[w] \in JobRecords
      BY <2>1 DEF TypeOK, Labels
    <3>2. r.how = "claimed" => r.claim.start - 1 \in Nat /\ r.claim.end \in Nat
      BY <2>3 DEF Claims
    <3> QED  BY <3>1, <3>2, JobFields DEF JobRecords
  <2>5. \/ r.how = "claimed" /\ job' = [job EXCEPT ![w] =
             [pc |-> "post", offset |-> r.claim.start - 1, total |-> r.claim.end, claimed |-> TRUE]]
        \/ job' = [job EXCEPT ![w] = [job[w] EXCEPT !.pc = "post", !.claimed = TRUE]]
        \/ Finish(w)
    BY <1>3 DEF ReserveLines
  <2>6. job' \in [Owners -> JobRecords]
    BY <2>1, <2>4, <2>5, JobType DEF TypeOK, Labels
  <2>7. held' \in [Owners -> SUBSET Msgs]
    BY <2>1, <2>2, HoldType
  <2> QED  BY <2>1, <2>2, <2>6, <2>7, WriteType DEF TypeOK
<1>4. ASSUME NEW w \in Watchers, ReserveFails(w) PROVE TypeOK' /\ Numbered'
  <2>1. job' \in [Owners -> JobRecords]
    BY <1>4, JobType DEF ReserveFails, Labels, Owners
  <2> QED  BY <1>4, <2>1 DEF ReserveFails, Fail, FaultKinds, TypeOK, files, Numbered
<1>5. ASSUME NEW w \in Watchers, PostAccepted(w) PROVE TypeOK' /\ Numbered'
  <2>1. job' \in [Owners -> JobRecords] /\ woken' \in [Msgs -> 0 .. MaxWakes]
    BY <1>5, JobType, WakeType DEF PostAccepted, Labels, Owners
  <2> QED  BY <1>5, <2>1 DEF PostAccepted, TypeOK, files, Numbered
<1>6. ASSUME NEW w \in Watchers, PostNotAccepted(w) PROVE TypeOK' /\ Numbered'
  <2>1. job' \in [Owners -> JobRecords]
    BY <1>6, JobType DEF PostNotAccepted, Labels, Owners
  <2>2. held' \in [Owners -> SUBSET Msgs]
    BY <1>6, HoldType DEF PostNotAccepted, Owners, TypeOK
  <2>3. woken' \in [Msgs -> 0 .. MaxWakes] /\ faults' \subseteq FaultKinds \cup Mishaps
    BY <1>6, WakeType DEF PostNotAccepted, Fail, FaultKinds, TypeOK
  <2> QED  BY <1>6, <2>1, <2>2, <2>3 DEF PostNotAccepted, TypeOK, files, Numbered
<1>7. ASSUME NEW w \in Watchers, RecordDispatched(w) PROVE TypeOK' /\ Numbered'
  <2>1. job' \in [Owners -> JobRecords]
    BY <1>7, JobType DEF RecordDispatched, Labels, Owners
  <2>2. dispatched' \in Nat /\ waking' \in BOOLEAN
    BY <1>7 DEF RecordDispatched, TypeOK, JobRecords, Owners
  <2> QED  BY <1>7, <2>1, <2>2 DEF RecordDispatched, TypeOK, Numbered
<1>8. ASSUME NEW w \in Watchers, CrashInReserve(w) PROVE TypeOK' /\ Numbered'
  <2>1. w \in Owners
    BY DEF Owners
  <2>2. job' \in [Owners -> JobRecords] /\ faults' \subseteq FaultKinds \cup Mishaps
    BY <1>8, <2>1, JobType DEF CrashInReserve, Labels, Fail, FaultKinds, TypeOK
  <2> QED  BY <1>8, <2>1, <2>2, WriteType DEF CrashInReserve, TypeOK
<1>9. ASSUME NEW o \in Owners, NEW lines, Overlook(lines) PROVE overlooked' \subseteq Msgs
  BY <1>9, MessagesType DEF Overlook, TypeOK
<1>10. ASSUME NEW o \in Owners, StartMarking(o) PROVE marking' \in Markings
  BY <1>10 DEF StartMarking, Markings, TypeOK
<1>11. ASSUME NEW o \in Owners, Commit(o) PROVE TypeOK' /\ Numbered'
  <2>1. job' \in [Owners -> JobRecords] /\ held' \in [Owners -> SUBSET Msgs]
    BY <1>11, JobType, HoldType DEF Commit, Labels
  <2>2. claim' \in {claim, NoClaim} /\ marking' \in Markings
    BY <1>10, <1>11 DEF Commit, TypeOK
  <2>3. overlooked' \subseteq Msgs
    BY <1>9, <1>11 DEF Commit
  <2> QED  BY <1>a, <1>11, <2>1, <2>2, <2>3 DEF Commit, TypeOK, Numbered
<1>12. ASSUME NEW o \in Owners, Abort(o) PROVE TypeOK' /\ Numbered'
  <2>1. job' \in [Owners -> JobRecords] /\ held' \in [Owners -> SUBSET Msgs]
    BY <1>12, JobType, HoldType DEF Abort, Labels
  <2>2. claim' \in {claim, NoClaim} /\ marking' \in Markings /\ dispatched' \in Nat
    BY <1>10, <1>12 DEF Abort, TypeOK, Claims
  <2>3. overlooked' \subseteq Msgs
    BY <1>9, <1>12 DEF Abort
  <2> QED  BY <1>a, <1>12, <2>1, <2>2, <2>3 DEF Abort, TypeOK, Numbered
<1>13. ASSUME NEW o \in Owners, ReplaceInbox(o) PROVE TypeOK' /\ Numbered'
  <2>1. job' \in [Owners -> JobRecords] /\ faults' \subseteq FaultKinds \cup Mishaps
    BY <1>13, JobType DEF ReplaceInbox, Labels, Note, Mishaps, TypeOK
  <2>2. inbox' \in Seq(Msgs)
    BY <1>13 DEF ReplaceInbox, TypeOK, Markings
  <2> QED  BY <1>a, <1>13, <2>1, <2>2 DEF ReplaceInbox, TypeOK, Numbered
<1>14. ASSUME NEW o \in Owners, Crash(o) PROVE TypeOK' /\ Numbered'
  <2>1. job' \in [Owners -> JobRecords] /\ held' \in [Owners -> SUBSET Msgs]
    BY <1>14, JobType, HoldType DEF Crash, Labels
  <2>2. marking' \in Markings /\ faults' \subseteq FaultKinds \cup Mishaps
    BY <1>a, <1>14 DEF Crash, Fail, FaultKinds, TypeOK
  <2> QED  BY <1>14, <2>1, <2>2 DEF Crash, TypeOK, Numbered
<1>15. ASSUME NEW q \in Requests, NEW line \in DOMAIN inbox, Declare(q, line)
       PROVE  TypeOK' /\ Numbered'
  <2>1. q \in Owners /\ line \in Nat \ {0}
    BY DEF Owners, TypeOK
  <2>2. [pc |-> "accept", offset |-> line - 1, total |-> line, claimed |-> TRUE] \in JobRecords
    BY <2>1 DEF JobRecords, Labels
  <2>3. job' \in [Owners -> JobRecords]
    BY <1>15, <2>1, <2>2, JobType DEF Declare, Labels, TypeOK
  <2>4. held' \in [Owners -> SUBSET Msgs]
    BY <1>15, <2>1, HoldType DEF Declare
  <2> QED  BY <1>15, <2>1, <2>3, <2>4, WriteType DEF Declare, TypeOK
<1>16. ASSUME NEW q \in Requests, NEW line \in DOMAIN inbox, DeclareDegraded(q, line)
       PROVE  TypeOK' /\ Numbered'
  <2>1. q \in Owners /\ line \in Nat \ {0}
    BY DEF Owners, TypeOK
  <2>2. [Idle EXCEPT !.pc = "accept", !.offset = line - 1, !.total = line] \in JobRecords
    <3>1. "accept" \in Labels /\ line - 1 \in Nat /\ line \in Nat
      BY <2>1 DEF Labels
    <3> QED  BY <3>1, JobFields
  <2>3. job' \in [Owners -> JobRecords] /\ faults' \subseteq FaultKinds \cup Mishaps
    BY <1>16, <2>1, <2>2 DEF DeclareDegraded, TypeOK, Fail, FaultKinds
  <2> QED  BY <1>16, <2>1, <2>3, WriteType DEF DeclareDegraded, TypeOK, files, Numbered
<1>17. ASSUME NEW q \in Requests, StartRun(q) PROVE TypeOK' /\ Numbered'
  <2>1. job' \in [Owners -> JobRecords] /\ woken' \in [Msgs -> 0 .. MaxWakes]
    BY <1>17, JobType, WakeType DEF StartRun, Labels, Owners
  <2> QED  BY <1>17, <2>1 DEF StartRun, TypeOK, files, Numbered
<1>18. ASSUME NEW q \in Requests, RejectHistory(q) PROVE TypeOK' /\ Numbered'
  <2>1. job' \in [Owners -> JobRecords] /\ held' \in [Owners -> SUBSET Msgs]
    BY <1>18, JobType, HoldType DEF RejectHistory, Labels, Owners
  <2> QED  BY <1>18, <2>1 DEF RejectHistory, Fail, FaultKinds, TypeOK, files, Numbered
<1>19. CASE Lapse
  <2>1. claim' \in Claims /\ claim'.owner = claim.owner /\ claim'.start = claim.start
    BY <1>19 DEF Lapse, TypeOK, Claims
  <2> QED  BY <1>19, <2>1 DEF Lapse, Fail, FaultKinds, TypeOK, Numbered
<1>20. CASE WakingAges
  BY <1>20 DEF WakingAges, TypeOK, Numbered
<1>21. CASE SenderAppends
  <2>1. sent' \in Msgs /\ sent' \in 0 .. MaxLines
    BY <1>b, <1>21 DEF SenderAppends, Msgs, TypeOK
  <2>2. inbox' \in Seq(Msgs)
    BY <1>21, <2>1 DEF SenderAppends, TypeOK
  <2> QED  BY <1>21, <2>1, <2>2 DEF SenderAppends, TypeOK, Numbered
<1>22. CASE CloseLines
  <2>1. offset' \in Nat /\ dispatched' \in Nat
    BY <1>22 DEF CloseLines, Larger, TypeOK
  <2> QED  BY <1>22, <2>1 DEF CloseLines, TypeOK, Numbered
<1>23. CASE Rotate
  BY <1>23 DEF Rotate, Fail, FaultKinds, TypeOK, Numbered
<1>24. CASE UNCHANGED vars
  BY <1>24 DEF vars, files, TypeOK, Numbered
<1> QED
  BY <1>1, <1>2, <1>3, <1>4, <1>5, <1>6, <1>7, <1>8, <1>11, <1>12, <1>13, <1>14, <1>15, <1>16,
     <1>17, <1>18, <1>19, <1>20, <1>21, <1>22, <1>23, <1>24
  DEF Next, WatcherStep, RequestStep, OwnerStep, Environment

\* Every variable keeps its type.
THEOREM TypesHold == Spec => []TypeOK
  BY InitTypes, NextTypes, PTL DEF Spec

-----------------------------------------------------------------------------
(* A line has one owner                                                    *)

\* Nothing has taken the line numbers or a slow owner's claim away.
Steady == faults \cap {"lapse", "reset", "swallow", "rotate"} = {}

\* Then the inbox is what was sent, and no cursor or range goes beyond it.
WithinInbox ==
  /\ Len(inbox) = sent /\ \A l \in 1 .. Len(inbox) : inbox[l] = l
  /\ offset <= Len(inbox) /\ dispatched <= Len(inbox)
  /\ claim.end <= Len(inbox) /\ claim.prev <= Len(inbox)
  /\ \A w \in Watchers : job[w].total <= Len(inbox)

\* A claim lapses only after its owner has gone, and a request does not come twice.
LapsedIsLeft ==
  /\ claim.owner # NoOwner /\ ~claim.fresh => ~Active(claim.owner)
  /\ claim.owner \in Requests => job[claim.owner].pc # "idle"

Claiming(o) == job[o].pc \in {"post", "accept", "record", "commit", "abort"} /\ job[o].claimed
ClaimLines == claim.start .. claim.end

\* Who holds lines has the claim over them or their run has closed them, and nobody
\* else holds lines of the claim in the file.
Ownership ==
  /\ \A o \in Owners : held[o] # {} => Claiming(o)
  /\ \A o \in Owners : held[o] \subseteq 1 .. offset \/ (claim.owner = o /\ held[o] \subseteq ClaimLines)
  /\ claim.owner # NoOwner => \A o \in Owners \ {claim.owner} : held[o] \cap ClaimLines = {}
  /\ \A a, b \in Owners : a # b => held[a] \cap held[b] = {}

OneOwner == Steady => WithinInbox /\ LapsedIsLeft /\ Ownership

\* A step that leaves the claim's lines and gives nobody more.
LEMMA OwnershipStays ==
  ASSUME TypeOK, Ownership, offset' \in Nat, offset <= offset',
         claim'.owner = claim.owner, claim'.start = claim.start, claim'.end = claim.end,
         \A o \in Owners : held'[o] \subseteq held[o] /\ (held'[o] # {} => Claiming(o)')
  PROVE  Ownership'
<1>1. 1 .. offset \subseteq 1 .. offset'
  BY DEF TypeOK
<1>2. ClaimLines' = ClaimLines
  BY DEF ClaimLines
<1>3. \A o \in Owners : held'[o] \subseteq 1 .. offset' \/ (claim'.owner = o /\ held'[o] \subseteq ClaimLines')
  <2> HIDE DEF ClaimLines
  <2> QED  BY <1>1, <1>2 DEF Ownership
<1>4. claim'.owner # NoOwner => \A o \in Owners \ {claim'.owner} : held'[o] \cap ClaimLines' = {}
  BY <1>2 DEF Ownership
<1>5. \A a, b \in Owners : a # b => held'[a] \cap held'[b] = {}
  BY DEF Ownership
<1> QED  BY <1>3, <1>4, <1>5 DEF Ownership

\* A claim is dropped by its owner.
LEMMA OwnershipDropped ==
  ASSUME TypeOK, Ownership, NEW o \in Owners, claim.owner = o, claim' = NoClaim, offset' = offset,
         \A p \in Owners : held'[p] = IF p = o THEN {} ELSE held[p],
         \A p \in Owners \ {o} : job'[p] = job[p]
  PROVE  Ownership'
<1>1. \A p \in Owners : held'[p] # {} => Claiming(p)'
  BY DEF Ownership, Claiming
<1>2. \A p \in Owners : held'[p] \subseteq 1 .. offset'
  BY DEF Ownership
<1>3. claim'.owner = NoOwner
  BY DEF NoClaim
<1>4. \A a, b \in Owners : a # b => held'[a] \cap held'[b] = {}
  BY DEF Ownership
<1> QED  BY <1>1, <1>2, <1>3, <1>4 DEF Ownership

\* Reserve under the lock: either the claim stays as it is, or it is the caller's, over
\* lines of the inbox that nobody else holds.
LEMMA ReserveEffect ==
  ASSUME TypeOK, Numbered, Steady, WithinInbox, LapsedIsLeft, Ownership,
         NEW o \in Owners, NEW wholly \in BOOLEAN, WriteReservation(Reservation(o), wholly)
  PROVE  /\ UNCHANGED <<offset, inbox, marking, waking>> /\ claim' = Reservation(o).claim
         /\ claim' \in Claims /\ dispatched' <= Len(inbox)
         /\ claim'.end <= Len(inbox) /\ claim'.prev <= Len(inbox)
         /\ ~Granted(Reservation(o)) => claim' = claim
         /\ Granted(Reservation(o)) =>
              /\ claim'.owner = o /\ claim'.fresh
              /\ \A p \in Owners \ {o} : held[p] \subseteq 1 .. offset
              /\ \A p \in Owners \ {o} : held[p] \cap ClaimLines' = {}
<1> DEFINE r == Reservation(o)
           next == Larger(offset, dispatched) + 1
<1>1. Len(inbox) \in Nat /\ offset \in Nat /\ dispatched \in Nat /\ claim \in Claims
  BY DEF TypeOK
<1>2. Cursors = [offset |-> offset, dispatched |-> dispatched, claim |-> claim]
  BY <1>1 DEF Cursors, Rotated, Larger, WithinInbox
<1>3. /\ offset' = offset /\ claim' = r.claim /\ dispatched' \in {r.upto, dispatched}
      /\ UNCHANGED <<inbox, marking, waking>>
  BY <1>2 DEF WriteReservation
<1>4. CASE IsOpen(claim, offset)
  <2>1. claim.owner # NoOwner /\ claim.end > offset
    BY <1>4 DEF IsOpen
  <2>2. CASE claim.owner = o
    <3>1. r = [how |-> "claimed", claim |-> [claim EXCEPT !.fresh = TRUE], upto |-> dispatched]
      BY <1>2, <1>4, <2>2 DEF Reservation
    <3> HIDE DEF r
    <3>2. claim' = [claim EXCEPT !.fresh = TRUE] /\ dispatched' = dispatched /\ r.how = "claimed"
      BY <1>3, <3>1
    <3>3. claim' \in Claims /\ claim'.owner = o /\ claim'.fresh /\ claim'.prev = claim.prev
          /\ claim'.start = claim.start /\ claim'.end = claim.end
      BY <1>1, <2>2, <3>2 DEF Claims
    <3>4. \A p \in Owners \ {o} : held[p] \subseteq 1 .. offset /\ held[p] \cap ClaimLines' = {}
      BY <2>1, <2>2, <3>3 DEF Ownership, ClaimLines
    <3> QED  BY <1>3, <3>2, <3>3, <3>4 DEF WithinInbox, Granted, r
  <2>3. CASE claim.owner # o /\ claim.fresh
    <3>1. r = [how |-> "held", claim |-> claim, upto |-> dispatched]
      BY <1>2, <1>4, <2>3 DEF Reservation
    <3> HIDE DEF r
    <3> QED  BY <1>1, <1>3, <3>1 DEF WithinInbox, Granted, r
  <2>4. CASE claim.owner # o /\ ~claim.fresh
    <3>1. r = [how |-> "takeover", claim |-> Record(o, claim.start, claim.end, dispatched),
               upto |-> claim.end]
      BY <1>2, <1>4, <2>4 DEF Reservation
    <3> HIDE DEF r
    <3>2. claim' = Record(o, claim.start, claim.end, dispatched) /\ r.how = "takeover"
          /\ dispatched' \in {dispatched, claim.end}
      BY <1>3, <3>1
    <3>3. claim' \in Claims /\ claim'.owner = o /\ claim'.fresh /\ claim'.prev = dispatched
          /\ claim'.start = claim.start /\ claim'.end = claim.end
      BY <1>1, <3>2 DEF Claims, Record
    <3>4. claim.owner \in Owners /\ held[claim.owner] = {}
      BY <1>1, <2>1, <2>4 DEF LapsedIsLeft, Ownership, Claiming, Active, Claims
    <3>5. \A p \in Owners \ {o} : held[p] \subseteq 1 .. offset /\ held[p] \cap ClaimLines' = {}
      BY <2>1, <3>3, <3>4 DEF Ownership, ClaimLines
    <3> QED  BY <1>3, <3>2, <3>3, <3>5 DEF WithinInbox, Granted, r
  <2> QED  BY <2>2, <2>3, <2>4
<1>5. CASE ~IsOpen(claim, offset)
  <2>1. claim.owner # NoOwner => claim.end <= offset
    BY <1>1, <1>5 DEF IsOpen, Claims
  <2>2. CASE Len(inbox) < next
    <3>1. r = [how |-> "nothing", claim |-> claim, upto |-> dispatched]
      BY <1>2, <1>5, <2>2 DEF Reservation
    <3> HIDE DEF r
    <3> QED  BY <1>1, <1>3, <3>1 DEF WithinInbox, Granted, r
  <2>3. CASE ~(Len(inbox) < next)
    <3>1. r = [how |-> "claimed", claim |-> Record(o, next, Len(inbox), dispatched), upto |-> Len(inbox)]
      BY <1>2, <1>5, <2>3 DEF Reservation
    <3>2. next \in Nat /\ next > offset
      BY <1>1 DEF Larger
    <3> HIDE DEF r, next
    <3>3. claim' = Record(o, next, Len(inbox), dispatched) /\ r.how = "claimed"
          /\ dispatched' \in {dispatched, Len(inbox)}
      BY <1>3, <3>1
    <3>4. claim' \in Claims /\ claim'.owner = o /\ claim'.fresh /\ claim'.prev = dispatched
          /\ claim'.start = next /\ claim'.end = Len(inbox)
      BY <1>1, <3>2, <3>3 DEF Claims, Record
    <3>5. ASSUME NEW p \in Owners \ {o} PROVE held[p] \subseteq 1 .. offset
      <4>1. CASE held[p] \subseteq 1 .. offset
        BY <4>1
      <4>2. CASE claim.owner = p /\ held[p] \subseteq ClaimLines
        <5>1. claim.end <= offset /\ claim.end \in Nat /\ claim.start \in Nat \ {0}
          BY <1>1, <2>1, <4>2, ConstantsAreDistinct DEF Numbered, Claims
        <5> QED  BY <1>1, <4>2, <5>1 DEF ClaimLines
      <4> QED  BY <4>1, <4>2 DEF Ownership
    <3>6. \A p \in Owners \ {o} : held[p] \cap ClaimLines' = {}
      BY <1>1, <3>2, <3>4, <3>5 DEF ClaimLines
    <3> QED  BY <1>1, <1>3, <3>3, <3>4, <3>5, <3>6 DEF WithinInbox, Granted, r
  <2> QED  BY <2>2, <2>3
<1> QED  BY <1>4, <1>5

\* A claim is granted, and its owner told of nothing but its lines.
LEMMA OwnershipGranted ==
  ASSUME TypeOK, Ownership, NEW o \in Owners, claim'.owner = o, offset' = offset,
         \A p \in Owners \ {o} : held[p] \subseteq 1 .. offset,
         \A p \in Owners \ {o} : held[p] \cap ClaimLines' = {},
         \A p \in Owners \ {o} : held'[p] = held[p] /\ job'[p] = job[p],
         held'[o] \subseteq ClaimLines', held'[o] # {} => Claiming(o)'
  PROVE  Ownership'
<1>1. \A p \in Owners : held'[p] # {} => Claiming(p)'
  BY DEF Ownership, Claiming
<1>2. \A p \in Owners : held'[p] \subseteq 1 .. offset' \/ (claim'.owner = p /\ held'[p] \subseteq ClaimLines')
  OBVIOUS
<1>3. \A p \in Owners \ {claim'.owner} : held'[p] \cap ClaimLines' = {}
  OBVIOUS
<1>4. \A a, b \in Owners : a # b => held'[a] \cap held'[b] = {}
  BY DEF Ownership
<1> QED  BY <1>1, <1>2, <1>3, <1>4 DEF Ownership

\* A step of one owner that leaves the claim and the processed lines as they are.
LEMMA OneMoves ==
  ASSUME TypeOK, LapsedIsLeft, Ownership, NEW o \in Owners, UNCHANGED <<offset, claim>>,
         \A p \in Owners : held'[p] \subseteq held[p],
         \A p \in Owners \ {o} : job'[p] = job[p],
         held'[o] # {} => Claiming(o)',
         claim.owner = o /\ Active(o)' => Active(o),
         job'[o].pc = "idle" => job[o].pc = "idle" \/ o \in Watchers
  PROVE  LapsedIsLeft' /\ Ownership'
<1>1. Ownership'
  <2>1. \A p \in Owners : held'[p] # {} => Claiming(p)'
    BY DEF Ownership, Claiming
  <2>2. offset' \in Nat /\ offset <= offset'
    BY DEF TypeOK
  <2> QED  BY <2>1, <2>2, OwnershipStays
<1>2. LapsedIsLeft'
  BY ConstantsAreDistinct DEF LapsedIsLeft, Active, Owners, TypeOK, Claims
<1> QED  BY <1>1, <1>2

\* Where an owner is after a step of its own.
LEMMA JobEffect ==
  ASSUME TypeOK, NEW o \in Owners, NEW label \in Labels
  PROVE  /\ Goto(o, label) =>
              /\ job'[o].pc = label /\ job'[o].total = job[o].total
              /\ job'[o].claimed = job[o].claimed
              /\ \A p \in Owners \ {o} : job'[p] = job[p]
         /\ Finish(o) =>
              /\ job'[o].pc \in {"idle", "done"} /\ job'[o].total = 0
              /\ job'[o].pc = "idle" => o \in Watchers
              /\ \A p \in Owners \ {o} : job'[p] = job[p]
  BY DEF TypeOK, Goto, Finish, Idle, JobRecords

\* The cursors and ranges stay within an inbox that stays.
LEMMA WithinStays ==
  ASSUME TypeOK, WithinInbox, NEW o \in Owners, UNCHANGED <<sent, inbox, offset>>,
         \/ dispatched' \in {dispatched, claim.prev}
         \/ o \in Watchers /\ dispatched' = job[o].total,
         claim' \in {claim, NoClaim}, job'[o].total \in {0, job[o].total, Len(inbox)},
         \A p \in Owners \ {o} : job'[p] = job[p]
  PROVE  WithinInbox'
<1>1. Len(inbox) \in Nat /\ \A w \in Watchers : w \in Owners
  BY DEF TypeOK, Owners
<1>2. claim'.end <= Len(inbox) /\ claim'.prev <= Len(inbox)
  BY <1>1 DEF WithinInbox, NoClaim
<1>3. dispatched' <= Len(inbox)
  BY DEF WithinInbox
<1>4. \A w \in Watchers : job'[w].total <= Len(inbox)
  BY <1>1 DEF WithinInbox
<1> QED  BY <1>2, <1>3, <1>4 DEF WithinInbox

\* At the start nobody holds anything.
LEMMA InitOneOwner == Init => OneOwner
<1> SUFFICES ASSUME Init PROVE OneOwner
  OBVIOUS
<1>1. claim.owner = NoOwner /\ claim.end = 0 /\ claim.prev = 0 /\ Len(inbox) = 0
      /\ \A o \in Owners : held[o] = {} /\ job[o].total = 0
  BY DEF Init, NoClaim, Idle
<1>2. WithinInbox
  BY <1>1 DEF Init, WithinInbox, Owners
<1>3. LapsedIsLeft /\ Ownership
  BY <1>1, ConstantsAreDistinct DEF LapsedIsLeft, Ownership, Owners
<1> QED  BY <1>2, <1>3 DEF OneOwner

\* Faults are never forgotten.
LEMMA FaultsStay == [Next]_vars => faults \subseteq faults'
  BY DEF Next, WatcherStep, RequestStep, OwnerStep, Environment, StartWatch, CheckCursors,
         ReserveLines, ReserveFails, PostAccepted, PostNotAccepted, RecordDispatched,
         CrashInReserve, Declare, DeclareDegraded, StartRun, RejectHistory, Commit, Abort,
         ReplaceInbox, Crash, Lapse, WakingAges, CloseLines, Rotate, SenderAppends,
         Fail, Note, vars

\* Every step keeps the ownership, as long as nothing takes the numbers or a claim away.
LEMMA NextOneOwner == TypeOK /\ Numbered /\ TypeOK' /\ OneOwner /\ [Next]_vars => OneOwner'
<1> SUFFICES ASSUME TypeOK, Numbered, TypeOK', OneOwner, [Next]_vars, Steady'
             PROVE  WithinInbox' /\ LapsedIsLeft' /\ Ownership'
  BY DEF OneOwner
<1>s. Steady /\ WithinInbox /\ LapsedIsLeft /\ Ownership
  BY FaultsStay DEF Steady, OneOwner
<1>t. \A o \in Owners : job[o] \in JobRecords /\ (held[o] # {} => Claiming(o))
  BY <1>s DEF TypeOK, Ownership
<1>w. Watchers \subseteq Owners /\ Requests \subseteq Owners /\ Watchers \cap Requests = {}
      /\ NoOwner \notin Owners /\ Len(inbox) \in Nat /\ offset \in Nat /\ claim \in Claims
  BY ConstantsAreDistinct DEF Owners, TypeOK
\* A step of one owner that leaves claim and cursors, except that it may record what the
\* script has counted.
<1>1. ASSUME NEW o \in Owners, UNCHANGED <<sent, inbox, offset, claim>>,
             dispatched' = dispatched \/ (o \in Watchers /\ dispatched' = job[o].total),
             \A p \in Owners \ {o} : job'[p] = job[p],
             job'[o].total \in {0, job[o].total, Len(inbox)},
             \A p \in Owners : held'[p] \subseteq held[p], held'[o] # {} => Claiming(o)',
             claim.owner = o /\ Active(o)' => Active(o),
             job'[o].pc = "idle" => job[o].pc = "idle" \/ o \in Watchers
      PROVE  WithinInbox' /\ LapsedIsLeft' /\ Ownership'
  <2>1. LapsedIsLeft' /\ Ownership'
    BY <1>s, <1>1, OneMoves
  <2>2. WithinInbox'
    BY <1>s, <1>1, WithinStays
  <2> QED  BY <2>1, <2>2
<1>2. ASSUME NEW w \in Watchers, StartWatch(w)
      PROVE  WithinInbox' /\ LapsedIsLeft' /\ Ownership'
  <2>1. /\ UNCHANGED <<sent, files, held>> /\ claim.owner # w /\ job[w].pc = "idle"
        /\ job' = [job EXCEPT ![w] = [Idle EXCEPT !.pc = "cursors", !.total = Len(inbox)]]
    BY <1>2 DEF StartWatch
  <2>2. job'[w].pc = "cursors" /\ job'[w].total = Len(inbox)
        /\ \A p \in Owners \ {w} : job'[p] = job[p]
    BY <1>w, <2>1 DEF TypeOK, Idle
  <2>3. held[w] = {}
    BY <1>t, <1>w, <2>1 DEF Claiming
  <2> QED  BY <1>w, <1>1, <2>1, <2>2, <2>3 DEF files
<1>3. ASSUME NEW w \in Watchers, CheckCursors(w)
      PROVE  WithinInbox' /\ LapsedIsLeft' /\ Ownership'
  <2>1. UNCHANGED <<sent, inbox, claim, held>> /\ job[w].pc = "cursors"
    BY <1>3 DEF CheckCursors
  <2>2. offset' = offset /\ dispatched' = dispatched
    BY <1>3, <1>s DEF CheckCursors, Note, Steady
  <2>3. job'[w].total \in {0, job[w].total} /\ (job'[w].pc = "idle" => w \in Watchers)
        /\ \A p \in Owners \ {w} : job'[p] = job[p]
    <3>1. CASE Finish(w)
      BY <3>1, <1>w, JobEffect DEF Labels
    <3>2. CASE job' = [job EXCEPT ![w].pc = "reserve", ![w].offset = offset']
      BY <3>2, <1>t, <1>w DEF TypeOK, JobRecords
    <3> QED  BY <1>3, <3>1, <3>2 DEF CheckCursors
  <2>4. held[w] = {} /\ Active(w)
    BY <1>t, <1>w, <2>1 DEF Claiming, Active
  <2> QED  BY <1>w, <1>1, <2>1, <2>2, <2>3, <2>4
<1>4. ASSUME NEW w \in Watchers, ReserveFails(w)
      PROVE  WithinInbox' /\ LapsedIsLeft' /\ Ownership'
  <2>1. UNCHANGED <<sent, files, held>> /\ job[w].pc = "reserve" /\ Goto(w, "post")
    BY <1>4 DEF ReserveFails
  <2>2. held[w] = {} /\ Active(w)
    BY <1>t, <1>w, <2>1 DEF Claiming, Active
  <2>3. /\ job'[w].pc = "post" /\ job'[w].total = job[w].total
        /\ \A p \in Owners \ {w} : job'[p] = job[p]
    BY <1>w, <2>1, JobEffect DEF Labels
  <2> QED  BY <1>w, <1>1, <2>1, <2>2, <2>3 DEF files
\* An owner goes on, keeping what it holds, or ends and holds nothing.
<1>5. ASSUME NEW o \in Owners, NEW label \in {"record", "commit", "abort"}, Active(o),
             UNCHANGED <<sent, inbox, offset, claim>>,
             dispatched' = dispatched \/ (o \in Watchers /\ dispatched' = job[o].total),
             \/ Goto(o, label) /\ held' = held
             \/ Finish(o) /\ (\A p \in Owners : held'[p] \subseteq held[p]) /\ held'[o] = {}
      PROVE  WithinInbox' /\ LapsedIsLeft' /\ Ownership'
  <2>1. CASE Goto(o, label) /\ held' = held
    <3>1. /\ job'[o].pc = label /\ job'[o].total = job[o].total /\ job'[o].claimed = job[o].claimed
          /\ \A p \in Owners \ {o} : job'[p] = job[p]
      BY <2>1, JobEffect DEF Labels
    <3>2. held'[o] # {} => Claiming(o)'
      BY <1>t, <2>1, <3>1 DEF Claiming
    <3>3. \A p \in Owners : held'[p] \subseteq held[p]
      BY <2>1
    <3> QED  BY <1>1, <1>5, <3>1, <3>2, <3>3
  <2>2. CASE Finish(o) /\ (\A p \in Owners : held'[p] \subseteq held[p]) /\ held'[o] = {}
    <3>1. /\ job'[o].total = 0 /\ (job'[o].pc = "idle" => o \in Watchers)
          /\ \A p \in Owners \ {o} : job'[p] = job[p]
      BY <2>2, JobEffect DEF Labels
    <3> QED  BY <1>1, <1>5, <2>2, <3>1
  <2> QED  BY <1>5, <2>1, <2>2
<1>6. ASSUME NEW o \in Owners, Drop(o)
      PROVE  held'[o] = {} /\ (\A p \in Owners : held'[p] \subseteq held[p])
             /\ \A p \in Owners : held'[p] = IF p = o THEN {} ELSE held[p]
  BY <1>6 DEF Drop, TypeOK
<1>7. ASSUME NEW w \in Watchers, PostAccepted(w) \/ PostNotAccepted(w)
      PROVE  WithinInbox' /\ LapsedIsLeft' /\ Ownership'
  <2>1. Active(w) /\ UNCHANGED <<sent, inbox, offset, claim, dispatched>>
    BY <1>7 DEF PostAccepted, PostNotAccepted, Active, files
  <2>2. \/ Goto(w, "record") /\ held' = held
        \/ Goto(w, "abort") /\ held' = held
        \/ Finish(w) /\ Drop(w)
    BY <1>7 DEF PostAccepted, PostNotAccepted
  <2> QED  BY <1>w, <1>5, <1>6, <2>1, <2>2
<1>8. ASSUME NEW w \in Watchers, RecordDispatched(w)
      PROVE  WithinInbox' /\ LapsedIsLeft' /\ Ownership'
  <2>1. Active(w) /\ UNCHANGED <<sent, inbox, offset, claim, held>> /\ dispatched' = job[w].total
    BY <1>8 DEF RecordDispatched, Active
  <2>2. Goto(w, "commit") \/ (Finish(w) /\ ~job[w].claimed)
    BY <1>8 DEF RecordDispatched
  <2>3. ~job[w].claimed => held[w] = {}
    BY <1>t, <1>w DEF Claiming
  <2> QED  BY <1>w, <1>5, <2>1, <2>2, <2>3
<1>9. ASSUME NEW q \in Requests, StartRun(q) \/ RejectHistory(q)
      PROVE  WithinInbox' /\ LapsedIsLeft' /\ Ownership'
  <2>1. Active(q) /\ UNCHANGED <<sent, inbox, offset, claim, dispatched>>
    BY <1>9 DEF StartRun, RejectHistory, Active, files
  <2>2. \/ Goto(q, "commit") /\ held' = held
        \/ Finish(q) /\ ~job[q].claimed /\ held' = held
        \/ Finish(q) /\ Drop(q)
    BY <1>9 DEF StartRun, RejectHistory
  <2>3. ~job[q].claimed => held[q] = {}
    BY <1>t, <1>w DEF Claiming
  <2> QED  BY <1>w, <1>5, <1>6, <2>1, <2>2, <2>3
<1>10. ASSUME NEW o \in Owners, Crash(o)
       PROVE  WithinInbox' /\ LapsedIsLeft' /\ Ownership'
  <2>1. Active(o) /\ UNCHANGED <<sent, inbox, offset, claim, dispatched>> /\ Finish(o) /\ Drop(o)
    BY <1>10 DEF Crash
  <2> QED  BY <1>5, <1>6, <2>1
<1>11. ASSUME NEW o \in Owners, ReplaceInbox(o)
       PROVE  WithinInbox' /\ LapsedIsLeft' /\ Ownership'
  <2>1. /\ Active(o) /\ UNCHANGED <<sent, offset, claim, dispatched, held>> /\ Finish(o)
        /\ job[o].pc = "mark"
    BY <1>11 DEF ReplaceInbox, Active
  <2>2. inbox' = inbox
    BY <1>11 DEF ReplaceInbox, Note, Steady
  <2>3. held[o] = {}
    BY <1>t, <2>1 DEF Claiming
  <2> QED  BY <1>5, <2>1, <2>2, <2>3
\* The owner of the claim gives it up.
<1>12. ASSUME NEW o \in Owners, claim.owner = o, claim' = NoClaim, Drop(o),
              UNCHANGED <<sent, inbox, offset>>, dispatched' \in {dispatched, claim.prev},
              Finish(o) \/ Goto(o, "mark")
       PROVE  WithinInbox' /\ LapsedIsLeft' /\ Ownership'
  <2>1. job'[o].total \in {0, job[o].total} /\ \A p \in Owners \ {o} : job'[p] = job[p]
    BY <1>12, JobEffect DEF Labels
  <2>2. Ownership'
    BY <1>s, <1>6, <1>12, <2>1, OwnershipDropped
  <2>3. LapsedIsLeft'
    BY <1>w, <1>12 DEF LapsedIsLeft, NoClaim
  <2>4. WithinInbox'
    <3>1. /\ Len(inbox') = Len(inbox) /\ claim'.end = 0 /\ claim'.prev = 0
          /\ claim.prev <= Len(inbox) /\ dispatched <= Len(inbox)
      BY <1>s, <1>12 DEF WithinInbox, NoClaim
    <3>2. \A w \in Watchers : job'[w].total <= Len(inbox)
      BY <1>s, <1>w, <2>1 DEF WithinInbox
    <3> QED  BY <1>s, <1>w, <1>12, <3>1, <3>2 DEF WithinInbox
  <2> QED  BY <2>2, <2>3, <2>4
\* Another's claim is left alone.
<1>13. ASSUME NEW o \in Owners, Active(o), UNCHANGED <<sent, inbox, offset, claim, dispatched>>,
              Drop(o), Finish(o)
       PROVE  WithinInbox' /\ LapsedIsLeft' /\ Ownership'
  BY <1>5, <1>6, <1>13
<1>14. ASSUME NEW o \in Owners, Commit(o) \/ Abort(o)
       PROVE  WithinInbox' /\ LapsedIsLeft' /\ Ownership'
  <2>1. Active(o) /\ Drop(o) /\ UNCHANGED <<sent, inbox, offset>>
    BY <1>14 DEF Commit, Abort, Active
  <2>2. \/ claim.owner = o /\ claim' = NoClaim /\ dispatched' \in {dispatched, claim.prev}
              /\ (Finish(o) \/ Goto(o, "mark"))
        \/ UNCHANGED <<claim, dispatched>> /\ Finish(o)
    BY <1>14 DEF Commit, Abort
  <2> QED  BY <1>12, <1>13, <2>1, <2>2
\* A reservation, by a watcher or by a request.
<1>15. ASSUME NEW o \in Owners, NEW wholly \in BOOLEAN, WriteReservation(Reservation(o), wholly),
              UNCHANGED sent, held[o] = {},
              \A p \in Owners \ {o} : job'[p] = job[p] /\ held'[p] = held[p],
              held'[o] # {} => Granted(Reservation(o)) /\ Claiming(o)' /\ held'[o] \subseteq ClaimLines',
              o \in Watchers => job'[o].total <= Len(inbox),
              job'[o].pc = "idle" => o \in Watchers,
              claim.owner = o /\ Active(o)' => Active(o) \/ Granted(Reservation(o))
       PROVE  WithinInbox' /\ LapsedIsLeft' /\ Ownership'
  <2>1. /\ UNCHANGED <<offset, inbox>> /\ claim' = Reservation(o).claim /\ dispatched' <= Len(inbox)
        /\ claim'.end <= Len(inbox) /\ claim'.prev <= Len(inbox)
        /\ (~Granted(Reservation(o)) => claim' = claim)
        /\ (Granted(Reservation(o)) =>
              /\ claim'.owner = o /\ claim'.fresh
              /\ \A p \in Owners \ {o} : held[p] \subseteq 1 .. offset
              /\ \A p \in Owners \ {o} : held[p] \cap ClaimLines' = {})
    BY <1>s, <1>15, ReserveEffect
  <2>2. WithinInbox'
    <3>1. \A w \in Watchers : job'[w].total <= Len(inbox)
      BY <1>s, <1>w, <1>15 DEF WithinInbox
    <3> QED  BY <1>s, <1>15, <2>1, <3>1 DEF WithinInbox
  <2>3. CASE Granted(Reservation(o))
    <3>1. Ownership'
      BY <1>s, <1>15, <2>1, <2>3, OwnershipGranted
    <3>2. LapsedIsLeft'
      BY <1>w, <1>15, <2>1, <2>3 DEF LapsedIsLeft
    <3> QED  BY <2>2, <3>1, <3>2
  <2>4. CASE ~Granted(Reservation(o))
    <3>1. \A p \in Owners : held'[p] \subseteq held[p]
      BY <1>15, <2>4
    <3> QED  BY <1>s, <1>15, <2>1, <2>2, <2>4, <3>1, OneMoves
  <2> QED  BY <2>3, <2>4
\* What an owner is told are lines of its claim.
<1>16. ASSUME NEW o \in Owners, WriteReservation(Reservation(o), TRUE),
              HoldIfGranted(o, Reservation(o))
       PROVE  /\ \A p \in Owners \ {o} : held'[p] = held[p]
              /\ held'[o] # {} => Granted(Reservation(o)) /\ held'[o] \subseteq ClaimLines'
              /\ claim'.end <= Len(inbox)
  <2>1. claim' = Reservation(o).claim /\ claim' \in Claims /\ claim'.end <= Len(inbox)
        /\ (Granted(Reservation(o)) => claim'.owner = o)
    BY <1>s, <1>16, ReserveEffect
  <2>2. MessagesIn(ClaimLines') \subseteq ClaimLines'
    <3>1. \A l \in DOMAIN inbox : inbox[l] = l
      BY <1>s DEF WithinInbox, TypeOK
    <3> QED  BY <3>1 DEF MessagesIn
  <2>3. held' = [held EXCEPT ![o] = IF Granted(Reservation(o)) THEN MessagesIn(ClaimLines') ELSE {}]
    BY <1>16, <2>1 DEF HoldIfGranted, ClaimLines
  <2> QED  BY <2>1, <2>2, <2>3 DEF TypeOK
<1>17. ASSUME NEW w \in Watchers, ReserveLines(w)
       PROVE  WithinInbox' /\ LapsedIsLeft' /\ Ownership'
  <2> DEFINE r == Reservation(w)
  <2>1. job[w].pc = "reserve" /\ WriteReservation(r, TRUE) /\ HoldIfGranted(w, r) /\ UNCHANGED sent
    BY <1>17 DEF ReserveLines
  <2>2. claim' = r.claim
    BY <2>1 DEF WriteReservation
  <2>3. held[w] = {} /\ Active(w)
    BY <1>t, <1>w, <2>1 DEF Claiming, Active
  <2>4. /\ \A p \in Owners \ {w} : held'[p] = held[p]
        /\ held'[w] # {} => Granted(r) /\ held'[w] \subseteq ClaimLines'
        /\ claim'.end <= Len(inbox)
    BY <1>w, <1>16, <2>1
  <2>5. job[w].total <= Len(inbox)
    BY <1>s DEF WithinInbox
  <2>6. /\ \A p \in Owners \ {w} : job'[p] = job[p]
        /\ job'[w].total \in {0, job[w].total, r.claim.end}
        /\ Granted(r) => job'[w].pc = "post" /\ job'[w].claimed
    <3>1. CASE r.how = "claimed" /\ job' = [job EXCEPT ![w] =
             [pc |-> "post", offset |-> r.claim.start - 1, total |-> r.claim.end, claimed |-> TRUE]]
      BY <1>w, <3>1 DEF TypeOK
    <3>2. CASE r.how = "takeover" /\ job' = [job EXCEPT ![w].pc = "post", ![w].claimed = TRUE]
      BY <1>t, <1>w, <3>2 DEF TypeOK, JobRecords
    <3>3. CASE ~Granted(r) /\ Finish(w)
      BY <1>w, <3>3, JobEffect DEF Labels
    <3> HIDE DEF r
    <3> QED  BY <1>17, <3>1, <3>2, <3>3 DEF ReserveLines, Granted, r
  <2> HIDE DEF r
  <2>7. job'[w].total <= Len(inbox)
    BY <1>w, <2>2, <2>4, <2>5, <2>6
  <2>8. held'[w] # {} => Claiming(w)'
    BY <2>4, <2>6 DEF Claiming
  <2> QED  BY <1>w, <1>15, <2>1, <2>3, <2>4, <2>6, <2>7, <2>8 DEF r
<1>18. ASSUME NEW w \in Watchers, CrashInReserve(w)
       PROVE  WithinInbox' /\ LapsedIsLeft' /\ Ownership'
  <2>1. /\ job[w].pc = "reserve" /\ WriteReservation(Reservation(w), FALSE) /\ Finish(w)
        /\ UNCHANGED <<sent, held>>
    BY <1>18 DEF CrashInReserve
  <2>2. held[w] = {} /\ Active(w)
    BY <1>t, <1>w, <2>1 DEF Claiming, Active
  <2>3. job'[w].total = 0 /\ \A p \in Owners \ {w} : job'[p] = job[p]
    BY <1>w, <2>1, JobEffect DEF Labels
  <2>4. job'[w].total <= Len(inbox)
    BY <1>w, <2>3
  <2> QED  BY <1>w, <1>15, <2>1, <2>2, <2>3, <2>4
<1>19. ASSUME NEW q \in Requests, NEW line \in DOMAIN inbox, Declare(q, line)
       PROVE  WithinInbox' /\ LapsedIsLeft' /\ Ownership'
  <2> DEFINE r == Reservation(q)
  <2>1. job[q].pc = "idle" /\ WriteReservation(r, TRUE) /\ HoldIfGranted(q, r) /\ UNCHANGED sent
    BY <1>19 DEF Declare
  <2>2. held[q] = {} /\ q \notin Watchers /\ claim.owner # q
    BY <1>s, <1>t, <1>w, <2>1 DEF Claiming, LapsedIsLeft
  <2>3. /\ \A p \in Owners \ {q} : held'[p] = held[p]
        /\ held'[q] # {} => Granted(r) /\ held'[q] \subseteq ClaimLines'
    BY <1>w, <1>16, <2>1
  <2>4. /\ \A p \in Owners \ {q} : job'[p] = job[p]
        /\ job'[q].pc # "idle"
        /\ Granted(r) => job'[q].pc = "accept" /\ job'[q].claimed
    <3>1. CASE Granted(r) /\ job' = [job EXCEPT ![q] = [pc |-> "accept", offset |-> line - 1,
                                                       total |-> line, claimed |-> TRUE]]
      BY <1>w, <3>1 DEF TypeOK
    <3>2. CASE ~Granted(r) /\ Finish(q)
      BY <1>w, <2>2, <3>2, JobEffect DEF Labels
    <3> HIDE DEF r
    <3> QED  BY <1>19, <3>1, <3>2 DEF Declare, r
  <2> HIDE DEF r
  <2>5. held'[q] # {} => Claiming(q)'
    BY <2>3, <2>4 DEF Claiming
  <2> QED  BY <1>w, <1>15, <2>1, <2>2, <2>3, <2>4, <2>5 DEF r
<1>20. ASSUME NEW q \in Requests, NEW line \in DOMAIN inbox, DeclareDegraded(q, line)
       PROVE  WithinInbox' /\ LapsedIsLeft' /\ Ownership'
  <2>1. /\ job[q].pc = "idle" /\ UNCHANGED <<sent, held>>
        /\ job' = [job EXCEPT ![q] = [Idle EXCEPT !.pc = "accept", !.offset = line - 1, !.total = line]]
    BY <1>20 DEF DeclareDegraded
  <2>2. held[q] = {} /\ q \notin Watchers /\ claim.owner # q
    BY <1>s, <1>t, <1>w, <2>1 DEF Claiming, LapsedIsLeft
  <2>3. job'[q].pc = "accept" /\ \A p \in Owners \ {q} : job'[p] = job[p]
    BY <1>w, <2>1 DEF TypeOK, Idle
  <2>4. CASE WriteReservation(Reservation(q), TRUE)
    BY <1>w, <1>15, <2>1, <2>2, <2>3, <2>4
  <2>5. CASE UNCHANGED files
    <3>1. LapsedIsLeft' /\ Ownership'
      BY <1>s, <1>w, <2>1, <2>2, <2>3, <2>5, OneMoves DEF files
    <3>2. WithinInbox'
      BY <1>s, <1>w, <2>1, <2>2, <2>3, <2>5 DEF WithinInbox, files
    <3> QED  BY <3>1, <3>2
  <2> QED  BY <1>20, <2>4, <2>5 DEF DeclareDegraded
<1>21. CASE Lapse
  <2>1. /\ ~Active(claim.owner) /\ claim' = [claim EXCEPT !.fresh = FALSE]
        /\ UNCHANGED <<sent, inbox, offset, dispatched, job, held>>
    BY <1>21 DEF Lapse, Fail, Steady
  <2>2. claim'.owner = claim.owner /\ claim'.start = claim.start /\ claim'.end = claim.end
        /\ claim'.prev = claim.prev
    BY <1>w, <2>1 DEF Claims
  <2>3. \A o \in Owners : held'[o] # {} => Claiming(o)'
    BY <1>t, <2>1 DEF Claiming
  <2>4. Ownership'
    BY <1>s, <1>w, <2>1, <2>2, <2>3, OwnershipStays
  <2>5. LapsedIsLeft' /\ WithinInbox'
    BY <1>s, <2>1, <2>2 DEF LapsedIsLeft, Active, WithinInbox
  <2> QED  BY <2>4, <2>5
<1>22. CASE CloseLines
  <2>1. /\ UNCHANGED <<sent, inbox, claim, job, held>> /\ offset' \in Nat /\ offset <= offset'
        /\ offset' <= Len(inbox) /\ dispatched' \in {dispatched, offset'}
    BY <1>w, <1>22 DEF CloseLines, Larger
  <2>2. \A o \in Owners : held'[o] # {} => Claiming(o)'
    BY <1>t, <2>1 DEF Claiming
  <2>3. Ownership'
    BY <1>s, <2>1, <2>2, OwnershipStays
  <2>4. LapsedIsLeft' /\ WithinInbox'
    BY <1>s, <2>1 DEF LapsedIsLeft, Active, WithinInbox
  <2> QED  BY <2>3, <2>4
<1>23. CASE SenderAppends
  <2>1. /\ UNCHANGED <<offset, dispatched, claim, job, held>> /\ sent' = sent + 1
        /\ inbox' = Append(inbox, sent + 1)
    BY <1>23 DEF SenderAppends
  <2>2. /\ Len(inbox') = Len(inbox) + 1 /\ inbox'[Len(inbox) + 1] = sent + 1
        /\ \A l \in 1 .. Len(inbox) : inbox'[l] = inbox[l]
    BY <2>1 DEF TypeOK
  <2>3. sent' = Len(inbox') /\ \A l \in 1 .. Len(inbox') : inbox'[l] = l
    BY <1>s, <1>w, <2>1, <2>2 DEF WithinInbox
  <2>4. WithinInbox'
    BY <1>s, <1>w, <2>1, <2>2, <2>3 DEF WithinInbox, TypeOK, Claims, JobRecords
  <2>5. LapsedIsLeft' /\ Ownership'
    BY <1>s, <2>1 DEF LapsedIsLeft, Ownership, Active, Claiming, ClaimLines
  <2> QED  BY <2>4, <2>5
<1>24. CASE WakingAges \/ UNCHANGED vars
  BY <1>s, <1>24
  DEF WakingAges, vars, files, WithinInbox, LapsedIsLeft, Ownership, Active, Claiming, ClaimLines
<1>25. ~Rotate
  BY DEF Rotate, Fail, Steady
<1> QED
  BY <1>2, <1>3, <1>4, <1>7, <1>8, <1>9, <1>10, <1>11, <1>14, <1>17, <1>18, <1>19, <1>20, <1>21,
     <1>22, <1>23, <1>24, <1>25
  DEF Next, WatcherStep, RequestStep, OwnerStep, Environment

\* Two owners are told that the same message is theirs only if the first was slower
\* than the TTL or the line numbers changed under them.
THEOREM OneOwnerPerLine == Spec => []Exclusive
<1>1. TypeOK /\ OneOwner => Exclusive
  BY DEF OneOwner, Exclusive, Steady, Ownership
<1>2. Spec => [](TypeOK /\ Numbered)
  BY InitTypes, NextTypes, PTL DEF Spec
<1> QED  BY <1>1, <1>2, InitOneOwner, NextOneOwner, PTL DEF Spec
=============================================================================
