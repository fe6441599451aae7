-------------------------- MODULE InboxAccountProofs --------------------------
(***************************************************************************)
(* Proof about InboxClaim that no line behind the dispatch cursor is        *)
(* forgotten, whatever crashes or lapses (Accounted).                       *)
(***************************************************************************)
EXTENDS InboxClaimProofs

-----------------------------------------------------------------------------
\* Lines keep their numbers.
Calm == faults \cap {"rotate", "swallow"} = {}

\* Lines whose message was handed to a run or overlooked; there is no way back.
Settled == {l \in 1 .. Len(inbox) : woken[inbox[l]] > 0 \/ inbox[l] \in overlooked}

\* Closed lines are settled, lines handed out are settled or still named by the claim,
\* and a claim begins after settled ones; without a claim no line is named.
Books ==
  /\ 1 .. offset \subseteq Settled
  /\ 1 .. dispatched \subseteq Settled \cup ClaimLines
  /\ claim.owner # NoOwner => 1 .. (claim.start - 1) \subseteq Settled
  /\ claim.owner = NoOwner => claim.end = 0

\* What a run of the script has in hand: lines before its own are settled, and so are its
\* own once a run has been told of them.
Script(w) ==
  /\ job[w].pc \in {"cursors", "reserve"} => claim.owner # w
  /\ job[w].pc \in {"reserve", "post"} => 1 .. job[w].offset \subseteq Settled
  /\ job[w].pc = "record" => 1 .. job[w].total \subseteq Settled

\* What the owner of the claim leaves behind when it drops it.
Closing(o) ==
  claim.owner = o =>
    /\ job[o].pc = "commit" /\ o \in Watchers => 1 .. dispatched \subseteq Settled
    /\ job[o].pc = "abort" \/ (job[o].pc = "post" /\ job[o].claimed) =>
         dispatched = claim.end \/ 1 .. dispatched \subseteq Settled

Account ==
  Calm => WithinInbox /\ Books /\ (\A w \in Watchers : Script(w)) /\ \A o \in Owners : Closing(o)

\* Messages are handed out and overlooked, never the reverse.
LEMMA SettledStays ==
  ASSUME TypeOK, NEW lines, inbox' = inbox \/ (Len(inbox) = sent /\ inbox' = Append(inbox, sent + 1)),
         Wake(lines) \/ woken' = woken, overlooked \subseteq overlooked'
  PROVE  Settled \subseteq Settled'
<1>1. Len(inbox) \in Nat /\ Len(inbox) <= Len(inbox') /\ Len(inbox') \in Nat
      /\ \A l \in 1 .. Len(inbox) : inbox'[l] = inbox[l] /\ inbox[l] \in Msgs
  BY DEF TypeOK
<1>2. \A m \in Msgs : woken[m] > 0 => woken'[m] > 0
  BY ConstantsAreDistinct DEF Wake, TypeOK
<1> QED  BY <1>1, <1>2 DEF Settled

\* Lines a run is told of are settled.
LEMMA WakeSettles ==
  ASSUME TypeOK, NEW from \in Nat, NEW to \in Nat, inbox' = inbox, Wake((from + 1) .. to),
         overlooked \subseteq overlooked', to <= Len(inbox), 1 .. from \subseteq Settled
  PROVE  1 .. to \subseteq Settled'
<1>1. Settled \subseteq Settled'
  BY SettledStays
<1>2. ASSUME NEW l \in (from + 1) .. to PROVE l \in Settled'
  <2>1. l \in 1 .. Len(inbox) /\ inbox[l] \in Msgs /\ l \in DOMAIN inbox
    BY DEF TypeOK
  <2>2. inbox[l] \in MessagesIn((from + 1) .. to)
    BY <2>1 DEF MessagesIn
  <2>3. woken'[inbox[l]] > 0
    BY <2>1, <2>2, ConstantsAreDistinct DEF Wake, TypeOK
  <2> QED  BY <2>1, <2>3 DEF Settled
<1> QED  BY <1>1, <1>2

\* Lines that are overlooked are settled.
LEMMA OverlookSettles ==
  ASSUME TypeOK, NEW from \in Nat \ {0}, NEW to \in Nat, inbox' = inbox, woken' = woken,
         Overlook(from .. to)
  PROVE  (from .. to) \cap (1 .. Len(inbox)) \subseteq Settled'
<1>1. ASSUME NEW l \in (from .. to) \cap (1 .. Len(inbox)) PROVE l \in Settled'
  <2>1. inbox[l] \in Msgs /\ l \in DOMAIN inbox /\ inbox[l] \in MessagesIn(from .. to)
    BY DEF TypeOK, MessagesIn
  <2>2. woken[inbox[l]] > 0 \/ woken[inbox[l]] = 0
    BY <2>1 DEF TypeOK
  <2> QED  BY <2>1, <2>2 DEF Overlook, Settled
<1> QED  BY <1>1

\* Reserve, also when it dies between its two writes.
LEMMA ReserveKeepsBooks ==
  ASSUME TypeOK, Numbered, WithinInbox, Books, NEW o \in Owners, NEW wholly \in BOOLEAN,
         WriteReservation(Reservation(o), wholly), woken' = woken, overlooked' = overlooked
  PROVE  /\ UNCHANGED <<offset, inbox>> /\ claim' = Reservation(o).claim
         /\ dispatched' <= Len(inbox) /\ claim'.end <= Len(inbox) /\ claim'.prev <= Len(inbox)
         /\ Books' /\ Settled' = Settled
         /\ ~Granted(Reservation(o)) => UNCHANGED <<claim, dispatched>>
         /\ Granted(Reservation(o)) => claim'.owner = o /\ claim'.start \in Nat \ {0}
         /\ Granted(Reservation(o)) /\ claim.owner # o /\ wholly => dispatched' = claim'.end
<1> DEFINE r == Reservation(o)
           next == Larger(offset, dispatched) + 1
<1>1. Len(inbox) \in Nat /\ offset \in Nat /\ dispatched \in Nat /\ claim \in Claims
  BY DEF TypeOK
<1>2. Cursors = [offset |-> offset, dispatched |-> dispatched, claim |-> claim]
  BY <1>1 DEF Cursors, Rotated, Larger, WithinInbox
<1>3. /\ offset' = offset /\ claim' = r.claim
      /\ dispatched' = IF wholly THEN r.upto ELSE dispatched
      /\ UNCHANGED <<inbox, marking, waking>>
  BY <1>2 DEF WriteReservation
<1>4. Settled' = Settled
  BY <1>3 DEF Settled
<1>o. o # NoOwner
  BY ConstantsAreDistinct
<1>5. CASE IsOpen(claim, offset)
  <2>1. claim.owner # NoOwner /\ claim.start \in Nat \ {0} /\ claim.end \in Nat
    BY <1>1, <1>5 DEF IsOpen, Numbered, Claims
  \* The range of a claim that stays may be handed out again as a whole.
  <2>2. ASSUME claim'.owner # NoOwner, claim'.start = claim.start, claim'.end = claim.end,
               dispatched' \in {dispatched, claim.end}
        PROVE  Books'
    <3>1. 1 .. claim.end \subseteq Settled \cup ClaimLines
      BY <2>1 DEF Books, ClaimLines
    <3>2. ClaimLines' = ClaimLines
      BY <2>2 DEF ClaimLines
    <3> HIDE DEF ClaimLines
    <3> QED  BY <1>3, <1>4, <2>1, <2>2, <3>1, <3>2 DEF Books
  <2>3. CASE claim.owner = o
    <3>1. r = [how |-> "claimed", claim |-> [claim EXCEPT !.fresh = TRUE], upto |-> dispatched]
      BY <1>2, <1>5, <2>3 DEF Reservation
    <3> HIDE DEF r
    <3>2. claim' = [claim EXCEPT !.fresh = TRUE] /\ dispatched' = dispatched /\ r.how = "claimed"
      BY <1>3, <3>1
    <3>3. claim'.owner = o /\ claim'.prev = claim.prev
          /\ claim'.start = claim.start /\ claim'.end = claim.end
      BY <1>1, <2>3, <3>2 DEF Claims
    <3> QED  BY <1>3, <1>4, <1>o, <2>1, <2>2, <2>3, <3>2, <3>3 DEF WithinInbox, Granted, r
  <2>4. CASE claim.owner # o /\ claim.fresh
    <3>1. r = [how |-> "held", claim |-> claim, upto |-> dispatched]
      BY <1>2, <1>5, <2>4 DEF Reservation
    <3> HIDE DEF r
    <3> QED  BY <1>3, <1>4, <2>1, <2>2, <3>1 DEF WithinInbox, Granted, r
  <2>5. CASE claim.owner # o /\ ~claim.fresh
    <3>1. r = [how |-> "takeover", claim |-> Record(o, claim.start, claim.end, dispatched),
               upto |-> claim.end]
      BY <1>2, <1>5, <2>5 DEF Reservation
    <3> HIDE DEF r
    <3>2. claim' = Record(o, claim.start, claim.end, dispatched) /\ r.how = "takeover"
          /\ dispatched' = IF wholly THEN claim.end ELSE dispatched
      BY <1>3, <3>1
    <3>3. claim'.owner = o /\ claim'.prev = dispatched
          /\ claim'.start = claim.start /\ claim'.end = claim.end
      BY <3>2 DEF Record
    <3> QED  BY <1>3, <1>4, <1>o, <2>1, <2>2, <3>2, <3>3 DEF WithinInbox, Granted, r
  <2> QED  BY <2>3, <2>4, <2>5
<1>6. CASE ~IsOpen(claim, offset)
  <2>1. CASE Len(inbox) < next
    <3>1. r = [how |-> "nothing", claim |-> claim, upto |-> dispatched]
      BY <1>2, <1>6, <2>1 DEF Reservation
    <3> HIDE DEF r
    <3>2. claim' = claim /\ dispatched' = dispatched
      BY <1>3, <3>1
    <3>3. Books'
      BY <1>3, <1>4, <3>2 DEF Books, ClaimLines
    <3> QED  BY <1>3, <1>4, <3>1, <3>2, <3>3 DEF WithinInbox, Granted, r
  <2>2. CASE ~(Len(inbox) < next)
    <3>1. r = [how |-> "claimed", claim |-> Record(o, next, Len(inbox), dispatched), upto |-> Len(inbox)]
      BY <1>2, <1>6, <2>2 DEF Reservation
    <3>2. next \in Nat \ {0} /\ next > offset /\ next > dispatched /\ next - 1 \in {offset, dispatched}
      BY <1>1 DEF Larger
    \* The claim that is replaced has been closed.
    <3>3. 1 .. dispatched \subseteq Settled
      <4>1. claim.end <= offset
        BY <1>1, <1>6 DEF IsOpen, Claims, Books
      <4>2. \A l \in ClaimLines \cap Nat : l <= offset
        BY <1>1, <4>1 DEF ClaimLines, Claims
      <4>3. \A l \in (1 .. dispatched) \cap ClaimLines : l \in 1 .. offset
        <5> HIDE DEF ClaimLines
        <5> QED  BY <1>1, <4>2
      <4> QED  BY <4>3 DEF Books
    <3> HIDE DEF r
    <3>4. claim' = Record(o, next, Len(inbox), dispatched) /\ r.how = "claimed"
          /\ dispatched' = IF wholly THEN Len(inbox) ELSE dispatched
      BY <1>3, <3>1
    <3>5. claim'.owner = o /\ claim'.start = next /\ claim'.end = Len(inbox) /\ claim'.prev = dispatched
      BY <3>4 DEF Record
    <3>6. 1 .. (next - 1) \subseteq Settled
      BY <3>2, <3>3 DEF Books
    <3>7. ClaimLines' = next .. Len(inbox)
      BY <3>5 DEF ClaimLines
    <3>8. 1 .. Len(inbox) \subseteq Settled \cup (next .. Len(inbox))
      BY <1>1, <3>2, <3>6
    <3>9. o # NoOwner
      BY ConstantsAreDistinct
    <3>10. Books'
      <4>1. 1 .. offset' \subseteq Settled'
        BY <1>3, <1>4 DEF Books
      <4>2. 1 .. dispatched' \subseteq Settled' \cup ClaimLines'
        BY <1>4, <3>3, <3>4, <3>7, <3>8
      <4>3. 1 .. (claim'.start - 1) \subseteq Settled' /\ claim'.owner # NoOwner
        BY <1>4, <3>5, <3>6, <3>9
      <4> QED  BY <4>1, <4>2, <4>3 DEF Books
    <3> QED  BY <1>1, <1>3, <1>4, <3>2, <3>4, <3>5, <3>10 DEF WithinInbox, Granted, r
  <2> QED  BY <2>1, <2>2
<1> QED  BY <1>5, <1>6

\* Owners and claim may move on as long as the books are right and each owner's part of
\* the account is, or neither it nor its claim has moved.
LEMMA AccountMoves ==
  ASSUME TypeOK, WithinInbox, \A w \in Watchers : Script(w), \A o \in Owners : Closing(o),
         Books', UNCHANGED <<sent, inbox>>, Settled \subseteq Settled',
         offset' <= Len(inbox), dispatched' <= Len(inbox),
         claim'.end <= Len(inbox), claim'.prev <= Len(inbox),
         \A p \in Owners :
            \/ /\ job'[p] = job[p]
               /\ claim'.owner = p =>
                    /\ claim.owner = p /\ claim'.end = claim.end
                    /\ dispatched' = dispatched \/ 1 .. dispatched' \subseteq Settled'
            \/ /\ p \in Watchers => Script(p)' /\ job'[p].total <= Len(inbox)
               /\ Closing(p)'
  PROVE  WithinInbox' /\ Books' /\ (\A w \in Watchers : Script(w)') /\ \A o \in Owners : Closing(o)'
<1>1. \A w \in Watchers : w \in Owners
  BY DEF Owners
<1>2. \A w \in Watchers : Script(w)' /\ job'[w].total <= Len(inbox)
  BY <1>1 DEF Script, WithinInbox
<1>3. \A o \in Owners : Closing(o)'
  BY DEF Closing
<1>4. WithinInbox'
  BY <1>2 DEF WithinInbox
<1> QED  BY <1>2, <1>3, <1>4

\* The books of a step that leaves the claim's lines.
LEMMA BooksStay ==
  ASSUME TypeOK, Books, Settled \subseteq Settled',
         claim'.owner = claim.owner, claim'.start = claim.start, claim'.end = claim.end,
         offset' = offset \/ 1 .. offset' \subseteq Settled',
         dispatched' = dispatched \/ 1 .. dispatched' \subseteq Settled'
  PROVE  Books'
<1>1. ClaimLines' = ClaimLines
  BY DEF ClaimLines
<1> HIDE DEF ClaimLines
<1> QED  BY <1>1 DEF Books

\* A step of the owners that keeps the claim as it is.
LEMMA AccountKept ==
  ASSUME TypeOK, WithinInbox, Books, \A w \in Watchers : Script(w), \A o \in Owners : Closing(o),
         UNCHANGED <<sent, inbox, claim>>, Settled \subseteq Settled',
         offset' = offset \/ (offset' <= Len(inbox) /\ 1 .. offset' \subseteq Settled'),
         dispatched' = dispatched \/ (dispatched' <= Len(inbox) /\ 1 .. dispatched' \subseteq Settled'),
         NEW o \in Owners, \A p \in Owners \ {o} : job'[p] = job[p],
         o \in Watchers => Script(o)' /\ job'[o].total <= Len(inbox), Closing(o)'
  PROVE  WithinInbox' /\ Books' /\ (\A w \in Watchers : Script(w)') /\ \A p \in Owners : Closing(p)'
<1>1. Books'
  BY BooksStay
<1>2. /\ offset' <= Len(inbox) /\ dispatched' <= Len(inbox)
      /\ claim'.end <= Len(inbox) /\ claim'.prev <= Len(inbox)
  BY DEF WithinInbox
<1>3. \A p \in Owners :
         \/ /\ job'[p] = job[p]
            /\ claim'.owner = p =>
                 /\ claim.owner = p /\ claim'.end = claim.end
                 /\ dispatched' = dispatched \/ 1 .. dispatched' \subseteq Settled'
         \/ /\ p \in Watchers => Script(p)' /\ job'[p].total <= Len(inbox)
            /\ Closing(p)'
  OBVIOUS
<1> QED  BY <1>1, <1>2, <1>3, AccountMoves

\* The owner of the claim drops it when everything behind the cursor is settled.
LEMMA AccountDropped ==
  ASSUME TypeOK, WithinInbox, Books, \A w \in Watchers : Script(w), \A o \in Owners : Closing(o),
         UNCHANGED <<sent, inbox, offset>>, claim' = NoClaim, Settled \subseteq Settled',
         dispatched' <= Len(inbox), 1 .. dispatched' \subseteq Settled',
         NEW o \in Owners, Finish(o) \/ Goto(o, "mark")
  PROVE  WithinInbox' /\ Books' /\ (\A w \in Watchers : Script(w)') /\ \A p \in Owners : Closing(p)'
<1>1. claim'.owner = NoOwner /\ claim'.end = 0 /\ claim'.prev = 0 /\ NoOwner \notin Owners
      /\ Len(inbox) \in Nat
  BY ConstantsAreDistinct DEF NoClaim, TypeOK
<1>2. Books'
  BY <1>1 DEF Books
<1>3. /\ job'[o].pc \in {"idle", "done", "mark"} /\ job'[o].total \in {0, job[o].total}
      /\ \A p \in Owners \ {o} : job'[p] = job[p]
  BY JobEffect DEF Labels
<1>4. \A p \in Owners : Closing(p)'
  BY <1>1 DEF Closing
<1>5. o \in Watchers => Script(o)' /\ job'[o].total <= Len(inbox)
  BY <1>1, <1>3 DEF Script, WithinInbox
<1>6. \A p \in Owners :
         \/ /\ job'[p] = job[p]
            /\ claim'.owner = p =>
                 /\ claim.owner = p /\ claim'.end = claim.end
                 /\ dispatched' = dispatched \/ 1 .. dispatched' \subseteq Settled'
         \/ /\ p \in Watchers => Script(p)' /\ job'[p].total <= Len(inbox)
            /\ Closing(p)'
  BY <1>1, <1>3, <1>4, <1>5
<1>7. offset' <= Len(inbox) /\ claim'.end <= Len(inbox) /\ claim'.prev <= Len(inbox)
  BY <1>1 DEF WithinInbox
<1> QED  BY <1>2, <1>6, <1>7, AccountMoves

\* A reservation, by a watcher or by a request.
LEMMA AccountReserved ==
  ASSUME TypeOK, Numbered, WithinInbox, Books, \A w \in Watchers : Script(w),
         \A p \in Owners : Closing(p),
         NEW o \in Owners, NEW wholly \in BOOLEAN, WriteReservation(Reservation(o), wholly),
         UNCHANGED <<sent, woken, overlooked>>, \A p \in Owners \ {o} : job'[p] = job[p],
         o \in Watchers => Script(o)' /\ job'[o].total <= Len(inbox), Closing(o)'
  PROVE  WithinInbox' /\ Books' /\ (\A w \in Watchers : Script(w)') /\ \A p \in Owners : Closing(p)'
<1>1. /\ UNCHANGED <<offset, inbox>> /\ claim' = Reservation(o).claim
      /\ dispatched' <= Len(inbox) /\ claim'.end <= Len(inbox) /\ claim'.prev <= Len(inbox)
      /\ Books' /\ Settled' = Settled
      /\ ~Granted(Reservation(o)) => UNCHANGED <<claim, dispatched>>
      /\ Granted(Reservation(o)) => claim'.owner = o
  BY ReserveKeepsBooks
<1>2. \A p \in Owners :
         \/ /\ job'[p] = job[p]
            /\ claim'.owner = p =>
                 /\ claim.owner = p /\ claim'.end = claim.end
                 /\ dispatched' = dispatched \/ 1 .. dispatched' \subseteq Settled'
         \/ /\ p \in Watchers => Script(p)' /\ job'[p].total <= Len(inbox)
            /\ Closing(p)'
  BY <1>1
<1>3. offset' <= Len(inbox)
  BY <1>1 DEF WithinInbox
<1> QED  BY <1>1, <1>2, <1>3, AccountMoves

\* At the start nothing is handed out.
LEMMA InitAccount == Init => Account
<1> SUFFICES ASSUME Init PROVE Account
  OBVIOUS
<1>1. claim.owner = NoOwner /\ claim.end = 0 /\ claim.prev = 0 /\ Len(inbox) = 0
      /\ \A o \in Owners : job[o].total = 0 /\ job[o].pc = "idle"
  BY DEF Init, NoClaim, Idle
<1>2. WithinInbox
  BY <1>1 DEF Init, WithinInbox, Owners
<1>3. Books
  BY <1>1 DEF Init, Books
<1>4. \A w \in Watchers : Script(w)
  BY <1>1 DEF Script, Owners
<1>5. \A o \in Owners : Closing(o)
  BY <1>1, ConstantsAreDistinct DEF Closing
<1> QED  BY <1>2, <1>3, <1>4, <1>5 DEF Account

\* Every step keeps the account, as long as lines keep their numbers.
LEMMA NextAccount == TypeOK /\ Numbered /\ TypeOK' /\ Account /\ [Next]_vars => Account'
<1> SUFFICES ASSUME TypeOK, Numbered, TypeOK', Account, [Next]_vars, Calm'
             PROVE  WithinInbox' /\ Books' /\ (\A w \in Watchers : Script(w)')
                    /\ \A o \in Owners : Closing(o)'
  BY DEF Account
<1> DEFINE Kept == /\ WithinInbox' /\ Books' /\ (\A w \in Watchers : Script(w)')
                   /\ \A o \in Owners : Closing(o)'
<1>s. Calm /\ WithinInbox /\ Books /\ (\A w \in Watchers : Script(w)) /\ \A o \in Owners : Closing(o)
  BY FaultsStay DEF Calm, Account
<1>w. Watchers \subseteq Owners /\ Requests \subseteq Owners /\ Watchers \cap Requests = {}
      /\ NoOwner \notin Owners /\ Len(inbox) \in Nat /\ offset \in Nat /\ dispatched \in Nat
      /\ claim \in Claims /\ \A o \in Owners : job[o] \in JobRecords
  BY ConstantsAreDistinct DEF Owners, TypeOK
<1>u. ASSUME UNCHANGED <<inbox, woken, overlooked>> PROVE Settled' = Settled
  BY <1>u DEF Settled
<1> HIDE DEF Kept
\* A request does nothing that the account of its claim depends on.
<1>q. ASSUME NEW q \in Requests, job'[q].pc \notin {"post", "abort"} PROVE Closing(q)'
  BY <1>q, <1>w DEF Closing
<1>1. ASSUME NEW w \in Watchers, StartWatch(w) PROVE Kept
  <2>1. /\ UNCHANGED <<sent, files, woken, overlooked>> /\ claim.owner # w
        /\ job' = [job EXCEPT ![w] = [Idle EXCEPT !.pc = "cursors", !.total = Len(inbox)]]
    BY <1>1 DEF StartWatch
  <2>2. job'[w].pc = "cursors" /\ job'[w].total = Len(inbox)
        /\ \A p \in Owners \ {w} : job'[p] = job[p]
    BY <1>w, <2>1 DEF TypeOK, Idle
  <2>3. Script(w)' /\ Closing(w)' /\ job'[w].total <= Len(inbox)
    BY <1>w, <2>1, <2>2 DEF Script, Closing, files
  <2> QED  BY <1>s, <1>u, <1>w, <2>1, <2>2, <2>3, AccountKept DEF files, Kept
<1>2. ASSUME NEW w \in Watchers, CheckCursors(w) PROVE Kept
  <2>1. UNCHANGED <<sent, inbox, claim, woken, overlooked>> /\ job[w].pc = "cursors" /\ claim.owner # w
    BY <1>2, <1>s DEF CheckCursors, Script
  <2>2. offset' \in {0, offset} /\ (dispatched' = dispatched \/ dispatched' = 0)
    BY <1>2 DEF CheckCursors
  <2>3. Settled' = Settled
    BY <1>u, <2>1
  <2>4. 1 .. offset' \subseteq Settled'
    BY <1>s, <2>2, <2>3 DEF Books
  <2>5. /\ \A p \in Owners \ {w} : job'[p] = job[p]
        /\ job'[w].total \in {0, job[w].total}
        /\ job'[w].pc \in {"idle", "done"} \/ (job'[w].pc = "reserve" /\ job'[w].offset = offset')
    <3>1. CASE Finish(w)
      BY <3>1, <1>w, JobEffect DEF Labels
    <3>2. CASE job' = [job EXCEPT ![w].pc = "reserve", ![w].offset = offset']
      BY <3>2, <1>w DEF TypeOK, JobRecords
    <3> QED  BY <1>2, <3>1, <3>2 DEF CheckCursors
  <2>6. Script(w)' /\ Closing(w)' /\ job'[w].total <= Len(inbox)
    BY <1>s, <1>w, <2>1, <2>4, <2>5 DEF Script, Closing, WithinInbox
  <2>7. offset' <= Len(inbox)
    BY <1>s, <1>w, <2>2 DEF WithinInbox
  <2>8. dispatched' = dispatched \/ (dispatched' <= Len(inbox) /\ 1 .. dispatched' \subseteq Settled')
    BY <1>w, <2>2
  <2> QED  BY <1>s, <1>w, <2>1, <2>3, <2>4, <2>5, <2>6, <2>7, <2>8, AccountKept DEF Kept
<1>3. ASSUME NEW w \in Watchers, ReserveLines(w) PROVE Kept
  <2> DEFINE r == Reservation(w)
  <2>1. job[w].pc = "reserve" /\ WriteReservation(r, TRUE) /\ UNCHANGED <<sent, woken, overlooked>>
    BY <1>3 DEF ReserveLines
  <2>2. claim.owner # w /\ 1 .. job[w].offset \subseteq Settled
    BY <1>s, <2>1 DEF Script
  <2>3. /\ claim' = r.claim /\ claim'.end <= Len(inbox) /\ Books' /\ Settled' = Settled
        /\ ~Granted(r) => claim' = claim
        /\ Granted(r) => claim'.owner = w /\ claim'.start \in Nat \ {0} /\ dispatched' = claim'.end
    BY <1>s, <1>w, <2>1, <2>2, ReserveKeepsBooks
  <2>4. CASE ~Granted(r)
    <3>1. Finish(w)
      BY <1>3, <2>4 DEF ReserveLines, Granted
    <3>2. job'[w].pc \in {"idle", "done"} /\ job'[w].total = 0 /\ \A p \in Owners \ {w} : job'[p] = job[p]
      BY <3>1, <1>w, JobEffect DEF Labels
    <3>3. Script(w)' /\ Closing(w)' /\ job'[w].total <= Len(inbox)
      BY <1>w, <3>2 DEF Script, Closing
    <3> QED  BY <1>s, <1>w, <2>1, <3>2, <3>3, AccountReserved DEF Kept
  <2>5. CASE Granted(r)
    <3>1. \/ job' = [job EXCEPT ![w] = [pc |-> "post", offset |-> r.claim.start - 1,
                                        total |-> r.claim.end, claimed |-> TRUE]]
          \/ job' = [job EXCEPT ![w].pc = "post", ![w].claimed = TRUE]
      BY <1>3, <2>5 DEF ReserveLines, Granted
    <3> HIDE DEF r
    <3>2. /\ job'[w].pc = "post" /\ job'[w].claimed
          /\ \/ job'[w].offset = r.claim.start - 1 /\ job'[w].total = r.claim.end
             \/ job'[w].offset = job[w].offset /\ job'[w].total = job[w].total
          /\ \A p \in Owners \ {w} : job'[p] = job[p]
      <4> DEFINE new == [pc |-> "post", offset |-> r.claim.start - 1, total |-> r.claim.end,
                         claimed |-> TRUE]
      <4>1. CASE job' = [job EXCEPT ![w] = new]
        <5>1. new.pc = "post" /\ new.claimed /\ new.offset = r.claim.start - 1
              /\ new.total = r.claim.end
          OBVIOUS
        <5>2. job'[w] = new /\ \A p \in Owners \ {w} : job'[p] = job[p]
          BY <1>w, <4>1 DEF TypeOK
        <5> QED  BY <5>1, <5>2
      <4>2. CASE job' = [job EXCEPT ![w].pc = "post", ![w].claimed = TRUE]
        BY <1>w, <4>2 DEF TypeOK, JobRecords
      <4> QED  BY <3>1, <4>1, <4>2
    <3>3. 1 .. (r.claim.start - 1) \subseteq Settled'
      BY <1>w, <2>3, <2>5 DEF Books
    <3>4. Script(w)' /\ job'[w].total <= Len(inbox)
      BY <1>s, <2>2, <2>3, <3>2, <3>3 DEF Script, WithinInbox
    <3>5. Closing(w)'
      BY <2>3, <2>5, <3>2 DEF Closing
    <3> QED  BY <1>s, <1>w, <2>1, <3>2, <3>4, <3>5, AccountReserved DEF Kept, r
  <2> QED  BY <2>4, <2>5
<1>4. ASSUME NEW w \in Watchers, ReserveFails(w) PROVE Kept
  <2>1. UNCHANGED <<sent, files, woken, overlooked>> /\ job[w].pc = "reserve" /\ Goto(w, "post")
    BY <1>4 DEF ReserveFails
  <2>2. /\ job'[w] = [job[w] EXCEPT !.pc = "post"] /\ \A p \in Owners \ {w} : job'[p] = job[p]
    BY <1>w, <2>1 DEF Goto, TypeOK
  <2>3. job'[w].pc = "post" /\ job'[w].offset = job[w].offset /\ job'[w].total = job[w].total
    BY <1>w, <2>2 DEF JobRecords
  <2>4. Settled' = Settled
    BY <1>u, <2>1 DEF files
  <2>5. claim.owner # w /\ 1 .. job[w].offset \subseteq Settled /\ job[w].total <= Len(inbox)
    BY <1>s, <2>1 DEF Script, WithinInbox
  <2>6. Script(w)' /\ Closing(w)' /\ job'[w].total <= Len(inbox)
    BY <2>1, <2>3, <2>4, <2>5 DEF Script, Closing, files
  <2> QED  BY <1>s, <1>w, <2>1, <2>2, <2>4, <2>6, AccountKept DEF files, Kept
<1>5. ASSUME NEW w \in Watchers, PostAccepted(w) PROVE Kept
  <2>1. /\ UNCHANGED <<sent, files, overlooked>> /\ job[w].pc = "post" /\ Goto(w, "record")
        /\ Wake((job[w].offset + 1) .. job[w].total)
    BY <1>5 DEF PostAccepted, NewLines
  <2>2. /\ job'[w].pc = "record" /\ job'[w].total = job[w].total
        /\ \A p \in Owners \ {w} : job'[p] = job[p]
    BY <1>w, <2>1, JobEffect DEF Labels
  <2>3. job[w].offset \in Nat /\ job[w].total \in Nat /\ job[w].total <= Len(inbox)
        /\ 1 .. job[w].offset \subseteq Settled
    BY <1>s, <1>w, <2>1 DEF JobRecords, Script, WithinInbox
  <2>4. 1 .. job[w].total \subseteq Settled'
    BY <2>1, <2>3, WakeSettles DEF files
  <2>5. Settled \subseteq Settled'
    BY <2>1, SettledStays DEF files
  <2>6. Script(w)' /\ Closing(w)' /\ job'[w].total <= Len(inbox)
    BY <2>2, <2>3, <2>4 DEF Script, Closing
  <2> QED  BY <1>s, <1>w, <2>1, <2>2, <2>5, <2>6, AccountKept DEF files, Kept
<1>6. ASSUME NEW w \in Watchers, PostNotAccepted(w) PROVE Kept
  <2>1. /\ UNCHANGED <<sent, files, overlooked>> /\ job[w].pc = "post"
        /\ Wake(NewLines(w)) \/ woken' = woken
        /\ (job[w].claimed /\ Goto(w, "abort")) \/ Finish(w)
    BY <1>6 DEF PostNotAccepted
  <2>2. Settled \subseteq Settled'
    BY <2>1, SettledStays DEF files
  <2>3. /\ \A p \in Owners \ {w} : job'[p] = job[p]
        /\ job'[w].total \in {0, job[w].total}
        /\ job'[w].pc \in {"idle", "done"} \/ (job'[w].pc = "abort" /\ job[w].claimed)
    BY <1>w, <2>1, JobEffect DEF Labels
  <2>4. Script(w)' /\ job'[w].total <= Len(inbox)
    BY <1>s, <1>w, <2>3 DEF Script, WithinInbox
  <2>5. Closing(w)'
    BY <1>s, <1>w, <2>1, <2>2, <2>3 DEF Closing, files
  <2> QED  BY <1>s, <1>w, <2>1, <2>2, <2>3, <2>4, <2>5, AccountKept DEF files, Kept
<1>7. ASSUME NEW w \in Watchers, RecordDispatched(w) PROVE Kept
  <2>1. /\ UNCHANGED <<sent, inbox, offset, claim, woken, overlooked>> /\ job[w].pc = "record"
        /\ dispatched' = job[w].total
        /\ Goto(w, "commit") \/ Finish(w)
    BY <1>7 DEF RecordDispatched
  <2>2. Settled' = Settled
    BY <1>u, <2>1
  <2>3. 1 .. dispatched' \subseteq Settled' /\ dispatched' <= Len(inbox)
    BY <1>s, <2>1, <2>2 DEF Script, WithinInbox
  <2>4. /\ \A p \in Owners \ {w} : job'[p] = job[p]
        /\ job'[w].total \in {0, job[w].total} /\ job'[w].pc \in {"idle", "done", "commit"}
    BY <1>w, <2>1, JobEffect DEF Labels
  <2>5. Script(w)' /\ Closing(w)' /\ job'[w].total <= Len(inbox)
    BY <1>s, <1>w, <2>3, <2>4 DEF Script, Closing, WithinInbox
  <2> QED  BY <1>s, <1>w, <2>1, <2>2, <2>3, <2>4, <2>5, AccountKept DEF Kept
<1>8. ASSUME NEW w \in Watchers, CrashInReserve(w) PROVE Kept
  <2>1. WriteReservation(Reservation(w), FALSE) /\ Finish(w) /\ UNCHANGED <<sent, woken, overlooked>>
    BY <1>8 DEF CrashInReserve
  <2>2. job'[w].pc \in {"idle", "done"} /\ job'[w].total = 0 /\ \A p \in Owners \ {w} : job'[p] = job[p]
    BY <2>1, <1>w, JobEffect DEF Labels
  <2>3. Script(w)' /\ Closing(w)' /\ job'[w].total <= Len(inbox)
    BY <1>w, <2>2 DEF Script, Closing
  <2> QED  BY <1>s, <1>w, <2>1, <2>2, <2>3, AccountReserved DEF Kept

<1>9. ASSUME NEW o \in Owners, Commit(o) PROVE Kept
  <2>1. UNCHANGED <<sent, inbox, offset, dispatched, woken>> /\ job[o].pc = "commit"
        /\ overlooked \subseteq overlooked'
    BY <1>9 DEF Commit, Overlook
  <2>2. Settled \subseteq Settled'
    BY <2>1, SettledStays
  <2>3. CASE claim.owner = o
    <3>1. claim' = NoClaim /\ Goto(o, "mark")
      BY <1>9, <2>3 DEF Commit
    <3>2. 1 .. dispatched \subseteq Settled'
      <4>1. CASE o \in Watchers
        BY <1>s, <2>1, <2>2, <2>3, <4>1 DEF Closing
      <4>2. CASE o \in Requests
        <5>1. Overlook(claim.start .. claim.end)
          BY <1>9, <2>3, <4>2 DEF Commit
        <5>2. claim.start \in Nat \ {0} /\ claim.end \in Nat
          BY <1>w, <2>3 DEF Numbered, Claims
        <5>3. ClaimLines \cap (1 .. Len(inbox)) \subseteq Settled'
          BY <2>1, <5>1, <5>2, OverlookSettles DEF ClaimLines
        <5>4. 1 .. dispatched \subseteq 1 .. Len(inbox)
          BY <1>s, <1>w DEF WithinInbox
        <5> HIDE DEF ClaimLines
        <5> QED  BY <1>s, <2>2, <5>3, <5>4 DEF Books
      <4> QED  BY <4>1, <4>2 DEF Owners
    <3>3. dispatched <= Len(inbox)
      BY <1>s DEF WithinInbox
    <3> QED  BY <1>s, <2>1, <2>2, <3>1, <3>2, <3>3, AccountDropped DEF Kept
  <2>4. CASE claim.owner # o
    <3>1. claim' = claim /\ Finish(o)
      BY <1>9, <2>4 DEF Commit
    <3>2. job'[o].pc \in {"idle", "done"} /\ job'[o].total = 0 /\ \A p \in Owners \ {o} : job'[p] = job[p]
      BY <3>1, JobEffect DEF Labels
    <3>3. Script(o)' /\ Closing(o)' /\ job'[o].total <= Len(inbox)
      BY <1>w, <3>2 DEF Script, Closing
    <3> QED  BY <1>s, <2>1, <2>2, <3>1, <3>2, <3>3, AccountKept DEF Kept
  <2> QED  BY <2>3, <2>4
<1>10. ASSUME NEW o \in Owners, Abort(o) PROVE Kept
  <2>1. UNCHANGED <<sent, inbox, offset, woken>> /\ job[o].pc = "abort"
        /\ overlooked \subseteq overlooked'
    BY <1>10 DEF Abort, Overlook
  <2>2. Settled \subseteq Settled'
    BY <2>1, SettledStays
  <2>3. CASE claim.owner = o
    <3>1. claim' = NoClaim /\ (Goto(o, "mark") \/ Finish(o)) /\ Overlook(claim.start .. claim.prev)
      BY <1>10, <2>3 DEF Abort
    <3>2. dispatched' <= Len(inbox) /\ 1 .. dispatched' \subseteq Settled'
      <4>1. CASE dispatched = claim.end /\ offset < claim.end
        <5>1. dispatched' = claim.prev
          BY <1>10, <2>3, <4>1 DEF Abort
        <5>2. claim.start \in Nat \ {0} /\ claim.prev \in Nat /\ claim.prev <= Len(inbox)
              /\ claim.owner # NoOwner
          BY <1>s, <1>w, <2>3 DEF Numbered, Claims, WithinInbox
        <5>3. (claim.start .. claim.prev) \cap (1 .. Len(inbox)) \subseteq Settled'
          BY <2>1, <3>1, <5>2, OverlookSettles
        <5>4. 1 .. (claim.start - 1) \subseteq Settled'
          BY <1>s, <2>2, <5>2 DEF Books
        <5>5. ASSUME NEW l \in 1 .. claim.prev PROVE l \in Settled'
          <6>1. CASE l < claim.start
            BY <5>2, <5>4, <6>1
          <6>2. CASE l >= claim.start
            BY <1>w, <5>2, <5>3, <6>2
          <6> QED  BY <5>2, <6>1, <6>2
        <5> QED  BY <5>1, <5>2, <5>5
      <4>2. CASE ~(dispatched = claim.end /\ offset < claim.end)
        <5>1. dispatched' = dispatched
          BY <1>10, <2>3, <4>2 DEF Abort
        <5>2. dispatched <= Len(inbox)
          BY <1>s DEF WithinInbox
        <5>3. 1 .. dispatched \subseteq Settled
          <6>1. CASE dispatched # claim.end
            BY <1>s, <2>1, <2>3, <6>1 DEF Closing
          <6>2. CASE dispatched <= offset
            BY <1>s, <1>w, <6>2 DEF Books
          <6> QED  BY <1>w, <4>2, <6>1, <6>2 DEF Claims
        <5> QED  BY <2>2, <5>1, <5>2, <5>3
      <4> QED  BY <4>1, <4>2
    <3> QED  BY <1>s, <2>1, <2>2, <3>1, <3>2, AccountDropped DEF Kept
  <2>4. CASE claim.owner # o
    <3>1. UNCHANGED <<claim, dispatched>> /\ Finish(o)
      BY <1>10, <2>4 DEF Abort
    <3>2. job'[o].pc \in {"idle", "done"} /\ job'[o].total = 0 /\ \A p \in Owners \ {o} : job'[p] = job[p]
      BY <3>1, JobEffect DEF Labels
    <3>3. Script(o)' /\ Closing(o)' /\ job'[o].total <= Len(inbox)
      BY <1>w, <3>2 DEF Script, Closing
    <3> QED  BY <1>s, <2>1, <2>2, <3>1, <3>2, <3>3, AccountKept DEF Kept
  <2> QED  BY <2>3, <2>4
\* An owner that ends without touching the files.
<1>11. ASSUME NEW o \in Owners, ReplaceInbox(o) \/ Crash(o) PROVE Kept
  <2>1. UNCHANGED <<sent, offset, dispatched, claim, woken, overlooked>> /\ Finish(o)
    BY <1>11 DEF ReplaceInbox, Crash
  <2>2. inbox' = inbox
    BY <1>11 DEF ReplaceInbox, Crash, Note, Calm
  <2>3. job'[o].pc \in {"idle", "done"} /\ job'[o].total = 0 /\ \A p \in Owners \ {o} : job'[p] = job[p]
    BY <2>1, JobEffect DEF Labels
  <2>4. Script(o)' /\ Closing(o)' /\ job'[o].total <= Len(inbox)
    BY <1>w, <2>3 DEF Script, Closing
  <2>5. Settled' = Settled
    BY <1>u, <2>1, <2>2
  <2> QED  BY <1>s, <2>1, <2>2, <2>3, <2>4, <2>5, AccountKept DEF Kept
<1>12. ASSUME NEW q \in Requests, NEW line \in DOMAIN inbox, Declare(q, line) PROVE Kept
  <2>1. WriteReservation(Reservation(q), TRUE) /\ UNCHANGED <<sent, woken, overlooked>>
    BY <1>12 DEF Declare
  <2>2. \/ job' = [job EXCEPT ![q] = [pc |-> "accept", offset |-> line - 1,
                                      total |-> line, claimed |-> TRUE]]
        \/ Finish(q)
    BY <1>12 DEF Declare
  <2>3. job'[q].pc \in {"accept", "idle", "done"} /\ \A p \in Owners \ {q} : job'[p] = job[p]
    BY <1>w, <2>2, JobEffect DEF Labels, TypeOK
  <2>4. Closing(q)' /\ q \notin Watchers
    BY <1>q, <1>w, <2>3
  <2> QED  BY <1>s, <1>w, <2>1, <2>3, <2>4, AccountReserved DEF Kept
<1>13. ASSUME NEW q \in Requests, NEW line \in DOMAIN inbox, DeclareDegraded(q, line) PROVE Kept
  <2>1. /\ UNCHANGED <<sent, woken, overlooked>>
        /\ job' = [job EXCEPT ![q] = [Idle EXCEPT !.pc = "accept", !.offset = line - 1, !.total = line]]
        /\ UNCHANGED files \/ WriteReservation(Reservation(q), TRUE)
    BY <1>13 DEF DeclareDegraded
  <2>2. job'[q].pc = "accept" /\ \A p \in Owners \ {q} : job'[p] = job[p]
    BY <1>w, <2>1 DEF TypeOK, Idle
  <2>3. Closing(q)' /\ q \notin Watchers
    BY <1>q, <1>w, <2>2
  <2>4. CASE WriteReservation(Reservation(q), TRUE)
    BY <1>s, <1>w, <2>1, <2>2, <2>3, <2>4, AccountReserved DEF Kept
  <2>5. CASE UNCHANGED files
    BY <1>s, <1>u, <1>w, <2>1, <2>2, <2>3, <2>5, AccountKept DEF files, Kept
  <2> QED  BY <2>1, <2>4, <2>5
<1>14. ASSUME NEW q \in Requests, StartRun(q) \/ RejectHistory(q) PROVE Kept
  <2>1. /\ UNCHANGED <<sent, files, overlooked>>
        /\ Wake(NewLines(q)) \/ woken' = woken
        /\ Goto(q, "commit") \/ Finish(q)
    BY <1>14 DEF StartRun, RejectHistory
  <2>2. Settled \subseteq Settled'
    BY <2>1, SettledStays DEF files
  <2>3. job'[q].pc \in {"commit", "idle", "done"} /\ \A p \in Owners \ {q} : job'[p] = job[p]
    BY <1>w, <2>1, JobEffect DEF Labels
  <2>4. Closing(q)' /\ q \notin Watchers
    BY <1>q, <1>w, <2>3
  <2> QED  BY <1>s, <1>w, <2>1, <2>2, <2>3, <2>4, AccountKept DEF files, Kept
<1>15. CASE Lapse
  <2>1. /\ claim' = [claim EXCEPT !.fresh = FALSE]
        /\ UNCHANGED <<sent, inbox, offset, dispatched, job, woken, overlooked>>
    BY <1>15 DEF Lapse
  <2>2. claim'.owner = claim.owner /\ claim'.start = claim.start /\ claim'.end = claim.end
        /\ claim'.prev = claim.prev
    BY <1>w, <2>1 DEF Claims
  <2>3. Settled' = Settled
    BY <1>u, <2>1
  <2>4. Books'
    BY <1>s, <2>1, <2>2, <2>3, BooksStay
  <2>5. /\ offset' <= Len(inbox) /\ dispatched' <= Len(inbox)
        /\ claim'.end <= Len(inbox) /\ claim'.prev <= Len(inbox)
    BY <1>s, <2>1, <2>2 DEF WithinInbox
  <2> QED  BY <1>s, <2>1, <2>2, <2>3, <2>4, <2>5, AccountMoves DEF Kept
<1>16. CASE CloseLines
  <2>1. PICK n \in (offset + 1) .. Len(inbox) :
          /\ \A l \in 1 .. n : woken[inbox[l]] > 0
          /\ offset' = n /\ dispatched' = Larger(dispatched, n)
    BY <1>16 DEF CloseLines
  <2>2. UNCHANGED <<sent, inbox, claim, job, woken, overlooked>>
    BY <1>16 DEF CloseLines
  <2>3. Settled' = Settled
    BY <1>u, <2>2
  <2>4. 1 .. n \subseteq Settled' /\ n <= Len(inbox) /\ dispatched' \in {dispatched, n}
    BY <1>w, <2>1, <2>3 DEF Settled, Larger
  <2>5. Books'
    BY <1>s, <2>1, <2>2, <2>3, <2>4, BooksStay
  <2>6. /\ offset' <= Len(inbox) /\ dispatched' <= Len(inbox)
        /\ claim'.end <= Len(inbox) /\ claim'.prev <= Len(inbox)
    BY <1>s, <2>1, <2>2, <2>4 DEF WithinInbox
  <2> QED  BY <1>s, <2>2, <2>3, <2>4, <2>5, <2>6, AccountMoves DEF Kept
<1>17. CASE SenderAppends
  <2>1. /\ UNCHANGED <<offset, dispatched, claim, job, woken, overlooked>> /\ sent' = sent + 1
        /\ inbox' = Append(inbox, sent + 1)
    BY <1>17 DEF SenderAppends
  <2>2. /\ Len(inbox') = Len(inbox) + 1 /\ inbox'[Len(inbox) + 1] = sent + 1
        /\ \A l \in 1 .. Len(inbox) : inbox'[l] = inbox[l]
    BY <2>1 DEF TypeOK
  <2>3. sent' = Len(inbox') /\ \A l \in 1 .. Len(inbox') : inbox'[l] = l
    BY <1>s, <1>w, <2>1, <2>2 DEF WithinInbox
  <2>4. WithinInbox'
    BY <1>s, <1>w, <2>1, <2>2, <2>3 DEF WithinInbox, TypeOK, Claims, JobRecords
  <2>5. Settled \subseteq Settled'
    <3>1. Len(inbox) = sent
      BY <1>s DEF WithinInbox
    <3> QED  BY <2>1, <3>1, SettledStays
  <2>6. Books'
    BY <1>s, <2>1, <2>5, BooksStay
  <2>7. (\A w \in Watchers : Script(w)') /\ \A o \in Owners : Closing(o)'
    BY <1>s, <2>1, <2>5 DEF Script, Closing
  <2> QED  BY <2>4, <2>6, <2>7 DEF Kept
<1>18. CASE WakingAges \/ UNCHANGED vars
  BY <1>s, <1>18
  DEF WakingAges, vars, files, Kept, WithinInbox, Books, Settled, ClaimLines, Script, Closing
<1>19. ~Rotate
  BY DEF Rotate, Fail, Calm
<1>20. ASSUME NEW w \in Watchers, WatcherStep(w) PROVE Kept
  BY <1>1, <1>2, <1>3, <1>4, <1>5, <1>6, <1>7, <1>8, <1>20 DEF WatcherStep
<1>21. ASSUME NEW q \in Requests, RequestStep(q) PROVE Kept
  BY <1>12, <1>13, <1>14, <1>21 DEF RequestStep
<1>22. ASSUME NEW o \in Owners, OwnerStep(o) PROVE Kept
  BY <1>9, <1>10, <1>11, <1>22 DEF OwnerStep
<1>23. CASE Environment
  BY <1>15, <1>16, <1>17, <1>18, <1>19, <1>23 DEF Environment
<1> QED  BY <1>18, <1>20, <1>21, <1>22, <1>23 DEF Next, Kept

\* Whatever crashes or lapses, a line behind the dispatch cursor was handed to a run, is
\* named by the claim file or was overlooked by a run that dropped its claim.
THEOREM NoLineForgotten == Spec => []Accounted
<1>1. TypeOK /\ Account => Accounted
  <2> SUFFICES ASSUME TypeOK, Account, Calm, NEW l \in (1 .. dispatched) \cap DOMAIN inbox
               PROVE  woken[inbox[l]] > 0 \/ l \in claim.start .. claim.end \/ inbox[l] \in overlooked
    BY DEF Accounted, Calm
  <2>1. l \in Settled \cup ClaimLines
    BY DEF Account, Books
  <2> QED  BY <2>1 DEF Settled, ClaimLines
<1>2. Spec => [](TypeOK /\ Numbered)
  BY InitTypes, NextTypes, PTL DEF Spec
<1> QED  BY <1>1, <1>2, InitAccount, NextAccount, PTL DEF Spec
=============================================================================
