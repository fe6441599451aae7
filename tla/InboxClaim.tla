------------------------------ MODULE InboxClaim ------------------------------
(* Who wakes the agent for a line of the inbox file.  Senders append lines.   *)
(* The watcher script (buzz-inbox-watcher.sh) wakes the agent for every line  *)
(* past its cursors; a sender may also post its line to the API, which asks   *)
(* gateway/inbox_claim_gate.py.  Both reserve lines with buzz_inbox_claim.py, *)
(* whose commands run under one flock; the script's own reads and writes of   *)
(* the cursor files are outside that lock.                                    *)
EXTENDS Naturals, Sequences, FiniteSets, SequencesExt

CONSTANTS
  MaxLines,   \* bound: how many messages senders append
  Watchers,   \* owner names of watcher runs ("watcher-<pid>-<second>")
  Requests,   \* API requests that declare a line ("api-<run id>"), each sent once
  NoOwner,
  MaxWakes,   \* bound: runs for one message are counted up to here
  MaxFaults   \* bound: how many kinds of fault one behaviour may show, refusals apart

Owners == Watchers \cup Requests
Msgs == 1 .. MaxLines  \* numbered in the order they are sent
FaultKinds == {"crash", "tool", "refuse", "reply", "lapse", "invalid", "rotate"}
Mishaps == {"reset",    \* the watcher zeroed the cursors, outside the lock
            "swallow"}  \* the state write-back replaced a file that had changed

ASSUME ConstantsAreDistinct ==
  /\ Watchers \cap Requests = {}
  /\ NoOwner \notin Owners
  /\ MaxLines \in Nat /\ MaxWakes \in Nat \ {0} /\ MaxFaults \in Nat

VARIABLES
  sent,        \* how many messages senders have appended
  inbox,       \* the lines of the inbox file
  offset,      \* lines known to be processed
  dispatched,  \* lines handed to some run
  claim,       \* the claim file
  marking,     \* the state write-back in progress, under the claim lock
  waking,      \* whether the watcher's own lock file is there and younger than 30 min
  job,         \* what each owner is doing: pc, and the script's $offset and $total
  held,        \* messages an owner was told are its own (reserve answered 0)
  woken,       \* how often a message was handed to an accepted run
  overlooked,  \* messages of a dropped claim whose owner did not hand them to a run
  faults       \* which faults and mishaps have occurred

files == <<inbox, offset, dispatched, claim, marking, waking>>
vars == <<sent, files, job, held, woken, overlooked, faults>>

-----------------------------------------------------------------------------
Larger(a, b) == IF a > b THEN a ELSE b
MessagesIn(lines) == {inbox[l] : l \in lines \cap DOMAIN inbox}
InInbox(m) == m \in ToSet(inbox)

NoClaim == [owner |-> NoOwner, start |-> 0, end |-> 0, prev |-> 0, fresh |-> FALSE]
NoMarking == [by |-> NoOwner, text |-> <<>>]
Idle == [pc |-> "idle", offset |-> 0, total |-> 0, claimed |-> FALSE]

\* A claim record; gone wrong: without the time (it looks expired at once), or with
\* the previous cursor one too low.
RecordUndated(o, start, end, prev) ==
  [owner |-> o, start |-> start, end |-> end, prev |-> prev, fresh |-> FALSE]
RecordLow(o, start, end, prev) ==
  [owner |-> o, start |-> start, end |-> end, prev |-> prev - 1, fresh |-> TRUE]
Record(o, start, end, prev) ==
  [owner |-> o, start |-> start, end |-> end, prev |-> prev, fresh |-> TRUE]
IsOpen(c, off) == c.owner # NoOwner /\ c.end > off

ClaimLockFree == marking = NoMarking
Active(o) == job[o].pc \notin {"idle", "done"}
Goto(o, label) == job' = [job EXCEPT ![o].pc = label]
Finish(o) == job' = [job EXCEPT ![o] = IF o \in Watchers THEN Idle ELSE [Idle EXCEPT !.pc = "done"]]

Fail(kind) ==
  /\ kind \notin faults
  /\ kind # "refuse" => Cardinality(faults \ (Mishaps \cup {"refuse"})) < MaxFaults
  /\ faults' = faults \cup {kind}
Note(mishap, occurs) == faults' = IF occurs THEN faults \cup {mishap} ELSE faults

Init ==
  /\ sent = 0 /\ inbox = <<>> /\ offset = 0 /\ dispatched = 0
  /\ claim = NoClaim /\ marking = NoMarking
  /\ waking = FALSE
  /\ job = [o \in Owners |-> Idle]
  /\ held = [o \in Owners |-> {}]
  /\ woken = [m \in Msgs |-> 0]
  /\ overlooked = {}
  /\ faults = {}

-----------------------------------------------------------------------------
(* Reserve: the whole command runs under the flock.                           *)

\* The cursors and the claim a command starts from: a file shorter than the
\* cursors counts as rotated and resets all three.
Rotated == Len(inbox) < Larger(offset, dispatched)
Cursors ==
  IF Rotated THEN [offset |-> 0, dispatched |-> 0, claim |-> NoClaim]
             ELSE [offset |-> offset, dispatched |-> dispatched, claim |-> claim]

\* What reserve answers and what it leaves in the claim file and the cursor.
Reservation(o) ==
  LET k == Cursors
      c == k.claim
      next == Larger(k.offset, k.dispatched) + 1
      answer(how, newClaim, upto) == [how |-> how, claim |-> newClaim, upto |-> upto]
  IN IF IsOpen(c, k.offset)
     THEN IF c.owner = o
            THEN answer("claimed", [c EXCEPT !.fresh = TRUE], k.dispatched)
          ELSE IF c.fresh
            THEN answer("held", c, k.dispatched)
            ELSE answer("takeover", Record(o, c.start, c.end, k.dispatched), c.end)
     ELSE IF Len(inbox) < next
            THEN answer("nothing", c, k.dispatched)
            ELSE answer("claimed", Record(o, next, Len(inbox), k.dispatched), Len(inbox))

Granted(r) == r.how \in {"claimed", "takeover"}

\* WriteReservation in the wrong order: the cursor is moved first.
WriteCursorFirst(r, wholly) ==
  /\ ClaimLockFree
  /\ offset' = Cursors.offset
  /\ claim' = IF wholly THEN r.claim ELSE Cursors.claim
  /\ dispatched' = r.upto
  /\ UNCHANGED <<inbox, marking, waking>>

\* The files after reserve; wholly = FALSE: the process died between writing the
\* claim and moving the cursor.
WriteReservation(r, wholly) ==
  /\ ClaimLockFree
  /\ offset' = Cursors.offset
  /\ claim' = r.claim
  /\ dispatched' = IF wholly THEN r.upto ELSE Cursors.dispatched
  /\ UNCHANGED <<inbox, marking, waking>>

HoldIfGranted(o, r) ==
  held' = [held EXCEPT ![o] = IF Granted(r) THEN MessagesIn(r.claim.start .. r.claim.end) ELSE {}]
Drop(o) == held' = [held EXCEPT ![o] = {}]

\* A run is told of these lines.
Wake(lines) ==
  woken' = [m \in Msgs |-> IF m \in MessagesIn(lines) /\ woken[m] < MaxWakes
                             THEN woken[m] + 1 ELSE woken[m]]

-----------------------------------------------------------------------------
(* The watcher script, one run at a time per name.                            *)

\* It stops while its lock file is young, removes an old one, and counts lines.
StartWatch(w) ==
  /\ job[w].pc = "idle" /\ claim.owner # w
  /\ ~waking
  /\ job' = [job EXCEPT ![w] = [Idle EXCEPT !.pc = "cursors", !.total = Len(inbox)]]
  /\ UNCHANGED <<sent, overlooked, files, held, woken, faults>>

\* Only then does it read the cursors, zeroing them if they exceed its count.
CheckCursors(w) ==
  /\ job[w].pc = "cursors"
  /\ LET reset == job[w].total < Larger(offset, dispatched)
         off == IF reset THEN 0 ELSE offset
         disp == IF reset THEN 0 ELSE dispatched
         nothingNew == job[w].total <= off
         known == disp >= job[w].total
     IN /\ offset' = off /\ dispatched' = disp
        /\ Note("reset", reset)
        /\ IF nothingNew \/ known
             THEN Finish(w)
             ELSE job' = [job EXCEPT ![w].pc = "reserve", ![w].offset = off]
  /\ UNCHANGED <<sent, overlooked, inbox, claim, marking, waking, held, woken>>

\* A granted claim narrows the script's range, a take-over does not: the script
\* looks for CLAIMED in the answer and reserve printed TAKEOVER.
ReserveLines(w) ==
  /\ job[w].pc = "reserve"
  /\ LET r == Reservation(w)
     IN /\ WriteReservation(r, TRUE)
        /\ HoldIfGranted(w, r)
        /\ CASE r.how = "claimed" ->
                  job' = [job EXCEPT ![w] = [pc |-> "post", offset |-> r.claim.start - 1,
                                             total |-> r.claim.end, claimed |-> TRUE]]
             [] r.how = "takeover" ->
                  job' = [job EXCEPT ![w].pc = "post", ![w].claimed = TRUE]
             [] OTHER -> Finish(w)
  /\ UNCHANGED <<sent, overlooked, woken, faults>>

\* The claim tool is missing or broken: the script goes on without a claim.
ReserveFails(w) ==
  /\ job[w].pc = "reserve"
  /\ Fail("tool")
  /\ Goto(w, "post")
  /\ UNCHANGED <<sent, overlooked, files, held, woken>>

\* The lines a run is told of (NewLinesShort leaves the first one out).
NewLinesShort(w) == (job[w].offset + 2) .. job[w].total
NewLines(w) == (job[w].offset + 1) .. job[w].total

PostAccepted(w) ==
  /\ job[w].pc = "post"
  /\ Wake(NewLines(w))
  /\ Goto(w, "record")
  /\ UNCHANGED <<sent, overlooked, files, held, faults>>

\* No acceptance within curl's ten seconds: the gateway refused, or it started
\* the run and the answer was late.
PostNotAccepted(w) ==
  /\ job[w].pc = "post"
  /\ \/ Fail("refuse") /\ UNCHANGED woken
     \/ Fail("reply") /\ Wake(NewLines(w))
  /\ IF job[w].claimed THEN Goto(w, "abort") /\ UNCHANGED held
                       ELSE Finish(w) /\ Drop(w)
  /\ UNCHANGED <<sent, overlooked, files>>

\* echo "$total" > dispatched, outside the claim lock, then the lock file.
RecordDispatched(w) ==
  /\ job[w].pc = "record"
  /\ dispatched' = job[w].total
  /\ waking' = TRUE
  /\ IF job[w].claimed THEN Goto(w, "commit") ELSE Finish(w)
  /\ UNCHANGED <<sent, overlooked, inbox, offset, claim, marking, held, woken, faults>>

-----------------------------------------------------------------------------
(* commit and abort, by whoever holds a claim.                                *)

\* The lines get their state (processed, failed) in a copy of the file.
StartMarking(o) == marking' = [by |-> o, text |-> inbox]

Overlook(lines) ==
  overlooked' = overlooked \cup {m \in MessagesIn(lines) : woken[m] = 0}

\* Another's claim is left alone; without a claim there is nothing to mark.
Commit(o) ==
  /\ job[o].pc = "commit" /\ ClaimLockFree
  /\ IF claim.owner = o
       THEN claim' = NoClaim /\ StartMarking(o) /\ Goto(o, "mark")
       ELSE UNCHANGED <<claim, marking>> /\ Finish(o)
  /\ Overlook(IF claim.owner = o /\ o \in Requests THEN claim.start .. claim.end ELSE {})
  /\ Drop(o)
  /\ UNCHANGED <<sent, inbox, offset, dispatched, waking, woken, faults>>

\* The cursor goes back only if nobody has moved it and the lines are not processed.
Abort(o) ==
  /\ job[o].pc = "abort" /\ ClaimLockFree
  /\ Drop(o)
  /\ IF claim.owner # o
       THEN UNCHANGED <<claim, dispatched, marking>> /\ Finish(o)
       ELSE /\ claim' = NoClaim
            /\ IF dispatched = claim.end /\ offset < claim.end
                 THEN dispatched' = claim.prev /\ StartMarking(o) /\ Goto(o, "mark")
                 ELSE UNCHANGED <<dispatched, marking>> /\ Finish(o)
  /\ Overlook(IF claim.owner = o THEN claim.start .. claim.prev ELSE {})
  /\ UNCHANGED <<sent, inbox, offset, waking, woken, faults>>

\* The write-back replaces the inbox file by the text it read, with new states.
ReplaceInbox(o) ==
  /\ job[o].pc = "mark"
  /\ inbox' = marking.text
  /\ Note("swallow", inbox # marking.text)
  /\ marking' = NoMarking
  /\ Finish(o)
  /\ UNCHANGED <<sent, overlooked, offset, dispatched, claim, waking, held, woken>>

-----------------------------------------------------------------------------
(* An API request that declares the line of its message.                      *)

Declare(q, line) ==
  /\ job[q].pc = "idle" /\ line \in DOMAIN inbox
  /\ LET r == Reservation(q)
     IN /\ WriteReservation(r, TRUE)
        /\ HoldIfGranted(q, r)
        /\ IF Granted(r)
             THEN job' = [job EXCEPT ![q] = [pc |-> "accept", offset |-> line - 1,
                                             total |-> line, claimed |-> TRUE]]
             ELSE Finish(q)
  /\ UNCHANGED <<sent, overlooked, woken, faults>>

\* The gate degrades and lets the request pass: the tool is missing, or it ran
\* into the gate's timeout after it had made its reservation.
DeclareDegraded(q, line) ==
  /\ job[q].pc = "idle" /\ line \in DOMAIN inbox
  /\ Fail("tool")
  /\ job' = [job EXCEPT ![q] = [Idle EXCEPT !.pc = "accept", !.offset = line - 1, !.total = line]]
  /\ \/ UNCHANGED files
     \/ Granted(Reservation(q)) /\ WriteReservation(Reservation(q), TRUE)
  /\ UNCHANGED <<sent, overlooked, held, woken>>

StartRun(q) ==
  /\ job[q].pc = "accept"
  /\ Wake(NewLines(q))
  /\ IF job[q].claimed THEN Goto(q, "commit") ELSE Finish(q)
  /\ UNCHANGED <<sent, overlooked, files, held, faults>>

\* A malformed conversation history is answered 400 after the claim was made.
RejectHistory(q) ==
  /\ job[q].pc = "accept"
  /\ Fail("invalid")
  /\ Finish(q) /\ Drop(q)
  /\ UNCHANGED <<sent, overlooked, files, woken>>

-----------------------------------------------------------------------------
(* Crashes, time, and the parties outside the repository.                     *)

Crash(o) ==
  /\ Active(o) /\ Fail("crash")
  /\ marking' = IF marking.by = o THEN NoMarking ELSE marking
  /\ Finish(o) /\ Drop(o)
  /\ UNCHANGED <<sent, overlooked, inbox, offset, dispatched, claim, waking, woken>>

\* Reserve writes the claim before it moves the cursor and may die in between.
CrashInReserve(w) ==
  /\ job[w].pc = "reserve" /\ Fail("crash")
  /\ Granted(Reservation(w)) /\ WriteReservation(Reservation(w), FALSE)
  /\ Finish(w)
  /\ UNCHANGED <<sent, overlooked, held, woken>>

\* A claim outlives its TTL, either because its owner is gone or (a fault) because
\* the owner is slower than 300 seconds.
Lapse ==
  /\ claim.fresh
  /\ \/ ~Active(claim.owner) /\ UNCHANGED faults
     \/ Active(claim.owner) /\ Fail("lapse")
  /\ claim' = [claim EXCEPT !.fresh = FALSE]
  /\ UNCHANGED <<sent, overlooked, inbox, offset, dispatched, marking, waking,
                 job, held, woken>>

WakingAges ==
  /\ waking /\ waking' = FALSE
  /\ UNCHANGED <<sent, overlooked, inbox, offset, dispatched, claim, marking,
                 job, held, woken, faults>>

SenderAppends ==
  /\ sent < MaxLines
  /\ sent' = sent + 1 /\ inbox' = Append(inbox, sent')
  /\ UNCHANGED <<overlooked, offset, dispatched, claim, marking, waking,
                 job, held, woken, faults>>

\* External: a run that was woken for the leading lines moves the cursors past them.
CloseLines ==
  /\ \E n \in (offset + 1) .. Len(inbox) :
       /\ \A l \in 1 .. n : woken[inbox[l]] > 0
       /\ offset' = n /\ dispatched' = Larger(dispatched, n)
  /\ UNCHANGED <<sent, overlooked, inbox, claim, marking, waking, job, held, woken, faults>>

\* External: the inbox file is archived and starts again from nothing.
Rotate ==
  /\ inbox # <<>> /\ Fail("rotate")
  /\ inbox' = <<>>
  /\ UNCHANGED <<sent, overlooked, offset, dispatched, claim, marking, waking,
                 job, held, woken>>

-----------------------------------------------------------------------------
WatcherStep(w) ==
  \/ StartWatch(w) \/ CheckCursors(w) \/ ReserveLines(w) \/ ReserveFails(w)
  \/ PostAccepted(w) \/ PostNotAccepted(w) \/ RecordDispatched(w) \/ CrashInReserve(w)

RequestStep(q) ==
  \/ \E line \in DOMAIN inbox : Declare(q, line) \/ DeclareDegraded(q, line)
  \/ StartRun(q) \/ RejectHistory(q)

OwnerStep(o) == Commit(o) \/ Abort(o) \/ ReplaceInbox(o) \/ Crash(o)

Environment == Lapse \/ WakingAges \/ CloseLines \/ Rotate \/ SenderAppends

Next ==
  \/ \E w \in Watchers : WatcherStep(w)
  \/ \E q \in Requests : RequestStep(q)
  \/ \E o \in Owners : OwnerStep(o)
  \/ Environment

\* What the watcher's timer, the event loop and the clock keep doing.
Progress(o) ==
  \/ CheckCursors(o) \/ ReserveLines(o) \/ PostAccepted(o) \/ RecordDispatched(o)
  \/ StartRun(o) \/ Commit(o) \/ Abort(o) \/ ReplaceInbox(o)
Fairness ==
  /\ \A o \in Owners : WF_vars(Progress(o))
  /\ WF_vars(\E w \in Watchers : StartWatch(w))
  /\ WF_vars(WakingAges) /\ WF_vars(Lapse /\ UNCHANGED faults)

Spec == Init /\ [][Next]_vars
FairSpec == Spec /\ Fairness

-----------------------------------------------------------------------------
(* Properties.                                                                *)

Labels == {"idle", "cursors", "reserve", "post", "accept", "record", "commit", "abort", "mark",
           "done"}
Claims == [owner : Owners \cup {NoOwner}, start : Nat, end : Nat, prev : Nat, fresh : BOOLEAN]
Markings == [by : Owners \cup {NoOwner}, text : Seq(Msgs)]
JobRecords == [pc : Labels, offset : Nat, total : Nat, claimed : BOOLEAN]
TypeOK ==
  /\ sent \in 0 .. MaxLines /\ inbox \in Seq(Msgs)
  /\ offset \in Nat /\ dispatched \in Nat
  /\ claim \in Claims /\ marking \in Markings /\ waking \in BOOLEAN
  /\ job \in [Owners -> JobRecords]
  /\ held \in [Owners -> SUBSET Msgs] /\ overlooked \subseteq Msgs
  /\ woken \in [Msgs -> 0 .. MaxWakes]
  /\ faults \subseteq FaultKinds \cup Mishaps

\* A line has one owner: two owners are told that the same message is theirs only
\* if the first was slower than the TTL, or the line numbers changed under them
\* (cursors zeroed outside the lock, file rotated or replaced).
Exclusive ==
  \A a, b \in Owners : a # b /\ held[a] \cap held[b] # {} => faults \cap {"lapse", "reset", "swallow", "rotate"} # {}

\* No line behind the dispatch cursor is forgotten, whatever crashes: it was handed
\* to a run, or the claim file still names it, or it was overlooked in one of the
\* two ways the code has: a request committed lines it had not declared, or a run
\* gave up a claim it had taken over (whose previous cursor is its own end).
Accounted ==
  faults \cap {"rotate", "swallow"} = {} =>
    \A l \in 1 .. dispatched \cap DOMAIN inbox :
      \/ woken[inbox[l]] > 0
      \/ l \in claim.start .. claim.end
      \/ inbox[l] \in overlooked

\* Every appended line is in the end handed to a run, although the gateway may
\* refuse or answer late: unless it was overlooked (see Accounted), vanished from
\* the file, or the script or its tool died or were too slow on the way.
Delivered ==
  \A m \in Msgs :
    InInbox(m) ~> \/ woken[m] > 0
                  \/ m \in overlooked
                  \/ ~InInbox(m)
                  \/ faults \ {"refuse", "reply"} # {}

\* The gate's promise that a line already dispatched is refused to the other
\* channel: while nothing fails, no message is handed to two runs.
WokenOnce == faults \subseteq Mishaps => \A m \in Msgs : woken[m] < 2

=============================================================================
