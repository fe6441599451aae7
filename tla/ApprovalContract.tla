-------------------------- MODULE ApprovalContract --------------------------
(***************************************************************************)
(* What tools/approval.py promises the user about dangerous commands: each  *)
(* command that needs consent waits in one line, answers go to the head of  *)
(* the line or to all of it, and a command runs only if its own answer was  *)
(* yes, if everything it needs is already trusted, or if the user switched  *)
(* the questions off.  Locks, callbacks, events and files do not appear.    *)
(***************************************************************************)
EXTENDS Naturals, Sequences, FiniteSets, Functions

CONSTANTS
  Requests,    \* commands waiting to be executed, each by a thread of its own
  Keys,        \* pattern keys: what a command needs consent for
  TirithKeys   \* those raised by the tirith scan: never trusted permanently

VARIABLES
  command,   \* the keys each request needs
  line,      \* requests waiting for the user, oldest first
  verdict,   \* the user's answer to each request
  trusted,   \* keys trusted for the session
  lasting,   \* keys trusted permanently
  free,      \* /yolo: no questions asked
  outcome    \* what became of each request

cvars == <<command, line, verdict, trusted, lasting, free, outcome>>

Choices  == {"once", "session", "always", "deny"}
Outcomes == {"new", "asked", "allowed", "blocked", "dead"}
Settled  == {"allowed", "blocked", "dead"}

\* The line without r: list.remove under the lock.
Without(q, r) ==
  IF r \in Range(q)
  THEN LET i == CHOOSE j \in DOMAIN q : q[j] = r
       IN SubSeq(q, 1, i - 1) \o SubSeq(q, i + 1, Len(q))
  ELSE q

CInit ==
  /\ command \in [Requests -> SUBSET Keys]
  /\ line = <<>>
  /\ verdict = [r \in Requests |-> "none"]
  /\ trusted = {} /\ lasting = {} /\ free = FALSE
  /\ outcome = [r \in Requests |-> "new"]

\* A request joins the line once.
Join(r) ==
  /\ outcome[r] = "new"
  /\ outcome' = [outcome EXCEPT ![r] = "asked"]
  /\ line' = Append(line, r)
  /\ UNCHANGED <<command, verdict, trusted, lasting, free>>

\* The user answers the oldest request, or all of them.
Answer(choice, n) ==
  /\ line # <<>>
  /\ verdict' = [r \in Requests |->
                   IF r \in Range(SubSeq(line, 1, n)) THEN choice ELSE verdict[r]]
  /\ line' = SubSeq(line, n + 1, Len(line))
  /\ UNCHANGED <<command, trusted, lasting, free, outcome>>

\* The line is dissolved: its requests will not be answered any more.
Dismiss ==
  /\ line' = <<>>
  /\ UNCHANGED <<command, verdict, trusted, lasting, free, outcome>>

\* A key is trusted because a request that needs it was answered so; a finding
\* of the scan never permanently.
Remember(r, k) ==
  /\ outcome[r] = "asked" /\ k \in command[r]
  /\ verdict[r] \in {"session", "always"}
  /\ trusted' = trusted \cup {k}
  /\ lasting' = IF verdict[r] = "always" /\ k \notin TirithKeys
                THEN lasting \cup {k} ELSE lasting
  /\ UNCHANGED <<command, line, verdict, free, outcome>>

\* Why a command may run.
Consent(r) ==
  \/ outcome[r] = "new" /\ (free \/ command[r] \subseteq trusted \cup lasting)
  \/ outcome[r] = "asked" /\ verdict[r] = "once"
  \/ /\ outcome[r] = "asked" /\ verdict[r] \in {"session", "always"}
     /\ command[r] \subseteq trusted \cup lasting

Allow(r) ==
  /\ Consent(r)
  /\ outcome' = [outcome EXCEPT ![r] = "allowed"]
  /\ UNCHANGED <<command, line, verdict, trusted, lasting, free>>

\* A command may be blocked at any time; it leaves the line.
Block(r) ==
  /\ outcome[r] \notin Settled
  /\ outcome' = [outcome EXCEPT ![r] = "blocked"]
  /\ line' = Without(line, r)
  /\ UNCHANGED <<command, verdict, trusted, lasting, free>>

Toggle ==
  /\ free' = ~free
  /\ UNCHANGED <<command, line, verdict, trusted, lasting, outcome>>

\* The process is restarted: only permanent trust may survive, and no request that
\* was asked about; of those that were not, some may not have begun.
Reboot ==
  /\ line' = <<>> /\ verdict' = [r \in Requests |-> "none"]
  /\ trusted' = {} /\ lasting' \in SUBSET lasting /\ free' = FALSE
  /\ \E lost \in SUBSET Requests :
       outcome' = [r \in Requests |->
                     IF outcome[r] \in Settled \/ (outcome[r] = "new" /\ r \notin lost)
                     THEN outcome[r] ELSE "dead"]
  /\ UNCHANGED command

CNext ==
  \/ \E r \in Requests : Join(r) \/ Allow(r) \/ Block(r)
  \/ \E r \in Requests, k \in Keys : Remember(r, k)
  \/ \E choice \in Choices, n \in {1, Len(line)} : Answer(choice, n)
  \/ Dismiss \/ Toggle \/ Reboot

CSpec == CInit /\ [][CNext]_cvars
=============================================================================
