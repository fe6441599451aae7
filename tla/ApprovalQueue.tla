---------------------------- MODULE ApprovalQueue ----------------------------
(***************************************************************************)
(* Consent for dangerous commands in one gateway session (tools/approval.py *)
(* and its callers in gateway/).                                            *)
(*                                                                         *)
(* Each request is a thread inside check_all_command_guards: it looks its   *)
(* keys up, joins the session's queue, notifies the user, waits on an event *)
(* of its own with a time-out, and writes down what the user wants to be    *)
(* remembered.  Each turn is a run_sync that registers a notify callback    *)
(* and unregisters it at its end; turns may overlap and threads outlive     *)
(* them.  The event loop executes /approve, /deny and /yolo.  A step is one *)
(* critical section of _lock or one effect outside it.                      *)
(***************************************************************************)
EXTENDS Naturals, Sequences, FiniteSets, Functions

CONSTANTS
  Requests,     \* threads that check a command
  Turns,        \* calls of run_sync in the session
  Keys,         \* pattern keys
  TirithKeys,   \* keys raised by the tirith scan
  Commands,     \* the sets of keys commands raise
  MaxRestarts,  \* bound on the restarts of the process
  NoTurn        \* no callback registered

ASSUME ApprovalAssumption ==
  /\ TirithKeys \subseteq Keys
  /\ Commands \subseteq (SUBSET Keys) \ {{}}
  /\ \A C \in Commands : /\ \A a, b \in C \cap TirithKeys : a = b
                         /\ \A a, b \in C \ TirithKeys : a = b
  /\ NoTurn \notin Turns /\ MaxRestarts \in Nat

VARIABLES
  command,    \* the keys each request's command raises
  pc,         \* where each thread is
  todo,       \* keys it has still to look up or to write down
  warnings,   \* keys it needs consent for
  callback,   \* _gateway_notify_cbs of the session
  turn,       \* state of each run_sync
  queue,      \* _gateway_queues of the session
  event,      \* _ApprovalEntry.event
  result,     \* _ApprovalEntry.result
  mail,       \* what resolve_gateway_approval has still to hand out
  approved,   \* _session_approved of the session
  permanent,  \* _permanent_approved
  yolo,       \* _session_yolo
  disk,       \* config.yaml
  buffer,     \* the configuration each thread is about to write
  restarts    \* number of restarts so far

threadVars == <<command, pc, todo, warnings>>
lineVars   == <<callback, turn, queue, event, result, mail>>
trustVars  == <<approved, permanent, yolo>>
diskVars   == <<disk, buffer>>
vars == <<command, pc, todo, warnings, callback, turn, queue, event, result, mail,
          approved, permanent, yolo, disk, buffer, restarts>>

Choices == {"once", "session", "always", "deny"}
PCs     == {"idle", "check", "enqueue", "notify", "wait", "woken", "expired", "persist",
            "load", "open", "write", "allowed", "blocked", "dead"}
Final   == {"allowed", "blocked", "dead"}
Saving  == {"load", "open", "write"}

\* config.yaml: whether it parses, whether it has the other settings, and its
\* command_allowlist.  An empty file parses as an empty configuration.
Config    == [parses: BOOLEAN, others: BOOLEAN, list: SUBSET Keys]
Truncated == [parses |-> TRUE, others |-> FALSE, list |-> {}]
Garbled   == [parses |-> FALSE, others |-> FALSE, list |-> {}]

Init ==
  /\ command \in [Requests -> Commands]
  /\ pc = [r \in Requests |-> "idle"]
  /\ todo = [r \in Requests |-> {}] /\ warnings = [r \in Requests |-> {}]
  /\ callback = NoTurn /\ turn = [u \in Turns |-> "new"]
  /\ queue = <<>>
  /\ event = [r \in Requests |-> FALSE] /\ result = [r \in Requests |-> "none"]
  /\ mail = [choice |-> "none", to |-> <<>>]
  /\ approved = {} /\ permanent = {} /\ yolo = FALSE
  /\ disk = [parses |-> TRUE, others |-> TRUE, list |-> {}]
  /\ buffer = [r \in Requests |-> Truncated]
  /\ restarts = 0

Goto(r, where) == pc' = [pc EXCEPT ![r] = where]

\* The scan's finding comes before the pattern in "warnings".
Foremost(S) == IF S \cap TirithKeys # {} THEN S \cap TirithKeys ELSE S

\* list.remove of a request that may have left the queue already.
StillThere(q, r) == q
Without(q, r) ==
  IF r \in Range(q)
  THEN LET i == CHOOSE j \in DOMAIN q : q[j] = r
       IN SubSeq(q, 1, i - 1) \o SubSeq(q, i + 1, Len(q))
  ELSE q

-----------------------------------------------------------------------------
(* run_sync: register_gateway_notify ... unregister_gateway_notify          *)

TurnStarts(u) ==
  /\ turn[u] = "new"
  /\ turn' = [turn EXCEPT ![u] = "on"]
  /\ callback' = u
  /\ UNCHANGED <<threadVars, queue, event, result, mail, trustVars, diskVars, restarts>>

\* The callback and the whole queue of the session are dropped, whichever turn
\* they belong to; the waiting threads are woken without a result.
TurnEnds(u) ==
  /\ turn[u] = "on"
  /\ turn' = [turn EXCEPT ![u] = "over"]
  /\ callback' = NoTurn /\ queue' = <<>>
  /\ event' = [r \in Requests |-> event[r] \/ r \in Range(queue)]
  /\ UNCHANGED <<threadVars, result, mail, trustVars, diskVars, restarts>>

-----------------------------------------------------------------------------
(* /approve, /deny, /yolo                                                   *)

\* resolve_gateway_approval: the oldest entry, or all, leave the queue ...
Resolve(choice, n) ==
  /\ mail.to = <<>> /\ queue # <<>>
  /\ mail' = [choice |-> choice, to |-> SubSeq(queue, 1, n)]
  /\ queue' = SubSeq(queue, n + 1, Len(queue))
  /\ UNCHANGED <<threadVars, callback, turn, event, result, trustVars, diskVars, restarts>>

\* ... and, outside the lock, are given the result and woken.
ActionGiven == "hermes_approve_once"
ChoiceGiven == mail.choice

HandOut ==
  /\ mail.to # <<>>
  /\ result' = [result EXCEPT ![Head(mail.to)] = ChoiceGiven]
  /\ event' = [event EXCEPT ![Head(mail.to)] = TRUE]
  /\ mail' = [mail EXCEPT !.to = Tail(@)]
  /\ UNCHANGED <<threadVars, callback, turn, queue, trustVars, diskVars, restarts>>

ToggleYolo ==
  /\ yolo' = ~yolo
  /\ UNCHANGED <<threadVars, lineVars, approved, permanent, diskVars, restarts>>

-----------------------------------------------------------------------------
(* check_all_command_guards: what needs consent                             *)

\* The bypass is looked at once, at the start.
Start(r) ==
  /\ pc[r] = "idle" /\ \E u \in Turns : turn[u] = "on"
  /\ \/ yolo /\ Goto(r, "allowed") /\ UNCHANGED todo
     \/ ~yolo /\ Goto(r, "check") /\ todo' = [todo EXCEPT ![r] = command[r]]
  /\ UNCHANGED <<command, warnings, lineVars, trustVars, diskVars, restarts>>

Trusted(k) == k \in permanent \cup approved

\* is_approved: one critical section per key.
LookUp(r) ==
  /\ pc[r] = "check"
  /\ \E k \in Foremost(todo[r]) :
       /\ todo' = [todo EXCEPT ![r] = @ \ {k}]
       /\ warnings' = [warnings EXCEPT ![r] = IF Trusted(k) THEN @ ELSE @ \cup {k}]
  /\ UNCHANGED <<command, pc, lineVars, trustVars, diskVars, restarts>>

\* Nothing to warn about; otherwise a callback is needed to ask anybody.
LookedUp(r) ==
  /\ pc[r] = "check" /\ todo[r] = {}
  /\ Goto(r, IF warnings[r] = {} THEN "allowed"
             ELSE IF callback = NoTurn THEN "blocked" ELSE "enqueue")
  /\ UNCHANGED <<command, todo, warnings, lineVars, trustVars, diskVars, restarts>>

Enqueue(r) ==
  /\ pc[r] = "enqueue"
  /\ queue' = Append(queue, r)
  /\ Goto(r, "notify")
  /\ UNCHANGED <<command, todo, warnings, callback, turn, event, result, mail, trustVars,
                 diskVars, restarts>>

\* The callback sends the request to the user, or raises: the entry is removed
\* and the command blocked.
Notify(r) ==
  /\ pc[r] = "notify"
  /\ \/ Goto(r, "wait") /\ UNCHANGED queue
     \/ Goto(r, "blocked") /\ queue' = Without(queue, r)
  /\ UNCHANGED <<command, todo, warnings, callback, turn, event, result, mail, trustVars,
                 diskVars, restarts>>

\* entry.event.wait(timeout): it wakes, or gateway_timeout passes first.
WithoutTimeout(r) == FALSE
MayExpire(r) == ~event[r]

Wait(r) ==
  /\ pc[r] = "wait"
  /\ \/ event[r] /\ Goto(r, "woken")
     \/ MayExpire(r) /\ Goto(r, "expired")
  /\ UNCHANGED <<command, todo, warnings, lineVars, trustVars, diskVars, restarts>>

\* The answer of a thread that was woken: none if its turn ended.
UnlessDenied(r) == result[r] # "deny"
Granted(r) == result[r] \notin {"none", "deny"}

\* The entry is removed if it is still there, and the result decides.
Decide(r) ==
  /\ pc[r] \in {"woken", "expired"}
  /\ queue' = Without(queue, r)
  /\ IF pc[r] = "woken" /\ Granted(r)
     THEN IF result[r] = "once" THEN Goto(r, "allowed") /\ UNCHANGED todo
          ELSE Goto(r, "persist") /\ todo' = [todo EXCEPT ![r] = warnings[r]]
     ELSE Goto(r, "blocked") /\ UNCHANGED todo
  /\ UNCHANGED <<command, warnings, callback, turn, event, result, mail, trustVars,
                 diskVars, restarts>>

-----------------------------------------------------------------------------
(* check_all_command_guards: what is remembered                             *)

\* approve_session, and for "always" approve_permanent unless the scan raised it.
Lasting(r, k) == result[r] = "always" /\ k \notin TirithKeys

Remember(r) ==
  /\ pc[r] = "persist"
  /\ \E k \in Foremost(todo[r]) :
       /\ todo' = [todo EXCEPT ![r] = @ \ {k}]
       /\ approved' = approved \cup {k}
       /\ IF Lasting(r, k)
          THEN permanent' = permanent \cup {k} /\ Goto(r, "load")
          ELSE UNCHANGED <<permanent, pc>>
  /\ UNCHANGED <<command, warnings, lineVars, yolo, diskVars, restarts>>

Remembered(r) ==
  /\ pc[r] = "persist" /\ todo[r] = {}
  /\ Goto(r, "allowed")
  /\ UNCHANGED <<command, todo, warnings, lineVars, trustVars, diskVars, restarts>>

\* save_permanent_allowlist, without any lock: read the file and replace the list;
\* a file that does not parse ends the attempt.
LoadConfig(r) ==
  /\ pc[r] = "load"
  /\ IF disk.parses
     THEN /\ buffer' = [buffer EXCEPT ![r] = [disk EXCEPT !.list = permanent]]
          /\ Goto(r, "open")
     ELSE Goto(r, "persist") /\ UNCHANGED buffer
  /\ UNCHANGED <<command, todo, warnings, lineVars, trustVars, disk, restarts>>

\* open(path, "w") truncates at once ...
OpenConfig(r) ==
  /\ pc[r] = "open"
  /\ disk' = Truncated
  /\ Goto(r, "write")
  /\ UNCHANGED <<command, todo, warnings, lineVars, trustVars, buffer, restarts>>

\* ... and the text arrives later, from offset 0: over that of a thread that wrote
\* meanwhile, whose tail may be left behind it.
Overlaid(new, old) ==
  IF new = old THEN {new}
  ELSE {new, Garbled} \cup
       {[parses |-> TRUE, others |-> others, list |-> new.list \cup old.list] :
          others \in {new.others, new.others \/ old.others}}

WriteConfig(r) ==
  /\ pc[r] = "write"
  /\ disk' \in (IF disk = Truncated THEN {buffer[r]} ELSE Overlaid(buffer[r], disk))
  /\ Goto(r, "persist")
  /\ UNCHANGED <<command, todo, warnings, lineVars, trustVars, buffer, restarts>>

-----------------------------------------------------------------------------
\* The process dies at any moment and starts again: load_permanent_allowlist reads
\* what the file holds.
Restart ==
  /\ restarts < MaxRestarts
  /\ restarts' = restarts + 1
  /\ pc' = [r \in Requests |-> IF pc[r] \in Final THEN pc[r]
                               ELSE IF pc[r] = "idle" THEN "idle" ELSE "dead"]
  /\ todo' = [r \in Requests |-> {}] /\ warnings' = [r \in Requests |-> {}]
  /\ callback' = NoTurn /\ queue' = <<>>
  /\ turn' = [u \in Turns |-> IF turn[u] = "on" THEN "over" ELSE turn[u]]
  /\ event' = [r \in Requests |-> FALSE] /\ result' = [r \in Requests |-> "none"]
  /\ mail' = [choice |-> "none", to |-> <<>>]
  /\ approved' = {} /\ permanent' = disk.list /\ yolo' = FALSE
  /\ buffer' = [r \in Requests |-> Truncated]
  /\ UNCHANGED <<command, disk>>

User ==
  \/ \E choice \in Choices, n \in {1, Len(queue)} : Resolve(choice, n)
  \/ ToggleYolo

ThreadStep(r) ==
  \/ LookUp(r) \/ LookedUp(r) \/ Enqueue(r) \/ Notify(r) \/ Wait(r) \/ Decide(r)
  \/ Remember(r) \/ Remembered(r) \/ LoadConfig(r) \/ OpenConfig(r) \/ WriteConfig(r)

Next ==
  \/ \E u \in Turns : TurnStarts(u) \/ TurnEnds(u)
  \/ User \/ HandOut
  \/ \E r \in Requests : Start(r) \/ ThreadStep(r)
  \/ Restart

\* Threads run, and a wait on an event ends at its time-out at the latest.
Fairness == \A r \in Requests : WF_vars(ThreadStep(r))

Spec == Init /\ [][Next]_vars /\ Fairness

-----------------------------------------------------------------------------
(* Properties                                                              *)

\* Every variable holds a value of its type.
TypeOK ==
  /\ command \in [Requests -> Commands]
  /\ pc \in [Requests -> PCs]
  /\ todo \in [Requests -> SUBSET Keys] /\ warnings \in [Requests -> SUBSET Keys]
  /\ callback \in Turns \cup {NoTurn} /\ turn \in [Turns -> {"new", "on", "over"}]
  /\ queue \in Seq(Requests)
  /\ event \in [Requests -> BOOLEAN] /\ result \in [Requests -> Choices \cup {"none"}]
  /\ mail \in [choice: Choices \cup {"none"}, to: Seq(Requests)]
  /\ approved \subseteq Keys /\ permanent \subseteq Keys /\ yolo \in BOOLEAN
  /\ disk \in Config /\ buffer \in [Requests -> Config]
  /\ restarts \in 0..MaxRestarts

\* The queue and the threads agree: who waits unanswered is in the queue or among
\* those being answered, once, and nobody is in it who has gone (a ghost would take
\* the answer meant for the next request).
LineMatchesWaiters ==
  /\ \A i, j \in DOMAIN queue : queue[i] = queue[j] => i = j
  /\ \A r \in Range(queue) : pc[r] \in {"notify", "wait", "expired"} /\ ~event[r]
  /\ \A r \in Requests : pc[r] \in {"notify", "wait"} /\ ~event[r] =>
       r \in Range(queue) \cup Range(mail.to)

\* The answer each request has been given, whether or not its thread has seen it.
Verdict == [r \in Requests |-> IF r \in Range(mail.to) THEN mail.choice ELSE result[r]]

Outcome == [r \in Requests |->
  CASE pc[r] \in {"idle", "check", "enqueue"} -> "new"
    [] pc[r] \in Final -> pc[r]
    [] OTHER -> "asked"]

Contract == INSTANCE ApprovalContract WITH
  line <- queue, verdict <- Verdict, trusted <- approved, lasting <- permanent,
  free <- yolo, outcome <- Outcome

\* Threads, events and time-outs implement the contract: a command runs only on
\* its own user's yes or on trust, and what a yes promised to remember is remembered
\* before the command runs.
ImplementsContract == Contract!CSpec

\* Every request that was started is decided, even if nobody ever answers.
RequestsSettle == \A r \in Requests : (pc[r] = "check") ~> (pc[r] \in Final)

-----------------------------------------------------------------------------
(* What the documentation says, and the code does not do                   *)

\* admin_commands_mixin.py:65 "/approve always - approve oldest + remember
\* permanently": when no save is under way, the file has what is trusted permanently.
RememberedPermanently ==
  (\A r \in Requests : pc[r] \notin Saving) => permanent \subseteq disk.list
=============================================================================
