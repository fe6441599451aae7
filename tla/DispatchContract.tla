-------------------------- MODULE DispatchContract --------------------------
(***************************************************************************)
(* What the gateway promises the senders of one chat session.  A message    *)
(* that has come is in the slot, where one waits, or in the hand of a task, *)
(* until it meets its fate; the reasons for which it may meet which fate     *)
(* are the actions below.  Guards, locks, frames, threads, interrupts and    *)
(* nested calls do not appear.                                              *)
(***************************************************************************)
CONSTANTS
  Msgs,     \* the messages of the session; a task is named by the one it was begun for
  Nobody,   \* an empty slot, an empty hand
  Photos,   \* those that may be joined to one another
  Stops,    \* those that tell the agent to stop
  Commands  \* those, stops among them, that are not the user's words to the agent

VARIABLES
  slot,     \* the message that waits for a task
  spoken,   \* the commands whose argument waits in their place as the user's words
  hand,     \* the message each task answers for
  begun,    \* the messages a run of the agent was begun for
  closing,  \* the gateway is shutting down
  fate      \* what became of each message

cvars == <<slot, spoken, hand, begun, closing, fate>>

\* Accepted: its sender expects an answer now, or was told to expect one after a restart.
Accepted == {"live", "promised"}

CInit ==
  /\ slot = Nobody /\ spoken = {} /\ hand = [t \in Msgs |-> Nobody]
  /\ begun = {} /\ closing = FALSE
  /\ fate = [m \in Msgs |-> "unsent"]

Held(t)  == hand[t] # Nobody
Fresh(t) == Held(t) /\ hand[t] \notin begun
LetGo(t) == hand' = [hand EXCEPT ![t] = Nobody]
Meets(m, end) == fate' = [fate EXCEPT ![m] = end]

\* What fate would be if the message in the slot, if any, met this end.
SlotMeets(end) == [m \in Msgs |-> IF m = slot THEN end ELSE fate[m]]

\* A task is begun for a message that finds none.
Spawn(m) ==
  /\ fate[m] = "unsent" /\ ~Held(m)
  /\ hand' = [hand EXCEPT ![m] = m] /\ Meets(m, "live")
  /\ UNCHANGED <<slot, spoken, begun, closing>>

\* A message meets the slot: it replaces what waits there, a photo joins a photo, it is
\* refused during the shutdown, or it is a stop, which empties the slot.
Offer(m) ==
  \/ /\ slot' = m
     /\ \E as \in Accepted : /\ as = "promised" => closing
                             /\ fate' = [SlotMeets("replaced") EXCEPT ![m] = as]
  \/ {slot, m} \subseteq Photos /\ Meets(m, "merged") /\ UNCHANGED slot
  \/ closing /\ Meets(m, "rejected") /\ UNCHANGED slot
  \/ /\ m \in Stops /\ slot' = Nobody
     /\ fate' = [SlotMeets("discarded") EXCEPT ![m] = "executed"]

Post(m)    == fate[m] = "unsent" /\ Offer(m) /\ UNCHANGED <<spoken, hand, begun, closing>>

\* A message in hand goes to the slot, a command perhaps as the words that follow it.
Spelt(m) == m \in Commands \ Stops /\ slot' = m /\ spoken' = spoken \cup {m}

PutBack(t) ==
  /\ Fresh(t) /\ Offer(hand[t]) /\ LetGo(t)
  /\ UNCHANGED spoken \/ Spelt(hand[t])
  /\ UNCHANGED <<begun, closing>>

\* A message is let go without a run: it was a command that needs none, an interrupt
\* swallowed it, its preparation failed, or the gateway shuts down.
Decline(t) ==
  /\ Fresh(t) /\ LetGo(t)
  /\ \E end \in {"executed", "swallowed", "failed", "rejected"} :
       /\ end = "rejected" => closing
       /\ end = "executed" => hand[t] \in Commands \ spoken
       /\ end = "swallowed" => ~closing
       /\ Meets(hand[t], end)
  /\ UNCHANGED <<slot, spoken, begun, closing>>

\* A message has one run.
BeginRun(t) ==
  /\ Fresh(t) /\ begun' = begun \cup {hand[t]}
  /\ UNCHANGED <<slot, spoken, hand, closing, fate>>

\* A run fails, or answers the message it was begun for; then what waits is left, or
\* taken as the next to answer, but discarded if no agent may read it as the user's words
\* or the gateway shuts down.
FailRun(t) ==
  /\ hand[t] \in begun /\ LetGo(t) /\ Meets(hand[t], "failed")
  /\ UNCHANGED <<slot, spoken, begun, closing>>

Answer(t) ==
  /\ hand[t] \in begun
  /\ \/ LetGo(t) /\ Meets(hand[t], "answered") /\ UNCHANGED slot
     \/ /\ slot # Nobody /\ slot \notin Commands \ spoken /\ ~closing
        /\ hand' = [hand EXCEPT ![t] = slot] /\ slot' = Nobody
        /\ Meets(hand[t], "answered")
     \/ /\ slot \in Commands \ spoken \/ closing
        /\ LetGo(t) /\ slot' = Nobody
        /\ fate' = [SlotMeets("discarded") EXCEPT ![hand[t]] = "answered"]
  /\ UNCHANGED <<spoken, begun, closing>>

\* A task that has let go takes what waits, or loses it to the recursion limit.
Take(t) ==
  /\ slot # Nobody /\ slot' = Nobody /\ ~Held(t)
  /\ \/ hand' = [hand EXCEPT ![t] = slot] /\ UNCHANGED fate
     \/ Meets(slot, "failed") /\ UNCHANGED hand
  /\ UNCHANGED <<spoken, begun, closing>>

\* The shutdown begins, fails what some tasks hold, and discards what waits at its end.
BeginClosing == closing' = TRUE /\ UNCHANGED <<slot, spoken, hand, begun, fate>>

Cancel ==
  /\ closing
  /\ \E cut \in SUBSET Msgs :
       /\ hand' = [t \in Msgs |-> IF t \in cut THEN Nobody ELSE hand[t]]
       /\ fate' = [m \in Msgs |-> IF \E t \in cut : hand[t] = m THEN "failed" ELSE fate[m]]
  /\ UNCHANGED <<slot, spoken, begun, closing>>

Disconnect ==
  /\ closing /\ slot' = Nobody /\ fate' = SlotMeets("discarded")
  /\ UNCHANGED <<spoken, hand, begun, closing>>

CNext ==
  \/ \E m \in Msgs : Spawn(m) \/ Post(m)
  \/ \E t \in Msgs : PutBack(t) \/ Decline(t) \/ BeginRun(t) \/ FailRun(t) \/ Answer(t) \/ Take(t)
  \/ BeginClosing \/ Cancel \/ Disconnect

CSpec == CInit /\ [][CNext]_cvars
=============================================================================
