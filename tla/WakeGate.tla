------------------------------ MODULE WakeGate ------------------------------
(***************************************************************************)
(* The single-flight gate of autonomous wake-ups (gateway/wake_gate.py) and *)
(* its use by run_sync (gateway/agent_mixin.py).                            *)
(*                                                                         *)
(* Every agent run executes run_sync on an executor thread and asks the     *)
(* gate first: an interactive run passes, a wake-up passes only if no other *)
(* wake-up holds the session and the same event has not been granted        *)
(* within the deduplication window.  The clock is read before the lock is   *)
(* taken, so a decision may be made with a time that is already past.       *)
(* A run is its run_token: begin_run draws a fresh one for each run.        *)
(***************************************************************************)
EXTENDS Naturals, FiniteSets

CONSTANTS
  Sessions,   \* session keys
  Runs,       \* run tokens
  Events,     \* event fingerprints
  Lease,      \* lease_s
  Window,     \* dedup_window_s
  MaxSeen,    \* max_fingerprints of a session
  MaxTime,    \* the clock stops here: bounds the model
  NoRun       \* no holder, no such fingerprint

ASSUME GateAssumption ==
  /\ NoRun \notin Runs
  /\ Lease \in Nat /\ Window \in Nat /\ MaxSeen \in Nat /\ MaxTime \in Nat
  /\ IsFiniteSet(Events) /\ IsFiniteSet(Sessions)

VARIABLES
  clock,     \* the monotonic clock
  holders,   \* _holders: the run holding each session, NoRun if absent
  started,   \* started_at of the holder
  seen,      \* _fingerprints: run and time of each remembered event
  metrics,   \* _metrics, without the bypass counters
  pc,        \* where each run is
  req,       \* what each run asked: session, event, trigger, clock reading
  reason,    \* GateDecision.reason of each run
  grants     \* history: the wake-ups granted, with the clock at the decision

vars    == <<clock, holders, started, seen, metrics, pc, req, reason, grants>>
gateVars == <<holders, started, seen, metrics, grants>>

PCs     == {"idle", "timed", "waiting", "decided", "running", "released", "following", "done"}
Reasons == {"none", "granted", "interactive_bypass", "occupied", "occupied_lease_expired",
            "duplicate_event", "gate_internal_error"}
Modes   == {"wake", "user"}
Counters == {"granted", "duplicate", "rejected", "expired", "peak", "errors"}

Request == [session: Sessions, event: Events, mode: Modes, waits: BOOLEAN, now: Nat]
Entry   == [run: Runs \cup {NoRun}, at: Nat]
NoEntry == [run |-> NoRun, at |-> 0]
Grant   == [run: Runs, session: Sessions, event: Events, now: Nat, at: Nat]

\* A refusal is counted under its cause and in total.
RejectUncounted(cause) == [metrics EXCEPT ![cause] = @ + 1]
Reject(cause) == [metrics EXCEPT ![cause] = @ + 1, !["rejected"] = @ + 1]
Active(h)   == Cardinality({s \in Sessions : h[s] # NoRun})

Init ==
  /\ clock = 0
  /\ holders = [s \in Sessions |-> NoRun]
  /\ started = [s \in Sessions |-> 0]
  /\ seen = [s \in Sessions |-> [e \in Events |-> NoEntry]]
  /\ metrics = [c \in Counters |-> 0]
  /\ pc = [r \in Runs |-> "idle"]
  /\ req \in [Runs -> {q \in [session: Sessions, event: Events, mode: Modes,
                              waits: BOOLEAN, now: {0}] : q.waits => q.mode = "wake"}]
  /\ reason = [r \in Runs |-> "none"]
  /\ grants = {}

-----------------------------------------------------------------------------
(* _prune_fingerprints_locked                                              *)

Known(m) == {e \in Events : m[e].run # NoRun}

\* now - ts > dedup_window_s
StaleAtWindow(m, now) == {e \in Known(m) : now >= m[e].at + Window}
Stale(m, now) == {e \in Known(m) : now > m[e].at + Window}

\* What may be left: the fresh entries, at most MaxSeen of them, the oldest
\* removed first (which of two equally old ones is a matter of insertion order).
KeptOneMore(m, now) ==
  LET fresh == Known(m) \ Stale(m, now) IN
  {K \in SUBSET fresh :
     Cardinality(K) <= MaxSeen + 1 /\ (K = fresh \/ Cardinality(K) = MaxSeen + 1)}

Kept(m, now) ==
  LET fresh == Known(m) \ Stale(m, now) IN
  {K \in SUBSET fresh :
     /\ Cardinality(K) <= MaxSeen
     /\ K = fresh \/ Cardinality(K) = MaxSeen
     /\ \A a \in K, b \in fresh \ K : m[b].at <= m[a].at}

Only(m, K) == [e \in Events |-> IF e \in K THEN m[e] ELSE NoEntry]

-----------------------------------------------------------------------------
(* acquire                                                                 *)

\* The run asks; "now" is read before the lock is taken.
ReadClock(r) ==
  /\ pc[r] \in {"idle", "waiting"}
  /\ req' = [req EXCEPT ![r].now = clock]
  /\ pc' = [pc EXCEPT ![r] = "timed"]
  /\ UNCHANGED <<clock, gateVars, reason>>

\* mode="user": pass without holding anything.
Bypass(r) ==
  /\ pc[r] = "timed" /\ req[r].mode = "user"
  /\ reason' = [reason EXCEPT ![r] = "interactive_bypass"]
  /\ pc' = [pc EXCEPT ![r] = "running"]
  /\ UNCHANGED <<clock, gateVars, req>>

\* Holder.expired
LeaseOver(s, now) == now >= started[s] + Lease

\* What the caller is told about a session that is held.
VerdictUnlisted(s, now) == IF LeaseOver(s, now) THEN "lease_expired" ELSE "occupied"
Verdict(s, now) == IF LeaseOver(s, now) THEN "occupied_lease_expired" ELSE "occupied"

\* Whether the session is free: an expired lease does not free it.
FreeWhenExpired(s, now) == holders[s] = NoRun \/ LeaseOver(s, now)
Free(s, now) == holders[s] = NoRun

\* The session is held.  An expired lease is reported and never taken over; a
\* caller of wait_for_slot asks again while the lease is good.
Occupied(r) ==
  LET s == req[r].session
      now == req[r].now
      verdict == Verdict(s, now)
  IN
  /\ pc[r] = "timed" /\ req[r].mode = "wake"
  /\ ~Free(s, now)
  /\ \E K \in Kept(seen[s], now) : seen' = [seen EXCEPT ![s] = Only(@, K)]
  /\ metrics' = IF LeaseOver(s, now) THEN Reject("expired") ELSE metrics
  /\ reason' = [reason EXCEPT ![r] = verdict]
  /\ pc' = [pc EXCEPT ![r] = IF req[r].waits /\ verdict = "occupied" THEN "waiting"
                             ELSE "decided"]
  /\ UNCHANGED <<clock, holders, started, req, grants>>

\* The session is free but the event was granted within the window.
Duplicate(r) ==
  LET s == req[r].session IN
  /\ pc[r] = "timed" /\ req[r].mode = "wake"
  /\ Free(s, req[r].now)
  /\ \E K \in Kept(seen[s], req[r].now) :
       /\ req[r].event \in K
       /\ seen' = [seen EXCEPT ![s] = Only(@, K)]
  /\ metrics' = Reject("duplicate")
  /\ reason' = [reason EXCEPT ![r] = "duplicate_event"]
  /\ pc' = [pc EXCEPT ![r] = "decided"]
  /\ UNCHANGED <<clock, holders, started, req, grants>>

\* The session is free and the event new: hold it, remember the event, prune
\* again and raise the high-water mark.
GrantSlot(r) ==
  LET s == req[r].session
      e == req[r].event
      now == req[r].now
  IN
  /\ pc[r] = "timed" /\ req[r].mode = "wake"
  /\ Free(s, now)
  /\ \E K \in Kept(seen[s], now) :
       /\ e \notin K
       /\ LET m == [Only(seen[s], K) EXCEPT ![e] = [run |-> r, at |-> now]] IN
          \E L \in Kept(m, now) : seen' = [seen EXCEPT ![s] = Only(m, L)]
  /\ holders' = [holders EXCEPT ![s] = r]
  /\ started' = [started EXCEPT ![s] = now]
  /\ metrics' = [metrics EXCEPT
                   !["granted"] = @ + 1,
                   !["peak"] = IF Active(holders') > @ THEN Active(holders') ELSE @]
  /\ reason' = [reason EXCEPT ![r] = "granted"]
  /\ pc' = [pc EXCEPT ![r] = "running"]
  /\ grants' = grants \cup {[run |-> r, session |-> s, event |-> e, now |-> now, at |-> clock]}
  /\ UNCHANGED <<clock, req>>

\* acquire_for_run: the gate itself fails; a wake-up is refused (fail closed), an
\* interactive run goes on without a decision to release.
GateFails(r) ==
  /\ pc[r] = "timed"
  /\ IF req[r].mode = "wake"
     THEN /\ metrics' = [metrics EXCEPT !["errors"] = @ + 1]
          /\ reason' = [reason EXCEPT ![r] = "gate_internal_error"]
          /\ pc' = [pc EXCEPT ![r] = "decided"]
     ELSE /\ pc' = [pc EXCEPT ![r] = "running"]
          /\ UNCHANGED <<metrics, reason>>
  /\ UNCHANGED <<clock, holders, started, seen, req, grants>>

-----------------------------------------------------------------------------
(* wait_for_slot and run_sync                                              *)

\* The caller's patience ends: it gets the last "occupied".
GiveUp(r) ==
  /\ pc[r] = "waiting"
  /\ pc' = [pc EXCEPT ![r] = "decided"]
  /\ UNCHANGED <<clock, gateVars, req, reason>>

\* A refused run returns its receipt at once.
Refused(r) ==
  /\ pc[r] = "decided"
  /\ pc' = [pc EXCEPT ![r] = "done"]
  /\ UNCHANGED <<clock, gateVars, req, reason>>

\* release removes the holder only when the token is the holder's own.
AfterReleaseByAny(h, r) == NoRun
AfterReleaseForgotten(h, r) == h
AfterRelease(h, r) == IF h = r THEN NoRun ELSE h

\* The finally clause of run_sync: release with the run's own token.
Release(r) ==
  LET s == req[r].session IN
  /\ pc[r] = "running"
  /\ holders' = [holders EXCEPT ![s] = AfterRelease(@, r)]
  /\ pc' = [pc EXCEPT ![r] = "released"]
  /\ UNCHANGED <<clock, started, seen, metrics, req, reason, grants>>

\* The coroutine takes a waiting message and runs the agent again for the same
\* session, with interrupt_depth > 0: acquire_for_run asks for nothing.
Continue(r) ==
  /\ pc[r] = "released"
  /\ pc' = [pc EXCEPT ![r] = "following"]
  /\ UNCHANGED <<clock, gateVars, req, reason>>

Finish(r) ==
  /\ pc[r] \in {"released", "following"}
  /\ pc' = [pc EXCEPT ![r] = "done"]
  /\ UNCHANGED <<clock, gateVars, req, reason>>

Tick ==
  /\ clock < MaxTime
  /\ clock' = clock + 1
  /\ UNCHANGED <<gateVars, pc, req, reason>>

Acquire(r) == Bypass(r) \/ Occupied(r) \/ Duplicate(r) \/ GrantSlot(r) \/ GateFails(r)

Step(r) ==
  \/ ReadClock(r) \/ Acquire(r) \/ GiveUp(r) \/ Refused(r)
  \/ Release(r) \/ Continue(r) \/ Finish(r)

Next == Tick \/ \E r \in Runs : Step(r)

Spec == Init /\ [][Next]_vars

-----------------------------------------------------------------------------
(* Properties                                                              *)

\* Every variable holds a value of its type.
TypeOK ==
  /\ clock \in Nat
  /\ holders \in [Sessions -> Runs \cup {NoRun}] /\ started \in [Sessions -> Nat]
  /\ seen \in [Sessions -> [Events -> Entry]]
  /\ metrics \in [Counters -> Nat]
  /\ pc \in [Runs -> PCs] /\ req \in [Runs -> Request] /\ reason \in [Runs -> Reasons]
  /\ grants \subseteq Grant

\* A wake-up between its grant and its release.
Inside(r) == pc[r] = "running" /\ reason[r] = "granted"

\* A session has at most one wake-up inside, even after its lease has expired.
SingleFlight ==
  \A r, q \in Runs : Inside(r) /\ Inside(q) /\ req[r].session = req[q].session => r = q

\* The holder the gate reports is a wake-up that is inside, and every wake-up
\* inside is reported: no slot leaks and none is lost to a foreign release.
HoldersAreInside ==
  /\ \A s \in Sessions : holders[s] # NoRun =>
       Inside(holders[s]) /\ req[holders[s]].session = s
  /\ \A r \in Runs : Inside(r) => holders[req[r].session] = r

\* The memory of a session never exceeds its bound, although an entry is added
\* after the first pruning (wake_gate.py:320 "the invariant would be off by one").
SeenBounded == \A s \in Sessions : Cardinality(Known(seen[s])) <= MaxSeen

\* The other events granted in g's session at g's time or later.
Newer(g) ==
  {e \in Events \ {g.event} :
     \E h \in grants : h.session = g.session /\ h.event = e /\ h.now >= g.now}

\* An event is not granted twice within the window, which runs from the time one
\* grant was stamped with to the clock at the other, unless MaxSeen other events have
\* pushed it out of the session's memory.
NoDuplicateGrant ==
  \A g, h \in grants :
    (g.run # h.run /\ g.session = h.session /\ g.event = h.event) =>
      \/ h.at > g.now + Window \/ g.at > h.now + Window
      \/ Cardinality(Newer(g)) >= MaxSeen \/ Cardinality(Newer(h)) >= MaxSeen

\* A slot passes from one run to another only through its owner's release.
OnlyOwnerReleases ==
  [][\A s \in Sessions : holders[s] # NoRun /\ holders'[s] # holders[s] =>
       /\ holders'[s] = NoRun
       /\ pc[holders[s]] = "running" /\ pc'[holders[s]] = "released"]_vars

\* The counters add up: what was rejected is what was a duplicate or met an
\* expired lease, what was granted is held or was released, and the peak is a
\* high-water mark.
CountersAddUp ==
  /\ metrics["rejected"] = metrics["duplicate"] + metrics["expired"]
  /\ metrics["granted"] = Cardinality(grants)
  /\ Active(holders) <= metrics["peak"] /\ metrics["peak"] <= Cardinality(Sessions)
=============================================================================
