--------------------------- MODULE WakeGateProofs ---------------------------
(***************************************************************************)
(* Proofs about WakeGate for every set of sessions, runs and events, every  *)
(* lease, window and memory bound, and an unbounded number of steps.        *)
(*                                                                         *)
(* The inductive invariant is the conjunction of TypeOK, HoldersAreInside   *)
(* and the facts below.  SingleFlight is not inductive: it follows from     *)
(* HoldersAreInside, because one variable cannot name two holders.          *)
(***************************************************************************)
EXTENDS WakeGate, FiniteSetTheorems, TLAPS

Asking(r) == pc[r] \in {"idle", "timed", "waiting"}

\* A run that is still asking has been granted nothing.
AskersHaveNothing == \A r \in Runs : Asking(r) => reason[r] # "granted"

SlotInv == TypeOK /\ AskersHaveNothing /\ HoldersAreInside

-----------------------------------------------------------------------------
(* The pruning operators                                                   *)

\* Keeping K of what is known leaves exactly K known.
LEMMA KnownOnly ==
  ASSUME NEW m \in [Events -> Entry], NEW K \in SUBSET Known(m)
  PROVE  /\ Known(Only(m, K)) = K
         /\ Only(m, K) \in [Events -> Entry]
         /\ \A e \in K : Only(m, K)[e] = m[e]
BY DEF Known, Only, NoEntry, Entry

\* What pruning keeps was known.
LEMMA KeptKnown ==
  ASSUME NEW m, NEW now, NEW K \in Kept(m, now)
  PROVE  K \in SUBSET Known(m) /\ Cardinality(K) <= MaxSeen
BY DEF Kept

\* The entries other than e's that are not older than a stamp.
Others(m, e, stamp) == {x \in Known(m) \ {e} : m[x].at >= stamp}

\* Pruning at a time that is not in the future removes an entry only if it has left
\* its window or MaxSeen others are at least as recent.
LEMMA PruningRemembers ==
  ASSUME NEW m \in [Events -> Entry], NEW now \in Nat, NEW t \in Nat, now <= t,
         NEW K \in Kept(m, now), NEW e \in Known(m), NEW stamp \in Nat, m[e].at >= stamp
  PROVE  \/ t > stamp + Window
         \/ e \in K /\ Only(m, K)[e].at >= stamp
         \/ Cardinality(Others(m, e, stamp)) >= MaxSeen
<1> DEFINE fresh == Known(m) \ Stale(m, now)
<1>1. /\ Window \in Nat /\ MaxSeen \in Nat /\ IsFiniteSet(Events)
      /\ \A x \in Known(m) : m[x].at \in Nat
      /\ Known(m) \subseteq Events
  BY GateAssumption DEF Known, Entry
<1>2. CASE e \in Stale(m, now)
  BY <1>1, <1>2 DEF Stale
<1>3. CASE e \in K
  BY <1>3, KeptKnown, KnownOnly
<1>4. CASE e \in fresh \ K
  <2>1. /\ Cardinality(K) = MaxSeen /\ K \subseteq Known(m)
        /\ \A a \in K : m[e].at <= m[a].at
    BY <1>4 DEF Kept
  <2>2. K \subseteq Others(m, e, stamp)
    BY <1>1, <1>4, <2>1 DEF Others
  <2>3. IsFiniteSet(Others(m, e, stamp))
    BY <1>1, FS_Subset DEF Others
  <2>4. Cardinality(K) <= Cardinality(Others(m, e, stamp))
    BY <2>2, <2>3, FS_Subset
  <2> QED
    BY <2>1, <2>4
<1> QED
  BY <1>2, <1>3, <1>4

-----------------------------------------------------------------------------
(* Type correctness and the slot                                           *)

\* No slot is held when the gate is built.
LEMMA SlotInvInit == Init => SlotInv
<1> SUFFICES ASSUME Init PROVE SlotInv
  OBVIOUS
<1> USE DEF Init
<1>1. TypeOK
  <2>1. req \in [Runs -> Request]
    BY DEF Request
  <2>2. seen \in [Sessions -> [Events -> Entry]]
    BY DEF NoEntry, Entry
  <2> QED
    BY <2>1, <2>2 DEF TypeOK, PCs, Reasons, Counters, Grant
<1>2. AskersHaveNothing
  BY DEF AskersHaveNothing
<1>3. HoldersAreInside
  BY DEF HoldersAreInside, Inside
<1> QED
  BY <1>1, <1>2, <1>3 DEF SlotInv

\* Every step keeps holders and runs in agreement: a grant fills a free slot, and only
\* the holder's own release frees it.
LEMMA SlotInvStep == SlotInv /\ [Next]_vars => SlotInv'
<1> SUFFICES ASSUME SlotInv, [Next]_vars PROVE SlotInv'
  OBVIOUS
<1> USE GateAssumption DEF SlotInv
<1>1. ASSUME NEW r \in Runs, ReadClock(r) PROVE SlotInv'
  <2> USE <1>1 DEF ReadClock, gateVars
  <2>1. TypeOK'
    BY DEF TypeOK, Request, PCs
  <2>2. AskersHaveNothing'
    BY DEF TypeOK, AskersHaveNothing, Asking
  <2>3. HoldersAreInside'
    BY DEF TypeOK, HoldersAreInside, Inside, Request
  <2> QED
    BY <2>1, <2>2, <2>3
<1>2. ASSUME NEW r \in Runs, Bypass(r) PROVE SlotInv'
  <2> USE <1>2 DEF Bypass, gateVars
  <2>1. TypeOK'
    BY DEF TypeOK, Reasons, PCs
  <2>2. AskersHaveNothing'
    BY DEF TypeOK, AskersHaveNothing, Asking
  <2>3. HoldersAreInside'
    BY DEF TypeOK, HoldersAreInside, Inside
  <2> QED
    BY <2>1, <2>2, <2>3
<1>3. ASSUME NEW r \in Runs, Occupied(r) PROVE SlotInv'
  <2> USE <1>3 DEF Occupied
  <2>1. TypeOK'
    <3>1. PICK K \in Kept(seen[req[r].session], req[r].now) :
            seen' = [seen EXCEPT ![req[r].session] = Only(@, K)]
      OBVIOUS
    <3>2. seen' \in [Sessions -> [Events -> Entry]]
      BY <3>1, KeptKnown, KnownOnly DEF TypeOK, Request
    <3>3. metrics' \in [Counters -> Nat]
      BY DEF TypeOK, Reject, Counters
    <3> QED
      BY <3>2, <3>3 DEF TypeOK, Verdict, Reasons, PCs
  <2>2. AskersHaveNothing'
    BY DEF TypeOK, AskersHaveNothing, Asking, Verdict
  <2>3. HoldersAreInside'
    BY DEF TypeOK, HoldersAreInside, Inside, Verdict
  <2> QED
    BY <2>1, <2>2, <2>3
<1>4. ASSUME NEW r \in Runs, Duplicate(r) PROVE SlotInv'
  <2> USE <1>4 DEF Duplicate
  <2>1. TypeOK'
    <3>1. PICK K \in Kept(seen[req[r].session], req[r].now) :
            seen' = [seen EXCEPT ![req[r].session] = Only(@, K)]
      OBVIOUS
    <3>2. seen' \in [Sessions -> [Events -> Entry]]
      BY <3>1, KeptKnown, KnownOnly DEF TypeOK, Request
    <3>3. metrics' \in [Counters -> Nat]
      BY DEF TypeOK, Reject, Counters
    <3> QED
      BY <3>2, <3>3 DEF TypeOK, Reasons, PCs
  <2>2. AskersHaveNothing'
    BY DEF TypeOK, AskersHaveNothing, Asking
  <2>3. HoldersAreInside'
    BY DEF TypeOK, HoldersAreInside, Inside
  <2> QED
    BY <2>1, <2>2, <2>3
<1>5. ASSUME NEW r \in Runs, GrantSlot(r) PROVE SlotInv'
  <2> DEFINE s == req[r].session
             e == req[r].event
             now == req[r].now
  <2>0. s \in Sessions /\ e \in Events /\ now \in Nat /\ r # NoRun
    BY DEF TypeOK, Request
  <2> USE <1>5 DEF GrantSlot
  <2>1. TypeOK'
    <3>1. PICK K \in Kept(seen[s], now) :
            \E L \in Kept([Only(seen[s], K) EXCEPT ![e] = [run |-> r, at |-> now]], now) :
              seen' = [seen EXCEPT ![s] =
                         Only([Only(seen[s], K) EXCEPT ![e] = [run |-> r, at |-> now]], L)]
      OBVIOUS
    <3> DEFINE m == [Only(seen[s], K) EXCEPT ![e] = [run |-> r, at |-> now]]
    <3>2. m \in [Events -> Entry]
      BY <2>0, KeptKnown, KnownOnly DEF TypeOK, Entry
    <3>3. PICK L \in Kept(m, now) : seen' = [seen EXCEPT ![s] = Only(m, L)]
      BY <3>1
    <3>4. Only(m, L) \in [Events -> Entry]
      BY <3>2, <3>3, KeptKnown, KnownOnly
    <3>5. seen' \in [Sessions -> [Events -> Entry]]
      BY <2>0, <3>3, <3>4 DEF TypeOK
    <3>6. Active(holders') \in Nat
      <4>1. {x \in Sessions : holders'[x] # NoRun} \in SUBSET Sessions
        OBVIOUS
      <4> QED
        BY <4>1, FS_Subset, FS_CardinalityType DEF Active
    <3>7. metrics' \in [Counters -> Nat]
      BY <3>6 DEF TypeOK, Counters
    <3>8. grants' \subseteq Grant
      BY <2>0 DEF TypeOK, Grant
    <3>9. holders' \in [Sessions -> Runs \cup {NoRun}] /\ started' \in [Sessions -> Nat]
      BY <2>0 DEF TypeOK
    <3> QED
      BY <3>5, <3>7, <3>8, <3>9 DEF TypeOK, Reasons, PCs
  <2>2. AskersHaveNothing'
    BY DEF TypeOK, AskersHaveNothing, Asking
  <2>3. HoldersAreInside'
    BY <2>0 DEF TypeOK, HoldersAreInside, Inside, Free, Request
  <2> QED
    BY <2>1, <2>2, <2>3
<1>6. ASSUME NEW r \in Runs, GateFails(r) PROVE SlotInv'
  <2> USE <1>6 DEF GateFails
  <2>1. TypeOK'
    BY DEF TypeOK, Reasons, PCs, Counters
  <2>2. AskersHaveNothing'
    BY DEF TypeOK, AskersHaveNothing, Asking
  <2>3. HoldersAreInside'
    BY DEF TypeOK, HoldersAreInside, Inside, AskersHaveNothing, Asking
  <2> QED
    BY <2>1, <2>2, <2>3
<1>7. ASSUME NEW r \in Runs, GiveUp(r) \/ Refused(r) \/ Continue(r) \/ Finish(r)
      PROVE  SlotInv'
  <2> USE <1>7 DEF GiveUp, Refused, Continue, Finish, gateVars
  <2>1. TypeOK'
    BY DEF TypeOK, PCs
  <2>2. AskersHaveNothing'
    BY DEF TypeOK, AskersHaveNothing, Asking
  <2>3. HoldersAreInside'
    BY DEF TypeOK, HoldersAreInside, Inside
  <2> QED
    BY <2>1, <2>2, <2>3
<1>8. ASSUME NEW r \in Runs, Release(r) PROVE SlotInv'
  <2> USE <1>8 DEF Release
  <2>1. TypeOK'
    BY DEF TypeOK, PCs, AfterRelease, Request
  <2>2. AskersHaveNothing'
    BY DEF TypeOK, AskersHaveNothing, Asking
  <2>3. HoldersAreInside'
    BY DEF TypeOK, HoldersAreInside, Inside, AfterRelease, Request
  <2> QED
    BY <2>1, <2>2, <2>3
<1>9. ASSUME Tick \/ UNCHANGED vars PROVE SlotInv'
  <2> USE <1>9 DEF Tick, vars, gateVars
  <2>1. TypeOK'
    BY DEF TypeOK
  <2>2. AskersHaveNothing'
    BY DEF AskersHaveNothing, Asking
  <2>3. HoldersAreInside'
    BY DEF HoldersAreInside, Inside
  <2> QED
    BY <2>1, <2>2, <2>3
<1> QED
  BY <1>1, <1>2, <1>3, <1>4, <1>5, <1>6, <1>7, <1>8, <1>9 DEF Next, Step, Acquire

\* Every variable keeps its type.
THEOREM TypeCorrect == Spec => []TypeOK
<1>1. SlotInv => TypeOK
  BY DEF SlotInv
<1> QED
  BY <1>1, SlotInvInit, SlotInvStep, PTL DEF Spec

\* What _holders says and which wake-ups are inside never differ: no slot is leaked
\* by acquire, and none is freed by a release that is not its owner's.
THEOREM HoldersCorrect == Spec => []HoldersAreInside
<1>1. SlotInv => HoldersAreInside
  BY DEF SlotInv
<1> QED
  BY <1>1, SlotInvInit, SlotInvStep, PTL DEF Spec

\* A session never has two wake-ups between grant and release, whatever the lease.
THEOREM MutualExclusion == Spec => []SingleFlight
<1>1. SlotInv => SingleFlight
  BY DEF SlotInv, HoldersAreInside, SingleFlight
<1> QED
  BY <1>1, SlotInvInit, SlotInvStep, PTL DEF Spec

\* A slot changes hands only through the release of the run that holds it.
THEOREM ReleaseByOwner == Spec => OnlyOwnerReleases
<1> DEFINE Handover == \A s \in Sessions : holders[s] # NoRun /\ holders'[s] # holders[s] =>
       /\ holders'[s] = NoRun
       /\ pc[holders[s]] = "running" /\ pc'[holders[s]] = "released"
<1>1. SlotInv /\ [Next]_vars => [Handover]_vars
  <2> SUFFICES ASSUME SlotInv, Next, NEW s \in Sessions,
                      holders[s] # NoRun, holders'[s] # holders[s]
               PROVE  /\ holders'[s] = NoRun
                      /\ pc[holders[s]] = "running" /\ pc'[holders[s]] = "released"
    OBVIOUS
  <2>1. PICK r \in Runs : GrantSlot(r) \/ Release(r)
    BY DEF Next, Step, Acquire, ReadClock, Bypass, Occupied, Duplicate, GateFails, GiveUp,
           Refused, Continue, Finish, Tick, gateVars
  <2>2. CASE GrantSlot(r)
    BY <2>2 DEF GrantSlot, Free, SlotInv, TypeOK
  <2>3. CASE Release(r)
    BY <2>3 DEF Release, AfterRelease, SlotInv, TypeOK, Request
  <2> QED
    BY <2>1, <2>2, <2>3
<1> QED
  BY <1>1, SlotInvInit, SlotInvStep, PTL DEF Spec, OnlyOwnerReleases

-----------------------------------------------------------------------------
(* How a step changes the memory of a session                              *)

\* A step prunes the memory of one session, or grants a wake-up and prunes twice,
\* or leaves every memory and the set of grants alone.
Pruned(r) ==
  /\ Occupied(r) \/ Duplicate(r)
  /\ grants' = grants /\ clock' = clock /\ holders' = holders
  /\ \E K \in Kept(seen[req[r].session], req[r].now) :
       seen' = [seen EXCEPT ![req[r].session] = Only(@, K)]

Forgetful == seen' = seen /\ grants' = grants

\* What is remembered and granted changes only when a run prunes or is granted the slot.
LEMMA MemorySteps ==
  ASSUME SlotInv, [Next]_vars
  PROVE  \/ \E r \in Runs : Pruned(r) \/ GrantSlot(r)
         \/ Forgetful
<1>1. CASE UNCHANGED vars
  BY <1>1 DEF vars, Forgetful
<1>2. CASE Tick
  BY <1>2 DEF Tick, gateVars, Forgetful
<1>3. ASSUME NEW r \in Runs, Occupied(r) \/ Duplicate(r) PROVE Pruned(r)
  BY <1>3 DEF Occupied, Duplicate, Pruned
<1>4. ASSUME NEW r \in Runs,
             \/ ReadClock(r) \/ Bypass(r) \/ GateFails(r) \/ GiveUp(r) \/ Refused(r)
             \/ Release(r) \/ Continue(r) \/ Finish(r)
      PROVE  Forgetful
  BY <1>4 DEF ReadClock, Bypass, GateFails, GiveUp, Refused, Release, Continue, Finish,
              gateVars, Forgetful
<1> QED
  BY <1>1, <1>2, <1>3, <1>4 DEF Next, Step, Acquire

\* The memory after a grant: entry e is added to what was kept, and pruned again.
LEMMA GrantedMemory ==
  ASSUME SlotInv, NEW r \in Runs, GrantSlot(r)
  PROVE  \E K \in Kept(seen[req[r].session], req[r].now) :
           LET m == [Only(seen[req[r].session], K) EXCEPT
                       ![req[r].event] = [run |-> r, at |-> req[r].now]] IN
           /\ req[r].event \notin K
           /\ m \in [Events -> Entry]
           /\ \E L \in Kept(m, req[r].now) :
                seen' = [seen EXCEPT ![req[r].session] = Only(m, L)]
<1>1. req[r].session \in Sessions /\ req[r].event \in Events /\ req[r].now \in Nat
  BY DEF SlotInv, TypeOK, Request
<1>2. PICK K \in Kept(seen[req[r].session], req[r].now) :
        /\ req[r].event \notin K
        /\ LET m == [Only(seen[req[r].session], K) EXCEPT
                       ![req[r].event] = [run |-> r, at |-> req[r].now]] IN
           \E L \in Kept(m, req[r].now) :
             seen' = [seen EXCEPT ![req[r].session] = Only(m, L)]
  BY DEF GrantSlot
<1> DEFINE m == [Only(seen[req[r].session], K) EXCEPT
                   ![req[r].event] = [run |-> r, at |-> req[r].now]]
<1>3. m \in [Events -> Entry]
  BY <1>1, KeptKnown, KnownOnly DEF SlotInv, TypeOK, Entry
<1> QED
  BY <1>2, <1>3

\* The memory of a session never outgrows max_fingerprints: the second pruning makes
\* up for the entry added after the first.
THEOREM MemoryBounded == Spec => []SeenBounded
<1> DEFINE MemoryInv == SlotInv /\ SeenBounded
<1>1. Init => MemoryInv
  <2> SUFFICES ASSUME Init, NEW s \in Sessions PROVE Cardinality(Known(seen[s])) <= MaxSeen
    BY SlotInvInit DEF SeenBounded
  <2>1. Known(seen[s]) = {}
    BY DEF Init, Known, NoEntry
  <2> QED
    BY <2>1, FS_EmptySet, GateAssumption
<1>2. MemoryInv /\ [Next]_vars => MemoryInv'
  <2> SUFFICES ASSUME SlotInv, SeenBounded, [Next]_vars, NEW s \in Sessions
               PROVE  Cardinality(Known(seen'[s])) <= MaxSeen
    BY SlotInvStep DEF SeenBounded
  <2>1. seen \in [Sessions -> [Events -> Entry]]
    BY DEF SlotInv, TypeOK
  <2>2. ASSUME NEW r \in Runs, Pruned(r) PROVE Cardinality(Known(seen'[s])) <= MaxSeen
    <3>1. PICK K \in Kept(seen[req[r].session], req[r].now) :
            seen' = [seen EXCEPT ![req[r].session] = Only(@, K)]
      BY <2>2 DEF Pruned
    <3>2. CASE s = req[r].session
      <4>1. Known(seen'[s]) = K
        BY <2>1, <3>1, <3>2, KeptKnown, KnownOnly
      <4> QED
        BY <3>1, <4>1, KeptKnown
    <3>3. CASE s # req[r].session
      BY <2>1, <3>1, <3>3 DEF SeenBounded
    <3> QED
      BY <3>2, <3>3
  <2>3. ASSUME NEW r \in Runs, GrantSlot(r) PROVE Cardinality(Known(seen'[s])) <= MaxSeen
    <3>0. PICK m \in [Events -> Entry] :
            \E L \in Kept(m, req[r].now) :
              seen' = [seen EXCEPT ![req[r].session] = Only(m, L)]
      BY <2>3, GrantedMemory
    <3>1. PICK L \in Kept(m, req[r].now) : seen' = [seen EXCEPT ![req[r].session] = Only(m, L)]
      BY <3>0
    <3>2. CASE s = req[r].session
      <4>1. Known(seen'[s]) = L
        BY <2>1, <3>1, <3>2, KeptKnown, KnownOnly
      <4> QED
        BY <3>1, <4>1, KeptKnown
    <3>3. CASE s # req[r].session
      BY <2>1, <3>1, <3>3 DEF SeenBounded
    <3> QED
      BY <3>2, <3>3
  <2>4. CASE Forgetful
    BY <2>4 DEF Forgetful, SeenBounded
  <2> QED
    BY <2>2, <2>3, <2>4, MemorySteps
<1>3. MemoryInv => SeenBounded
  OBVIOUS
<1> QED
  BY <1>1, <1>2, <1>3, PTL DEF Spec

-----------------------------------------------------------------------------
(* Deduplication                                                           *)

\* Every clock reading is past or present, and stays so as the clock advances.
ReadingsArePast == \A r \in Runs : req[r].now <= clock

\* Every remembered entry is a grant's.
MemoryIsGranted ==
  \A s \in Sessions : \A e \in Known(seen[s]) :
    \E h \in grants : h.session = s /\ h.event = e /\ h.now = seen[s][e].at

Remembered(g) ==
  g.event \in Known(seen[g.session]) /\ seen[g.session][g.event].at >= g.now

Crowded(g) == Cardinality(Newer(g)) >= MaxSeen

\* While an event is in its window the session remembers it, with a time that is
\* not before the grant's, or has filled its memory with later ones.
RecentIsRemembered ==
  \A g \in grants : clock > g.now + Window \/ Remembered(g) \/ Crowded(g)

DedupInv ==
  SlotInv /\ ReadingsArePast /\ MemoryIsGranted /\ RecentIsRemembered /\ NoDuplicateGrant

\* Time does not run back, and readings stay in the past.
LEMMA ClockAdvances ==
  ASSUME SlotInv, ReadingsArePast, [Next]_vars
  PROVE  clock' \in Nat /\ clock' >= clock /\ ReadingsArePast'
<1>1. clock \in Nat /\ req \in [Runs -> Request]
  BY DEF SlotInv, TypeOK
<1>2. CASE UNCHANGED vars
  BY <1>1, <1>2 DEF vars, ReadingsArePast
<1>3. CASE Tick
  BY <1>1, <1>3 DEF Tick, ReadingsArePast, Request
<1>4. ASSUME NEW r \in Runs, ReadClock(r) PROVE clock' = clock /\ ReadingsArePast'
  BY <1>1, <1>4 DEF ReadClock, ReadingsArePast
<1>5. ASSUME NEW r \in Runs, Step(r), ~ReadClock(r) PROVE clock' = clock /\ req' = req
  BY <1>5 DEF Step, Acquire, Bypass, Occupied, Duplicate, GrantSlot, GateFails, GiveUp,
              Refused, Release, Continue, Finish
<1> QED
  BY <1>1, <1>2, <1>3, <1>4, <1>5 DEF Next, ReadingsArePast

\* Grants are never forgotten, so a crowded memory stays crowded.
LEMMA CrowdedStays ==
  ASSUME NEW g, grants \subseteq grants', Crowded(g)
  PROVE  Crowded(g)'
<1>1. Newer(g) \subseteq Newer(g)' /\ Newer(g)' \subseteq Events
  BY DEF Newer
<1>2. IsFiniteSet(Events) /\ MaxSeen \in Nat
  BY GateAssumption
<1>3. IsFiniteSet(Newer(g)')
  BY <1>1, <1>2, FS_Subset
<1>4. IsFiniteSet(Newer(g)) /\ Cardinality(Newer(g)) <= Cardinality(Newer(g)')
  BY <1>1, <1>3, FS_Subset
<1>5. Cardinality(Newer(g)) \in Nat /\ Cardinality(Newer(g)') \in Nat
  BY <1>3, <1>4, FS_CardinalityType
<1> QED
  BY <1>2, <1>4, <1>5 DEF Crowded

\* Entries that are grants' and at least as recent as g crowd g out.
LEMMA OthersCrowd ==
  ASSUME NEW g \in grants, NEW m, Known(m) \subseteq Events,
         \A x \in Known(m) :
           \E h \in grants : h.session = g.session /\ h.event = x /\ h.now = m[x].at,
         Cardinality(Others(m, g.event, g.now)) >= MaxSeen
  PROVE  Crowded(g)
<1>1. Others(m, g.event, g.now) \subseteq Newer(g) /\ Newer(g) \subseteq Events
  BY DEF Others, Newer
<1>2. IsFiniteSet(Newer(g)) /\ MaxSeen \in Nat
  BY <1>1, GateAssumption, FS_Subset
<1>3. /\ IsFiniteSet(Others(m, g.event, g.now))
      /\ Cardinality(Others(m, g.event, g.now)) <= Cardinality(Newer(g))
  BY <1>1, <1>2, FS_Subset
<1>4. Cardinality(Others(m, g.event, g.now)) \in Nat /\ Cardinality(Newer(g)) \in Nat
  BY <1>2, <1>3, FS_CardinalityType
<1> QED
  BY <1>2, <1>3, <1>4 DEF Crowded

\* Pruning the memory of g's session leaves g remembered, unless g is old or crowded.
LEMMA PrunedMemory ==
  ASSUME SlotInv, ReadingsArePast, MemoryIsGranted, RecentIsRemembered,
         NEW r \in Runs, NEW K \in Kept(seen[req[r].session], req[r].now),
         NEW g \in grants, g.session = req[r].session
  PROVE  \/ clock > g.now + Window
         \/ g.event \in K /\ Only(seen[req[r].session], K)[g.event].at >= g.now
         \/ Crowded(g)
<1> DEFINE m == seen[req[r].session]
<1>1. /\ m \in [Events -> Entry]
      /\ req[r].now \in Nat /\ clock \in Nat /\ req[r].now <= clock
      /\ g.now \in Nat /\ req[r].session \in Sessions
  BY DEF SlotInv, TypeOK, Request, ReadingsArePast, Grant
<1>2. CASE Remembered(g)
  <2>1. g.event \in Known(m) /\ m[g.event].at >= g.now
    BY <1>2 DEF Remembered
  <2>2. Cardinality(Others(m, g.event, g.now)) >= MaxSeen => Crowded(g)
    <3>1. \A x \in Known(m) :
            \E h \in grants : h.session = g.session /\ h.event = x /\ h.now = m[x].at
      BY <1>1 DEF MemoryIsGranted
    <3>2. Known(m) \subseteq Events
      BY DEF Known
    <3> QED
      BY <3>1, <3>2, OthersCrowd
  <2> HIDE DEF m
  <2>3. \/ clock > g.now + Window
        \/ g.event \in K /\ Only(m, K)[g.event].at >= g.now
        \/ Cardinality(Others(m, g.event, g.now)) >= MaxSeen
    <3>1. K \in Kept(m, req[r].now)
      BY DEF m
    <3> QED
      BY <1>1, <2>1, <3>1, PruningRemembers
  <2> QED
    BY <2>2, <2>3 DEF m
<1> QED
  BY <1>2 DEF RecentIsRemembered

\* Every step keeps what is remembered and what was granted in agreement.
LEMMA DedupInvStep == DedupInv /\ [Next]_vars => DedupInv'
<1> SUFFICES ASSUME DedupInv, [Next]_vars
             PROVE  MemoryIsGranted' /\ RecentIsRemembered' /\ NoDuplicateGrant'
  BY SlotInvStep, ClockAdvances DEF DedupInv
<1>1. /\ SlotInv /\ ReadingsArePast /\ MemoryIsGranted /\ RecentIsRemembered
      /\ NoDuplicateGrant
      /\ clock \in Nat /\ clock' \in Nat /\ clock' >= clock
      /\ seen \in [Sessions -> [Events -> Entry]]
      /\ grants \subseteq Grant
      /\ req \in [Runs -> Request]
      /\ Window \in Nat
  BY ClockAdvances, GateAssumption DEF DedupInv, SlotInv, TypeOK
<1>2. CASE Forgetful
  <2>1. grants' = grants /\ seen' = seen
    BY <1>2 DEF Forgetful
  <2>2. NoDuplicateGrant' /\ MemoryIsGranted'
    BY <1>1, <2>1 DEF NoDuplicateGrant, MemoryIsGranted, Newer
  <2>3. RecentIsRemembered'
    BY <1>1, <2>1 DEF RecentIsRemembered, Grant, Remembered, Crowded, Newer
  <2> QED
    BY <2>2, <2>3
<1>3. ASSUME NEW r \in Runs, Pruned(r)
      PROVE  MemoryIsGranted' /\ RecentIsRemembered' /\ NoDuplicateGrant'
  <2> DEFINE s == req[r].session
  <2>1. PICK K \in Kept(seen[s], req[r].now) : seen' = [seen EXCEPT ![s] = Only(@, K)]
    BY <1>3 DEF Pruned
  <2>2. grants' = grants /\ clock' = clock
    BY <1>3 DEF Pruned
  <2>3. s \in Sessions
    BY <1>1 DEF Request
  <2>4. NoDuplicateGrant'
    BY <1>1, <2>2 DEF NoDuplicateGrant, Newer
  <2>5. seen'[s] = Only(seen[s], K) /\ \A x \in Sessions \ {s} : seen'[x] = seen[x]
    BY <1>1, <2>1, <2>3
  <2>6. /\ Known(seen'[s]) = K /\ K \subseteq Known(seen[s])
        /\ \A x \in K : seen'[s][x] = seen[s][x]
    BY <1>1, <2>3, <2>5, KeptKnown, KnownOnly
  <2>7. MemoryIsGranted'
    BY <1>1, <2>2, <2>5, <2>6 DEF MemoryIsGranted
  <2>8. ASSUME NEW g \in grants PROVE clock > g.now + Window \/ Remembered(g)' \/ Crowded(g)'
    <3>1. Crowded(g)' <=> Crowded(g)
      BY <2>2 DEF Crowded, Newer
    <3>2. CASE g.session = s
      BY <1>1, <2>5, <2>6, <3>1, <3>2, PrunedMemory DEF Remembered
    <3>3. CASE g.session # s
      BY <1>1, <2>5, <3>1, <3>3 DEF RecentIsRemembered, Remembered, Grant
    <3> QED
      BY <3>2, <3>3
  <2> QED
    BY <2>2, <2>4, <2>7, <2>8 DEF RecentIsRemembered
<1>4. ASSUME NEW r \in Runs, GrantSlot(r)
      PROVE  MemoryIsGranted' /\ RecentIsRemembered' /\ NoDuplicateGrant'
  <2> DEFINE s == req[r].session
             e == req[r].event
             now == req[r].now
  <2>0. PICK new : new = [run |-> r, session |-> s, event |-> e, now |-> now, at |-> clock]
    OBVIOUS
  <2>1. PICK K \in Kept(seen[s], now) :
          LET m == [Only(seen[s], K) EXCEPT ![e] = [run |-> r, at |-> now]] IN
          /\ e \notin K
          /\ m \in [Events -> Entry]
          /\ \E L \in Kept(m, now) : seen' = [seen EXCEPT ![s] = Only(m, L)]
    BY <1>1, <1>4, GrantedMemory
  <2> DEFINE m == [Only(seen[s], K) EXCEPT ![e] = [run |-> r, at |-> now]]
  <2>2. m \in [Events -> Entry] /\ e \notin K
    BY <2>1
  <2>3. PICK L \in Kept(m, now) : seen' = [seen EXCEPT ![s] = Only(m, L)]
    BY <2>1
  <2>4. grants' = grants \cup {new} /\ clock' = clock
    BY <1>4, <2>0 DEF GrantSlot
  <2>5. s \in Sessions /\ e \in Events /\ now \in Nat /\ now <= clock /\ r # NoRun
    BY <1>1, GateAssumption DEF Request, ReadingsArePast
  <2>6. \A g \in grants : g.session = s /\ g.event = e => clock > g.now + Window \/ Crowded(g)
    BY <1>1, <2>2, PrunedMemory
  <2>7. \A g \in grants : Crowded(g) => Crowded(g)'
    BY <2>4, CrowdedStays
  <2>8. NoDuplicateGrant'
    <3> SUFFICES ASSUME NEW g \in grants', NEW h \in grants', g.run # h.run,
                        g.session = h.session, g.event = h.event
                 PROVE  \/ h.at > g.now + Window \/ g.at > h.now + Window
                        \/ Crowded(g)' \/ Crowded(h)'
      BY DEF NoDuplicateGrant, Crowded
    <3>1. CASE g \in grants /\ h \in grants
      BY <1>1, <2>7, <3>1 DEF NoDuplicateGrant, Crowded
    <3>2. CASE g \in grants /\ h = new
      BY <2>0, <2>6, <2>7, <3>2
    <3>3. CASE h \in grants /\ g = new
      BY <2>0, <2>6, <2>7, <3>3
    <3> QED
      BY <2>4, <3>1, <3>2, <3>3
  <2>9. K \subseteq Known(seen[s]) /\ Known(Only(seen[s], K)) = K
    BY <1>1, <2>5, KeptKnown, KnownOnly
  <2>10. /\ Known(m) = K \cup {e} /\ m[e] = [run |-> r, at |-> now]
         /\ \A x \in K : m[x] = Only(seen[s], K)[x] /\ m[x] = seen[s][x]
    BY <2>2, <2>5, <2>9 DEF Known, Only
  <2>11. \A x \in Known(m) :
           \E h \in grants' : h.session = s /\ h.event = x /\ h.now = m[x].at
    <3>1. \A x \in K : \E h \in grants : h.session = s /\ h.event = x /\ h.now = seen[s][x].at
      BY <1>1, <2>5, <2>9 DEF MemoryIsGranted
    <3> HIDE DEF m
    <3> QED
      BY <2>0, <2>4, <2>10, <3>1
  <2> HIDE DEF m
  <2>12. /\ seen'[s] = Only(m, L) /\ \A x \in Sessions \ {s} : seen'[x] = seen[x]
         /\ Known(seen'[s]) = L /\ L \subseteq Known(m) /\ \A x \in L : seen'[s][x] = m[x]
    BY <1>1, <2>2, <2>3, <2>5, KeptKnown, KnownOnly
  <2>13. MemoryIsGranted'
    BY <1>1, <2>4, <2>11, <2>12 DEF MemoryIsGranted
  <2>14. ASSUME NEW g \in grants', g.session = s, g.event \in Known(m), m[g.event].at >= g.now
         PROVE  clock > g.now + Window \/ Remembered(g)' \/ Crowded(g)'
    <3>1. g.now \in Nat
      BY <1>1, <2>0, <2>4, <2>5 DEF Grant
    <3>2. \/ clock > g.now + Window
          \/ g.event \in L /\ Only(m, L)[g.event].at >= g.now
          \/ Cardinality(Others(m, g.event, g.now)) >= MaxSeen
      BY <1>1, <2>2, <2>3, <2>5, <2>14, <3>1, PruningRemembers
    <3>3. Cardinality(Others(m, g.event, g.now)) >= MaxSeen => Crowded(g)'
      <4>1. Known(m) \subseteq Events
        BY DEF Known
      <4>2. Others(m, g.event, g.now) \subseteq Newer(g)' /\ Newer(g)' \subseteq Events
        BY <2>11, <2>14, <4>1 DEF Others, Newer
      <4>3. IsFiniteSet(Newer(g)') /\ MaxSeen \in Nat
        BY <4>2, GateAssumption, FS_Subset
      <4>4. /\ IsFiniteSet(Others(m, g.event, g.now))
            /\ Cardinality(Others(m, g.event, g.now)) <= Cardinality(Newer(g)')
        BY <4>2, <4>3, FS_Subset
      <4>5. Cardinality(Others(m, g.event, g.now)) \in Nat /\ Cardinality(Newer(g)') \in Nat
        BY <4>3, <4>4, FS_CardinalityType
      <4> QED
        BY <4>3, <4>4, <4>5 DEF Crowded
    <3> QED
      BY <2>12, <2>14, <3>2, <3>3 DEF Remembered
  <2>15. ASSUME NEW g \in grants PROVE clock > g.now + Window \/ Remembered(g)' \/ Crowded(g)'
    <3>1. CASE g.session = s
      <4>1. \/ clock > g.now + Window \/ Crowded(g)
            \/ g.event \in K /\ Only(seen[s], K)[g.event].at >= g.now
        BY <1>1, <3>1, PrunedMemory
      <4>2. CASE g.event \in K /\ Only(seen[s], K)[g.event].at >= g.now
        BY <2>4, <2>10, <2>14, <3>1, <4>2
      <4> QED
        BY <2>7, <4>1, <4>2
    <3>2. CASE g.session # s
      BY <1>1, <2>7, <2>12, <3>2 DEF RecentIsRemembered, Remembered, Grant
    <3> QED
      BY <3>1, <3>2
  <2>16. clock > new.now + Window \/ Remembered(new)' \/ Crowded(new)'
    BY <2>0, <2>4, <2>5, <2>10, <2>14
  <2>17. RecentIsRemembered'
    BY <2>4, <2>15, <2>16 DEF RecentIsRemembered
  <2> QED
    BY <2>8, <2>13, <2>17
<1> QED
  BY <1>1, <1>2, <1>3, <1>4, MemorySteps

\* An event is granted at most once per deduplication window unless MaxSeen others
\* have pushed it out of memory, although each run reads the clock before it takes the
\* lock and may prune with a reading that others have overtaken.
THEOREM Deduplicated == Spec => []NoDuplicateGrant
<1>1. Init => DedupInv
  <2> SUFFICES ASSUME Init
               PROVE  ReadingsArePast /\ MemoryIsGranted /\ RecentIsRemembered /\ NoDuplicateGrant
    BY SlotInvInit DEF DedupInv
  <2>1. MemoryIsGranted
    BY DEF Init, MemoryIsGranted, Known, NoEntry
  <2> QED
    BY <2>1 DEF Init, ReadingsArePast, RecentIsRemembered, NoDuplicateGrant
<1>2. DedupInv => NoDuplicateGrant
  BY DEF DedupInv, NoDuplicateGrant
<1> QED
  BY <1>1, <1>2, DedupInvStep, PTL DEF Spec

-----------------------------------------------------------------------------
(* The counters                                                            *)

\* A run is granted at most once, so no grant is counted twice.
GrantsAreFinal == IsFiniteSet(grants) /\ \A g \in grants : reason[g.run] = "granted"

CounterInv == SlotInv /\ GrantsAreFinal /\ CountersAddUp

\* More holders mean a greater count, and there is at most one holder per session.
LEMMA ActiveBounds ==
  ASSUME NEW h, NEW k, {s \in Sessions : h[s] # NoRun} \subseteq {s \in Sessions : k[s] # NoRun}
  PROVE  /\ Active(h) \in Nat /\ Active(k) \in Nat /\ Cardinality(Sessions) \in Nat
         /\ Active(h) <= Active(k) /\ Active(k) <= Cardinality(Sessions)
<1>1. IsFiniteSet({s \in Sessions : k[s] # NoRun}) /\ Active(k) <= Cardinality(Sessions)
  BY GateAssumption, FS_Subset DEF Active
<1>2. IsFiniteSet({s \in Sessions : h[s] # NoRun}) /\ Active(h) <= Active(k)
  BY <1>1, FS_Subset DEF Active
<1> QED
  BY <1>1, <1>2, GateAssumption, FS_CardinalityType DEF Active

\* Every step keeps the counters in agreement with the decisions made.
LEMMA CounterInvStep == CounterInv /\ [Next]_vars => CounterInv'
<1> SUFFICES ASSUME CounterInv, [Next]_vars PROVE GrantsAreFinal' /\ CountersAddUp'
  BY SlotInvStep DEF CounterInv
<1>1. /\ SlotInv /\ GrantsAreFinal /\ CountersAddUp
      /\ metrics \in [Counters -> Nat] /\ reason \in [Runs -> Reasons]
      /\ holders \in [Sessions -> Runs \cup {NoRun}] /\ grants \subseteq Grant
      /\ AskersHaveNothing /\ req \in [Runs -> Request] /\ pc \in [Runs -> PCs]
  BY DEF CounterInv, SlotInv, TypeOK
<1>2. CASE \/ UNCHANGED vars \/ Tick
           \/ \E r \in Runs : ReadClock(r) \/ GiveUp(r) \/ Refused(r) \/ Continue(r) \/ Finish(r)
  <2>1. UNCHANGED <<holders, metrics, reason, grants>>
    BY <1>2 DEF vars, Tick, ReadClock, GiveUp, Refused, Continue, Finish, gateVars
  <2> QED
    BY <1>1, <2>1 DEF GrantsAreFinal, CountersAddUp, Active
<1>3. ASSUME NEW r \in Runs, Bypass(r) \/ Occupied(r) \/ Duplicate(r) \/ GateFails(r)
      PROVE  GrantsAreFinal' /\ CountersAddUp'
  <2>1. /\ holders' = holders /\ grants' = grants
        /\ reason[r] # "granted"
        /\ \A q \in Runs \ {r} : reason'[q] = reason[q]
    BY <1>1, <1>3 DEF Bypass, Occupied, Duplicate, GateFails, gateVars, AskersHaveNothing, Asking
  <2>2. metrics' \in {metrics, Reject("expired"), Reject("duplicate"),
                      [metrics EXCEPT !["errors"] = @ + 1]}
    BY <1>3 DEF Bypass, Occupied, Duplicate, GateFails, gateVars
  <2>3. /\ metrics'["granted"] = metrics["granted"] /\ metrics'["peak"] = metrics["peak"]
        /\ metrics'["rejected"] = metrics'["duplicate"] + metrics'["expired"]
    BY <1>1, <2>2 DEF Reject, Counters, CountersAddUp
  <2>4. GrantsAreFinal'
    BY <1>1, <2>1 DEF GrantsAreFinal, Grant
  <2> QED
    BY <1>1, <2>1, <2>3, <2>4 DEF CountersAddUp, Active
<1>4. ASSUME NEW r \in Runs, Release(r) PROVE GrantsAreFinal' /\ CountersAddUp'
  <2>1. UNCHANGED <<metrics, reason, grants>>
    BY <1>4 DEF Release
  <2>2. {s \in Sessions : holders'[s] # NoRun} \subseteq {s \in Sessions : holders[s] # NoRun}
    BY <1>1, <1>4 DEF Release, AfterRelease
  <2>3. Active(holders') \in Nat /\ Active(holders) \in Nat /\ Active(holders') <= Active(holders)
    BY <2>2, ActiveBounds
  <2> QED
    BY <1>1, <2>1, <2>3 DEF GrantsAreFinal, CountersAddUp, Counters
<1>5. ASSUME NEW r \in Runs, GrantSlot(r) PROVE GrantsAreFinal' /\ CountersAddUp'
  <2> DEFINE new == [run |-> r, session |-> req[r].session, event |-> req[r].event,
                     now |-> req[r].now, at |-> clock]
  <2>1. grants' = grants \cup {new} /\ reason' = [reason EXCEPT ![r] = "granted"]
    BY <1>5 DEF GrantSlot
  <2>2. reason[r] # "granted"
    BY <1>1, <1>5 DEF GrantSlot, AskersHaveNothing, Asking
  <2>3. new \notin grants
    BY <1>1, <2>2 DEF GrantsAreFinal
  <2>4. IsFiniteSet(grants') /\ Cardinality(grants') = Cardinality(grants) + 1
    BY <1>1, <2>1, <2>3, FS_AddElement DEF GrantsAreFinal
  <2>5. GrantsAreFinal'
    BY <1>1, <2>1, <2>4 DEF GrantsAreFinal, Grant
  <2>6. Active(holders') \in Nat /\ Active(holders') <= Cardinality(Sessions)
        /\ Cardinality(Sessions) \in Nat
    BY ActiveBounds
  <2>7. metrics' = [metrics EXCEPT
                      !["granted"] = @ + 1,
                      !["peak"] = IF Active(holders') > @ THEN Active(holders') ELSE @]
    BY <1>5 DEF GrantSlot
  <2>8. /\ metrics'["granted"] = metrics["granted"] + 1
        /\ metrics'["peak"] = IF Active(holders') > metrics["peak"] THEN Active(holders')
                              ELSE metrics["peak"]
        /\ metrics'["rejected"] = metrics["rejected"]
        /\ metrics'["duplicate"] = metrics["duplicate"]
        /\ metrics'["expired"] = metrics["expired"]
        /\ metrics["peak"] \in Nat
    BY <1>1, <2>7 DEF Counters
  <2> QED
    BY <1>1, <2>4, <2>5, <2>6, <2>8 DEF CountersAddUp
<1> QED
  BY <1>2, <1>3, <1>4, <1>5 DEF Next, Step, Acquire

\* The gate's counters agree with what it decided: every grant is counted once, every
\* counted refusal has one cause, and the high-water mark covers the slots held.
THEOREM CountersCorrect == Spec => []CountersAddUp
<1>1. Init => CounterInv
  <2> SUFFICES ASSUME Init PROVE GrantsAreFinal /\ CountersAddUp
    BY SlotInvInit DEF CounterInv
  <2>1. {s \in Sessions : holders[s] # NoRun} = {}
    BY DEF Init
  <2>2. Active(holders) = 0 /\ Cardinality({}) = 0 /\ IsFiniteSet({})
    BY <2>1, FS_EmptySet DEF Active
  <2>3. Cardinality(Sessions) \in Nat
    BY GateAssumption, FS_CardinalityType
  <2> QED
    BY <2>2, <2>3 DEF Init, GrantsAreFinal, CountersAddUp, Counters
<1>2. CounterInv => CountersAddUp
  BY DEF CounterInv
<1> QED
  BY <1>1, <1>2, CounterInvStep, PTL DEF Spec
=============================================================================
