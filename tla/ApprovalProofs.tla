--------------------------- MODULE ApprovalProofs ---------------------------
(***************************************************************************)
(* Proofs about ApprovalQueue: its type invariant, the agreement of queue   *)
(* and threads, and that it implements ApprovalContract.                    *)
(***************************************************************************)
EXTENDS ApprovalQueue, SequenceTheorems, TLAPS

Distinct(q) == \A i, j \in DOMAIN q : q[i] = q[j] => i = j

-----------------------------------------------------------------------------
(* Sequences without duplicates                                            *)

\* An appended element joins the range; a new one leaves the sequence distinct.
LEMMA AppendRange ==
  ASSUME NEW S, NEW q \in Seq(S), NEW r \in S
  PROVE  /\ Append(q, r) \in Seq(S)
         /\ Range(Append(q, r)) = Range(q) \cup {r}
         /\ Distinct(q) /\ r \notin Range(q) => Distinct(Append(q, r))
<1> DEFINE a == Append(q, r)
<1>1. /\ a \in Seq(S) /\ DOMAIN a = 1..(Len(q) + 1) /\ DOMAIN q = 1..Len(q) /\ Len(q) \in Nat
      /\ a[Len(q) + 1] = r /\ \A i \in 1..Len(q) : a[i] = q[i]
  BY SMT
<1>2. Range(a) = Range(q) \cup {r}
  <2>1. \A x \in Range(a) : x \in Range(q) \cup {r}
    BY <1>1, SMT DEF Range
  <2>2. \A x \in Range(q) \cup {r} : x \in Range(a)
    BY <1>1, SMT DEF Range
  <2> QED  BY <2>1, <2>2
<1>3. Distinct(q) /\ r \notin Range(q) => Distinct(a)
  BY <1>1, SMT DEF Range, Distinct
<1> QED  BY <1>1, <1>2, <1>3

\* The elements of a slice that lies within the sequence.
LEMMA Slice ==
  ASSUME NEW S, NEW q \in Seq(S), NEW m \in Nat, NEW n \in Nat, 1 <= m, m <= n + 1, n <= Len(q)
  PROVE  /\ SubSeq(q, m, n) \in Seq(S)
         /\ Len(SubSeq(q, m, n)) = n - m + 1
         /\ DOMAIN SubSeq(q, m, n) = 1..(n - m + 1)
         /\ \A j \in 1..(n - m + 1) : SubSeq(q, m, n)[j] = q[m + j - 1]
<1>1. \A i \in m..n : q[i] \in S
  BY SMT
<1>2. m \in Int /\ n \in Int
  BY SMT
<1>3. /\ SubSeq(q, m, n) \in Seq(S)
      /\ Len(SubSeq(q, m, n)) = IF m <= n THEN n - m + 1 ELSE 0
      /\ \A j \in 1..(n - m + 1) : SubSeq(q, m, n)[j] = q[m + j - 1]
  BY <1>1, <1>2, SubSeqProperties
<1>4. Len(SubSeq(q, m, n)) = n - m + 1
  BY <1>3, SMT
<1>5. DOMAIN SubSeq(q, m, n) = 1..Len(SubSeq(q, m, n))
  BY <1>3, LenProperties
<1> QED  BY <1>3, <1>4, <1>5

\* A prefix and the rest have the range between them, and share nothing.
LEMMA SplitRange ==
  ASSUME NEW S, NEW q \in Seq(S), NEW n \in 1..Len(q)
  PROVE  LET front == SubSeq(q, 1, n)
             rest  == SubSeq(q, n + 1, Len(q))
         IN  /\ front \in Seq(S) /\ rest \in Seq(S)
             /\ Range(q) = Range(front) \cup Range(rest)
             /\ Distinct(q) => /\ Distinct(front) /\ Distinct(rest)
                               /\ Range(front) \cap Range(rest) = {}
<1> DEFINE front == SubSeq(q, 1, n)
           rest  == SubSeq(q, n + 1, Len(q))
<1>1. /\ Len(q) \in Nat /\ DOMAIN q = 1..Len(q) /\ n \in Nat /\ 1 <= n /\ n <= Len(q)
      /\ \A i \in 1..Len(q) : q[i] \in S
  BY SMT
<1>2. /\ front \in Seq(S) /\ DOMAIN front = 1..n /\ \A i \in 1..n : front[i] = q[i]
  BY <1>1, SubSeqProperties, SMT
<1>3. /\ rest \in Seq(S) /\ DOMAIN rest = 1..(Len(q) - n)
      /\ \A i \in 1..(Len(q) - n) : rest[i] = q[n + i]
  BY <1>1, SubSeqProperties, SMT
<1>4. \A x \in Range(q) : x \in Range(front) \cup Range(rest)
  <2> SUFFICES ASSUME NEW i \in 1..Len(q)
               PROVE  q[i] \in Range(front) \cup Range(rest)
    BY <1>1 DEF Range
  <2>1. CASE i <= n
    <3>1. i \in 1..n /\ front[i] = q[i]  BY <2>1, <1>1, <1>2, SMT
    <3> QED  BY <3>1, <1>2 DEF Range
  <2>2. CASE i > n
    <3>1. i - n \in 1..(Len(q) - n) /\ rest[i - n] = q[i]  BY <2>2, <1>1, <1>3, SMT
    <3> QED  BY <3>1, <1>3 DEF Range
  <2> QED  BY <2>1, <2>2, <1>1, SMT
<1>5. \A x \in Range(front) \cup Range(rest) : x \in Range(q)
  BY <1>1, <1>2, <1>3, SMT DEF Range
<1>6. Distinct(q) => Distinct(front) /\ Distinct(rest)
  BY <1>1, <1>2, <1>3, SMT DEF Distinct
<1>7. Distinct(q) => Range(front) \cap Range(rest) = {}
  BY <1>1, <1>2, <1>3, SMT DEF Distinct, Range
<1> QED  BY <1>2, <1>3, <1>4, <1>5, <1>6, <1>7

\* Head and tail have the range between them; the tail of a distinct sequence is
\* distinct and does not have the head.
LEMMA TailRange ==
  ASSUME NEW S, NEW q \in Seq(S), q # <<>>
  PROVE  /\ Head(q) \in S /\ Tail(q) \in Seq(S)
         /\ Range(q) = Range(Tail(q)) \cup {Head(q)}
         /\ Distinct(q) => Distinct(Tail(q)) /\ Head(q) \notin Range(Tail(q))
<1> DEFINE t == Tail(q)
<1>1. /\ Len(q) \in Nat /\ Len(q) > 0 /\ DOMAIN q = 1..Len(q) /\ Head(q) = q[1]
      /\ \A i \in 1..Len(q) : q[i] \in S
  BY SMT
<1>2. t \in Seq(S) /\ DOMAIN t = 1..(Len(q) - 1) /\ \A i \in 1..(Len(q) - 1) : t[i] = q[i + 1]
  BY HeadTailProperties, SMT
<1>3. \A x \in Range(q) : x \in Range(t) \cup {Head(q)}
  <2> SUFFICES ASSUME NEW i \in 1..Len(q), i # 1
               PROVE  q[i] \in Range(t)
    BY <1>1 DEF Range
  <2>1. i - 1 \in 1..(Len(q) - 1) /\ t[i - 1] = q[i]  BY <1>1, <1>2, SMT
  <2> QED  BY <2>1, <1>2 DEF Range
<1>4. \A x \in Range(t) \cup {Head(q)} : x \in Range(q)
  BY <1>1, <1>2, SMT DEF Range
<1>5. Distinct(q) => Distinct(t) /\ Head(q) \notin Range(t)
  BY <1>1, <1>2, SMT DEF Distinct, Range
<1> QED  BY <1>1, <1>2, <1>3, <1>4, <1>5

\* Without removes exactly r from a sequence without duplicates.
LEMMA WithoutRange ==
  ASSUME NEW S, NEW q \in Seq(S), NEW r
  PROVE  /\ Without(q, r) \in Seq(S)
         /\ r \notin Range(q) => Without(q, r) = q
         /\ Range(Without(q, r)) \subseteq Range(q)
         /\ Range(q) \subseteq Range(Without(q, r)) \cup {r}
         /\ Distinct(q) => Distinct(Without(q, r)) /\ r \notin Range(Without(q, r))
<1>1. CASE r \notin Range(q)
  BY <1>1 DEF Without
<1>2. CASE r \in Range(q)
  <2> DEFINE i == CHOOSE j \in DOMAIN q : q[j] = r
             w == SubSeq(q, 1, i - 1) \o SubSeq(q, i + 1, Len(q))
  <2>1. i \in DOMAIN q /\ q[i] = r
    BY <1>2 DEF Range
  <2>2. /\ Len(q) \in Nat /\ DOMAIN q = 1..Len(q) /\ \A j \in 1..Len(q) : q[j] \in S
        /\ i \in Nat /\ 1 <= i /\ i <= Len(q)
    BY <2>1, SMT
  <2>3. Without(q, r) = w
    BY <1>2 DEF Without
  <2> HIDE DEF i
  <2> DEFINE left == SubSeq(q, 1, i - 1)
             right == SubSeq(q, i + 1, Len(q))
  <2>4. left \in Seq(S) /\ Len(left) = i - 1 /\ \A j \in 1..(i - 1) : left[j] = q[j]
    <3>1. i - 1 \in Nat /\ 1 \in Nat /\ 1 <= (i - 1) + 1 /\ i - 1 <= Len(q)
          /\ (i - 1) - 1 + 1 = i - 1 /\ \A j \in Nat : 1 + j - 1 = j
      BY <2>2, SMT
    <3>2. left \in Seq(S) /\ Len(left) = (i - 1) - 1 + 1
          /\ \A j \in 1..((i - 1) - 1 + 1) : left[j] = q[1 + j - 1]
      BY <3>1, Slice
    <3> QED  BY <3>1, <3>2, SMT
  <2>5. right \in Seq(S) /\ Len(right) = Len(q) - i /\ \A j \in 1..(Len(q) - i) : right[j] = q[i + j]
    <3>1. i + 1 \in Nat /\ 1 <= i + 1 /\ i + 1 <= Len(q) + 1 /\ Len(q) <= Len(q)
      BY <2>2, SMT
    <3>2. right \in Seq(S) /\ Len(right) = Len(q) - (i + 1) + 1
          /\ \A j \in 1..(Len(q) - (i + 1) + 1) : right[j] = q[(i + 1) + j - 1]
      BY <2>2, <3>1, Slice
    <3>3. Len(q) - (i + 1) + 1 = Len(q) - i
          /\ \A j \in 1..(Len(q) - i) : (i + 1) + j - 1 = i + j
      BY <2>2, SMT
    <3> QED  BY <3>2, <3>3
  <2> HIDE DEF left, right
  <2>w. w = left \o right
    BY DEF left, right
  <2>b. /\ left \o right \in Seq(S) /\ Len(left \o right) = Len(left) + Len(right)
        /\ \A j \in 1..(Len(left) + Len(right)) :
             (left \o right)[j] = IF j <= Len(left) THEN left[j] ELSE right[j - Len(left)]
    BY <2>4, <2>5, ConcatProperties
  <2>c. /\ left \o right \in Seq(S) /\ Len(left \o right) = (i - 1) + (Len(q) - i)
        /\ \A j \in 1..((i - 1) + (Len(q) - i)) :
             (left \o right)[j] = IF j <= i - 1 THEN left[j] ELSE right[j - (i - 1)]
    BY <2>b, <2>4, <2>5
  <2>d. DOMAIN w = 1..Len(w)
    BY <2>w, <2>c, LenProperties
  <2> HIDE DEF w
  <2>6. /\ w \in Seq(S) /\ DOMAIN w = 1..(Len(q) - 1)
        /\ \A j \in 1..(Len(q) - 1) : w[j] = IF j < i THEN q[j] ELSE q[j + 1]
    <3>1. Len(w) = Len(q) - 1
      BY <2>2, <2>w, <2>c, SMT
    <3>2. ASSUME NEW j \in 1..(Len(q) - 1)
          PROVE  w[j] = IF j < i THEN q[j] ELSE q[j + 1]
      <4>1. CASE j < i  BY <4>1, <2>2, <2>w, <2>c, <2>4, SMT
      <4>2. CASE j >= i
        <5>1. w[j] = right[j - (i - 1)] /\ j - (i - 1) \in 1..(Len(q) - i)
              /\ i + (j - (i - 1)) = j + 1
          BY <4>2, <2>2, <2>w, <2>c, SMT
        <5>2. w[j] = q[j + 1]  BY <5>1, <2>5
        <5> QED  BY <5>2, <4>2, <2>2, SMT
      <4> QED  BY <4>1, <4>2, <2>2, SMT
    <3> QED  BY <3>1, <3>2, <2>w, <2>c, <2>d
  <2>7. \A x \in Range(w) : x \in Range(q)
    <3> SUFFICES ASSUME NEW j \in 1..(Len(q) - 1)
                 PROVE  w[j] \in Range(q)
      BY <2>6 DEF Range
    <3>1. w[j] = q[j] \/ w[j] = q[j + 1]
      BY <2>6
    <3>2. j \in DOMAIN q /\ j + 1 \in DOMAIN q
      BY <2>2, SMT
    <3> QED  BY <3>1, <3>2 DEF Range
  <2>8. \A x \in Range(q) : x \in Range(w) \cup {r}
    <3> SUFFICES ASSUME NEW j \in 1..Len(q), j # i
                 PROVE  q[j] \in Range(w)
      BY <2>1, <2>2 DEF Range
    <3>1. CASE j < i
      <4>1. j \in DOMAIN w /\ w[j] = q[j]  BY <3>1, <2>2, <2>6, SMT
      <4> QED  BY <4>1 DEF Range
    <3>2. CASE j > i
      <4>1. j - 1 \in DOMAIN w /\ w[j - 1] = q[j]  BY <3>2, <2>2, <2>6, SMT
      <4> QED  BY <4>1 DEF Range
    <3> QED  BY <3>1, <3>2, <2>2, SMT
  <2>9. ASSUME Distinct(q) PROVE Distinct(w) /\ r \notin Range(w)
    <3>1. \A j, k \in 1..Len(q) : q[j] = q[k] => j = k
      BY <2>2, <2>9 DEF Distinct
    <3>2. ASSUME NEW j \in 1..(Len(q) - 1), NEW k \in 1..(Len(q) - 1), w[j] = w[k]
          PROVE  j = k
      BY <3>1, <3>2, <2>2, <2>6, SMT
    <3>3. ASSUME NEW j \in 1..(Len(q) - 1)
          PROVE  w[j] # r
      BY <3>1, <2>1, <2>2, <2>6, SMT
    <3> QED  BY <3>2, <3>3, <2>6 DEF Distinct, Range
  <2> QED  BY <1>2, <2>3, <2>6, <2>7, <2>8, <2>9
<1> QED  BY <1>1, <1>2

-----------------------------------------------------------------------------
(* Types                                                                   *)

\* Every variable keeps its type, whatever the code does next.
LEMMA TypeStep == TypeOK /\ [Next]_vars => TypeOK'
<1> SUFFICES ASSUME TypeOK, [Next]_vars PROVE TypeOK'
  OBVIOUS
<1> USE ApprovalAssumption
<1>1. ASSUME NEW u \in Turns, TurnStarts(u) \/ TurnEnds(u) PROVE TypeOK'
  <2>1. CASE TurnStarts(u)
    BY <2>1 DEF TypeOK, TurnStarts, threadVars, trustVars, diskVars
  <2>2. CASE TurnEnds(u)
    BY <2>2 DEF TypeOK, TurnEnds, threadVars, trustVars, diskVars
  <2> QED  BY <1>1, <2>1, <2>2
<1>2. ASSUME NEW choice \in Choices, NEW n \in {1, Len(queue)}, Resolve(choice, n) PROVE TypeOK'
  <2>1. n \in 1..Len(queue)
    BY <1>2, EmptySeq, SMT DEF TypeOK, Resolve
  <2>2. SubSeq(queue, 1, n) \in Seq(Requests) /\ SubSeq(queue, n + 1, Len(queue)) \in Seq(Requests)
    BY <2>1, SplitRange DEF TypeOK
  <2> QED  BY <1>2, <2>2 DEF TypeOK, Resolve, threadVars, trustVars, diskVars
<1>3. CASE HandOut
  <2>1. Head(mail.to) \in Requests /\ Tail(mail.to) \in Seq(Requests)
    BY <1>3, TailRange DEF HandOut, TypeOK
  <2> QED  BY <1>3, <2>1 DEF TypeOK, HandOut, ChoiceGiven, threadVars, trustVars, diskVars
<1>4. CASE ToggleYolo
  BY <1>4 DEF TypeOK, ToggleYolo, threadVars, lineVars, diskVars
<1>5. ASSUME NEW r \in Requests, Start(r) \/ ThreadStep(r) PROVE TypeOK'
  <2>1. CASE Start(r)
    BY <2>1 DEF TypeOK, Start, Goto, PCs, lineVars, trustVars, diskVars
  <2>2. CASE LookUp(r)
    BY <2>2 DEF TypeOK, LookUp, Foremost, lineVars, trustVars, diskVars
  <2>3. CASE LookedUp(r)
    BY <2>3 DEF TypeOK, LookedUp, Goto, PCs, lineVars, trustVars, diskVars
  <2>4. CASE Enqueue(r)
    <3>1. queue' \in Seq(Requests)
      BY <2>4, AppendRange DEF TypeOK, Enqueue
    <3> QED  BY <2>4, <3>1 DEF TypeOK, Enqueue, Goto, PCs, trustVars, diskVars
  <2>5. Without(queue, r) \in Seq(Requests)
    BY WithoutRange DEF TypeOK
  <2>6. CASE Notify(r)
    BY <2>5, <2>6 DEF TypeOK, Notify, Goto, PCs, trustVars, diskVars
  <2>7. CASE Wait(r)
    BY <2>7 DEF TypeOK, Wait, Goto, PCs, lineVars, trustVars, diskVars
  <2>8. CASE Decide(r)
    <3>1. pc' \in [Requests -> PCs]
      BY <2>8 DEF TypeOK, Decide, Goto, PCs
    <3>2. todo' \in [Requests -> SUBSET Keys]
      BY <2>8 DEF TypeOK, Decide
    <3> QED  BY <2>5, <2>8, <3>1, <3>2 DEF TypeOK, Decide, trustVars, diskVars
  <2>9. CASE Remember(r)
    <3>1. PICK k \in Foremost(todo[r]) :
            /\ todo' = [todo EXCEPT ![r] = @ \ {k}] /\ approved' = approved \cup {k}
            /\ IF Lasting(r, k) THEN permanent' = permanent \cup {k} /\ Goto(r, "load")
               ELSE UNCHANGED <<permanent, pc>>
      BY <2>9 DEF Remember
    <3>2. k \in Keys /\ todo[r] \subseteq Keys
      BY <3>1 DEF TypeOK, Foremost
    <3>3. todo' \in [Requests -> SUBSET Keys] /\ approved' \subseteq Keys /\ permanent' \subseteq Keys
      BY <3>1, <3>2 DEF TypeOK
    <3>4. pc' \in [Requests -> PCs]
      BY <3>1 DEF TypeOK, Goto, PCs
    <3> QED  BY <2>9, <3>3, <3>4 DEF TypeOK, Remember, lineVars, diskVars
  <2>10. CASE Remembered(r)
    BY <2>10 DEF TypeOK, Remembered, Goto, PCs, lineVars, trustVars, diskVars
  <2>11. CASE LoadConfig(r)
    <3>1. [disk EXCEPT !.list = permanent] \in Config
      BY DEF TypeOK, Config
    <3>a. \/ /\ buffer' = [buffer EXCEPT ![r] = [disk EXCEPT !.list = permanent]]
             /\ pc' = [pc EXCEPT ![r] = "open"]
          \/ buffer' = buffer /\ pc' = [pc EXCEPT ![r] = "persist"]
      BY <2>11, Zenon DEF LoadConfig, Goto
    <3>2. buffer' \in [Requests -> Config]
      BY <3>a, <3>1 DEF TypeOK
    <3>3. pc' \in [Requests -> PCs]
      BY <3>a DEF TypeOK, PCs
    <3> QED  BY <2>11, <3>2, <3>3 DEF TypeOK, LoadConfig, lineVars, trustVars
  <2>12. CASE OpenConfig(r)
    BY <2>12 DEF TypeOK, OpenConfig, Goto, PCs, Config, Truncated, lineVars, trustVars
  <2>13. CASE WriteConfig(r)
    <3>1. disk' \in Config
      <4>1. buffer[r] \in Config /\ disk \in Config /\ Garbled \in Config
        BY DEF TypeOK, Config, Garbled
      <4>2. ASSUME NEW others \in {buffer[r].others, buffer[r].others \/ disk.others}
            PROVE  [parses |-> TRUE, others |-> others, list |-> buffer[r].list \cup disk.list] \in Config
        <5>1. others \in BOOLEAN /\ buffer[r].list \cup disk.list \in SUBSET Keys
          BY <4>1 DEF Config
        <5> QED  BY <5>1 DEF Config
      <4>3. disk' \in {buffer[r]} \/ disk' \in Overlaid(buffer[r], disk)
        BY <2>13, Zenon DEF WriteConfig
      <4>4. Overlaid(buffer[r], disk) \subseteq Config
        <5> DEFINE mixed == {[parses |-> TRUE, others |-> others, list |-> buffer[r].list \cup disk.list] :
                               others \in {buffer[r].others, buffer[r].others \/ disk.others}}
        <5>1. mixed \subseteq Config
          BY <4>2, Zenon
        <5>2. Overlaid(buffer[r], disk) \subseteq {buffer[r], Garbled} \cup mixed
          <6> HIDE DEF mixed
          <6>1. Overlaid(buffer[r], disk) = IF buffer[r] = disk THEN {buffer[r]} ELSE {buffer[r], Garbled} \cup mixed
            BY Zenon DEF Overlaid, mixed
          <6> QED  BY <6>1
        <5> QED  BY <4>1, <5>1, <5>2
      <4> QED  BY <4>1, <4>3, <4>4
    <3> QED  BY <2>13, <3>1 DEF TypeOK, WriteConfig, Goto, PCs, lineVars, trustVars
  <2> QED  BY <1>5, <2>1, <2>2, <2>3, <2>4, <2>6, <2>7, <2>8, <2>9, <2>10, <2>11, <2>12, <2>13
           DEF ThreadStep
<1>6. CASE Restart
  <2>1. pc' \in [Requests -> PCs]
    BY <1>6 DEF TypeOK, Restart, PCs
  <2>2. permanent' \subseteq Keys /\ disk' \in Config /\ buffer' \in [Requests -> Config]
    BY <1>6 DEF TypeOK, Restart, Config, Truncated
  <2>3. restarts' \in 0..MaxRestarts
    BY <1>6 DEF TypeOK, Restart
  <2>4. mail' \in [choice: Choices \cup {"none"}, to: Seq(Requests)] /\ queue' \in Seq(Requests)
    BY <1>6 DEF Restart
  <2>5. turn' \in [Turns -> {"new", "on", "over"}]
    BY <1>6 DEF TypeOK, Restart
  <2> QED  BY <1>6, <2>1, <2>2, <2>3, <2>4, <2>5 DEF TypeOK, Restart
<1>7. CASE UNCHANGED vars
  BY <1>7 DEF TypeOK, vars
<1> QED  BY <1>1, <1>2, <1>3, <1>4, <1>5, <1>6, <1>7 DEF Next, User

\* The program starts with variables of their types.
LEMMA TypeInit == Init => TypeOK
<1> SUFFICES ASSUME Init PROVE TypeOK
  OBVIOUS
<1>1. Truncated \in Config /\ [parses |-> TRUE, others |-> TRUE, list |-> {}] \in Config
  BY DEF Truncated, Config
<1>2. mail \in [choice: Choices \cup {"none"}, to: Seq(Requests)] /\ queue \in Seq(Requests)
  BY DEF Init
<1>3. restarts \in 0..MaxRestarts
  BY ApprovalAssumption DEF Init
<1> QED  BY <1>1, <1>2, <1>3 DEF Init, TypeOK, PCs

\* Every variable of the approval queue keeps its type (tools/approval.py).
THEOREM TypeCorrect == Spec => []TypeOK
BY TypeInit, TypeStep, PTL DEF Spec

-----------------------------------------------------------------------------
(* The queue and the threads                                               *)

Fresh  == {"idle", "check", "enqueue"}
Agreed == {"persist", "load", "open", "write"}

\* LineMatchesWaiters, strengthened by what it rests on: those being answered are
\* distinct, have not been woken and have left the queue; a thread that has not
\* joined has no event set; one that was woken has, and one that writes down an
\* answer was given one to remember.
InLine(r) == pc[r] \in {"notify", "wait", "expired"} /\ ~event[r]
InMail(r) == pc[r] \notin Fresh /\ ~event[r] /\ r \notin Range(queue)
Thread(r) ==
  /\ pc[r] \in {"notify", "wait"} /\ ~event[r] => r \in Range(queue) \cup Range(mail.to)
  /\ pc[r] \in Fresh => ~event[r]
  /\ pc[r] \in Agreed \cup {"woken"} => event[r]
  /\ pc[r] \in Agreed => result[r] \in {"session", "always"}

LineInv ==
  /\ Distinct(queue) /\ Distinct(mail.to)
  /\ \A r \in Range(queue) : InLine(r)
  /\ \A r \in Range(mail.to) : InMail(r)
  /\ \A r \in Requests : Thread(r)

\* The elements of the two sequences are requests.
LEMMA LineMembers == TypeOK => Range(queue) \subseteq Requests /\ Range(mail.to) \subseteq Requests
<1> SUFFICES ASSUME NEW q \in Seq(Requests) PROVE Range(q) \subseteq Requests
  BY DEF TypeOK
<1>1. \A i \in DOMAIN q : q[i] \in Requests
  BY SMT
<1> QED  BY <1>1 DEF Range

\* A thread that moves within its check, its wait or its saving leaves the line as it is.
LEMMA MoveStep ==
  ASSUME TypeOK, LineInv, UNCHANGED lineVars, NEW r \in Requests, NEW where \in PCs,
         pc' = [pc EXCEPT ![r] = where],
         \/ pc[r] \in Fresh /\ where \in Fresh \cup Final
         \/ pc[r] = "wait" /\ where \in {"expired", "woken"} /\ (event[r] <=> where = "woken")
         \/ pc[r] \in Agreed /\ where \in Agreed \cup Final
  PROVE  LineInv'
<1>1. UNCHANGED <<queue, event, result, mail>>
  BY DEF lineVars
<1>2. /\ pc[r] \in PCs /\ pc'[r] = where
      /\ \A x \in Requests \ {r} : pc'[x] = pc[x]
  BY DEF TypeOK
<1>3. \A x \in Range(queue) : InLine(x)'
  BY <1>1, <1>2, LineMembers DEF LineInv, InLine, Thread, Fresh, Agreed
<1>4. \A x \in Range(mail.to) : InMail(x)'
  BY <1>1, <1>2, LineMembers DEF LineInv, InMail, Thread, Fresh, Agreed, Final
<1>5. \A x \in Requests : Thread(x)'
  BY <1>1, <1>2 DEF LineInv, Thread, Fresh, Agreed, Final
<1> QED  BY <1>1, <1>3, <1>4, <1>5 DEF LineInv

\* Every step keeps the queue and the threads in agreement.
LEMMA LineStep == TypeOK /\ LineInv /\ [Next]_vars => LineInv'
<1> SUFFICES ASSUME TypeOK, LineInv, [Next]_vars PROVE LineInv'
  OBVIOUS
<1>l. Range(queue) \subseteq Requests /\ Range(mail.to) \subseteq Requests
  BY LineMembers
<1>e. Range(<<>>) = {} /\ Distinct(<<>>)
  BY DEF Range, Distinct
<1>1. ASSUME NEW u \in Turns, TurnStarts(u) PROVE LineInv'
  BY <1>1 DEF TurnStarts, threadVars, LineInv, InLine, InMail, Thread
<1>2. ASSUME NEW u \in Turns, TurnEnds(u) PROVE LineInv'
  <2>1. /\ queue' = <<>> /\ UNCHANGED <<pc, result, mail>>
        /\ \A x \in Requests : event'[x] = (event[x] \/ x \in Range(queue))
    BY <1>2 DEF TurnEnds, threadVars
  <2>2. \A x \in Range(mail.to) : InMail(x)'
    BY <2>1, <1>l, <1>e DEF LineInv, InMail
  <2>3. \A x \in Requests : Thread(x)'
    BY <2>1, <1>l, <1>e DEF LineInv, InLine, Thread, Fresh, Agreed
  <2> QED  BY <2>1, <2>2, <2>3, <1>e DEF LineInv
<1>3. ASSUME NEW choice \in Choices, NEW n \in {1, Len(queue)}, Resolve(choice, n) PROVE LineInv'
  <2> DEFINE front == SubSeq(queue, 1, n)
             rest  == SubSeq(queue, n + 1, Len(queue))
  <2>1. n \in 1..Len(queue)
    BY <1>3, EmptySeq, SMT DEF TypeOK, Resolve
  <2>2. /\ Range(queue) = Range(front) \cup Range(rest)
        /\ Distinct(front) /\ Distinct(rest) /\ Range(front) \cap Range(rest) = {}
    BY <2>1, SplitRange DEF TypeOK, LineInv
  <2>3. /\ queue' = rest /\ mail'.to = front /\ mail.to = <<>>
        /\ UNCHANGED <<pc, event, result>>
    BY <1>3 DEF Resolve, threadVars
  <2> HIDE DEF front, rest
  <2>4. \A x \in Range(rest) : InLine(x)'
    BY <2>2, <2>3 DEF LineInv, InLine
  <2>5. \A x \in Range(front) : InMail(x)'
    BY <2>2, <2>3 DEF LineInv, InLine, InMail, Fresh
  <2>6. \A x \in Requests : Thread(x)'
    BY <2>2, <2>3, <1>e DEF LineInv, Thread
  <2> QED  BY <2>2, <2>3, <2>4, <2>5, <2>6 DEF LineInv
<1>4. CASE HandOut
  <2> DEFINE head == Head(mail.to)
             tail == Tail(mail.to)
  <2>1. /\ head \in Requests /\ Range(mail.to) = Range(tail) \cup {head}
        /\ Distinct(tail) /\ head \notin Range(tail)
    BY <1>4, TailRange DEF HandOut, TypeOK, LineInv
  <2>2. /\ UNCHANGED <<pc, queue>> /\ mail'.to = tail
        /\ event' = [event EXCEPT ![head] = TRUE]
        /\ result' = [result EXCEPT ![head] = mail.choice]
    BY <1>4 DEF HandOut, ChoiceGiven, threadVars, TypeOK
  <2> HIDE DEF head, tail
  <2>3. head \notin Range(queue) /\ pc[head] \notin Fresh /\ ~event[head]
    BY <2>1 DEF LineInv, InMail
  <2>4. \A x \in Range(queue) : InLine(x)'
    BY <2>1, <2>2, <2>3, <1>l DEF LineInv, InLine, TypeOK
  <2>5. \A x \in Range(tail) : InMail(x)'
    BY <2>1, <2>2, <2>3, <1>l DEF LineInv, InMail, TypeOK
  <2>6. \A x \in Requests : Thread(x)'
    BY <2>1, <2>2, <2>3 DEF LineInv, Thread, TypeOK, Fresh, Agreed
  <2> QED  BY <2>1, <2>2, <2>4, <2>5, <2>6 DEF LineInv
<1>5. CASE ToggleYolo
  BY <1>5 DEF ToggleYolo, threadVars, lineVars, LineInv, InLine, InMail, Thread
<1>6. ASSUME NEW r \in Requests, Start(r) PROVE LineInv'
  BY <1>6, MoveStep DEF Start, Goto, Fresh, Final, PCs
<1>7. ASSUME NEW r \in Requests, ThreadStep(r) PROVE LineInv'
  <2>1. CASE LookUp(r)
    BY <2>1 DEF LookUp, lineVars, LineInv, InLine, InMail, Thread
  <2>2. CASE LookedUp(r)
    <3>1. \E where \in {"allowed", "blocked", "enqueue"} : pc' = [pc EXCEPT ![r] = where]
      BY <2>2 DEF LookedUp, Goto
    <3> QED  BY <2>2, <3>1, MoveStep DEF LookedUp, Fresh, Final, PCs
  <2>3. CASE Enqueue(r)
    <3>1. r \notin Range(queue) /\ r \notin Range(mail.to) /\ ~event[r]
      BY <2>3 DEF Enqueue, LineInv, InLine, InMail, Thread, Fresh
    <3>2. Range(queue') = Range(queue) \cup {r} /\ Distinct(queue')
      BY <2>3, <3>1, AppendRange DEF Enqueue, TypeOK, LineInv
    <3>3. UNCHANGED <<event, result, mail>> /\ pc' = [pc EXCEPT ![r] = "notify"]
      BY <2>3 DEF Enqueue, Goto
    <3>4. \A x \in Range(queue') : InLine(x)'
      BY <3>1, <3>2, <3>3, <1>l DEF LineInv, InLine, TypeOK
    <3>5. \A x \in Range(mail.to) : InMail(x)'
      BY <3>1, <3>2, <3>3, <1>l DEF LineInv, InMail, TypeOK
    <3>6. \A x \in Requests : Thread(x)'
      BY <3>1, <3>2, <3>3 DEF LineInv, Thread, TypeOK, Fresh, Agreed
    <3> QED  BY <3>2, <3>3, <3>4, <3>5, <3>6 DEF LineInv
  <2>w. /\ Range(Without(queue, r)) \subseteq Range(queue)
        /\ Range(queue) \subseteq Range(Without(queue, r)) \cup {r}
        /\ Distinct(Without(queue, r)) /\ r \notin Range(Without(queue, r))
        /\ r \notin Range(queue) => Without(queue, r) = queue
    BY WithoutRange DEF TypeOK, LineInv
  <2>4. ASSUME NEW where \in PCs, pc' = [pc EXCEPT ![r] = where], queue' = Without(queue, r),
               UNCHANGED <<event, result, mail>>,
               \/ pc[r] \in {"notify", "expired"} /\ where = "blocked"
               \/ pc[r] = "woken" /\ where \in {"allowed", "blocked"}
               \/ pc[r] = "woken" /\ where = "persist" /\ result[r] \in {"session", "always"}
        PROVE  LineInv'
    <3> HIDE DEF Without
    <3>1. \A x \in Range(queue') : InLine(x)'
      BY <2>w, <2>4, <1>l DEF LineInv, InLine, TypeOK
    <3>2. \A x \in Range(mail.to) : InMail(x)'
      BY <2>w, <2>4, <1>l DEF LineInv, InMail, TypeOK, Fresh
    <3>3. \A x \in Requests : Thread(x)'
      BY <2>w, <2>4 DEF LineInv, Thread, TypeOK, Fresh, Agreed
    <3> QED  BY <2>w, <2>4, <3>1, <3>2, <3>3 DEF LineInv
  <2>5. CASE Notify(r)
    <3>1. CASE pc' = [pc EXCEPT ![r] = "wait"] /\ UNCHANGED queue
      <4>1. UNCHANGED <<event, result, mail>> /\ pc[r] = "notify"
        BY <2>5 DEF Notify
      <4>2. \A x \in Range(queue) : InLine(x)'
        BY <3>1, <4>1, <1>l DEF LineInv, InLine, TypeOK
      <4>3. \A x \in Range(mail.to) : InMail(x)'
        BY <3>1, <4>1, <1>l DEF LineInv, InMail, TypeOK, Fresh
      <4>4. \A x \in Requests : Thread(x)'
        BY <3>1, <4>1 DEF LineInv, Thread, TypeOK, Fresh, Agreed
      <4> QED  BY <3>1, <4>1, <4>2, <4>3, <4>4 DEF LineInv
    <3>2. CASE pc' = [pc EXCEPT ![r] = "blocked"] /\ queue' = Without(queue, r)
      BY <2>5, <3>2, <2>4 DEF Notify, PCs
    <3> QED  BY <2>5, <3>1, <3>2 DEF Notify, Goto
  <2>6. CASE Wait(r)
    BY <2>6, MoveStep DEF Wait, MayExpire, Goto, PCs
  <2>7. CASE Decide(r)
    <3>1. CASE pc[r] = "woken" /\ Granted(r) /\ result[r] = "once"
      BY <2>7, <3>1, <2>4 DEF Decide, Goto, PCs
    <3>2. CASE pc[r] = "woken" /\ Granted(r) /\ result[r] # "once"
      <4>1. result[r] \in {"session", "always"}
        BY <3>2 DEF Granted, TypeOK, Choices
      <4> QED  BY <2>7, <3>2, <4>1, <2>4 DEF Decide, Goto, PCs
    <3>3. CASE ~(pc[r] = "woken" /\ Granted(r))
      BY <2>7, <3>3, <2>4 DEF Decide, Goto, PCs
    <3> QED  BY <3>1, <3>2, <3>3
  <2>8. CASE Remember(r)
    <3>1. pc[r] = "persist" /\ UNCHANGED lineVars
      BY <2>8 DEF Remember
    <3>2. \E where \in {"persist", "load"} : pc' = [pc EXCEPT ![r] = where]
      BY <2>8 DEF Remember, Goto, TypeOK
    <3> QED  BY <3>1, <3>2, MoveStep DEF Agreed, PCs
  <2>9. CASE Remembered(r)
    BY <2>9, MoveStep DEF Remembered, Goto, Agreed, Final, PCs
  <2>10. CASE LoadConfig(r)
    <3>1. \E where \in {"persist", "open"} : pc' = [pc EXCEPT ![r] = where]
      BY <2>10, Zenon DEF LoadConfig, Goto
    <3> QED  BY <2>10, <3>1, MoveStep DEF LoadConfig, Agreed, PCs
  <2>11. CASE OpenConfig(r)
    BY <2>11, MoveStep DEF OpenConfig, Goto, Agreed, PCs
  <2>12. CASE WriteConfig(r)
    BY <2>12, MoveStep DEF WriteConfig, Goto, Agreed, PCs
  <2> QED  BY <1>7, <2>1, <2>2, <2>3, <2>5, <2>6, <2>7, <2>8, <2>9, <2>10, <2>11, <2>12
           DEF ThreadStep
<1>8. CASE Restart
  <2>1. /\ queue' = <<>> /\ mail'.to = <<>>
        /\ \A x \in Requests : /\ ~event'[x]
                               /\ pc'[x] \in Final \cup {"idle"}
    BY <1>8 DEF Restart, Final
  <2> QED  BY <2>1, <1>e DEF LineInv, Thread, Agreed, Final, Fresh
<1>9. CASE UNCHANGED vars
  BY <1>9 DEF vars, LineInv, InLine, InMail, Thread
<1> QED  BY <1>1, <1>2, <1>3, <1>4, <1>5, <1>6, <1>7, <1>8, <1>9 DEF Next, User

\* Queue and threads agree when the program starts.
LEMMA LineInit == Init => LineInv
<1> SUFFICES ASSUME Init PROVE LineInv
  OBVIOUS
<1>1. Range(<<>>) = {} /\ Distinct(<<>>)
  BY DEF Range, Distinct
<1>2. \A x \in Requests : Thread(x)
  BY DEF Init, Thread, Fresh, Agreed
<1>3. queue = <<>> /\ mail.to = <<>>
  BY DEF Init
<1> QED  BY <1>1, <1>2, <1>3 DEF LineInv

\* The queue holds exactly the threads that wait for an answer: no ghost takes the
\* answer meant for another, and no waiting thread is forgotten (approval.py:786-821).
THEOREM LineCorrect == Spec => []LineMatchesWaiters
<1>1. LineInv => LineMatchesWaiters
  BY DEF LineInv, LineMatchesWaiters, Distinct, InLine, Thread
<1> QED  BY <1>1, TypeInit, TypeStep, LineInit, LineStep, PTL DEF Spec

-----------------------------------------------------------------------------
(* What a request still needs, and what the file may hold                  *)

\* A command runs on trust only if nothing it raised was skipped: each of its keys is
\* still to be looked up or written down, is to be asked about, or is trusted.
Needs(r) ==
  /\ todo[r] \subseteq command[r] /\ warnings[r] \subseteq command[r]
  /\ pc[r] = "check" => command[r] \subseteq todo[r] \cup warnings[r] \cup approved \cup permanent
  /\ pc[r] \in {"enqueue", "notify", "wait", "expired", "woken"} =>
       command[r] \subseteq warnings[r] \cup approved \cup permanent
  /\ pc[r] \in Agreed => command[r] \subseteq todo[r] \cup approved \cup permanent

\* The file, and what is about to be written, hold only keys trusted permanently.
SavedIsTrusted ==
  disk.list \subseteq permanent /\ \A r \in Requests : buffer[r].list \subseteq permanent

TrustInv == (\A r \in Requests : Needs(r)) /\ SavedIsTrusted

\* Trust only grows, and no other thread is affected, in a step of thread r.
LEMMA OthersNeed ==
  ASSUME TypeOK, TrustInv, NEW r \in Requests,
         \A x \in Requests \ {r} : pc'[x] = pc[x] /\ todo'[x] = todo[x] /\ warnings'[x] = warnings[x],
         command' = command, approved \subseteq approved', permanent \subseteq permanent'
  PROVE  \A x \in Requests \ {r} : Needs(x)'
BY DEF TrustInv, Needs

\* Every step keeps account of what each command needs.
LEMMA NeedsStep == TypeOK /\ TrustInv /\ [Next]_vars => (\A x \in Requests : Needs(x))'
<1> SUFFICES ASSUME TypeOK, TrustInv, [Next]_vars PROVE (\A x \in Requests : Needs(x))'
  OBVIOUS
<1>1. ASSUME UNCHANGED <<threadVars, approved, permanent>> PROVE (\A x \in Requests : Needs(x))'
  BY <1>1 DEF threadVars, TrustInv, Needs
<1>2. ASSUME NEW r \in Requests, Start(r) PROVE (\A x \in Requests : Needs(x))'
  <2>1. Needs(r)'
    BY <1>2 DEF Start, Goto, trustVars, TypeOK, TrustInv, Needs, Agreed
  <2>2. \A x \in Requests \ {r} : Needs(x)'
    BY <1>2, OthersNeed DEF Start, Goto, trustVars, TypeOK
  <2> QED  BY <2>1, <2>2
<1>3. ASSUME NEW r \in Requests, ThreadStep(r) PROVE (\A x \in Requests : Needs(x))'
  <2>1. /\ UNCHANGED command /\ approved \subseteq approved' /\ permanent \subseteq permanent'
        /\ \A x \in Requests \ {r} : pc'[x] = pc[x] /\ todo'[x] = todo[x] /\ warnings'[x] = warnings[x]
    <3>1. CASE LookUp(r)      BY <3>1 DEF LookUp, trustVars, TypeOK
    <3>2. CASE LookedUp(r)    BY <3>2 DEF LookedUp, Goto, trustVars, TypeOK
    <3>3. CASE Enqueue(r)     BY <3>3 DEF Enqueue, Goto, trustVars, TypeOK
    <3>4. CASE Notify(r)      BY <3>4 DEF Notify, Goto, trustVars, TypeOK
    <3>5. CASE Wait(r)        BY <3>5 DEF Wait, Goto, trustVars, TypeOK
    <3>6. CASE Decide(r)      BY <3>6 DEF Decide, Goto, trustVars, TypeOK
    <3>7. CASE Remember(r)    BY <3>7 DEF Remember, Goto, TypeOK
    <3>8. CASE Remembered(r)  BY <3>8 DEF Remembered, Goto, trustVars, TypeOK
    <3>9. CASE LoadConfig(r)  BY <3>9, Zenon DEF LoadConfig, Goto, trustVars, TypeOK
    <3>10. CASE OpenConfig(r)  BY <3>10 DEF OpenConfig, Goto, trustVars, TypeOK
    <3>11. CASE WriteConfig(r) BY <3>11 DEF WriteConfig, Goto, trustVars, TypeOK
    <3> QED  BY <1>3, <3>1, <3>2, <3>3, <3>4, <3>5, <3>6, <3>7, <3>8, <3>9, <3>10, <3>11
             DEF ThreadStep
  <2>2. Needs(r)'
    <3> USE DEF TypeOK, TrustInv, Needs, Agreed
    <3>1. CASE LookUp(r)      BY <3>1 DEF LookUp, Foremost, Trusted, trustVars
    <3>2. CASE LookedUp(r)    BY <3>2 DEF LookedUp, Goto, trustVars
    <3>3. CASE Enqueue(r)     BY <3>3 DEF Enqueue, Goto, trustVars
    <3>4. CASE Notify(r)      BY <3>4 DEF Notify, Goto, trustVars
    <3>5. CASE Wait(r)        BY <3>5 DEF Wait, Goto, trustVars
    <3>6. CASE Decide(r)      BY <3>6 DEF Decide, Goto, trustVars
    <3>7. CASE Remember(r)    BY <3>7 DEF Remember, Foremost, Goto
    <3>8. CASE Remembered(r)  BY <3>8 DEF Remembered, Goto, trustVars
    <3>9. CASE LoadConfig(r)
      <4>1. \E where \in {"persist", "open"} : pc' = [pc EXCEPT ![r] = where]
        BY <3>9, Zenon DEF LoadConfig, Goto
      <4> QED  BY <3>9, <4>1 DEF LoadConfig, trustVars
    <3>10. CASE OpenConfig(r)  BY <3>10 DEF OpenConfig, Goto, trustVars
    <3>11. CASE WriteConfig(r) BY <3>11 DEF WriteConfig, Goto, trustVars
    <3> QED  BY <1>3, <3>1, <3>2, <3>3, <3>4, <3>5, <3>6, <3>7, <3>8, <3>9, <3>10, <3>11
             DEF ThreadStep
  <2> QED  BY <2>1, <2>2, OthersNeed
<1>4. CASE Restart
  BY <1>4 DEF Restart, TypeOK, TrustInv, Needs, Agreed, Final
<1>5. ASSUME NEW u \in Turns, TurnStarts(u) \/ TurnEnds(u) PROVE (\A x \in Requests : Needs(x))'
  BY <1>5, <1>1 DEF TurnStarts, TurnEnds, trustVars
<1>6. CASE User \/ HandOut
  BY <1>6, <1>1 DEF User, Resolve, ToggleYolo, HandOut, trustVars
<1>7. CASE UNCHANGED vars
  BY <1>7, <1>1 DEF vars, threadVars
<1> QED  BY <1>2, <1>3, <1>4, <1>5, <1>6, <1>7 DEF Next

\* Every step leaves in the file and in the buffers only keys trusted permanently.
LEMMA SavedStep == TypeOK /\ TrustInv /\ [Next]_vars => SavedIsTrusted'
<1> SUFFICES ASSUME TypeOK, TrustInv, [Next]_vars PROVE SavedIsTrusted'
  OBVIOUS
<1> USE DEF TrustInv, SavedIsTrusted
<1>1. ASSUME permanent \subseteq permanent', UNCHANGED diskVars PROVE SavedIsTrusted'
  BY <1>1 DEF diskVars
<1>2. ASSUME NEW r \in Requests, ThreadStep(r) PROVE SavedIsTrusted'
  <2>1. CASE LookUp(r) \/ LookedUp(r) \/ Enqueue(r) \/ Notify(r)
    BY <2>1, <1>1 DEF LookUp, LookedUp, Enqueue, Notify, trustVars
  <2>2. CASE Wait(r) \/ Decide(r) \/ Remember(r) \/ Remembered(r)
    BY <2>2, <1>1 DEF Wait, Decide, Remember, Remembered, trustVars
  <2>3. CASE LoadConfig(r)
    <3>1. \/ buffer' = [buffer EXCEPT ![r] = [disk EXCEPT !.list = permanent]]
          \/ buffer' = buffer
      BY <2>3, Zenon DEF LoadConfig
    <3>2. [disk EXCEPT !.list = permanent].list = permanent
      BY DEF TypeOK, Config
    <3> QED  BY <2>3, <3>1, <3>2 DEF LoadConfig, trustVars, TypeOK
  <2>4. CASE OpenConfig(r)
    BY <2>4 DEF OpenConfig, Truncated, trustVars
  <2>5. CASE WriteConfig(r)
    <3>1. disk'.list \subseteq permanent
      <4>1. disk' \in {buffer[r]} \/ disk' \in Overlaid(buffer[r], disk)
        BY <2>5, Zenon DEF WriteConfig
      <4>2. ASSUME NEW c \in Overlaid(buffer[r], disk) PROVE c.list \subseteq buffer[r].list \cup disk.list
        <5>1. \/ c = buffer[r] \/ c = Garbled
              \/ \E others : c = [parses |-> TRUE, others |-> others, list |-> buffer[r].list \cup disk.list]
          BY Zenon DEF Overlaid
        <5> QED  BY <5>1 DEF Garbled
      <4> QED  BY <4>1, <4>2
    <3> QED  BY <2>5, <3>1 DEF WriteConfig, trustVars
  <2> QED  BY <1>2, <2>1, <2>2, <2>3, <2>4, <2>5 DEF ThreadStep
<1>3. CASE Restart
  BY <1>3 DEF Restart, Truncated
<1>4. ASSUME NEW u \in Turns, TurnStarts(u) \/ TurnEnds(u) PROVE SavedIsTrusted'
  BY <1>4, <1>1 DEF TurnStarts, TurnEnds, trustVars
<1>5. ASSUME NEW r \in Requests, Start(r) PROVE SavedIsTrusted'
  BY <1>5, <1>1 DEF Start, trustVars
<1>6. CASE User \/ HandOut \/ UNCHANGED vars
  BY <1>6, <1>1 DEF User, Resolve, ToggleYolo, HandOut, trustVars, vars, diskVars
<1> QED  BY <1>2, <1>3, <1>4, <1>5, <1>6 DEF Next

\* The account holds when the program starts.
LEMMA TrustInit == Init => TrustInv
<1> SUFFICES ASSUME Init PROVE TrustInv
  OBVIOUS
<1>1. \A r \in Requests : Needs(r)
  BY DEF Init, Needs, Agreed
<1>2. SavedIsTrusted
  BY DEF Init, SavedIsTrusted, Truncated
<1> QED  BY <1>1, <1>2 DEF TrustInv
-----------------------------------------------------------------------------
(* ApprovalQueue implements ApprovalContract                               *)

\* What the contract calls the outcome of a thread that is at w.
Class(w) == CASE w \in Fresh -> "new" [] w \in Final -> w [] OTHER -> "asked"

\* New before it asks, asked until it is allowed or blocked.
LEMMA ClassOf ==
  /\ \A w \in Fresh : Class(w) = "new"
  /\ \A w \in Final : Class(w) = w
  /\ \A w \in Agreed \cup {"notify", "wait", "woken", "expired"} : Class(w) = "asked"
BY DEF Class, Fresh, Final, Agreed

\* A move of one thread changes its outcome alone.
LEMMA OutcomeStep ==
  ASSUME TypeOK, NEW r \in Requests, NEW where \in PCs, pc' = [pc EXCEPT ![r] = where]
  PROVE  /\ Outcome[r] = Class(pc[r])
         /\ Outcome' = [Outcome EXCEPT ![r] = Class(where)]
         /\ Class(where) = Class(pc[r]) => Outcome' = Outcome
<1>1. \A x \in Requests : Outcome[x] = Class(pc[x])
  BY DEF Outcome, Class, Fresh
<1>2. pc'[r] = where /\ \A x \in Requests \ {r} : pc'[x] = pc[x]
  BY DEF TypeOK
<1>3. \A x \in Requests : Outcome'[x] = Class(pc'[x])
  BY DEF Outcome, Class, Fresh
<1>4. Outcome = [x \in Requests |-> Outcome[x]] /\ Outcome' = [x \in Requests |-> Outcome'[x]]
  BY DEF Outcome
<1> HIDE DEF Outcome, Class
<1> QED  BY <1>1, <1>2, <1>3, <1>4

\* The two modules mean the same by Without.
LEMMA SameWithout == \A q, r : Contract!Without(q, r) = Without(q, r)
BY Zenon DEF Contract!Without, Without, Contract!Range, Range

\* Nothing the contract sees has changed.
LEMMA Unseen ==
  ASSUME UNCHANGED <<command, queue, mail, result, approved, permanent, yolo>>, Outcome' = Outcome
  PROVE  UNCHANGED Contract!cvars
BY DEF Contract!cvars, Verdict

\* A thread that is allowed to run with consent does what the contract allows.
LEMMA AllowStep ==
  ASSUME NEW r \in Requests, UNCHANGED <<command, queue, mail, result, approved, permanent, yolo>>,
         Contract!Consent(r), Outcome' = [Outcome EXCEPT ![r] = "allowed"]
  PROVE  Contract!CNext
<1>1. Contract!Allow(r)
  BY DEF Contract!Allow, Verdict
<1> QED  BY <1>1 DEF Contract!CNext

\* A thread that is blocked leaves the line, as the contract requires.
LEMMA BlockStep ==
  ASSUME NEW r \in Requests, UNCHANGED <<command, mail, result, approved, permanent, yolo>>,
         queue' = Without(queue, r), Outcome[r] \notin Final,
         Outcome' = [Outcome EXCEPT ![r] = "blocked"]
  PROVE  Contract!CNext
<1>1. Contract!Block(r)
  BY SameWithout DEF Contract!Block, Contract!Settled, Final, Verdict
<1> QED  BY <1>1 DEF Contract!CNext

\* Every step of a turn, of the user or of the process is a step of the contract.
LEMMA SessionStep ==
  ASSUME TypeOK, LineInv, TrustInv,
         \/ \E u \in Turns : TurnStarts(u) \/ TurnEnds(u)
         \/ User \/ HandOut \/ Restart
  PROVE  [Contract!CNext]_(Contract!cvars)
<1>1. ASSUME NEW u \in Turns, TurnStarts(u) PROVE UNCHANGED Contract!cvars
  BY <1>1, Unseen DEF TurnStarts, threadVars, trustVars, Outcome
<1>2. ASSUME NEW u \in Turns, TurnEnds(u) PROVE Contract!CNext
  <2>1. Contract!Dismiss
    BY <1>2 DEF TurnEnds, Contract!Dismiss, threadVars, trustVars, Outcome, Verdict
  <2> QED  BY <2>1 DEF Contract!CNext
<1>3. ASSUME NEW choice \in Choices, NEW n \in {1, Len(queue)}, Resolve(choice, n)
      PROVE  Contract!CNext
  <2>1. /\ mail.to = <<>> /\ queue # <<>> /\ queue' = SubSeq(queue, n + 1, Len(queue))
        /\ mail'.to = SubSeq(queue, 1, n) /\ mail'.choice = choice
        /\ UNCHANGED <<command, pc, result, approved, permanent, yolo>>
    BY <1>3 DEF Resolve, threadVars, trustVars
  <2>2. Range(<<>>) = {}
    BY DEF Range
  <2>3. \A q : Contract!Range(q) = Range(q)
    BY DEF Contract!Range, Range
  <2>4. Verdict' = [r \in Requests |->
                      IF r \in Contract!Range(SubSeq(queue, 1, n)) THEN choice ELSE Verdict[r]]
    <3> HIDE DEF Range
    <3>1. Verdict' = [r \in Requests |->
                        IF r \in Range(SubSeq(queue, 1, n)) THEN choice ELSE result[r]]
      BY <2>1 DEF Verdict
    <3>2. \A r \in Requests : Verdict[r] = result[r]
      BY <2>1, <2>2 DEF Verdict
    <3> QED  BY <3>1, <3>2, <2>3
  <2>5. Contract!Answer(choice, n)
    BY <2>1, <2>4 DEF Contract!Answer, Outcome
  <2> QED  BY <2>5 DEF Contract!CNext, Contract!Choices, Choices
<1>4. CASE HandOut
  <2>1. /\ Range(mail.to) = Range(Tail(mail.to)) \cup {Head(mail.to)}
        /\ Head(mail.to) \notin Range(Tail(mail.to)) /\ Head(mail.to) \in Requests
    BY <1>4, TailRange DEF HandOut, TypeOK, LineInv
  <2>2. /\ mail'.to = Tail(mail.to) /\ mail'.choice = mail.choice
        /\ result' = [result EXCEPT ![Head(mail.to)] = mail.choice]
        /\ UNCHANGED <<command, pc, queue, approved, permanent, yolo>>
    BY <1>4 DEF HandOut, ChoiceGiven, threadVars, trustVars, TypeOK
  <2>3. Verdict' = Verdict
    <3>1. \A r \in Requests : Verdict'[r] = Verdict[r]
      BY <2>1, <2>2 DEF Verdict, TypeOK
    <3> QED  BY <3>1, Zenon DEF Verdict
  <2>4. Outcome' = Outcome
    BY <2>2 DEF Outcome
  <2> QED  BY <2>2, <2>3, <2>4 DEF Contract!cvars
<1>5. CASE ToggleYolo
  <2>1. Contract!Toggle
    BY <1>5 DEF ToggleYolo, Contract!Toggle, threadVars, lineVars, Outcome, Verdict
  <2> QED  BY <2>1 DEF Contract!CNext
<1>6. CASE Restart
  <2>1. permanent' \in SUBSET permanent
    BY <1>6 DEF Restart, TrustInv, SavedIsTrusted
  <2>2. Verdict' = [r \in Requests |-> "none"]
    <3>1. Range(<<>>) = {}
      BY DEF Range
    <3>2. mail'.to = <<>> /\ result' = [r \in Requests |-> "none"]
      BY <1>6 DEF Restart
    <3> QED  BY <3>1, <3>2 DEF Verdict
  <2>3. Outcome' = [r \in Requests |->
                      IF Outcome[r] \in Contract!Settled
                         \/ (Outcome[r] = "new" /\ r \notin {x \in Requests : pc[x] \in {"check", "enqueue"}})
                      THEN Outcome[r] ELSE "dead"]
    <3>1. pc' = [r \in Requests |-> IF pc[r] \in Final \cup {"idle"} THEN pc[r] ELSE "dead"]
      BY <1>6 DEF Restart, Final, TypeOK
    <3>2. \A r \in Requests : Outcome'[r] = IF pc[r] \in Final THEN pc[r]
                                            ELSE IF pc[r] = "idle" THEN "new" ELSE "dead"
      BY <3>1 DEF Outcome, Final
    <3>3. \A r \in Requests : Outcome[r] = Class(pc[r])
      BY DEF Outcome, Class, Fresh
    <3> DEFINE lost == {x \in Requests : pc[x] \in {"check", "enqueue"}}
    <3>4. \A r \in Requests :
            Outcome'[r] = IF Outcome[r] \in Contract!Settled \/ (Outcome[r] = "new" /\ r \notin lost)
                          THEN Outcome[r] ELSE "dead"
      BY <3>2, <3>3 DEF Class, Fresh, Final, Contract!Settled
    <3>5. Outcome' = [r \in Requests |-> Outcome'[r]]
      BY DEF Outcome
    <3> HIDE DEF lost
    <3>6. Outcome' = [r \in Requests |->
            IF Outcome[r] \in Contract!Settled \/ (Outcome[r] = "new" /\ r \notin lost)
            THEN Outcome[r] ELSE "dead"]
      BY <3>4, <3>5, Zenon
    <3> QED  BY <3>6 DEF lost
  <2>4. Contract!Reboot
    BY <1>6, <2>1, <2>2, <2>3 DEF Restart, Contract!Reboot
  <2> QED  BY <2>4 DEF Contract!CNext
<1> QED  BY <1>1, <1>2, <1>3, <1>4, <1>5, <1>6 DEF User

\* Every step of a thread is a step of the contract, or is not seen by it.
LEMMA ThreadContract ==
  ASSUME TypeOK, LineInv, TrustInv, NEW r \in Requests, Start(r) \/ ThreadStep(r)
  PROVE  [Contract!CNext]_(Contract!cvars)
<1> DEFINE Kept == UNCHANGED <<command, mail, result, approved, permanent, yolo>>
<1>m. ASSUME NEW where \in PCs, pc' = [pc EXCEPT ![r] = where]
      PROVE  /\ Outcome[r] = Class(pc[r])
             /\ Outcome' = [Outcome EXCEPT ![r] = Class(where)]
             /\ Class(where) = Class(pc[r]) => Outcome' = Outcome
  BY <1>m, OutcomeStep
<1>o. Outcome[r] = Class(pc[r])
  BY DEF Outcome, Class, Fresh
<1>n. Needs(r) /\ Thread(r)
  BY DEF TrustInv, LineInv
<1>i. r \in Range(mail.to) => ~event[r]
  BY DEF LineInv, InMail
<1>v. r \notin Range(mail.to) => Verdict[r] = result[r]
  BY DEF Verdict
<1>1. CASE Start(r)
  <2>1. CASE yolo /\ pc' = [pc EXCEPT ![r] = "allowed"]
    <3>1. Outcome[r] = "new" /\ Outcome' = [Outcome EXCEPT ![r] = "allowed"]
      BY <1>1, <2>1, <1>m, <1>o, ClassOf DEF Start, Fresh, Final, Agreed, PCs
    <3> QED  BY <1>1, <2>1, <3>1, AllowStep DEF Start, Contract!Consent, lineVars, trustVars
  <2>2. CASE pc' = [pc EXCEPT ![r] = "check"]
    <3>1. Outcome' = Outcome
      BY <1>1, <2>2, <1>m, <1>o, ClassOf DEF Start, Fresh, Final, Agreed, PCs
    <3> QED  BY <1>1, <3>1, Unseen DEF Start, lineVars, trustVars
  <2> QED  BY <1>1, <2>1, <2>2 DEF Start, Goto
<1>2. CASE LookUp(r)
  BY <1>2, Unseen DEF LookUp, lineVars, trustVars, Outcome
<1>3. CASE LookedUp(r)
  <2>1. Outcome[r] = "new" /\ r \notin Range(queue) /\ UNCHANGED <<queue, command>> /\ Kept
    <3>1. pc[r] = "check" /\ UNCHANGED <<queue, command>> /\ Kept
      BY <1>3 DEF LookedUp, lineVars, trustVars
    <3>2. Outcome[r] = "new"
      BY <3>1, <1>o, ClassOf DEF Fresh
    <3> QED  BY <3>1, <3>2 DEF LineInv, InLine
  <2>2. CASE warnings[r] = {} /\ pc' = [pc EXCEPT ![r] = "allowed"]
    <3>1. Outcome' = [Outcome EXCEPT ![r] = "allowed"]
      BY <2>2, <1>m, <1>o, ClassOf DEF Fresh, Final, Agreed, PCs
    <3>2. command[r] \subseteq approved \cup permanent
      BY <1>3, <2>2, <1>n DEF LookedUp, Needs
    <3> QED  BY <2>1, <3>1, <3>2, AllowStep DEF Contract!Consent
  <2>3. CASE pc' = [pc EXCEPT ![r] = "blocked"]
    <3>1. Outcome' = [Outcome EXCEPT ![r] = "blocked"]
      BY <2>3, <1>m, <1>o, ClassOf DEF Fresh, Final, Agreed, PCs
    <3>2. queue' = Without(queue, r)
      BY <2>1 DEF Without
    <3> QED  BY <2>1, <3>1, <3>2, BlockStep DEF Final
  <2>4. CASE pc' = [pc EXCEPT ![r] = "enqueue"]
    <3>1. Outcome' = Outcome
      BY <1>3, <2>4, <1>m, <1>o, ClassOf DEF LookedUp, Fresh, Final, Agreed, PCs
    <3> QED  BY <2>1, <3>1, Unseen
  <2> QED  BY <1>3, <2>2, <2>3, <2>4 DEF LookedUp, Goto
<1>4. CASE Enqueue(r)
  <2>1. Outcome[r] = "new" /\ Outcome' = [Outcome EXCEPT ![r] = "asked"]
    BY <1>4, <1>m, <1>o, ClassOf DEF Enqueue, Goto, Fresh, Final, Agreed, PCs
  <2>2. Contract!Join(r)
    BY <1>4, <2>1 DEF Enqueue, Contract!Join, trustVars, Verdict
  <2> QED  BY <2>2 DEF Contract!CNext
<1>5. CASE Notify(r)
  <2>1. Outcome[r] = "asked" /\ Kept
    BY <1>5, <1>m, <1>o, ClassOf DEF Notify, trustVars
  <2>2. CASE pc' = [pc EXCEPT ![r] = "wait"] /\ UNCHANGED queue
    <3>1. Outcome' = Outcome
      BY <1>5, <2>2, <1>m, <1>o, ClassOf DEF Notify, Fresh, Final, Agreed, PCs
    <3> QED  BY <2>1, <2>2, <3>1, Unseen
  <2>3. CASE pc' = [pc EXCEPT ![r] = "blocked"] /\ queue' = Without(queue, r)
    <3>1. Outcome' = [Outcome EXCEPT ![r] = "blocked"]
      BY <2>3, <1>m, <1>o, ClassOf DEF Fresh, Final, Agreed, PCs
    <3> QED  BY <2>1, <2>3, <3>1, BlockStep DEF Final
  <2> QED  BY <1>5, <2>2, <2>3 DEF Notify, Goto
<1>6. CASE Wait(r)
  <2>1. Outcome' = Outcome
    BY <1>6, <1>m, <1>o, ClassOf DEF Wait, Goto, Fresh, Final, Agreed, PCs
  <2> QED  BY <1>6, <2>1, Unseen DEF Wait, lineVars, trustVars
<1>7. CASE Decide(r)
  <2>1. Outcome[r] = "asked" /\ Kept /\ queue' = Without(queue, r)
    BY <1>7, <1>m, <1>o, ClassOf DEF Decide, trustVars
  <2>2. ASSUME pc[r] = "woken"
        PROVE  Verdict[r] = result[r] /\ UNCHANGED queue
    <3>1. event[r]
      BY <2>2, <1>n DEF Thread
    <3>2. r \notin Range(queue)
      BY <3>1 DEF LineInv, InLine
    <3> QED  BY <2>1, <3>1, <3>2, <1>i, <1>v DEF Without
  <2>3. CASE pc[r] = "woken" /\ result[r] = "once" /\ pc' = [pc EXCEPT ![r] = "allowed"]
    <3>1. Outcome' = [Outcome EXCEPT ![r] = "allowed"]
      BY <2>3, <1>m, <1>o, ClassOf DEF Fresh, Final, Agreed, PCs
    <3> QED  BY <2>1, <2>2, <2>3, <3>1, AllowStep DEF Contract!Consent
  <2>4. CASE pc[r] = "woken" /\ pc' = [pc EXCEPT ![r] = "persist"]
    <3>1. Outcome' = Outcome
      BY <2>4, <1>m, <1>o, ClassOf DEF Fresh, Final, Agreed, PCs
    <3> QED  BY <2>1, <2>2, <2>4, <3>1, Unseen
  <2>5. CASE pc' = [pc EXCEPT ![r] = "blocked"]
    <3>1. Outcome' = [Outcome EXCEPT ![r] = "blocked"]
      BY <2>5, <1>m, <1>o, ClassOf DEF Fresh, Final, Agreed, PCs
    <3> QED  BY <2>1, <3>1, BlockStep DEF Final
  <2> QED  BY <1>7, <2>3, <2>4, <2>5 DEF Decide, Goto
<1>8. CASE Remember(r)
  <2>1. PICK k \in Foremost(todo[r]) :
          /\ approved' = approved \cup {k}
          /\ IF Lasting(r, k) THEN permanent' = permanent \cup {k} /\ Goto(r, "load")
             ELSE UNCHANGED <<permanent, pc>>
    BY <1>8 DEF Remember
  <2>2. k \in command[r] /\ k \in Keys
    BY <2>1, <1>n DEF Foremost, Needs, TypeOK
  <2>3. Outcome[r] = "asked" /\ Outcome' = Outcome
    <3>1. pc[r] = "persist" /\ Outcome[r] = "asked"
      BY <1>8, <1>o, ClassOf DEF Remember, Agreed
    <3>2. CASE pc' = [pc EXCEPT ![r] = "load"]
      BY <3>1, <3>2, <1>m, <1>o, ClassOf DEF Agreed, PCs
    <3>3. CASE UNCHANGED pc
      BY <3>1, <3>3 DEF Outcome
    <3> QED  BY <2>1, <3>1, <3>2, <3>3 DEF Goto
  <2>4. Verdict[r] = result[r] /\ result[r] \in {"session", "always"}
    BY <1>8, <1>n, <1>i, <1>v DEF Remember, Thread, Agreed
  <2>5. permanent' = IF Verdict[r] = "always" /\ k \notin TirithKeys THEN permanent \cup {k} ELSE permanent
    BY <2>1, <2>4 DEF Lasting
  <2>6. Contract!Remember(r, k)
    BY <1>8, <2>1, <2>2, <2>3, <2>4, <2>5 DEF Remember, Contract!Remember, lineVars, Verdict
  <2> QED  BY <2>2, <2>6 DEF Contract!CNext
<1>9. CASE Remembered(r)
  <2>1. Outcome[r] = "asked" /\ Outcome' = [Outcome EXCEPT ![r] = "allowed"]
    BY <1>9, <1>m, <1>o, ClassOf DEF Remembered, Goto, Fresh, Final, Agreed, PCs
  <2>2. Verdict[r] \in {"session", "always"}
    BY <1>9, <1>n, <1>i, <1>v DEF Remembered, Thread, Agreed
  <2>3. command[r] \subseteq approved \cup permanent
    BY <1>9, <1>n DEF Remembered, Needs, Agreed
  <2> QED  BY <1>9, <2>1, <2>2, <2>3, AllowStep DEF Remembered, Contract!Consent, lineVars, trustVars
<1>10. CASE LoadConfig(r) \/ OpenConfig(r) \/ WriteConfig(r)
  <2>1. /\ pc[r] \in Agreed /\ UNCHANGED <<command, lineVars, trustVars>>
        /\ \E where \in Agreed : pc' = [pc EXCEPT ![r] = where]
    BY <1>10, Zenon DEF LoadConfig, OpenConfig, WriteConfig, Goto, Agreed
  <2>2. Outcome' = Outcome
    BY <2>1, <1>m, <1>o, ClassOf DEF Agreed, Fresh, Final, PCs
  <2> QED  BY <2>1, <2>2, Unseen DEF lineVars, trustVars
<1> QED  BY <1>1, <1>2, <1>3, <1>4, <1>5, <1>6, <1>7, <1>8, <1>9, <1>10 DEF ThreadStep

\* Locks, events, time-outs and files implement the promise made to the user: a command
\* runs only on its own user's yes, on trust, or under /yolo, and what a yes promised
\* to remember is remembered first (approval.py:597-864).
THEOREM Implements == Spec => ImplementsContract
<1>1. Init => TypeOK /\ LineInv /\ TrustInv
  BY TypeInit, LineInit, TrustInit
<1>2. Init => Contract!CInit
  <2> SUFFICES ASSUME Init PROVE Contract!CInit
    OBVIOUS
  <2>1. Range(<<>>) = {}
    BY DEF Range
  <2>2. Verdict = [r \in Requests |-> "none"]
    BY <2>1 DEF Init, Verdict
  <2>3. Outcome = [r \in Requests |-> "new"]
    <3>1. \A r \in Requests : Outcome[r] = "new"
      <4>1. \A r \in Requests : pc[r] = "idle"
        BY DEF Init
      <4> QED  BY <4>1 DEF Outcome, Final
    <3> QED  BY <3>1, Zenon DEF Outcome
  <2>4. command \in [Requests -> SUBSET Keys]
    BY ApprovalAssumption DEF Init
  <2> QED  BY <2>2, <2>3, <2>4 DEF Init, Contract!CInit
<1>3. TypeOK /\ LineInv /\ TrustInv /\ [Next]_vars
        => [Contract!CNext]_(Contract!cvars) /\ (TypeOK /\ LineInv /\ TrustInv)'
  <2> SUFFICES ASSUME TypeOK, LineInv, TrustInv, [Next]_vars
               PROVE  [Contract!CNext]_(Contract!cvars) /\ (TypeOK /\ LineInv /\ TrustInv)'
    OBVIOUS
  <2>1. (TypeOK /\ LineInv /\ TrustInv)'
    BY TypeStep, LineStep, NeedsStep, SavedStep DEF TrustInv
  <2>2. CASE UNCHANGED vars
    BY <2>1, <2>2, Unseen DEF vars, Outcome
  <2>3. CASE Next
    BY <2>1, <2>3, SessionStep, ThreadContract DEF Next
  <2> QED  BY <2>1, <2>2, <2>3
<1> QED  BY <1>1, <1>2, <1>3, PTL DEF Spec, ImplementsContract, Contract!CSpec
=============================================================================
