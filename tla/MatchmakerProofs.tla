--------------------------- MODULE MatchmakerProofs ----------------------------
(***************************************************************************)
(* What the methods of the matchmaking engine leave of its record, for     *)
(* every set of users, every rating and every limit: the lemmas shared by  *)
(* the proofs about the engine alone and about the hub that owns it.       *)
(***************************************************************************)
EXTENDS Matchmaker, SequenceTheorems, FiniteSetTheorems, TLAPS

\* The invariant of the engine, as a predicate of its record.
Waits(q, u) == \E i \in 1..Len(q) : q[i].userId = u
Distinct(q) == \A i, j \in 1..Len(q) : q[i].userId = q[j].userId => i = j
Apart(q) == \A i, j \in 1..Len(q) : i # j => ~Compatible(q[i].userId, q[j].userId)

Consistent(m) ==
  /\ m \in MatchmakerState
  /\ Distinct(m.queue)
  /\ Apart(m.queue)
  /\ \A u \in Users : m.status[u] = "queued" <=> Waits(m.queue, u)

-----------------------------------------------------------------------------
(* Least elements, and what removing or adding an entry of a queue leaves. *)

LEMMA LeastNatural ==
  ASSUME NEW T, T \subseteq Nat, T # {}
  PROVE  \E x \in T : \A y \in T : x <= y
<1> DEFINE Below(n) == 0..(n - 1)
           U == {Below(n) : n \in T}
<1>1. U \subseteq FiniteSubsetsOf(Nat) /\ U # {}
  <2>1. ASSUME NEW n \in T PROVE Below(n) \subseteq Nat /\ IsFiniteSet(Below(n))
    <3>1. n \in Nat /\ 0 \in Int /\ n - 1 \in Int
      OBVIOUS
    <3>. QED
      BY <3>1, FS_Interval
  <2>. HIDE DEF Below
  <2>. QED
    BY <2>1 DEF FiniteSubsetsOf
<1>2. PICK X \in U : \A Y \in U : ~ (<<Y, X>> \in StrictSubsetOrdering(Nat))
  <2>. HIDE DEF U
  <2>. QED
    BY <1>1, FS_StrictSubsetOrderingWellFounded, WFMin
<1>3. PICK x \in T : X = Below(x)
  OBVIOUS
<1>4. ASSUME NEW y \in T, y < x
      PROVE  FALSE
  <2>1. x \in Nat /\ y \in Nat
    OBVIOUS
  <2>2. Below(y) \subseteq Below(x) /\ y \in Below(x) /\ y \notin Below(y)
    BY <2>1, <1>4
  <2>3. Below(x) \subseteq Nat /\ Below(y) \subseteq Nat
    BY <2>1
  <2>4. Below(y) \in U
    OBVIOUS
  <2>. HIDE DEF U, Below
  <2>5. <<Below(y), Below(x)>> \in StrictSubsetOrdering(Nat)
    BY <2>2, <2>3 DEF StrictSubsetOrdering
  <2>. QED
    BY <2>4, <2>5, <1>2, <1>3
<1>. QED
  BY <1>4

LEMMA RemoveAtProperties ==
  ASSUME NEW S, NEW s \in Seq(S), NEW i \in 1..Len(s)
  PROVE  /\ RemoveAt(s, i) \in Seq(S)
         /\ Len(RemoveAt(s, i)) = Len(s) - 1
         /\ \A k \in 1..(Len(s) - 1) :
              RemoveAt(s, i)[k] = IF k < i THEN s[k] ELSE s[k + 1]
<1> DEFINE a == SubSeq(s, 1, i - 1)
           b == SubSeq(s, i + 1, Len(s))
<1>0. Len(s) \in Nat /\ i \in Nat /\ 1 <= i /\ i <= Len(s) /\ \A k \in 1..Len(s) : s[k] \in S
  BY LenProperties, ElementOfSeq
<1>1. a \in Seq(S) /\ Len(a) = i - 1 /\ \A k \in 1..(i - 1) : a[k] = s[k]
  <2>1. \A k \in 1..(i - 1) : s[k] \in S
    BY <1>0
  <2>2. 1 \in Int /\ i - 1 \in Int
    BY <1>0
  <2>3. /\ a \in Seq(S)
        /\ Len(a) = IF 1 <= i - 1 THEN (i - 1) - 1 + 1 ELSE 0
        /\ \A k \in 1..((i - 1) - 1 + 1) : a[k] = s[1 + k - 1]
    BY <2>1, <2>2, SubSeqProperties
  <2>. HIDE DEF a
  <2>. QED
    BY <2>3, <1>0
<1>2. b \in Seq(S) /\ Len(b) = Len(s) - i /\ \A k \in 1..(Len(s) - i) : b[k] = s[i + k]
  <2>1. \A k \in (i + 1)..Len(s) : s[k] \in S
    BY <1>0
  <2>2. i + 1 \in Int /\ Len(s) \in Int
    BY <1>0
  <2>3. /\ b \in Seq(S)
        /\ Len(b) = IF i + 1 <= Len(s) THEN Len(s) - (i + 1) + 1 ELSE 0
        /\ \A k \in 1..(Len(s) - (i + 1) + 1) : b[k] = s[(i + 1) + k - 1]
    BY <2>1, <2>2, SubSeqProperties
  <2>. HIDE DEF b
  <2>. QED
    BY <2>3, <1>0
<1>3. RemoveAt(s, i) = a \o b
  BY DEF RemoveAt
<1>4. /\ a \o b \in Seq(S)
      /\ Len(a \o b) = Len(a) + Len(b)
      /\ \A k \in 1..(Len(a) + Len(b)) : (a \o b)[k] = IF k <= Len(a) THEN a[k] ELSE b[k - Len(a)]
  BY <1>1, <1>2, ConcatProperties
<1>. HIDE DEF a, b
<1>5. ASSUME NEW k \in 1..(Len(s) - 1)
      PROVE  (a \o b)[k] = IF k < i THEN s[k] ELSE s[k + 1]
  <2>1. CASE k < i
    BY <2>1, <1>0, <1>1, <1>2, <1>4
  <2>2. CASE ~(k < i)
    <3>1. (a \o b)[k] = b[k - Len(a)] /\ k - Len(a) \in 1..(Len(s) - i)
      BY <2>2, <1>0, <1>1, <1>2, <1>4
    <3>2. k - Len(a) = k - (i - 1) /\ i + (k - (i - 1)) = k + 1
      BY <1>0, <1>1
    <3>. QED
      BY <3>1, <3>2, <2>2, <1>2
  <2>. QED
    BY <2>1, <2>2
<1>. QED
  BY <1>0, <1>1, <1>2, <1>3, <1>4, <1>5

LEMMA RemoveEntry ==
  ASSUME NEW q \in Seq(QueueEntry), NEW i \in 1..Len(q), Distinct(q)
  PROVE  /\ RemoveAt(q, i) \in Seq(QueueEntry)
         /\ Distinct(RemoveAt(q, i))
         /\ Apart(q) => Apart(RemoveAt(q, i))
         /\ \A u : Waits(RemoveAt(q, i), u) <=> Waits(q, u) /\ u # q[i].userId
<1> DEFINE r == RemoveAt(q, i)
           Old(k) == IF k < i THEN k ELSE k + 1
<1>0. Len(q) \in Nat /\ i \in Nat /\ 1 <= i /\ i <= Len(q)
  BY LenProperties
<1>1. r \in Seq(QueueEntry) /\ Len(r) = Len(q) - 1
  BY RemoveAtProperties
<1>2. \A k \in 1..Len(r) : r[k] = q[Old(k)] /\ Old(k) \in 1..Len(q) /\ Old(k) # i
  <2>1. \A k \in 1..(Len(q) - 1) : r[k] = IF k < i THEN q[k] ELSE q[k + 1]
    BY RemoveAtProperties
  <2>. HIDE DEF r
  <2>. QED
    BY <1>0, <1>1, <2>1
<1>3. \A j, k \in 1..Len(r) : Old(j) = Old(k) => j = k
  BY <1>0, <1>1
<1>4. \A j \in 1..Len(q) : j # i => \E k \in 1..Len(r) : Old(k) = j
  <2> SUFFICES ASSUME NEW j \in 1..Len(q), j # i
               PROVE  \E k \in 1..Len(r) : Old(k) = j
    OBVIOUS
  <2>1. CASE j < i
    <3>1. j \in 1..Len(r) /\ Old(j) = j
      BY <2>1, <1>0, <1>1
    <3>. QED BY <3>1
  <2>2. CASE j > i
    <3>1. j - 1 \in 1..Len(r) /\ Old(j - 1) = j
      BY <2>2, <1>0, <1>1
    <3>. QED BY <3>1
  <2>. QED BY <2>1, <2>2, <1>0
<1>. HIDE DEF r, Old
<1>5. Distinct(r)
  BY <1>2, <1>3 DEF Distinct
<1>6. Apart(q) => Apart(r)
  BY <1>2, <1>3 DEF Apart
<1>7. ASSUME NEW u PROVE Waits(r, u) <=> Waits(q, u) /\ u # q[i].userId
  <2>1. Waits(r, u) => Waits(q, u) /\ u # q[i].userId
    BY <1>2 DEF Waits, Distinct
  <2>2. Waits(q, u) /\ u # q[i].userId => Waits(r, u)
    BY <1>2, <1>4 DEF Waits
  <2>. QED BY <2>1, <2>2
<1>. QED
  BY <1>1, <1>5, <1>6, <1>7 DEF r

LEMMA AppendEntry ==
  ASSUME NEW q \in Seq(QueueEntry), NEW e \in QueueEntry, Distinct(q), Apart(q),
         \A i \in 1..Len(q) : ~Compatible(q[i].userId, e.userId),
         ~Waits(q, e.userId)
  PROVE  /\ Append(q, e) \in Seq(QueueEntry)
         /\ Distinct(Append(q, e))
         /\ Apart(Append(q, e))
         /\ \A u : Waits(Append(q, e), u) <=> Waits(q, u) \/ u = e.userId
<1> DEFINE r == Append(q, e)
<1>0. Len(q) \in Nat
  BY LenProperties
<1>1. /\ r \in Seq(QueueEntry) /\ Len(r) = Len(q) + 1
      /\ \A i \in 1..Len(q) : r[i] = q[i]
      /\ r[Len(q) + 1] = e
  BY AppendProperties
<1>2. /\ \A i \in 1..Len(r) : i = Len(q) + 1 \/ i \in 1..Len(q)
      /\ \A i \in 1..Len(q) : i # Len(q) + 1 /\ i \in 1..Len(r)
      /\ Len(q) + 1 \in 1..Len(r)
  BY <1>0, <1>1
<1>3. e.userId \in Users /\ \A i \in 1..Len(q) : q[i].userId \in Users
  <2>1. \A i \in 1..Len(q) : q[i] \in QueueEntry
    BY ElementOfSeq
  <2>. QED
    BY <2>1 DEF QueueEntry
<1>4. \A u, v \in Users : Compatible(u, v) <=> Compatible(v, u)
  BY MatchmakerAssumption DEF Compatible, SameKind, Difference
<1>. HIDE DEF r
<1>5. Distinct(r)
  BY <1>1, <1>2 DEF Distinct, Waits
<1>6. Apart(r)
  BY <1>1, <1>2, <1>3, <1>4 DEF Apart
<1>7. \A u : Waits(r, u) <=> Waits(q, u) \/ u = e.userId
  BY <1>1, <1>2 DEF Waits
<1>. QED
  BY <1>1, <1>5, <1>6, <1>7 DEF r

-----------------------------------------------------------------------------
(* Queues and candidates.                                                  *)

\* In a consistent record a queued user has exactly one place in the queue
\* (matchmaker.ts:134-140), and its removal takes out that user only.
LEMMA QueuedPosition ==
  ASSUME NEW m, Consistent(m), NEW u \in Users, m.status[u] = "queued"
  PROVE  /\ Position(m, u) \in 1..Len(m.queue)
         /\ m.queue[Position(m, u)].userId = u
         /\ Position(m, u) # 0
         /\ Unqueued(m, u) = RemoveAt(m.queue, Position(m, u))
<1>1. m.queue \in Seq(QueueEntry) /\ DOMAIN m.queue = 1..Len(m.queue) /\ Len(m.queue) \in Nat
  BY LenProperties DEF Consistent, MatchmakerState
<1>2. PICK i \in 1..Len(m.queue) : m.queue[i].userId = u
  BY DEF Consistent, Waits
<1>3. Positions(m, u) = {i}
  BY <1>1, <1>2 DEF Consistent, Distinct, Positions
<1>4. Position(m, u) = i
  BY <1>1, <1>3 DEF Position
<1>. QED
  BY <1>1, <1>2, <1>4 DEF Unqueued

\* findClosestOpponent returns a candidate, and none is closer, or as close and
\* before it (matchmaker.ts:167-181).
LEMMA ClosestIsCandidate ==
  ASSUME NEW m \in MatchmakerState, NEW u \in Users, Candidates(m, u) # {}
  PROVE  /\ findClosestOpponent(m, u) \in Candidates(m, u)
         /\ \A j \in Candidates(m, u) :
              \/ Difference(OpponentOf(m, u), u) < Difference(m.queue[j].userId, u)
              \/ /\ Difference(OpponentOf(m, u), u) = Difference(m.queue[j].userId, u)
                 /\ findClosestOpponent(m, u) <= j
<1> DEFINE C == Candidates(m, u)
           Gap(i) == Difference(m.queue[i].userId, u)
           Closest(i) == \A j \in C : Gap(i) < Gap(j) \/ (Gap(i) = Gap(j) /\ i <= j)
           Near == {i \in C : \A j \in C : Gap(i) <= Gap(j)}
<1>1. DOMAIN m.queue = 1..Len(m.queue) /\ Len(m.queue) \in Nat
      /\ \A i \in 1..Len(m.queue) : m.queue[i].userId \in Users
  <2>1. m.queue \in Seq(QueueEntry)
    BY DEF MatchmakerState
  <2>2. \A i \in 1..Len(m.queue) : m.queue[i] \in QueueEntry
    BY <2>1, ElementOfSeq
  <2>. QED
    BY <2>1, <2>2, LenProperties DEF QueueEntry
<1>2. C \subseteq Nat /\ C \subseteq 1..Len(m.queue)
  BY <1>1 DEF Candidates
<1>3. \A i \in C : Gap(i) \in Nat
  BY <1>1, <1>2, MatchmakerAssumption DEF Difference
<1>4. C # {}
  OBVIOUS
<1>5. findClosestOpponent(m, u) = CHOOSE i \in C : Closest(i)
  BY DEF findClosestOpponent
<1>6. Near # {}
  <2> DEFINE Gaps == {Gap(i) : i \in C}
  <2>. HIDE DEF C, Gap
  <2>1. Gaps \subseteq Nat /\ Gaps # {}
    BY <1>3, <1>4
  <2>2. PICK g \in Gaps : \A h \in Gaps : g <= h
    <3>. HIDE DEF Gaps
    <3>. QED
      BY <2>1, LeastNatural
  <2>3. PICK i \in C : g = Gap(i)
    OBVIOUS
  <2>. QED
    BY <2>2, <2>3
<1>. HIDE DEF C, Gap
<1>7. \E i \in C : Closest(i)
  <2>1. Near \subseteq Nat
    BY <1>2
  <2>2. PICK i \in Near : \A j \in Near : i <= j
    <3>. HIDE DEF Near
    <3>. QED
      BY <1>6, <2>1, LeastNatural
  <2>3. ASSUME NEW j \in C
        PROVE  Gap(i) < Gap(j) \/ (Gap(i) = Gap(j) /\ i <= j)
    <3>1. Gap(i) \in Nat /\ Gap(j) \in Nat /\ Gap(i) <= Gap(j)
      BY <1>3
    <3>2. CASE Gap(i) = Gap(j)
      <4>1. j \in Near
        BY <3>2
      <4>. QED
        BY <4>1, <3>2, <2>2
    <3>. QED
      BY <3>1, <3>2
  <2>. QED
    BY <2>2, <2>3
<1>8. findClosestOpponent(m, u) \in C /\ Closest(findClosestOpponent(m, u))
  <2>. HIDE DEF Closest
  <2>. QED
    BY <1>5, <1>7
<1>. QED
  BY <1>8 DEF C, Gap, OpponentOf

\* A user that is not waiting leaves the queue untouched by Unqueued
\* (matchmaker.ts:113-117, 134-140).
LEMMA NotQueuedPosition ==
  ASSUME NEW m, Consistent(m), NEW u \in Users, m.status[u] # "queued"
  PROVE  Position(m, u) = 0 /\ Unqueued(m, u) = m.queue
<1>1. DOMAIN m.queue = 1..Len(m.queue)
  BY LenProperties DEF Consistent, MatchmakerState
<1>2. Positions(m, u) = {}
  BY <1>1 DEF Positions, Consistent, Waits
<1>. QED
  BY <1>2 DEF Position, Unqueued

-----------------------------------------------------------------------------
(* Every method leaves a consistent record.                                *)

LEMMA EnqueueConsistent ==
  ASSUME NEW m, Consistent(m), NEW u \in Users, NEW nowMs \in Nat
  PROVE  Consistent(enqueue(m, u, nowMs))
<1> DEFINE f == findClosestOpponent(m, u)
           v == OpponentOf(m, u)
<1>0. /\ m \in MatchmakerState /\ m.queue \in Seq(QueueEntry) /\ m.status \in [Users -> Statuses]
      /\ m = [queue |-> m.queue, status |-> m.status]
      /\ DOMAIN m.queue = 1..Len(m.queue)
      /\ \A i \in 1..Len(m.queue) : m.queue[i] \in QueueEntry /\ m.queue[i].userId \in Users
  <2>1. m.queue \in Seq(QueueEntry)
    BY DEF Consistent, MatchmakerState
  <2>2. \A i \in 1..Len(m.queue) : m.queue[i] \in QueueEntry
    BY <2>1, ElementOfSeq
  <2>. QED
    BY <2>1, <2>2, LenProperties DEF Consistent, MatchmakerState, QueueEntry
<1>1. CASE IsDuplicate(m, u)
  <2>1. enqueue(m, u, nowMs) = m
    BY <1>1 DEF enqueue, FindsOpponent
  <2>. QED
    BY <2>1
<1>2. CASE FindsOpponent(m, u)
  <2>1. f \in 1..Len(m.queue) /\ v = m.queue[f].userId /\ v \in Users
    BY <1>0, <1>2, ClosestIsCandidate DEF FindsOpponent, Candidates, OpponentOf
  <2>2. m.status[u] # "queued" /\ m.status[v] = "queued" /\ u # v
    <3>1. m.status[u] = "none"
      BY <1>2 DEF FindsOpponent, IsDuplicate
    <3>2. Waits(m.queue, v)
      BY <2>1 DEF Waits
    <3>. QED
      BY <3>1, <3>2, <2>1 DEF Consistent
  <2>3. enqueue(m, u, nowMs) =
          [queue |-> RemoveAt(m.queue, f),
           status |-> [m.status EXCEPT ![v] = "matched", ![u] = "matched"]]
    BY <1>2 DEF enqueue, FindsOpponent
  <2>. HIDE DEF f, v
  <2>4. /\ RemoveAt(m.queue, f) \in Seq(QueueEntry)
        /\ Distinct(RemoveAt(m.queue, f)) /\ Apart(RemoveAt(m.queue, f))
        /\ \A w : Waits(RemoveAt(m.queue, f), w) <=> Waits(m.queue, w) /\ w # v
    BY <1>0, <2>1, RemoveEntry DEF Consistent
  <2>5. /\ [m.status EXCEPT ![v] = "matched", ![u] = "matched"] \in [Users -> Statuses]
        /\ \A w \in Users : [m.status EXCEPT ![v] = "matched", ![u] = "matched"][w] =
                              IF w \in {u, v} THEN "matched" ELSE m.status[w]
    BY <1>0, <2>1 DEF Statuses
  <2>. QED
    BY <1>0, <2>2, <2>3, <2>4, <2>5 DEF Consistent, MatchmakerState
<1>3. CASE ~IsDuplicate(m, u) /\ ~FindsOpponent(m, u)
  <2> DEFINE e == [userId |-> u, queuedAtMs |-> nowMs]
  <2>1. enqueue(m, u, nowMs) =
          [queue |-> Append(m.queue, e), status |-> [m.status EXCEPT ![u] = "queued"]]
    BY <1>3 DEF enqueue
  <2>2. e \in QueueEntry /\ e.userId = u
    BY DEF QueueEntry
  <2>3. \A i \in 1..Len(m.queue) : ~Compatible(m.queue[i].userId, u)
    BY <1>0, <1>3 DEF FindsOpponent, Candidates
  <2>4. ~Waits(m.queue, u)
    BY <1>3 DEF IsDuplicate, Consistent
  <2>. HIDE DEF e
  <2>5. /\ Append(m.queue, e) \in Seq(QueueEntry)
        /\ Distinct(Append(m.queue, e)) /\ Apart(Append(m.queue, e))
        /\ \A w : Waits(Append(m.queue, e), w) <=> Waits(m.queue, w) \/ w = u
    BY <1>0, <2>2, <2>3, <2>4, AppendEntry DEF Consistent
  <2>6. /\ [m.status EXCEPT ![u] = "queued"] \in [Users -> Statuses]
        /\ \A w \in Users : [m.status EXCEPT ![u] = "queued"][w] =
                              IF w = u THEN "queued" ELSE m.status[w]
    BY <1>0 DEF Statuses
  <2>. QED
    BY <1>0, <2>1, <2>5, <2>6 DEF Consistent, MatchmakerState
<1>. QED
  BY <1>1, <1>2, <1>3

\* Taking a user out of the queue, whatever other status it gets.
LEMMA UnqueuedConsistent ==
  ASSUME NEW m, Consistent(m), NEW u \in Users, NEW s \in Statuses \ {"queued"}
  PROVE  Consistent([queue |-> Unqueued(m, u), status |-> [m.status EXCEPT ![u] = s]])
<1>0. /\ m.queue \in Seq(QueueEntry) /\ m.status \in [Users -> Statuses]
  BY DEF Consistent, MatchmakerState
<1>1. /\ [m.status EXCEPT ![u] = s] \in [Users -> Statuses]
      /\ \A w \in Users : [m.status EXCEPT ![u] = s][w] = IF w = u THEN s ELSE m.status[w]
  BY <1>0
<1>2. /\ Unqueued(m, u) \in Seq(QueueEntry)
      /\ Distinct(Unqueued(m, u)) /\ Apart(Unqueued(m, u))
      /\ \A w \in Users : Waits(Unqueued(m, u), w) <=> Waits(m.queue, w) /\ w # u
  <2>1. CASE m.status[u] = "queued"
    <3>1. /\ Position(m, u) \in 1..Len(m.queue) /\ m.queue[Position(m, u)].userId = u
          /\ Unqueued(m, u) = RemoveAt(m.queue, Position(m, u))
      BY <2>1, QueuedPosition
    <3>. QED
      BY <1>0, <3>1, RemoveEntry DEF Consistent
  <2>2. CASE m.status[u] # "queued"
    BY <1>0, <2>2, NotQueuedPosition DEF Consistent
  <2>. QED
    BY <2>1, <2>2
<1>. QED
  BY <1>1, <1>2 DEF Consistent, MatchmakerState

\* In a consistent record a queued user is always found in the queue, so the
\* repair branch of claimAiFallback never runs (matchmaker.ts:108-116).
LEMMA ClaimConsistent ==
  ASSUME NEW m, Consistent(m), NEW u \in Users, NEW nowMs \in Nat
  PROVE  Consistent(claimAiFallback(m, u, nowMs))
<1>1. CASE claimResult(m, u, nowMs) = "ready"
  BY <1>1, UnqueuedConsistent DEF claimAiFallback, Statuses
<1>2. ~(claimResult(m, u, nowMs) = "unavailable" /\ m.status[u] = "queued")
  BY QueuedPosition DEF claimResult
<1>3. CASE claimResult(m, u, nowMs) # "ready"
  BY <1>2, <1>3 DEF claimAiFallback
<1>. QED
  BY <1>1, <1>3

LEMMA LeaveConsistent ==
  ASSUME NEW m, Consistent(m), NEW u \in Users
  PROVE  Consistent(leaveQueue(m, u)) /\ Consistent(release(m, u))
<1>1. Consistent(leaveQueue(m, u))
  BY UnqueuedConsistent DEF leaveQueue, Statuses
<1>2. release(m, u) = [queue |-> Unqueued(m, u), status |-> [m.status EXCEPT ![u] = "none"]]
  BY NotQueuedPosition DEF release
<1>. QED
  BY <1>1, <1>2, UnqueuedConsistent DEF Statuses
=============================================================================
