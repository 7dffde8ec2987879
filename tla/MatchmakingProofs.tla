--------------------------- MODULE MatchmakingProofs ---------------------------
(***************************************************************************)
(* What the matchmaking engine promises for every set of users, every      *)
(* rating and every limit, from what MatchmakerProofs says of its methods. *)
(***************************************************************************)
EXTENDS Matchmaking, MatchmakerProofs

IInv == Consistent(mm) /\ now \in 0..MaxClock

-----------------------------------------------------------------------------
(* The theorems.                                                           *)

LEMMA InitIInv == Init => IInv
<1> SUFFICES ASSUME Init
             PROVE  IInv
  OBVIOUS
<1>1. /\ mm.queue = <<>> /\ mm.status = [u \in Users |-> "none"]
      /\ mm = [queue |-> mm.queue, status |-> mm.status]
  BY DEF Init, NewMatchmaker
<1>2. mm.queue \in Seq(QueueEntry) /\ Len(mm.queue) = 0
  BY <1>1, EmptySeq
<1>3. 1..Len(mm.queue) = {}
  BY <1>2
<1>4. mm.status \in [Users -> Statuses] /\ \A u \in Users : mm.status[u] = "none"
  BY <1>1 DEF Statuses
<1>5. mm \in MatchmakerState
  BY <1>1, <1>2, <1>4 DEF MatchmakerState
<1>6. Distinct(mm.queue) /\ Apart(mm.queue) /\ \A u \in Users : ~Waits(mm.queue, u)
  BY <1>3 DEF Distinct, Apart, Waits
<1>7. now \in 0..MaxClock
  BY ClockAssumption DEF Init
<1>. QED
  BY <1>4, <1>5, <1>6, <1>7 DEF IInv, Consistent

LEMMA NextIInv == IInv /\ [Next]_vars => IInv'
<1> SUFFICES ASSUME IInv, [Next]_vars
             PROVE  IInv'
  OBVIOUS
<1>0. now \in Nat
  BY ClockAssumption DEF IInv
<1>1. ASSUME NEW u \in Users, Enqueue(u)
      PROVE  IInv'
  BY <1>0, <1>1, EnqueueConsistent DEF IInv, Enqueue
<1>2. ASSUME NEW u \in Users, ClaimAiFallback(u)
      PROVE  IInv'
  BY <1>0, <1>2, ClaimConsistent DEF IInv, ClaimAiFallback
<1>3. ASSUME NEW u \in Users, LeaveQueue(u) \/ Release(u)
      PROVE  IInv'
  BY <1>3, LeaveConsistent DEF IInv, LeaveQueue, Release
<1>4. CASE Elapse
  <2>1. now' \in 0..MaxClock
    BY <1>4, ClockAssumption DEF IInv, Elapse
  <2>. QED
    BY <1>4, <2>1 DEF IInv, Elapse
<1>5. CASE UNCHANGED vars
  BY <1>5 DEF IInv, vars
<1>. QED
  BY <1>1, <1>2, <1>3, <1>4, <1>5 DEF Next

\* The inductive invariant: the record stays consistent.
LEMMA Invariance == Spec => []IInv
<1>. QED
  BY InitIInv, NextIInv, PTL DEF Spec

\* The queue holds entries and every user has one of the three statuses.
THEOREM TypeCorrect == Spec => []TypeOK
<1>1. IInv => TypeOK
  BY DEF IInv, Consistent, TypeOK
<1>. QED
  BY <1>1, Invariance, PTL

\* The queue and the statuses name the same users, each once.
THEOREM QueueMatchesStatusAlways == Spec => []QueueMatchesStatus
<1>1. IInv => QueueMatchesStatus
  <2> SUFFICES ASSUME IInv
               PROVE  QueueMatchesStatus
    OBVIOUS
  <2>1. DOMAIN mm.queue = 1..Len(mm.queue)
    BY LenProperties DEF IInv, Consistent, MatchmakerState
  <2>. QED
    BY <2>1 DEF IInv, Consistent, Distinct, Waits, Positions, QueueMatchesStatus
<1>. QED
  BY <1>1, Invariance, PTL

\* No two waiting users could play each other.
THEOREM NoCompatiblePairWaitsAlways == Spec => []NoCompatiblePairWaits
<1>1. IInv => NoCompatiblePairWaits
  <2> SUFFICES ASSUME IInv
               PROVE  NoCompatiblePairWaits
    OBVIOUS
  <2>1. DOMAIN mm.queue = 1..Len(mm.queue)
    BY LenProperties DEF IInv, Consistent, MatchmakerState
  <2>. QED
    BY <2>1 DEF IInv, Consistent, Apart, NoCompatiblePairWaits
<1>. QED
  BY <1>1, Invariance, PTL

\* Only release takes a match back.
THEOREM MatchSurvivesLeavingAlways == Spec => MatchSurvivesLeaving
<1> DEFINE Survives == \A u \in Users :
             mm.status[u] = "matched" /\ mm'.status[u] # "matched" => Release(u) /\ ~LeaveQueue(u)
<1>1. ASSUME IInv, [Next]_vars
      PROVE  [Survives]_vars
  <2> SUFFICES ASSUME Next, NEW u \in Users, mm.status[u] = "matched", mm'.status[u] # "matched"
               PROVE  Release(u) /\ ~LeaveQueue(u)
    BY <1>1
  <2>0. mm.status \in [Users -> Statuses] /\ Consistent(mm)
    BY <1>1 DEF IInv, Consistent, MatchmakerState
  <2>1. ASSUME NEW w \in Users, Enqueue(w)
        PROVE  FALSE
    <3>1. CASE IsDuplicate(mm, w) \/ ~FindsOpponent(mm, w)
      BY <2>0, <2>1, <3>1 DEF Enqueue, enqueue, IsDuplicate
    <3>2. CASE FindsOpponent(mm, w)
      <4>1. mm'.status = [mm.status EXCEPT ![OpponentOf(mm, w)] = "matched", ![w] = "matched"]
        BY <2>1, <3>2 DEF Enqueue, enqueue, FindsOpponent
      <4>. QED
        BY <4>1, <2>0
    <3>. QED
      BY <3>1, <3>2
  <2>2. ASSUME NEW w \in Users, ClaimAiFallback(w)
        PROVE  FALSE
    BY <2>0, <2>2 DEF ClaimAiFallback, claimAiFallback, claimResult
  <2>3. ASSUME NEW w \in Users, LeaveQueue(w)
        PROVE  FALSE
    BY <2>0, <2>3 DEF LeaveQueue, leaveQueue
  <2>4. ASSUME NEW w \in Users, Release(w)
        PROVE  Release(u)
    BY <2>0, <2>4 DEF Release, release
  <2>5. ~Elapse
    BY DEF Elapse
  <2>6. ~LeaveQueue(u)
    BY DEF LeaveQueue, leaveQueue
  <2>. QED
    BY <2>1, <2>2, <2>3, <2>4, <2>5, <2>6 DEF Next
<1>. QED
  BY <1>1, Invariance, PTL DEF Spec, MatchSurvivesLeaving

\* A match at once is made with the closest waiting user of the same kind,
\* who is within the limit, and changes nobody else's status.
THEOREM MatchedWithClosestAlways == Spec => MatchedWithClosest
<1> DEFINE Chosen(u, v) ==
             /\ {w \in Users \ {u} : mm'.status[w] # mm.status[w]} = {v}
             /\ mm.status[v] = "queued" /\ mm'.status[v] = "matched"
             /\ SameKind(u, v) /\ Difference(u, v) <= MAX_RATING_DIFFERENCE
             /\ \A i, j \in DOMAIN mm.queue :
                  LET w == mm.queue[j].userId
                  IN mm.queue[i].userId = v /\ SameKind(u, w) =>
                       \/ Difference(u, v) < Difference(u, w)
                       \/ Difference(u, v) = Difference(u, w) /\ i <= j
           Matches == \A u \in Users :
             mm.status[u] = "none" /\ mm'.status[u] = "matched" => \E v \in Users : Chosen(u, v)
<1>1. ASSUME IInv, [Next]_vars
      PROVE  [Matches]_vars
  <2> SUFFICES ASSUME Next, NEW u \in Users, mm.status[u] = "none", mm'.status[u] = "matched"
               PROVE  \E v \in Users : Chosen(u, v)
    BY <1>1
  <2>0. /\ mm.status \in [Users -> Statuses] /\ Consistent(mm) /\ mm \in MatchmakerState
        /\ DOMAIN mm.queue = 1..Len(mm.queue)
        /\ \A i \in 1..Len(mm.queue) : mm.queue[i].userId \in Users
    <3>1. \A i \in 1..Len(mm.queue) : mm.queue[i] \in QueueEntry
      BY <1>1, ElementOfSeq DEF IInv, Consistent, MatchmakerState
    <3>. QED
      BY <1>1, <3>1, LenProperties DEF IInv, Consistent, MatchmakerState, QueueEntry
  <2>1. ASSUME NEW w \in Users, ClaimAiFallback(w) \/ LeaveQueue(w) \/ Release(w)
        PROVE  FALSE
    <3>1. CASE ClaimAiFallback(w)
      BY <2>0, <3>1 DEF ClaimAiFallback, claimAiFallback, claimResult
    <3>2. CASE LeaveQueue(w)
      BY <2>0, <3>2 DEF LeaveQueue, leaveQueue
    <3>3. CASE Release(w)
      BY <2>0, <3>3 DEF Release, release
    <3>. QED
      BY <2>1, <3>1, <3>2, <3>3
  <2>2. ~Elapse
    BY DEF Elapse
  <2>3. ASSUME NEW w \in Users, Enqueue(w)
        PROVE  \E v \in Users : Chosen(u, v)
    <3> DEFINE f == findClosestOpponent(mm, w)
               v == OpponentOf(mm, w)
    <3>1. FindsOpponent(mm, w)
      BY <2>0, <2>3 DEF Enqueue, enqueue, IsDuplicate, FindsOpponent
    <3>2. /\ f \in 1..Len(mm.queue) /\ v = mm.queue[f].userId /\ v \in Users
          /\ Compatible(v, w)
          /\ \A j \in Candidates(mm, w) :
               \/ Difference(v, w) < Difference(mm.queue[j].userId, w)
               \/ Difference(v, w) = Difference(mm.queue[j].userId, w) /\ f <= j
      <4>1. f \in Candidates(mm, w)
            /\ \A j \in Candidates(mm, w) :
                 \/ Difference(v, w) < Difference(mm.queue[j].userId, w)
                 \/ Difference(v, w) = Difference(mm.queue[j].userId, w) /\ f <= j
        BY <2>0, <3>1, ClosestIsCandidate DEF FindsOpponent
      <4>. QED
        BY <4>1, <2>0 DEF Candidates, OpponentOf
    <3>. HIDE DEF f, v
    <3>3. mm'.status = [mm.status EXCEPT ![v] = "matched", ![w] = "matched"]
      BY <2>3, <3>1 DEF Enqueue, enqueue, FindsOpponent, v
    <3>4. mm.status[v] = "queued" /\ mm.status[w] = "none"
      <4>1. Waits(mm.queue, v)
        BY <3>2 DEF Waits
      <4>. QED
        BY <4>1, <2>0, <3>1, <3>2 DEF Consistent, FindsOpponent, IsDuplicate
    <3>5. u = w /\ u # v
      BY <2>0, <3>2, <3>3, <3>4
    <3>6. {x \in Users \ {u} : mm'.status[x] # mm.status[x]} = {v} /\ mm'.status[v] = "matched"
      BY <2>0, <3>2, <3>3, <3>4, <3>5
    <3>7. \A x, y \in Users : Difference(x, y) = Difference(y, x) /\ Difference(x, y) \in Nat
                              /\ (SameKind(x, y) <=> SameKind(y, x))
      BY MatchmakerAssumption DEF Difference, SameKind
    <3>8. SameKind(u, v) /\ Difference(u, v) <= MAX_RATING_DIFFERENCE
      BY <3>2, <3>5, <3>7 DEF Compatible
    <3>9. ASSUME NEW i \in DOMAIN mm.queue, NEW j \in DOMAIN mm.queue,
                 mm.queue[i].userId = v, SameKind(u, mm.queue[j].userId)
          PROVE  \/ Difference(u, v) < Difference(u, mm.queue[j].userId)
                 \/ Difference(u, v) = Difference(u, mm.queue[j].userId) /\ i <= j
      <4> DEFINE x == mm.queue[j].userId
      <4>0. x \in Users /\ j \in 1..Len(mm.queue)
        BY <2>0
      <4>1. i = f
        BY <2>0, <3>2, <3>9 DEF Consistent, Distinct
      <4>. HIDE DEF x
      <4>4. Difference(v, u) = Difference(u, v) /\ Difference(x, u) = Difference(u, x)
        BY <3>2, <3>7, <4>0
      <4>2. CASE Compatible(x, u)
        <5>1. j \in Candidates(mm, w)
          BY <4>0, <4>2, <3>5, <2>0 DEF Candidates, x
        <5>2. Difference(v, w) < Difference(x, w) \/ (Difference(v, w) = Difference(x, w) /\ f <= j)
          BY <5>1, <3>2 DEF x
        <5>. QED
          BY <5>2, <4>1, <4>4, <3>5 DEF x
      <4>3. CASE ~Compatible(x, u)
        <5>1. ~(Difference(x, u) <= MAX_RATING_DIFFERENCE)
          BY <4>0, <4>3, <3>9, <3>7 DEF Compatible, x
        <5>2. Difference(u, v) \in Nat /\ Difference(u, x) \in Nat /\ MAX_RATING_DIFFERENCE \in Nat
          BY <3>2, <3>7, <4>0, MatchmakerAssumption
        <5>3. Difference(u, v) < Difference(u, x)
          BY <5>1, <5>2, <4>4, <3>8
        <5>. QED
          BY <5>3 DEF x
      <4>. QED
        BY <4>2, <4>3
    <3>. QED
      BY <3>2, <3>4, <3>6, <3>8, <3>9
  <2>. QED
    BY <2>1, <2>2, <2>3 DEF Next
<1>. QED
  BY <1>1, Invariance, PTL DEF Spec, MatchedWithClosest
=============================================================================
