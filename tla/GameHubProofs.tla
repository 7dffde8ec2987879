----------------------------- MODULE GameHubProofs -----------------------------
(***************************************************************************)
(* What the hub (GameHub) promises for every set of users, matches and     *)
(* connections.  First what its operations on the queue leave of the       *)
(* engine's record, of the status of every user and of the entries beside  *)
(* it; then the invariant of the whole hub.                                *)
(***************************************************************************)
EXTENDS GameHub, MatchmakerProofs, SessionLemmas

Sound(q) == q \in QueueState /\ Consistent(q.mm)

-----------------------------------------------------------------------------
(* One user leaves, is released or enters.                                 *)

LEMMA LeaveIs ==
  ASSUME NEW q, Sound(q), NEW u \in Users
  PROVE  /\ Sound(LeaveQueueOf(q, u))
         /\ LeaveQueueOf(q, u).entries = [q.entries EXCEPT ![u] = NoEntry]
         /\ LeaveQueueOf(q, u).mm.status =
              [q.mm.status EXCEPT ![u] = IF q.entries[u] = NoEntry /\ q.mm.status[u] # "queued"
                                         THEN q.mm.status[u] ELSE "none"]
<1>0. /\ q.mm \in MatchmakerState /\ q.entries \in [Users -> Entry \cup {NoEntry}]
      /\ q.mm.status \in [Users -> Statuses] /\ Consistent(q.mm)
  BY DEF Sound, QueueState, MatchmakerState
<1> DEFINE left == leaveQueue(q.mm, u)
<1>1. /\ Consistent(left) /\ left \in MatchmakerState
      /\ left.status = [q.mm.status EXCEPT ![u] = IF q.mm.status[u] = "queued" THEN "none" ELSE q.mm.status[u]]
  BY <1>0, LeaveConsistent DEF leaveQueue, Consistent
<1>. HIDE DEF left
<1>2. /\ Consistent(release(left, u)) /\ release(left, u) \in MatchmakerState
      /\ release(left, u).status = [left.status EXCEPT ![u] = "none"]
  <2>1. Consistent(release(left, u))
    BY <1>1, LeaveConsistent
  <2>. QED
    BY <2>1 DEF release, Consistent
<1>3. leavesQueue(q.mm, u) => q.mm.status[u] = "queued"
  BY DEF leavesQueue
<1>4. CASE q.entries[u] = NoEntry
  <2>1. LeaveQueueOf(q, u) = [mm |-> left, entries |-> q.entries]
    BY <1>4, <1>0 DEF LeaveQueueOf, left, Sound, QueueState
  <2>2. q.entries = [q.entries EXCEPT ![u] = NoEntry]
    BY <1>0, <1>4
  <2>. QED
    BY <2>1, <2>2, <1>0, <1>1, <1>4 DEF Sound, QueueState
<1>5. CASE q.entries[u] # NoEntry
  <2>1. LeaveQueueOf(q, u) =
          [mm      |-> IF leavesQueue(q.mm, u) THEN left ELSE release(left, u),
           entries |-> [q.entries EXCEPT ![u] = NoEntry]]
    BY <1>5 DEF LeaveQueueOf, left
  <2>2. [q.entries EXCEPT ![u] = NoEntry] \in [Users -> Entry \cup {NoEntry}]
    BY <1>0
  <2>3. /\ Sound(LeaveQueueOf(q, u))
        /\ LeaveQueueOf(q, u).entries = [q.entries EXCEPT ![u] = NoEntry]
    BY <2>1, <2>2, <1>1, <1>2 DEF Sound, QueueState
  <2>4. LeaveQueueOf(q, u).mm.status = [q.mm.status EXCEPT ![u] = "none"]
    BY <2>1, <1>0, <1>1, <1>2, <1>3
  <2>. QED
    BY <2>3, <2>4, <1>5
<1>. QED
  BY <1>4, <1>5

LEMMA ReleaseIs ==
  ASSUME NEW q, Sound(q), NEW u \in Users
  PROVE  /\ Sound(ReleaseUser(q, u))
         /\ ReleaseUser(q, u).entries = q.entries
         /\ ReleaseUser(q, u).mm.status = [q.mm.status EXCEPT ![u] = "none"]
<1>1. ReleaseUser(q, u) = [mm |-> release(q.mm, u), entries |-> q.entries]
  BY DEF ReleaseUser, Sound, QueueState
<1>2. /\ Consistent(release(q.mm, u)) /\ release(q.mm, u) \in MatchmakerState
      /\ release(q.mm, u).status = [q.mm.status EXCEPT ![u] = "none"]
  BY LeaveConsistent DEF release, Consistent, Sound
<1>. QED
  BY <1>1, <1>2 DEF Sound, QueueState

LEMMA DropIs ==
  ASSUME NEW q, Sound(q), NEW u \in Users
  PROVE  /\ Sound(DropEntry(q, u))
         /\ DropEntry(q, u).entries = [q.entries EXCEPT ![u] = NoEntry]
         /\ DropEntry(q, u).mm = q.mm
<1>1. DropEntry(q, u) = [mm |-> q.mm, entries |-> [q.entries EXCEPT ![u] = NoEntry]]
  BY DEF DropEntry, Sound, QueueState
<1>. QED
  BY <1>1 DEF Sound, QueueState

-----------------------------------------------------------------------------
(* Many users leave or are released: FoldSet, one user at a time.          *)

\* A family of subsets of a finite set that holds the empty set, and every set
\* whose subsets with one element less it holds, holds the whole set.
LEMMA SubsetInduction ==
  ASSUME NEW us, IsFiniteSet(us), NEW P, {} \in P,
         \A s \in SUBSET us : s # {} /\ (\A u \in s : s \ {u} \in P) => s \in P
  PROVE  us \in P
<1> DEFINE Bad == {n \in Nat : \E s \in SUBSET us : Cardinality(s) = n /\ s \notin P}
<1>1. \A s \in SUBSET us : /\ IsFiniteSet(s) /\ Cardinality(s) \in Nat
                           /\ \A u \in s : Cardinality(s \ {u}) = Cardinality(s) - 1
  BY FS_Subset, FS_CardinalityType, FS_RemoveElement
<1>2. Bad = {}
  <2> SUFFICES ASSUME Bad # {} PROVE FALSE
    OBVIOUS
  <2>1. PICK n \in Bad : \A k \in Bad : n <= k
    BY LeastNatural
  <2>2. PICK s \in SUBSET us : Cardinality(s) = n /\ s \notin P
    BY <2>1
  <2>3. PICK u \in s : s \ {u} \notin P
    BY <2>2
  <2>4. Cardinality(s \ {u}) = n - 1 /\ Cardinality(s \ {u}) \in Nat /\ n \in Nat
    BY <1>1, <2>2
  <2>5. n - 1 \in Bad
    BY <2>3, <2>4
  <2>. QED
    BY <2>1, <2>4, <2>5
<1>. QED
  BY <1>1, <1>2

\* FoldSet is a recursion over the set: it takes out one element after the
\* other, whichever CHOOSE picks; f[s] is what the elements of s leave of q.
LeavesInTurn(f, q, us) ==
  /\ f[{}] = q
  /\ \A s \in SUBSET us : s # {} => \E u \in s : f[s] = LeaveQueueOf(f[s \ {u}], u)

ReleasesInTurn(f, q, us) ==
  /\ f[{}] = q
  /\ \A s \in SUBSET us : s # {} => \E u \in s : f[s] = ReleaseUser(f[s \ {u}], u)

LEMMA LeaveAllUnfolds ==
  ASSUME NEW q, NEW us, IsFiniteSet(us)
  PROVE  \E f : LeaveAll(q, us) = f[us] /\ LeavesInTurn(f, q, us)
<1> DEFINE First(s) == CHOOSE u \in s : TRUE
           Step(f, s) == IF s = {} THEN q ELSE LeaveQueueOf(f[s \ {First(s)}], First(s))
           Upto(n) == {s \in SUBSET us : Cardinality(s) <= n}
           Solves(f, S) == f = [s \in S |-> Step(f, s)]
           Bad == {n \in Nat : ~ \E f : Solves(f, Upto(n))}
<1>1. \A s \in SUBSET us : IsFiniteSet(s) /\ Cardinality(s) \in Nat /\ Cardinality(s) <= Cardinality(us)
  BY FS_Subset, FS_CardinalityType
<1>2. \A s \in SUBSET us : s # {} => /\ First(s) \in s
                                    /\ Cardinality(s \ {First(s)}) = Cardinality(s) - 1
                                    /\ s \ {First(s)} \in SUBSET us
  BY <1>1, FS_RemoveElement
<1>3. Bad = {}
  <2> SUFFICES ASSUME Bad # {} PROVE FALSE
    OBVIOUS
  <2>1. PICK n \in Bad : \A k \in Bad : n <= k
    BY LeastNatural
  <2>2. PICK f : n = 0 \/ Solves(f, Upto(n - 1))
    <3>1. n \in Nat /\ (n # 0 => n - 1 \in Nat /\ ~(n <= n - 1))
      OBVIOUS
    <3>2. n # 0 => n - 1 \notin Bad
      BY <3>1, <2>1
    <3>. QED
      BY <3>1, <3>2
  <2> DEFINE g == [s \in Upto(n) |-> Step(f, s)]
  <2>3. ASSUME NEW s \in Upto(n), s # {}
        PROVE  g[s \ {First(s)}] = f[s \ {First(s)}]
    <3> DEFINE t == s \ {First(s)}
    <3>1. /\ n \in Nat /\ Cardinality(s) \in Nat /\ Cardinality(t) \in Nat
          /\ Cardinality(t) = Cardinality(s) - 1 /\ Cardinality(s) <= n /\ t \in SUBSET us
      BY <1>1, <1>2, <2>3
    <3>2. t \in Upto(n) /\ t \in Upto(n - 1) /\ n # 0
      BY <3>1
    <3>3. f[t] = Step(f, t)
      <4>. HIDE DEF t, Step, Upto
      <4>. QED
        BY <2>2, <3>2
    <3>4. g[t] = Step(f, t)
      <4>. HIDE DEF t, Step, Upto
      <4>. QED
        BY <3>2
    <3>. QED
      BY <3>3, <3>4
  <2>4. ASSUME NEW s \in Upto(n) PROVE Step(g, s) = Step(f, s)
    <3>1. CASE s = {}
      BY <3>1
    <3>2. CASE s # {}
      <4>. HIDE DEF g, First
      <4>. QED
        BY <2>3, <3>2
    <3>. QED
      BY <3>1, <3>2
  <2>5. Solves(g, Upto(n))
    <3>. HIDE DEF Step, Upto
    <3>. QED
      BY <2>4
  <2>. QED
    BY <2>5
<1>4. PICK f : Solves(f, SUBSET us)
  <2>1. Cardinality(us) \in Nat /\ Upto(Cardinality(us)) = SUBSET us
    BY <1>1
  <2>. HIDE DEF Upto, Solves
  <2>2. Cardinality(us) \notin Bad
    BY <1>3
  <2>3. \E f : Solves(f, Upto(Cardinality(us)))
    BY <2>1, <2>2
  <2>. QED
    BY <2>1, <2>3
<1> DEFINE iter == CHOOSE h : Solves(h, SUBSET us)
<1>5. Solves(iter, SUBSET us)
  <2>. HIDE DEF Solves
  <2>. QED
    BY <1>4
<1>6. LeaveAll(q, us) = iter[us]
  BY DEF LeaveAll, FoldSet, MapThenFoldSet
<1>. HIDE DEF iter
<1>7. \A s \in SUBSET us : iter[s] = Step(iter, s)
  <2>. HIDE DEF Step
  <2>. QED
    BY <1>5
<1>8. iter[{}] = q
  BY <1>7
<1>9. \A s \in SUBSET us : s # {} => First(s) \in s /\ iter[s] = LeaveQueueOf(iter[s \ {First(s)}], First(s))
  <2>. HIDE DEF First
  <2>. QED
    BY <1>2, <1>7
<1>10. LeavesInTurn(iter, q, us)
  <2>. HIDE DEF First
  <2>. QED
    BY <1>8, <1>9 DEF LeavesInTurn
<1>. QED
  BY <1>6, <1>10

LEMMA LeaveAllIs ==
  ASSUME NEW q, Sound(q), NEW us \in SUBSET Users, IsFiniteSet(us)
  PROVE  /\ Sound(LeaveAll(q, us))
         /\ LeaveAll(q, us).entries = [u \in Users |-> IF u \in us THEN NoEntry ELSE q.entries[u]]
         /\ LeaveAll(q, us).mm.status =
              [u \in Users |-> IF u \in us /\ (q.entries[u] # NoEntry \/ q.mm.status[u] = "queued")
                               THEN "none" ELSE q.mm.status[u]]
<1>a. PICK f : LeaveAll(q, us) = f[us] /\ LeavesInTurn(f, q, us)
  BY LeaveAllUnfolds
<1>1. /\ LeaveAll(q, us) = f[us]
      /\ f[{}] = q
      /\ \A s \in SUBSET us : s # {} => \E u \in s : f[s] = LeaveQueueOf(f[s \ {u}], u)
  BY <1>a DEF LeavesInTurn
<1> DEFINE Entries(s) == [u \in Users |-> IF u \in s THEN NoEntry ELSE q.entries[u]]
           Status(s) == [u \in Users |->
                           IF u \in s /\ (q.entries[u] # NoEntry \/ q.mm.status[u] = "queued")
                           THEN "none" ELSE q.mm.status[u]]
           P == {s \in SUBSET us : Sound(f[s]) /\ f[s].entries = Entries(s) /\ f[s].mm.status = Status(s)}
<1>0. q.entries \in [Users -> Entry \cup {NoEntry}] /\ q.mm.status \in [Users -> Statuses]
  BY DEF Sound, QueueState, MatchmakerState
<1>2. {} \in P
  <2>1. Entries({}) = q.entries /\ Status({}) = q.mm.status
    BY <1>0
  <2>. QED
    BY <1>1, <2>1
<1>3. ASSUME NEW s \in SUBSET us, s # {}, \A u \in s : s \ {u} \in P
      PROVE  s \in P
  <2>1. PICK u \in s : f[s] = LeaveQueueOf(f[s \ {u}], u)
    BY <1>1, <1>3
  <2> DEFINE r == f[s \ {u}]
  <2>2. Sound(r) /\ r.entries = Entries(s \ {u}) /\ r.mm.status = Status(s \ {u}) /\ u \in Users
    BY <1>3
  <2>. HIDE DEF r
  <2>3. /\ Sound(f[s])
        /\ f[s].entries = [r.entries EXCEPT ![u] = NoEntry]
        /\ f[s].mm.status = [r.mm.status EXCEPT ![u] =
                               IF r.entries[u] = NoEntry /\ r.mm.status[u] # "queued"
                               THEN r.mm.status[u] ELSE "none"]
    <3>1. f[s] = LeaveQueueOf(r, u) /\ Sound(r) /\ u \in Users
      BY <2>1, <2>2 DEF r
    <3>. HIDE DEF P, Entries, Status
    <3>. QED
      BY <3>1, LeaveIs
  <2>4. r.entries[u] = q.entries[u] /\ r.mm.status[u] = q.mm.status[u]
    <3>1. Entries(s \ {u})[u] = q.entries[u] /\ Status(s \ {u})[u] = q.mm.status[u]
      BY <2>2
    <3>. HIDE DEF Entries, Status
    <3>. QED
      BY <2>2, <3>1
  <2>5. f[s].entries = Entries(s)
    <3>1. r.entries = Entries(s \ {u}) => [r.entries EXCEPT ![u] = NoEntry] = Entries(s)
      BY <2>2
    <3>. QED
      BY <2>2, <2>3, <3>1
  <2>6. f[s].mm.status = Status(s)
    <3> DEFINE new == IF r.entries[u] = NoEntry /\ r.mm.status[u] # "queued" THEN r.mm.status[u] ELSE "none"
    <3>1. new = Status(s)[u]
      BY <2>2, <2>4
    <3>. HIDE DEF new
    <3>2. [r.mm.status EXCEPT ![u] = new] = Status(s)
      BY <2>2, <3>1
    <3>. QED
      BY <2>3, <3>2 DEF new
  <2>. QED
    BY <2>3, <2>5, <2>6
<1>4. us \in P
  <2>. HIDE DEF P
  <2>. QED
    BY <1>2, <1>3, SubsetInduction
<1>. QED
  BY <1>1, <1>4

\* The same for releasing them.
LEMMA ReleaseAllUnfolds ==
  ASSUME NEW q, NEW us, IsFiniteSet(us)
  PROVE  \E f : ReleaseAll(q, us) = f[us] /\ ReleasesInTurn(f, q, us)
<1> DEFINE First(s) == CHOOSE u \in s : TRUE
           Step(f, s) == IF s = {} THEN q ELSE ReleaseUser(f[s \ {First(s)}], First(s))
           Upto(n) == {s \in SUBSET us : Cardinality(s) <= n}
           Solves(f, S) == f = [s \in S |-> Step(f, s)]
           Bad == {n \in Nat : ~ \E f : Solves(f, Upto(n))}
<1>1. \A s \in SUBSET us : IsFiniteSet(s) /\ Cardinality(s) \in Nat /\ Cardinality(s) <= Cardinality(us)
  BY FS_Subset, FS_CardinalityType
<1>2. \A s \in SUBSET us : s # {} => /\ First(s) \in s
                                    /\ Cardinality(s \ {First(s)}) = Cardinality(s) - 1
                                    /\ s \ {First(s)} \in SUBSET us
  BY <1>1, FS_RemoveElement
<1>3. Bad = {}
  <2> SUFFICES ASSUME Bad # {} PROVE FALSE
    OBVIOUS
  <2>1. PICK n \in Bad : \A k \in Bad : n <= k
    BY LeastNatural
  <2>2. PICK f : n = 0 \/ Solves(f, Upto(n - 1))
    <3>1. n \in Nat /\ (n # 0 => n - 1 \in Nat /\ ~(n <= n - 1))
      OBVIOUS
    <3>2. n # 0 => n - 1 \notin Bad
      BY <3>1, <2>1
    <3>. QED
      BY <3>1, <3>2
  <2> DEFINE g == [s \in Upto(n) |-> Step(f, s)]
  <2>3. ASSUME NEW s \in Upto(n), s # {}
        PROVE  g[s \ {First(s)}] = f[s \ {First(s)}]
    <3> DEFINE t == s \ {First(s)}
    <3>1. /\ n \in Nat /\ Cardinality(s) \in Nat /\ Cardinality(t) \in Nat
          /\ Cardinality(t) = Cardinality(s) - 1 /\ Cardinality(s) <= n /\ t \in SUBSET us
      BY <1>1, <1>2, <2>3
    <3>2. t \in Upto(n) /\ t \in Upto(n - 1) /\ n # 0
      BY <3>1
    <3>3. f[t] = Step(f, t)
      <4>. HIDE DEF t, Step, Upto
      <4>. QED
        BY <2>2, <3>2
    <3>4. g[t] = Step(f, t)
      <4>. HIDE DEF t, Step, Upto
      <4>. QED
        BY <3>2
    <3>. QED
      BY <3>3, <3>4
  <2>4. ASSUME NEW s \in Upto(n) PROVE Step(g, s) = Step(f, s)
    <3>1. CASE s = {}
      BY <3>1
    <3>2. CASE s # {}
      <4>. HIDE DEF g, First
      <4>. QED
        BY <2>3, <3>2
    <3>. QED
      BY <3>1, <3>2
  <2>5. Solves(g, Upto(n))
    <3>. HIDE DEF Step, Upto
    <3>. QED
      BY <2>4
  <2>. QED
    BY <2>5
<1>4. PICK f : Solves(f, SUBSET us)
  <2>1. Cardinality(us) \in Nat /\ Upto(Cardinality(us)) = SUBSET us
    BY <1>1
  <2>. HIDE DEF Upto, Solves
  <2>2. Cardinality(us) \notin Bad
    BY <1>3
  <2>3. \E f : Solves(f, Upto(Cardinality(us)))
    BY <2>1, <2>2
  <2>. QED
    BY <2>1, <2>3
<1> DEFINE iter == CHOOSE h : Solves(h, SUBSET us)
<1>5. Solves(iter, SUBSET us)
  <2>. HIDE DEF Solves
  <2>. QED
    BY <1>4
<1>6. ReleaseAll(q, us) = iter[us]
  BY DEF ReleaseAll, FoldSet, MapThenFoldSet
<1>. HIDE DEF iter
<1>7. \A s \in SUBSET us : iter[s] = Step(iter, s)
  <2>. HIDE DEF Step
  <2>. QED
    BY <1>5
<1>8. iter[{}] = q
  BY <1>7
<1>9. \A s \in SUBSET us : s # {} => First(s) \in s /\ iter[s] = ReleaseUser(iter[s \ {First(s)}], First(s))
  <2>. HIDE DEF First
  <2>. QED
    BY <1>2, <1>7
<1>10. ReleasesInTurn(iter, q, us)
  <2>. HIDE DEF First
  <2>. QED
    BY <1>8, <1>9 DEF ReleasesInTurn
<1>. QED
  BY <1>6, <1>10

LEMMA ReleaseAllIs ==
  ASSUME NEW q, Sound(q), NEW us \in SUBSET Users, IsFiniteSet(us)
  PROVE  /\ Sound(ReleaseAll(q, us))
         /\ ReleaseAll(q, us).entries = q.entries
         /\ ReleaseAll(q, us).mm.status =
              [u \in Users |-> IF u \in us THEN "none" ELSE q.mm.status[u]]
<1>a. PICK f : ReleaseAll(q, us) = f[us] /\ ReleasesInTurn(f, q, us)
  BY ReleaseAllUnfolds
<1>1. /\ ReleaseAll(q, us) = f[us]
      /\ f[{}] = q
      /\ \A s \in SUBSET us : s # {} => \E u \in s : f[s] = ReleaseUser(f[s \ {u}], u)
  BY <1>a DEF ReleasesInTurn
<1> DEFINE Status(s) == [u \in Users |-> IF u \in s THEN "none" ELSE q.mm.status[u]]
           P == {s \in SUBSET us : Sound(f[s]) /\ f[s].entries = q.entries /\ f[s].mm.status = Status(s)}
<1>2. {} \in P
  <2>1. Status({}) = q.mm.status
    BY DEF Sound, QueueState, MatchmakerState
  <2>. QED
    BY <1>1, <2>1
<1>3. ASSUME NEW s \in SUBSET us, s # {}, \A u \in s : s \ {u} \in P
      PROVE  s \in P
  <2>1. PICK u \in s : f[s] = ReleaseUser(f[s \ {u}], u)
    BY <1>1, <1>3
  <2> DEFINE r == f[s \ {u}]
  <2>2. Sound(r) /\ r.entries = q.entries /\ r.mm.status = Status(s \ {u}) /\ u \in Users
    BY <1>3
  <2>. HIDE DEF r
  <2>3. Sound(f[s]) /\ f[s].entries = q.entries /\ f[s].mm.status = [r.mm.status EXCEPT ![u] = "none"]
    BY <2>1, <2>2, ReleaseIs DEF r
  <2>4. f[s].mm.status = Status(s)
    BY <2>2, <2>3
  <2>. QED
    BY <2>3, <2>4
<1>4. us \in P
  <2>. HIDE DEF P
  <2>. QED
    BY <1>2, <1>3, SubsetInduction
<1>. QED
  BY <1>1, <1>4

-----------------------------------------------------------------------------
(* A queue that users only leave.                                          *)

\* Between q and p users were taken out, and nobody entered: entries stay or
\* go, and whoever still waits had waited with the same entry.
Narrows(q, p) ==
  \A u \in Users : /\ p.entries[u] = q.entries[u] \/ p.entries[u] = NoEntry
                   /\ p.mm.status[u] = "queued" => q.mm.status[u] = "queued" /\ p.entries[u] = q.entries[u]

\* Nobody is newly reserved for a match.
Reserves(q, p, us) == \A u \in Users : p.mm.status[u] = "matched" => q.mm.status[u] = "matched" \/ u \in us

LEMMA LeaveNarrows ==
  ASSUME NEW q, Sound(q), NEW u \in Users
  PROVE  /\ Sound(LeaveQueueOf(q, u)) /\ Narrows(q, LeaveQueueOf(q, u)) /\ Reserves(q, LeaveQueueOf(q, u), {})
         /\ LeaveQueueOf(q, u).entries[u] = NoEntry
         /\ LeaveQueueOf(q, u).mm.status[u] # "queued"
<1>1. q.entries \in [Users -> Entry \cup {NoEntry}] /\ q.mm.status \in [Users -> Statuses]
  BY DEF Sound, QueueState, MatchmakerState
<1> DEFINE p == LeaveQueueOf(q, u)
<1>2. /\ Sound(p) /\ p.entries = [q.entries EXCEPT ![u] = NoEntry]
      /\ p.mm.status = [q.mm.status EXCEPT ![u] = IF q.entries[u] = NoEntry /\ q.mm.status[u] # "queued"
                                                  THEN q.mm.status[u] ELSE "none"]
  BY LeaveIs
<1>. HIDE DEF p
<1>3. p.entries[u] = NoEntry /\ p.mm.status[u] # "queued" /\ (p.mm.status[u] = "matched" => q.mm.status[u] = "matched")
  BY <1>1, <1>2
<1>4. \A v \in Users \ {u} : p.entries[v] = q.entries[v] /\ p.mm.status[v] = q.mm.status[v]
  BY <1>1, <1>2
<1>5. Narrows(q, p) /\ Reserves(q, p, {})
  BY <1>3, <1>4 DEF Narrows, Reserves
<1>. QED
  BY <1>2, <1>3, <1>5 DEF p

LEMMA LeaveAllNarrows ==
  ASSUME NEW q, Sound(q), NEW us \in SUBSET Users
  PROVE  /\ Sound(LeaveAll(q, us)) /\ Narrows(q, LeaveAll(q, us)) /\ Reserves(q, LeaveAll(q, us), {})
         /\ \A u \in us : LeaveAll(q, us).entries[u] = NoEntry
<1>1. IsFiniteSet(us)
  BY HubAssumption, FS_Subset
<1> DEFINE p == LeaveAll(q, us)
<1>2. /\ Sound(p) /\ p.entries = [u \in Users |-> IF u \in us THEN NoEntry ELSE q.entries[u]]
      /\ p.mm.status = [u \in Users |-> IF u \in us /\ (q.entries[u] # NoEntry \/ q.mm.status[u] = "queued")
                                        THEN "none" ELSE q.mm.status[u]]
  BY <1>1, LeaveAllIs
<1>. HIDE DEF p
<1>3. \A u \in us : p.entries[u] = NoEntry /\ p.mm.status[u] # "queued"
                    /\ (p.mm.status[u] = "matched" => q.mm.status[u] = "matched")
  <2>1. \A u \in us : u \in Users
    OBVIOUS
  <2>. QED
    BY <1>2, <2>1
<1>4. \A u \in Users \ us : p.entries[u] = q.entries[u] /\ p.mm.status[u] = q.mm.status[u]
  BY <1>2
<1>5. Narrows(q, p) /\ Reserves(q, p, {})
  BY <1>3, <1>4 DEF Narrows, Reserves
<1>. QED
  BY <1>2, <1>3, <1>5 DEF p

LEMMA ReleaseAllNarrows ==
  ASSUME NEW q, Sound(q), NEW us \in SUBSET Users
  PROVE  /\ Sound(ReleaseAll(q, us)) /\ Narrows(q, ReleaseAll(q, us)) /\ Reserves(q, ReleaseAll(q, us), {})
         /\ ReleaseAll(q, us).entries = q.entries
         /\ \A u \in us : ReleaseAll(q, us).mm.status[u] = "none"
<1>1. IsFiniteSet(us)
  BY HubAssumption, FS_Subset
<1> DEFINE p == ReleaseAll(q, us)
<1>2. /\ Sound(p) /\ p.entries = q.entries
      /\ p.mm.status = [u \in Users |-> IF u \in us THEN "none" ELSE q.mm.status[u]]
  BY <1>1, ReleaseAllIs
<1>. HIDE DEF p
<1>3. \A u \in us : u \in Users /\ p.mm.status[u] = "none"
  BY <1>2
<1>4. \A u \in Users \ us : p.mm.status[u] = q.mm.status[u]
  BY <1>2
<1>5. Narrows(q, p) /\ Reserves(q, p, {})
  BY <1>2, <1>3, <1>4 DEF Narrows, Reserves
<1>. QED
  BY <1>2, <1>3, <1>5 DEF p

LEMMA ReleaseNarrows ==
  ASSUME NEW q, Sound(q), NEW u \in Users
  PROVE  /\ Sound(ReleaseUser(q, u)) /\ Narrows(q, ReleaseUser(q, u)) /\ Reserves(q, ReleaseUser(q, u), {})
         /\ ReleaseUser(q, u).entries = q.entries
         /\ ReleaseUser(q, u).mm.status[u] = "none"
<1>1. q.entries \in [Users -> Entry \cup {NoEntry}] /\ q.mm.status \in [Users -> Statuses]
  BY DEF Sound, QueueState, MatchmakerState
<1> DEFINE p == ReleaseUser(q, u)
<1>2. Sound(p) /\ p.entries = q.entries /\ p.mm.status = [q.mm.status EXCEPT ![u] = "none"]
  BY ReleaseIs
<1>. HIDE DEF p
<1>3. Narrows(q, p) /\ Reserves(q, p, {}) /\ p.mm.status[u] = "none"
  BY <1>1, <1>2 DEF Narrows, Reserves
<1>. QED
  BY <1>2, <1>3 DEF p

\* An entry may be dropped once its user does not wait.
LEMMA DropNarrows ==
  ASSUME NEW q, Sound(q), NEW u \in Users, q.mm.status[u] # "queued"
  PROVE  /\ Sound(DropEntry(q, u)) /\ Narrows(q, DropEntry(q, u)) /\ Reserves(q, DropEntry(q, u), {})
         /\ DropEntry(q, u).entries[u] = NoEntry
<1>1. q.entries \in [Users -> Entry \cup {NoEntry}]
  BY DEF Sound, QueueState
<1> DEFINE p == DropEntry(q, u)
<1>2. Sound(p) /\ p.entries = [q.entries EXCEPT ![u] = NoEntry] /\ p.mm = q.mm
  BY DropIs
<1>. HIDE DEF p
<1>3. Narrows(q, p) /\ Reserves(q, p, {}) /\ p.entries[u] = NoEntry
  BY <1>1, <1>2 DEF Narrows, Reserves
<1>. QED
  BY <1>2, <1>3 DEF p

LEMMA NarrowsAgain ==
  ASSUME NEW q, NEW p, NEW r, NEW us, NEW ws, Narrows(q, p), Narrows(p, r), Reserves(q, p, us), Reserves(p, r, ws)
  PROVE  Narrows(q, r) /\ Reserves(q, r, us \cup ws)
BY DEF Narrows, Reserves

LEMMA PrunedNarrows ==
  ASSUME NEW q, Sound(q)
  PROVE  Sound(Pruned(q)) /\ Narrows(q, Pruned(q)) /\ Reserves(q, Pruned(q), {})
<1> DEFINE us == {u \in WithEntry(q) : q.entries[u].client \notin open}
<1>1. us \in SUBSET Users
  BY DEF WithEntry
<1>. HIDE DEF us
<1>2. Pruned(q) = LeaveAll(q, us)
  BY DEF Pruned, us
<1>. QED
  BY <1>1, <1>2, LeaveAllNarrows

-----------------------------------------------------------------------------
(* Who enters, is paired, or is claimed for an AI.                         *)

\* enqueue pairs u with a user that waits and suits (matchmaker.ts:62-92).
LEMMA PairingIs ==
  ASSUME NEW m, Consistent(m), NEW u \in Users, FindsOpponent(m, u)
  PROVE  /\ OpponentOf(m, u) \in Users /\ OpponentOf(m, u) # u
         /\ m.status[u] = "none" /\ m.status[OpponentOf(m, u)] = "queued"
         /\ SameKind(OpponentOf(m, u), u)
         /\ Consistent(enqueue(m, u, 0))
         /\ enqueue(m, u, 0).status = [m.status EXCEPT ![OpponentOf(m, u)] = "matched", ![u] = "matched"]
<1> DEFINE f == findClosestOpponent(m, u)
           v == OpponentOf(m, u)
<1>1. /\ m \in MatchmakerState /\ m.queue \in Seq(QueueEntry) /\ DOMAIN m.queue = 1..Len(m.queue)
      /\ \A i \in 1..Len(m.queue) : m.queue[i] \in QueueEntry
  <2>1. m \in MatchmakerState /\ m.queue \in Seq(QueueEntry)
    BY DEF Consistent, MatchmakerState
  <2>2. \A i \in 1..Len(m.queue) : m.queue[i] \in QueueEntry
    BY <2>1, ElementOfSeq
  <2>. QED
    BY <2>1, <2>2, LenProperties
<1>2. f \in Candidates(m, u)
  BY <1>1, ClosestIsCandidate DEF FindsOpponent
<1>3. f \in 1..Len(m.queue) /\ v = m.queue[f].userId /\ v \in Users /\ Compatible(v, u)
  BY <1>1, <1>2 DEF Candidates, OpponentOf, QueueEntry
<1>4. m.status[v] = "queued"
  BY <1>3 DEF Consistent, Waits
<1>5. m.status[u] = "none" /\ ~IsDuplicate(m, u)
  BY DEF FindsOpponent, IsDuplicate
<1>6. enqueue(m, u, 0).status = [m.status EXCEPT ![v] = "matched", ![u] = "matched"]
  BY <1>5 DEF enqueue
<1>7. Consistent(enqueue(m, u, 0))
  BY EnqueueConsistent
<1>. QED
  BY <1>3, <1>4, <1>5, <1>6, <1>7 DEF Compatible

LEMMA WaitingIs ==
  ASSUME NEW m, Consistent(m), NEW u \in Users, ~FindsOpponent(m, u), ~IsDuplicate(m, u)
  PROVE  /\ Consistent(enqueue(m, u, 0))
         /\ enqueue(m, u, 0).status = [m.status EXCEPT ![u] = "queued"]
<1>1. enqueue(m, u, 0).status = [m.status EXCEPT ![u] = "queued"]
  BY DEF enqueue
<1>. QED
  BY <1>1, EnqueueConsistent

\* claimAiFallback reserves a user that waits, and changes nothing otherwise
\* (matchmaker.ts:100-121).
LEMMA ClaimIs ==
  ASSUME NEW m, Consistent(m), NEW u \in Users
  PROVE  /\ Consistent(claimAiFallback(m, u, 0))
         /\ claimResult(m, u, 0) = "ready" =>
              m.status[u] = "queued" /\ claimAiFallback(m, u, 0).status = [m.status EXCEPT ![u] = "matched"]
         /\ claimResult(m, u, 0) = "unavailable" =>
              m.status[u] # "queued" /\ claimAiFallback(m, u, 0) = m
<1>1. claimResult(m, u, 0) = "ready" => m.status[u] = "queued"
  BY DEF claimResult
<1>2. claimResult(m, u, 0) = "unavailable" => m.status[u] # "queued"
  BY QueuedPosition DEF claimResult
<1>3. Consistent(claimAiFallback(m, u, 0))
  BY ClaimConsistent
<1>. QED
  BY <1>1, <1>2, <1>3 DEF claimAiFallback

-----------------------------------------------------------------------------
(* Connections: who is a client, and by which name it is found.            *)

ConnsAgree ==
  /\ open \subseteq clients
  /\ \A u \in Users : byUser[u] # NoConn => byUser[u] \in clients /\ owner[byUser[u]] = u
  /\ \A c \in clients : byUser[owner[c]] = c

ConnInv == ConnTypes /\ ConnsAgree

\* Messages, timers and answers neither make nor end connections.
LEMMA OnlyServerTouchesConns ==
  ASSUME LobbyNext \/ TournamentNext \/ MatchNext
  PROVE  UNCHANGED connVars
<1>1. LobbyNext => UNCHANGED connVars
  <2>1. ASSUME NEW c PROVE JoinAi(c) \/ JoinAndWait(c) \/ JoinAndPlay(c) \/ QueueLeave(c) => UNCHANGED connVars
    BY DEF JoinAi, JoinAndWait, JoinAndPlay, QueueLeave
  <2>2. ASSUME NEW u PROVE NpcFallbackTimer(u) => UNCHANGED connVars
    BY DEF NpcFallbackTimer
  <2>3. ASSUME NEW l, NEW answer PROVE NpcLookupReturns(l, answer) => UNCHANGED connVars
    BY DEF NpcLookupReturns
  <2>. QED
    BY <2>1, <2>2, <2>3 DEF LobbyNext
<1>2. TournamentNext => UNCHANGED connVars
  <2>1. ASSUME NEW c, NEW m PROVE TournamentJoin(c, m) => UNCHANGED connVars
    BY DEF TournamentJoin
  <2>2. ASSUME NEW j, NEW seen PROVE TournamentLookupReturns(j, seen) => UNCHANGED connVars
    BY DEF TournamentLookupReturns
  <2>3. ASSUME NEW s, NEW takesEffect, NEW fails PROVE StartReturns(s, takesEffect, fails) => UNCHANGED connVars
    BY DEF StartReturns
  <2>. QED
    BY <2>1, <2>2, <2>3 DEF TournamentNext
<1>3. MatchNext => UNCHANGED connVars
  <2>1. ASSUME NEW c, NEW r PROVE GameReady(c, r) \/ GamePause(c, r) \/ GameResume(c, r) => UNCHANGED connVars
    BY DEF GameReady, GamePause, GameResume
  <2>2. ASSUME NEW r, NEW side PROVE MatchEnds(r, side) => UNCHANGED connVars
    BY DEF MatchEnds, finishRoom
  <2>3. ASSUME NEW r PROVE RoomClock(r) \/ ReconnectTimerFires(r) \/ RetryTimerFires(r) => UNCHANGED connVars
    BY DEF RoomClock, ReconnectTimerFires, RetryTimerFires, finishRoom
  <2>4. ASSUME NEW r, NEW takesEffect, NEW fails PROVE WriteReturns(r, takesEffect, fails) => UNCHANGED connVars
    BY DEF WriteReturns
  <2>. QED
    BY <2>1, <2>2, <2>3, <2>4 DEF MatchNext
<1>. QED
  BY <1>1, <1>2, <1>3

LEMMA ConnInit == Init => ConnInv
<1> SUFFICES ASSUME Init PROVE ConnInv
  OBVIOUS
<1>1. owner \in Seq(Users) /\ Len(owner) = 0
  BY DEF Init
<1>. QED
  BY <1>1, HubAssumption DEF Init, ConnInv, ConnTypes, ConnsAgree

\* The new connection has the next number, and the user's old one, if any, goes.
LEMMA ConnectKeepsConns ==
  ASSUME ConnInv, NEW u \in Users, Connect(u)
  PROVE  /\ ConnInv'
         /\ owner' = Append(owner, u) /\ Len(owner') = Len(owner) + 1
         /\ DOMAIN owner' = 1..(Len(owner) + 1) /\ DOMAIN owner = 1..Len(owner) /\ Len(owner) \in Nat
         /\ \A c \in DOMAIN owner : owner'[c] = owner[c]
         /\ owner'[Len(owner) + 1] = u
         /\ Len(owner) + 1 \notin DOMAIN owner
         /\ clients' = (clients \cup {Len(owner) + 1}) \ {byUser[u]}
         /\ byUser' = [byUser EXCEPT ![u] = Len(owner) + 1]
<1> DEFINE c == Len(owner) + 1
<1>1. /\ owner \in Seq(Users) /\ Len(owner) \in Nat /\ DOMAIN owner = 1..Len(owner)
      /\ Len(owner) + 1 <= MaxConns
  BY LenProperties DEF ConnInv, ConnTypes, Connect
<1>2. /\ owner' = Append(owner, u) /\ owner' \in Seq(Users)
      /\ Len(owner') = c /\ DOMAIN owner' = 1..c
      /\ \A d \in DOMAIN owner : owner'[d] = owner[d]
      /\ owner'[c] = u
  <2>1. owner' = Append(owner, u)
    BY DEF Connect
  <2>. QED
    BY <1>1, <2>1, AppendProperties, LenProperties
<1>3. c \notin DOMAIN owner /\ c # NoConn /\ c \in 1..c /\ DOMAIN owner \subseteq 1..c /\ NoConn \notin DOMAIN owner
  BY <1>1 DEF NoConn
<1>4. byUser' = [byUser EXCEPT ![u] = c]
  BY DEF Connect
<1>5. clients' = (clients \cup {c}) \ {byUser[u]} /\ open' = (open \cup {c}) \ {byUser[u]}
  <2>1. CASE ConnectAfresh(u, c)
    <3>1. byUser[u] = NoConn /\ clients' = clients \cup {c} /\ open' = open \cup {c}
      BY <2>1 DEF ConnectAfresh
    <3>. QED
      BY <3>1, <1>3 DEF ConnInv, ConnTypes
  <2>2. CASE ConnectReplacing(u, c)
    BY <2>2 DEF ConnectReplacing
  <2>. QED
    BY <2>1, <2>2 DEF Connect
<1>. HIDE DEF c
<1>6. ConnTypes'
  BY <1>1, <1>2, <1>3, <1>4, <1>5 DEF ConnInv, ConnTypes, c
<1>7. ConnsAgree'
  <2>1. open' \subseteq clients'
    BY <1>5 DEF ConnInv, ConnsAgree
  <2>2. \A v \in Users : byUser'[v] # NoConn => byUser'[v] \in clients' /\ owner'[byUser'[v]] = v
    <3> SUFFICES ASSUME NEW v \in Users, byUser'[v] # NoConn
                 PROVE  byUser'[v] \in clients' /\ owner'[byUser'[v]] = v
      OBVIOUS
    <3>1. CASE v = u
      BY <3>1, <1>2, <1>3, <1>4, <1>5 DEF ConnInv, ConnTypes
    <3>2. CASE v # u
      <4>1. byUser'[v] = byUser[v] /\ byUser[v] \in clients /\ owner[byUser[v]] = v
        BY <3>2, <1>4 DEF ConnInv, ConnTypes, ConnsAgree
      <4>2. byUser[v] # byUser[u]
        BY <4>1, <3>2, <1>3 DEF ConnInv, ConnTypes, ConnsAgree
      <4>. QED
        BY <4>1, <4>2, <1>2, <1>5 DEF ConnInv, ConnTypes
    <3>. QED
      BY <3>1, <3>2
  <2>3. \A d \in clients' : byUser'[owner'[d]] = d
    <3> SUFFICES ASSUME NEW d \in clients'
                 PROVE  byUser'[owner'[d]] = d
      OBVIOUS
    <3>1. CASE d = c
      BY <3>1, <1>2, <1>4 DEF ConnInv, ConnTypes
    <3>2. CASE d # c
      <4>1. d \in clients /\ d # byUser[u] /\ d \in DOMAIN owner /\ byUser[owner[d]] = d
        BY <3>2, <1>5 DEF ConnInv, ConnTypes, ConnsAgree
      <4>2. owner[d] # u /\ owner[d] \in Users
        BY <4>1, <1>1
      <4>. QED
        BY <4>1, <4>2, <1>2, <1>4 DEF ConnInv, ConnTypes
    <3>. QED
      BY <3>1, <3>2
  <2>. QED
    BY <2>1, <2>2, <2>3 DEF ConnsAgree
<1>. QED
  BY <1>1, <1>2, <1>3, <1>4, <1>5, <1>6, <1>7 DEF ConnInv, c

LEMMA DepartKeepsConns ==
  ASSUME ConnInv, NEW c \in clients, Depart(c), open' \subseteq open \ {c}
  PROVE  ConnInv'
<1>1. /\ owner' = owner /\ clients' = clients \ {c}
      /\ byUser' = [byUser EXCEPT ![owner[c]] = IF byUser[owner[c]] = c THEN NoConn ELSE byUser[owner[c]]]
  BY DEF Depart
<1>2. byUser[owner[c]] = c /\ c \in DOMAIN owner /\ owner[c] \in Users
  BY DEF ConnInv, ConnTypes, ConnsAgree
<1>3. byUser' = [byUser EXCEPT ![owner[c]] = NoConn]
  BY <1>1, <1>2
<1>4. ConnTypes'
  BY <1>1, <1>2, <1>3 DEF ConnInv, ConnTypes
<1>5. ConnsAgree'
  <2>1. open' \subseteq clients'
    BY <1>1 DEF ConnInv, ConnsAgree
  <2>2. ASSUME NEW v \in Users, byUser'[v] # NoConn
        PROVE  byUser'[v] \in clients' /\ owner'[byUser'[v]] = v
    <3>1. v # owner[c] /\ byUser'[v] = byUser[v]
      BY <2>2, <1>2, <1>3 DEF ConnInv, ConnTypes
    <3>. QED
      BY <3>1, <2>2, <1>1, <1>2 DEF ConnInv, ConnsAgree
  <2>3. ASSUME NEW d \in clients'
        PROVE  byUser'[owner'[d]] = d
    <3>1. d \in clients /\ d # c /\ byUser[owner[d]] = d /\ owner[d] \in Users /\ owner' = owner
      BY <1>1 DEF ConnInv, ConnTypes, ConnsAgree
    <3>2. owner[d] # owner[c]
      BY <3>1, <1>2
    <3>. QED
      BY <3>1, <3>2, <1>3 DEF ConnInv, ConnTypes
  <2>. QED
    BY <2>1, <2>2, <2>3 DEF ConnsAgree
<1>. QED
  BY <1>4, <1>5 DEF ConnInv

LEMMA ConnStep == ConnInv /\ [Next]_vars => ConnInv'
<1> SUFFICES ASSUME ConnInv, [Next]_vars PROVE ConnInv'
  OBVIOUS
<1>1. CASE UNCHANGED connVars
  BY <1>1 DEF connVars, ConnInv, ConnTypes, ConnsAgree
<1>2. ASSUME NEW u \in Users, Connect(u) PROVE ConnInv'
  BY <1>2, ConnectKeepsConns
<1>3. ASSUME NEW u \in Users, RevokeUser(u) PROVE ConnInv'
  <2>1. byUser[u] \in clients
    BY <1>3 DEF RevokeUser, ConnInv, ConnsAgree
  <2>. QED
    BY <2>1, <1>3, DepartKeepsConns DEF RevokeUser
<1>4. ASSUME NEW c \in open, SocketDrops(c) PROVE ConnInv'
  BY <1>4 DEF SocketDrops, ConnInv, ConnTypes, ConnsAgree
<1>5. ASSUME NEW c \in clients, Disconnect(c) PROVE ConnInv'
  <2>1. open' \subseteq open \ {c}
    BY <1>5 DEF Disconnect
  <2>. QED
    BY <2>1, <1>5, DepartKeepsConns DEF Disconnect
<1>6. CASE Close
  BY <1>6 DEF Close, ConnInv, ConnTypes, ConnsAgree
<1>7. ASSUME NEW u \in Users, GuestResultExpires(u) PROVE UNCHANGED connVars
  BY <1>7 DEF GuestResultExpires
<1>8. BeginDrain \/ DrainTimeout => UNCHANGED connVars
  BY DEF BeginDrain, DrainTimeout
<1>9. UNCHANGED vars => UNCHANGED connVars
  BY DEF vars
<1>. QED
  BY <1>1, <1>2, <1>3, <1>4, <1>5, <1>6, <1>7, <1>8, <1>9, OnlyServerTouchesConns DEF Next, ServerNext

-----------------------------------------------------------------------------
(* Rooms: what every callback makes of the record of one room.             *)

BeforeStart(s) == s.state = "waiting" \/ (s.state = "reconnecting" /\ s.resumeState = "waiting")

\* The session, the phase the players see and the finishing of a room agree;
\* only seats of connections are kept; before the match, whoever is ready for the
\* session is ready for the room.
Fits(room) ==
  LET s == room.session
  IN /\ room.fin = "no" <=> s.state # "finished"
     /\ room.phase = IF s.state = "reconnecting" THEN "paused" ELSE s.state
     /\ s.state = "reconnecting" <=> s.disconnected # {}
     /\ \A side \in room.gone : room.seat[side] # AI
     /\ BeforeStart(s) =>
          /\ s.ready # Sides
          /\ s.ready \subseteq room.ready \cup (IF room.seat["right"] = AI THEN {"right"} ELSE {})

LEMMA WindowStarts == 0 \in 0..(RECONNECT_WINDOW_MS + 1)
BY WindowAssumption

LEMMA NewRoomFits ==
  ASSUME NEW left \in Conns, NEW right \in Conns \cup {AI}, NEW m \in Matches \cup {NoMatch}
  PROVE  NewRoom(left, right, m) \in Room /\ Fits(NewRoom(left, right, m))
<1>1. NewSession \in Session /\ markReady(NewSession, "right") \in Session
  BY MethodsType DEF NewSession, Session, SessionStates, ResumableStates, NoDeadline, Sides
<1>2. /\ markReady(NewSession, "right").state = "waiting" /\ NewSession.state = "waiting"
      /\ markReady(NewSession, "right").ready = {"right"} /\ NewSession.ready = {}
      /\ markReady(NewSession, "right").disconnected = {} /\ NewSession.disconnected = {}
  BY DEF markReady, NewSession, Sides
<1> DEFINE s == IF right = AI THEN markReady(NewSession, "right") ELSE NewSession
<1>3. s \in Session /\ s.state = "waiting" /\ s.disconnected = {} /\ s.ready = IF right = AI THEN {"right"} ELSE {}
  BY <1>1, <1>2
<1>. HIDE DEF s
<1> DEFINE seat == [side \in Sides |-> IF side = "left" THEN left ELSE right]
<1>4. seat \in [Sides -> Conns \cup {AI}] /\ seat["right"] = right
  BY DEF Sides
<1>. HIDE DEF seat
<1>5. NewRoom(left, right, m) =
        [seat |-> seat, match |-> m, session |-> s, phase |-> "waiting",
         ready |-> {}, gone |-> {}, timer |-> FALSE, waited |-> 0, fin |-> "no", winner |-> NoSide]
  BY DEF NewRoom, seat, s
<1>6. NewRoom(left, right, m) \in Room
  BY <1>3, <1>4, <1>5, WindowAssumption DEF Room, ResumableStates
<1>7. Fits(NewRoom(left, right, m))
  BY <1>3, <1>4, <1>5 DEF Fits, BeforeStart, Sides
<1>. QED
  BY <1>6, <1>7

\* A seat whose player is lost (gameHub.ts:413-423).
LEMMA ReservedFits ==
  ASSUME NEW room \in Room, Fits(room), room.fin = "no", NEW side \in Sides, room.seat[side] # AI
  PROVE  /\ Reserved(room, side) \in Room /\ Fits(Reserved(room, side))
         /\ Reserved(room, side).phase = "paused" /\ Reserved(room, side).fin = "no"
         /\ Reserved(room, side).seat = room.seat /\ Reserved(room, side).match = room.match
         /\ Reserved(room, side).gone = room.gone \cup {side} /\ Reserved(room, side).timer = TRUE
         /\ Reserved(room, side).session.disconnected = room.session.disconnected \cup {side}
<1>1. room.session \in Session /\ room.session.state # "finished"
  BY DEF Room, Fits
<1> DEFINE s == disconnect(room.session, side, 0)
<1>2. s \in Session
  BY <1>1, MethodsType
<1>3. /\ s.state = "reconnecting" /\ s.disconnected = room.session.disconnected \cup {side}
      /\ s.resumeState = IF room.session.state = "reconnecting" THEN room.session.resumeState
                                                                ELSE room.session.state
      /\ s.ready = room.session.ready
  BY <1>1 DEF disconnect, Session
<1>. HIDE DEF s
<1>4. Reserved(room, side) =
        [room EXCEPT !.session = s, !.waited = 0, !.gone = room.gone \cup {side}, !.phase = "paused", !.timer = TRUE]
  BY DEF Reserved, s
<1>5. Reserved(room, side) \in Room
  <2>1. room.gone \cup {side} \in SUBSET Sides
    BY DEF Room
  <2>. QED
    BY <1>2, <1>4, <2>1, WindowStarts DEF Room, ResumableStates
<1>6. /\ Reserved(room, side).session = s /\ Reserved(room, side).phase = "paused"
      /\ Reserved(room, side).fin = room.fin /\ Reserved(room, side).seat = room.seat
      /\ Reserved(room, side).match = room.match /\ Reserved(room, side).ready = room.ready
      /\ Reserved(room, side).gone = room.gone \cup {side} /\ Reserved(room, side).timer = TRUE
  BY <1>4 DEF Room
<1>7. BeforeStart(s) => BeforeStart(room.session)
  BY <1>1, <1>3 DEF BeforeStart
<1>8. Fits(Reserved(room, side))
  BY <1>3, <1>6, <1>7 DEF Fits
<1>. QED
  BY <1>3, <1>5, <1>6, <1>8

\* A seat taken back (gameHub.ts:433-442).
LEMMA RecoveredFits ==
  ASSUME NEW room \in Room, Fits(room), NEW side \in Sides, NEW c \in Conns,
         reconnects(room.session, side, room.waited), side \in room.gone
  PROVE  /\ Recovered(room, side, c) \in Room /\ Fits(Recovered(room, side, c))
         /\ Recovered(room, side, c).fin = room.fin /\ Recovered(room, side, c).match = room.match
         /\ Recovered(room, side, c).seat = [room.seat EXCEPT ![side] = c]
         /\ Recovered(room, side, c).gone = room.gone \ {side}
         /\ Recovered(room, side, c).session.disconnected = room.session.disconnected \ {side}
         /\ Recovered(room, side, c).session.disconnected # {} => Recovered(room, side, c).timer = room.timer
         /\ room.fin = "no" /\ room.phase = "paused"
         /\ Recovered(room, side, c).phase = "playing" <=> Recovered(room, side, c).session.state = "playing"
<1>1. room.session \in Session /\ room.waited \in Nat /\ room.session.state = "reconnecting"
  BY WindowAssumption DEF Room, reconnects
<1> DEFINE s == reconnect(room.session, side, room.waited)
<1>2. s \in Session
  BY <1>1, MethodsType
<1>3. /\ s.disconnected = room.session.disconnected \ {side} /\ s.ready = room.session.ready
      /\ s.resumeState = room.session.resumeState /\ s.resumeState \in ResumableStates
      /\ s.state = IF s.disconnected # {} THEN "reconnecting" ELSE s.resumeState
  BY <1>1 DEF reconnect, Session
<1>. HIDE DEF s
<1> DEFINE seat == [room.seat EXCEPT ![side] = c]
           seated == [room EXCEPT !.session = s, !.seat = seat, !.gone = room.gone \ {side}]
<1>4. seat \in [Sides -> Conns \cup {AI}]
  BY DEF Room
<1>5. /\ seat["right"] = AI <=> room.seat["right"] = AI
      /\ \A other \in room.gone \ {side} : seat[other] # AI
  <2>1. c # AI /\ room.seat[side] # AI
    BY DEF AI, Conns, Fits
  <2>. QED
    BY <2>1 DEF Room, Fits, Sides
<1>6. /\ seated \in Room /\ seated.session = s /\ seated.seat = seat /\ seated.gone = room.gone \ {side}
      /\ seated.phase = "paused" /\ seated.fin = "no" /\ room.fin = "no" /\ room.phase = "paused"
      /\ seated.match = room.match /\ seated.ready = room.ready /\ seated.timer = room.timer
  <2>. HIDE DEF seat
  <2>. QED
    BY <1>1, <1>2, <1>4 DEF Room, Fits
<1>7. Recovered(room, side, c) =
        IF s.state = "reconnecting" THEN seated
        ELSE [seated EXCEPT !.timer = FALSE, !.waited = 0, !.phase = s.state]
  BY DEF Recovered, s
<1>. HIDE DEF seat, seated
<1>8. BeforeStart(s) => BeforeStart(room.session)
  BY <1>1, <1>3 DEF BeforeStart, ResumableStates
<1> DEFINE new == Recovered(room, side, c)
<1>9. /\ new \in Room /\ new.session = s /\ new.seat = seat /\ new.gone = room.gone \ {side}
      /\ new.phase = (IF s.state = "reconnecting" THEN "paused" ELSE s.state)
      /\ new.fin = "no" /\ new.match = room.match /\ new.ready = room.ready
      /\ s.disconnected # {} => new.timer = room.timer
  <2>1. CASE s.state = "reconnecting"
    BY <2>1, <1>6, <1>7
  <2>2. CASE s.state # "reconnecting"
    <3>1. s.state \in ResumableStates /\ s.disconnected = {}
      BY <2>2, <1>3
    <3>2. new = [seated EXCEPT !.timer = FALSE, !.waited = 0, !.phase = s.state]
      BY <2>2, <1>7
    <3>. HIDE DEF new
    <3>. QED
      BY <2>2, <3>1, <3>2, <1>6, WindowStarts DEF Room
  <2>. QED
    BY <2>1, <2>2
<1>. HIDE DEF new
<1>10. Fits(new)
  <2>1. s.state # "finished"
    BY <1>3 DEF ResumableStates
  <2>2. BeforeStart(s) => BeforeStart(room.session) /\ s.ready = room.session.ready
    BY <1>3, <1>8
  <2>3. s.state = "reconnecting" <=> s.disconnected # {}
    BY <1>3 DEF ResumableStates
  <2>4. BeforeStart(s) => /\ s.ready # Sides
                          /\ s.ready \subseteq room.ready \cup (IF room.seat["right"] = AI THEN {"right"} ELSE {})
    BY <2>2 DEF Fits
  <2>5. /\ room.seat["right"] = AI => seat["right"] = AI
        /\ \A other \in new.gone : new.seat[other] # AI
    BY <1>5, <1>9
  <2>. QED
    BY <2>1, <2>3, <2>4, <2>5, <1>9 DEF Fits
<1>. QED
  BY <1>3, <1>6, <1>9, <1>10 DEF new, seat

\* A seat handed over (gameHub.ts:341-380).
LEMMA ReseatedFits ==
  ASSUME NEW room \in Room, Fits(room), NEW old \in Conns, NEW c \in Conns
  PROVE  /\ Reseated(room, old, c) \in Room /\ Fits(Reseated(room, old, c))
         /\ Reseated(room, old, c).seat = [side \in Sides |-> IF room.seat[side] = old THEN c ELSE room.seat[side]]
         /\ Reseated(room, old, c).match = room.match
         /\ Reseated(room, old, c).fin = room.fin /\ Reseated(room, old, c).phase = room.phase
         /\ Reseated(room, old, c).gone = room.gone /\ Reseated(room, old, c).timer = room.timer
         /\ Reseated(room, old, c).session = room.session
<1> DEFINE seat == [side \in Sides |-> IF room.seat[side] = old THEN c ELSE room.seat[side]]
<1>1. seat \in [Sides -> Conns \cup {AI}]
  BY DEF Room
<1>2. \A side \in Sides : seat[side] = AI <=> room.seat[side] = AI
  BY DEF Room, AI, Conns
<1>3. Reseated(room, old, c) = [room EXCEPT !.seat = seat]
  BY DEF Reseated
<1>. HIDE DEF seat
<1>4. /\ Reseated(room, old, c) \in Room /\ Reseated(room, old, c).seat = seat
      /\ Reseated(room, old, c).match = room.match /\ Reseated(room, old, c).ready = room.ready
      /\ Reseated(room, old, c).fin = room.fin /\ Reseated(room, old, c).phase = room.phase
      /\ Reseated(room, old, c).gone = room.gone /\ Reseated(room, old, c).timer = room.timer
      /\ Reseated(room, old, c).session = room.session
  BY <1>1, <1>3 DEF Room
<1>5. Fits(Reseated(room, old, c))
  <2>1. room.gone \subseteq Sides /\ "right" \in Sides
    BY DEF Room, Sides
  <2>. QED
    BY <2>1, <1>2, <1>4 DEF Fits
<1>. QED
  BY <1>4, <1>5 DEF seat

\* A match that is over (gameHub.ts:1001-1046).
Ended(room, side) ==
  [room EXCEPT !.gone = {}, !.timer = FALSE, !.waited = 0, !.session = finish(room.session),
               !.phase = "finished", !.winner = side, !.fin = "writing"]

LEMMA FinishedFits ==
  ASSUME NEW room \in Room, NEW side \in Sides
  PROVE  /\ Ended(room, side) \in Room /\ Fits(Ended(room, side))
         /\ Ended(room, side).seat = room.seat /\ Ended(room, side).match = room.match
         /\ Ended(room, side).fin = "writing" /\ Ended(room, side).phase = "finished"
         /\ Ended(room, side).gone = {} /\ Ended(room, side).winner = side
<1> DEFINE done == Ended(room, side)
<1>a. done = [room EXCEPT !.gone = {}, !.timer = FALSE, !.waited = 0, !.session = finish(room.session),
                          !.phase = "finished", !.winner = side, !.fin = "writing"]
  BY DEF Ended
<1>. HIDE DEF done
<1>1. finish(room.session) \in Session
  BY MethodsType DEF Room, Sides
<1>2. finish(room.session).state = "finished" /\ finish(room.session).disconnected = {}
  BY DEF finish, Room, Session
<1>3. done \in Room
  BY <1>1, <1>a, WindowStarts DEF Room
<1>4. Fits(done)
  BY <1>2, <1>a DEF Fits, BeforeStart, Room
<1>5. /\ done.seat = room.seat /\ done.match = room.match /\ done.fin = "writing"
      /\ done.phase = "finished" /\ done.gone = {} /\ done.winner = side
  BY <1>a DEF Room
<1>. QED
  BY <1>3, <1>4, <1>5 DEF done

-----------------------------------------------------------------------------
(* The queue, the entries and the lookups of NPCs.                         *)

LookupsOf(u) == {l \in lookups : owner[l.client] = u}

\* An entry belongs to the present connection of its user, who waits with a
\* timer running or whose NPC is looked up; never more than MaxLookups are.
EntriesAgree ==
  /\ \A u \in Users : queue.entries[u] # NoEntry =>
       queue.entries[u].client = byUser[u] /\ queue.entries[u].client \in clients /\ accepting
  /\ \A u \in Users : queue.mm.status[u] = "queued" => queue.entries[u].timer
  /\ \A l \in lookups : IsCurrent(l) => ~queue.entries[owner[l.client]].timer
  /\ \A u \in Users : Cardinality(LookupsOf(u)) <= MaxLookups

QueueInv == QueueTypes /\ Consistent(queue.mm) /\ EntriesAgree

LEMMA QueueIsSound == QueueInv => Sound(queue)
BY DEF QueueInv, QueueTypes, Sound

LEMMA QueueInit == Init => QueueInv
<1> SUFFICES ASSUME Init PROVE QueueInv
  OBVIOUS
<1>1. /\ queue = [mm |-> NewMatchmaker, entries |-> [u \in Users |-> NoEntry]] /\ lookups = {}
  BY DEF Init
<1>2. Consistent(NewMatchmaker)
  BY DEF Consistent, NewMatchmaker, MatchmakerState, Statuses, Distinct, Apart, Waits
<1>3. QueueTypes
  BY <1>1, <1>2 DEF QueueTypes, QueueState, Consistent
<1>4. \A u \in Users : Cardinality(LookupsOf(u)) <= MaxLookups
  <2>1. \A u : LookupsOf(u) = {}
    BY <1>1 DEF LookupsOf
  <2>2. Cardinality({}) = 0 /\ 0 <= MaxLookups
    BY FS_EmptySet, HubAssumption
  <2>. QED
    BY <2>1, <2>2
<1>5. EntriesAgree
  BY <1>1, <1>4 DEF EntriesAgree, NewMatchmaker
<1>. QED
  BY <1>1, <1>2, <1>3, <1>5 DEF QueueInv

LEMMA LookupsFinite ==
  ASSUME ConnInv, QueueInv
  PROVE  /\ IsFiniteSet(lookups)
         /\ \A u : IsFiniteSet(LookupsOf(u)) /\ Cardinality(LookupsOf(u)) \in Nat
<1> DEFINE T == Conns \X (0..MaxLookups)
           f == [l \in lookups |-> <<l.client, l.stamp>>]
<1>1. IsFiniteSet(T)
  <2>1. 0 \in Int /\ 1 \in Int /\ MaxLookups \in Int /\ MaxConns \in Int
    BY HubAssumption
  <2>2. IsFiniteSet(Conns) /\ IsFiniteSet(0..MaxLookups)
    BY <2>1, FS_Interval DEF Conns
  <2>. QED
    BY <2>2, FS_Product
<1>2. DOMAIN owner \subseteq Conns
  BY LenProperties, HubAssumption DEF ConnInv, ConnTypes, Conns
<1>3. \A l \in lookups : l = [client |-> l.client, stamp |-> l.stamp] /\ l.client \in Conns /\ l.stamp \in 0..MaxLookups
  BY <1>2 DEF QueueInv, QueueTypes
<1>4. f \in Injection(lookups, T)
  BY <1>3 DEF Injection, IsInjective
<1>. HIDE DEF T, f
<1>5. IsFiniteSet(lookups)
  BY <1>1, <1>4, FS_Injection
<1>6. \A u : LookupsOf(u) \in SUBSET lookups
  BY DEF LookupsOf
<1>. QED
  BY <1>5, <1>6, FS_Subset, FS_CardinalityType

\* A queue that users only leave, and lookups that only return, keep the books,
\* whatever becomes of connections that have no entry.
LEMMA QueueNarrowed ==
  ASSUME ConnInv, QueueInv, Sound(queue'), Narrows(queue, queue'), lookups' \subseteq lookups,
         \A c \in DOMAIN owner : c \in DOMAIN owner' /\ owner'[c] = owner[c],
         \A u \in Users : queue'.entries[u] # NoEntry =>
           byUser'[u] = byUser[u] /\ byUser[u] \in clients' /\ accepting'
  PROVE  QueueInv'
<1>1. QueueTypes' /\ Consistent(queue'.mm)
  BY DEF QueueInv, QueueTypes, Sound
<1>2. \A u \in Users : queue'.entries[u] # NoEntry =>
        queue'.entries[u].client = byUser'[u] /\ queue'.entries[u].client \in clients' /\ accepting'
  BY DEF Narrows, QueueInv, EntriesAgree
<1>3. \A u \in Users : queue'.mm.status[u] = "queued" => queue'.entries[u].timer
  BY DEF Narrows, QueueInv, EntriesAgree
<1>4. ASSUME NEW l \in lookups', IsCurrent(l)'
      PROVE  ~queue'.entries[owner'[l.client]].timer
  <2>1. l \in lookups /\ l.client \in DOMAIN owner /\ owner'[l.client] = owner[l.client]
    BY DEF QueueInv, QueueTypes
  <2> DEFINE u == owner[l.client]
  <2>2. u \in Users
    BY <2>1, LenProperties, ElementOfSeq DEF ConnInv, ConnTypes
  <2>3. CASE queue'.entries[u] = NoEntry
    BY <2>1, <2>3 DEF NoEntry
  <2>4. CASE queue'.entries[u] # NoEntry
    <3>1. queue'.entries[u] = queue.entries[u]
      BY <2>2, <2>4 DEF Narrows
    <3>2. IsCurrent(l)
      BY <1>4, <2>1, <3>1 DEF IsCurrent
    <3>. QED
      BY <2>1, <3>1, <3>2 DEF QueueInv, EntriesAgree
  <2>. QED
    BY <2>3, <2>4
<1>5. ASSUME NEW u \in Users
      PROVE  Cardinality(LookupsOf(u)') <= MaxLookups
  <2>1. LookupsOf(u)' \in SUBSET LookupsOf(u)
    BY DEF LookupsOf, QueueInv, QueueTypes
  <2>2. /\ IsFiniteSet(LookupsOf(u)) /\ Cardinality(LookupsOf(u)) \in Nat
        /\ Cardinality(LookupsOf(u)) <= MaxLookups
    BY LookupsFinite DEF QueueInv, EntriesAgree
  <2>3. Cardinality(LookupsOf(u)') <= Cardinality(LookupsOf(u)) /\ Cardinality(LookupsOf(u)') \in Nat
    BY <2>1, <2>2, FS_Subset, FS_CardinalityType
  <2>. QED
    BY <2>2, <2>3, HubAssumption
<1>. QED
  BY <1>1, <1>2, <1>3, <1>4, <1>5 DEF QueueInv, EntriesAgree

LEMMA QueueNarrowedHere ==
  ASSUME ConnInv, QueueInv, Sound(queue'), Narrows(queue, queue'), lookups' \subseteq lookups,
         UNCHANGED connVars, accepting' = accepting
  PROVE  QueueInv'
<1>1. \A u \in Users : queue'.entries[u] # NoEntry =>
        byUser'[u] = byUser[u] /\ byUser[u] \in clients' /\ accepting'
  BY DEF Narrows, QueueInv, EntriesAgree, connVars
<1>. QED
  BY <1>1, QueueNarrowed DEF connVars

LEMMA QueueSame ==
  ASSUME ConnInv, QueueInv, UNCHANGED <<connVars, queue, lookups, accepting>>
  PROVE  QueueInv'
<1>1. Sound(queue') /\ Narrows(queue, queue')
  BY QueueIsSound DEF Narrows
<1>. QED
  BY <1>1, QueueNarrowedHere

\* Taking a room off releases whoever has a seat in it (gameHub.ts:1180-1184).
LEMMA SeatedAreUsers ==
  ASSUME ConnInv, NEW seat \in [Sides -> Conns \cup {AI}],
         \A side \in Sides : seat[side] \in DOMAIN owner \cup {AI},
         NEW room, room.seat = seat
  PROVE  /\ SeatedUsers(room) \in SUBSET Users
         /\ \A side \in Sides : seat[side] # AI => owner[seat[side]] \in SeatedUsers(room)
         /\ \A u \in SeatedUsers(room) : \E side \in Sides : seat[side] # AI /\ u = owner[seat[side]]
<1>1. \A c \in DOMAIN owner : owner[c] \in Users
  BY LenProperties, ElementOfSeq DEF ConnInv, ConnTypes
<1>. QED
  BY <1>1 DEF SeatedUsers, Range

SeatsTyped(seat) ==
  seat \in [Sides -> Conns \cup {AI}] /\ \A side \in Sides : seat[side] \in DOMAIN owner \cup {AI}

LEMMA RemoveRoomNarrows ==
  ASSUME ConnInv, QueueInv, NEW r, NEW rs, NEW writing, RemoveRoom(r, queue, rs, writing), SeatsTyped(rs[r].seat)
  PROVE  /\ Sound(queue') /\ Narrows(queue, queue') /\ Reserves(queue, queue', {})
         /\ queue'.entries = queue.entries
         /\ \A side \in Sides : rs[r].seat[side] # AI => queue'.mm.status[owner[rs[r].seat[side]]] = "none"
<1>1. queue' = ReleaseAll(queue, SeatedUsers(rs[r]))
  BY DEF RemoveRoom, ReleaseSeats
<1>2. /\ SeatedUsers(rs[r]) \in SUBSET Users
      /\ \A side \in Sides : rs[r].seat[side] # AI => owner[rs[r].seat[side]] \in SeatedUsers(rs[r])
  BY SeatedAreUsers DEF SeatsTyped
<1>. QED
  BY <1>1, <1>2, QueueIsSound, ReleaseAllNarrows

-----------------------------------------------------------------------------
(* The books, step by step: QueueInv is kept, and whoever is reserved for  *)
(* a match after the step is held by what held it before, or anew.         *)

RoomInv ==
  /\ RoomTypes
  /\ \A r \in DOMAIN rooms : Fits(rooms[r])
  /\ \A r \in active : r \in scheduled <=> rooms[r].phase = "playing"
  /\ \A r \in DOMAIN rooms : r \in writes <=> rooms[r].fin = "writing"

\* Whoever waits for a tournament match plays in it (gameHub.ts:671-676).
WaitersPlay == \A m \in Matches : \A w \in waiters[m] : Plays(owner[w], m)

BracketInv == BracketTypes /\ WaitersPlay

Sits(u, r) == \E side \in Sides : rooms[r].seat[side] # AI /\ owner[rooms[r].seat[side]] = u

StillHeld(u) ==
  /\ queue.mm.status[u] = "matched"
  /\ \A r \in active : Sits(u, r) => r \in active'
  /\ \A l \in lookups : owner[l.client] = u => l \in lookups'

HeldAnew(u) ==
  \/ \E r \in active' : Sits(u, r)'
  \/ \E l \in lookups' : owner'[l.client] = u

\* Whoever waits after the step did so before it, or has no room and begins to;
\* nobody waits who gets a seat in a room of the queue.
StillWaits(u) == queue.mm.status[u] = "queued" /\ queue'.entries[u] = queue.entries[u]

WaitsAnew(u) == roomOf[queue'.entries[u].client] = NoRoom /\ UNCHANGED <<roomOf, active>>

NotSeated(u) == \A r \in active' \ active : rooms'[r].match = NoMatch => ~Sits(u, r)'

WaitStep ==
  \A u \in Users : queue'.mm.status[u] = "queued" => (StillWaits(u) \/ WaitsAnew(u)) /\ NotSeated(u)

BooksStep ==
  /\ QueueInv' /\ WaitStep
  /\ \A u \in Users : queue'.mm.status[u] = "matched" => StillHeld(u) \/ HeldAnew(u)

LEMMA RoomIs ==
  ASSUME RoomInv, NEW r \in DOMAIN rooms
  PROVE  /\ rooms[r] \in Room /\ Fits(rooms[r]) /\ SeatsTyped(rooms[r].seat)
         /\ r \in 1..created /\ r \in RoomIds /\ r \in active \cup writes
         /\ rooms[r].seat["left"] \in DOMAIN owner /\ rooms[r].seat["right"] \in DOMAIN owner \cup {AI}
<1>1. r \in 1..created /\ created \in 0..MaxRooms
  BY DEF RoomInv, RoomTypes
<1>2. r \in RoomIds
  BY <1>1, HubAssumption DEF RoomIds
<1>3. rooms[r].seat \in [Sides -> Conns \cup {AI}]
  BY DEF RoomInv, RoomTypes, Room
<1>. QED
  BY <1>1, <1>2, <1>3 DEF RoomInv, RoomTypes, SeatsTyped, Sides

LEMMA CreateIs ==
  ASSUME RoomInv, NEW left, NEW right, NEW m, createRoom(left, right, m)
  PROVE  /\ created + 1 \notin DOMAIN rooms /\ created + 1 \in 1..(created + 1) /\ created + 1 \in 0..MaxRooms
         /\ rooms'[created + 1] = NewRoom(left, right, m)
         /\ \A r \in DOMAIN rooms : rooms'[r] = rooms[r]
         /\ DOMAIN rooms' = DOMAIN rooms \cup {created + 1}
         /\ active' = active \cup {created + 1} /\ created' = created + 1 /\ scheduled' = scheduled
         /\ created \in Nat
         /\ NewRoom(left, right, m).seat["left"] = left
         /\ NewRoom(left, right, m).seat["right"] = right
<1>1. created \in Nat /\ MaxRooms \in Nat /\ created < MaxRooms
  BY HubAssumption DEF RoomInv, RoomTypes, createRoom
<1>2. created + 1 \notin DOMAIN rooms
  BY <1>1 DEF RoomInv, RoomTypes
<1>3. rooms' = [r \in DOMAIN rooms \cup {created + 1} |-> IF r = created + 1 THEN NewRoom(left, right, m) ELSE rooms[r]]
  BY DEF createRoom
<1>4. NewRoom(left, right, m).seat["left"] = left /\ NewRoom(left, right, m).seat["right"] = right
  BY DEF NewRoom, Sides
<1>5. active' = active \cup {created + 1} /\ created' = created + 1 /\ scheduled' = scheduled
  BY DEF createRoom
<1>. QED
  BY <1>1, <1>2, <1>3, <1>4, <1>5

LEMMA WaitsNarrowed ==
  ASSUME Narrows(queue, queue'), active' \subseteq active \/ \A r \in active' \ active : rooms'[r].match # NoMatch
  PROVE  WaitStep
BY DEF WaitStep, Narrows, StillWaits, NotSeated

LEMMA BooksNarrowed ==
  ASSUME QueueInv', Narrows(queue, queue'), Reserves(queue, queue', {}), lookups' = lookups,
         \/ active' = active
         \/ active \subseteq active' /\ \A r \in active' \ active : rooms'[r].match # NoMatch
  PROVE  BooksStep
<1>1. WaitStep
  BY WaitsNarrowed
<1>. QED
  BY <1>1 DEF BooksStep, Reserves, StillHeld

LEMMA BooksSame ==
  ASSUME ConnInv, QueueInv, UNCHANGED <<connVars, queue, lookups, accepting>>,
         \/ active' = active
         \/ active \subseteq active' /\ \A r \in active' \ active : rooms'[r].match # NoMatch
  PROVE  BooksStep
<1>1. Reserves(queue, queue', {}) /\ Narrows(queue, queue')
  BY DEF Reserves, Narrows
<1>. QED
  BY <1>1, QueueSame, BooksNarrowed

LEMMA BooksRemoved ==
  ASSUME ConnInv, QueueInv, RoomInv, UNCHANGED <<connVars, lookups, accepting>>,
         NEW r \in DOMAIN rooms, NEW rs, NEW writing, RemoveRoom(r, queue, rs, writing), rs[r].seat = rooms[r].seat
  PROVE  BooksStep
<1>1. SeatsTyped(rs[r].seat)
  BY RoomIs
<1>2. /\ Sound(queue') /\ Narrows(queue, queue') /\ Reserves(queue, queue', {})
      /\ \A side \in Sides : rooms[r].seat[side] # AI => queue'.mm.status[owner[rooms[r].seat[side]]] = "none"
  BY <1>1, RemoveRoomNarrows
<1>3. QueueInv'
  BY <1>2, QueueNarrowedHere
<1>4. active' = active \ {r}
  BY DEF RemoveRoom
<1>5. \A u \in Users : queue'.mm.status[u] = "matched" => StillHeld(u)
  BY <1>2, <1>4 DEF Reserves, StillHeld, Sits
<1>6. WaitStep
  BY <1>2, <1>4, WaitsNarrowed
<1>. QED
  BY <1>3, <1>5, <1>6 DEF BooksStep

\* A queue that users only left, but for those who get a room.
LEMMA BooksOpened ==
  ASSUME ConnInv, QueueInv, RoomInv, UNCHANGED connVars, accepting' = accepting, lookups' \subseteq lookups,
         Sound(queue'), Narrows(queue, queue'),
         NEW left, NEW right, NEW m, createRoom(left, right, m), left \in Conns, right \in Conns \cup {AI},
         NEW us, Reserves(queue, queue', us),
         \A u \in us : u = owner[left] \/ (right # AI /\ u = owner[right]),
         queue'.mm.status[owner[left]] # "queued",
         right # AI => queue'.mm.status[owner[right]] # "queued",
         \A l \in lookups : owner[l.client] \notin us => l \in lookups'
  PROVE  BooksStep
<1>1. QueueInv'
  BY QueueNarrowedHere
<1>2. owner' = owner /\ left # AI
  BY DEF connVars, Conns, AI
<1>3. active \subseteq active' /\ created + 1 \in active'
      /\ rooms'[created + 1].seat["left"] = left /\ rooms'[created + 1].seat["right"] = right
  BY CreateIs
<1>4. \A u \in us : HeldAnew(u)
  BY <1>2, <1>3 DEF HeldAnew, Sits, Sides
<1>5. \A u \in Users : u \notin us /\ queue'.mm.status[u] = "matched" => StillHeld(u)
  BY <1>3 DEF Reserves, StillHeld
<1>6. active' \ active \subseteq {created + 1}
  BY CreateIs
<1>7. \A u \in Users : queue'.mm.status[u] = "queued" => NotSeated(u)
  <2> SUFFICES ASSUME NEW u \in Users, queue'.mm.status[u] = "queued", NEW r \in active' \ active PROVE ~Sits(u, r)'
    BY DEF NotSeated
  <2>1. r = created + 1
    BY <1>6
  <2>2. rooms'[r].seat["left"] = left /\ rooms'[r].seat["right"] = right
    BY <1>3, <2>1
  <2>. QED
    BY <1>2, <2>2 DEF Sits, Sides
<1>8. WaitStep
  BY <1>7 DEF Narrows, StillWaits, WaitStep
<1>. QED
  BY <1>1, <1>4, <1>5, <1>8 DEF BooksStep

\* What a connection of the hub is to its user.
LEMMA ClientIs ==
  ASSUME ConnInv, NEW c \in clients
  PROVE  c \in DOMAIN owner /\ owner[c] \in Users /\ byUser[owner[c]] = c /\ c \in Conns /\ c # AI
<1>1. c \in DOMAIN owner /\ DOMAIN owner = 1..Len(owner) /\ Len(owner) \in Nat /\ Len(owner) <= MaxConns /\ MaxConns \in Nat
  BY LenProperties, HubAssumption DEF ConnInv, ConnTypes
<1>2. owner[c] \in Users
  BY <1>1, ElementOfSeq DEF ConnInv, ConnTypes
<1>3. c \in Conns /\ c # AI
  BY <1>1 DEF Conns, AI
<1>. QED
  BY <1>1, <1>2, <1>3 DEF ConnInv, ConnsAgree

LEMMA EntryIs ==
  ASSUME ConnInv, QueueInv, NEW u \in Users, queue.entries[u] # NoEntry
  PROVE  /\ queue.entries[u] \in Entry
         /\ queue.entries[u].client \in clients /\ owner[queue.entries[u].client] = u
         /\ queue.entries[u].client = byUser[u] /\ accepting
<1>1. queue.entries[u] \in Entry
  BY DEF QueueInv, QueueTypes, QueueState
<1>2. queue.entries[u].client \in clients /\ queue.entries[u].client = byUser[u] /\ accepting
  BY DEF QueueInv, EntriesAgree
<1>3. byUser[u] # NoConn
  BY <1>2, ClientIs DEF AI, NoConn
<1>. QED
  BY <1>1, <1>2, <1>3 DEF ConnInv, ConnsAgree

LEMMA TimerIsOfEntry ==
  ASSUME NEW u \in Users, queue.entries[u].timer
  PROVE  queue.entries[u] # NoEntry
BY DEF NoEntry

\* Connections come and go.
LEMMA ConnectBooks ==
  ASSUME ConnInv, QueueInv, NEW u \in Users, Connect(u)
  PROVE  BooksStep
<1>1. /\ \A c \in DOMAIN owner : c \in DOMAIN owner' /\ owner'[c] = owner[c]
      /\ clients' = (clients \cup {Len(owner) + 1}) \ {byUser[u]}
      /\ byUser' = [byUser EXCEPT ![u] = Len(owner) + 1]
  BY ConnectKeepsConns
<1>2. active' = active /\ lookups' = lookups /\ accepting' = accepting
  BY DEF Connect, lifeVars
<1>3. Sound(queue)
  BY QueueIsSound
<1>4. Sound(queue') /\ Narrows(queue, queue') /\ Reserves(queue, queue', {}) /\ queue'.entries[u] = NoEntry
  <2>1. CASE ConnectAfresh(u, Len(owner) + 1)
    <3>1. queue' = queue /\ byUser[u] = NoConn
      BY <2>1 DEF ConnectAfresh
    <3>2. queue.entries[u] = NoEntry
      BY <3>1, EntryIs, ClientIs DEF AI, NoConn
    <3>. QED
      BY <1>3, <3>1, <3>2 DEF Narrows, Reserves
  <2>2. CASE ConnectReplacing(u, Len(owner) + 1)
    <3>1. queue' = LeaveQueueOf(queue, u)
      BY <2>2 DEF ConnectReplacing
    <3>. QED
      BY <1>3, <3>1, LeaveNarrows
  <2>. QED
    BY <2>1, <2>2 DEF Connect
<1>5. ASSUME NEW v \in Users, queue'.entries[v] # NoEntry
      PROVE  byUser'[v] = byUser[v] /\ byUser[v] \in clients' /\ accepting'
  <2>1. queue.entries[v] # NoEntry /\ v # u
    BY <1>4, <1>5 DEF Narrows
  <2>2. byUser[v] \in clients /\ owner[byUser[v]] = v /\ accepting
    BY <2>1, EntryIs
  <2>3. byUser[v] # byUser[u]
    <3>1. byUser[u] # NoConn => owner[byUser[u]] = u
      BY DEF ConnInv, ConnsAgree
    <3>2. byUser[v] # NoConn
      BY <2>2, ClientIs DEF AI, NoConn
    <3>. QED
      BY <2>1, <2>2, <3>1, <3>2
  <2>. QED
    BY <1>1, <1>2, <2>1, <2>2, <2>3 DEF ConnInv, ConnTypes
<1>6. QueueInv'
  BY <1>1, <1>2, <1>4, <1>5, QueueNarrowed
<1>. QED
  BY <1>2, <1>4, <1>6, BooksNarrowed

LEMMA DepartBooks ==
  ASSUME ConnInv, QueueInv, NEW c \in clients, Depart(c)
  PROVE  BooksStep
<1>1. /\ owner' = owner /\ clients' = clients \ {c} /\ lookups' = lookups /\ active' = active /\ accepting' = accepting
      /\ byUser' = [byUser EXCEPT ![owner[c]] = IF byUser[owner[c]] = c THEN NoConn ELSE byUser[owner[c]]]
      /\ queue' = LeaveQueueOf(queue, owner[c])
  BY DEF Depart, lifeVars
<1>2. owner[c] \in Users /\ byUser[owner[c]] = c
  BY ClientIs
<1>3. Sound(queue') /\ Narrows(queue, queue') /\ Reserves(queue, queue', {}) /\ queue'.entries[owner[c]] = NoEntry
  BY <1>1, <1>2, QueueIsSound, LeaveNarrows
<1>4. ASSUME NEW v \in Users, queue'.entries[v] # NoEntry
      PROVE  byUser'[v] = byUser[v] /\ byUser[v] \in clients' /\ accepting'
  <2>1. queue.entries[v] # NoEntry /\ v # owner[c]
    BY <1>3, <1>4 DEF Narrows
  <2>2. byUser[v] \in clients /\ owner[byUser[v]] = v /\ accepting
    BY <2>1, EntryIs
  <2>. QED
    BY <1>1, <2>1, <2>2 DEF ConnInv, ConnTypes
<1>5. QueueInv'
  BY <1>1, <1>3, <1>4, QueueNarrowed
<1>. QED
  BY <1>1, <1>3, <1>5, BooksNarrowed

LEMMA ServerBooks ==
  ASSUME ConnInv, QueueInv, RoomInv, ServerNext
  PROVE  BooksStep
<1>0. Sound(queue) /\ WithEntry(queue) \in SUBSET Users
  BY QueueIsSound DEF WithEntry
<1>1. ASSUME NEW u \in Users, Connect(u) PROVE BooksStep
  BY <1>1, ConnectBooks
<1>2. ASSUME NEW u \in Users, RevokeUser(u) PROVE BooksStep
  <2>1. byUser[u] \in clients
    BY <1>2 DEF RevokeUser, ConnInv, ConnsAgree
  <2>. QED
    BY <1>2, <2>1, DepartBooks DEF RevokeUser
<1>3. ASSUME NEW u \in Users, GuestResultExpires(u) PROVE BooksStep
  BY <1>3, BooksSame DEF GuestResultExpires, lifeVars, roomVars
<1>4. ASSUME NEW c \in open, SocketDrops(c) PROVE BooksStep
  <2>1. /\ owner' = owner /\ clients' = clients /\ byUser' = byUser /\ queue' = queue
        /\ lookups' = lookups /\ active' = active /\ accepting' = accepting
    BY <1>4 DEF SocketDrops, lifeVars, roomVars
  <2>2. Narrows(queue, queue') /\ Reserves(queue, queue', {})
    BY <2>1 DEF Narrows, Reserves
  <2>3. \A u \in Users : queue'.entries[u] # NoEntry =>
          byUser'[u] = byUser[u] /\ byUser[u] \in clients' /\ accepting'
    BY <2>1, EntryIs
  <2>4. QueueInv'
    BY <1>0, <2>1, <2>2, <2>3, QueueNarrowed
  <2>. QED
    BY <2>1, <2>2, <2>4, BooksNarrowed
<1>5. ASSUME NEW c \in clients, Disconnect(c) PROVE BooksStep
  BY <1>5, DepartBooks DEF Disconnect
<1>6. CASE BeginDrain
  <2>1. /\ queue' = LeaveAll(queue, WithEntry(queue)) /\ lookups' = lookups /\ active' = active /\ owner' = owner
    BY <1>6 DEF BeginDrain, connVars, roomVars
  <2>2. /\ Sound(queue') /\ Narrows(queue, queue') /\ Reserves(queue, queue', {})
        /\ \A u \in WithEntry(queue) : queue'.entries[u] = NoEntry
    BY <1>0, <2>1, LeaveAllNarrows
  <2>3. \A u \in Users : queue'.entries[u] = NoEntry
    BY <2>2 DEF Narrows, WithEntry
  <2>4. QueueInv'
    BY <2>1, <2>2, <2>3, QueueNarrowed
  <2>. QED
    BY <2>1, <2>2, <2>4, BooksNarrowed
<1>7. CASE DrainTimeout
  BY <1>7, BooksSame DEF DrainTimeout, roomVars
<1>8. CASE Close
  <2> DEFINE left == LeaveAll(queue, WithEntry(queue))
             us == UNION {SeatedUsers(rooms[r]) : r \in active}
  <2>1. queue' = ReleaseAll(left, us) /\ lookups' = lookups /\ owner' = owner
    BY <1>8 DEF Close
  <2>2. \A r \in active : /\ SeatedUsers(rooms[r]) \in SUBSET Users
                          /\ \A u : Sits(u, r) => u \in SeatedUsers(rooms[r])
    <3> SUFFICES ASSUME NEW r \in active
                 PROVE  /\ SeatedUsers(rooms[r]) \in SUBSET Users
                        /\ \A u : Sits(u, r) => u \in SeatedUsers(rooms[r])
      OBVIOUS
    <3>1. r \in DOMAIN rooms
      BY DEF RoomInv, RoomTypes
    <3>2. SeatsTyped(rooms[r].seat)
      BY <3>1, RoomIs
    <3>. QED
      BY <3>2, SeatedAreUsers DEF SeatsTyped, Sits
  <2>3. us \in SUBSET Users /\ \A r \in active, u \in Users : Sits(u, r) => u \in us
    BY <2>2
  <2>4. /\ Sound(left) /\ Narrows(queue, left) /\ Reserves(queue, left, {})
        /\ \A u \in WithEntry(queue) : left.entries[u] = NoEntry
    BY <1>0, LeaveAllNarrows
  <2>. HIDE DEF left, us
  <2>5. /\ Sound(queue') /\ Narrows(left, queue') /\ Reserves(left, queue', {})
        /\ queue'.entries = left.entries /\ \A u \in us : queue'.mm.status[u] = "none"
    BY <2>1, <2>3, <2>4, ReleaseAllNarrows
  <2>6. Narrows(queue, queue') /\ Reserves(queue, queue', {})
    <3>1. {} \cup {} = {}
      OBVIOUS
    <3>. QED
      BY <2>4, <2>5, <3>1, NarrowsAgain
  <2>7. \A u \in Users : queue'.entries[u] = NoEntry
    BY <2>4, <2>5 DEF Narrows, WithEntry
  <2>8. QueueInv'
    BY <2>1, <2>5, <2>6, <2>7, QueueNarrowed
  <2>9. \A u \in Users : queue'.mm.status[u] = "matched" => StillHeld(u)
    BY <2>1, <2>3, <2>5, <2>6 DEF Reserves, StillHeld
  <2>10. WaitStep
    <3>1. active' = {}
      BY <1>8 DEF Close
    <3>. QED
      BY <2>6, <3>1, WaitsNarrowed
  <2>. QED
    BY <2>8, <2>9, <2>10 DEF BooksStep
<1>. QED
  BY <1>1, <1>2, <1>3, <1>4, <1>5, <1>6, <1>7, <1>8 DEF ServerNext

-----------------------------------------------------------------------------
(* The lobby.                                                              *)

\* A new entry differs from every one an NPC is still looked up for: a user
\* has at most MaxLookups lookups, and there is one stamp more.
LEMMA NewEntryIs ==
  ASSUME ConnInv, QueueInv, NEW c \in clients
  PROVE  /\ NewEntry(c) \in Entry /\ NewEntry(c).client = c /\ NewEntry(c).timer = TRUE
         /\ \A l \in lookups : ~(l.client = c /\ l.stamp = NewEntry(c).stamp)
<1> DEFINE Stamps == 0..MaxLookups
           Free(s) == [client |-> c, stamp |-> s] \notin lookups
           First(s) == Free(s) /\ \A t \in 0..(s - 1) : [client |-> c, stamp |-> t] \in lookups
           Frees == {s \in Stamps : Free(s)}
           u == owner[c]
           f == [s \in Stamps |-> [client |-> c, stamp |-> s]]
<1>1. c \in Conns /\ u \in Users /\ MaxLookups \in Nat
  BY ClientIs, HubAssumption
<1>2. Frees # {}
  <2> SUFFICES ASSUME Frees = {} PROVE FALSE
    OBVIOUS
  <2>1. f \in Injection(Stamps, LookupsOf(u))
    BY DEF Injection, IsInjective, LookupsOf
  <2>2. /\ IsFiniteSet(LookupsOf(u)) /\ Cardinality(LookupsOf(u)) \in Nat
        /\ Cardinality(LookupsOf(u)) <= MaxLookups
    BY <1>1, LookupsFinite DEF QueueInv, EntriesAgree
  <2>3. Cardinality(Stamps) = MaxLookups + 1
    <3>1. 0 \in Int /\ MaxLookups \in Int /\ ~(0 > MaxLookups) /\ MaxLookups - 0 + 1 = MaxLookups + 1
      BY <1>1
    <3>. QED
      BY <3>1, FS_Interval
  <2>. HIDE DEF Stamps, f, u
  <2>4. Cardinality(Stamps) <= Cardinality(LookupsOf(u))
    BY <2>1, <2>2, FS_Injection
  <2>. QED
    BY <2>2, <2>3, <2>4, <1>1
<1>3. PICK s \in Frees : \A t \in Frees : s <= t
  <2>1. Frees \subseteq Nat
    BY <1>1
  <2>. HIDE DEF Frees
  <2>. QED
    BY <1>2, <2>1, LeastNatural
<1>4. s \in Stamps /\ First(s)
  <2>1. s \in Nat /\ s <= MaxLookups
    BY <1>1, <1>3
  <2>2. ASSUME NEW t \in 0..(s - 1) PROVE [client |-> c, stamp |-> t] \in lookups
    <3>1. t \in Stamps /\ ~(s <= t)
      BY <1>1, <2>1
    <3>. QED
      BY <1>3, <3>1
  <2>. QED
    BY <1>3, <2>2
<1> DEFINE chosen == CHOOSE t \in Stamps : First(t)
<1>5. chosen \in Stamps /\ First(chosen)
  <2>. HIDE DEF First, Stamps
  <2>. QED
    BY <1>4
<1>6. NewEntry(c) = [client |-> c, timer |-> TRUE, stamp |-> chosen]
  BY DEF NewEntry
<1>. HIDE DEF chosen
<1>7. \A l \in lookups : ~(l.client = c /\ l.stamp = chosen)
  BY <1>5 DEF QueueInv, QueueTypes
<1>. QED
  BY <1>1, <1>5, <1>6, <1>7 DEF Entry

LEMMA JoinAiBooks ==
  ASSUME ConnInv, QueueInv, RoomInv, NEW c \in clients, JoinAi(c)
  PROVE  BooksStep
<1>1. /\ UNCHANGED connVars /\ lookups' = lookups /\ accepting' = accepting
      /\ queue' = LeaveQueueOf(Pruned(queue), owner[c])
  BY DEF JoinAi, lifeVars
<1>2. owner[c] \in Users /\ c \in Conns /\ AI \in Conns \cup {AI}
  BY ClientIs
<1>3. Sound(Pruned(queue)) /\ Narrows(queue, Pruned(queue)) /\ Reserves(queue, Pruned(queue), {})
  BY QueueIsSound, PrunedNarrows
<1>4. Sound(queue') /\ Narrows(Pruned(queue), queue') /\ Reserves(Pruned(queue), queue', {})
      /\ queue'.mm.status[owner[c]] # "queued"
  BY <1>1, <1>2, <1>3, LeaveNarrows
<1>5. Narrows(queue, queue') /\ Reserves(queue, queue', {})
  <2>1. {} \cup {} = {}
    OBVIOUS
  <2>. QED
    BY <1>3, <1>4, <2>1, NarrowsAgain
<1>6. CASE createRoom(c, AI, NoMatch)
  BY <1>1, <1>2, <1>4, <1>5, <1>6, BooksOpened
<1>7. CASE createRoomFails
  <2>1. active' = active
    BY <1>7 DEF createRoomFails, roomVars
  <2>2. QueueInv'
    BY <1>1, <1>4, <1>5, QueueNarrowedHere
  <2>. QED
    BY <1>1, <1>5, <2>1, <2>2, BooksNarrowed
<1>. QED
  BY <1>6, <1>7 DEF JoinAi

\* Whoever waits gets a new entry, with the timer running.
LEMMA JoinAndWaitBooks ==
  ASSUME ConnInv, QueueInv, RoomInv, NEW c \in clients, JoinAndWait(c)
  PROVE  BooksStep
<1> DEFINE q == Pruned(queue)
           u == owner[c]
           m == enqueue(q.mm, u, 0)
<1>1. /\ UNCHANGED connVars /\ lookups' = lookups /\ accepting' = accepting /\ active' = active
      /\ accepting /\ ~FindsOpponent(q.mm, u) /\ roomOf[c] = NoRoom /\ roomOf' = roomOf
      /\ queue' = IF IsDuplicate(q.mm, u) THEN q
                  ELSE [[q EXCEPT !.mm = m] EXCEPT !.entries[u] = NewEntry(c)]
  BY DEF JoinAndWait, lifeVars, roomVars
<1>2. u \in Users /\ byUser[u] = c
  BY ClientIs
<1>3. Sound(q) /\ Narrows(queue, q) /\ Reserves(queue, q, {})
  BY QueueIsSound, PrunedNarrows
<1>. HIDE DEF q
<1>4. CASE IsDuplicate(q.mm, u)
  <2>1. queue' = q
    BY <1>1, <1>4
  <2>2. QueueInv'
    BY <1>1, <1>3, <2>1, QueueNarrowedHere
  <2>. QED
    BY <1>1, <1>3, <2>1, <2>2, BooksNarrowed
<1>5. CASE ~IsDuplicate(q.mm, u)
  <2>1. /\ q.mm \in MatchmakerState /\ Consistent(q.mm) /\ q.entries \in [Users -> Entry \cup {NoEntry}]
        /\ q.mm.status \in [Users -> Statuses]
    BY <1>3 DEF Sound, QueueState, MatchmakerState
  <2>2. /\ Consistent(m) /\ m \in MatchmakerState /\ m.status = [q.mm.status EXCEPT ![u] = "queued"]
    BY <1>1, <1>2, <1>5, <2>1, WaitingIs DEF Consistent
  <2>3. /\ NewEntry(c) \in Entry /\ NewEntry(c).client = c /\ NewEntry(c).timer = TRUE
        /\ \A l \in lookups : ~(l.client = c /\ l.stamp = NewEntry(c).stamp)
    BY NewEntryIs
  <2>. HIDE DEF m, u
  <2>4. /\ queue' = [mm |-> m, entries |-> [q.entries EXCEPT ![u] = NewEntry(c)]]
    <3>1. q = [mm |-> q.mm, entries |-> q.entries]
      BY <1>3 DEF Sound, QueueState
    <3>. QED
      BY <1>1, <1>5, <3>1
  <2>5. /\ queue'.mm = m /\ queue'.entries \in [Users -> Entry \cup {NoEntry}]
        /\ queue'.entries[u] = NewEntry(c) /\ queue'.mm.status[u] = "queued"
        /\ \A v \in Users \ {u} : /\ queue'.entries[v] = q.entries[v] /\ queue'.mm.status[v] = q.mm.status[v]
    BY <1>2, <2>1, <2>2, <2>3, <2>4
  <2>6. QueueTypes' /\ Consistent(queue'.mm)
    <3>1. queue' \in QueueState
      BY <2>2, <2>4, <2>5 DEF QueueState
    <3>. QED
      BY <1>1, <2>2, <2>5, <3>1 DEF QueueInv, QueueTypes, connVars
  <2>7. \A v \in Users : queue'.entries[v] # NoEntry =>
          queue'.entries[v].client = byUser'[v] /\ queue'.entries[v].client \in clients' /\ accepting'
    <3>1. \A v \in Users \ {u} : queue'.entries[v] # NoEntry =>
            queue'.entries[v].client = byUser[v] /\ queue'.entries[v].client \in clients /\ accepting
      BY <1>3, <2>5 DEF Narrows, QueueInv, EntriesAgree
    <3>. QED
      BY <3>1, <1>1, <1>2, <2>3, <2>5 DEF connVars
  <2>8. \A v \in Users : queue'.mm.status[v] = "queued" => queue'.entries[v].timer
    BY <1>3, <2>3, <2>5 DEF Narrows, QueueInv, EntriesAgree
  <2>9. ASSUME NEW l \in lookups', IsCurrent(l)'
        PROVE  ~queue'.entries[owner'[l.client]].timer
    <3>1. l \in lookups /\ owner' = owner /\ l.client \in DOMAIN owner
      BY <1>1 DEF connVars, QueueInv, QueueTypes
    <3>2. owner[l.client] \in Users
      BY <3>1, LenProperties, ElementOfSeq DEF ConnInv, ConnTypes
    <3>3. owner[l.client] # u
      BY <2>3, <2>5, <2>9, <3>1 DEF IsCurrent
    <3> DEFINE v == owner[l.client]
    <3>4. queue'.entries[v] = q.entries[v]
      BY <2>5, <3>2, <3>3
    <3>5. CASE q.entries[v] = NoEntry
      BY <3>1, <3>4, <3>5 DEF NoEntry
    <3>6. CASE q.entries[v] # NoEntry
      <4>1. q.entries[v] = queue.entries[v]
        BY <1>3, <3>2, <3>6 DEF Narrows
      <4>2. IsCurrent(l)
        BY <2>9, <3>1, <3>4, <4>1 DEF IsCurrent
      <4>. QED
        BY <3>1, <3>4, <4>1, <4>2 DEF QueueInv, EntriesAgree
    <3>. QED
      BY <3>5, <3>6
  <2>10. \A v \in Users : Cardinality(LookupsOf(v)') <= MaxLookups
    BY <1>1 DEF LookupsOf, connVars, QueueInv, EntriesAgree
  <2>11. QueueInv'
    BY <2>6, <2>7, <2>8, <2>9, <2>10 DEF QueueInv, EntriesAgree
  <2>12. \A v \in Users : queue'.mm.status[v] = "matched" => StillHeld(v)
    BY <1>1, <1>2, <1>3, <2>5 DEF Reserves, StillHeld
  <2>13. WaitStep
    <3>1. WaitsAnew(u)
      BY <1>1, <2>3, <2>5 DEF WaitsAnew
    <3>2. \A v \in Users \ {u} : queue'.mm.status[v] = "queued" => StillWaits(v)
      BY <1>3, <2>5 DEF Narrows, StillWaits
    <3>3. \A v : NotSeated(v)
      BY <1>1 DEF NotSeated
    <3>. QED
      BY <3>1, <3>2, <3>3 DEF WaitStep
  <2>. QED
    BY <2>11, <2>12, <2>13 DEF BooksStep
<1>. QED
  BY <1>4, <1>5

\* Two users are paired: the one that waits gives its entry up.
LEMMA JoinAndPlayIs ==
  ASSUME ConnInv, QueueInv, NEW c \in clients, FindsOpponent(Pruned(queue).mm, owner[c]),
         NEW v, v = OpponentOf(Pruned(queue).mm, owner[c]),
         NEW p, p = DropEntry([Pruned(queue) EXCEPT !.mm = enqueue(@, owner[c], 0)], v)
  PROVE  /\ v \in Users /\ v # owner[c] /\ SameKind(v, owner[c])
         /\ Sound(p) /\ Narrows(queue, p) /\ Reserves(queue, p, {v, owner[c]})
         /\ queue.mm.status[v] = "queued" /\ p.mm.status[v] # "queued" /\ p.mm.status[owner[c]] # "queued"
         /\ Pruned(queue).entries[v] = queue.entries[v] /\ queue.entries[v] # NoEntry
<1> DEFINE q == Pruned(queue)
           u == owner[c]
           joined == [q EXCEPT !.mm = enqueue(q.mm, u, 0)]
<1>1. u \in Users
  BY ClientIs
<1>2. Sound(q) /\ Narrows(queue, q) /\ Reserves(queue, q, {})
  BY QueueIsSound, PrunedNarrows
<1>3. q = [mm |-> q.mm, entries |-> q.entries] /\ Consistent(q.mm) /\ q.mm.status \in [Users -> Statuses]
      /\ q.entries \in [Users -> Entry \cup {NoEntry}]
  BY <1>2 DEF Sound, QueueState, MatchmakerState
<1>. HIDE DEF q, u
<1>4. /\ v \in Users /\ v # u /\ q.mm.status[u] = "none" /\ q.mm.status[v] = "queued" /\ SameKind(v, u)
      /\ Consistent(enqueue(q.mm, u, 0))
      /\ enqueue(q.mm, u, 0).status = [q.mm.status EXCEPT ![v] = "matched", ![u] = "matched"]
  BY <1>1, <1>3, PairingIs DEF q, u
<1>5. joined = [mm |-> enqueue(q.mm, u, 0), entries |-> q.entries]
  BY <1>3
<1>6. Sound(joined) /\ joined.entries = q.entries
      /\ joined.mm.status = [q.mm.status EXCEPT ![v] = "matched", ![u] = "matched"]
  <2>1. enqueue(q.mm, u, 0) \in MatchmakerState
    BY <1>4 DEF Consistent
  <2>. QED
    BY <1>3, <1>4, <1>5, <2>1 DEF Sound, QueueState
<1>. HIDE DEF joined
<1>7. /\ Narrows(q, joined) /\ Reserves(q, joined, {v, u})
      /\ joined.mm.status[v] # "queued" /\ joined.mm.status[u] # "queued"
  BY <1>1, <1>3, <1>4, <1>6 DEF Narrows, Reserves
<1>8. p = DropEntry(joined, v)
  BY DEF joined, q, u
<1>9. Sound(p) /\ Narrows(joined, p) /\ Reserves(joined, p, {})
  <2>1. /\ Sound(DropEntry(joined, v)) /\ Narrows(joined, DropEntry(joined, v))
        /\ Reserves(joined, DropEntry(joined, v), {})
    BY <1>4, <1>6, <1>7, DropNarrows
  <2>. QED
    BY <1>8, <2>1
<1>13. p.mm.status[v] # "queued" /\ p.mm.status[u] # "queued"
  BY <1>1, <1>4, <1>7, <1>9 DEF Narrows
<1>10. Narrows(queue, p) /\ Reserves(queue, p, {v, u})
  <2>1. {} \cup {v, u} = {v, u} /\ {v, u} \cup {} = {v, u}
    OBVIOUS
  <2>2. Narrows(queue, joined) /\ Reserves(queue, joined, {v, u})
    BY <1>2, <1>7, <2>1, NarrowsAgain
  <2>. QED
    BY <1>9, <2>1, <2>2, NarrowsAgain
<1>11. queue.mm.status[v] = "queued" /\ q.entries[v] = queue.entries[v]
  BY <1>2, <1>4 DEF Narrows
<1>12. queue.entries[v] # NoEntry
  BY <1>4, <1>11, TimerIsOfEntry DEF QueueInv, EntriesAgree
<1>. QED
  BY <1>4, <1>9, <1>10, <1>11, <1>12, <1>13 DEF q, u

LEMMA JoinAndPlayBooks ==
  ASSUME ConnInv, QueueInv, RoomInv, NEW c \in clients, JoinAndPlay(c)
  PROVE  BooksStep
<1> DEFINE q == Pruned(queue)
           u == owner[c]
           v == OpponentOf(q.mm, u)
           p == DropEntry([q EXCEPT !.mm = enqueue(@, u, 0)], v)
<1>1. /\ UNCHANGED connVars /\ lookups' = lookups /\ accepting' = accepting /\ FindsOpponent(q.mm, u)
      /\ \/ queue' = p /\ createRoom(q.entries[v].client, c, NoMatch)
         \/ queue' = ReleaseUser(ReleaseUser(p, v), u) /\ createRoomFails
  BY DEF JoinAndPlay, lifeVars
<1>2. u \in Users /\ c \in Conns /\ c # AI
  BY ClientIs
<1>3. /\ v \in Users /\ Sound(p) /\ Narrows(queue, p) /\ Reserves(queue, p, {v, u})
      /\ q.entries[v] = queue.entries[v] /\ queue.entries[v] # NoEntry
      /\ p.mm.status[v] # "queued" /\ p.mm.status[u] # "queued"
  BY <1>1, JoinAndPlayIs
<1>. HIDE DEF p, q, v
<1>4. CASE queue' = p /\ createRoom(q.entries[v].client, c, NoMatch)
  <2>1. q.entries[v].client \in Conns /\ owner[q.entries[v].client] = v
    BY <1>3, EntryIs, ClientIs
  <2>2. \A w \in {v, u} : w = owner[q.entries[v].client] \/ (c # AI /\ w = owner[c])
    BY <1>2, <2>1
  <2>. QED
    BY <1>1, <1>2, <1>3, <1>4, <2>1, <2>2, BooksOpened
<1>5. CASE queue' = ReleaseUser(ReleaseUser(p, v), u) /\ createRoomFails
  <2> DEFINE r == ReleaseUser(p, v)
  <2>1. Sound(r) /\ Narrows(p, r) /\ Reserves(p, r, {}) /\ r.mm.status[v] = "none"
    BY <1>3, ReleaseNarrows
  <2>. HIDE DEF r
  <2>2. Sound(queue') /\ Narrows(r, queue') /\ Reserves(r, queue', {}) /\ queue'.mm.status[u] = "none"
    BY <1>2, <1>5, <2>1, ReleaseNarrows DEF r
  <2>3. Narrows(queue, queue') /\ Reserves(queue, queue', {v, u})
    <3>1. {v, u} \cup {} = {v, u}
      OBVIOUS
    <3>2. Narrows(queue, r) /\ Reserves(queue, r, {v, u})
      BY <1>3, <2>1, <3>1, NarrowsAgain
    <3>. QED
      BY <2>2, <3>1, <3>2, NarrowsAgain
  <2>4. queue'.mm.status[v] # "matched"
    BY <1>3, <2>1, <2>2 DEF Reserves
  <2>5. Reserves(queue, queue', {})
    BY <2>2, <2>3, <2>4 DEF Reserves
  <2>6. active' = active
    BY <1>5 DEF createRoomFails, roomVars
  <2>7. QueueInv'
    BY <1>1, <2>2, <2>3, QueueNarrowedHere
  <2>. QED
    BY <1>1, <2>3, <2>5, <2>6, <2>7, BooksNarrowed
<1>. QED
  BY <1>1, <1>4, <1>5

LEMMA QueueLeaveBooks ==
  ASSUME ConnInv, QueueInv, NEW c \in clients, QueueLeave(c)
  PROVE  BooksStep
<1>1. /\ UNCHANGED connVars /\ lookups' = lookups /\ accepting' = accepting /\ active' = active
      /\ queue' = LeaveQueueOf(queue, owner[c])
  BY DEF QueueLeave, lifeVars, roomVars
<1>2. owner[c] \in Users
  BY ClientIs
<1>3. Sound(queue') /\ Narrows(queue, queue') /\ Reserves(queue, queue', {})
  BY <1>1, <1>2, QueueIsSound, LeaveNarrows
<1>4. QueueInv'
  BY <1>1, <1>3, QueueNarrowedHere
<1>. QED
  BY <1>1, <1>3, <1>4, BooksNarrowed

\* The claim of the fallback: a user that waits is reserved for the AI.
LEMMA ClaimedIs ==
  ASSUME ConnInv, QueueInv, NEW u \in Users, claimResult(queue.mm, u, 0) = "ready",
         NEW p, p = [queue EXCEPT !.mm = claimAiFallback(queue.mm, u, 0)]
  PROVE  /\ Sound(p) /\ Narrows(queue, p) /\ Reserves(queue, p, {u})
         /\ p.entries = queue.entries /\ p.mm.status = [queue.mm.status EXCEPT ![u] = "matched"]
         /\ p.mm.status[u] = "matched"
<1>1. Sound(queue) /\ queue = [mm |-> queue.mm, entries |-> queue.entries] /\ Consistent(queue.mm)
      /\ queue.mm.status \in [Users -> Statuses] /\ queue.entries \in [Users -> Entry \cup {NoEntry}]
  BY QueueIsSound DEF Sound, QueueState, MatchmakerState
<1> DEFINE m == claimAiFallback(queue.mm, u, 0)
<1>2. Consistent(m) /\ m \in MatchmakerState /\ m.status = [queue.mm.status EXCEPT ![u] = "matched"]
  BY <1>1, ClaimIs DEF Consistent
<1>. HIDE DEF m
<1>3. p = [mm |-> m, entries |-> queue.entries]
  BY <1>1 DEF m
<1>4. Sound(p)
  BY <1>1, <1>2, <1>3 DEF Sound, QueueState
<1>5. Narrows(queue, p) /\ Reserves(queue, p, {u})
  BY <1>1, <1>2, <1>3 DEF Narrows, Reserves
<1>. QED
  BY <1>1, <1>2, <1>3, <1>4, <1>5

LEMMA LookupBegins ==
  ASSUME ConnInv, QueueInv, NEW u \in Users, queue.entries[u].timer,
         claimResult(queue.mm, u, 0) = "ready", Cardinality(LookupsOf(u)) < MaxLookups,
         queue' = [[queue EXCEPT !.mm = claimAiFallback(@, u, 0)] EXCEPT !.entries[u].timer = FALSE],
         lookups' = lookups \cup {[client |-> queue.entries[u].client, stamp |-> queue.entries[u].stamp]},
         UNCHANGED connVars, accepting' = accepting, active' = active
  PROVE  BooksStep
<1> DEFINE p == [queue EXCEPT !.mm = claimAiFallback(@, u, 0)]
           e == queue.entries[u]
           new == [client |-> e.client, stamp |-> e.stamp]
<1>1. /\ Sound(p) /\ p.entries = queue.entries /\ p.mm.status = [queue.mm.status EXCEPT ![u] = "matched"]
  BY ClaimedIs
<1>2. p = [mm |-> p.mm, entries |-> p.entries] /\ p.entries \in [Users -> Entry \cup {NoEntry}]
      /\ p.mm.status \in [Users -> Statuses] /\ p.mm \in MatchmakerState
  BY <1>1 DEF Sound, QueueState, MatchmakerState
<1>3. queue' = [p EXCEPT !.entries[u].timer = FALSE]
  OBVIOUS
<1>. HIDE DEF p
<1>4. e # NoEntry /\ e \in Entry /\ e.client \in clients /\ owner[e.client] = u /\ e.client = byUser[u] /\ accepting
  BY TimerIsOfEntry, EntryIs
<1>5. /\ queue'.mm = p.mm /\ queue'.entries = [p.entries EXCEPT ![u] = [e EXCEPT !.timer = FALSE]]
      /\ queue' = [mm |-> queue'.mm, entries |-> queue'.entries]
  BY <1>1, <1>2, <1>3
<1>6. [e EXCEPT !.timer = FALSE] \in Entry /\ [e EXCEPT !.timer = FALSE].client = e.client
      /\ [e EXCEPT !.timer = FALSE].timer = FALSE
  BY <1>4 DEF Entry
<1>7. /\ queue' \in QueueState /\ queue'.entries[u].timer = FALSE /\ queue'.entries[u].client = e.client
      /\ queue'.mm.status[u] = "matched"
      /\ \A v \in Users \ {u} : queue'.entries[v] = queue.entries[v] /\ queue'.mm.status[v] = queue.mm.status[v]
  <2>. HIDE DEF e
  <2>1. queue'.entries \in [Users -> Entry \cup {NoEntry}]
    BY <1>2, <1>5, <1>6
  <2>2. queue' \in QueueState
    BY <1>2, <1>5, <2>1 DEF QueueState
  <2>3. queue.mm.status \in [Users -> Statuses]
    BY QueueIsSound DEF Sound, QueueState, MatchmakerState
  <2>4. queue'.entries[u] = [e EXCEPT !.timer = FALSE]
    BY <1>2, <1>5
  <2>6. queue'.mm.status[u] = "matched"
    BY <1>1, <1>5, <2>3
  <2>5. \A v \in Users \ {u} : queue'.entries[v] = queue.entries[v] /\ queue'.mm.status[v] = queue.mm.status[v]
    BY <1>1, <1>2, <1>5, <2>3
  <2>. QED
    BY <1>6, <2>2, <2>4, <2>5, <2>6
<1>8. e.client \in DOMAIN owner /\ e.stamp \in 0..MaxLookups
  BY <1>4, ClientIs DEF Entry
<1>9. QueueTypes' /\ Consistent(queue'.mm)
  <2>1. new \in [client : DOMAIN owner, stamp : 0..MaxLookups]
    BY <1>8
  <2>2. owner' = owner /\ lookups' = lookups \cup {new}
    BY DEF connVars
  <2>. HIDE DEF new
  <2>. QED
    BY <1>1, <1>5, <1>7, <2>1, <2>2 DEF QueueInv, QueueTypes, Sound
<1>10. \A v \in Users : queue'.entries[v] # NoEntry =>
         queue'.entries[v].client = byUser'[v] /\ queue'.entries[v].client \in clients' /\ accepting'
  <2>1. \A v \in Users \ {u} : queue'.entries[v] # NoEntry =>
          queue'.entries[v].client = byUser[v] /\ queue'.entries[v].client \in clients /\ accepting
    BY <1>7 DEF QueueInv, EntriesAgree
  <2>. QED
    BY <2>1, <1>4, <1>7 DEF connVars
<1>11. \A v \in Users : queue'.mm.status[v] = "queued" => queue'.entries[v].timer
  BY <1>7 DEF QueueInv, EntriesAgree
<1>12. ASSUME NEW l \in lookups', IsCurrent(l)'
       PROVE  ~queue'.entries[owner'[l.client]].timer
  <2>1. owner' = owner
    BY DEF connVars
  <2>2. CASE owner[l.client] = u
    BY <2>1, <2>2, <1>7
  <2>3. CASE owner[l.client] # u
    <3>1. l \in lookups
      BY <2>3, <1>4
    <3>2. owner[l.client] \in Users
      BY <3>1, LenProperties, ElementOfSeq DEF ConnInv, ConnTypes, QueueInv, QueueTypes
    <3>3. queue'.entries[owner[l.client]] = queue.entries[owner[l.client]]
      BY <1>7, <2>3, <3>2
    <3>4. IsCurrent(l)
      BY <1>12, <2>1, <3>3 DEF IsCurrent
    <3>. QED
      BY <2>1, <3>1, <3>3, <3>4 DEF QueueInv, EntriesAgree
  <2>. QED
    BY <2>2, <2>3
<1>13. ASSUME NEW v \in Users
       PROVE  Cardinality(LookupsOf(v)') <= MaxLookups
  <2>1. owner' = owner /\ lookups' = lookups \cup {new} /\ owner[new.client] = u
    BY <1>4 DEF connVars
  <2>. HIDE DEF new
  <2>2. CASE v # u
    <3>1. LookupsOf(v)' = LookupsOf(v)
      BY <2>1, <2>2 DEF LookupsOf
    <3>. QED
      BY <3>1 DEF QueueInv, EntriesAgree
  <2>3. CASE v = u
    <3>1. LookupsOf(v)' = LookupsOf(u) \cup {new}
      BY <2>1, <2>3 DEF LookupsOf
    <3>2. IsFiniteSet(LookupsOf(u)) /\ Cardinality(LookupsOf(u)) \in Nat
      BY LookupsFinite
    <3>3. Cardinality(LookupsOf(v)') = IF new \in LookupsOf(u) THEN Cardinality(LookupsOf(u))
                                       ELSE Cardinality(LookupsOf(u)) + 1
      BY <3>1, <3>2, FS_AddElement
    <3>. QED
      BY <3>2, <3>3, HubAssumption
  <2>. QED
    BY <2>2, <2>3
<1>14. QueueInv'
  BY <1>9, <1>10, <1>11, <1>12, <1>13 DEF QueueInv, EntriesAgree
<1>15. HeldAnew(u)
  <2>1. new \in lookups' /\ owner'[new.client] = u
    BY <1>4 DEF connVars
  <2>. HIDE DEF new
  <2>. QED
    BY <2>1 DEF HeldAnew
<1>16. \A v \in Users \ {u} : queue'.mm.status[v] = "matched" => StillHeld(v)
  BY <1>7 DEF StillHeld
<1>17. WaitStep
  <2>1. \A v \in Users : queue'.mm.status[v] = "queued" => StillWaits(v)
    BY <1>7 DEF StillWaits
  <2>. QED
    BY <2>1 DEF WaitStep, NotSeated
<1>. QED
  BY <1>14, <1>15, <1>16, <1>17 DEF BooksStep

LEMMA FallbackBooks ==
  ASSUME ConnInv, QueueInv, RoomInv, NEW u \in Users, NpcFallbackTimer(u)
  PROVE  BooksStep
<1> DEFINE c == queue.entries[u].client
           claimed == [queue EXCEPT !.mm = claimAiFallback(@, u, 0)]
<1>1. UNCHANGED connVars /\ accepting' = accepting /\ queue.entries[u].timer
  BY DEF NpcFallbackTimer, lifeVars
<1>2. c \in Conns /\ owner[c] = u /\ c \in clients
  BY <1>1, TimerIsOfEntry, EntryIs, ClientIs
<1>3. Sound(queue)
  BY QueueIsSound
<1>4. CASE queue' = LeaveQueueOf(queue, u) /\ UNCHANGED <<lookups, roomVars>>
  <2>1. Sound(queue') /\ Narrows(queue, queue') /\ Reserves(queue, queue', {})
    BY <1>3, <1>4, LeaveNarrows
  <2>2. QueueInv'
    BY <1>1, <1>4, <2>1, QueueNarrowedHere
  <2>. QED
    BY <1>4, <2>1, <2>2, BooksNarrowed DEF roomVars
<1>5. CASE /\ claimResult(queue.mm, u, 0) = "unavailable" /\ queue' = DropEntry(claimed, u)
           /\ UNCHANGED <<lookups, roomVars>>
  <2>1. claimed = queue /\ queue.mm.status[u] # "queued"
    <3>1. queue.mm.status[u] # "queued" /\ claimAiFallback(queue.mm, u, 0) = queue.mm
      BY <1>5, ClaimIs DEF QueueInv
    <3>. QED
      BY <3>1, <1>3 DEF Sound, QueueState
  <2>. HIDE DEF claimed
  <2>2. Sound(queue') /\ Narrows(queue, queue') /\ Reserves(queue, queue', {})
    BY <1>3, <1>5, <2>1, DropNarrows
  <2>3. QueueInv'
    BY <1>1, <1>5, <2>2, QueueNarrowedHere
  <2>. QED
    BY <1>5, <2>2, <2>3, BooksNarrowed DEF roomVars
<1>6. CASE /\ claimResult(queue.mm, u, 0) = "ready" /\ lookups' = lookups
           /\ \/ queue' = DropEntry(claimed, u) /\ createRoom(c, AI, NoMatch)
              \/ queue' = ReleaseUser(DropEntry(claimed, u), u) /\ createRoomFails
  <2> DEFINE p == DropEntry(claimed, u)
  <2>1. Sound(claimed) /\ Narrows(queue, claimed) /\ Reserves(queue, claimed, {u}) /\ claimed.mm.status[u] = "matched"
    BY <1>6, ClaimedIs
  <2>. HIDE DEF claimed
  <2>2. Sound(p) /\ Narrows(claimed, p) /\ Reserves(claimed, p, {})
    BY <2>1, DropNarrows
  <2>. HIDE DEF p
  <2>3. Narrows(queue, p) /\ Reserves(queue, p, {u})
    <3>1. {u} \cup {} = {u}
      OBVIOUS
    <3>. QED
      BY <2>1, <2>2, <3>1, NarrowsAgain
  <2>6. p.mm.status[owner[c]] # "queued"
    BY <1>2, <2>1, <2>2 DEF Narrows
  <2>4. CASE queue' = p /\ createRoom(c, AI, NoMatch)
    <3>1. \A v \in {u} : v = owner[c] \/ (AI # AI /\ v = owner[AI])
      BY <1>2
    <3>2. AI \in Conns \cup {AI} /\ lookups' \subseteq lookups /\ \A l \in lookups : owner[l.client] \notin {u} => l \in lookups'
      BY <1>6
    <3>. HIDE DEF c
    <3>. QED
      BY <1>1, <1>2, <2>2, <2>3, <2>4, <2>6, <3>1, <3>2, BooksOpened
  <2>5. CASE queue' = ReleaseUser(p, u) /\ createRoomFails
    <3>1. Sound(queue') /\ Narrows(p, queue') /\ Reserves(p, queue', {}) /\ queue'.mm.status[u] = "none"
      BY <2>2, <2>5, ReleaseNarrows
    <3>2. Narrows(queue, queue') /\ Reserves(queue, queue', {u})
      <4>1. {u} \cup {} = {u}
        OBVIOUS
      <4>. QED
        BY <2>3, <3>1, <4>1, NarrowsAgain
    <3>3. Reserves(queue, queue', {})
      BY <3>1, <3>2 DEF Reserves
    <3>4. QueueInv'
      BY <1>1, <1>6, <3>1, <3>2, QueueNarrowedHere
    <3>. QED
      BY <1>6, <2>5, <3>2, <3>3, <3>4, BooksNarrowed DEF createRoomFails, roomVars
  <2>. QED
    BY <1>6, <2>4, <2>5 DEF p
<1>7. CASE /\ claimResult(queue.mm, u, 0) = "ready"
           /\ Cardinality({l \in lookups : owner[l.client] = u}) < MaxLookups
           /\ queue' = [claimed EXCEPT !.entries[u].timer = FALSE]
           /\ lookups' = lookups \cup {[client |-> c, stamp |-> queue.entries[u].stamp]}
           /\ UNCHANGED roomVars
  <2>1. Cardinality(LookupsOf(u)) < MaxLookups /\ active' = active
    BY <1>7 DEF LookupsOf, roomVars
  <2>2. queue' = [[queue EXCEPT !.mm = claimAiFallback(@, u, 0)] EXCEPT !.entries[u].timer = FALSE]
    BY <1>7
  <2>3. lookups' = lookups \cup {[client |-> queue.entries[u].client, stamp |-> queue.entries[u].stamp]}
    BY <1>7
  <2>4. claimResult(queue.mm, u, 0) = "ready"
    BY <1>7
  <2>. QED
    BY <1>1, <2>1, <2>2, <2>3, <2>4, LookupBegins
<1>. HIDE DEF c, claimed
<1>. QED
  BY <1>4, <1>5, <1>6, <1>7 DEF NpcFallbackTimer, c, claimed

LEMMA NpcLookupBooks ==
  ASSUME ConnInv, QueueInv, RoomInv, NEW l \in lookups, NEW answer, NpcLookupReturns(l, answer)
  PROVE  BooksStep
<1> DEFINE u == owner[l.client]
<1>1. UNCHANGED connVars /\ accepting' = accepting /\ lookups' = lookups \ {l} /\ lookups' \subseteq lookups
  BY DEF NpcLookupReturns, lifeVars
<1>2. u \in Users
  BY LenProperties, ElementOfSeq DEF ConnInv, ConnTypes, QueueInv, QueueTypes
<1>3. Sound(queue) /\ \A k \in lookups : owner[k.client] \notin {u} => k \in lookups'
  BY <1>1, QueueIsSound
<1>4. IsCurrent(l) => queue.mm.status[u] # "queued" /\ queue.entries[u].client = l.client
  BY <1>2 DEF QueueInv, EntriesAgree, IsCurrent
<1>5. IsCurrent(l) =>
        /\ Sound(DropEntry(queue, u)) /\ Narrows(queue, DropEntry(queue, u)) /\ Reserves(queue, DropEntry(queue, u), {})
  BY <1>2, <1>3, <1>4, DropNarrows
<1>6. CASE StillWanted(l) /\ queue' = DropEntry(queue, u) /\ createRoom(l.client, AI, NoMatch)
  <2>1. IsCurrent(l) /\ l.client \in Conns
    <3>1. IsCurrent(l) /\ l.client \in open
      BY <1>6 DEF StillWanted, CanBeSeated
    <3>. QED
      BY <3>1, ClientIs DEF ConnInv, ConnsAgree
  <2>2. Reserves(queue, queue', {u})
    BY <1>5, <1>6, <2>1 DEF Reserves
  <2>3. \A v \in {u} : v = owner[l.client] \/ (AI # AI /\ v = owner[AI])
    OBVIOUS
  <2>4. AI \in Conns \cup {AI}
    OBVIOUS
  <2>5. queue'.mm.status[u] # "queued"
    BY <1>2, <1>4, <1>5, <1>6, <2>1 DEF Narrows
  <2>6. queue'.mm.status[owner[l.client]] # "queued"
    BY <2>5
  <2>. HIDE DEF u
  <2>. QED
    BY <1>1, <1>3, <1>5, <1>6, <2>1, <2>2, <2>3, <2>4, <2>6, BooksOpened
<1>7. CASE queue' = ReleaseUser(IF IsCurrent(l) /\ answer # "npc" THEN DropEntry(queue, u) ELSE queue, u)
           /\ UNCHANGED roomVars
  <2> DEFINE p == IF IsCurrent(l) /\ answer # "npc" THEN DropEntry(queue, u) ELSE queue
  <2>1. Sound(p) /\ Narrows(queue, p) /\ Reserves(queue, p, {})
    BY <1>3, <1>5 DEF Narrows, Reserves
  <2>. HIDE DEF p
  <2>2. Sound(queue') /\ Narrows(p, queue') /\ Reserves(p, queue', {}) /\ queue'.mm.status[u] = "none"
    BY <1>2, <1>7, <2>1, ReleaseNarrows DEF p
  <2>3. Narrows(queue, queue') /\ Reserves(queue, queue', {})
    <3>1. {} \cup {} = {}
      OBVIOUS
    <3>. QED
      BY <2>1, <2>2, <3>1, NarrowsAgain
  <2>4. QueueInv'
    BY <1>1, <2>2, <2>3, QueueNarrowedHere
  <2>5. active' = active
    BY <1>7 DEF roomVars
  <2>6. \A v \in Users : queue'.mm.status[v] = "matched" => StillHeld(v)
    BY <1>3, <2>2, <2>3, <2>5 DEF Reserves, StillHeld
  <2>7. WaitStep
    BY <2>3, <2>5, WaitsNarrowed
  <2>. QED
    BY <2>4, <2>6, <2>7 DEF BooksStep
<1>8. CASE /\ answer \in {"npc", "none"} /\ ~StillWanted(l) /\ queue' = ReleaseUser(queue, u) /\ UNCHANGED roomVars
  <2>1. Sound(queue') /\ Narrows(queue, queue') /\ Reserves(queue, queue', {}) /\ queue'.mm.status[u] = "none"
    BY <1>2, <1>3, <1>8, ReleaseNarrows
  <2>2. QueueInv'
    BY <1>1, <2>1, QueueNarrowedHere
  <2>3. \A v \in Users : queue'.mm.status[v] = "matched" => StillHeld(v)
    BY <1>3, <1>8, <2>1 DEF Reserves, StillHeld, roomVars
  <2>4. WaitStep
    BY <1>8, <2>1, WaitsNarrowed DEF roomVars
  <2>. QED
    BY <2>2, <2>3, <2>4 DEF BooksStep
<1>9. CASE /\ answer \in {"none", "error"}
           /\ queue' = ReleaseUser(IF IsCurrent(l) THEN DropEntry(queue, u) ELSE queue, u) /\ UNCHANGED roomVars
  BY <1>7, <1>9
<1>. QED
  BY <1>6, <1>8, <1>9 DEF NpcLookupReturns

LEMMA LobbyBooks ==
  ASSUME ConnInv, QueueInv, RoomInv, LobbyNext
  PROVE  BooksStep
BY JoinAiBooks, JoinAndWaitBooks, JoinAndPlayBooks, QueueLeaveBooks, FallbackBooks, NpcLookupBooks DEF LobbyNext

-----------------------------------------------------------------------------
(* The tournament and the matches.                                         *)

LEMMA TournamentBooks ==
  ASSUME ConnInv, QueueInv, RoomInv, BracketInv, TournamentNext
  PROVE  BooksStep
<1>1. ASSUME NEW c \in clients, NEW m \in Matches, TournamentJoin(c, m) PROVE BooksStep
  <2>1. /\ UNCHANGED connVars /\ lookups' = lookups /\ accepting' = accepting /\ active' = active
        /\ queue' = LeaveQueueOf(queue, owner[c])
    BY <1>1 DEF TournamentJoin, lifeVars, roomVars
  <2>2. owner[c] \in Users
    BY ClientIs
  <2>3. Sound(queue') /\ Narrows(queue, queue') /\ Reserves(queue, queue', {})
    BY <2>1, <2>2, QueueIsSound, LeaveNarrows
  <2>4. QueueInv'
    BY <2>1, <2>3, QueueNarrowedHere
  <2>. QED
    BY <2>1, <2>3, <2>4, BooksNarrowed
<1>2. ASSUME NEW j \in joins, NEW seenReady \in BOOLEAN, TournamentLookupReturns(j, seenReady) PROVE BooksStep
  <2>1. UNCHANGED <<connVars, queue, lookups, accepting>>
    BY <1>2 DEF TournamentLookupReturns, lifeVars
  <2>2. j.match # NoMatch
    BY HubAssumption DEF BracketInv, BracketTypes
  <2>3. ASSUME NEW left, NEW right, createRoom(left, right, j.match)
        PROVE  active \subseteq active' /\ \A r \in active' \ active : rooms'[r].match # NoMatch
    <3>1. active' = active \cup {created + 1} /\ rooms'[created + 1] = NewRoom(left, right, j.match)
      BY <2>3, CreateIs
    <3>2. NewRoom(left, right, j.match).match = j.match
      BY DEF NewRoom
    <3>. QED
      BY <2>2, <3>1, <3>2
  <2>4. active' = active \/ \E left, right : createRoom(left, right, j.match)
    BY <1>2 DEF TournamentLookupReturns, createRoomFails, roomVars
  <2>. QED
    BY <2>1, <2>3, <2>4, BooksSame
<1>3. ASSUME NEW s \in starts, NEW takesEffect \in BOOLEAN, NEW fails \in BOOLEAN, StartReturns(s, takesEffect, fails)
      PROVE  BooksStep
  <2>1. UNCHANGED <<connVars, lookups, accepting>>
    BY <1>3 DEF StartReturns
  <2>2. CASE s.room \in active /\ RemoveRoom(s.room, queue, rooms, writes)
    <3>1. s.room \in DOMAIN rooms
      BY <2>2 DEF RoomInv, RoomTypes
    <3>. QED
      BY <2>1, <2>2, <3>1, BooksRemoved
  <2>3. CASE UNCHANGED <<queue, roomVars>>
    BY <2>1, <2>3, BooksSame DEF roomVars
  <2>. QED
    BY <1>3, <2>2, <2>3 DEF StartReturns
<1>. QED
  BY <1>1, <1>2, <1>3 DEF TournamentNext

LEMMA FinishBooks ==
  ASSUME ConnInv, QueueInv, RoomInv, NEW r \in active, NEW room \in Room, room.seat = rooms[r].seat,
         NEW side \in Sides, finishRoom(r, room, side)
  PROVE  BooksStep
<1> DEFINE done == Ended(room, side)
<1>1. UNCHANGED <<connVars, lookups, accepting>>
  BY DEF finishRoom
<1>4. \/ RemoveRoom(r, queue, [rooms EXCEPT ![r] = done], writes)
      \/ UNCHANGED <<queue, active>>
  BY DEF finishRoom, Ended
<1>. HIDE DEF done
<1>2. done.seat = rooms[r].seat
  BY FinishedFits DEF done
<1>3. r \in DOMAIN rooms
  BY DEF RoomInv, RoomTypes
<1>5. [rooms EXCEPT ![r] = done][r].seat = rooms[r].seat
  BY <1>2, <1>3
<1> DEFINE rs == [rooms EXCEPT ![r] = done]
<1>6. CASE RemoveRoom(r, queue, rs, writes)
  <2>1. rs[r].seat = rooms[r].seat
    BY <1>5
  <2>. HIDE DEF rs
  <2>. QED
    BY <1>1, <1>3, <1>6, <2>1, BooksRemoved
<1>7. CASE UNCHANGED <<queue, active>>
  BY <1>1, <1>7, BooksSame
<1>. QED
  BY <1>4, <1>6, <1>7

\* What the window of a lost seat leaves behind when it ends.
Expired(room) ==
  [room EXCEPT !.session = expireReconnect(room.session, room.waited), !.timer = FALSE, !.gone = {}]

LEMMA ExpiredIs ==
  ASSUME NEW room \in Room
  PROVE  /\ Expired(room) \in Room /\ Expired(room).seat = room.seat /\ Expired(room).match = room.match
         /\ Expired(room).fin = room.fin /\ Expired(room).session = expireReconnect(room.session, room.waited)
<1>1. room.session \in Session /\ room.waited \in Nat
  BY WindowAssumption DEF Room
<1>2. expireReconnect(room.session, room.waited) \in Session
  BY <1>1, MethodsType DEF Sides
<1>. QED
  BY <1>2 DEF Room, Expired

LEMMA MatchBooks ==
  ASSUME ConnInv, QueueInv, RoomInv, MatchNext
  PROVE  BooksStep
<1>0. \A r \in active : r \in DOMAIN rooms /\ rooms[r] \in Room
  BY DEF RoomInv, RoomTypes
<1>1. ASSUME NEW c \in clients, NEW r \in active, GameReady(c, r) \/ GamePause(c, r) \/ GameResume(c, r)
      PROVE  BooksStep
  <2>1. GameReady(c, r) => UNCHANGED <<connVars, queue, lookups, accepting, active>>
    BY DEF GameReady, lifeVars
  <2>2. GamePause(c, r) => UNCHANGED <<connVars, queue, lookups, accepting, active>>
    BY DEF GamePause, lifeVars
  <2>3. GameResume(c, r) => UNCHANGED <<connVars, queue, lookups, accepting, active>>
    BY DEF GameResume, lifeVars
  <2>. QED
    BY <1>1, <2>1, <2>2, <2>3, BooksSame
<1>2. ASSUME NEW r \in scheduled, NEW side \in Sides, MatchEnds(r, side) PROVE BooksStep
  <2>1. r \in active /\ finishRoom(r, rooms[r], side)
    BY <1>2 DEF MatchEnds, RoomInv, RoomTypes
  <2>. QED
    BY <1>0, <2>1, FinishBooks
<1>3. ASSUME NEW r \in active, RoomClock(r) \/ RetryTimerFires(r) PROVE BooksStep
  <2>1. UNCHANGED <<connVars, queue, lookups, accepting, active>>
    BY <1>3 DEF RoomClock, RetryTimerFires, lifeVars
  <2>. QED
    BY <2>1, BooksSame
<1>4. ASSUME NEW r \in active, ReconnectTimerFires(r) PROVE BooksStep
  <2> DEFINE room == rooms[r]
             expired == Expired(room)
             rs == [rooms EXCEPT ![r] = expired]
  <2>2. winnerSide(room.session) # NoSide => winnerSide(room.session) \in Sides
    BY DEF winnerSide, opposite, Sides
  <2>3. \/ RemoveRoom(r, queue, rs, writes) /\ UNCHANGED <<connVars, lookups, accepting>>
        \/ winnerSide(room.session) # NoSide /\ finishRoom(r, expired, winnerSide(room.session))
    BY <1>4 DEF ReconnectTimerFires, Expired
  <2>. HIDE DEF expired
  <2>1. expired \in Room /\ expired.seat = rooms[r].seat
    BY <1>0, ExpiredIs DEF expired
  <2>4. rs[r].seat = rooms[r].seat
    BY <1>0, <2>1
  <2>. HIDE DEF rs, room
  <2>5. CASE RemoveRoom(r, queue, rs, writes) /\ UNCHANGED <<connVars, lookups, accepting>>
    BY <1>0, <2>4, <2>5, BooksRemoved
  <2>6. CASE winnerSide(room.session) # NoSide /\ finishRoom(r, expired, winnerSide(room.session))
    BY <2>1, <2>2, <2>6, FinishBooks
  <2>. QED
    BY <2>3, <2>5, <2>6
<1>5. ASSUME NEW r \in writes, NEW takesEffect \in BOOLEAN, NEW fails \in BOOLEAN, WriteReturns(r, takesEffect, fails)
      PROVE  BooksStep
  <2>1. UNCHANGED <<connVars, lookups, accepting>> /\ r \in DOMAIN rooms
    BY <1>5 DEF WriteReturns, RoomInv, RoomTypes
  <2>2. RemoveRoom(r, queue, rooms, writes \ {r}) \/ UNCHANGED <<queue, active>>
    BY <1>5 DEF WriteReturns
  <2>. QED
    BY <2>1, <2>2, BooksRemoved, BooksSame
<1>. QED
  BY <1>1, <1>2, <1>3, <1>4, <1>5 DEF MatchNext

\* Every step keeps the books.
LEMMA BooksAreKept ==
  ASSUME ConnInv, QueueInv, RoomInv, BracketInv, [Next]_vars
  PROVE  BooksStep
<1>1. CASE UNCHANGED vars
  BY <1>1, BooksSame DEF vars, roomVars, lifeVars
<1>. QED
  BY <1>1, ServerBooks, LobbyBooks, TournamentBooks, MatchBooks DEF Next

-----------------------------------------------------------------------------
(* The rooms, step by step: RoomInv is kept, and every room after the step *)
(* was there before with the same match and players, or has just begun.    *)

OwnersStay == DOMAIN owner \subseteq DOMAIN owner' /\ \A c \in DOMAIN owner : owner'[c] = owner[c]

SameHands(r) ==
  /\ rooms'[r].seat = rooms[r].seat /\ rooms'[r].gone = rooms[r].gone /\ rooms'[r].timer = rooms[r].timer
  /\ rooms'[r].session.disconnected = rooms[r].session.disconnected

SamePlayers(r) ==
  \A side \in Sides :
    /\ rooms'[r].seat[side] = AI <=> rooms[r].seat[side] = AI
    /\ rooms[r].seat[side] # AI => owner'[rooms'[r].seat[side]] = owner[rooms[r].seat[side]]

Keeps(r) ==
  /\ r \in DOMAIN rooms /\ (r \in active' => r \in active)
  /\ rooms'[r].match = rooms[r].match
  /\ SamePlayers(r)
  /\ rooms[r].fin # "no" => rooms'[r].fin # "no"
  /\ clients' = clients => rooms'[r].seat = rooms[r].seat
  /\ clients' = clients /\ rooms'[r].fin = "no" => SameHands(r)

Moved(r) ==
  /\ Keeps(r)
  /\ rooms'[r] \in Room /\ Fits(rooms'[r])
  /\ rooms'[r].seat["left"] \in DOMAIN owner' /\ rooms'[r].seat["right"] \in DOMAIN owner' \cup {AI}
  /\ r \in writes' <=> rooms'[r].fin = "writing"
  /\ r \in active' => (r \in scheduled' <=> rooms'[r].phase = "playing")

\* Who may be seated in a new room.
Suits(left, right, m) ==
  /\ left \in DOMAIN owner /\ m \in Matches \cup {NoMatch}
  /\ \/ right = AI /\ m = NoMatch
     \/ /\ right \in DOMAIN owner
        /\ owner[left] # owner[right] /\ SameKind(owner[left], owner[right])
  /\ m # NoMatch => owner[left] = Participants[m]["left"] /\ owner[right] = Participants[m]["right"]
  /\ m = NoMatch => accepting /\ left \in clients /\ right \in clients \cup {AI}

Begins(r) ==
  /\ r = created + 1 /\ r \notin DOMAIN rooms /\ created' = created + 1 /\ owner' = owner /\ clients' = clients
  /\ \E left, right, m : Suits(left, right, m) /\ rooms'[r] = NewRoom(left, right, m)

RoomsMove ==
  /\ OwnersStay /\ created <= created'
  /\ \A r \in DOMAIN rooms' : Keeps(r) \/ Begins(r)
  /\ created' = created \/ Begins(created')

RoomsStep == RoomInv' /\ RoomsMove

RoomOfTyped == roomOf \in Seq(RoomIds \cup {NoRoom}) /\ Len(roomOf) = Len(owner)

LEMMA RoomsMoved ==
  ASSUME RoomInv, OwnersStay, RoomOfTyped', created' = created, scheduled' \subseteq active',
         DOMAIN rooms' = active' \cup writes', \A r \in DOMAIN rooms' : Moved(r)
  PROVE  RoomsStep
<1>1. \A r \in DOMAIN rooms' : r \in DOMAIN rooms
  BY DEF Moved, Keeps
<1>2. \A r \in DOMAIN rooms : r \in 1..created
  BY DEF RoomInv, RoomTypes
<1>3. RoomTypes'
  BY <1>1, <1>2 DEF RoomTypes, RoomOfTyped, Moved, RoomInv
<1>4. RoomInv'
  <2>1. \A r \in active' : r \in DOMAIN rooms'
    OBVIOUS
  <2>. QED
    BY <1>3, <2>1 DEF RoomInv, Moved
<1>5. created <= created'
  BY HubAssumption DEF RoomInv, RoomTypes
<1>. QED
  BY <1>4, <1>5 DEF RoomsStep, RoomsMove, Moved

\* A room the step leaves alone.
LEMMA Unmoved ==
  ASSUME RoomInv, OwnersStay, NEW r \in DOMAIN rooms, rooms'[r] = rooms[r], r \in active' => r \in active,
         r \in writes' <=> r \in writes, r \in active' => (r \in scheduled' <=> r \in scheduled)
  PROVE  Moved(r)
<1>1. /\ rooms[r] \in Room /\ Fits(rooms[r])
      /\ rooms[r].seat["left"] \in DOMAIN owner /\ rooms[r].seat["right"] \in DOMAIN owner \cup {AI}
  BY RoomIs
<1>2. SamePlayers(r)
  <2>1. \A side \in Sides : rooms[r].seat[side] \in DOMAIN owner \cup {AI}
    BY <1>1 DEF Sides
  <2>. QED
    BY <2>1 DEF SamePlayers, OwnersStay
<1>3. Keeps(r)
  BY <1>2 DEF Keeps, SameHands
<1>4. /\ r \in writes <=> rooms[r].fin = "writing"
      /\ r \in active => (r \in scheduled <=> rooms[r].phase = "playing")
  BY DEF RoomInv
<1>. QED
  BY <1>1, <1>3, <1>4 DEF Moved, OwnersStay

LEMMA RoomsUnmoved ==
  ASSUME RoomInv, OwnersStay, RoomOfTyped', UNCHANGED <<rooms, active, created, scheduled, writes>>
  PROVE  RoomsStep
<1>1. \A r \in DOMAIN rooms' : Moved(r)
  BY Unmoved
<1>2. DOMAIN rooms' = active' \cup writes' /\ scheduled' \subseteq active'
  BY DEF RoomInv, RoomTypes
<1>. QED
  BY <1>1, <1>2, RoomsMoved

\* One room changes.
LEMMA OneRoomMoves ==
  ASSUME RoomInv, OwnersStay, RoomOfTyped', active' = active, created' = created,
         NEW r \in active, NEW new, rooms' = [rooms EXCEPT ![r] = new], Moved(r),
         \A s : s # r => (s \in writes' <=> s \in writes) /\ (s \in scheduled' <=> s \in scheduled)
  PROVE  RoomsStep
<1>1. r \in DOMAIN rooms /\ DOMAIN rooms = active \cup writes /\ scheduled \subseteq active
  BY DEF RoomInv, RoomTypes
<1>2. \A s \in DOMAIN rooms' : s # r => Moved(s)
  <2> SUFFICES ASSUME NEW s \in DOMAIN rooms, s # r PROVE Moved(s)
    OBVIOUS
  <2>1. rooms'[s] = rooms[s]
    OBVIOUS
  <2>. QED
    BY <2>1, Unmoved
<1>3. DOMAIN rooms' = active' \cup writes' /\ scheduled' \subseteq active'
  BY <1>1
<1>. QED
  BY <1>2, <1>3, RoomsMoved

\* A room that is taken off, or whose object changes before it is.
LEMMA RoomTakenOff ==
  ASSUME ConnInv, RoomInv, owner' = owner, NEW r \in DOMAIN rooms, NEW rs, NEW writing,
         RemoveRoom(r, queue, rs, writing), DOMAIN rs = DOMAIN rooms,
         \A s \in DOMAIN rooms : s # r => rs[s] = rooms[s],
         writing \subseteq writes, writes \ writing \subseteq {r}, r \in writing => rs[r] = rooms[r]
  PROVE  RoomsStep
<1>1. /\ active' = active \ {r} /\ scheduled' = scheduled \ {r} /\ created' = created /\ writes' = writing
      /\ rooms' = Restrict(rs, (active \ {r}) \cup writing)
      /\ roomOf' = [c \in DOMAIN owner |-> IF c \in Range(rs[r].seat) THEN NoRoom ELSE roomOf[c]]
  BY DEF RemoveRoom
<1>2. DOMAIN rooms = active \cup writes /\ scheduled \subseteq active
  BY DEF RoomInv, RoomTypes
<1>3. /\ DOMAIN rooms' = active' \cup writes' /\ DOMAIN rooms' \subseteq DOMAIN rooms
      /\ \A s \in DOMAIN rooms' : rooms'[s] = rs[s]
  BY <1>1, <1>2 DEF Restrict
<1>4. OwnersStay
  BY DEF OwnersStay
<1>5. ASSUME NEW s \in DOMAIN rooms' PROVE Moved(s)
  <2>1. rooms'[s] = rooms[s] /\ s \in DOMAIN rooms
    BY <1>1, <1>3, <1>5
  <2>2. s \in writes' <=> s \in writes
    BY <1>1, <1>3, <1>5
  <2>. QED
    BY <1>1, <1>4, <2>1, <2>2, Unmoved
<1>6. RoomOfTyped'
  <2>1. Len(owner) \in Nat /\ DOMAIN owner = 1..Len(owner) /\ owner \in Seq(Users)
    BY LenProperties DEF ConnInv, ConnTypes
  <2>2. \A c \in DOMAIN owner : roomOf[c] \in RoomIds \cup {NoRoom}
    BY <2>1, LenProperties, ElementOfSeq DEF RoomInv, RoomTypes
  <2>3. roomOf' \in [1..Len(owner) -> RoomIds \cup {NoRoom}]
    BY <1>1, <2>1, <2>2
  <2>. QED
    BY <2>1, <2>3, SeqDef, LenProperties DEF RoomOfTyped
<1>. QED
  BY <1>1, <1>2, <1>3, <1>4, <1>5, <1>6, RoomsMoved

\* A room that is opened.
LEMMA RoomOpens ==
  ASSUME ConnInv, RoomInv, UNCHANGED <<owner, clients, writes>>,
         NEW left, NEW right, NEW m, createRoom(left, right, m), Suits(left, right, m)
  PROVE  RoomsStep
<1> DEFINE r == created + 1
           new == NewRoom(left, right, m)
<1>1. /\ r \notin DOMAIN rooms /\ r \in 1..r /\ r \in 0..MaxRooms /\ created \in Nat
      /\ rooms'[r] = new
      /\ \A s \in DOMAIN rooms : rooms'[s] = rooms[s]
      /\ DOMAIN rooms' = DOMAIN rooms \cup {r}
      /\ active' = active \cup {r} /\ created' = r /\ scheduled' = scheduled
      /\ new.seat["left"] = left /\ new.seat["right"] = right
  <2>1. r \notin DOMAIN rooms /\ r \in 1..r /\ r \in 0..MaxRooms /\ created \in Nat
    BY CreateIs
  <2>2. rooms'[r] = new /\ \A s \in DOMAIN rooms : rooms'[s] = rooms[s]
    BY CreateIs
  <2>3. DOMAIN rooms' = DOMAIN rooms \cup {r}
    BY CreateIs
  <2>4. active' = active \cup {r} /\ created' = r /\ scheduled' = scheduled
    BY CreateIs
  <2>5. new.seat["left"] = left /\ new.seat["right"] = right
    BY CreateIs
  <2>. QED
    BY <2>1, <2>2, <2>3, <2>4, <2>5
<1>2. DOMAIN rooms = active \cup writes /\ scheduled \subseteq active /\ \A s \in DOMAIN rooms : s \in 1..created
  BY DEF RoomInv, RoomTypes
<1>3. left \in Conns /\ right \in Conns \cup {AI} /\ m \in Matches \cup {NoMatch}
      /\ left \in DOMAIN owner /\ right \in DOMAIN owner \cup {AI}
  <2>1. DOMAIN owner \subseteq Conns
    BY LenProperties, HubAssumption DEF ConnInv, ConnTypes, Conns
  <2>. QED
    BY <2>1 DEF Suits
<1>4. new \in Room /\ Fits(new) /\ new.fin = "no" /\ new.phase = "waiting"
  BY <1>3, NewRoomFits DEF NewRoom
<1>5. Begins(r)
  BY <1>1 DEF Begins
<1>6. OwnersStay
  BY DEF OwnersStay
<1>. HIDE DEF new
<1>7. ASSUME NEW s \in DOMAIN rooms PROVE Moved(s)
  <2>1. rooms'[s] = rooms[s] /\ s # r
    BY <1>1
  <2>. HIDE DEF r
  <2>. QED
    BY <1>1, <1>6, <2>1, Unmoved
<1>8. RoomOfTyped'
  <2>1. Len(owner) \in Nat /\ DOMAIN owner = 1..Len(owner) /\ owner \in Seq(Users)
    BY LenProperties DEF ConnInv, ConnTypes
  <2>2. \A c \in DOMAIN owner : roomOf[c] \in RoomIds \cup {NoRoom}
    BY <2>1, LenProperties, ElementOfSeq DEF RoomInv, RoomTypes
  <2>3. roomOf' = [c \in DOMAIN owner |-> IF c \in {left, right} THEN r ELSE roomOf[c]]
    BY DEF createRoom
  <2>4. r \in RoomIds
    BY <1>1, HubAssumption DEF RoomIds
  <2>5. roomOf' \in [1..Len(owner) -> RoomIds \cup {NoRoom}]
    BY <2>1, <2>2, <2>3, <2>4
  <2>. QED
    BY <2>1, <2>5, SeqDef, LenProperties DEF RoomOfTyped
<1>. HIDE DEF r
<1>9. RoomTypes'
  <2>1. \A s \in DOMAIN rooms : s \in 1..created'
    BY <1>1, <1>2 DEF r
  <2>2. \A s \in DOMAIN rooms' :
          /\ s \in 1..created' /\ rooms'[s] \in Room
          /\ rooms'[s].seat["left"] \in DOMAIN owner'
          /\ rooms'[s].seat["right"] \in DOMAIN owner' \cup {AI}
    BY <1>1, <1>3, <1>4, <1>7, <2>1 DEF Moved
  <2>. QED
    BY <1>1, <1>2, <1>8, <2>2 DEF RoomTypes, RoomOfTyped
<1>10. RoomInv'
  <2>1. \A s \in DOMAIN rooms' : Fits(rooms'[s]) /\ (s \in writes' <=> rooms'[s].fin = "writing")
    BY <1>1, <1>2, <1>4, <1>7 DEF Moved
  <2>2. \A s \in active' : s \in scheduled' <=> rooms'[s].phase = "playing"
    BY <1>1, <1>2, <1>4, <1>7 DEF Moved
  <2>. QED
    BY <1>9, <2>1, <2>2 DEF RoomInv
<1>11. \A s \in DOMAIN rooms' : Keeps(s) \/ Begins(s)
  BY <1>1, <1>5, <1>7 DEF Moved
<1>12. created <= created'
  BY <1>1 DEF r
<1>13. Begins(created')
  BY <1>1, <1>5 DEF r
<1>. QED
  BY <1>6, <1>10, <1>11, <1>12, <1>13 DEF RoomsStep, RoomsMove

\* The messages of a match and the clock change one room, which keeps its players.
LEMMA SeatsStay ==
  ASSUME RoomInv, owner' = owner, NEW r \in DOMAIN rooms, rooms'[r].seat = rooms[r].seat
  PROVE  /\ SamePlayers(r)
         /\ rooms'[r].seat["left"] \in DOMAIN owner' /\ rooms'[r].seat["right"] \in DOMAIN owner' \cup {AI}
BY RoomIs DEF SamePlayers

ReadyOf(room, side) == room.ready \cup {side} \cup (IF room.seat["right"] = AI THEN {"right"} ELSE {})
Starts(room, side) == ReadyOf(room, side) = Sides /\ markReady(room.session, side).state = "playing"
MadeReady(room, side) ==
  [room EXCEPT !.ready = ReadyOf(room, side), !.session = markReady(room.session, side),
               !.phase = IF Starts(room, side) THEN "playing" ELSE room.phase]

\* Whoever is ready for the session is ready for the room, so that both start
\* together (gameHub.ts:893-925).
LEMMA MadeReadyFits ==
  ASSUME NEW room \in Room, Fits(room), NEW side \in Sides
  PROVE  /\ MadeReady(room, side) \in Room /\ Fits(MadeReady(room, side))
         /\ MadeReady(room, side).seat = room.seat /\ MadeReady(room, side).match = room.match
         /\ MadeReady(room, side).fin = room.fin /\ MadeReady(room, side).gone = room.gone
         /\ MadeReady(room, side).timer = room.timer
         /\ MadeReady(room, side).session.disconnected = room.session.disconnected
         /\ MadeReady(room, side).phase = IF Starts(room, side) THEN "playing" ELSE room.phase
<1> DEFINE ready == ReadyOf(room, side)
           session == markReady(room.session, side)
           starting == Starts(room, side)
           phase == IF starting THEN "playing" ELSE room.phase
           new == MadeReady(room, side)
<1>0. room.session \in Session
  BY DEF Room
<1>2. new = [room EXCEPT !.ready = ready, !.session = session, !.phase = phase]
      /\ starting = (ready = Sides /\ session.state = "playing")
  BY DEF MadeReady, Starts
<1>4. /\ session \in Session /\ session.disconnected = room.session.disconnected
      /\ room.session.state # "waiting" => session = room.session
      /\ room.session.state = "waiting" =>
           /\ session.ready = room.session.ready \cup {side}
           /\ session.state = IF session.ready = Sides THEN "playing" ELSE "waiting"
  <2>1. session \in Session
    <3>1. 0 \in Nat
      OBVIOUS
    <3>. QED
      BY <1>0, <3>1, MethodsType
  <2>2. CASE room.session.state # "waiting"
    BY <2>1, <2>2 DEF markReady
  <2>3. CASE room.session.state = "waiting"
    <3>1. session = [room.session EXCEPT !.ready = room.session.ready \cup {side},
                       !.state = IF room.session.ready \cup {side} = Sides THEN "playing" ELSE "waiting"]
      BY <2>3 DEF markReady
    <3>. HIDE DEF session
    <3>. QED
      BY <1>0, <2>1, <2>3, <3>1 DEF Session
  <2>. QED
    BY <2>2, <2>3
<1>5. /\ ready \in SUBSET Sides /\ room.ready \subseteq ready /\ side \in ready
      /\ room.seat["right"] = AI => "right" \in ready
  BY DEF Room, Sides, ReadyOf
<1>. HIDE DEF session, ready
<1>6. BeforeStart(room.session) =>
        room.session.ready # Sides /\ room.session.ready \subseteq room.ready \cup (IF room.seat["right"] = AI THEN {"right"} ELSE {})
  BY DEF Fits
<1>7. BeforeStart(room.session) => room.session.ready \subseteq ready
  BY <1>5, <1>6
<1>8. room.session.state = "waiting" => session.ready \subseteq ready
  BY <1>4, <1>5, <1>7 DEF BeforeStart
<1>9. room.phase = IF room.session.state = "reconnecting" THEN "paused" ELSE room.session.state
  BY DEF Fits
<1>10. phase = (IF session.state = "reconnecting" THEN "paused" ELSE session.state)
       /\ phase \in ResumableStates \cup {"finished"}
  <2>1. CASE room.session.state # "waiting"
    <3>1. session = room.session /\ room.phase \in ResumableStates \cup {"finished"}
      BY <1>4, <2>1 DEF Room
    <3>2. starting => session.state = "playing"
      BY <1>2
    <3>. HIDE DEF starting
    <3>. QED
      BY <1>9, <3>1, <3>2
  <2>2. CASE room.session.state = "waiting"
    <3>1. session.state = "playing" => ready = Sides
      BY <1>4, <1>5, <1>8, <2>2
    <3>2. room.phase = "waiting"
      BY <1>9, <2>2
    <3>. HIDE DEF starting
    <3>. QED
      BY <1>2, <1>4, <2>2, <3>1, <3>2 DEF ResumableStates
  <2>. QED
    BY <2>1, <2>2
<1>11. BeforeStart(session) => session.ready # Sides /\ session.ready \subseteq ready
  BY <1>4, <1>6, <1>7, <1>8 DEF BeforeStart
<1>. HIDE DEF new, phase, starting
<1>12. /\ new \in Room /\ new.session = session /\ new.ready = ready /\ new.phase = phase
       /\ new.seat = room.seat /\ new.match = room.match /\ new.fin = room.fin /\ new.gone = room.gone
       /\ new.timer = room.timer
  <2>1. session \in Session
    BY <1>4
  <2>. QED
    BY <1>2, <1>5, <1>10, <2>1 DEF Room
<1>13. Fits(new)
  <2>1. (session.state # "finished" <=> room.session.state # "finished")
        /\ (session.state = "reconnecting" <=> room.session.state = "reconnecting")
        /\ session.disconnected = room.session.disconnected
    BY <1>4
  <2>2. /\ room.fin = "no" <=> room.session.state # "finished"
        /\ room.session.state = "reconnecting" <=> room.session.disconnected # {}
        /\ \A other \in room.gone : room.seat[other] # AI
    BY DEF Fits
  <2>3. BeforeStart(session) =>
          /\ session.ready # Sides
          /\ session.ready \subseteq ready \cup (IF room.seat["right"] = AI THEN {"right"} ELSE {})
    BY <1>11
  <2>. QED
    BY <1>10, <1>12, <2>1, <2>2, <2>3 DEF Fits
<1>. QED
  BY <1>4, <1>12, <1>13 DEF new, phase, starting

LEMMA ReadyRooms ==
  ASSUME RoomInv, NEW c \in clients, NEW r \in active, GameReady(c, r)
  PROVE  RoomsStep
<1> DEFINE room == rooms[r]
<1>0. r \in DOMAIN rooms /\ room \in Room /\ Fits(room) /\ (r \in writes <=> room.fin = "writing")
      /\ (r \in scheduled <=> room.phase = "playing")
  BY RoomIs DEF RoomInv, RoomTypes
<1>1. PICK side \in sideFor(rooms[r], c) :
        LET ready == rooms[r].ready \cup {side} \cup (IF rooms[r].seat["right"] = AI THEN {"right"} ELSE {})
            session == markReady(rooms[r].session, side)
            starting == ready = Sides /\ session.state = "playing"
        IN /\ rooms' = [rooms EXCEPT ![r] =
                          [rooms[r] EXCEPT !.ready = ready, !.session = session,
                                           !.phase = IF starting THEN "playing" ELSE @]]
           /\ scheduled' = IF starting THEN scheduled \cup {r} ELSE scheduled
  BY DEF GameReady
<1> DEFINE new == MadeReady(room, side)
<1>2. rooms' = [rooms EXCEPT ![r] = new] /\ scheduled' = IF Starts(room, side) THEN scheduled \cup {r} ELSE scheduled
  BY <1>1 DEF MadeReady, Starts, ReadyOf
<1>3. UNCHANGED <<connVars, owner, clients, roomOf, active, created, writes>>
  BY DEF GameReady, connVars, dbVars
<1>4. side \in Sides
  BY DEF sideFor
<1>5. /\ new \in Room /\ Fits(new) /\ new.seat = room.seat /\ new.match = room.match /\ new.fin = room.fin
      /\ new.gone = room.gone /\ new.timer = room.timer
      /\ new.session.disconnected = room.session.disconnected
      /\ new.phase = IF Starts(room, side) THEN "playing" ELSE room.phase
  BY <1>0, <1>4, MadeReadyFits
<1>. HIDE DEF new
<1>6. rooms'[r] = new
  BY <1>0, <1>2
<1>7. Moved(r)
  <2>1. Keeps(r)
    BY <1>0, <1>3, <1>5, <1>6, SeatsStay DEF Keeps, SameHands
  <2>2. r \in scheduled' <=> new.phase = "playing"
    BY <1>0, <1>2, <1>5
  <2>. QED
    BY <1>0, <1>3, <1>5, <1>6, <2>1, <2>2, SeatsStay DEF Moved
<1>8. OwnersStay /\ RoomOfTyped'
  BY <1>3 DEF OwnersStay, RoomOfTyped, RoomInv, RoomTypes
<1>9. \A s : s # r => (s \in writes' <=> s \in writes) /\ (s \in scheduled' <=> s \in scheduled)
  BY <1>2, <1>3
<1>. QED
  BY <1>2, <1>3, <1>7, <1>8, <1>9, OneRoomMoves

SetTo(room, s, phase) == [room EXCEPT !.session = s, !.phase = phase]

LEMMA PauseRooms ==
  ASSUME RoomInv, NEW c \in clients, NEW r \in active, GamePause(c, r) \/ GameResume(c, r)
  PROVE  RoomsStep
<1>0. r \in DOMAIN rooms /\ rooms[r] \in Room /\ Fits(rooms[r]) /\ (r \in writes <=> rooms[r].fin = "writing")
      /\ (r \in scheduled <=> rooms[r].phase = "playing") /\ rooms[r].session \in Session
  BY RoomIs DEF RoomInv, RoomTypes, Room
<1> DEFINE room == rooms[r]
<1>1. PICK s \in Session, phase \in {"playing", "paused"} :
        /\ rooms' = [rooms EXCEPT ![r] = SetTo(room, s, phase)]
        /\ s.state = phase /\ room.session.state \in {"playing", "paused"}
        /\ s.disconnected = room.session.disconnected
        /\ r \in scheduled' <=> phase = "playing"
        /\ \A t : t # r => (t \in scheduled' <=> t \in scheduled)
  <2>1. CASE GamePause(c, r)
    <3> DEFINE s == pause(room.session)
    <3>1. room.phase = "playing" /\ scheduled' = scheduled \ {r}
          /\ rooms' = IF s.state # "paused" THEN [rooms EXCEPT ![r].session = s]
                      ELSE [rooms EXCEPT ![r].session = s, ![r].phase = "paused"]
      BY <2>1 DEF GamePause
    <3>2. room.session.state = "playing"
      BY <1>0, <3>1 DEF Fits
    <3>3. s \in Session /\ s.state = "paused" /\ s.disconnected = room.session.disconnected
      <4>1. s = [room.session EXCEPT !.state = "paused"]
        BY <3>2 DEF pause
      <4>. QED
        BY <1>0, <4>1 DEF Session, SessionStates, ResumableStates
    <3>. HIDE DEF s
    <3>4. rooms' = [rooms EXCEPT ![r] = SetTo(room, s, "paused")]
      BY <1>0, <3>1, <3>3 DEF SetTo
    <3>. QED
      BY <3>1, <3>2, <3>3, <3>4
  <2>2. CASE GameResume(c, r)
    <3> DEFINE s == resume(room.session)
    <3>1. room.phase = "paused" /\ scheduled' = scheduled \cup {r} /\ s.state = "playing"
          /\ rooms' = [rooms EXCEPT ![r].session = s, ![r].phase = "playing"]
      BY <2>2 DEF GameResume
    <3>2. room.session.state = "paused"
      BY <1>0, <3>1 DEF Fits, resume
    <3>3. s \in Session /\ s.disconnected = room.session.disconnected
      <4>1. s = [room.session EXCEPT !.state = "playing"]
        BY <3>2 DEF resume
      <4>. QED
        BY <1>0, <4>1 DEF Session, SessionStates, ResumableStates
    <3>. HIDE DEF s
    <3>4. rooms' = [rooms EXCEPT ![r] = SetTo(room, s, "playing")]
      BY <1>0, <3>1 DEF SetTo
    <3>. QED
      BY <3>1, <3>2, <3>3, <3>4
  <2>. QED
    BY <2>1, <2>2
<1> DEFINE new == SetTo(room, s, phase)
<1>3. UNCHANGED <<connVars, owner, clients, roomOf, active, created, writes>>
  <2>1. GamePause(c, r) => UNCHANGED <<connVars, owner, clients, roomOf, active, created, writes>>
    BY DEF GamePause, connVars, dbVars
  <2>2. GameResume(c, r) => UNCHANGED <<connVars, owner, clients, roomOf, active, created, writes>>
    BY DEF GameResume, connVars, dbVars
  <2>. QED
    BY <2>1, <2>2
<1>4. /\ new \in Room /\ new.session = s /\ new.ready = room.ready /\ new.phase = phase
      /\ new.seat = room.seat /\ new.match = room.match /\ new.fin = room.fin /\ new.gone = room.gone
      /\ new.timer = room.timer
  <2>1. phase \in ResumableStates \cup {"finished"}
    BY DEF ResumableStates
  <2>. QED
    BY <1>0, <2>1 DEF Room, SetTo
<1>5. Fits(new)
  BY <1>0, <1>1, <1>4 DEF Fits, BeforeStart
<1>6. rooms' = [rooms EXCEPT ![r] = new] /\ rooms'[r] = new
  BY <1>0, <1>1
<1>. HIDE DEF new
<1>7. Moved(r)
  <2>1. Keeps(r)
    BY <1>0, <1>1, <1>3, <1>4, <1>6, SeatsStay DEF Keeps, SameHands
  <2>. QED
    BY <1>0, <1>1, <1>3, <1>4, <1>5, <1>6, <2>1, SeatsStay DEF Moved
<1>8. OwnersStay /\ RoomOfTyped'
  BY <1>3 DEF OwnersStay, RoomOfTyped, RoomInv, RoomTypes
<1>9. \A t : t # r => (t \in writes' <=> t \in writes) /\ (t \in scheduled' <=> t \in scheduled)
  BY <1>1, <1>3
<1>. QED
  BY <1>3, <1>6, <1>7, <1>8, <1>9, OneRoomMoves

LEMMA ClockRooms ==
  ASSUME RoomInv, NEW r \in active, RoomClock(r) \/ RetryTimerFires(r)
  PROVE  RoomsStep
<1>0. r \in DOMAIN rooms /\ rooms[r] \in Room /\ Fits(rooms[r]) /\ (r \in writes <=> rooms[r].fin = "writing")
      /\ (r \in scheduled <=> rooms[r].phase = "playing") /\ rooms[r].session \in Session
  BY RoomIs DEF RoomInv, RoomTypes, Room
<1> DEFINE room == rooms[r]
<1>1. PICK new \in Room :
        /\ rooms' = [rooms EXCEPT ![r] = new]
        /\ new.session = room.session /\ new.ready = room.ready /\ new.phase = room.phase
        /\ new.seat = room.seat /\ new.match = room.match /\ new.gone = room.gone /\ new.timer = room.timer
        /\ new.fin = room.fin \/ (new.fin = "writing" /\ room.fin = "backoff")
        /\ writes' = IF new.fin = "writing" THEN writes \cup {r} ELSE writes
  <2>1. CASE RoomClock(r)
    <3> DEFINE new == [room EXCEPT !.waited = room.waited + 1]
    <3>1. rooms' = [rooms EXCEPT ![r] = new] /\ room.waited <= RECONNECT_WINDOW_MS /\ writes' = writes
      BY <1>0, <2>1 DEF RoomClock, dbVars
    <3>2. room.waited + 1 \in 0..(RECONNECT_WINDOW_MS + 1)
      BY <1>0, <3>1, WindowAssumption DEF Room
    <3>3. /\ new \in Room /\ new.session = room.session /\ new.ready = room.ready /\ new.phase = room.phase
          /\ new.seat = room.seat /\ new.match = room.match /\ new.gone = room.gone /\ new.timer = room.timer
          /\ new.fin = room.fin
      BY <1>0, <3>2 DEF Room
    <3>4. writes' = IF new.fin = "writing" THEN writes \cup {r} ELSE writes
      BY <1>0, <3>1, <3>3
    <3>. HIDE DEF new
    <3>. QED
      BY <3>1, <3>3, <3>4
  <2>2. CASE RetryTimerFires(r)
    <3> DEFINE new == [room EXCEPT !.fin = "writing"]
    <3>1. rooms' = [rooms EXCEPT ![r] = new] /\ room.fin = "backoff" /\ writes' = writes \cup {r}
      BY <1>0, <2>2 DEF RetryTimerFires
    <3>2. /\ new \in Room /\ new.session = room.session /\ new.ready = room.ready /\ new.phase = room.phase
          /\ new.seat = room.seat /\ new.match = room.match /\ new.gone = room.gone /\ new.timer = room.timer
          /\ new.fin = "writing"
      BY <1>0 DEF Room
    <3>. HIDE DEF new
    <3>. QED
      BY <3>1, <3>2
  <2>. QED
    BY <2>1, <2>2
<1>3. UNCHANGED <<owner, clients, roomOf, active, created, scheduled>>
  BY DEF RoomClock, RetryTimerFires, connVars
<1>4. Fits(new)
  BY <1>0, <1>1 DEF Fits
<1>5. rooms'[r] = new
  BY <1>0, <1>1
<1>6. Moved(r)
  <2>1. rooms'[r].seat = rooms[r].seat
    BY <1>1, <1>5
  <2>2. Keeps(r)
    BY <1>0, <1>1, <1>3, <1>5, <2>1, SeatsStay DEF Keeps, SameHands
  <2>. QED
    BY <1>0, <1>1, <1>3, <1>4, <1>5, <2>1, <2>2, SeatsStay DEF Moved
<1>7. OwnersStay /\ RoomOfTyped'
  BY <1>3 DEF OwnersStay, RoomOfTyped, RoomInv, RoomTypes
<1>8. \A t : t # r => (t \in writes' <=> t \in writes) /\ (t \in scheduled' <=> t \in scheduled)
  BY <1>1, <1>3
<1>. QED
  BY <1>1, <1>3, <1>6, <1>7, <1>8, OneRoomMoves

LEMMA FinishRooms ==
  ASSUME ConnInv, RoomInv, NEW r \in active, NEW room \in Room, room.seat = rooms[r].seat,
         room.match = rooms[r].match, room.fin = rooms[r].fin, NEW side \in Sides, finishRoom(r, room, side)
  PROVE  RoomsStep
<1> DEFINE done == Ended(room, side)
           rs == [rooms EXCEPT ![r] = done]
<1>0. r \in DOMAIN rooms /\ (r \in writes <=> rooms[r].fin = "writing") /\ scheduled \subseteq active
  BY DEF RoomInv, RoomTypes
<1>1. rooms[r].fin = "no" /\ owner' = owner
  BY DEF finishRoom, connVars
<1>2. done \in Room /\ Fits(done) /\ done.seat = room.seat /\ done.match = room.match
      /\ done.fin = "writing" /\ done.phase = "finished"
  BY FinishedFits
<1>3. \/ RemoveRoom(r, queue, rs, writes)
      \/ /\ rooms' = rs /\ writes' = writes \cup {r} /\ scheduled' = scheduled \ {r}
         /\ UNCHANGED <<active, created, roomOf>>
  BY DEF finishRoom, Ended
<1>. HIDE DEF done
<1>4. CASE RemoveRoom(r, queue, rs, writes)
  <2>1. DOMAIN rs = DOMAIN rooms /\ \A s \in DOMAIN rooms : s # r => rs[s] = rooms[s]
    OBVIOUS
  <2>2. r \notin writes /\ writes \ writes \subseteq {r}
    BY <1>0, <1>1
  <2>. HIDE DEF rs
  <2>. QED
    BY <1>0, <1>1, <1>4, <2>1, <2>2, RoomTakenOff
<1>5. CASE /\ rooms' = rs /\ writes' = writes \cup {r} /\ scheduled' = scheduled \ {r}
           /\ UNCHANGED <<active, created, roomOf>>
  <2>1. rooms'[r] = done
    BY <1>0, <1>5
  <2>2. SamePlayers(r)
        /\ rooms'[r].seat["left"] \in DOMAIN owner' /\ rooms'[r].seat["right"] \in DOMAIN owner' \cup {AI}
    BY <1>0, <1>1, <1>2, <2>1, SeatsStay
  <2>3. Keeps(r)
    BY <1>0, <1>2, <1>5, <2>1, <2>2 DEF Keeps
  <2>4. Moved(r)
    BY <1>2, <1>5, <2>1, <2>2, <2>3 DEF Moved
  <2>5. OwnersStay /\ RoomOfTyped'
    BY <1>1, <1>5 DEF OwnersStay, RoomOfTyped, RoomInv, RoomTypes
  <2>. QED
    BY <1>5, <2>4, <2>5, OneRoomMoves
<1>. QED
  BY <1>3, <1>4, <1>5

LEMMA ExpireRooms ==
  ASSUME ConnInv, RoomInv, NEW r \in active, ReconnectTimerFires(r)
  PROVE  RoomsStep
<1> DEFINE room == rooms[r]
           expired == Expired(room)
           rs == [rooms EXCEPT ![r] = expired]
<1>0. r \in DOMAIN rooms /\ rooms[r] \in Room /\ (r \in writes <=> rooms[r].fin = "writing")
  BY DEF RoomInv, RoomTypes
<1>1. room.fin = "no"
  BY DEF ReconnectTimerFires
<1>2. winnerSide(room.session) # NoSide => winnerSide(room.session) \in Sides
  BY DEF winnerSide, opposite, Sides
<1>3. \/ RemoveRoom(r, queue, rs, writes) /\ UNCHANGED connVars
      \/ winnerSide(room.session) # NoSide /\ finishRoom(r, expired, winnerSide(room.session))
  BY DEF ReconnectTimerFires, Expired
<1>. HIDE DEF expired
<1>4. expired \in Room /\ expired.seat = rooms[r].seat /\ expired.match = rooms[r].match /\ expired.fin = rooms[r].fin
  BY <1>0, ExpiredIs DEF expired
<1>5. DOMAIN rs = DOMAIN rooms /\ \A s \in DOMAIN rooms : s # r => rs[s] = rooms[s]
  OBVIOUS
<1>6. r \notin writes /\ writes \ writes \subseteq {r}
  BY <1>0, <1>1
<1>. HIDE DEF rs, room
<1>7. CASE RemoveRoom(r, queue, rs, writes) /\ UNCHANGED connVars
  BY <1>0, <1>5, <1>6, <1>7, RoomTakenOff DEF connVars
<1>8. CASE winnerSide(room.session) # NoSide /\ finishRoom(r, expired, winnerSide(room.session))
  BY <1>2, <1>4, <1>8, FinishRooms
<1>. QED
  BY <1>3, <1>7, <1>8

LEMMA WriteRooms ==
  ASSUME ConnInv, RoomInv, NEW r \in writes, NEW takesEffect, NEW fails, WriteReturns(r, takesEffect, fails)
  PROVE  RoomsStep
<1>0. /\ r \in DOMAIN rooms /\ rooms[r] \in Room /\ Fits(rooms[r]) /\ rooms[r].fin = "writing"
      /\ DOMAIN rooms = active \cup writes /\ scheduled \subseteq active
      /\ r \in active => (r \in scheduled <=> rooms[r].phase = "playing")
  BY RoomIs DEF RoomInv, RoomTypes
<1>1. owner' = owner /\ OwnersStay
  BY DEF WriteReturns, connVars, OwnersStay
<1>2. CASE RemoveRoom(r, queue, rooms, writes \ {r})
  BY <1>0, <1>1, <1>2, RoomTakenOff
<1> DEFINE new == [rooms[r] EXCEPT !.fin = "backoff"]
<1>3. CASE /\ rooms' = Restrict([rooms EXCEPT ![r] = new], active \cup (writes \ {r}))
           /\ writes' = writes \ {r} /\ UNCHANGED <<queue, roomOf, active, created, scheduled, drain>>
  <2>1. /\ DOMAIN rooms' = active \cup (writes \ {r})
        /\ \A s \in DOMAIN rooms' : rooms'[s] = IF s = r THEN new ELSE rooms[s]
    BY <1>0, <1>3 DEF Restrict
  <2>2. /\ new \in Room /\ new.session = rooms[r].session /\ new.ready = rooms[r].ready /\ new.phase = rooms[r].phase
        /\ new.seat = rooms[r].seat /\ new.match = rooms[r].match /\ new.gone = rooms[r].gone
        /\ new.timer = rooms[r].timer /\ new.fin = "backoff"
    BY <1>0 DEF Room
  <2>. HIDE DEF new
  <2>3. Fits(new)
    BY <1>0, <2>2 DEF Fits
  <2>4. ASSUME NEW s \in DOMAIN rooms' PROVE Moved(s)
    <3>1. CASE s # r
      <4>1. rooms'[s] = rooms[s] /\ s \in DOMAIN rooms
        BY <1>0, <2>1, <2>4, <3>1
      <4>. QED
        BY <1>1, <1>3, <3>1, <4>1, Unmoved
    <3>2. CASE s = r
      <4>1. rooms'[r] = new
        BY <2>1, <2>4, <3>2
      <4>2. SamePlayers(r)
            /\ rooms'[r].seat["left"] \in DOMAIN owner' /\ rooms'[r].seat["right"] \in DOMAIN owner' \cup {AI}
        BY <1>0, <1>1, <2>2, <4>1, SeatsStay
      <4>3. Keeps(r)
        BY <1>0, <1>3, <2>2, <4>1, <4>2 DEF Keeps
      <4>. QED
        BY <1>0, <1>3, <2>2, <2>3, <3>2, <4>1, <4>2, <4>3 DEF Moved
    <3>. QED
      BY <3>1, <3>2
  <2>5. RoomOfTyped' /\ scheduled' \subseteq active' /\ DOMAIN rooms' = active' \cup writes'
    BY <1>0, <1>1, <1>3, <2>1 DEF RoomOfTyped, RoomInv, RoomTypes
  <2>. QED
    BY <1>1, <1>3, <2>4, <2>5, RoomsMoved
<1>. HIDE DEF new
<1>. QED
  BY <1>2, <1>3 DEF WriteReturns, new

LEMMA MatchRooms ==
  ASSUME ConnInv, RoomInv, MatchNext
  PROVE  RoomsStep
<1>1. ASSUME NEW r \in scheduled, NEW side \in Sides, MatchEnds(r, side) PROVE RoomsStep
  <2>1. r \in active /\ rooms[r] \in Room /\ finishRoom(r, rooms[r], side)
    BY <1>1 DEF MatchEnds, RoomInv, RoomTypes
  <2>. QED
    BY <2>1, FinishRooms
<1>. QED
  BY <1>1, ReadyRooms, PauseRooms, ClockRooms, ExpireRooms, WriteRooms DEF MatchNext

\* The two of a tournament match (gameHub.ts:660-685).
LEMMA PairSuits ==
  ASSUME ConnInv, BracketInv, NEW j \in joins, NEW seenReady, Admitted(j, seenReady), NEW w \in waiters[j.match]
  PROVE  IF owner[j.client] = Participants[j.match]["left"]
         THEN Suits(j.client, w, j.match) ELSE Suits(w, j.client, j.match)
<1> DEFINE c == j.client
           m == j.match
<1>1. c \in DOMAIN owner /\ m \in Matches
  BY DEF BracketInv, BracketTypes
<1>2. w \in DOMAIN owner /\ Plays(owner[w], m)
  BY <1>1 DEF BracketInv, BracketTypes, WaitersPlay
<1>3. Plays(owner[c], m) /\ owner[w] # owner[c]
  BY DEF Admitted
<1>4. Participants[m] \in [Sides -> Users \ Guests] /\ m # NoMatch
  BY <1>1, HubAssumption
<1>. HIDE DEF c, m
<1>5. owner[c] \notin Guests /\ owner[w] \notin Guests
  BY <1>2, <1>3, <1>4 DEF Plays
<1>6. SameKind(owner[c], owner[w]) /\ SameKind(owner[w], owner[c])
  BY <1>5 DEF SameKind
<1>7. CASE owner[c] = Participants[m]["left"]
  <2>1. owner[w] = Participants[m]["right"]
    BY <1>2, <1>3, <1>7 DEF Plays, Sides
  <2>. QED
    BY <1>1, <1>2, <1>3, <1>4, <1>6, <1>7, <2>1 DEF Suits, c, m
<1>8. CASE owner[c] # Participants[m]["left"]
  <2>1. owner[c] = Participants[m]["right"] /\ owner[w] = Participants[m]["left"]
    BY <1>2, <1>3, <1>8 DEF Plays, Sides
  <2>. QED
    BY <1>1, <1>2, <1>3, <1>4, <1>6, <1>8, <2>1 DEF Suits, c, m
<1>. QED
  BY <1>7, <1>8

LEMMA TournamentRooms ==
  ASSUME ConnInv, RoomInv, BracketInv, TournamentNext
  PROVE  RoomsStep
<1>1. ASSUME NEW c \in clients, NEW m \in Matches, TournamentJoin(c, m) PROVE RoomsStep
  <2>1. UNCHANGED <<owner, roomOf, rooms, active, created, scheduled, writes>>
    BY <1>1 DEF TournamentJoin, connVars, roomVars, dbVars
  <2>2. OwnersStay /\ RoomOfTyped'
    BY <2>1 DEF OwnersStay, RoomOfTyped, RoomInv, RoomTypes
  <2>. QED
    BY <2>1, <2>2, RoomsUnmoved
<1>2. ASSUME NEW j \in joins, NEW seenReady \in BOOLEAN, TournamentLookupReturns(j, seenReady) PROVE RoomsStep
  <2>1. UNCHANGED <<owner, clients, writes>>
    BY <1>2 DEF TournamentLookupReturns, connVars, dbVars
  <2>2. CASE UNCHANGED <<roomOf, roomVars>>
    <3>1. OwnersStay /\ RoomOfTyped'
      BY <2>1, <2>2 DEF OwnersStay, RoomOfTyped, RoomInv, RoomTypes
    <3>. QED
      BY <2>1, <2>2, <3>1, RoomsUnmoved DEF roomVars
  <2>3. ASSUME NEW w \in waiters[j.match], Admitted(j, seenReady),
               IF owner[j.client] = Participants[j.match]["left"] THEN createRoom(j.client, w, j.match)
                                                                  ELSE createRoom(w, j.client, j.match)
        PROVE  RoomsStep
    BY <2>1, <2>3, PairSuits, RoomOpens
  <2>. QED
    BY <1>2, <2>2, <2>3 DEF TournamentLookupReturns, createRoomFails
<1>3. ASSUME NEW s \in starts, NEW takesEffect \in BOOLEAN, NEW fails \in BOOLEAN, StartReturns(s, takesEffect, fails)
      PROVE  RoomsStep
  <2>1. owner' = owner
    BY <1>3 DEF StartReturns, connVars
  <2>2. CASE s.room \in active /\ RemoveRoom(s.room, queue, rooms, writes)
    <3>1. s.room \in DOMAIN rooms /\ writes \ writes \subseteq {s.room}
      BY <2>2 DEF RoomInv, RoomTypes
    <3>. QED
      BY <2>1, <2>2, <3>1, RoomTakenOff
  <2>3. CASE UNCHANGED <<queue, roomOf, roomVars, writes, drain>>
    <3>1. OwnersStay /\ RoomOfTyped'
      BY <2>1, <2>3 DEF OwnersStay, RoomOfTyped, RoomInv, RoomTypes
    <3>. QED
      BY <2>1, <2>3, <3>1, RoomsUnmoved DEF roomVars
  <2>. QED
    BY <1>3, <2>2, <2>3 DEF StartReturns
<1>. QED
  BY <1>1, <1>2, <1>3 DEF TournamentNext

LEMMA LobbyUnmoved ==
  ASSUME RoomInv, UNCHANGED <<connVars, roomOf, roomVars, writes>>
  PROVE  RoomsStep
<1>1. OwnersStay /\ RoomOfTyped'
  BY DEF OwnersStay, RoomOfTyped, RoomInv, RoomTypes, connVars
<1>. QED
  BY <1>1, RoomsUnmoved DEF roomVars

LEMMA SoloOpens ==
  ASSUME ConnInv, RoomInv, UNCHANGED <<connVars, writes>>, NEW c \in clients, accepting, createRoom(c, AI, NoMatch)
  PROVE  RoomsStep
<1>1. Suits(c, AI, NoMatch)
  BY ClientIs DEF Suits
<1>. QED
  BY <1>1, RoomOpens DEF connVars

LEMMA LobbyRooms ==
  ASSUME ConnInv, QueueInv, RoomInv, LobbyNext
  PROVE  RoomsStep
<1>1. ASSUME NEW c \in clients, JoinAi(c) PROVE RoomsStep
  <2>1. UNCHANGED <<connVars, writes>> /\ accepting
    BY <1>1 DEF JoinAi, dbVars
  <2>. QED
    BY <1>1, <2>1, SoloOpens, LobbyUnmoved DEF JoinAi, createRoomFails
<1>2. ASSUME NEW c \in clients, JoinAndWait(c) PROVE RoomsStep
  BY <1>2, LobbyUnmoved DEF JoinAndWait, dbVars
<1>3. ASSUME NEW c \in clients, JoinAndPlay(c) PROVE RoomsStep
  <2> DEFINE q == Pruned(queue)
             v == OpponentOf(q.mm, owner[c])
  <2>1. /\ UNCHANGED <<connVars, writes>> /\ accepting /\ FindsOpponent(q.mm, owner[c])
        /\ createRoom(q.entries[v].client, c, NoMatch) \/ createRoomFails
    BY <1>3 DEF JoinAndPlay, dbVars
  <2> DEFINE p == DropEntry([q EXCEPT !.mm = enqueue(@, owner[c], 0)], v)
  <2>2. /\ v \in Users /\ v # owner[c] /\ SameKind(v, owner[c])
        /\ q.entries[v] = queue.entries[v] /\ queue.entries[v] # NoEntry
    BY <2>1, JoinAndPlayIs
  <2>. HIDE DEF v, q, p
  <2>3. q.entries[v].client \in clients /\ owner[q.entries[v].client] = v
    BY <2>2, EntryIs
  <2>4. Suits(q.entries[v].client, c, NoMatch)
    BY <2>1, <2>2, <2>3, ClientIs DEF Suits
  <2>. QED
    BY <2>1, <2>4, RoomOpens, LobbyUnmoved DEF connVars, createRoomFails
<1>4. ASSUME NEW c \in clients, QueueLeave(c) PROVE RoomsStep
  BY <1>4, LobbyUnmoved DEF QueueLeave, dbVars
<1>5. ASSUME NEW u \in Users, NpcFallbackTimer(u) PROVE RoomsStep
  <2>1. UNCHANGED <<connVars, writes>> /\ queue.entries[u].timer
    BY <1>5 DEF NpcFallbackTimer, dbVars
  <2>2. queue.entries[u].client \in clients /\ accepting
    BY <2>1, TimerIsOfEntry, EntryIs
  <2>3. createRoom(queue.entries[u].client, AI, NoMatch) \/ UNCHANGED <<roomOf, roomVars>>
    BY <1>5 DEF NpcFallbackTimer, createRoomFails
  <2>. QED
    BY <2>1, <2>2, <2>3, SoloOpens, LobbyUnmoved
<1>6. ASSUME NEW l \in lookups, NEW answer \in {"npc", "none", "error"}, NpcLookupReturns(l, answer) PROVE RoomsStep
  <2>1. UNCHANGED <<connVars, writes>>
    BY <1>6 DEF NpcLookupReturns, dbVars
  <2>2. \/ StillWanted(l) /\ createRoom(l.client, AI, NoMatch)
        \/ UNCHANGED <<roomOf, roomVars>>
    BY <1>6 DEF NpcLookupReturns
  <2>3. StillWanted(l) => l.client \in clients /\ accepting
    BY DEF StillWanted, CanBeSeated, ConnInv, ConnsAgree
  <2>. QED
    BY <2>1, <2>2, <2>3, SoloOpens, LobbyUnmoved
<1>. QED
  BY <1>1, <1>2, <1>3, <1>4, <1>5, <1>6 DEF LobbyNext

LEMMA RoomOfGrown ==
  ASSUME RoomInv, NEW f \in Seq(RoomIds \cup {NoRoom}), Len(f) = Len(owner), NEW s \in RoomIds \cup {NoRoom},
         roomOf' = Append(f, s), Len(owner') = Len(owner) + 1
  PROVE  RoomOfTyped'
BY AppendProperties DEF RoomOfTyped

LEMMA RoomOfWithout ==
  ASSUME ConnInv, RoomInv, NEW c \in DOMAIN owner
  PROVE  /\ [roomOf EXCEPT ![c] = NoRoom] \in Seq(RoomIds \cup {NoRoom})
         /\ Len([roomOf EXCEPT ![c] = NoRoom]) = Len(owner)
         /\ roomOf \in Seq(RoomIds \cup {NoRoom}) /\ Len(roomOf) = Len(owner) /\ NoRoom \in RoomIds \cup {NoRoom}
<1>1. roomOf \in Seq(RoomIds \cup {NoRoom}) /\ Len(roomOf) = Len(owner)
  BY DEF RoomInv, RoomTypes
<1>2. c \in 1..Len(roomOf)
  BY <1>1, LenProperties DEF ConnInv, ConnTypes
<1>. QED
  BY <1>1, <1>2, ExceptSeq

\* The first seat that is kept for a user is one that is kept for it.
LEMMA FirstIsRecoverable ==
  ASSUME RoomInv, NEW u, Recoverable(u) # {}
  PROVE  /\ FirstRecoverable(u) \in Recoverable(u)
         /\ FirstRecoverable(u)[1] \in active /\ FirstRecoverable(u)[2] \in Sides
         /\ KeptFor(u, FirstRecoverable(u)[1], FirstRecoverable(u)[2])
<1> DEFINE Rs == {p[1] : p \in Recoverable(u)}
           Before(p, q) == p[1] < q[1] \/ (p[1] = q[1] /\ (p[2] = "left" \/ q[2] = "right"))
           First(p) == \A q \in Recoverable(u) : Before(p, q)
<1>1. \A p \in Recoverable(u) : p[1] \in active /\ p[2] \in Sides /\ p = <<p[1], p[2]>> /\ KeptFor(u, p[1], p[2])
  BY DEF Recoverable
<1>2. active \subseteq Nat
  BY DEF RoomInv, RoomTypes
<1>3. PICK r \in Rs : \A s \in Rs : r <= s
  <2>1. Rs \subseteq Nat /\ Rs # {}
    BY <1>1, <1>2
  <2>. HIDE DEF Rs
  <2>. QED
    BY <2>1, LeastNatural
<1>4. \E p \in Recoverable(u) : First(p)
  <2>1. \A q \in Recoverable(u) : q[1] \in Nat /\ r <= q[1] /\ (q[2] = "left" \/ q[2] = "right")
    BY <1>1, <1>2, <1>3 DEF Sides
  <2>2. r \in Nat
    BY <1>1, <1>2, <1>3
  <2>3. CASE <<r, "left">> \in Recoverable(u)
    <3>1. First(<<r, "left">>)
      BY <2>1, <2>2
    <3>. HIDE DEF First
    <3>. QED
      BY <2>3, <3>1
  <2>4. CASE <<r, "left">> \notin Recoverable(u)
    <3>1. PICK p \in Recoverable(u) : p[1] = r
      BY <1>3
    <3>2. \A q \in Recoverable(u) : q[1] = r => q[2] = "right"
      BY <1>1, <2>1, <2>4
    <3>3. First(p)
      BY <2>1, <2>2, <3>1, <3>2
    <3>. HIDE DEF First
    <3>. QED
      BY <3>3
  <2>. QED
    BY <2>3, <2>4
<1>5. FirstRecoverable(u) = CHOOSE p \in Recoverable(u) : First(p)
  BY DEF FirstRecoverable
<1>. HIDE DEF First
<1>. QED
  BY <1>1, <1>4, <1>5

\* A user comes back to the seat that is kept for it.
LEMMA SeatTakenBack ==
  ASSUME ConnInv, RoomInv, NEW u \in Users, NEW c \in Conns, NEW r \in active, NEW side \in Sides, KeptFor(u, r, side),
         OwnersStay, c \in DOMAIN owner', owner'[c] = u, clients' # clients, Len(owner') = Len(owner) + 1,
         roomOf' = Append([roomOf EXCEPT ![rooms[r].seat[side]] = NoRoom], r),
         rooms' = [rooms EXCEPT ![r] = Recovered(rooms[r], side, c)],
         scheduled' = IF Recovered(rooms[r], side, c).session.state = "playing" THEN scheduled \cup {r} ELSE scheduled,
         UNCHANGED <<active, created, writes>>
  PROVE  RoomsStep
<1> DEFINE room == rooms[r]
           new == Recovered(room, side, c)
<1>0. /\ r \in DOMAIN rooms /\ room \in Room /\ Fits(room) /\ (r \in writes <=> room.fin = "writing")
      /\ (r \in scheduled <=> room.phase = "playing") /\ SeatsTyped(room.seat) /\ r \in RoomIds
      /\ room.seat["left"] \in DOMAIN owner /\ room.seat["right"] \in DOMAIN owner \cup {AI}
  BY RoomIs DEF RoomInv, RoomTypes
<1>1. side \in room.gone /\ owner[room.seat[side]] = u /\ reconnects(room.session, side, room.waited)
  BY DEF KeptFor
<1>2. /\ new \in Room /\ Fits(new) /\ new.fin = room.fin /\ new.match = room.match
      /\ new.seat = [room.seat EXCEPT ![side] = c] /\ room.fin = "no" /\ room.phase = "paused"
      /\ new.phase = "playing" <=> new.session.state = "playing"
  BY <1>0, <1>1, RecoveredFits
<1>3. room.seat[side] # AI /\ room.seat[side] \in DOMAIN owner
  BY <1>0, <1>1 DEF Fits, SeatsTyped
<1>4. c # AI
  BY DEF Conns, AI
<1>. HIDE DEF new
<1>5. rooms'[r] = new /\ (r \in scheduled' <=> new.session.state = "playing")
      /\ \A s : s # r => (s \in scheduled' <=> s \in scheduled)
  BY <1>0, <1>2 DEF new
<1>6. /\ SamePlayers(r)
      /\ new.seat["left"] \in DOMAIN owner' /\ new.seat["right"] \in DOMAIN owner' \cup {AI}
  <2>1. room.seat \in [Sides -> Conns \cup {AI}]
    BY <1>0 DEF SeatsTyped
  <2>2. new.seat[side] = c /\ \A other \in Sides : other # side => new.seat[other] = room.seat[other]
    BY <1>2, <2>1
  <2>3. \A other \in Sides : room.seat[other] \in DOMAIN owner \cup {AI}
    BY <1>0 DEF SeatsTyped
  <2>4. SamePlayers(r)
    BY <1>1, <1>3, <1>4, <1>5, <2>2, <2>3 DEF SamePlayers, OwnersStay
  <2>. QED
    BY <1>0, <2>2, <2>4 DEF OwnersStay, Sides
<1>7. Keeps(r)
  BY <1>0, <1>2, <1>5, <1>6 DEF Keeps
<1>8. Moved(r)
  BY <1>0, <1>2, <1>5, <1>6, <1>7 DEF Moved
<1>9. RoomOfTyped'
  BY <1>0, <1>3, RoomOfWithout, RoomOfGrown
<1>. QED
  BY <1>5, <1>8, <1>9, OneRoomMoves DEF new

\* A seat that goes from the old connection of its user to the new one.
LEMMA SeatHandedOver ==
  ASSUME ConnInv, RoomInv, NEW u \in Users, NEW old \in DOMAIN owner, NEW c \in Conns, NEW r \in active,
         OwnersStay, owner[old] = u, old # AI, c \in DOMAIN owner', owner'[c] = u, clients' # clients,
         Len(owner') = Len(owner) + 1,
         roomOf' = Append([roomOf EXCEPT ![old] = NoRoom], r),
         rooms' = [rooms EXCEPT ![r] = Reseated(rooms[r], old, c)],
         UNCHANGED <<active, created, scheduled, writes>>
  PROVE  RoomsStep
<1> DEFINE room == rooms[r]
           new == Reseated(room, old, c)
<1>0. /\ r \in DOMAIN rooms /\ room \in Room /\ Fits(room) /\ (r \in writes <=> room.fin = "writing")
      /\ (r \in scheduled <=> room.phase = "playing") /\ SeatsTyped(room.seat) /\ r \in RoomIds
      /\ room.seat["left"] \in DOMAIN owner /\ room.seat["right"] \in DOMAIN owner \cup {AI}
  BY RoomIs DEF RoomInv, RoomTypes
<1>1. old \in Conns /\ c # AI
  BY LenProperties, HubAssumption DEF ConnInv, ConnTypes, Conns, AI
<1>2. /\ new \in Room /\ Fits(new) /\ new.fin = room.fin /\ new.match = room.match
      /\ new.seat = [side \in Sides |-> IF room.seat[side] = old THEN c ELSE room.seat[side]]
      /\ new.phase = room.phase
  BY <1>0, <1>1, ReseatedFits
<1>. HIDE DEF new
<1>5. rooms'[r] = new
  BY <1>0 DEF new
<1>6. /\ SamePlayers(r)
      /\ new.seat["left"] \in DOMAIN owner' /\ new.seat["right"] \in DOMAIN owner' \cup {AI}
  <2>1. \A side \in Sides : new.seat[side] = IF room.seat[side] = old THEN c ELSE room.seat[side]
    BY <1>2
  <2>2. \A side \in Sides : room.seat[side] \in DOMAIN owner \cup {AI}
    BY <1>0 DEF SeatsTyped
  <2>3. SamePlayers(r)
    BY <1>1, <1>5, <2>1, <2>2 DEF SamePlayers, OwnersStay
  <2>. QED
    BY <1>0, <2>1, <2>3 DEF OwnersStay, Sides
<1>7. Keeps(r)
  BY <1>0, <1>2, <1>5, <1>6 DEF Keeps
<1>8. Moved(r)
  BY <1>0, <1>2, <1>5, <1>6, <1>7 DEF Moved
<1>9. RoomOfTyped'
  BY <1>0, RoomOfWithout, RoomOfGrown
<1>. QED
  BY <1>5, <1>8, <1>9, OneRoomMoves DEF new

LEMMA ConnectRooms ==
  ASSUME ConnInv, RoomInv, NEW u \in Users, Connect(u)
  PROVE  RoomsStep
<1> DEFINE c == Len(owner) + 1
           old == byUser[u]
<1>1. /\ DOMAIN owner' = 1..c /\ DOMAIN owner = 1..Len(owner) /\ Len(owner) \in Nat /\ Len(owner') = c
      /\ \A d \in DOMAIN owner : owner'[d] = owner[d]
      /\ owner'[c] = u /\ c \notin DOMAIN owner /\ clients' = (clients \cup {c}) \ {old}
  BY ConnectKeepsConns
<1>2. OwnersStay /\ c \in DOMAIN owner' /\ c \in Conns
  BY <1>1 DEF OwnersStay, Connect, Conns
<1>3. c \in clients' /\ c \notin clients
  <2>1. clients \subseteq DOMAIN owner /\ old \in DOMAIN owner \cup {NoConn}
    BY DEF ConnInv, ConnTypes
  <2>. QED
    BY <1>1, <2>1 DEF NoConn
<1>4. clients' # clients
  BY <1>3
<1>5. UNCHANGED <<active, created, writes>> /\ (ConnectAfresh(u, c) \/ ConnectReplacing(u, c))
  BY DEF Connect, dbVars
<1>6. roomOf \in Seq(RoomIds \cup {NoRoom}) /\ Len(roomOf) = Len(owner) /\ NoRoom \in RoomIds \cup {NoRoom}
  BY DEF RoomInv, RoomTypes
<1>7. ASSUME roomOf' = Append(roomOf, NoRoom), UNCHANGED <<rooms, scheduled>> PROVE RoomsStep
  <2>1. RoomOfTyped'
    BY <1>1, <1>6, <1>7, RoomOfGrown
  <2>. QED
    BY <1>2, <1>5, <1>7, <2>1, RoomsUnmoved
<1>. HIDE DEF c
<1>8. CASE ConnectAfresh(u, c)
  <2>1. CASE Recoverable(u) = {}
    BY <1>7, <1>8, <2>1 DEF ConnectAfresh
  <2>2. CASE Recoverable(u) # {}
    <3> DEFINE r == FirstRecoverable(u)[1]
               side == FirstRecoverable(u)[2]
    <3>1. r \in active /\ side \in Sides /\ KeptFor(u, r, side)
      BY <2>2, FirstIsRecoverable
    <3>2. /\ roomOf' = Append([roomOf EXCEPT ![rooms[r].seat[side]] = NoRoom], r)
          /\ rooms' = [rooms EXCEPT ![r] = Recovered(rooms[r], side, c)]
          /\ scheduled' = IF Recovered(rooms[r], side, c).session.state = "playing" THEN scheduled \cup {r} ELSE scheduled
      BY <1>8, <2>2 DEF ConnectAfresh
    <3>3. Len(owner') = Len(owner) + 1 /\ owner'[c] = u
      BY <1>1 DEF c
    <3>. HIDE DEF r, side
    <3>. QED
      BY <1>2, <1>4, <1>5, <3>1, <3>2, <3>3, SeatTakenBack
  <2>. QED
    BY <2>1, <2>2
<1>9. CASE ConnectReplacing(u, c)
  <2> DEFINE r == roomOf[old]
  <2>1. old # NoConn /\ UNCHANGED scheduled
    BY <1>9 DEF ConnectReplacing
  <2>2. old \in DOMAIN owner /\ owner[old] = u /\ old # AI
    BY <2>1 DEF ConnInv, ConnTypes, ConnsAgree, AI, NoConn
  <2>3. CASE r \in active /\ sideFor(rooms[r], old) # {}
    <3>1. /\ roomOf' = Append([roomOf EXCEPT ![old] = NoRoom], r)
          /\ rooms' = [rooms EXCEPT ![r] = Reseated(rooms[r], old, c)]
      BY <1>9, <2>3 DEF ConnectReplacing
    <3>2. Len(owner') = Len(owner) + 1 /\ owner'[c] = u
      BY <1>1 DEF c
    <3>. HIDE DEF r
    <3>. QED
      BY <1>2, <1>4, <1>5, <2>1, <2>2, <2>3, <3>1, <3>2, SeatHandedOver
  <2>4. CASE ~(r \in active /\ sideFor(rooms[r], old) # {})
    BY <1>7, <1>9, <2>1, <2>4 DEF ConnectReplacing
  <2>. QED
    BY <2>3, <2>4
<1>. QED
  BY <1>5, <1>8, <1>9

LEMMA DepartRooms ==
  ASSUME ConnInv, RoomInv, NEW c \in clients, Depart(c)
  PROVE  RoomsStep
<1>1. /\ UNCHANGED <<owner, roomOf, active, created, writes>> /\ clients' = clients \ {c}
      /\ rooms' = [r \in DOMAIN rooms |->
                     IF r \in LeftRooms(c)
                     THEN Reserved(rooms[r], CHOOSE side \in sideFor(rooms[r], c) : TRUE)
                     ELSE rooms[r]]
      /\ scheduled' = scheduled \ LeftRooms(c)
  BY DEF Depart, reserveRoomSide, dbVars
<1>2. clients' # clients /\ c # AI
  BY <1>1, ClientIs
<1>3. OwnersStay /\ RoomOfTyped'
  BY <1>1 DEF OwnersStay, RoomOfTyped, RoomInv, RoomTypes
<1>4. DOMAIN rooms' = DOMAIN rooms /\ DOMAIN rooms = active \cup writes /\ scheduled \subseteq active
  BY <1>1 DEF RoomInv, RoomTypes
<1>5. ASSUME NEW r \in DOMAIN rooms, r \notin LeftRooms(c) PROVE Moved(r)
  <2>1. rooms'[r] = rooms[r]
    BY <1>1, <1>5
  <2>. QED
    BY <1>1, <1>3, <1>5, <2>1, Unmoved
<1>6. ASSUME NEW r \in LeftRooms(c) PROVE Moved(r)
  <2>1. r \in active /\ r \in DOMAIN rooms /\ rooms[r].fin = "no" /\ sideFor(rooms[r], c) # {}
    BY <1>4 DEF LeftRooms
  <2> DEFINE side == CHOOSE side \in sideFor(rooms[r], c) : TRUE
             new == Reserved(rooms[r], side)
  <2>2. side \in Sides /\ rooms[r].seat[side] = c
    BY <2>1 DEF sideFor
  <2>3. rooms'[r] = new
    BY <1>1, <2>1
  <2>. HIDE DEF side
  <2>4. rooms[r] \in Room /\ Fits(rooms[r]) /\ r \notin writes
    BY <2>1, RoomIs DEF RoomInv
  <2>5. /\ new \in Room /\ Fits(new) /\ new.phase = "paused" /\ new.fin = "no"
        /\ new.seat = rooms[r].seat /\ new.match = rooms[r].match
    BY <1>2, <2>1, <2>2, <2>4, ReservedFits
  <2>. HIDE DEF new
  <2>6. /\ SamePlayers(r)
        /\ rooms'[r].seat["left"] \in DOMAIN owner' /\ rooms'[r].seat["right"] \in DOMAIN owner' \cup {AI}
    BY <1>1, <2>1, <2>3, <2>5, SeatsStay
  <2>7. Keeps(r)
    BY <1>1, <1>2, <2>1, <2>3, <2>5, <2>6 DEF Keeps
  <2>. QED
    BY <1>1, <1>6, <2>3, <2>4, <2>5, <2>6, <2>7 DEF Moved
<1>7. scheduled' \subseteq active' /\ DOMAIN rooms' = active' \cup writes'
  BY <1>1, <1>4
<1>. QED
  BY <1>1, <1>3, <1>4, <1>5, <1>6, <1>7, RoomsMoved

LEMMA ServerRooms ==
  ASSUME ConnInv, RoomInv, ServerNext
  PROVE  RoomsStep
<1>1. ASSUME NEW u \in Users, RevokeUser(u) PROVE RoomsStep
  <2>1. byUser[u] \in clients
    BY <1>1 DEF RevokeUser, ConnInv, ConnsAgree
  <2>. QED
    BY <1>1, <2>1, DepartRooms DEF RevokeUser
<1>2. ASSUME NEW u \in Users, GuestResultExpires(u) PROVE RoomsStep
  BY <1>2, LobbyUnmoved DEF GuestResultExpires, dbVars
<1>3. ASSUME NEW c \in open, SocketDrops(c) PROVE RoomsStep
  <2>1. UNCHANGED <<owner, roomOf, rooms, active, created, scheduled, writes>>
    BY <1>3 DEF SocketDrops, roomVars, dbVars
  <2>2. OwnersStay /\ RoomOfTyped'
    BY <2>1 DEF OwnersStay, RoomOfTyped, RoomInv, RoomTypes
  <2>. QED
    BY <2>1, <2>2, RoomsUnmoved
<1>4. ASSUME NEW c \in clients, Disconnect(c) PROVE RoomsStep
  BY <1>4, DepartRooms DEF Disconnect
<1>5. CASE BeginDrain \/ DrainTimeout
  BY <1>5, LobbyUnmoved DEF BeginDrain, DrainTimeout, dbVars
<1>6. CASE Close
  <2>1. /\ owner' = owner /\ roomOf' = roomOf /\ created' = created /\ writes' = writes /\ active' = {} /\ scheduled' = {}
        /\ rooms' = Restrict(rooms, writes)
    BY <1>6 DEF Close, dbVars
  <2>2. DOMAIN rooms = active \cup writes
    BY DEF RoomInv, RoomTypes
  <2>3. DOMAIN rooms' = writes /\ \A r \in writes : rooms'[r] = rooms[r] /\ r \in DOMAIN rooms
    BY <2>1, <2>2 DEF Restrict
  <2>4. OwnersStay /\ RoomOfTyped'
    BY <2>1 DEF OwnersStay, RoomOfTyped, RoomInv, RoomTypes
  <2>5. \A r \in DOMAIN rooms' : Moved(r)
    BY <2>1, <2>3, <2>4, Unmoved
  <2>. QED
    BY <2>1, <2>3, <2>4, <2>5, RoomsMoved
<1>. QED
  BY <1>1, <1>2, <1>3, <1>4, <1>5, <1>6, ConnectRooms DEF ServerNext

LEMMA RoomsAreKept ==
  ASSUME ConnInv, QueueInv, RoomInv, BracketInv, [Next]_vars
  PROVE  RoomsStep
<1>1. CASE UNCHANGED vars
  BY <1>1, LobbyUnmoved DEF vars, dbVars
<1>. QED
  BY <1>1, ServerRooms, LobbyRooms, TournamentRooms, MatchRooms DEF Next

-----------------------------------------------------------------------------
(* Who waits for a tournament match.                                       *)

LEMMA BracketKept ==
  ASSUME BracketInv, OwnersStay,
         DOMAIN waiters' = Matches, waiters' \in [Matches -> SUBSET DOMAIN owner'],
         \A m \in Matches : \A w \in waiters'[m] : w \in waiters[m] \/ (w \in DOMAIN owner' /\ Plays(owner'[w], m)),
         joins' \subseteq [client : DOMAIN owner', match : Matches, nth : 1..MaxJoins, wasReady : BOOLEAN],
         starts' \subseteq [match : Matches, room : RoomIds],
         bracket' \in [Matches -> {"ready", "running", "finished"}]
  PROVE  BracketInv'
<1>1. BracketTypes'
  BY DEF BracketTypes
<1>2. ASSUME NEW m \in Matches, NEW w \in waiters'[m] PROVE Plays(owner'[w], m)
  <2>1. CASE w \in waiters[m]
    <3>1. w \in DOMAIN owner /\ Plays(owner[w], m)
      BY <2>1 DEF BracketInv, BracketTypes, WaitersPlay
    <3>. QED
      BY <3>1 DEF OwnersStay
  <2>. QED
    BY <2>1
<1>3. WaitersPlay'
  BY <1>2 DEF WaitersPlay, Plays
<1>. QED
  BY <1>1, <1>3 DEF BracketInv

LEMMA FewerWait ==
  ASSUME BracketInv, OwnersStay, NEW gone,
         \/ waiters' = waiters
         \/ waiters' = Without(gone)
         \/ waiters' = [m \in Matches |-> {}],
         UNCHANGED <<joins, starts, bracket>>
  PROVE  BracketInv'
<1>1. /\ waiters \in [Matches -> SUBSET DOMAIN owner]
      /\ joins \subseteq [client : DOMAIN owner, match : Matches, nth : 1..MaxJoins, wasReady : BOOLEAN]
      /\ starts \subseteq [match : Matches, room : RoomIds]
      /\ bracket \in [Matches -> {"ready", "running", "finished"}]
  BY DEF BracketInv, BracketTypes
<1>2. waiters' \in [Matches -> SUBSET DOMAIN owner'] /\ \A m \in Matches : waiters'[m] \subseteq waiters[m]
  BY <1>1 DEF Without, OwnersStay
<1>3. joins' \subseteq [client : DOMAIN owner', match : Matches, nth : 1..MaxJoins, wasReady : BOOLEAN]
  BY <1>1 DEF OwnersStay
<1>. QED
  BY <1>1, <1>2, <1>3, BracketKept

LEMMA BracketIsKept ==
  ASSUME ConnInv, BracketInv, OwnersStay, RoomInv, [Next]_vars
  PROVE  BracketInv'
<1>0. /\ waiters \in [Matches -> SUBSET DOMAIN owner]
      /\ joins \subseteq [client : DOMAIN owner, match : Matches, nth : 1..MaxJoins, wasReady : BOOLEAN]
      /\ starts \subseteq [match : Matches, room : RoomIds]
      /\ bracket \in [Matches -> {"ready", "running", "finished"}]
      /\ DOMAIN owner \subseteq DOMAIN owner'
  BY DEF BracketInv, BracketTypes, OwnersStay
<1>1. CASE UNCHANGED vars
  BY <1>1, FewerWait DEF vars, bracketVars
<1>2. ASSUME NEW u \in Users, Connect(u) PROVE BracketInv'
  <2>1. UNCHANGED <<joins, starts, bracket>> /\ (waiters' = waiters \/ waiters' = Without(byUser[u]))
    BY <1>2 DEF Connect, ConnectAfresh, ConnectReplacing
  <2>. QED
    BY <2>1, FewerWait
<1>3. ASSUME NEW c, Depart(c) PROVE BracketInv'
  BY <1>3, FewerWait DEF Depart
<1>4. ServerNext => BracketInv'
  <2>1. ASSUME NEW u \in Users, GuestResultExpires(u) PROVE BracketInv'
    BY <2>1, FewerWait DEF GuestResultExpires, bracketVars
  <2>2. ASSUME NEW c \in open, SocketDrops(c) PROVE BracketInv'
    BY <2>2, FewerWait DEF SocketDrops, bracketVars
  <2>3. BeginDrain \/ DrainTimeout \/ Close => BracketInv'
    BY FewerWait DEF BeginDrain, DrainTimeout, Close, bracketVars
  <2>. QED
    BY <1>2, <1>3, <2>1, <2>2, <2>3 DEF ServerNext, RevokeUser, Disconnect
<1>5. LobbyNext => BracketInv'
  <2>1. LobbyNext => UNCHANGED bracketVars
    <3>1. ASSUME NEW c, JoinAi(c) \/ JoinAndWait(c) \/ JoinAndPlay(c) \/ QueueLeave(c) PROVE UNCHANGED bracketVars
      BY <3>1 DEF JoinAi, JoinAndWait, JoinAndPlay, QueueLeave
    <3>2. ASSUME NEW u, NpcFallbackTimer(u) PROVE UNCHANGED bracketVars
      BY <3>2 DEF NpcFallbackTimer
    <3>3. ASSUME NEW l, NEW answer, NpcLookupReturns(l, answer) PROVE UNCHANGED bracketVars
      BY <3>3 DEF NpcLookupReturns
    <3>. QED
      BY <3>1, <3>2, <3>3 DEF LobbyNext
  <2>. QED
    BY <2>1, FewerWait DEF bracketVars
<1>6. ASSUME NEW c \in clients, NEW m \in Matches, TournamentJoin(c, m) PROVE BracketInv'
  <2>1. /\ waiters' = Without(c) /\ starts' = starts /\ bracket' = bracket
        /\ \E n \in 1..MaxJoins :
             joins' = joins \cup {[client |-> c, match |-> m, nth |-> n, wasReady |-> bracket[m] = "ready"]}
    BY <1>6 DEF TournamentJoin
  <2>2. c \in DOMAIN owner
    BY ClientIs
  <2>3. joins' \subseteq [client : DOMAIN owner', match : Matches, nth : 1..MaxJoins, wasReady : BOOLEAN]
    <3> DEFINE ready == bracket[m] = "ready"
    <3>1. PICK n \in 1..MaxJoins :
            joins' = joins \cup {[client |-> c, match |-> m, nth |-> n, wasReady |-> ready]}
      BY <2>1
    <3>2. ready \in BOOLEAN
      OBVIOUS
    <3>. HIDE DEF ready
    <3>. QED
      BY <1>0, <2>2, <3>1, <3>2
  <2>4. waiters' \in [Matches -> SUBSET DOMAIN owner'] /\ \A n \in Matches : waiters'[n] \subseteq waiters[n]
    BY <1>0, <2>1 DEF Without
  <2>. QED
    BY <1>0, <2>1, <2>3, <2>4, BracketKept
<1>7. ASSUME NEW j \in joins, NEW seenReady \in BOOLEAN, TournamentLookupReturns(j, seenReady) PROVE BracketInv'
  <2> DEFINE c == j.client
             m == j.match
  <2>1. c \in DOMAIN owner /\ m \in Matches
    BY <1>0
  <2>2. joins' \subseteq [client : DOMAIN owner', match : Matches, nth : 1..MaxJoins, wasReady : BOOLEAN] /\ bracket' = bracket /\ owner' = owner
    BY <1>0, <1>7 DEF TournamentLookupReturns, connVars
  <2>3. starts' \subseteq [match : Matches, room : RoomIds]
    <3>1. \/ starts' = starts
          \/ starts' = starts \cup {[match |-> m, room |-> created + 1]} /\ created < MaxRooms
      BY <1>7 DEF TournamentLookupReturns, createRoom
    <3>2. created < MaxRooms => created + 1 \in RoomIds
      BY HubAssumption DEF RoomInv, RoomTypes, RoomIds
    <3>. QED
      BY <1>0, <2>1, <3>1, <3>2
  <2>4. \/ waiters' = waiters
        \/ Admitted(j, seenReady) /\ waiters' = [waiters EXCEPT ![m] = waiters[m] \cup {c}]
        \/ waiters' = [waiters EXCEPT ![m] = {}]
    BY <1>7 DEF TournamentLookupReturns
  <2>5. Admitted(j, seenReady) => Plays(owner[c], m)
    BY DEF Admitted
  <2>. HIDE DEF c, m
  <2>6. waiters' \in [Matches -> SUBSET DOMAIN owner']
    BY <1>0, <2>1, <2>4
  <2>7. \A n \in Matches : \A w \in waiters'[n] : w \in waiters[n] \/ (w \in DOMAIN owner' /\ Plays(owner'[w], n))
    BY <1>0, <2>1, <2>2, <2>4, <2>5
  <2>. QED
    BY <1>0, <2>2, <2>3, <2>6, <2>7, BracketKept
<1>8. ASSUME NEW s \in starts, NEW takesEffect \in BOOLEAN, NEW fails \in BOOLEAN, StartReturns(s, takesEffect, fails)
      PROVE  BracketInv'
  <2>1. /\ waiters' = waiters /\ joins' = joins /\ starts' \subseteq starts
        /\ bracket' = IF takesEffect THEN [bracket EXCEPT ![s.match] = "running"] ELSE bracket
    BY <1>8 DEF StartReturns
  <2>2. bracket' \in [Matches -> {"ready", "running", "finished"}]
    BY <1>0, <2>1
  <2>. QED
    BY <1>0, <2>1, <2>2, BracketKept
<1>9. ASSUME NEW r \in writes, NEW takesEffect \in BOOLEAN, NEW fails \in BOOLEAN, WriteReturns(r, takesEffect, fails)
      PROVE  BracketInv'
  <2>1. /\ waiters' = waiters /\ joins' = joins /\ starts' = starts
        /\ bracket' = bracket \/ bracket' = [bracket EXCEPT ![rooms[r].match] = "finished"]
    BY <1>9 DEF WriteReturns
  <2>2. bracket' \in [Matches -> {"ready", "running", "finished"}]
    BY <1>0, <2>1
  <2>. QED
    BY <1>0, <2>1, <2>2, BracketKept
<1>10. ASSUME NEW r, NEW room, NEW side, finishRoom(r, room, side) PROVE BracketInv'
  BY <1>10, FewerWait DEF finishRoom, bracketVars
<1>11. MatchNext => BracketInv'
  <2>1. ASSUME NEW c, NEW r, GameReady(c, r) \/ GamePause(c, r) \/ GameResume(c, r) PROVE UNCHANGED bracketVars
    <3>1. GameReady(c, r) => UNCHANGED bracketVars
      BY DEF GameReady
    <3>2. GamePause(c, r) => UNCHANGED bracketVars
      BY DEF GamePause
    <3>3. GameResume(c, r) => UNCHANGED bracketVars
      BY DEF GameResume
    <3>. QED
      BY <2>1, <3>1, <3>2, <3>3
  <2>2. ASSUME NEW r, RoomClock(r) \/ RetryTimerFires(r) PROVE UNCHANGED bracketVars
    BY <2>2 DEF RoomClock, RetryTimerFires
  <2>3. ASSUME NEW r, ReconnectTimerFires(r) PROVE BracketInv'
    BY <2>3, <1>10, FewerWait DEF ReconnectTimerFires, bracketVars
  <2>4. UNCHANGED bracketVars => BracketInv'
    BY FewerWait DEF bracketVars
  <2>. QED
    BY <1>9, <1>10, <2>1, <2>2, <2>3, <2>4 DEF MatchNext, MatchEnds
<1>. QED
  BY <1>1, <1>4, <1>5, <1>6, <1>7, <1>8, <1>11 DEF Next, TournamentNext

-----------------------------------------------------------------------------
(* Who sits in a room, and what the database holds of it.                  *)

SeatsSuit ==
  \A r \in DOMAIN rooms :
    /\ rooms[r].seat["right"] # AI =>
         /\ owner[rooms[r].seat["left"]] # owner[rooms[r].seat["right"]]
         /\ SameKind(owner[rooms[r].seat["left"]], owner[rooms[r].seat["right"]])
    /\ rooms[r].match # NoMatch =>
         /\ rooms[r].seat["right"] # AI
         /\ \A side \in Sides : owner[rooms[r].seat[side]] = Participants[rooms[r].match][side]

LEMMA SeatsSuitStep ==
  ASSUME ConnInv, RoomInv, SeatsSuit, RoomsMove
  PROVE  SeatsSuit'
<1>0. AI \notin DOMAIN owner
  BY LenProperties DEF ConnInv, ConnTypes, AI
<1>1. ASSUME NEW r \in DOMAIN rooms', Keeps(r)
      PROVE  /\ rooms'[r].seat["right"] # AI =>
                  /\ owner'[rooms'[r].seat["left"]] # owner'[rooms'[r].seat["right"]]
                  /\ SameKind(owner'[rooms'[r].seat["left"]], owner'[rooms'[r].seat["right"]])
             /\ rooms'[r].match # NoMatch =>
                  /\ rooms'[r].seat["right"] # AI
                  /\ \A side \in Sides : owner'[rooms'[r].seat[side]] = Participants[rooms'[r].match][side]
  <2>1. r \in DOMAIN rooms /\ rooms'[r].match = rooms[r].match /\ SamePlayers(r)
    BY <1>1 DEF Keeps
  <2>2. rooms[r].seat["left"] # AI /\ (rooms'[r].seat["right"] = AI <=> rooms[r].seat["right"] = AI)
    BY <1>0, <2>1, RoomIs DEF SamePlayers, Sides
  <2>3. /\ owner'[rooms'[r].seat["left"]] = owner[rooms[r].seat["left"]]
        /\ rooms[r].seat["right"] # AI => owner'[rooms'[r].seat["right"]] = owner[rooms[r].seat["right"]]
    BY <2>1, <2>2 DEF SamePlayers, Sides
  <2>. QED
    BY <2>1, <2>2, <2>3 DEF SeatsSuit, Sides
<1>2. ASSUME NEW r \in DOMAIN rooms', Begins(r)
      PROVE  /\ rooms'[r].seat["right"] # AI =>
                  /\ owner'[rooms'[r].seat["left"]] # owner'[rooms'[r].seat["right"]]
                  /\ SameKind(owner'[rooms'[r].seat["left"]], owner'[rooms'[r].seat["right"]])
             /\ rooms'[r].match # NoMatch =>
                  /\ rooms'[r].seat["right"] # AI
                  /\ \A side \in Sides : owner'[rooms'[r].seat[side]] = Participants[rooms'[r].match][side]
  <2>1. PICK left, right, m : Suits(left, right, m) /\ rooms'[r] = NewRoom(left, right, m)
    BY <1>2 DEF Begins
  <2>2. rooms'[r].seat["left"] = left /\ rooms'[r].seat["right"] = right /\ rooms'[r].match = m /\ owner' = owner
    BY <1>2, <2>1 DEF NewRoom, Sides, Begins
  <2>3. right # AI => owner[left] # owner[right] /\ SameKind(owner[left], owner[right])
    BY <2>1 DEF Suits
  <2>4. m # NoMatch => right # AI
    BY <1>0, <2>1 DEF Suits
  <2>5. m # NoMatch => owner[left] = Participants[m]["left"] /\ owner[right] = Participants[m]["right"]
    BY <2>1 DEF Suits
  <2>. HIDE DEF Suits
  <2>6. right # AI => /\ owner'[rooms'[r].seat["left"]] # owner'[rooms'[r].seat["right"]]
                      /\ SameKind(owner'[rooms'[r].seat["left"]], owner'[rooms'[r].seat["right"]])
    BY <2>2, <2>3
  <2>7. m # NoMatch => \A side \in Sides : owner'[rooms'[r].seat[side]] = Participants[m][side]
    BY <2>2, <2>5 DEF Sides
  <2>. QED
    BY <2>2, <2>4, <2>6, <2>7
<1>. QED
  BY <1>1, <1>2 DEF SeatsSuit, RoomsMove

\* What the database holds of a room is the result of its match, once it is
\* over; a tournament match is finished by the result of one room.
ResultsAgree ==
  /\ results \in [RoomIds -> Seq(Matches \cup {NoMatch})]
  /\ \A r \in RoomIds : results[r] # <<>> => r <= created /\ \E m \in Matches \cup {NoMatch} : results[r] = <<m>>
  /\ \A r \in DOMAIN rooms : results[r] # <<>> => rooms[r].fin # "no" /\ results[r] = <<rooms[r].match>>

DecidedOnce ==
  \A m \in Matches :
    /\ bracket[m] = "finished" <=> \E r \in RoomIds : results[r] = <<m>>
    /\ \A r, s \in RoomIds : results[r] = <<m>> /\ results[s] = <<m>> => r = s

ResultsInv == ResultsAgree /\ DecidedOnce

FinishedStay == \A m \in Matches : bracket'[m] = "finished" <=> bracket[m] = "finished"

\* Only the write of a result adds one, and only it finishes a match.
LEMMA OnlyWritesAddResults ==
  ASSUME BracketInv, [Next]_vars
  PROVE  \/ results' = results /\ FinishedStay
         \/ \E r \in writes, takesEffect, fails \in BOOLEAN : WriteReturns(r, takesEffect, fails)
<1> DEFINE Same == results' = results /\ FinishedStay
<1>1. results' = results /\ bracket' = bracket => Same
  BY DEF FinishedStay
<1>2. ServerNext => Same
  <2>1. ASSUME NEW u \in Users PROVE Connect(u) \/ RevokeUser(u) \/ GuestResultExpires(u) => results' = results /\ bracket' = bracket
    BY DEF Connect, RevokeUser, Depart, GuestResultExpires, dbVars, bracketVars
  <2>2. ASSUME NEW c PROVE SocketDrops(c) \/ Disconnect(c) => results' = results /\ bracket' = bracket
    BY DEF SocketDrops, Disconnect, Depart, dbVars, bracketVars
  <2>3. BeginDrain \/ DrainTimeout \/ Close => results' = results /\ bracket' = bracket
    BY DEF BeginDrain, DrainTimeout, Close, dbVars, bracketVars
  <2>. HIDE DEF Same
  <2>. QED
    BY <1>1, <2>1, <2>2, <2>3 DEF ServerNext
<1>3. LobbyNext => Same
  <2>1. ASSUME NEW c PROVE JoinAi(c) \/ JoinAndWait(c) \/ JoinAndPlay(c) \/ QueueLeave(c) => results' = results /\ bracket' = bracket
    BY DEF JoinAi, JoinAndWait, JoinAndPlay, QueueLeave, dbVars, bracketVars
  <2>2. ASSUME NEW u PROVE NpcFallbackTimer(u) => results' = results /\ bracket' = bracket
    BY DEF NpcFallbackTimer, dbVars, bracketVars
  <2>3. ASSUME NEW l, NEW answer PROVE NpcLookupReturns(l, answer) => results' = results /\ bracket' = bracket
    BY DEF NpcLookupReturns, dbVars, bracketVars
  <2>. HIDE DEF Same
  <2>. QED
    BY <1>1, <2>1, <2>2, <2>3 DEF LobbyNext
<1>4. TournamentNext => Same
  <2>1. ASSUME NEW c, NEW m PROVE TournamentJoin(c, m) => results' = results /\ bracket' = bracket
    BY DEF TournamentJoin, dbVars
  <2>2. ASSUME NEW j, NEW seen PROVE TournamentLookupReturns(j, seen) => results' = results /\ bracket' = bracket
    BY DEF TournamentLookupReturns, dbVars
  <2>3. ASSUME NEW s \in starts, NEW takesEffect, NEW fails, StartReturns(s, takesEffect, fails) PROVE Same
    <3>1. /\ results' = results
          /\ bracket' = bracket \/ (bracket[s.match] # "finished" /\ bracket' = [bracket EXCEPT ![s.match] = "running"])
      BY <2>3 DEF StartReturns
    <3>2. s.match \in Matches /\ bracket \in [Matches -> {"ready", "running", "finished"}]
      BY DEF BracketInv, BracketTypes
    <3>. QED
      BY <3>1, <3>2 DEF FinishedStay
  <2>. HIDE DEF Same
  <2>. QED
    BY <1>1, <2>1, <2>2, <2>3 DEF TournamentNext
<1>5. MatchNext => Same \/ \E r \in writes, takesEffect, fails \in BOOLEAN : WriteReturns(r, takesEffect, fails)
  <2>1. ASSUME NEW c, NEW r PROVE GameReady(c, r) \/ GamePause(c, r) \/ GameResume(c, r) => results' = results /\ bracket' = bracket
    <3>1. GameReady(c, r) => results' = results /\ bracket' = bracket
      BY DEF GameReady, dbVars, bracketVars
    <3>2. GamePause(c, r) => results' = results /\ bracket' = bracket
      BY DEF GamePause, dbVars, bracketVars
    <3>3. GameResume(c, r) => results' = results /\ bracket' = bracket
      BY DEF GameResume, dbVars, bracketVars
    <3>. QED
      BY <3>1, <3>2, <3>3
  <2>2. ASSUME NEW r, NEW room, NEW side PROVE finishRoom(r, room, side) => results' = results /\ bracket' = bracket
    BY DEF finishRoom, dbVars, bracketVars
  <2>3. ASSUME NEW r PROVE RoomClock(r) \/ RetryTimerFires(r) => results' = results /\ bracket' = bracket
    BY DEF RoomClock, RetryTimerFires, dbVars, bracketVars
  <2>4. ASSUME NEW r PROVE ReconnectTimerFires(r) => results' = results /\ bracket' = bracket
    BY <2>2 DEF ReconnectTimerFires, bracketVars
  <2>. HIDE DEF Same
  <2>. QED
    BY <1>1, <2>1, <2>2, <2>3, <2>4 DEF MatchNext, MatchEnds
<1>6. UNCHANGED vars => Same
  BY <1>1 DEF vars, dbVars, bracketVars
<1>. QED
  BY <1>2, <1>3, <1>4, <1>5, <1>6 DEF Next

\* The transaction that applies a result (packages/db/src/index.ts:640-745).
LEMMA WriteIs ==
  ASSUME RoomInv, BracketInv, ResultsInv,
         NEW r \in writes, NEW takesEffect \in BOOLEAN, NEW fails \in BOOLEAN, WriteReturns(r, takesEffect, fails)
  PROVE  LET m == rooms[r].match IN
         /\ r \in DOMAIN rooms /\ m \in Matches \cup {NoMatch} /\ rooms[r].fin # "no"
         /\ \/ results' = results /\ FinishedStay
            \/ /\ results[r] = <<>> /\ results' = [results EXCEPT ![r] = <<m>>]
               /\ \/ m = NoMatch /\ bracket' = bracket
                  \/ m \in Matches /\ bracket[m] # "finished" /\ bracket' = [bracket EXCEPT ![m] = "finished"]
<1> DEFINE m == rooms[r].match
<1>1. r \in DOMAIN rooms /\ rooms[r] \in Room /\ rooms[r].fin = "writing" /\ r \in RoomIds
  BY RoomIs DEF RoomInv, RoomTypes
<1>2. m \in Matches \cup {NoMatch}
  BY <1>1 DEF Room
<1>3. /\ takesEffect => ~Rejected(r)
      /\ results' = IF takesEffect THEN Applied(r) ELSE results
      /\ bracket' = IF takesEffect /\ m # NoMatch THEN [bracket EXCEPT ![m] = "finished"] ELSE bracket
  BY DEF WriteReturns
<1>4. bracket \in [Matches -> {"ready", "running", "finished"}]
  BY DEF BracketInv, BracketTypes
<1>5. CASE ~takesEffect
  BY <1>1, <1>2, <1>3, <1>5 DEF FinishedStay
<1>6. CASE takesEffect /\ results[r] # <<>>
  <2>1. results[r] = <<m>> /\ results' = results
    BY <1>1, <1>3, <1>6 DEF ResultsInv, ResultsAgree, Applied
  <2>2. m # NoMatch => bracket[m] = "finished"
    BY <1>1, <1>2, <2>1 DEF ResultsInv, DecidedOnce
  <2>3. FinishedStay
    BY <1>2, <1>3, <1>4, <2>2 DEF FinishedStay
  <2>. QED
    BY <1>1, <1>2, <2>1, <2>3
<1>7. CASE takesEffect /\ results[r] = <<>>
  <2>1. results' = [results EXCEPT ![r] = Append(results[r], m)]
    BY <1>3, <1>7 DEF Applied
  <2>2. Append(results[r], m) = <<m>>
    BY <1>7
  <2>3. results' = [results EXCEPT ![r] = <<m>>]
    BY <2>1, <2>2
  <2>4. m # NoMatch => bracket[m] # "finished"
    BY <1>3, <1>7 DEF Rejected
  <2>. QED
    BY <1>1, <1>2, <1>3, <1>7, <2>3, <2>4
<1>. QED
  BY <1>5, <1>6, <1>7

LEMMA ResultsStep ==
  ASSUME RoomInv, RoomInv', BracketInv, ResultsInv, RoomsMove, [Next]_vars
  PROVE  ResultsInv'
<1>0. \A r \in DOMAIN rooms' : r \in RoomIds
  <2>1. created' \in 0..MaxRooms /\ \A r \in DOMAIN rooms' : r \in 1..created'
    BY DEF RoomInv, RoomTypes
  <2>. QED
    BY <2>1, HubAssumption DEF RoomIds
<1>1. /\ results \in [RoomIds -> Seq(Matches \cup {NoMatch})] /\ created <= created'
      /\ created \in Nat /\ created' \in Nat
  BY DEF ResultsInv, ResultsAgree, RoomsMove, RoomInv, RoomTypes
<1>2. \A r \in DOMAIN rooms' : results[r] # <<>> =>
        r \in DOMAIN rooms /\ rooms'[r].fin # "no" /\ results[r] = <<rooms'[r].match>>
  <2> SUFFICES ASSUME NEW r \in DOMAIN rooms', results[r] # <<>>
               PROVE  r \in DOMAIN rooms /\ rooms'[r].fin # "no" /\ results[r] = <<rooms'[r].match>>
    OBVIOUS
  <2>1. r <= created
    BY <1>0 DEF ResultsInv, ResultsAgree
  <2>2. ~Begins(r)
    BY <1>1, <2>1 DEF Begins
  <2>3. Keeps(r)
    BY <2>2 DEF RoomsMove
  <2>. QED
    BY <2>3 DEF ResultsInv, ResultsAgree, Keeps
<1>3. CASE results' = results /\ FinishedStay
  <2>1. ResultsAgree'
    <3>1. \A r \in RoomIds : results[r] # <<>> => r <= created' /\ \E m \in Matches \cup {NoMatch} : results[r] = <<m>>
      BY <1>1 DEF ResultsInv, ResultsAgree, RoomIds
    <3>. QED
      BY <1>1, <1>2, <1>3, <3>1 DEF ResultsAgree
  <2>2. DecidedOnce'
    BY <1>3 DEF ResultsInv, DecidedOnce, FinishedStay
  <2>. QED
    BY <2>1, <2>2 DEF ResultsInv
<1>4. ASSUME NEW r \in writes, NEW takesEffect \in BOOLEAN, NEW fails \in BOOLEAN, WriteReturns(r, takesEffect, fails)
      PROVE  ResultsInv'
  <2> DEFINE m == rooms[r].match
  <2>1. /\ r \in DOMAIN rooms /\ r \in RoomIds /\ r <= created /\ m \in Matches \cup {NoMatch} /\ rooms[r].fin # "no"
    BY <1>4, WriteIs, RoomIs
  <2>2. CASE /\ results[r] = <<>> /\ results' = [results EXCEPT ![r] = <<m>>]
             /\ \/ m = NoMatch /\ bracket' = bracket
                \/ m \in Matches /\ bracket[m] # "finished" /\ bracket' = [bracket EXCEPT ![m] = "finished"]
    <3>1. r \in DOMAIN rooms' => rooms'[r].fin # "no" /\ rooms'[r].match = m
      <4>1. r \in DOMAIN rooms' => Keeps(r)
        BY <2>1 DEF RoomsMove, Begins
      <4>. QED
        BY <2>1, <4>1 DEF Keeps
    <3>2. <<m>> \in Seq(Matches \cup {NoMatch}) /\ <<m>> # <<>>
      BY <2>1
    <3>3. results'[r] = <<m>> /\ \A s \in RoomIds : s # r => results'[s] = results[s]
      BY <1>1, <2>1, <2>2
    <3>. HIDE DEF m
    <3>4. results' \in [RoomIds -> Seq(Matches \cup {NoMatch})]
      BY <1>1, <2>2, <3>2
    <3>5. \A s \in RoomIds : results'[s] # <<>> => s <= created' /\ \E n \in Matches \cup {NoMatch} : results'[s] = <<n>>
      <4>1. r <= created'
        BY <1>1, <2>1 DEF RoomIds
      <4>2. \A s \in RoomIds : results[s] # <<>> => s <= created' /\ \E n \in Matches \cup {NoMatch} : results[s] = <<n>>
        BY <1>1 DEF ResultsInv, ResultsAgree, RoomIds
      <4>. QED
        BY <2>1, <3>3, <4>1, <4>2
    <3>6. \A s \in DOMAIN rooms' : results'[s] # <<>> => rooms'[s].fin # "no" /\ results'[s] = <<rooms'[s].match>>
      BY <1>0, <1>2, <3>1, <3>3
    <3>7. ASSUME NEW n \in Matches
          PROVE  /\ bracket'[n] = "finished" <=> \E s \in RoomIds : results'[s] = <<n>>
                 /\ \A s, t \in RoomIds : results'[s] = <<n>> /\ results'[t] = <<n>> => s = t
      <4>1. /\ bracket[n] = "finished" <=> \E s \in RoomIds : results[s] = <<n>>
            /\ \A s, t \in RoomIds : results[s] = <<n>> /\ results[t] = <<n>> => s = t
        BY DEF ResultsInv, DecidedOnce
      <4>2. bracket \in [Matches -> {"ready", "running", "finished"}]
        BY DEF BracketInv, BracketTypes
      <4>3. <<m>> = <<n>> <=> m = n
        OBVIOUS
      <4>4. CASE n # m
        <5>1. bracket'[n] = bracket[n] /\ \A s \in RoomIds : results'[s] = <<n>> <=> results[s] = <<n>>
          BY <2>2, <3>3, <4>2, <4>3, <4>4
        <5>. QED
          BY <4>1, <5>1
      <4>5. CASE n = m
        <5>1. bracket[n] # "finished" /\ bracket'[n] = "finished"
          BY <2>2, <4>2, <4>5, HubAssumption
        <5>2. \A s \in RoomIds : results'[s] = <<n>> => s = r
          BY <3>3, <4>1, <5>1
        <5>. QED
          BY <2>1, <3>3, <4>5, <5>1, <5>2
      <4>. QED
        BY <4>4, <4>5
    <3>. QED
      BY <3>4, <3>5, <3>6, <3>7 DEF ResultsInv, ResultsAgree, DecidedOnce
  <2>. QED
    BY <1>3, <1>4, <2>2, WriteIs
<1>. QED
  BY <1>3, <1>4, OnlyWritesAddResults

-----------------------------------------------------------------------------
(* Nobody is reserved for a match that is not there.                       *)

Held ==
  \A u \in Users : queue.mm.status[u] = "matched" =>
    (\E r \in active : Sits(u, r)) \/ (\E l \in lookups : owner[l.client] = u)

LEMMA HeldStep ==
  ASSUME ConnInv, QueueInv, RoomInv, RoomInv', Held, BooksStep, RoomsMove
  PROVE  Held'
<1>1. ASSUME NEW u \in Users, StillHeld(u) PROVE HeldAnew(u)
  <2>1. CASE \E l \in lookups : owner[l.client] = u
    <3>1. PICK l \in lookups : owner[l.client] = u
      BY <2>1
    <3>2. l.client \in DOMAIN owner /\ l \in lookups'
      BY <1>1, <3>1 DEF StillHeld, QueueInv, QueueTypes
    <3>3. owner'[l.client] = u
      BY <3>1, <3>2 DEF RoomsMove, OwnersStay
    <3>. QED
      BY <3>2, <3>3 DEF HeldAnew
  <2>2. CASE \E r \in active : Sits(u, r)
    <3>1. PICK r \in active : Sits(u, r)
      BY <2>2
    <3>2. r \in active' /\ r \in DOMAIN rooms' /\ r \in DOMAIN rooms
      BY <1>1, <3>1 DEF StillHeld, RoomInv, RoomTypes
    <3>3. SamePlayers(r)
      BY <3>2 DEF RoomsMove, Begins, Keeps
    <3>4. Sits(u, r)'
      BY <3>1, <3>3 DEF Sits, SamePlayers
    <3>. QED
      BY <3>2, <3>4 DEF HeldAnew
  <2>. QED
    BY <1>1, <2>1, <2>2 DEF StillHeld, Held
<1>2. \A u \in Users : queue'.mm.status[u] = "matched" => HeldAnew(u)
  BY <1>1 DEF BooksStep
<1>. QED
  BY <1>2 DEF Held, HeldAnew, Sits

-----------------------------------------------------------------------------
(* The life of the server: accepting, draining, closed; results of guests. *)

ServerInv ==
  /\ recent \subseteq Guests
  /\ accepting \in BOOLEAN /\ closed \in BOOLEAN
  /\ drain \in {"idle", "waiting", "drained", "timedout"}
  /\ drain # "idle" => ~accepting
  /\ closed => drain \in {"drained", "timedout"}
  /\ drain = "waiting" => active # {}

\* How far a step may change it.
Drains ==
  \/ drain' = drain /\ (drain = "waiting" => active' # {})
  \/ drain = "waiting" /\ active' = {} /\ drain' = "drained"

\* The drain is answered, and the server closed, only with no room open.
ServerStep ==
  /\ ServerInv'
  /\ drain' = "drained" => drain = "drained" \/ active' = {}
  /\ closed' => closed \/ active' = {}

LEMMA ServerKept ==
  ASSUME ServerInv, recent' \subseteq Guests, UNCHANGED <<accepting, closed>>, Drains
  PROVE  ServerStep
BY DEF ServerInv, Drains, ServerStep

\* A room that is taken off answers the drain when it is the last.
LEMMA RemovalDrains ==
  ASSUME ServerInv, NEW r, NEW rs, NEW writing, RemoveRoom(r, queue, rs, writing)
  PROVE  Drains
BY DEF RemoveRoom, notifyDrainProgress, Drains, ServerInv

LEMMA CreationDrains ==
  ASSUME ServerInv, RoomInv, drain' = drain, NEW left, NEW right, NEW m, createRoom(left, right, m)
  PROVE  Drains
BY DEF createRoom, Drains, ServerInv

\* The guests of a guest room are guests both (gameHub.ts:1040-1045).
LEMMA GuestsSit ==
  ASSUME ConnInv, RoomInv, SeatsSuit, NEW r \in DOMAIN rooms, NEW room, room.seat = rooms[r].seat, IsGuestRoom(room)
  PROVE  SeatedUsers(room) \subseteq Guests
<1>0. AI \notin DOMAIN owner
  BY LenProperties DEF ConnInv, ConnTypes, AI
<1>1. owner[rooms[r].seat["left"]] \in Guests
  BY DEF IsGuestRoom
<1>2. rooms[r].seat["right"] # AI => owner[rooms[r].seat["right"]] \in Guests
  BY <1>1 DEF SeatsSuit, SameKind
<1>3. SeatsTyped(rooms[r].seat)
  BY RoomIs
<1>4. \A u \in SeatedUsers(room) : \E side \in Sides : rooms[r].seat[side] # AI /\ u = owner[rooms[r].seat[side]]
  <2> DEFINE seat == rooms[r].seat
  <2>1. seat \in [Sides -> Conns \cup {AI}] /\ (\A side \in Sides : seat[side] \in DOMAIN owner \cup {AI}) /\ room.seat = seat
    BY <1>3 DEF SeatsTyped
  <2>. HIDE DEF seat
  <2>2. \A u \in SeatedUsers(room) : \E side \in Sides : seat[side] # AI /\ u = owner[seat[side]]
    BY <2>1, SeatedAreUsers
  <2>. QED
    BY <2>2 DEF seat
<1>. QED
  BY <1>1, <1>2, <1>4 DEF Sides

LEMMA FinishServer ==
  ASSUME ConnInv, RoomInv, SeatsSuit, ServerInv, NEW r \in active, NEW room, room.seat = rooms[r].seat,
         NEW side, finishRoom(r, room, side)
  PROVE  ServerStep
<1>0. r \in DOMAIN rooms
  BY DEF RoomInv, RoomTypes
<1>1. UNCHANGED <<accepting, closed>>
  BY DEF finishRoom
<1>2. CASE /\ IsGuestRoom(room) /\ recent' = recent \cup SeatedUsers(room)
           /\ \E rs : RemoveRoom(r, queue, rs, writes)
  <2>1. recent' \subseteq Guests
    BY <1>0, <1>2, GuestsSit DEF ServerInv
  <2>2. Drains
    BY <1>2, RemovalDrains
  <2>. QED
    BY <1>1, <2>1, <2>2, ServerKept
<1>3. CASE UNCHANGED <<active, recent, drain>>
  <2>1. Drains /\ recent' \subseteq Guests
    BY <1>3 DEF Drains, ServerInv
  <2>. QED
    BY <1>1, <2>1, ServerKept
<1>. QED
  BY <1>2, <1>3 DEF finishRoom

LEMMA ServerSame ==
  ASSUME ServerInv, UNCHANGED <<recent, accepting, closed, drain, active>>
  PROVE  ServerStep
BY DEF ServerInv, ServerStep

LEMMA ServerIsKept ==
  ASSUME ConnInv, RoomInv, SeatsSuit, ServerInv, [Next]_vars
  PROVE  ServerStep
<1>1. UNCHANGED vars => ServerStep
  BY ServerSame DEF vars, roomVars, lifeVars
<1>2. ServerNext => ServerStep
  <2>1. ASSUME NEW u \in Users, Connect(u) PROVE ServerStep
    BY <2>1, ServerSame DEF Connect, lifeVars
  <2>2. ASSUME NEW c, Depart(c) PROVE ServerStep
    BY <2>2, ServerSame DEF Depart, lifeVars
  <2>3. ASSUME NEW u \in Users, GuestResultExpires(u) PROVE ServerStep
    <3>1. UNCHANGED <<active, accepting, closed, drain>> /\ recent' \subseteq recent
      BY <2>3 DEF GuestResultExpires, roomVars, lifeVars
    <3>. QED
      BY <3>1 DEF ServerInv, ServerStep
  <2>4. ASSUME NEW c, SocketDrops(c) PROVE ServerStep
    BY <2>4, ServerSame DEF SocketDrops, roomVars, lifeVars
  <2>5. CASE BeginDrain
    <3>1. /\ UNCHANGED <<active, recent, closed>> /\ accepting' = FALSE /\ drain = "idle"
          /\ drain' = IF active = {} THEN "drained" ELSE "waiting"
      BY <2>5 DEF BeginDrain, roomVars
    <3>. QED
      BY <3>1 DEF ServerInv, ServerStep
  <2>6. CASE DrainTimeout
    <3>1. UNCHANGED <<active, recent, accepting, closed>> /\ drain = "waiting" /\ drain' = "timedout"
      BY <2>6 DEF DrainTimeout, roomVars
    <3>. QED
      BY <3>1 DEF ServerInv, ServerStep
  <2>7. CASE Close
    <3>1. /\ drain \in {"drained", "timedout"} /\ drain' = drain /\ closed' = TRUE /\ accepting' = FALSE
          /\ recent' = {} /\ active' = {}
      BY <2>7 DEF Close
    <3>. QED
      BY <3>1 DEF ServerInv, ServerStep
  <2>. QED
    BY <2>1, <2>2, <2>3, <2>4, <2>5, <2>6, <2>7 DEF ServerNext, RevokeUser, Disconnect
<1>3. ASSUME UNCHANGED <<recent, accepting, closed, drain>>,
             active' = active \/ \E left, right, m : createRoom(left, right, m)
      PROVE  ServerStep
  <2>1. Drains
    <3>1. CASE active' = active
      BY <1>3, <3>1 DEF Drains, ServerInv
    <3>. QED
      BY <1>3, <3>1, CreationDrains
  <2>. QED
    BY <1>3, <2>1, ServerKept DEF ServerInv
<1>4. LobbyNext => ServerStep
  <2>1. ASSUME NEW c, JoinAi(c) \/ JoinAndWait(c) \/ JoinAndPlay(c) \/ QueueLeave(c) PROVE ServerStep
    <3>1. UNCHANGED <<recent, lifeVars>>
      BY <2>1 DEF JoinAi, JoinAndWait, JoinAndPlay, QueueLeave
    <3>2. JoinAi(c) => active' = active \/ \E left, right, m : createRoom(left, right, m)
      BY DEF JoinAi, createRoomFails, roomVars
    <3>3. JoinAndWait(c) \/ QueueLeave(c) => active' = active
      BY DEF JoinAndWait, QueueLeave, roomVars
    <3>4. JoinAndPlay(c) => active' = active \/ \E left, right, m : createRoom(left, right, m)
      BY DEF JoinAndPlay, createRoomFails, roomVars
    <3>. QED
      BY <1>3, <2>1, <3>1, <3>2, <3>3, <3>4 DEF lifeVars
  <2>2. ASSUME NEW u, NpcFallbackTimer(u) PROVE ServerStep
    <3>1. UNCHANGED <<recent, lifeVars>>
      BY <2>2 DEF NpcFallbackTimer
    <3>2. active' = active \/ \E left, right, m : createRoom(left, right, m)
      BY <2>2 DEF NpcFallbackTimer, createRoomFails, roomVars
    <3>. QED
      BY <1>3, <3>1, <3>2 DEF lifeVars
  <2>3. ASSUME NEW l, NEW answer, NpcLookupReturns(l, answer) PROVE ServerStep
    <3>1. UNCHANGED <<recent, lifeVars>>
      BY <2>3 DEF NpcLookupReturns
    <3>2. active' = active \/ \E left, right, m : createRoom(left, right, m)
      BY <2>3 DEF NpcLookupReturns, roomVars
    <3>. QED
      BY <1>3, <3>1, <3>2 DEF lifeVars
  <2>. QED
    BY <2>1, <2>2, <2>3 DEF LobbyNext
<1>5. TournamentNext => ServerStep
  <2>1. ASSUME NEW c, NEW m, TournamentJoin(c, m) PROVE ServerStep
    BY <2>1, ServerSame DEF TournamentJoin, roomVars, lifeVars
  <2>2. ASSUME NEW j, NEW seen, TournamentLookupReturns(j, seen) PROVE ServerStep
    <3>1. UNCHANGED <<recent, lifeVars>>
      BY <2>2 DEF TournamentLookupReturns
    <3>2. active' = active \/ \E left, right, m : createRoom(left, right, m)
      BY <2>2 DEF TournamentLookupReturns, createRoomFails, roomVars
    <3>. QED
      BY <1>3, <3>1, <3>2 DEF lifeVars
  <2>3. ASSUME NEW s \in starts, NEW takesEffect, NEW fails, StartReturns(s, takesEffect, fails) PROVE ServerStep
    <3>1. UNCHANGED <<recent, accepting, closed>>
      BY <2>3 DEF StartReturns
    <3>2. Drains
      <4>1. CASE RemoveRoom(s.room, queue, rooms, writes)
        BY <4>1, RemovalDrains
      <4>2. CASE UNCHANGED <<queue, roomOf, roomVars, writes, drain>>
        BY <4>2 DEF roomVars, Drains, ServerInv
      <4>. QED
        BY <2>3, <4>1, <4>2 DEF StartReturns
    <3>. QED
      BY <3>1, <3>2, ServerKept DEF ServerInv
  <2>. QED
    BY <2>1, <2>2, <2>3 DEF TournamentNext
<1>6. MatchNext => ServerStep
  <2>1. ASSUME NEW c, NEW r PROVE GameReady(c, r) \/ GamePause(c, r) \/ GameResume(c, r) => ServerStep
    <3>1. GameReady(c, r) => UNCHANGED <<recent, accepting, closed, drain, active>>
      BY DEF GameReady, lifeVars
    <3>2. GamePause(c, r) => UNCHANGED <<recent, accepting, closed, drain, active>>
      BY DEF GamePause, lifeVars
    <3>3. GameResume(c, r) => UNCHANGED <<recent, accepting, closed, drain, active>>
      BY DEF GameResume, lifeVars
    <3>. QED
      BY <3>1, <3>2, <3>3, ServerSame
  <2>2. ASSUME NEW r PROVE RoomClock(r) \/ RetryTimerFires(r) => ServerStep
    BY ServerSame DEF RoomClock, RetryTimerFires, lifeVars
  <2>3. ASSUME NEW r \in scheduled, NEW side, MatchEnds(r, side) PROVE ServerStep
    <3>1. r \in active /\ finishRoom(r, rooms[r], side)
      BY <2>3 DEF MatchEnds, RoomInv, RoomTypes
    <3>. QED
      BY <3>1, FinishServer
  <2>4. ASSUME NEW r \in active, ReconnectTimerFires(r) PROVE ServerStep
    <3> DEFINE room == rooms[r]
               expired == [room EXCEPT !.session = expireReconnect(room.session, room.waited),
                                       !.timer = FALSE, !.gone = {}]
    <3>1. \/ /\ \E rs : RemoveRoom(r, queue, rs, writes)
             /\ UNCHANGED <<recent, accepting, closed>>
          \/ \E side : finishRoom(r, expired, side)
      BY <2>4 DEF ReconnectTimerFires
    <3>2. expired.seat = rooms[r].seat
      BY RoomIs DEF Room, RoomInv, RoomTypes
    <3>. HIDE DEF room, expired
    <3>3. CASE \E side : finishRoom(r, expired, side)
      BY <3>2, <3>3, FinishServer
    <3>4. CASE (\E rs : RemoveRoom(r, queue, rs, writes)) /\ UNCHANGED <<recent, accepting, closed>>
      <4>1. Drains
        BY <3>4, RemovalDrains
      <4>. QED
        BY <3>4, <4>1, ServerKept DEF ServerInv
    <3>. QED
      BY <3>1, <3>3, <3>4
  <2>5. ASSUME NEW r \in writes, NEW takesEffect, NEW fails, WriteReturns(r, takesEffect, fails) PROVE ServerStep
    <3>1. UNCHANGED <<recent, accepting, closed>>
      BY <2>5 DEF WriteReturns
    <3>2. Drains
      <4>1. CASE RemoveRoom(r, queue, rooms, writes \ {r})
        BY <4>1, RemovalDrains
      <4>2. CASE UNCHANGED <<active, drain>>
        BY <4>2 DEF Drains, ServerInv
      <4>. QED
        BY <2>5, <4>1, <4>2 DEF WriteReturns
    <3>. QED
      BY <3>1, <3>2, ServerKept DEF ServerInv
  <2>. QED
    BY <2>1, <2>2, <2>3, <2>4, <2>5 DEF MatchNext
<1>. QED
  BY <1>1, <1>2, <1>4, <1>5, <1>6 DEF Next

-----------------------------------------------------------------------------
(* All of it together.                                                     *)

HubInv ==
  /\ ConnInv /\ QueueInv /\ RoomInv /\ BracketInv
  /\ SeatsSuit /\ ResultsInv /\ Held /\ ServerInv

LEMMA HubInit == Init => HubInv
<1> SUFFICES ASSUME Init PROVE HubInv
  OBVIOUS
<1>1. ConnInv /\ QueueInv
  BY ConnInit, QueueInit
<1>2. RoomInv
  <2>1. owner = <<>> /\ roomOf = <<>> /\ rooms = <<>> /\ active = {} /\ created = 0 /\ scheduled = {} /\ writes = {}
    BY DEF Init
  <2>2. DOMAIN rooms = {}
    BY <2>1
  <2>. QED
    BY <2>1, <2>2, HubAssumption DEF RoomInv, RoomTypes
<1>3. BracketInv
  BY DEF Init, BracketInv, BracketTypes, WaitersPlay
<1>4. SeatsSuit
  <2>1. DOMAIN rooms = {}
    BY DEF Init
  <2>. QED
    BY <2>1 DEF SeatsSuit
<1>5. ResultsInv
  <2>1. DOMAIN rooms = {} /\ results = [r \in RoomIds |-> <<>>] /\ \A m \in Matches : bracket[m] = "ready"
    BY DEF Init
  <2>2. <<>> \in Seq(Matches \cup {NoMatch}) /\ \A m : <<m>> # <<>>
    OBVIOUS
  <2>3. ResultsAgree
    BY <2>1, <2>2 DEF ResultsAgree
  <2>4. DecidedOnce
    BY <2>1, <2>2 DEF DecidedOnce
  <2>. QED
    BY <2>3, <2>4 DEF ResultsInv
<1>6. Held
  <2>1. \A u \in Users : queue.mm.status[u] = "none"
    BY DEF Init, NewMatchmaker
  <2>. QED
    BY <2>1 DEF Held
<1>7. ServerInv
  BY DEF Init, ServerInv
<1>. QED
  BY <1>1, <1>2, <1>3, <1>4, <1>5, <1>6, <1>7 DEF HubInv

LEMMA HubStep == HubInv /\ [Next]_vars => HubInv' /\ RoomsStep
<1> SUFFICES ASSUME HubInv, [Next]_vars PROVE HubInv' /\ RoomsStep
  OBVIOUS
<1>0. /\ ConnInv /\ QueueInv /\ RoomInv /\ BracketInv
      /\ SeatsSuit /\ ResultsInv /\ Held /\ ServerInv
  BY DEF HubInv
<1>1. ConnInv'
  BY <1>0, ConnStep
<1>2. BooksStep
  BY <1>0, BooksAreKept
<1>3. RoomsStep
  BY <1>0, RoomsAreKept
<1>4. RoomInv' /\ RoomsMove /\ OwnersStay
  BY <1>3 DEF RoomsStep, RoomsMove
<1>5. BracketInv'
  BY <1>0, <1>4, BracketIsKept
<1>6. SeatsSuit'
  BY <1>0, <1>4, SeatsSuitStep
<1>7. ResultsInv'
  BY <1>0, <1>4, ResultsStep
<1>8. Held'
  BY <1>0, <1>2, <1>4, HeldStep
<1>9. ServerInv'
  BY <1>0, ServerIsKept DEF ServerStep
<1>10. QueueInv'
  BY <1>2 DEF BooksStep
<1>. QED
  BY <1>1, <1>3, <1>4, <1>5, <1>6, <1>7, <1>8, <1>9, <1>10 DEF HubInv

THEOREM HubInvAlways == Spec => []HubInv
<1>1. Init => HubInv
  BY HubInit
<1>2. HubInv /\ [Next]_vars => HubInv'
  BY HubStep
<1>. QED
  BY <1>1, <1>2, PTL DEF Spec

\* Every variable keeps its type.
THEOREM HubTypes == Spec => []TypeOK
<1>1. HubInv => TypeOK
  BY DEF HubInv, ConnInv, QueueInv, RoomInv, BracketInv, ResultsInv, ResultsAgree, ServerInv, TypeOK, LifeTypes
<1>. QED
  BY <1>1, HubInvAlways, PTL

\* Queue, entries, reservations and rooms agree, for any number of users,
\* connections and lookups (gameHub.ts:508-629, 693-700, 1180-1184).
THEOREM QueueBooksAgreeAlways == Spec => []QueueBooksAgree
<1>1. HubInv => QueueBooksAgree
  <2> SUFFICES ASSUME HubInv PROVE QueueBooksAgree
    OBVIOUS
  <2>0. ConnInv /\ QueueInv /\ Held
    BY DEF HubInv
  <2>1. ASSUME NEW u \in Users, queue.mm.status[u] = "queued"
        PROVE  queue.entries[u].client = byUser[u] /\ queue.entries[u].timer /\ accepting
    <3>1. queue.entries[u].timer
      BY <2>0, <2>1 DEF QueueInv, EntriesAgree
    <3>2. queue.entries[u] # NoEntry
      BY <3>1 DEF NoEntry
    <3>. QED
      BY <2>0, <3>1, <3>2 DEF QueueInv, EntriesAgree
  <2>2. NoStrandedReservation
    BY <2>0 DEF Held, Sits, NoStrandedReservation
  <2>. QED
    BY <2>1, <2>2 DEF QueueBooksAgree, QueuedUsersHaveEntries
<1>. QED
  BY <1>1, HubInvAlways, PTL

\* What the players see, what the session says and what is simulated agree in
\* every room (gameHub.ts:413-423, 433-442, 893-960).
THEOREM PhaseFollowsSessionAlways == Spec => []PhaseFollowsSession
<1>1. HubInv => PhaseFollowsSession
  <2>1. HubInv => \A r \in active : r \in DOMAIN rooms
    BY DEF HubInv, RoomInv, RoomTypes
  <2>. QED
    BY <2>1 DEF HubInv, RoomInv, Fits, PhaseFollowsSession, Reconnecting
<1>. QED
  BY <1>1, HubInvAlways, PTL

\* One tournament match is decided by the result of one room, and is finished
\* exactly when it has that result (packages/db/src/index.ts:640-745).
THEOREM TournamentDecidedOnceAlways == Spec => []TournamentDecidedOnce
<1>1. HubInv => TournamentDecidedOnce
  <2> SUFFICES ASSUME HubInv, NEW m \in Matches
               PROVE  LET deciding == {r \in RoomIds : m \in Range(results[r])}
                      IN Cardinality(deciding) <= 1 /\ (bracket[m] = "finished" <=> deciding # {})
    BY DEF TournamentDecidedOnce
  <2> DEFINE deciding == {r \in RoomIds : m \in Range(results[r])}
  <2>1. \A r \in RoomIds : m \in Range(results[r]) <=> results[r] = <<m>>
    <3> SUFFICES ASSUME NEW r \in RoomIds PROVE m \in Range(results[r]) <=> results[r] = <<m>>
      OBVIOUS
    <3>1. results[r] = <<>> \/ \E n : results[r] = <<n>>
      BY DEF HubInv, ResultsInv, ResultsAgree
    <3>2. Range(<<>>) = {} /\ \A n : Range(<<n>>) = {n}
      BY DEF Range
    <3>. QED
      BY <3>1, <3>2
  <2>2. /\ bracket[m] = "finished" <=> \E r \in RoomIds : results[r] = <<m>>
        /\ \A r, s \in RoomIds : results[r] = <<m>> /\ results[s] = <<m>> => r = s
    BY DEF HubInv, ResultsInv, DecidedOnce
  <2>3. deciding = {} \/ \E r : deciding = {r}
    BY <2>1, <2>2
  <2>4. Cardinality(deciding) <= 1
    <3>. HIDE DEF deciding
    <3>1. CASE deciding = {}
      BY <3>1, FS_EmptySet
    <3>2. CASE deciding # {}
      <4>1. PICK r : deciding = {r}
        BY <2>3, <3>2
      <4>2. Cardinality({r}) = 1
        BY FS_Singleton
      <4>. QED
        BY <4>1, <4>2
    <3>. QED
      BY <3>1, <3>2
  <2>. QED
    BY <2>1, <2>2, <2>4
<1>. QED
  BY <1>1, HubInvAlways, PTL

\* The room of a tournament match seats its two participants, each on its side,
\* through every reconnection (gameHub.ts:671-685).
THEOREM TournamentSeatsAgreeAlways == Spec => []TournamentSeatsAgree
<1>1. HubInv => TournamentSeatsAgree
  <2>1. HubInv => \A r \in active : r \in DOMAIN rooms
    BY DEF HubInv, RoomInv, RoomTypes
  <2>. QED
    BY <2>1 DEF HubInv, SeatsSuit, TournamentSeatsAgree
<1>. QED
  BY <1>1, HubInvAlways, PTL

-----------------------------------------------------------------------------
(* A hub that plays no tournaments.  The answer to getTournamentMatch() may *)
(* seat a user who has got another match meanwhile, may open a room while  *)
(* the server drains, and may let a dead connection wait: what follows     *)
(* holds where there are no tournament matches, and only there.            *)

DrainedInv == (drain = "drained" => active = {}) /\ (closed => active = {})

LEMMA NoTournamentCalls ==
  ASSUME Matches = {}, BracketInv
  PROVE  ~TournamentNext
BY DEF BracketInv, BracketTypes, TournamentNext

\* A room that begins is one of the lobby, which is closed to new matches
\* while the server drains (gameHub.ts:508-516, 729-736).
LEMMA NothingBegins ==
  ASSUME Matches = {}, RoomsMove, ~accepting
  PROVE  created' = created /\ \A r \in DOMAIN rooms' : Keeps(r)
<1>1. \A r : ~Begins(r)
  <2> SUFFICES ASSUME NEW r, Begins(r) PROVE FALSE
    OBVIOUS
  <2>1. PICK left, right, m : Suits(left, right, m)
    BY DEF Begins
  <2>2. m = NoMatch
    BY <2>1 DEF Suits
  <2>. QED
    BY <2>1, <2>2 DEF Suits
<1>. QED
  BY <1>1 DEF RoomsMove

LEMMA DrainedStep ==
  ASSUME Matches = {}, RoomInv', ServerInv, DrainedInv, RoomsMove, ServerStep
  PROVE  DrainedInv'
<1>1. ASSUME drain # "idle", active = {} PROVE active' = {}
  <2>1. \A r \in DOMAIN rooms' : Keeps(r)
    BY <1>1, NothingBegins DEF ServerInv
  <2>2. \A r \in active' : r \in DOMAIN rooms'
    BY DEF RoomInv, RoomTypes
  <2>. QED
    BY <1>1, <2>1, <2>2 DEF Keeps
<1>2. drain' = "drained" => active' = {}
  BY <1>1 DEF ServerStep, DrainedInv
<1>3. closed' => active' = {}
  BY <1>1 DEF ServerStep, ServerInv, DrainedInv
<1>. QED
  BY <1>2, <1>3 DEF DrainedInv

-----------------------------------------------------------------------------
(* Every connection in a seat of an open room knows the room; who waits in *)
(* the queue is in none.                                                   *)

SeatsKnown ==
  /\ closed \/ writes \subseteq active
  /\ \A r \in active, side \in Sides : rooms[r].seat[side] # AI => roomOf[rooms[r].seat[side]] = r

WaitersFree ==
  \A u \in Users : queue.mm.status[u] = "queued" => roomOf[queue.entries[u].client] = NoRoom

\* Connections leave their room, or enter one that has just begun.
RoomOfStep ==
  /\ SeatsKnown'
  /\ \A c \in DOMAIN owner :
       \/ roomOf'[c] \in {roomOf[c], NoRoom}
       \/ \E r \in active' \ active, side \in Sides : rooms'[r].seat[side] = c

LEMMA SeatsStand ==
  ASSUME RoomInv, RoomInv', SeatsKnown, RoomsMove, closed \/ writes' \subseteq writes \cup active,
         UNCHANGED <<roomOf, active, clients, closed>>
  PROVE  RoomOfStep
<1>1. ASSUME NEW r \in active' PROVE rooms'[r].seat = rooms[r].seat
  <2>1. r \in DOMAIN rooms' /\ r \in DOMAIN rooms
    BY DEF RoomInv, RoomTypes
  <2>2. Keeps(r)
    BY <2>1 DEF RoomsMove, Begins
  <2>. QED
    BY <2>2 DEF Keeps
<1>2. SeatsKnown'
  BY <1>1 DEF SeatsKnown
<1>. QED
  BY <1>2 DEF RoomOfStep

LEMMA SeatsEmptied ==
  ASSUME ConnInv, RoomInv, RoomInv', SeatsKnown, closed => active = {}, RoomsMove, UNCHANGED <<clients, closed, owner>>,
         NEW r \in DOMAIN rooms, NEW rs, NEW writing, RemoveRoom(r, queue, rs, writing), rs[r].seat = rooms[r].seat,
         writing \subseteq writes, r \notin writing
  PROVE  RoomOfStep
<1>1. /\ active' = active \ {r} /\ writes' = writing
      /\ roomOf' = [c \in DOMAIN owner |-> IF c \in Range(rs[r].seat) THEN NoRoom ELSE roomOf[c]]
  BY DEF RemoveRoom
<1>2. closed' \/ writes' \subseteq active'
  BY <1>1 DEF SeatsKnown
<1>3. ASSUME NEW s \in active', NEW side \in Sides, rooms'[s].seat[side] # AI
      PROVE  roomOf'[rooms'[s].seat[side]] = s
  <2>1. /\ s \in active /\ s # r /\ s \in DOMAIN rooms' /\ s \in DOMAIN rooms /\ ~closed
        /\ DOMAIN rooms = active \cup writes
    BY <1>1 DEF RoomInv, RoomTypes
  <2>2. Keeps(s)
    BY <2>1 DEF RoomsMove, Begins
  <2>3. rooms'[s].seat = rooms[s].seat
    BY <2>2 DEF Keeps
  <2> DEFINE c == rooms[s].seat[side]
  <2>4. roomOf[c] = s /\ c \in DOMAIN owner
    BY <1>3, <2>1, <2>3, RoomIs DEF SeatsKnown, SeatsTyped
  <2>5. c \notin Range(rs[r].seat)
    <3> SUFFICES ASSUME c \in Range(rs[r].seat) PROVE FALSE
      OBVIOUS
    <3>1. rooms[r].seat \in [Sides -> Conns \cup {AI}]
      BY RoomIs DEF SeatsTyped
    <3>2. PICK other \in Sides : rooms[r].seat[other] = c
      BY <3>1 DEF Range
    <3>3. r \in active
      BY <2>1 DEF SeatsKnown
    <3>. QED
      BY <1>3, <2>1, <2>3, <2>4, <3>2, <3>3 DEF SeatsKnown
  <2>. QED
    BY <1>1, <2>3, <2>4, <2>5
<1>4. SeatsKnown'
  BY <1>2, <1>3 DEF SeatsKnown
<1>. QED
  BY <1>1, <1>4 DEF RoomOfStep

LEMMA SeatsOpened ==
  ASSUME ConnInv, RoomInv, RoomInv', SeatsKnown, RoomsMove, UNCHANGED <<clients, closed, owner, writes>>,
         NEW left \in DOMAIN owner, NEW right \in DOMAIN owner \cup {AI}, createRoom(left, right, NoMatch),
         roomOf[left] = NoRoom, right # AI => roomOf[right] = NoRoom
  PROVE  RoomOfStep
<1> DEFINE n == created + 1
<1>1. /\ active' = active \cup {n} /\ n \notin active
      /\ rooms'[n].seat["left"] = left /\ rooms'[n].seat["right"] = right
      /\ roomOf' = [c \in DOMAIN owner |-> IF c \in {left, right} THEN n ELSE roomOf[c]]
  <2>1. active' = active \cup {n} /\ n \notin DOMAIN rooms
    BY CreateIs
  <2>2. rooms'[n].seat["left"] = left /\ rooms'[n].seat["right"] = right
    BY CreateIs
  <2>. QED
    BY <2>1, <2>2 DEF createRoom, RoomInv, RoomTypes
<1>. HIDE DEF n
<1>2. ASSUME NEW s \in active', NEW side \in Sides, rooms'[s].seat[side] # AI
      PROVE  roomOf'[rooms'[s].seat[side]] = s
  <2>1. CASE s = n
    BY <1>1, <1>2, <2>1 DEF Sides
  <2>2. CASE s # n
    <3>1. s \in active /\ s \in DOMAIN rooms /\ s \in DOMAIN rooms'
      BY <1>1, <2>2 DEF RoomInv, RoomTypes
    <3>2. Keeps(s)
      BY <3>1 DEF RoomsMove, Begins
    <3>3. rooms'[s].seat = rooms[s].seat
      BY <3>2 DEF Keeps
    <3> DEFINE c == rooms[s].seat[side]
    <3>4. roomOf[c] = s /\ c \in DOMAIN owner /\ c # AI /\ s # NoRoom
      <4>1. s \in 1..created
        BY <3>1, RoomIs
      <4>. QED
        BY <1>2, <3>1, <3>3, <4>1, RoomIs DEF SeatsKnown, SeatsTyped, NoRoom
    <3>5. c \notin {left, right}
      BY <3>4
    <3>. QED
      BY <1>1, <3>3, <3>4, <3>5
  <2>. QED
    BY <2>1, <2>2
<1>3. closed' \/ writes' \subseteq active'
  BY <1>1 DEF SeatsKnown
<1>4. SeatsKnown'
  BY <1>2, <1>3 DEF SeatsKnown
<1>5. \A c \in DOMAIN owner : roomOf'[c] = roomOf[c] \/ \E side \in Sides : rooms'[n].seat[side] = c
  BY <1>1 DEF Sides
<1>. QED
  BY <1>1, <1>4, <1>5 DEF RoomOfStep

\* A new connection takes the place of an old one, or none.
LEMMA RoomOfAppended ==
  ASSUME ConnInv, RoomInv, NEW old \in DOMAIN owner, NEW s \in RoomIds \cup {NoRoom},
         \/ roomOf' = Append(roomOf, s)
         \/ roomOf' = Append([roomOf EXCEPT ![old] = NoRoom], s)
  PROVE  /\ roomOf'[Len(owner) + 1] = s
         /\ \A d \in DOMAIN owner : d # old => roomOf'[d] = roomOf[d]
         /\ \A d \in DOMAIN owner : roomOf'[d] \in {roomOf[d], NoRoom}
<1>1. /\ [roomOf EXCEPT ![old] = NoRoom] \in Seq(RoomIds \cup {NoRoom})
      /\ Len([roomOf EXCEPT ![old] = NoRoom]) = Len(owner)
      /\ roomOf \in Seq(RoomIds \cup {NoRoom}) /\ Len(roomOf) = Len(owner)
  BY RoomOfWithout
<1>2. Len(owner) \in Nat /\ DOMAIN owner = 1..Len(owner) /\ DOMAIN roomOf = 1..Len(owner)
  BY <1>1, LenProperties DEF ConnInv, ConnTypes
<1> DEFINE f == [roomOf EXCEPT ![old] = NoRoom]
<1>3. \A d \in DOMAIN owner : f[d] = IF d = old THEN NoRoom ELSE roomOf[d]
  BY <1>2
<1>. HIDE DEF f
<1>4. ASSUME NEW g \in Seq(RoomIds \cup {NoRoom}), Len(g) = Len(owner), roomOf' = Append(g, s)
      PROVE  roomOf'[Len(owner) + 1] = s /\ \A d \in DOMAIN owner : roomOf'[d] = g[d]
  BY <1>2, <1>4, AppendProperties
<1>5. CASE roomOf' = Append(roomOf, s)
  BY <1>1, <1>4, <1>5
<1>6. CASE roomOf' = Append(f, s)
  <2>1. roomOf'[Len(owner) + 1] = s /\ \A d \in DOMAIN owner : roomOf'[d] = f[d]
    BY <1>1, <1>4, <1>6 DEF f
  <2>. QED
    BY <1>3, <2>1
<1>. QED
  BY <1>5, <1>6 DEF f

LEMMA SeatIs ==
  ASSUME RoomInv, NEW r \in active, NEW side \in Sides, rooms[r].seat[side] # AI
  PROVE  rooms[r].seat[side] \in DOMAIN owner /\ r \in DOMAIN rooms /\ r \in RoomIds
BY RoomIs DEF RoomInv, RoomTypes, SeatsTyped

LEMMA SeatsDiffer ==
  ASSUME ConnInv, RoomInv, SeatsSuit, NEW r \in active, NEW side \in Sides, NEW other \in Sides, side # other,
         rooms[r].seat[side] # AI
  PROVE  rooms[r].seat[side] # rooms[r].seat[other]
<1>1. r \in DOMAIN rooms
  BY DEF RoomInv, RoomTypes
<1>2. AI \notin DOMAIN owner /\ rooms[r].seat["left"] \in DOMAIN owner
  BY <1>1, RoomIs, LenProperties DEF ConnInv, ConnTypes, AI
<1>3. rooms[r].seat["right"] # AI => rooms[r].seat["left"] # rooms[r].seat["right"]
  BY <1>1 DEF SeatsSuit
<1>. QED
  BY <1>2, <1>3 DEF Sides

LEMMA RoomOfConnect ==
  ASSUME ConnInv, RoomInv, SeatsSuit, SeatsKnown, NEW u \in Users, Connect(u)
  PROVE  RoomOfStep
<1> DEFINE c == Len(owner) + 1
           old == byUser[u]
<1>1. /\ c \notin DOMAIN owner /\ active' = active /\ writes' = writes /\ closed' = closed
      /\ ConnectAfresh(u, c) \/ ConnectReplacing(u, c)
  BY ConnectKeepsConns DEF Connect, dbVars, lifeVars
<1>2. closed' \/ writes' \subseteq active'
  BY <1>1 DEF SeatsKnown
<1>3. NoRoom \in RoomIds \cup {NoRoom} /\ Len(owner) \in Nat /\ DOMAIN owner = 1..Len(owner)
      /\ c \in Nat /\ c # AI
  BY LenProperties DEF ConnInv, ConnTypes, AI
<1>. HIDE DEF c
<1>4. ASSUME roomOf' = Append(roomOf, NoRoom), rooms' = rooms PROVE RoomOfStep
  <2>1. \A d \in DOMAIN owner : roomOf'[d] = roomOf[d]
    <3>1. roomOf \in Seq(RoomIds \cup {NoRoom}) /\ Len(roomOf) = Len(owner)
      BY DEF RoomInv, RoomTypes
    <3>. QED
      BY <1>3, <1>4, <3>1, AppendProperties
  <2>2. \A r \in active', side \in Sides : rooms'[r].seat[side] # AI => roomOf'[rooms'[r].seat[side]] = r
    BY <1>1, <1>4, <2>1, SeatIs DEF SeatsKnown
  <2>. QED
    BY <1>2, <2>1, <2>2 DEF RoomOfStep, SeatsKnown
\* The seats of the room change hands from d to c, all others stay.
<1>5. ASSUME NEW r \in active, NEW d \in DOMAIN owner, roomOf[d] = r,
             roomOf' = Append([roomOf EXCEPT ![d] = NoRoom], r),
             \A s \in active : s # r => rooms'[s] = rooms[s],
             \A side \in Sides : \/ rooms'[r].seat[side] = c
                                 \/ rooms'[r].seat[side] = rooms[r].seat[side] /\ rooms[r].seat[side] # d
      PROVE  RoomOfStep
  <2>0. r \in RoomIds
    BY RoomIs DEF RoomInv, RoomTypes
  <2>1. roomOf'[c] = r
    BY <1>5, <2>0, RoomOfAppended DEF c
  <2>2. \A e \in DOMAIN owner : e # d => roomOf'[e] = roomOf[e]
    BY <1>5, <2>0, RoomOfAppended
  <2>3. \A e \in DOMAIN owner : roomOf'[e] \in {roomOf[e], NoRoom}
    BY <1>5, <2>0, RoomOfAppended
  <2>4. ASSUME NEW s \in active, NEW side \in Sides, rooms'[s].seat[side] # AI
        PROVE  roomOf'[rooms'[s].seat[side]] = s
    <3>1. CASE s = r /\ rooms'[s].seat[side] = c
      BY <2>1, <3>1
    <3>2. CASE s = r /\ rooms'[r].seat[side] = rooms[r].seat[side] /\ rooms[r].seat[side] # d
      BY <2>2, <2>4, <3>2, SeatIs DEF SeatsKnown
    <3>3. CASE s # r
      <4>1. rooms'[s] = rooms[s]
        BY <1>5, <3>3
      <4>2. rooms[s].seat[side] # AI /\ rooms[s].seat[side] \in DOMAIN owner /\ roomOf[rooms[s].seat[side]] = s
        BY <2>4, <4>1, SeatIs DEF SeatsKnown
      <4> DEFINE e == rooms[s].seat[side]
      <4>3. e \in DOMAIN owner /\ roomOf[e] = s
        BY <4>2
      <4>. HIDE DEF e
      <4>4. e # d
        BY <1>5, <3>3, <4>3
      <4>5. roomOf'[e] = s
        BY <2>2, <4>3, <4>4
      <4>. QED
        BY <4>1, <4>5 DEF e
    <3>. QED
      BY <1>5, <3>1, <3>2, <3>3
  <2>. QED
    BY <1>1, <1>2, <2>3, <2>4 DEF RoomOfStep, SeatsKnown
<1>6. CASE ConnectAfresh(u, c)
  <2>1. CASE Recoverable(u) = {}
    BY <1>4, <1>6, <2>1 DEF ConnectAfresh
  <2>2. CASE Recoverable(u) # {}
    <3> DEFINE r == FirstRecoverable(u)[1]
               side == FirstRecoverable(u)[2]
    <3>1. r \in active /\ side \in Sides /\ KeptFor(u, r, side)
      BY <2>2, FirstIsRecoverable
    <3>2. /\ roomOf' = Append([roomOf EXCEPT ![rooms[r].seat[side]] = NoRoom], r)
          /\ rooms' = [rooms EXCEPT ![r] = Recovered(rooms[r], side, c)]
      BY <1>6, <2>2 DEF ConnectAfresh
    <3>. HIDE DEF r, side
    <3> DEFINE d == rooms[r].seat[side]
    <3>3. /\ r \in DOMAIN rooms /\ rooms[r] \in Room /\ Fits(rooms[r]) /\ SeatsTyped(rooms[r].seat)
          /\ c \in Conns
      BY <3>1, RoomIs DEF RoomInv, RoomTypes, Connect, c, Conns
    <3>4. side \in rooms[r].gone /\ d # AI
      BY <3>1, <3>3 DEF KeptFor, Fits
    <3>5. d \in DOMAIN owner /\ roomOf[d] = r
      BY <3>1, <3>4, SeatIs DEF SeatsKnown
    <3>6. Recovered(rooms[r], side, c).seat = [rooms[r].seat EXCEPT ![side] = c]
      BY <3>1, <3>3, <3>4, RecoveredFits DEF KeptFor
    <3>7. \A other \in Sides : other # side => rooms[r].seat[other] # d
      BY <3>1, <3>4, SeatsDiffer
    <3>8. \A other \in Sides : \/ rooms'[r].seat[other] = c
                               \/ rooms'[r].seat[other] = rooms[r].seat[other] /\ rooms[r].seat[other] # d
      <4>1. rooms'[r].seat = [rooms[r].seat EXCEPT ![side] = c] /\ rooms[r].seat \in [Sides -> Conns \cup {AI}]
        BY <3>2, <3>3, <3>6 DEF SeatsTyped
      <4>. QED
        BY <3>7, <4>1
    <3>9. \A s \in active : s # r => rooms'[s] = rooms[s]
      <4>1. \A s \in active : s \in DOMAIN rooms
        BY DEF RoomInv, RoomTypes
      <4>. QED
        BY <3>2, <4>1
    <3>. HIDE DEF d
    <3>10. roomOf' = Append([roomOf EXCEPT ![d] = NoRoom], r)
      BY <3>2 DEF d
    <3>. QED
      BY <1>5, <3>1, <3>5, <3>8, <3>9, <3>10
  <2>. QED
    BY <2>1, <2>2
<1>7. CASE ConnectReplacing(u, c)
  <2> DEFINE r == roomOf[old]
  <2>1. old # NoConn
    BY <1>7 DEF ConnectReplacing
  <2>2. old \in DOMAIN owner
    BY <2>1 DEF ConnInv, ConnTypes
  <2>3. CASE r \in active /\ sideFor(rooms[r], old) # {}
    <3>1. /\ roomOf' = Append([roomOf EXCEPT ![old] = NoRoom], r)
          /\ rooms' = [rooms EXCEPT ![r] = Reseated(rooms[r], old, c)]
      BY <1>7, <2>3 DEF ConnectReplacing
    <3>2. r \in DOMAIN rooms /\ rooms[r] \in Room /\ \A s \in active : s \in DOMAIN rooms
      BY <2>3 DEF RoomInv, RoomTypes
    <3>. HIDE DEF r
    <3>3. \A side \in Sides : rooms'[r].seat[side] = IF rooms[r].seat[side] = old THEN c ELSE rooms[r].seat[side]
      <4>1. rooms'[r] = Reseated(rooms[r], old, c)
        BY <3>1, <3>2
      <4>2. Reseated(rooms[r], old, c).seat = [side \in Sides |-> IF rooms[r].seat[side] = old THEN c ELSE rooms[r].seat[side]]
        BY <3>2 DEF Reseated, Room
      <4>. QED
        BY <4>1, <4>2
    <3>4. \A s \in active : s # r => rooms'[s] = rooms[s]
      BY <3>1, <3>2
    <3>5. roomOf[old] = r
      BY DEF r
    <3>. HIDE DEF old
    <3>. QED
      BY <1>5, <2>2, <2>3, <3>1, <3>3, <3>4, <3>5
  <2>4. CASE ~(r \in active /\ sideFor(rooms[r], old) # {})
    BY <1>4, <1>7, <2>4 DEF ConnectReplacing
  <2>. QED
    BY <2>3, <2>4
<1>. QED
  BY <1>1, <1>6, <1>7

LEMMA RoomOfLobby ==
  ASSUME ConnInv, QueueInv, RoomInv, SeatsKnown, WaitersFree, RoomsStep, LobbyNext
  PROVE  RoomOfStep
<1> DEFINE Others == UNCHANGED <<connVars, writes, closed>>
<1>0. Others /\ RoomInv' /\ RoomsMove
  <2>1. ASSUME NEW c, JoinAi(c) \/ JoinAndWait(c) PROVE Others
    BY <2>1 DEF JoinAi, JoinAndWait, dbVars, lifeVars
  <2>2. ASSUME NEW c, JoinAndPlay(c) PROVE Others
    BY <2>2 DEF JoinAndPlay, dbVars, lifeVars
  <2>3. ASSUME NEW c, QueueLeave(c) PROVE Others
    BY <2>3 DEF QueueLeave, dbVars, lifeVars
  <2>4. ASSUME NEW u, NpcFallbackTimer(u) PROVE Others
    BY <2>4 DEF NpcFallbackTimer, dbVars, lifeVars
  <2>5. ASSUME NEW l, NEW answer, NpcLookupReturns(l, answer) PROVE Others
    BY <2>5 DEF NpcLookupReturns, dbVars, lifeVars
  <2>. HIDE DEF Others
  <2>. QED
    BY <2>1, <2>2, <2>3, <2>4, <2>5 DEF LobbyNext, RoomsStep
<1>1. ASSUME UNCHANGED <<roomOf, roomVars>> PROVE RoomOfStep
  BY <1>0, <1>1, SeatsStand DEF connVars, roomVars, SeatsKnown
<1>2. ASSUME NEW c \in DOMAIN owner, roomOf[c] = NoRoom, createRoom(c, AI, NoMatch) PROVE RoomOfStep
  BY <1>0, <1>2, SeatsOpened DEF connVars
<1>3. ASSUME NEW c \in clients, JoinAi(c) PROVE RoomOfStep
  <2>1. c \in DOMAIN owner /\ roomOf[c] = NoRoom
    BY <1>3, ClientIs DEF JoinAi
  <2>. QED
    BY <1>1, <1>2, <1>3, <2>1 DEF JoinAi, createRoomFails
<1>4. ASSUME NEW c \in clients, JoinAndWait(c) \/ QueueLeave(c) PROVE RoomOfStep
  BY <1>1, <1>4 DEF JoinAndWait, QueueLeave
<1>5. ASSUME NEW c \in clients, JoinAndPlay(c) PROVE RoomOfStep
  <2> DEFINE q == Pruned(queue)
             v == OpponentOf(q.mm, owner[c])
             p == DropEntry([q EXCEPT !.mm = enqueue(@, owner[c], 0)], v)
  <2>1. /\ FindsOpponent(q.mm, owner[c]) /\ roomOf[c] = NoRoom
        /\ createRoom(q.entries[v].client, c, NoMatch) \/ createRoomFails
    BY <1>5 DEF JoinAndPlay
  <2>2. /\ v \in Users /\ queue.mm.status[v] = "queued"
        /\ q.entries[v] = queue.entries[v] /\ queue.entries[v] # NoEntry
    BY <2>1, JoinAndPlayIs
  <2>. HIDE DEF v, q, p
  <2>3. roomOf[q.entries[v].client] = NoRoom /\ q.entries[v].client \in DOMAIN owner /\ c \in DOMAIN owner
    BY <2>2, EntryIs, ClientIs DEF WaitersFree
  <2>. QED
    BY <1>0, <1>1, <2>1, <2>3, SeatsOpened DEF connVars, createRoomFails
<1>6. ASSUME NEW u \in Users, NpcFallbackTimer(u) PROVE RoomOfStep
  <2>1. queue.entries[u].timer
    BY <1>6 DEF NpcFallbackTimer
  <2>2. queue.entries[u].client \in DOMAIN owner
    BY <2>1, TimerIsOfEntry, EntryIs, ClientIs
  <2>3. \/ roomOf[queue.entries[u].client] = NoRoom /\ createRoom(queue.entries[u].client, AI, NoMatch)
        \/ UNCHANGED <<roomOf, roomVars>>
    BY <1>6 DEF NpcFallbackTimer, createRoomFails, CanBeSeated
  <2>. QED
    BY <1>1, <1>2, <2>2, <2>3
<1>7. ASSUME NEW l \in lookups, NEW answer \in {"npc", "none", "error"}, NpcLookupReturns(l, answer) PROVE RoomOfStep
  <2>1. \/ StillWanted(l) /\ createRoom(l.client, AI, NoMatch)
        \/ UNCHANGED <<roomOf, roomVars>>
    BY <1>7 DEF NpcLookupReturns
  <2>2. StillWanted(l) => l.client \in DOMAIN owner /\ roomOf[l.client] = NoRoom
    BY ClientIs DEF StillWanted, CanBeSeated, ConnInv, ConnsAgree
  <2>. QED
    BY <1>1, <1>2, <2>1, <2>2
<1>. QED
  BY <1>3, <1>4, <1>5, <1>6, <1>7 DEF LobbyNext

LEMMA RoomOfMatch ==
  ASSUME ConnInv, RoomInv, DrainedInv, SeatsKnown, RoomsStep, MatchNext
  PROVE  RoomOfStep
<1> DEFINE Others == UNCHANGED <<connVars, closed>>
<1>0. Others /\ RoomInv' /\ RoomsMove
  <2>1. ASSUME NEW c, NEW r PROVE GameReady(c, r) \/ GamePause(c, r) \/ GameResume(c, r) => Others
    <3>1. GameReady(c, r) => Others
      BY DEF GameReady, lifeVars
    <3>2. GamePause(c, r) => Others
      BY DEF GamePause, lifeVars
    <3>3. GameResume(c, r) => Others
      BY DEF GameResume, lifeVars
    <3>. QED
      BY <3>1, <3>2, <3>3
  <2>2. ASSUME NEW r, NEW room, NEW side, finishRoom(r, room, side) PROVE Others
    BY <2>2 DEF finishRoom
  <2>3. ASSUME NEW r, RoomClock(r) \/ RetryTimerFires(r) PROVE Others
    BY <2>3 DEF RoomClock, RetryTimerFires, lifeVars
  <2>4. ASSUME NEW r, NEW takesEffect, NEW fails, WriteReturns(r, takesEffect, fails) PROVE Others
    BY <2>4 DEF WriteReturns
  <2>. HIDE DEF Others
  <2>5. ASSUME NEW r, NEW side, MatchEnds(r, side) PROVE Others
    BY <2>2, <2>5 DEF MatchEnds
  <2>6. ASSUME NEW r, ReconnectTimerFires(r) PROVE Others
    <3>1. UNCHANGED <<connVars, closed>> \/ \E room, side : finishRoom(r, room, side)
      BY <2>6 DEF ReconnectTimerFires
    <3>. QED
      BY <2>2, <3>1 DEF Others
  <2>. QED
    BY <2>1, <2>3, <2>4, <2>5, <2>6 DEF MatchNext, RoomsStep
<1>1. ASSUME UNCHANGED <<roomOf, active>>, writes' \subseteq writes \cup active PROVE RoomOfStep
  BY <1>0, <1>1, SeatsStand DEF connVars
<1>2. ASSUME NEW r \in DOMAIN rooms, NEW rs, NEW writing, RemoveRoom(r, queue, rs, writing),
             rs[r].seat = rooms[r].seat, writing \subseteq writes, r \notin writing
      PROVE  RoomOfStep
  BY <1>0, <1>2, SeatsEmptied DEF connVars, DrainedInv
<1>3. ASSUME NEW r \in active, NEW room, room.seat = rooms[r].seat, room.fin = rooms[r].fin, NEW side,
             finishRoom(r, room, side), room \in Room
      PROVE  RoomOfStep
  <2>1. r \in DOMAIN rooms /\ r \notin writes
    BY <1>3 DEF RoomInv, RoomTypes, finishRoom
  <2> DEFINE done == Ended(room, side)
             rs == [rooms EXCEPT ![r] = done]
  <2>2. \/ RemoveRoom(r, queue, rs, writes)
        \/ writes' = writes \cup {r} /\ UNCHANGED <<active, roomOf>>
    BY <1>3 DEF finishRoom, Ended
  <2>3. rs[r].seat = rooms[r].seat
    BY <1>3, <2>1 DEF Ended, Room
  <2>. HIDE DEF done, rs
  <2>. QED
    BY <1>1, <1>2, <2>1, <2>2, <2>3
<1>4. ASSUME NEW c, NEW r PROVE GameReady(c, r) \/ GamePause(c, r) \/ GameResume(c, r) => RoomOfStep
  <2>1. GameReady(c, r) => UNCHANGED <<roomOf, active, writes>>
    BY DEF GameReady, dbVars
  <2>2. GamePause(c, r) => UNCHANGED <<roomOf, active, writes>>
    BY DEF GamePause, dbVars
  <2>3. GameResume(c, r) => UNCHANGED <<roomOf, active, writes>>
    BY DEF GameResume, dbVars
  <2>. QED
    BY <1>1, <2>1, <2>2, <2>3
<1>5. ASSUME NEW r \in active, RoomClock(r) \/ RetryTimerFires(r) PROVE RoomOfStep
  <2>1. UNCHANGED <<roomOf, active>> /\ writes' \subseteq writes \cup active
    BY <1>5 DEF RoomClock, RetryTimerFires, dbVars
  <2>. QED
    BY <1>1, <2>1
<1>6. ASSUME NEW r \in scheduled, NEW side \in Sides, MatchEnds(r, side) PROVE RoomOfStep
  <2>1. r \in active /\ finishRoom(r, rooms[r], side) /\ rooms[r] \in Room
    BY <1>6 DEF MatchEnds, RoomInv, RoomTypes
  <2>. QED
    BY <1>3, <2>1
<1>7. ASSUME NEW r \in active, ReconnectTimerFires(r) PROVE RoomOfStep
  <2> DEFINE expired == Expired(rooms[r])
             rs == [rooms EXCEPT ![r] = expired]
  <2>1. \/ RemoveRoom(r, queue, rs, writes)
        \/ \E side : finishRoom(r, expired, side)
    BY <1>7 DEF ReconnectTimerFires, Expired
  <2>2. r \in DOMAIN rooms /\ rooms[r] \in Room /\ rooms[r].fin = "no" /\ r \notin writes
    BY <1>7 DEF RoomInv, RoomTypes, ReconnectTimerFires
  <2>3. expired.seat = rooms[r].seat /\ expired.fin = rooms[r].fin
    BY <2>2 DEF Expired, Room
  <2>3a. expired \in Room
    BY <1>7, <2>2, ExpiredIs
  <2>. HIDE DEF expired
  <2>4. rs[r].seat = rooms[r].seat
    BY <2>2, <2>3
  <2>. HIDE DEF rs
  <2>. QED
    BY <1>2, <1>3, <2>1, <2>2, <2>3, <2>3a, <2>4
<1>8. ASSUME NEW r \in writes, NEW takesEffect, NEW fails, WriteReturns(r, takesEffect, fails) PROVE RoomOfStep
  <2>1. \/ RemoveRoom(r, queue, rooms, writes \ {r})
        \/ UNCHANGED <<roomOf, active>> /\ writes' = writes \ {r}
    BY <1>8 DEF WriteReturns
  <2>2. r \in DOMAIN rooms
    BY DEF RoomInv, RoomTypes
  <2>. QED
    BY <1>1, <1>2, <2>1, <2>2
<1>. QED
  BY <1>4, <1>5, <1>6, <1>7, <1>8 DEF MatchNext

LEMMA RoomOfDepart ==
  ASSUME ConnInv, RoomInv, SeatsKnown, NEW c \in clients, Depart(c)
  PROVE  RoomOfStep
<1>1. /\ UNCHANGED <<owner, roomOf, active, writes, closed>>
      /\ rooms' = [r \in DOMAIN rooms |->
                     IF r \in LeftRooms(c)
                     THEN Reserved(rooms[r], CHOOSE side \in sideFor(rooms[r], c) : TRUE)
                     ELSE rooms[r]]
  BY DEF Depart, reserveRoomSide, dbVars, lifeVars
<1>2. \A r \in active : rooms'[r].seat = rooms[r].seat
  <2>1. \A r \in active : r \in DOMAIN rooms /\ rooms[r] \in Room
    BY DEF RoomInv, RoomTypes
  <2>2. \A room \in Room : \A side : Reserved(room, side).seat = room.seat
    BY DEF Reserved, Room
  <2>. QED
    BY <1>1, <2>1, <2>2
<1>3. SeatsKnown'
  BY <1>1, <1>2 DEF SeatsKnown
<1>. QED
  BY <1>1, <1>3 DEF RoomOfStep

LEMMA RoomOfServer ==
  ASSUME ConnInv, RoomInv, SeatsSuit, SeatsKnown, RoomsStep, ServerNext
  PROVE  RoomOfStep
<1>0. RoomInv' /\ RoomsMove
  BY DEF RoomsStep
<1>1. ASSUME NEW u \in Users, RevokeUser(u) PROVE RoomOfStep
  <2>1. byUser[u] \in clients
    BY <1>1 DEF RevokeUser, ConnInv, ConnsAgree
  <2>. QED
    BY <1>1, <2>1, RoomOfDepart DEF RevokeUser
<1>2. ASSUME UNCHANGED <<roomOf, active, clients, closed, writes>> PROVE RoomOfStep
  BY <1>0, <1>2, SeatsStand DEF SeatsKnown
<1>3. ASSUME NEW u \in Users, GuestResultExpires(u) PROVE RoomOfStep
  BY <1>2, <1>3 DEF GuestResultExpires, roomVars, connVars, dbVars, lifeVars
<1>4. ASSUME NEW c \in open, SocketDrops(c) PROVE RoomOfStep
  BY <1>2, <1>4 DEF SocketDrops, roomVars, dbVars, lifeVars
<1>5. ASSUME NEW c \in clients, Disconnect(c) PROVE RoomOfStep
  BY <1>5, RoomOfDepart DEF Disconnect
<1>6. CASE BeginDrain
  BY <1>2, <1>6 DEF BeginDrain, roomVars, connVars, dbVars
<1>7. CASE DrainTimeout
  BY <1>2, <1>7 DEF DrainTimeout, roomVars, connVars, dbVars
<1>8. CASE Close
  <2>1. active' = {} /\ closed' /\ roomOf' = roomOf
    BY <1>8 DEF Close
  <2>. QED
    BY <2>1 DEF RoomOfStep, SeatsKnown
<1>. QED
  BY <1>1, <1>3, <1>4, <1>5, <1>6, <1>7, <1>8, RoomOfConnect DEF ServerNext

LEMMA RoomOfKept ==
  ASSUME Matches = {}, HubInv, DrainedInv, SeatsKnown, WaitersFree, RoomsStep, [Next]_vars
  PROVE  RoomOfStep
<1>0. ConnInv /\ QueueInv /\ RoomInv /\ BracketInv /\ SeatsSuit
  BY DEF HubInv
<1>1. CASE UNCHANGED vars
  BY <1>0, <1>1, SeatsStand DEF vars, connVars, roomVars, dbVars, lifeVars, RoomsStep, SeatsKnown
<1>. QED
  BY <1>0, <1>1, NoTournamentCalls, RoomOfServer, RoomOfLobby, RoomOfMatch DEF Next

\* Who waits in the queue stays in no room: a room of the queue that begins
\* takes those it seats off the queue.
LEMMA WaitersFreeStep ==
  ASSUME Matches = {}, ConnInv, QueueInv, RoomInv', SeatsKnown, WaitersFree, WaitStep, RoomOfStep, OwnersStay
  PROVE  WaitersFree'
<1> SUFFICES ASSUME NEW u \in Users, queue'.mm.status[u] = "queued"
             PROVE  roomOf'[queue'.entries[u].client] = NoRoom
  BY DEF WaitersFree
<1>1. StillWaits(u) \/ WaitsAnew(u)
  BY DEF WaitStep
<1>2. CASE WaitsAnew(u)
  BY <1>2 DEF WaitsAnew
<1>3. CASE StillWaits(u)
  <2> DEFINE c == queue.entries[u].client
  <2>1. queue.entries[u] # NoEntry
    BY <1>3, TimerIsOfEntry DEF StillWaits, QueueInv, EntriesAgree
  <2>2. c \in DOMAIN owner /\ owner[c] = u /\ roomOf[c] = NoRoom /\ queue'.entries[u].client = c /\ c # AI
    BY <1>3, <2>1, EntryIs, ClientIs DEF StillWaits, WaitersFree
  <2>. HIDE DEF c
  <2>3. ASSUME NEW r \in active' \ active, NEW side \in Sides, rooms'[r].seat[side] = c PROVE FALSE
    <3>1. rooms'[r].match = NoMatch
      BY DEF RoomInv, RoomTypes, Room
    <3>2. owner'[c] = u
      BY <2>2 DEF OwnersStay
    <3>. QED
      BY <2>2, <2>3, <3>1, <3>2 DEF WaitStep, NotSeated, Sits
  <2>. QED
    BY <2>2, <2>3 DEF RoomOfStep
<1>. QED
  BY <1>1, <1>2, <1>3

-----------------------------------------------------------------------------
(* Seats are in the hands of a connection, or kept for a lost one.         *)

TendedRoom(r) ==
  rooms[r].fin = "no" =>
    /\ rooms[r].gone = rooms[r].session.disconnected
    /\ rooms[r].gone # {} => rooms[r].timer
    /\ \A side \in Sides : rooms[r].seat[side] # AI => (rooms[r].seat[side] \in clients <=> side \notin rooms[r].gone)

Tended == \A r \in active : TendedRoom(r)

LEMMA TendedSame ==
  ASSUME Matches = {}, RoomInv', RoomsMove, Tended, clients' = clients
  PROVE  Tended'
<1> SUFFICES ASSUME NEW r \in active', rooms'[r].fin = "no" PROVE TendedRoom(r)'
  BY DEF Tended, TendedRoom
<1>1. Keeps(r) \/ Begins(r)
  BY DEF RoomsMove, RoomInv, RoomTypes
<1>2. CASE Keeps(r)
  <2>1. SameHands(r) /\ r \in active /\ rooms[r].fin = "no"
    BY <1>2 DEF Keeps
  <2>. QED
    BY <2>1 DEF Tended, TendedRoom, SameHands
<1>3. CASE Begins(r)
  <2>1. PICK left, right, m : Suits(left, right, m) /\ rooms'[r] = NewRoom(left, right, m)
    BY <1>3 DEF Begins
  <2>2. left \in clients /\ right \in clients \cup {AI}
    BY <2>1 DEF Suits
  <2>3. /\ rooms'[r].seat["left"] = left /\ rooms'[r].seat["right"] = right
        /\ rooms'[r].gone = {} /\ rooms'[r].session.disconnected = {}
    BY <2>1 DEF NewRoom, NewSession, markReady, Sides
  <2>. QED
    BY <2>2, <2>3 DEF TendedRoom, Sides
<1>. QED
  BY <1>1, <1>2, <1>3

LEMMA TendedDepart ==
  ASSUME ConnInv, RoomInv, SeatsSuit, SeatsKnown, Tended, NEW c \in clients, Depart(c)
  PROVE  Tended'
<1>0. active' = active /\ clients' = clients \ {c}
  BY DEF Depart
<1>1. rooms' = [r \in DOMAIN rooms |->
                 IF r \in LeftRooms(c)
                 THEN Reserved(rooms[r], CHOOSE side \in sideFor(rooms[r], c) : TRUE)
                 ELSE rooms[r]]
  BY DEF Depart, reserveRoomSide
<1>2. c # AI
  BY ClientIs
<1> SUFFICES ASSUME NEW r \in active, rooms'[r].fin = "no" PROVE TendedRoom(r)'
  BY <1>0 DEF Tended, TendedRoom
<1>3. r \in DOMAIN rooms /\ rooms[r] \in Room /\ Fits(rooms[r]) /\ TendedRoom(r)
  BY DEF RoomInv, RoomTypes, Tended
<1>4. CASE r \in LeftRooms(c)
  <2> DEFINE side == CHOOSE side \in sideFor(rooms[r], c) : TRUE
  <2>1. side \in Sides /\ rooms[r].seat[side] = c /\ rooms[r].fin = "no"
    BY <1>4 DEF LeftRooms, sideFor
  <2>2. rooms'[r] = Reserved(rooms[r], side)
    BY <1>1, <1>3, <1>4
  <2>. HIDE DEF side
  <2>3. /\ Reserved(rooms[r], side).seat = rooms[r].seat
        /\ Reserved(rooms[r], side).gone = rooms[r].gone \cup {side} /\ Reserved(rooms[r], side).timer = TRUE
        /\ Reserved(rooms[r], side).session.disconnected = rooms[r].session.disconnected \cup {side}
    BY <1>2, <1>3, <2>1, ReservedFits
  <2>4. \A other \in Sides : other # side => rooms[r].seat[other] # c
    BY <1>2, <2>1, SeatsDiffer
  <2>5. /\ rooms[r].gone = rooms[r].session.disconnected
        /\ \A other \in Sides : rooms[r].seat[other] # AI => (rooms[r].seat[other] \in clients <=> other \notin rooms[r].gone)
    BY <1>3, <2>1 DEF TendedRoom
  <2>6. ASSUME NEW other \in Sides, rooms[r].seat[other] # AI
        PROVE  rooms[r].seat[other] \in clients \ {c} <=> other \notin rooms[r].gone \cup {side}
    BY <2>1, <2>4, <2>5, <2>6
  <2>. QED
    BY <1>0, <2>2, <2>3, <2>5, <2>6 DEF TendedRoom
<1>5. CASE r \notin LeftRooms(c)
  <2>1. rooms'[r] = rooms[r] /\ rooms[r].fin = "no" /\ rooms[r].session.state # "finished"
    BY <1>1, <1>3, <1>5 DEF Fits
  <2>2. \A side \in Sides : rooms[r].seat[side] # c
    BY <1>2, <1>5, <2>1 DEF LeftRooms, sideFor, SeatsKnown
  <2>. QED
    BY <1>0, <1>3, <2>1, <2>2 DEF TendedRoom
<1>. QED
  BY <1>4, <1>5

LEMMA TendedConnect ==
  ASSUME ConnInv, RoomInv, SeatsSuit, SeatsKnown, Tended, NEW u \in Users, Connect(u)
  PROVE  Tended'
<1> DEFINE c == Len(owner) + 1
           old == byUser[u]
<1>1. /\ active' = active /\ c \notin DOMAIN owner /\ c # AI /\ c \in Conns
      /\ ConnectAfresh(u, c) \/ ConnectReplacing(u, c)
  BY ConnectKeepsConns, LenProperties, HubAssumption DEF Connect, ConnInv, ConnTypes, AI, Conns
<1>2. clients' = clients \cup {c} \/ (old # NoConn /\ clients' = (clients \cup {c}) \ {old})
  BY <1>1 DEF ConnectAfresh, ConnectReplacing
<1>3. old # NoConn => old \in clients /\ old \in DOMAIN owner /\ old # AI /\ old \in Conns
  BY ClientIs DEF ConnInv, ConnsAgree
<1>. HIDE DEF c, old
<1>4. \A r \in active, side \in Sides : rooms[r].seat[side] # AI => rooms[r].seat[side] # c
  BY <1>1, SeatIs
<1>5. \A r \in active : r \in DOMAIN rooms /\ rooms[r] \in Room /\ Fits(rooms[r]) /\ TendedRoom(r)
  BY DEF RoomInv, RoomTypes, Tended
<1>6. ASSUME NEW r \in active, rooms'[r] = rooms[r],
             clients' = clients \cup {c} \/ \A side \in Sides : rooms[r].seat[side] # old
      PROVE  TendedRoom(r)'
  BY <1>2, <1>4, <1>5, <1>6 DEF TendedRoom
<1>7. ASSUME NEW r \in active, NEW side \in Sides, KeptFor(u, r, side), clients' = clients \cup {c},
             rooms' = [rooms EXCEPT ![r] = Recovered(rooms[r], side, c)]
      PROVE  Tended'
  <2>3. /\ Recovered(rooms[r], side, c).seat = [rooms[r].seat EXCEPT ![side] = c]
        /\ Recovered(rooms[r], side, c).gone = rooms[r].gone \ {side}
        /\ Recovered(rooms[r], side, c).session.disconnected = rooms[r].session.disconnected \ {side}
        /\ Recovered(rooms[r], side, c).session.disconnected # {} => Recovered(rooms[r], side, c).timer = rooms[r].timer
        /\ rooms[r].fin = "no"
    BY <1>1, <1>5, <1>7, RecoveredFits DEF KeptFor
  <2>4. rooms'[r] = Recovered(rooms[r], side, c)
    BY <1>5, <1>7
  <2>5. rooms[r].seat \in [Sides -> Conns \cup {AI}]
    BY <1>5, <1>7 DEF Room
  <2>6. /\ rooms[r].gone = rooms[r].session.disconnected
        /\ rooms[r].gone # {} => rooms[r].timer
        /\ \A other \in Sides : rooms[r].seat[other] # AI => (rooms[r].seat[other] \in clients <=> other \notin rooms[r].gone)
    BY <1>5, <1>7, <2>3 DEF TendedRoom
  <2>7. TendedRoom(r)'
    <3>1. rooms'[r].gone = rooms'[r].session.disconnected /\ (rooms'[r].gone # {} => rooms'[r].timer)
      BY <2>3, <2>4, <2>6
    <3>2. ASSUME NEW other \in Sides, rooms'[r].seat[other] # AI
          PROVE  rooms'[r].seat[other] \in clients' <=> other \notin rooms'[r].gone
      <4>1. CASE other = side
        BY <1>1, <1>7, <2>3, <2>4, <2>5, <4>1
      <4>2. CASE other # side
        <5>1. rooms'[r].seat[other] = rooms[r].seat[other]
          BY <2>3, <2>4, <2>5, <4>2
        <5>. QED
          BY <1>4, <1>7, <2>3, <2>4, <2>6, <3>2, <4>2, <5>1
      <4>. QED
        BY <4>1, <4>2
    <3>. QED
      BY <3>1, <3>2 DEF TendedRoom
  <2>8. \A s \in active : s # r => rooms'[s] = rooms[s]
    BY <1>5, <1>7
  <2>. QED
    BY <1>1, <1>6, <1>7, <2>7, <2>8 DEF Tended
<1>8. ASSUME NEW r \in active, old # NoConn, clients' = (clients \cup {c}) \ {old},
              rooms' = [rooms EXCEPT ![r] = Reseated(rooms[r], old, c)],
              \A s \in active, side \in Sides : rooms[s].seat[side] = old => s = r
       PROVE  Tended'
  <2>2. rooms'[r] = Reseated(rooms[r], old, c) /\ \A s \in active : s # r => rooms'[s] = rooms[s]
    BY <1>5, <1>8
  <2>3. /\ rooms'[r].seat = [side \in Sides |-> IF rooms[r].seat[side] = old THEN c ELSE rooms[r].seat[side]]
        /\ rooms'[r].fin = rooms[r].fin /\ rooms'[r].gone = rooms[r].gone /\ rooms'[r].timer = rooms[r].timer
        /\ rooms'[r].session = rooms[r].session
    BY <1>1, <1>3, <1>5, <1>8, <2>2, ReseatedFits
  <2>4. TendedRoom(r)'
    <3>0. rooms[r].fin = "no" =>
            /\ rooms'[r].gone = rooms'[r].session.disconnected
            /\ rooms'[r].gone # {} => rooms'[r].timer
      <4>1. TendedRoom(r)
        BY <1>5
      <4>. QED
        BY <2>3, <4>1 DEF TendedRoom
    <3> SUFFICES ASSUME rooms[r].fin = "no", NEW side \in Sides, rooms'[r].seat[side] # AI
                 PROVE  rooms'[r].seat[side] \in clients' <=> side \notin rooms[r].gone
      BY <2>3, <3>0 DEF TendedRoom
    <3>1. CASE rooms[r].seat[side] = old
      <4>1. rooms'[r].seat[side] = c /\ c \in clients'
        BY <1>1, <1>3, <1>8, <2>3, <3>1
      <4>2. side \notin rooms[r].gone
        BY <1>3, <1>5, <1>8, <3>1 DEF TendedRoom
      <4>. QED
        BY <4>1, <4>2
    <3>2. CASE rooms[r].seat[side] # old
      <4>1. rooms'[r].seat[side] = rooms[r].seat[side]
        BY <2>3, <3>2
      <4>. QED
        BY <1>4, <1>5, <1>8, <3>2, <4>1 DEF TendedRoom
    <3>. QED
      BY <3>1, <3>2
  <2>. QED
    BY <1>1, <1>6, <1>8, <2>2, <2>4 DEF Tended
<1>9. CASE ConnectAfresh(u, c)
  <2>1. clients' = clients \cup {c}
    BY <1>9 DEF ConnectAfresh
  <2>2. CASE Recoverable(u) = {}
    <3>1. rooms' = rooms
      BY <1>9, <2>2 DEF ConnectAfresh
    <3>. QED
      BY <1>1, <1>6, <2>1, <3>1 DEF Tended
  <2>3. CASE Recoverable(u) # {}
    <3> DEFINE r == FirstRecoverable(u)[1]
               side == FirstRecoverable(u)[2]
    <3>1. r \in active /\ side \in Sides /\ KeptFor(u, r, side)
      BY <2>3, FirstIsRecoverable
    <3>2. rooms' = [rooms EXCEPT ![r] = Recovered(rooms[r], side, c)]
      BY <1>9, <2>3 DEF ConnectAfresh
    <3>. QED
      BY <1>7, <2>1, <3>1, <3>2
  <2>. QED
    BY <2>2, <2>3
<1>10. CASE ConnectReplacing(u, c)
  <2> DEFINE r == roomOf[old]
  <2>1. old # NoConn /\ clients' = (clients \cup {c}) \ {old}
    BY <1>10 DEF ConnectReplacing, old
  <2>2. \A s \in active, side \in Sides : rooms[s].seat[side] = old => s = r
    BY <1>3, <2>1 DEF SeatsKnown
  <2>3. CASE r \in active /\ sideFor(rooms[r], old) # {}
    <3>1. rooms' = [rooms EXCEPT ![r] = Reseated(rooms[r], old, c)]
      BY <1>10, <2>3 DEF ConnectReplacing, old
    <3>. QED
      BY <1>8, <2>1, <2>2, <2>3, <3>1
  <2>4. CASE ~(r \in active /\ sideFor(rooms[r], old) # {})
    <3>1. rooms' = rooms
      BY <1>10, <2>4 DEF ConnectReplacing, old
    <3>2. \A s \in active, side \in Sides : rooms[s].seat[side] # old
      BY <2>2, <2>4 DEF sideFor
    <3>. QED
      BY <1>1, <1>6, <3>1, <3>2 DEF Tended
  <2>. QED
    BY <2>3, <2>4
<1>. QED
  BY <1>1, <1>9, <1>10

LEMMA TendedStep ==
  ASSUME Matches = {}, HubInv, SeatsKnown, Tended, RoomsStep, [Next]_vars
  PROVE  Tended'
<1>0. ConnInv /\ RoomInv /\ SeatsSuit /\ RoomInv' /\ RoomsMove
  BY DEF HubInv, RoomsStep
<1>1. clients' = clients => Tended'
  BY <1>0, TendedSame
<1>2. CASE UNCHANGED vars
  BY <1>1, <1>2 DEF vars, connVars
<1>3. CASE LobbyNext \/ TournamentNext \/ MatchNext
  BY <1>1, <1>3, OnlyServerTouchesConns DEF connVars
<1>4. CASE ServerNext
  <2>1. ASSUME NEW v \in Users, RevokeUser(v) PROVE Tended'
    <3>1. byUser[v] \in clients
      BY <1>0, <2>1 DEF RevokeUser, ConnInv, ConnsAgree
    <3>. QED
      BY <1>0, <2>1, <3>1, TendedDepart DEF RevokeUser
  <2>2. ASSUME NEW c \in clients, Disconnect(c) PROVE Tended'
    BY <1>0, <2>2, TendedDepart DEF Disconnect
  <2>3. ASSUME NEW v \in Users, GuestResultExpires(v) PROVE Tended'
    BY <1>1, <2>3 DEF GuestResultExpires, connVars
  <2>4. ASSUME NEW c \in open, SocketDrops(c) PROVE Tended'
    BY <1>1, <2>4 DEF SocketDrops
  <2>5. CASE BeginDrain
    BY <1>1, <2>5 DEF BeginDrain, connVars
  <2>6. CASE DrainTimeout
    BY <1>1, <2>6 DEF DrainTimeout, connVars
  <2>7. CASE Close
    <3>1. active' = {}
      BY <2>7 DEF Close
    <3>. QED
      BY <3>1 DEF Tended
  <2>8. ASSUME NEW v \in Users, Connect(v) PROVE Tended'
    BY <1>0, <2>8, TendedConnect
  <2>. QED
    BY <1>4, <2>1, <2>2, <2>3, <2>4, <2>5, <2>6, <2>7, <2>8 DEF ServerNext
<1>. QED
  BY <1>2, <1>3, <1>4 DEF Next

-----------------------------------------------------------------------------
(* All of it, and what follows.                                            *)

QuietInv == HubInv /\ DrainedInv /\ SeatsKnown /\ WaitersFree /\ Tended

LEMMA QuietInit == Init => QuietInv
<1> SUFFICES ASSUME Init PROVE QuietInv
  OBVIOUS
<1>1. HubInv
  BY HubInit
<1>2. active = {} /\ writes = {} /\ \A u \in Users : queue.mm.status[u] = "none"
  BY DEF Init, NewMatchmaker
<1>. QED
  BY <1>1, <1>2 DEF QuietInv, DrainedInv, SeatsKnown, WaitersFree, Tended

LEMMA QuietStep == Matches = {} /\ QuietInv /\ [Next]_vars => QuietInv'
<1> SUFFICES ASSUME Matches = {}, QuietInv, [Next]_vars PROVE QuietInv'
  OBVIOUS
<1>0. /\ HubInv /\ DrainedInv /\ SeatsKnown /\ WaitersFree /\ Tended
      /\ ConnInv /\ QueueInv /\ RoomInv /\ BracketInv /\ SeatsSuit /\ ServerInv
  BY DEF QuietInv, HubInv
<1>1. HubInv' /\ RoomsStep
  BY <1>0, HubStep
<1>2. RoomInv' /\ RoomsMove /\ OwnersStay
  BY <1>1 DEF RoomsStep, RoomsMove
<1>3. DrainedInv'
  <2>1. ServerStep
    BY <1>0, ServerIsKept
  <2>. QED
    BY <1>0, <1>2, <2>1, DrainedStep
<1>4. RoomOfStep
  BY <1>0, <1>1, RoomOfKept
<1>5. WaitersFree'
  <2>1. WaitStep
    BY <1>0, BooksAreKept DEF BooksStep
  <2>. QED
    BY <1>0, <1>2, <1>4, <2>1, WaitersFreeStep
<1>6. Tended'
  BY <1>0, <1>1, TendedStep
<1>. QED
  BY <1>1, <1>3, <1>4, <1>5, <1>6 DEF QuietInv, RoomOfStep

\* Without tournaments, who waits in the queue is in no room, and whoever sits
\* in an open room knows it (gameHub.ts:508-629).
THEOREM QuietInvAlways ==
  ASSUME Matches = {}
  PROVE  Spec => []QuietInv
<1>1. Init => QuietInv
  BY QuietInit
<1>2. QuietInv /\ [Next]_vars => QuietInv'
  BY QuietStep
<1>. QED
  BY <1>1, <1>2, PTL DEF Spec

\* Without tournaments, the drain is answered when no room is left, and not
\* before (gameHub.ts:734-761, 1194-1206).
THEOREM DrainIsAnsweredAlways ==
  ASSUME Matches = {}
  PROVE  Spec => []DrainIsAnswered
<1>1. QuietInv => DrainIsAnswered
  BY DEF QuietInv, HubInv, ServerInv, DrainedInv, DrainIsAnswered
<1>2. Spec => []QuietInv
  BY QuietInvAlways
<1>. QED
  BY <1>1, <1>2, PTL

\* Without tournaments, every seat of a match that is not over is in the hands
\* of a connection that knows it plays there, or kept for a lost one with the
\* window running (gameHub.ts:341-442).
THEOREM SeatsAreHeldAlways ==
  ASSUME Matches = {}
  PROVE  Spec => []SeatsAreHeld
<1>1. QuietInv => SeatsAreHeld
  <2> SUFFICES ASSUME QuietInv, NEW r \in active, NEW side \in Sides,
                      rooms[r].fin = "no", rooms[r].seat[side] # AI
               PROVE  LET c == rooms[r].seat[side]
                          missing == side \in rooms[r].session.disconnected
                      IN \/ c \in clients /\ roomOf[c] = r /\ side \notin rooms[r].gone /\ ~missing
                         \/ c \notin clients /\ side \in rooms[r].gone /\ missing /\ rooms[r].timer
    BY DEF SeatsAreHeld
  <2>1. TendedRoom(r) /\ roomOf[rooms[r].seat[side]] = r
    BY DEF QuietInv, Tended, SeatsKnown
  <2>. QED
    BY <2>1 DEF TendedRoom
<1>2. Spec => []QuietInv
  BY QuietInvAlways
<1>. QED
  BY <1>1, <1>2, PTL

\* Without tournaments, no match is started once the server drains: the one
\* way round the guard is the answer to getTournamentMatch() (gameHub.ts:508-516,
\* 729-736).
THEOREM NoMatchWhileDrainingWithoutTournaments ==
  ASSUME Matches = {}
  PROVE  Spec => NoMatchWhileDraining
<1>1. QuietInv /\ [Next]_vars => [~accepting => created' = created]_vars
  <2> SUFFICES ASSUME QuietInv, [Next]_vars, ~accepting PROVE created' = created
    OBVIOUS
  <2>1. RoomsMove
    BY HubStep DEF QuietInv, RoomsStep
  <2>. QED
    BY <2>1, NothingBegins
<1>2. Spec => []QuietInv
  BY QuietInvAlways
<1>. QED
  BY <1>1, <1>2, PTL DEF Spec, NoMatchWhileDraining

\* The result of a room begins to be written when its match ends, when its
\* window does, or when the retry is due.
LEMMA WritesBegin ==
  ASSUME [Next]_vars, NEW r \in writes' \ writes
  PROVE  \/ \E side \in Sides : r \in scheduled /\ MatchEnds(r, side)
         \/ r \in active /\ ReconnectTimerFires(r)
         \/ r \in active /\ RetryTimerFires(r)
<1> DEFINE Fewer == writes' \subseteq writes
<1>1. ServerNext => Fewer
  <2>1. ASSUME NEW u \in Users PROVE Connect(u) \/ RevokeUser(u) \/ GuestResultExpires(u) => Fewer
    BY DEF Connect, RevokeUser, Depart, GuestResultExpires, dbVars
  <2>2. ASSUME NEW c PROVE SocketDrops(c) \/ Disconnect(c) => Fewer
    BY DEF SocketDrops, Disconnect, Depart, dbVars
  <2>3. BeginDrain \/ DrainTimeout \/ Close => Fewer
    BY DEF BeginDrain, DrainTimeout, Close, dbVars
  <2>. HIDE DEF Fewer
  <2>. QED
    BY <2>1, <2>2, <2>3 DEF ServerNext
<1>2. LobbyNext => Fewer
  <2>1. ASSUME NEW c PROVE JoinAi(c) \/ JoinAndWait(c) \/ JoinAndPlay(c) \/ QueueLeave(c) => Fewer
    BY DEF JoinAi, JoinAndWait, JoinAndPlay, QueueLeave, dbVars
  <2>2. ASSUME NEW u PROVE NpcFallbackTimer(u) => Fewer
    BY DEF NpcFallbackTimer, dbVars
  <2>3. ASSUME NEW l, NEW answer PROVE NpcLookupReturns(l, answer) => Fewer
    BY DEF NpcLookupReturns, dbVars
  <2>. HIDE DEF Fewer
  <2>. QED
    BY <2>1, <2>2, <2>3 DEF LobbyNext
<1>3. TournamentNext => Fewer
  <2>1. ASSUME NEW c, NEW m PROVE TournamentJoin(c, m) => Fewer
    BY DEF TournamentJoin, dbVars
  <2>2. ASSUME NEW j, NEW seen PROVE TournamentLookupReturns(j, seen) => Fewer
    BY DEF TournamentLookupReturns, dbVars
  <2>3. ASSUME NEW s, NEW takesEffect, NEW fails PROVE StartReturns(s, takesEffect, fails) => Fewer
    BY DEF StartReturns, RemoveRoom
  <2>. HIDE DEF Fewer
  <2>. QED
    BY <2>1, <2>2, <2>3 DEF TournamentNext
<1>4. MatchNext => \/ Fewer
                   \/ \E s \in scheduled, side \in Sides : MatchEnds(s, side)
                   \/ \E s \in active : ReconnectTimerFires(s) \/ RetryTimerFires(s)
  <2>1. ASSUME NEW c, NEW s PROVE GameReady(c, s) \/ GamePause(c, s) \/ GameResume(c, s) => Fewer
    <3>1. GameReady(c, s) => Fewer
      BY DEF GameReady, dbVars
    <3>2. GamePause(c, s) => Fewer
      BY DEF GamePause, dbVars
    <3>3. GameResume(c, s) => Fewer
      BY DEF GameResume, dbVars
    <3>. QED
      BY <3>1, <3>2, <3>3
  <2>2. ASSUME NEW s PROVE RoomClock(s) => Fewer
    BY DEF RoomClock, dbVars
  <2>3. ASSUME NEW s, NEW takesEffect, NEW fails PROVE WriteReturns(s, takesEffect, fails) => Fewer
    BY DEF WriteReturns, RemoveRoom
  <2>. HIDE DEF Fewer
  <2>. QED
    BY <2>1, <2>2, <2>3 DEF MatchNext
<1>5. UNCHANGED vars => Fewer
  BY DEF vars, dbVars
<1>6. ~Fewer
  OBVIOUS
<1>7. ASSUME NEW s, NEW room, NEW side, finishRoom(s, room, side) PROVE r = s
  BY <1>7 DEF finishRoom, RemoveRoom
<1>. HIDE DEF Fewer
<1>8. ASSUME NEW s, NEW side, MatchEnds(s, side) PROVE r = s
  BY <1>7, <1>8 DEF MatchEnds
<1>9. ASSUME NEW s, ReconnectTimerFires(s) PROVE r = s
  <2>1. writes' = writes \/ \E room, side : finishRoom(s, room, side)
    BY <1>9 DEF ReconnectTimerFires, RemoveRoom
  <2>. QED
    BY <1>6, <1>7, <2>1 DEF Fewer
<1>10. ASSUME NEW s, RetryTimerFires(s) PROVE r = s
  BY <1>10 DEF RetryTimerFires
<1>. QED
  BY <1>1, <1>2, <1>3, <1>4, <1>5, <1>6, <1>8, <1>9, <1>10 DEF Next

\* Without tournaments, nobody loses a match for having been there: when the
\* window of a lost seat ends a match, the winner is connected
\* (gameHub.ts:451-476).
THEOREM ForfeitWinnerIsConnectedAlways ==
  ASSUME Matches = {}
  PROVE  Spec => ForfeitWinnerIsConnected
<1> DEFINE Won(r) == LET c == rooms[r].seat[rooms'[r].winner] IN c = AI \/ c \in clients
<1>1. ASSUME QuietInv, [Next]_vars, NEW r \in active, Reconnecting(r), r \in writes' \ writes
      PROVE  Won(r)
  <2>1. /\ r \in DOMAIN rooms /\ rooms[r] \in Room /\ Fits(rooms[r]) /\ TendedRoom(r)
        /\ r \in scheduled <=> rooms[r].phase = "playing"
    BY <1>1 DEF QuietInv, HubInv, RoomInv, RoomTypes, Tended
  <2>2. rooms[r].phase = "paused" /\ rooms[r].fin = "no"
    BY <1>1, <2>1 DEF Fits, Reconnecting
  <2>3. ReconnectTimerFires(r)
    <3>1. ~RetryTimerFires(r)
      BY <2>2 DEF RetryTimerFires
    <3>. QED
      BY <1>1, <2>1, <2>2, <3>1, WritesBegin
  <2> DEFINE winner == winnerSide(rooms[r].session)
             expired == Expired(rooms[r])
  <2>4. winner # NoSide /\ finishRoom(r, expired, winner)
    BY <1>1, <2>3 DEF ReconnectTimerFires, RemoveRoom, Expired
  <2>5. rooms[r].session \in Session
    BY <2>1 DEF Room
  <2>6. winner \in Sides /\ winner \notin rooms[r].session.disconnected
    BY <2>4, <2>5, ForfeitingSideAlone DEF winnerSide, opposite, Sides, NoSide
  <2>. HIDE DEF winner
  <2>7. rooms'[r].winner = winner
    <3>1. expired \in Room
      BY <2>1, ExpiredIs
    <3>. HIDE DEF expired
    <3>2. rooms' = [rooms EXCEPT ![r] = Ended(expired, winner)]
      <4>1. r \notin writes
        BY <1>1
      <4>2. ~RemoveRoom(r, queue, [rooms EXCEPT ![r] = Ended(expired, winner)], writes)
        BY <1>1 DEF RemoveRoom
      <4>. QED
        BY <2>4, <4>2 DEF finishRoom, Ended
    <3>3. Ended(expired, winner).winner = winner
      BY <2>6, <3>1, FinishedFits
    <3>. QED
      BY <2>1, <3>2, <3>3
  <2>8. rooms[r].seat[winner] # AI => rooms[r].seat[winner] \in clients
    BY <2>1, <2>2, <2>6 DEF TendedRoom
  <2>. QED
    BY <2>7, <2>8
<1>. HIDE DEF Won
<1>2. QuietInv /\ [Next]_vars => [\A r \in active : Reconnecting(r) /\ r \in writes' \ writes => Won(r)]_vars
  BY <1>1
<1>3. Spec => []QuietInv
  BY QuietInvAlways
<1>. QED
  BY <1>2, <1>3, PTL DEF Spec, ForfeitWinnerIsConnected, Won
=============================================================================
