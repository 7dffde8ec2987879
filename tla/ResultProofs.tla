----------------------------- MODULE ResultProofs -----------------------------
(***************************************************************************)
(* What PostgresResults promises, for any number of connections, users and *)
(* rooms: ratings are a chain, every result pays once, a room that has an  *)
(* answer finds its result recorded, the bracket says what the results     *)
(* say, the transactions implement ResultLedger, and the in-memory twin    *)
(* (TwinResults) keeps up with them.                                       *)
(***************************************************************************)
EXTENDS TwinResults, TLAPS

Outcomes == [winner : Users \cup {NoUser}, loser : Users \cup {NoUser}]
Rows     == [key : Keys, before : Nat, after : Nat]
SlotRows == [status : {"absent", "ready", "running", "finished"},
             left : Users \cup {NoUser}, right : Users \cup {NoUser},
             winner : Users \cup {NoUser}, match : Keys \cup {NoKey}]

\* What a finalization has locked it knows the rating of, and it locks nobody
\* but the participants.
LocksRead ==
  \A t \in Tx, u \in Users :
    lock[u] = t => Is(t, "finalize") /\ u \in PlayersIn(t) /\ seen[t][u] = accounts[u].rating

\* One attempt at a time inserts a result key, none whose result is recorded,
\* and all of them with the result the room has come to.
OneAttempt ==
  /\ \A t, other \in Tx :
       Is(t, "finalize") /\ Is(other, "finalize") /\ tx[t].key = tx[other].key => t = other
  /\ \A t \in Tx : Is(t, "finalize") =>
       /\ matches[tx[t].key] = NoMatch
       /\ outcome[tx[t].key] = [winner |-> tx[t].winner, loser |-> tx[t].loser]

OutcomesStand ==
  /\ \A k \in Keys : matches[k] # NoMatch => matches[k] = outcome[k]
  /\ \A t \in Tx : Is(t, "finalize") => PlayersIn(t) # {}

\* Whoever plays for a slot is there.
SlotsFilled ==
  /\ Len(entries) < Capacity => \A s \in Slots : slots[s].status = "absent"
  /\ \A s \in Slots : slots[s].status # "absent" => slots[s].left \in Users /\ slots[s].right \in Users
  /\ \A k \in opened : SlotOf[k] # NoSlot => slots[SlotOf[k]].status # "absent"
  /\ \A t \in Tx : semis[t] # SemisUnread => \A s \in Semifinals : semis[t][s] # Unread

\* TypeOK in three parts.
TablesOK ==
  /\ accounts \in [Users -> [rating : Nat, wins : Nat, losses : Nat]]
  /\ history \in [Users -> Seq(Rows)]
  /\ matches \in [Keys -> Outcomes]
  /\ entries \in Seq(Users) /\ Len(entries) <= Capacity
  /\ slots \in [Slots -> SlotRows]
  /\ cup \in [status : {"open", "running", "finished"}, winner : Users \cup {NoUser}]

RoomsOK ==
  /\ opened \subseteq Keys
  /\ outcome \in [Keys -> Outcomes]
  /\ answered \subseteq Keys
  /\ banned \subseteq Users
  /\ actions \in Nat

TransactionsOK ==
  /\ tx \in [Tx -> Commands]
  /\ keyShare \in [Users -> SUBSET Tx]
  /\ lock \in [Users -> Tx \cup {NoTx}]
  /\ writer \in [Users -> Tx \cup {NoTx}]
  /\ seen \in [Tx -> [Users -> Nat]]
  /\ semis \in [Tx -> [Semifinals -> Users \cup {NoUser, Unread}]]
  /\ slotLock \in [Slots -> Tx \cup {NoTx}]
  /\ cupLock \in Tx \cup {NoTx}

Inv ==
  /\ TablesOK /\ RoomsOK /\ TransactionsOK
  /\ LocksRead /\ OneAttempt /\ OutcomesStand /\ SlotsFilled
  /\ RatingsFollowHistory /\ EachResultPaysOnce /\ AnswersAreRecorded

LEMMA TypesAgree == TypeOK <=> TablesOK /\ RoomsOK /\ TransactionsOK
BY DEF TypeOK, TablesOK, RoomsOK, TransactionsOK, Outcomes, Rows, SlotRows

-----------------------------------------------------------------------------
(* What the commands are.                                                  *)

LEMMA Nobody == NoUser \notin Users /\ Unread \notin Users /\ NoUser # Unread /\ Users \subseteq Nat
BY RulesAssumption DEF NoUser, Unread

LEMMA FinalizeIs ==
  ASSUME TransactionsOK, NEW t \in Tx, Is(t, "finalize")
  PROVE  /\ tx[t].key \in Keys
         /\ tx[t].winner \in Users \cup {NoUser} /\ tx[t].loser \in Users \cup {NoUser}
         /\ PlayersIn(t) = {tx[t].winner, tx[t].loser} \ {NoUser}
         /\ PlayersIn(t) \subseteq Users
<1>1. tx[t] \in Commands /\ tx[t].op = "finalize"
  BY DEF TransactionsOK, Is
<1>2. tx[t] \in [op : {"finalize"}, key : Keys, winner : Users \cup {NoUser}, loser : Users \cup {NoUser}]
  BY <1>1 DEF Commands, Idle
<1>. QED
  BY <1>2 DEF PlayersIn, Participants

\* One of the two participants comes first.
LEMMA NextIs ==
  ASSUME TransactionsOK, NEW t \in Tx, LocksNext(t)
  PROVE  NextToLock(t) \in PlayersIn(t) /\ NextToLock(t) \in Users /\ lock[NextToLock(t)] # t
<1>. DEFINE rest == PlayersIn(t) \ Locked(t)
<1>1. Is(t, "finalize") /\ Locked(t) # PlayersIn(t)
  BY DEF LocksNext
<1>2. /\ PlayersIn(t) \subseteq Users
      /\ PlayersIn(t) = {tx[t].winner, tx[t].loser} \ {NoUser}
  BY <1>1, FinalizeIs
<1>3. rest # {} /\ rest \subseteq Nat /\ rest \subseteq {tx[t].winner, tx[t].loser}
  BY <1>1, <1>2, Nobody DEF Locked
<1>4. \E u \in rest : \A v \in rest : u <= v
  <2>. HIDE DEF rest
  <2>1. PICK a \in rest : TRUE
    BY <1>3
  <2>2. CASE \A v \in rest : a <= v
    BY <2>2
  <2>3. CASE \E v \in rest : ~(a <= v)
    <3>1. PICK b \in rest : ~(a <= b)
      BY <2>3
    <3>2. \A v \in rest : v = a \/ v = b
      BY <1>3, <2>1, <3>1
    <3>3. \A v \in rest : b <= v
      BY <1>3, <2>1, <3>1, <3>2
    <3>. QED
      BY <3>3
  <2>. QED
    BY <2>2, <2>3
<1>5. NextToLock(t) \in rest
  BY <1>4 DEF NextToLock
<1>. QED
  BY <1>2, <1>5 DEF Locked

\* The players of a room are two users, whoever wins.
LEMMA ResultsAre ==
  ASSUME TablesOK, SlotsFilled, NEW k \in opened, k \in Keys, NEW result \in Results(k)
  PROVE  result \in Outcomes /\ result.winner \in Users /\ result.loser \in Users
<1>1. CASE SlotOf[k] = NoSlot
  <2>1. PlayersOf[k][1] \in Users /\ PlayersOf[k][2] \in Users
    BY PostgresAssumption
  <2>. QED
    BY <1>1, <2>1 DEF Results, Outcomes
<1>2. CASE SlotOf[k] # NoSlot
  <2>1. SlotOf[k] \in Slots
    BY <1>2, RulesAssumption
  <2>2. slots[SlotOf[k]].left \in Users /\ slots[SlotOf[k]].right \in Users
    BY <1>2, <2>1 DEF SlotsFilled
  <2>. QED
    BY <1>2, <2>2 DEF Results, Outcomes
<1>. QED
  BY <1>1, <1>2

-----------------------------------------------------------------------------
THEOREM InitiallyHolds == Init => Inv
<1> SUFFICES ASSUME Init PROVE Inv
  OBVIOUS
<1>. USE DEF Init
<1>0. entries \in Seq(Users) /\ Len(entries) < Capacity /\ Capacity = 4
      /\ FirstOpened[entries] \subseteq {k \in Keys : SlotOf[k] = NoSlot}
  BY RulesAssumption, PostgresAssumption DEF Capacity
<1>1. TablesOK
  <2>1. InitialAccount \in [rating : Nat, wins : Nat, losses : Nat]
    BY DEF InitialAccount, InitialRating
  <2>2. <<>> \in Seq(Rows)
    OBVIOUS
  <2>3. NoMatch \in Outcomes
    BY DEF NoMatch, Outcomes
  <2>4. AbsentSlot \in SlotRows
    BY DEF AbsentSlot, SlotRows
  <2>5. cup \in [status : {"open", "running", "finished"}, winner : Users \cup {NoUser}]
    OBVIOUS
  <2>6. Len(entries) <= Capacity
    BY <1>0
  <2>7. /\ accounts \in [Users -> [rating : Nat, wins : Nat, losses : Nat]]
        /\ history \in [Users -> Seq(Rows)]
        /\ matches \in [Keys -> Outcomes]
        /\ slots \in [Slots -> SlotRows]
    BY <2>1, <2>2, <2>3, <2>4
  <2>. QED
    BY <1>0, <2>5, <2>6, <2>7 DEF TablesOK
<1>2. RoomsOK
  BY <1>0 DEF RoomsOK, NoMatch, Outcomes
<1>3. TransactionsOK
  BY DEF TransactionsOK, Commands, NothingRead, SemisUnread
<1>4. \A t \in Tx : ~Is(t, "finalize")
  BY DEF Is, Idle
<1>5. LocksRead /\ OneAttempt /\ OutcomesStand
  BY <1>4, PostgresAssumption DEF LocksRead, OneAttempt, OutcomesStand
<1>6. SlotsFilled
  BY <1>0 DEF SlotsFilled, AbsentSlot
<1>7. RatingsFollowHistory
  <2>1. \A u \in Users : history[u] = <<>> /\ accounts[u] = InitialAccount
    OBVIOUS
  <2>2. DOMAIN <<>> = {} /\ Len(<<>>) = 0
    OBVIOUS
  <2>3. InitialAccount.wins + InitialAccount.losses = 0 /\ InitialAccount.rating = InitialRating
    BY DEF InitialAccount
  <2>. QED
    BY <2>1, <2>2, <2>3 DEF RatingsFollowHistory
<1>8. EachResultPaysOnce
  <2>1. \A u \in Users : DOMAIN history[u] = {}
    <3>1. \A u \in Users : history[u] = <<>>
      OBVIOUS
    <3>2. DOMAIN <<>> = {}
      OBVIOUS
    <3>. QED
      BY <3>1, <3>2
  <2>2. \A u \in Users, k \in Keys : u \notin {matches[k].winner, matches[k].loser}
    BY Nobody DEF NoMatch
  <2>. QED
    BY <2>1, <2>2 DEF EachResultPaysOnce
<1>9. AnswersAreRecorded
  BY DEF AnswersAreRecorded
<1>. QED
  BY <1>1, <1>2, <1>3, <1>5, <1>6, <1>7, <1>8, <1>9 DEF Inv

-----------------------------------------------------------------------------
(* The types.                                                              *)

\* What the end of a transaction leaves.
LEMMA EndIs ==
  ASSUME TransactionsOK, NEW t \in Tx, EndTransaction(t)
  PROVE  /\ TransactionsOK'
         /\ ~Is(t, "finalize")' /\ \A u \in Users : lock'[u] # t
         /\ \A other \in Tx \ {t} :
              /\ tx'[other] = tx[other] /\ seen'[other] = seen[other] /\ semis'[other] = semis[other]
              /\ \A u \in Users : lock'[u] = other <=> lock[u] = other
         /\ semis'[t] = SemisUnread
<1>. USE DEF EndTransaction, TransactionsOK
<1>1. Idle \in Commands /\ NothingRead \in [Users -> Nat]
      /\ SemisUnread \in [Semifinals -> Users \cup {NoUser, Unread}]
  BY DEF Commands, NothingRead, SemisUnread
<1>2. tx' \in [Tx -> Commands] /\ seen' \in [Tx -> [Users -> Nat]]
      /\ semis' \in [Tx -> [Semifinals -> Users \cup {NoUser, Unread}]]
  BY <1>1
<1>3. keyShare' \in [Users -> SUBSET Tx]
      /\ lock' \in [Users -> Tx \cup {NoTx}] /\ writer' \in [Users -> Tx \cup {NoTx}]
  OBVIOUS
<1>4. slotLock' \in [Slots -> Tx \cup {NoTx}] /\ cupLock' \in Tx \cup {NoTx}
  OBVIOUS
<1>5. TransactionsOK'
  BY <1>2, <1>3, <1>4
<1>6. ~Is(t, "finalize")'
  BY DEF Is, Idle
<1>7. \A u \in Users : lock'[u] # t
  BY PostgresAssumption
<1>8. ASSUME NEW other \in Tx \ {t}
      PROVE  /\ tx'[other] = tx[other] /\ seen'[other] = seen[other] /\ semis'[other] = semis[other]
             /\ \A u \in Users : lock'[u] = other <=> lock[u] = other
  BY PostgresAssumption
<1>. QED
  BY <1>5, <1>6, <1>7, <1>8

LEMMA TransactionsStay == ASSUME TablesOK, RoomsOK, SlotsFilled, TransactionsOK, [Next]_vars PROVE TransactionsOK'
<1>1. ASSUME NEW t \in Tx, CommitFinalize(t) \/ JoinAgain(t) \/ CommitJoin(t) \/ CommitBan(t)
                           \/ DeadlockVictim(t) \/ Rollback(t)
      PROVE  TransactionsOK'
  BY <1>1, EndIs DEF CommitFinalize, JoinAgain, CommitJoin, CommitBan, DeadlockVictim, Rollback
<1>2. ASSUME NEW k \in Keys, FindExisting(k) \/ StartTournamentMatch(k) PROVE TransactionsOK'
  BY <1>2 DEF FindExisting, StartTournamentMatch, TransactionsOK, readVars, lockVars
<1>3. ASSUME NEW t \in Tx, CheckReference(t) PROVE TransactionsOK'
  BY <1>3 DEF CheckReference, TransactionsOK, readVars
<1>4. ASSUME NEW t \in Tx, LockParticipant(t) PROVE TransactionsOK'
  <2>1. NextToLock(t) \in Users
    BY <1>4, NextIs DEF LockParticipant
  <2>2. accounts[NextToLock(t)].rating \in Nat
    BY <2>1 DEF TablesOK
  <2>3. seen' \in [Tx -> [Users -> Nat]] /\ lock' \in [Users -> Tx \cup {NoTx}]
    BY <1>4, <2>1, <2>2 DEF LockParticipant, TransactionsOK
  <2>. QED
    BY <1>4, <2>3 DEF LockParticipant, TransactionsOK
<1>5. ASSUME NEW t \in Tx, LockSlot(t) PROVE TransactionsOK'
  BY <1>5 DEF LockSlot, TransactionsOK, readVars
<1>6. ASSUME NEW t \in Tx, LockCup(t) PROVE TransactionsOK'
  <2>1. \A s \in Semifinals : slots[s].winner \in Users \cup {NoUser}
    BY DEF TablesOK, SlotRows, Slots
  <2>2. semis' \in [Tx -> [Semifinals -> Users \cup {NoUser, Unread}]]
    BY <1>6, <2>1 DEF LockCup, TransactionsOK
  <2>. QED
    BY <1>6, <2>2 DEF LockCup, TransactionsOK
<1>7. ASSUME NEW t \in Tx, NEW k \in Keys, InsertMatch(t, k) PROVE TransactionsOK'
  <2>1. PICK result \in (IF outcome[k] = NoMatch THEN Results(k) ELSE {outcome[k]}) :
          tx' = [tx EXCEPT ![t] = Finalize(k, result)]
    BY <1>7 DEF InsertMatch
  <2>2. result \in Outcomes
    <3>1. k \in opened
      BY <1>7 DEF InsertMatch
    <3>2. CASE outcome[k] = NoMatch
      BY <2>1, <3>1, <3>2, ResultsAre
    <3>3. CASE outcome[k] # NoMatch
      BY <2>1, <3>3 DEF RoomsOK
    <3>. QED
      BY <3>2, <3>3
  <2>3. Finalize(k, result) \in Commands
    BY <2>2 DEF Finalize, Outcomes, Commands
  <2>4. tx' \in [Tx -> Commands]
    BY <2>1, <2>3 DEF TransactionsOK
  <2>. QED
    BY <1>7, <2>4 DEF InsertMatch, TransactionsOK, readVars, lockVars
<1>8. ASSUME NEW t \in Tx, NEW u \in Joiners, BeginJoin(t, u) PROVE TransactionsOK'
  <2>1. Join(u) \in Commands
    BY PostgresAssumption DEF Join, Commands
  <2>2. tx' \in [Tx -> Commands]
    BY <1>8, <2>1 DEF BeginJoin, TransactionsOK
  <2>. QED
    BY <1>8, <2>2 DEF BeginJoin, TransactionsOK, readVars
<1>9. ASSUME NEW t \in Tx, NEW u \in Targets, BeginBan(t, u) PROVE TransactionsOK'
  <2>1. (u \notin banned) \in BOOLEAN
    OBVIOUS
  <2>2. SetBan(u, u \notin banned) \in Commands
    BY <2>1, PostgresAssumption DEF SetBan, Commands
  <2>3. tx' \in [Tx -> Commands]
    BY <1>9, <2>2 DEF BeginBan, TransactionsOK
  <2>. QED
    BY <1>9, <2>3 DEF BeginBan, TransactionsOK, readVars
<1>10. ASSUME UNCHANGED vars PROVE TransactionsOK'
  BY <1>10 DEF vars, TransactionsOK, readVars, lockVars
<1>. QED
  BY <1>1, <1>2, <1>3, <1>4, <1>5, <1>6, <1>7, <1>8, <1>9, <1>10 DEF Next, Uncommitted

LEMMA RoomsStay == ASSUME TablesOK, RoomsOK, TransactionsOK, SlotsFilled, [Next]_vars PROVE RoomsOK'
<1>1. ASSUME NEW t \in Tx, CommitFinalize(t) PROVE RoomsOK'
  <2>1. answered' \subseteq Keys
    BY <1>1, FinalizeIs DEF CommitFinalize, AccountsLocked, Answer, RoomsOK
  <2>. QED
    BY <1>1, <2>1 DEF CommitFinalize, RoomsOK, banVars
<1>2. ASSUME NEW t \in Tx, JoinAgain(t) \/ CommitJoin(t) \/ DeadlockVictim(t) \/ Rollback(t) PROVE RoomsOK'
  BY <1>2 DEF JoinAgain, CommitJoin, DeadlockVictim, Rollback, RoomsOK, banVars, roomVars
<1>3. ASSUME NEW t \in Tx, CommitBan(t) PROVE RoomsOK'
  <2>1. tx[t] \in Commands /\ tx[t].op = "ban"
    BY <1>3 DEF CommitBan, Is, TransactionsOK
  <2>2. tx[t].user \in Users
    BY <2>1 DEF Commands, Idle
  <2>3. banned' \subseteq Users
    BY <1>3, <2>2 DEF CommitBan, RoomsOK
  <2>. QED
    BY <1>3, <2>3 DEF CommitBan, RoomsOK, roomVars
<1>4. ASSUME NEW k \in Keys, FindExisting(k) \/ StartTournamentMatch(k) PROVE RoomsOK'
  BY <1>4 DEF FindExisting, StartTournamentMatch, RoomsOK, banVars
<1>5. ASSUME NEW t \in Tx, CheckReference(t) \/ LockParticipant(t) \/ LockSlot(t) \/ LockCup(t) PROVE RoomsOK'
  BY <1>5 DEF CheckReference, LockParticipant, LockSlot, LockCup, RoomsOK, roomVars, banVars
<1>6. ASSUME NEW t \in Tx, NEW k \in Keys, InsertMatch(t, k) PROVE RoomsOK'
  <2>1. PICK result \in (IF outcome[k] = NoMatch THEN Results(k) ELSE {outcome[k]}) :
          outcome' = [outcome EXCEPT ![k] = result]
    BY <1>6 DEF InsertMatch
  <2>2. result \in Outcomes
    <3>1. k \in opened
      BY <1>6 DEF InsertMatch
    <3>2. CASE outcome[k] = NoMatch
      BY <2>1, <3>1, <3>2, ResultsAre
    <3>3. CASE outcome[k] # NoMatch
      BY <2>1, <3>3 DEF RoomsOK
    <3>. QED
      BY <3>2, <3>3
  <2>. QED
    BY <1>6, <2>1, <2>2 DEF InsertMatch, RoomsOK, banVars
<1>7. ASSUME NEW t \in Tx, NEW u \in Joiners, BeginJoin(t, u) PROVE RoomsOK'
  BY <1>7 DEF BeginJoin, RoomsOK, roomVars, banVars
<1>8. ASSUME NEW t \in Tx, NEW u \in Targets, BeginBan(t, u) PROVE RoomsOK'
  BY <1>8 DEF BeginBan, RoomsOK, roomVars, banVars
<1>9. ASSUME UNCHANGED vars PROVE RoomsOK'
  BY <1>9 DEF vars, RoomsOK, roomVars, banVars
<1>. QED
  BY <1>1, <1>2, <1>3, <1>4, <1>5, <1>6, <1>7, <1>8, <1>9 DEF Next, Uncommitted

LEMMA PaidIs ==
  ASSUME NEW a \in [rating : Nat, wins : Nat, losses : Nat], NEW u, NEW w, NEW n \in Nat
  PROVE  /\ Paid(a, u, w, n) \in [rating : Nat, wins : Nat, losses : Nat]
         /\ Paid(a, u, w, n).rating = IF u = w THEN AfterWin(n) ELSE AfterLoss(n)
         /\ Paid(a, u, w, n).wins + Paid(a, u, w, n).losses = a.wins + a.losses + 1
<1>. DEFINE b == Paid(a, u, w, n)
<1>1. AfterWin(n) \in Nat /\ AfterLoss(n) \in Nat
  BY DEF AfterWin, AfterLoss
<1>2. CASE u = w
  <2>1. b = [a EXCEPT !.rating = AfterWin(n), !.wins = @ + 1]
    BY <1>2 DEF Paid
  <2>2. b = [rating |-> AfterWin(n), wins |-> a.wins + 1, losses |-> a.losses]
    BY <2>1
  <2>. HIDE DEF b
  <2>3. b \in [rating : Nat, wins : Nat, losses : Nat] /\ b.rating = AfterWin(n)
        /\ b.wins + b.losses = a.wins + a.losses + 1
    BY <1>1, <2>2
  <2>. QED
    BY <1>2, <2>3 DEF b
<1>3. CASE u # w
  <2>1. b = [a EXCEPT !.rating = AfterLoss(n), !.losses = @ + 1]
    BY <1>3 DEF Paid
  <2>2. b = [rating |-> AfterLoss(n), wins |-> a.wins, losses |-> a.losses + 1]
    BY <2>1
  <2>. HIDE DEF b
  <2>3. b \in [rating : Nat, wins : Nat, losses : Nat] /\ b.rating = AfterLoss(n)
        /\ b.wins + b.losses = a.wins + a.losses + 1
    BY <1>1, <2>2
  <2>. QED
    BY <1>3, <2>3 DEF b
<1>. QED
  BY <1>2, <1>3

\* What a commit makes of the accounts, the histories and the results.
LEMMA CommitIs ==
  ASSUME TablesOK, TransactionsOK, LocksRead, NEW t \in Tx, CommitFinalize(t)
  PROVE  /\ \A u \in Users \ PlayersIn(t) : accounts'[u] = accounts[u] /\ history'[u] = history[u]
         /\ \A u \in PlayersIn(t) :
              /\ u \in Users /\ lock[u] = t
              /\ HistoryRow(t, u) \in Rows
              /\ HistoryRow(t, u).key = tx[t].key /\ HistoryRow(t, u).before = accounts[u].rating
              /\ history'[u] = Append(history[u], HistoryRow(t, u))
              /\ accounts'[u] \in [rating : Nat, wins : Nat, losses : Nat]
              /\ accounts'[u].rating = HistoryRow(t, u).after
              /\ accounts'[u].wins + accounts'[u].losses = accounts[u].wins + accounts[u].losses + 1
         /\ DOMAIN accounts' = Users /\ DOMAIN history' = Users
         /\ matches' = [matches EXCEPT ![tx[t].key] = [winner |-> tx[t].winner, loser |-> tx[t].loser]]
         /\ Is(t, "finalize")
<1>. DEFINE k == tx[t].key
            w == tx[t].winner
            before(u) == seen[t][u]
<1>1. /\ accounts' = AccountsAfter(accounts, tx[t].winner, tx[t].loser, seen[t])
      /\ history' = [u \in Users |-> IF u \in PlayersIn(t) THEN Append(history[u], HistoryRow(t, u)) ELSE history[u]]
      /\ matches' = [matches EXCEPT ![tx[t].key] = [winner |-> tx[t].winner, loser |-> tx[t].loser]]
      /\ Is(t, "finalize") /\ Locked(t) = PlayersIn(t)
  BY DEF CommitFinalize, AccountsLocked
<1>2. k \in Keys /\ PlayersIn(t) \subseteq Users
  BY <1>1, FinalizeIs
<1>3. \A u \in Users : accounts'[u] = IF u \in PlayersIn(t) THEN Paid(accounts[u], u, w, before(u)) ELSE accounts[u]
  BY <1>1 DEF AccountsAfter, PlayersIn
<1>4. ASSUME NEW u \in PlayersIn(t)
      PROVE  /\ u \in Users /\ lock[u] = t
             /\ HistoryRow(t, u) \in Rows
             /\ HistoryRow(t, u).key = tx[t].key /\ HistoryRow(t, u).before = accounts[u].rating
             /\ history'[u] = Append(history[u], HistoryRow(t, u))
             /\ accounts'[u] \in [rating : Nat, wins : Nat, losses : Nat]
             /\ accounts'[u].rating = HistoryRow(t, u).after
             /\ accounts'[u].wins + accounts'[u].losses = accounts[u].wins + accounts[u].losses + 1
  <2>1. u \in Users /\ lock[u] = t
    BY <1>1, <1>2 DEF Locked
  <2>2. seen[t][u] = accounts[u].rating /\ seen[t][u] \in Nat
    BY <2>1 DEF LocksRead, TransactionsOK
  <2>3. AfterWin(seen[t][u]) \in Nat /\ AfterLoss(seen[t][u]) \in Nat
    BY <2>2 DEF AfterWin, AfterLoss
  <2>4. HistoryRow(t, u) \in Rows /\ HistoryRow(t, u).key = tx[t].key
        /\ HistoryRow(t, u).before = accounts[u].rating
        /\ HistoryRow(t, u).after = IF u = w THEN AfterWin(seen[t][u]) ELSE AfterLoss(seen[t][u])
    BY <1>2, <2>2, <2>3 DEF HistoryRow, Rows
  <2>5. accounts[u] \in [rating : Nat, wins : Nat, losses : Nat]
    BY <2>1 DEF TablesOK
  <2>6. accounts'[u] = Paid(accounts[u], u, w, seen[t][u])
    BY <1>3, <2>1
  <2>7. /\ accounts'[u] \in [rating : Nat, wins : Nat, losses : Nat]
        /\ accounts'[u].rating = IF u = w THEN AfterWin(seen[t][u]) ELSE AfterLoss(seen[t][u])
        /\ accounts'[u].wins + accounts'[u].losses = accounts[u].wins + accounts[u].losses + 1
    BY <2>2, <2>5, <2>6, PaidIs
  <2>. QED
    BY <1>1, <2>1, <2>4, <2>7
<1>5. \A u \in Users \ PlayersIn(t) : accounts'[u] = accounts[u] /\ history'[u] = history[u]
  BY <1>1, <1>3
<1>6. DOMAIN accounts' = Users /\ DOMAIN history' = Users
  BY <1>1 DEF AccountsAfter
<1>. QED
  BY <1>1, <1>4, <1>5, <1>6

LEMMA ReadySlotIs ==
  ASSUME NEW a, NEW b
  PROVE  ReadySlot(a, b) = [status |-> "ready", left |-> a, right |-> b, winner |-> NoUser, match |-> NoKey]
<1>. DEFINE one == [AbsentSlot EXCEPT !.status = "ready"]
            two == [one EXCEPT !.left = a]
<1>1. ReadySlot(a, b) = [two EXCEPT !.right = b]
  BY DEF ReadySlot
<1>2. one = [status |-> "ready", left |-> NoUser, right |-> NoUser, winner |-> NoUser, match |-> NoKey]
  BY DEF AbsentSlot
<1>. HIDE DEF one
<1>3. two = [status |-> "ready", left |-> a, right |-> NoUser, winner |-> NoUser, match |-> NoKey]
  BY <1>2
<1>. HIDE DEF two
<1>. QED
  BY <1>1, <1>3

\* What a commit makes of the bracket.
LEMMA CommitSlots ==
  ASSUME TablesOK, TransactionsOK, SlotsFilled, NEW t \in Tx, CommitFinalize(t)
  PROVE  /\ slots' \in [Slots -> SlotRows]
         /\ cup' \in [status : {"open", "running", "finished"}, winner : Users \cup {NoUser}]
         /\ \A s \in Slots : slots'[s].status # "absent" =>
              slots'[s].left \in Users /\ slots'[s].right \in Users
         /\ \A s \in Slots : slots[s].status # "absent" => slots'[s].status # "absent"
         /\ Len(entries) < Capacity => \A s \in Slots : slots'[s].status = "absent"
<1>1. CASE SlotFor(t) = NoSlot
  BY <1>1 DEF CommitFinalize, TablesOK, SlotsFilled
<1>2. CASE SlotFor(t) # NoSlot
  <2>. DEFINE own == SlotFor(t)
              decided == [slots EXCEPT ![own] = Decided(@, tx[t].key, tx[t].winner)]
  <2>1. tx[t].key \in Keys /\ tx[t].winner \in Users \cup {NoUser}
    BY FinalizeIs DEF CommitFinalize, AccountsLocked
  <2>2. own \in Slots
    BY <1>2, <2>1, RulesAssumption DEF SlotFor
  <2>3. slots' = SlotsWritten(t) /\ cup' = CupAfter(cup, own, tx[t].winner)
    BY <1>2 DEF CommitFinalize
  <2>4. slots[own].status # "absent" /\ HasRead(t)
    BY <1>2 DEF CommitFinalize, SlotReady, SlotTakes
  <2>5. decided[own] = [status |-> "finished", left |-> slots[own].left, right |-> slots[own].right,
                        winner |-> tx[t].winner, match |-> tx[t].key]
    BY <2>2 DEF Decided, TablesOK, SlotRows
  <2>6. /\ decided \in [Slots -> SlotRows]
        /\ \A s \in Slots : decided[s].status # "absent" => decided[s].left \in Users /\ decided[s].right \in Users
        /\ \A s \in Slots : slots[s].status # "absent" => decided[s].status # "absent"
    <3>1. decided[own] \in SlotRows
      BY <2>1, <2>2, <2>5 DEF TablesOK, SlotRows
    <3>2. \A s \in Slots \ {own} : decided[s] = slots[s]
      BY DEF TablesOK
    <3>3. slots[own].left \in Users /\ slots[own].right \in Users
      BY <2>2, <2>4 DEF SlotsFilled
    <3>4. decided \in [Slots -> SlotRows]
      BY <3>1, <3>2, <2>2 DEF TablesOK
    <3>. HIDE DEF decided
    <3>. QED
      BY <3>2, <3>3, <3>4, <2>2, <2>5 DEF SlotsFilled
  <2>7. ~(Len(entries) < Capacity)
    BY <2>2, <2>4 DEF SlotsFilled
  <2>8. CupAfter(cup, own, tx[t].winner)
          \in [status : {"open", "running", "finished"}, winner : Users \cup {NoUser}]
    BY <2>1 DEF CupAfter, TablesOK
  <2>9. CASE SeatsFinal(t) /\ slots["final"].status = "absent"
    <3>. DEFINE f == ReadySlot(Finalists(t)["semifinal 1"], Finalists(t)["semifinal 2"])
    <3>1. \A s \in Semifinals : Finalists(t)[s] \in Users
      <4>1. semis[t] \in [Semifinals -> Users \cup {NoUser, Unread}]
        BY DEF TransactionsOK
      <4>2. \A s \in Semifinals : semis[t][s] # Unread /\ Finalists(t)[s] # NoUser
        BY <2>4, <2>9 DEF SlotsFilled, HasRead, SeatsFinal
      <4>3. \A s \in Semifinals : Finalists(t)[s] = IF s = own THEN tx[t].winner ELSE semis[t][s]
        BY <4>1 DEF Finalists
      <4>. QED
        BY <4>1, <4>2, <4>3, <2>1
    <3>2. f = [status |-> "ready", left |-> Finalists(t)["semifinal 1"], right |-> Finalists(t)["semifinal 2"],
               winner |-> NoUser, match |-> NoKey]
      BY ReadySlotIs
    <3>3. f \in SlotRows /\ f.status = "ready" /\ f.left \in Users /\ f.right \in Users
      <4>. HIDE DEF f
      <4>. QED
        BY <3>1, <3>2 DEF SlotRows, Semifinals
    <3>4. slots' = [decided EXCEPT !["final"] = f]
      BY <2>3, <2>9 DEF SlotsWritten
    <3>5. "final" \in Slots
      BY DEF Slots
    <3>. HIDE DEF decided, f
    <3>6. slots' \in [Slots -> SlotRows] /\ slots'["final"] = f
          /\ \A s \in Slots \ {"final"} : slots'[s] = decided[s]
      BY <2>6, <3>3, <3>4, <3>5
    <3>. QED
      BY <2>3, <2>6, <2>7, <2>8, <3>3, <3>6
  <2>10. CASE ~(SeatsFinal(t) /\ slots["final"].status = "absent")
    <3>1. slots' = decided
      BY <2>3, <2>10 DEF SlotsWritten
    <3>. HIDE DEF decided
    <3>. QED
      BY <2>3, <2>6, <2>7, <2>8, <3>1
  <2>. QED
    BY <2>9, <2>10
<1>. QED
  BY <1>1, <1>2

LEMMA ElementsIn == ASSUME NEW S, NEW e \in Seq(S), NEW i \in 1..Len(e) PROVE e[i] \in S
OBVIOUS

LEMMA JoinSlots ==
  ASSUME TablesOK, TransactionsOK, SlotsFilled, NEW t \in Tx, CommitJoin(t)
  PROVE  /\ entries' \in Seq(Users) /\ Len(entries') <= Capacity /\ Len(entries) < Capacity
         /\ slots' \in [Slots -> SlotRows]
         /\ cup' \in [status : {"open", "running", "finished"}, winner : Users \cup {NoUser}]
         /\ \A s \in Slots : slots'[s].status # "absent" =>
              slots'[s].left \in Users /\ slots'[s].right \in Users
         /\ Len(entries') < Capacity => slots' = slots
<1>1. tx[t].user \in Users
  <2>1. tx[t] \in Commands /\ tx[t].op = "join"
    BY DEF CommitJoin, Is, TransactionsOK
  <2>. QED
    BY <2>1 DEF Commands, Idle
<1>2. Len(entries) < Capacity /\ entries' = Append(entries, tx[t].user) /\ entries \in Seq(Users)
  BY DEF CommitJoin, Admits, TablesOK
<1>3. entries' \in Seq(Users) /\ Len(entries') = Len(entries) + 1 /\ Len(entries) \in Nat
  BY <1>1, <1>2
<1>4. Len(entries') <= Capacity
  BY <1>2, <1>3 DEF Capacity
<1>5. CASE Len(entries') = Capacity
  <2>1. slots' = Bracket(entries') /\ cup' = [cup EXCEPT !.status = "running"]
    BY <1>5 DEF CommitJoin
  <2>2. entries'[1] \in Users /\ entries'[2] \in Users /\ entries'[3] \in Users /\ entries'[4] \in Users
    <3>1. Len(entries') = 4 /\ entries' \in Seq(Users)
      BY <1>3, <1>5 DEF Capacity
    <3>2. \A i \in 1..4 : entries'[i] \in Users
      BY <3>1, ElementsIn
    <3>3. 1 \in 1..4 /\ 2 \in 1..4 /\ 3 \in 1..4 /\ 4 \in 1..4
      OBVIOUS
    <3>. QED
      BY <3>2, <3>3
  <2>3. \A a, b \in Users : /\ ReadySlot(a, b) \in SlotRows
                            /\ ReadySlot(a, b).left = a /\ ReadySlot(a, b).right = b
    <3> SUFFICES ASSUME NEW a \in Users, NEW b \in Users
                 PROVE /\ ReadySlot(a, b) \in SlotRows
                       /\ ReadySlot(a, b).left = a /\ ReadySlot(a, b).right = b
      OBVIOUS
    <3>1. ReadySlot(a, b) = [status |-> "ready", left |-> a, right |-> b, winner |-> NoUser, match |-> NoKey]
      BY ReadySlotIs
    <3>. QED
      BY <3>1 DEF SlotRows
  <2>4. AbsentSlot \in SlotRows /\ AbsentSlot.status = "absent"
    BY DEF AbsentSlot, SlotRows
  <2>5. /\ slots'["semifinal 1"] = ReadySlot(entries'[1], entries'[4])
        /\ slots'["semifinal 2"] = ReadySlot(entries'[2], entries'[3])
        /\ slots'["final"] = AbsentSlot
        /\ DOMAIN slots' = Slots /\ slots' = [s \in Slots |-> slots'[s]]
        /\ Slots = {"semifinal 1", "semifinal 2", "final"}
    BY <2>1 DEF Bracket, Slots, Semifinals
  <2>6. slots' \in [Slots -> SlotRows]
    <3>1. \A s \in Slots : slots'[s] \in SlotRows
      <4>1. ReadySlot(entries'[1], entries'[4]) \in SlotRows /\ ReadySlot(entries'[2], entries'[3]) \in SlotRows
        BY <2>2, <2>3
      <4>. QED
        BY <4>1, <2>4, <2>5
    <3>. QED
      BY <2>5, <3>1
  <2>7. \A s \in Slots : slots'[s].status # "absent" => slots'[s].left \in Users /\ slots'[s].right \in Users
    <3>1. /\ slots'["semifinal 1"].left \in Users /\ slots'["semifinal 1"].right \in Users
          /\ slots'["semifinal 2"].left \in Users /\ slots'["semifinal 2"].right \in Users
      <4>1. \A a, b \in Users : ReadySlot(a, b).left \in Users /\ ReadySlot(a, b).right \in Users
        BY <2>3
      <4>2. /\ ReadySlot(entries'[1], entries'[4]).left \in Users
            /\ ReadySlot(entries'[1], entries'[4]).right \in Users
            /\ ReadySlot(entries'[2], entries'[3]).left \in Users
            /\ ReadySlot(entries'[2], entries'[3]).right \in Users
        BY <2>2, <4>1
      <4>. QED
        BY <2>5, <4>2
    <3>. QED
      BY <3>1, <2>4, <2>5
  <2>8. cup' \in [status : {"open", "running", "finished"}, winner : Users \cup {NoUser}]
    BY <2>1 DEF TablesOK
  <2>. QED
    BY <1>2, <1>3, <1>4, <1>5, <2>6, <2>7, <2>8
<1>6. CASE Len(entries') # Capacity
  BY <1>2, <1>3, <1>4, <1>6 DEF CommitJoin, TablesOK, SlotsFilled
<1>. QED
  BY <1>5, <1>6

\* What a step does to the tables it does not commit to.
LEMMA OthersKeepTables ==
  ASSUME NEW t \in Tx, Uncommitted \/ JoinAgain(t) \/ CommitBan(t)
  PROVE  UNCHANGED tables /\ UNCHANGED <<opened, answered>>
<1>1. ASSUME NEW u \in Tx, CheckReference(u) \/ LockParticipant(u) \/ LockSlot(u) \/ LockCup(u)
                           \/ DeadlockVictim(u) \/ Rollback(u)
      PROVE  UNCHANGED tables /\ UNCHANGED <<opened, answered>>
  BY <1>1 DEF CheckReference, LockParticipant, LockSlot, LockCup, DeadlockVictim, Rollback, roomVars
<1>2. ASSUME NEW u \in Tx, NEW k \in Keys, InsertMatch(u, k)
      PROVE  UNCHANGED tables /\ UNCHANGED <<opened, answered>>
  BY <1>2 DEF InsertMatch
<1>3. ASSUME NEW u \in Tx, NEW v \in Joiners, BeginJoin(u, v)
      PROVE  UNCHANGED tables /\ UNCHANGED <<opened, answered>>
  BY <1>3 DEF BeginJoin, roomVars
<1>4. ASSUME NEW u \in Tx, NEW v \in Targets, BeginBan(u, v)
      PROVE  UNCHANGED tables /\ UNCHANGED <<opened, answered>>
  BY <1>4 DEF BeginBan, roomVars
<1>5. ASSUME JoinAgain(t) \/ CommitBan(t) PROVE UNCHANGED tables /\ UNCHANGED <<opened, answered>>
  BY <1>5 DEF JoinAgain, CommitBan, roomVars
<1>. QED
  BY <1>1, <1>2, <1>3, <1>4, <1>5 DEF Uncommitted

LEMMA RunningSlot == ASSUME NEW slot \in SlotRows PROVE [slot EXCEPT !.status = "running"] \in SlotRows
BY DEF SlotRows

LEMMA TablesStay == ASSUME Inv, [Next]_vars PROVE TablesOK'
<1>. USE DEF Inv
<1>1. ASSUME NEW t \in Tx, CommitFinalize(t) PROVE TablesOK'
  <2>1. \A u \in Users : accounts'[u] \in [rating : Nat, wins : Nat, losses : Nat]
    <3>1. \A u \in PlayersIn(t) : accounts'[u] \in [rating : Nat, wins : Nat, losses : Nat]
      BY <1>1, CommitIs
    <3>2. \A u \in Users \ PlayersIn(t) : accounts'[u] = accounts[u]
      BY <1>1, CommitIs
    <3>. QED
      BY <3>1, <3>2 DEF TablesOK
  <2>2. accounts' \in [Users -> [rating : Nat, wins : Nat, losses : Nat]]
    BY <1>1, <2>1 DEF CommitFinalize, AccountsAfter
  <2>3. \A u \in Users : history'[u] \in Seq(Rows)
    <3> SUFFICES ASSUME NEW u \in Users PROVE history'[u] \in Seq(Rows)
      OBVIOUS
    <3>1. history[u] \in Seq(Rows)
      BY DEF TablesOK
    <3>2. CASE u \in PlayersIn(t)
      <4>1. history'[u] = Append(history[u], HistoryRow(t, u)) /\ HistoryRow(t, u) \in Rows
        BY <1>1, <3>2, CommitIs
      <4>. QED
        BY <3>1, <4>1
    <3>3. CASE u \notin PlayersIn(t)
      BY <1>1, <3>1, <3>3, CommitIs
    <3>. QED
      BY <3>2, <3>3
  <2>4. history' \in [Users -> Seq(Rows)]
    BY <1>1, <2>3 DEF CommitFinalize
  <2>5. matches' \in [Keys -> Outcomes]
    BY <1>1, FinalizeIs DEF CommitFinalize, AccountsLocked, TablesOK, Outcomes
  <2>6. entries' = entries
    BY <1>1 DEF CommitFinalize
  <2>. QED
    BY <1>1, <2>2, <2>4, <2>5, <2>6, CommitSlots DEF TablesOK
<1>2. ASSUME NEW t \in Tx, CommitJoin(t) PROVE TablesOK'
  <2>1. UNCHANGED <<accounts, history, matches>>
    BY <1>2 DEF CommitJoin
  <2>. QED
    BY <1>2, <2>1, JoinSlots DEF TablesOK
<1>3. ASSUME UNCHANGED tables PROVE TablesOK'
  BY <1>3 DEF tables, TablesOK
<1>4. ASSUME NEW k \in Keys, StartTournamentMatch(k) PROVE TablesOK'
  <2>. DEFINE own == SlotOf[k]
  <2>0. own \in Slots
    BY <1>4, RulesAssumption DEF StartTournamentMatch
  <2>1. slots' \in [Slots -> SlotRows]
    <3>1. [slots[own] EXCEPT !.status = "running"] \in SlotRows
      <4>1. slots[own] \in SlotRows
        BY <2>0 DEF TablesOK
      <4>. QED
        BY <4>1, RunningSlot
    <3>2. slots' = [slots EXCEPT ![own] = [slots[own] EXCEPT !.status = "running"]]
      BY <1>4 DEF StartTournamentMatch
    <3>. QED
      BY <3>1, <3>2 DEF TablesOK
  <2>. QED
    BY <1>4, <2>1 DEF StartTournamentMatch, TablesOK
<1>5. ASSUME NEW k \in Keys, FindExisting(k) PROVE TablesOK'
  BY <1>3, <1>5 DEF FindExisting
<1>6. ASSUME UNCHANGED vars PROVE TablesOK'
  BY <1>3, <1>6 DEF vars
<1>7. ASSUME Uncommitted PROVE TablesOK'
  BY <1>3, <1>7, OthersKeepTables DEF Uncommitted
<1>. QED
  BY <1>1, <1>2, <1>3, <1>4, <1>5, <1>6, <1>7, OthersKeepTables DEF Next

-----------------------------------------------------------------------------
(* Locks, attempts and the bracket.                                        *)

\* A step that ends transaction t and leaves the results alone.
EndsOnly(t) ==
  EndTransaction(t) /\ UNCHANGED <<accounts, history, matches, opened, outcome, answered>>

\* A step that leaves commands, locks and readings alone.
LocksOnly ==
  UNCHANGED <<accounts, history, matches, outcome, tx, lock, seen>>

\* A step in which an idle connection takes up something else.
Begins(t) ==
  /\ Is(t, "idle") /\ ~Is(t, "finalize")'
  /\ \A other \in Tx \ {t} : tx'[other] = tx[other]
  /\ UNCHANGED <<accounts, history, matches, outcome, lock, seen>>

LEMMA StepsAre ==
  ASSUME TransactionsOK, [Next]_vars
  PROVE  \/ \E t \in Tx : CommitFinalize(t) \/ EndsOnly(t) \/ Begins(t) \/ LockParticipant(t)
         \/ \E t \in Tx, k \in Keys : InsertMatch(t, k)
         \/ LocksOnly
<1>1. ASSUME NEW t \in Tx, JoinAgain(t) \/ CommitJoin(t) \/ CommitBan(t) \/ DeadlockVictim(t) \/ Rollback(t)
      PROVE  EndsOnly(t)
  BY <1>1 DEF JoinAgain, CommitJoin, CommitBan, DeadlockVictim, Rollback, EndsOnly, tables, roomVars
<1>2. ASSUME NEW k \in Keys, FindExisting(k) \/ StartTournamentMatch(k) PROVE LocksOnly
  BY <1>2 DEF FindExisting, StartTournamentMatch, LocksOnly, tables, readVars, lockVars
<1>3. ASSUME NEW t \in Tx, CheckReference(t) \/ LockSlot(t) \/ LockCup(t) PROVE LocksOnly
  BY <1>3 DEF CheckReference, LockSlot, LockCup, LocksOnly, tables, readVars, roomVars
<1>4. ASSUME NEW t \in Tx, NEW u \in Joiners, BeginJoin(t, u) PROVE Begins(t)
  <2>1. tx' = [tx EXCEPT ![t] = Join(u)] /\ Is(t, "idle")
    BY <1>4 DEF BeginJoin
  <2>2. ~Is(t, "finalize")' /\ \A other \in Tx \ {t} : tx'[other] = tx[other]
    BY <2>1 DEF Is, Join, TransactionsOK
  <2>. QED
    BY <1>4, <2>1, <2>2 DEF BeginJoin, Begins, tables, roomVars, readVars
<1>5. ASSUME NEW t \in Tx, NEW u \in Targets, BeginBan(t, u) PROVE Begins(t)
  <2>1. tx' = [tx EXCEPT ![t] = SetBan(u, u \notin banned)] /\ Is(t, "idle")
    BY <1>5 DEF BeginBan
  <2>2. SetBan(u, u \notin banned).op = "ban"
    BY DEF SetBan
  <2>3. ~Is(t, "finalize")' /\ \A other \in Tx \ {t} : tx'[other] = tx[other]
    BY <2>1, <2>2 DEF Is, TransactionsOK
  <2>. QED
    BY <1>5, <2>1, <2>3 DEF BeginBan, Begins, tables, roomVars, readVars
<1>6. ASSUME UNCHANGED vars PROVE LocksOnly
  BY <1>6 DEF vars, LocksOnly, tables, roomVars, readVars, lockVars
<1>. QED
  BY <1>1, <1>2, <1>3, <1>4, <1>5, <1>6 DEF Next, Uncommitted

LEMMA LocksReadStays == ASSUME Inv, [Next]_vars PROVE LocksRead'
<1>. USE DEF Inv
<1>1. ASSUME NEW t \in Tx, CommitFinalize(t) PROVE LocksRead'
  <2> SUFFICES ASSUME NEW other \in Tx, NEW u \in Users, lock'[u] = other
               PROVE  /\ Is(other, "finalize")' /\ (u \in PlayersIn(other))'
                      /\ seen'[other][u] = accounts'[u].rating
    BY DEF LocksRead
  <2>0. EndTransaction(t)
    BY <1>1 DEF CommitFinalize
  <2>1. other # t
    BY <2>0, EndIs
  <2>2. tx'[other] = tx[other] /\ seen'[other] = seen[other] /\ lock[u] = other
    BY <2>0, <2>1, EndIs
  <2>3. u \notin PlayersIn(t)
    BY <1>1, <2>1, <2>2 DEF CommitFinalize, AccountsLocked, Locked
  <2>4. accounts'[u] = accounts[u]
    BY <1>1, <2>3, CommitIs
  <2>5. Is(other, "finalize") /\ u \in PlayersIn(other) /\ seen[other][u] = accounts[u].rating
    BY <2>2 DEF LocksRead
  <2>. QED
    BY <2>2, <2>4, <2>5 DEF Is, PlayersIn
<1>2. ASSUME NEW t \in Tx, EndsOnly(t) PROVE LocksRead'
  <2> SUFFICES ASSUME NEW other \in Tx, NEW u \in Users, lock'[u] = other
               PROVE  /\ Is(other, "finalize")' /\ (u \in PlayersIn(other))'
                      /\ seen'[other][u] = accounts'[u].rating
    BY DEF LocksRead
  <2>0. EndTransaction(t) /\ accounts' = accounts
    BY <1>2 DEF EndsOnly
  <2>1. other # t
    BY <2>0, EndIs
  <2>2. tx'[other] = tx[other] /\ seen'[other] = seen[other] /\ lock[u] = other
    BY <2>0, <2>1, EndIs
  <2>5. Is(other, "finalize") /\ u \in PlayersIn(other) /\ seen[other][u] = accounts[u].rating
    BY <2>2 DEF LocksRead
  <2>. QED
    BY <2>0, <2>2, <2>5 DEF Is, PlayersIn
<1>3. ASSUME NEW t \in Tx, Is(t, "idle"), \A other \in Tx \ {t} : tx'[other] = tx[other],
             UNCHANGED <<accounts, lock, seen>>
      PROVE  LocksRead'
  <2>1. \A u \in Users : lock[u] # t
    BY <1>3 DEF LocksRead, Is
  <2>. QED
    BY <1>3, <2>1 DEF LocksRead, Is, PlayersIn
<1>4. ASSUME NEW t \in Tx, Begins(t) PROVE LocksRead'
  BY <1>3, <1>4 DEF Begins
<1>5. ASSUME NEW t \in Tx, NEW k \in Keys, InsertMatch(t, k) PROVE LocksRead'
  <2>1. /\ Is(t, "idle") /\ UNCHANGED <<accounts, lock, seen>>
        /\ \A other \in Tx \ {t} : tx'[other] = tx[other]
    BY <1>5 DEF InsertMatch, tables, lockVars, readVars, TransactionsOK
  <2>. QED
    BY <1>3, <2>1
<1>6. ASSUME NEW t \in Tx, LockParticipant(t) PROVE LocksRead'
  <2>. DEFINE next == NextToLock(t)
  <2>1. next \in PlayersIn(t) /\ next \in Users /\ Is(t, "finalize")
    BY <1>6, NextIs DEF LockParticipant, LocksNext
  <2>2. /\ lock' = [lock EXCEPT ![next] = t]
        /\ seen' = [seen EXCEPT ![t][next] = accounts[next].rating]
        /\ UNCHANGED <<accounts, tx>>
    BY <1>6 DEF LockParticipant, tables
  <2>. HIDE DEF next
  <2>3. seen'[t][next] = accounts[next].rating
        /\ \A u \in Users \ {next} : seen'[t][u] = seen[t][u]
        /\ \A other \in Tx \ {t} : seen'[other] = seen[other]
    BY <2>1, <2>2 DEF TransactionsOK
  <2>4. lock'[next] = t /\ \A u \in Users \ {next} : lock'[u] = lock[u]
    BY <2>1, <2>2 DEF TransactionsOK
  <2> SUFFICES ASSUME NEW other \in Tx, NEW u \in Users, lock'[u] = other
               PROVE  /\ Is(other, "finalize") /\ u \in PlayersIn(other)
                      /\ seen'[other][u] = accounts[u].rating
    BY <2>2 DEF LocksRead, Is, PlayersIn
  <2>5. CASE u = next
    BY <2>1, <2>3, <2>4, <2>5
  <2>6. CASE u # next
    <3>1. lock[u] = other
      BY <2>4, <2>6
    <3>2. Is(other, "finalize") /\ u \in PlayersIn(other) /\ seen[other][u] = accounts[u].rating
      BY <3>1 DEF LocksRead
    <3>3. seen'[other][u] = seen[other][u]
      BY <2>3, <2>6
    <3>. QED
      BY <3>2, <3>3
  <2>. QED
    BY <2>5, <2>6
<1>7. ASSUME LocksOnly PROVE LocksRead'
  BY <1>7 DEF LocksOnly, LocksRead, Is, PlayersIn
<1>. QED
  BY <1>1, <1>2, <1>4, <1>5, <1>6, <1>7, StepsAre

\* What an insertion of a matches row begins.
LEMMA InsertIs ==
  ASSUME Inv, NEW t \in Tx, NEW k \in Keys, InsertMatch(t, k)
  PROVE  /\ Is(t, "finalize")' /\ tx'[t].key = k /\ matches[k] = NoMatch /\ k \notin answered
         /\ \A other \in Tx : Is(other, "finalize") => tx[other].key # k
         /\ outcome'[k] = [winner |-> tx'[t].winner, loser |-> tx'[t].loser]
         /\ tx'[t].winner \in Users \/ tx'[t].loser \in Users
         /\ \A other \in Tx \ {t} : tx'[other] = tx[other]
         /\ \A j \in Keys \ {k} : outcome'[j] = outcome[j]
         /\ UNCHANGED tables /\ UNCHANGED answered
<1>. USE DEF Inv
<1>1. PICK result \in (IF outcome[k] = NoMatch THEN Results(k) ELSE {outcome[k]}) :
        outcome' = [outcome EXCEPT ![k] = result] /\ tx' = [tx EXCEPT ![t] = Finalize(k, result)]
  BY DEF InsertMatch
<1>2. result \in Outcomes /\ (result.winner \in Users \/ result.loser \in Users)
  <2>1. k \in opened
    BY DEF InsertMatch
  <2>2. CASE outcome[k] = NoMatch
    BY <1>1, <2>1, <2>2, ResultsAre
  <2>3. CASE outcome[k] # NoMatch
    <3>1. result \in Outcomes /\ result # NoMatch
      BY <1>1, <2>3 DEF RoomsOK
    <3>2. result = [winner |-> result.winner, loser |-> result.loser]
      BY <3>1 DEF Outcomes
    <3>. QED
      BY <3>1, <3>2 DEF NoMatch, Outcomes
  <2>. QED
    BY <2>2, <2>3
<1>3. /\ tx'[t] = [op |-> "finalize", key |-> k, winner |-> result.winner, loser |-> result.loser]
      /\ \A other \in Tx \ {t} : tx'[other] = tx[other]
  BY <1>1 DEF TransactionsOK, Finalize
<1>4. outcome'[k] = result /\ \A j \in Keys \ {k} : outcome'[j] = outcome[j]
  BY <1>1 DEF RoomsOK
<1>5. result = [winner |-> result.winner, loser |-> result.loser]
  BY <1>2 DEF Outcomes
<1>6. \A other \in Tx : Is(other, "finalize") => tx[other].key # k
  BY DEF InsertMatch, KeyPending
<1>. QED
  BY <1>2, <1>3, <1>4, <1>5, <1>6 DEF InsertMatch, Is

LEMMA AttemptsStay == ASSUME Inv, [Next]_vars PROVE OneAttempt' /\ OutcomesStand' /\ AnswersAreRecorded'
<1>. USE DEF Inv
<1>1. ASSUME NEW t \in Tx, EndTransaction(t), UNCHANGED <<matches, outcome, answered>>
      PROVE  OneAttempt' /\ OutcomesStand' /\ AnswersAreRecorded'
  <2>1. ~Is(t, "finalize")' /\ \A other \in Tx \ {t} : tx'[other] = tx[other]
    BY <1>1, EndIs
  <2>. QED
    BY <1>1, <2>1 DEF OneAttempt, OutcomesStand, AnswersAreRecorded, Is, PlayersIn
<1>2. ASSUME NEW t \in Tx, CommitFinalize(t) PROVE OneAttempt' /\ OutcomesStand' /\ AnswersAreRecorded'
  <2>. DEFINE k == tx[t].key
  <2>1. ~Is(t, "finalize")' /\ \A other \in Tx \ {t} : tx'[other] = tx[other]
    BY <1>2, EndIs DEF CommitFinalize
  <2>2. /\ Is(t, "finalize") /\ UNCHANGED outcome
        /\ matches' = [matches EXCEPT ![k] = [winner |-> tx[t].winner, loser |-> tx[t].loser]]
        /\ answered' \in {answered, answered \cup {k}}
    BY <1>2 DEF CommitFinalize, AccountsLocked, Answer
  <2>3. k \in Keys /\ outcome[k] = [winner |-> tx[t].winner, loser |-> tx[t].loser]
        /\ [winner |-> tx[t].winner, loser |-> tx[t].loser] # NoMatch
    <3>1. k \in Keys /\ PlayersIn(t) # {} /\ PlayersIn(t) = {tx[t].winner, tx[t].loser} \ {NoUser}
      BY <2>2, FinalizeIs DEF OutcomesStand
    <3>2. tx[t].winner # NoUser \/ tx[t].loser # NoUser
      BY <3>1
    <3>3. [winner |-> tx[t].winner, loser |-> tx[t].loser] # NoMatch
      BY <3>2 DEF NoMatch
    <3>. QED
      BY <2>2, <3>1, <3>3 DEF OneAttempt
  <2>. HIDE DEF k
  <2>4. matches'[k] = outcome'[k] /\ matches'[k] # NoMatch
        /\ \A j \in Keys \ {k} : matches'[j] = matches[j]
    BY <2>2, <2>3 DEF TablesOK
  <2>5. OneAttempt'
    <3>1. ASSUME NEW other \in Tx, Is(other, "finalize")'
          PROVE  /\ other # t /\ Is(other, "finalize") /\ tx'[other] = tx[other]
                 /\ tx[other].key \in Keys \ {k}
      BY <2>1, <2>2, <3>1, FinalizeIs DEF Is, OneAttempt, k
    <3>2. \A other \in Tx : Is(other, "finalize")' =>
            /\ matches'[tx'[other].key] = NoMatch
            /\ outcome'[tx'[other].key] = [winner |-> tx'[other].winner, loser |-> tx'[other].loser]
      BY <2>2, <2>4, <3>1 DEF OneAttempt
    <3>3. \A a, b \in Tx : Is(a, "finalize")' /\ Is(b, "finalize")' /\ tx'[a].key = tx'[b].key => a = b
      BY <3>1 DEF OneAttempt
    <3>. QED
      BY <3>2, <3>3 DEF OneAttempt
  <2>6. OutcomesStand'
    <3>1. \A other \in Tx : Is(other, "finalize")' => PlayersIn(other)' # {}
      BY <2>1 DEF OutcomesStand, Is, PlayersIn
    <3>2. \A j \in Keys : matches'[j] # NoMatch => matches'[j] = outcome'[j]
      BY <2>2, <2>4 DEF OutcomesStand
    <3>. QED
      BY <3>1, <3>2 DEF OutcomesStand
  <2>7. AnswersAreRecorded'
    BY <2>2, <2>4 DEF AnswersAreRecorded, RoomsOK
  <2>. QED
    BY <2>5, <2>6, <2>7
<1>3. ASSUME NEW t \in Tx, NEW k \in Keys, InsertMatch(t, k)
      PROVE  OneAttempt' /\ OutcomesStand' /\ AnswersAreRecorded'
  <2>1. /\ Is(t, "finalize")' /\ tx'[t].key = k /\ matches[k] = NoMatch /\ k \notin answered
        /\ \A other \in Tx : Is(other, "finalize") => tx[other].key # k
        /\ outcome'[k] = [winner |-> tx'[t].winner, loser |-> tx'[t].loser]
        /\ tx'[t].winner \in Users \/ tx'[t].loser \in Users
        /\ \A other \in Tx \ {t} : tx'[other] = tx[other]
        /\ \A j \in Keys \ {k} : outcome'[j] = outcome[j]
        /\ matches' = matches /\ answered' = answered
    BY <1>3, InsertIs DEF tables
  <2>2. ASSUME NEW other \in Tx \ {t}, Is(other, "finalize")'
        PROVE  Is(other, "finalize") /\ tx'[other] = tx[other] /\ tx[other].key \in Keys \ {k}
    BY <2>1, <2>2, FinalizeIs DEF Is
  <2>3. OneAttempt'
    <3>1. \A other \in Tx : Is(other, "finalize")' =>
            /\ matches'[tx'[other].key] = NoMatch
            /\ outcome'[tx'[other].key] = [winner |-> tx'[other].winner, loser |-> tx'[other].loser]
      BY <2>1, <2>2 DEF OneAttempt
    <3>2. \A a, b \in Tx : Is(a, "finalize")' /\ Is(b, "finalize")' /\ tx'[a].key = tx'[b].key => a = b
      BY <2>1, <2>2 DEF OneAttempt
    <3>. QED
      BY <3>1, <3>2 DEF OneAttempt
  <2>4. PlayersIn(t)' # {}
    BY <2>1, Nobody DEF PlayersIn, Participants
  <2>5. OutcomesStand'
    <3>1. \A other \in Tx : Is(other, "finalize")' => PlayersIn(other)' # {}
      BY <2>1, <2>2, <2>4 DEF OutcomesStand, PlayersIn
    <3>2. \A j \in Keys : matches'[j] # NoMatch => matches'[j] = outcome'[j]
      BY <2>1 DEF OutcomesStand
    <3>. QED
      BY <3>1, <3>2 DEF OutcomesStand
  <2>6. AnswersAreRecorded'
    BY <2>1 DEF AnswersAreRecorded, RoomsOK
  <2>. QED
    BY <2>3, <2>5, <2>6
<1>4. ASSUME NEW k \in Keys, FindExisting(k) PROVE OneAttempt' /\ OutcomesStand' /\ AnswersAreRecorded'
  <2>1. UNCHANGED <<matches, outcome, tx>> /\ answered' = answered \cup {k} /\ matches[k] # NoMatch
    BY <1>4 DEF FindExisting, tables
  <2>2. matches[k] = outcome[k]
    BY <2>1 DEF OutcomesStand
  <2>. QED
    BY <2>1, <2>2 DEF OneAttempt, OutcomesStand, AnswersAreRecorded, Is, PlayersIn
<1>5. ASSUME NEW t \in Tx, ~Is(t, "finalize")', \A other \in Tx \ {t} : tx'[other] = tx[other],
             UNCHANGED <<matches, outcome, answered>>
      PROVE  OneAttempt' /\ OutcomesStand' /\ AnswersAreRecorded'
  BY <1>5 DEF OneAttempt, OutcomesStand, AnswersAreRecorded, Is, PlayersIn
<1>6. ASSUME UNCHANGED <<matches, outcome, answered, tx>>
      PROVE  OneAttempt' /\ OutcomesStand' /\ AnswersAreRecorded'
  BY <1>6 DEF OneAttempt, OutcomesStand, AnswersAreRecorded, Is, PlayersIn
<1>7. ASSUME NEW t \in Tx, JoinAgain(t) \/ CommitJoin(t) \/ CommitBan(t) \/ DeadlockVictim(t) \/ Rollback(t)
      PROVE  OneAttempt' /\ OutcomesStand' /\ AnswersAreRecorded'
  BY <1>1, <1>7 DEF JoinAgain, CommitJoin, CommitBan, DeadlockVictim, Rollback, tables, roomVars
<1>8. ASSUME NEW k \in Keys, StartTournamentMatch(k) PROVE OneAttempt' /\ OutcomesStand' /\ AnswersAreRecorded'
  BY <1>6, <1>8 DEF StartTournamentMatch
<1>9. ASSUME NEW t \in Tx, CheckReference(t) \/ LockParticipant(t) \/ LockSlot(t) \/ LockCup(t)
      PROVE  OneAttempt' /\ OutcomesStand' /\ AnswersAreRecorded'
  BY <1>6, <1>9 DEF CheckReference, LockParticipant, LockSlot, LockCup, tables, roomVars
<1>10. ASSUME NEW t \in Tx, NEW u \in Joiners, BeginJoin(t, u)
       PROVE  OneAttempt' /\ OutcomesStand' /\ AnswersAreRecorded'
  <2>1. ~Is(t, "finalize")' /\ \A other \in Tx \ {t} : tx'[other] = tx[other]
    BY <1>10 DEF BeginJoin, Is, Join, TransactionsOK
  <2>. QED
    BY <1>5, <1>10, <2>1 DEF BeginJoin, tables, roomVars
<1>11. ASSUME NEW t \in Tx, NEW u \in Targets, BeginBan(t, u)
       PROVE  OneAttempt' /\ OutcomesStand' /\ AnswersAreRecorded'
  <2>1. tx' = [tx EXCEPT ![t] = SetBan(u, u \notin banned)]
    BY <1>11 DEF BeginBan
  <2>2. SetBan(u, u \notin banned).op = "ban"
    BY DEF SetBan
  <2>3. ~Is(t, "finalize")' /\ \A other \in Tx \ {t} : tx'[other] = tx[other]
    BY <2>1, <2>2 DEF Is, TransactionsOK
  <2>. QED
    BY <1>5, <1>11, <2>3 DEF BeginBan, tables, roomVars
<1>12. ASSUME UNCHANGED vars PROVE OneAttempt' /\ OutcomesStand' /\ AnswersAreRecorded'
  BY <1>6, <1>12 DEF vars, tables, roomVars
<1>. QED
  BY <1>2, <1>3, <1>4, <1>7, <1>8, <1>9, <1>10, <1>11, <1>12 DEF Next, Uncommitted

LEMMA SlotsStayFilled == ASSUME Inv, [Next]_vars PROVE SlotsFilled'
<1>. USE DEF Inv
<1>1. ASSUME NEW t \in Tx, EndTransaction(t) PROVE \A other \in Tx : semis'[other] # SemisUnread =>
                                                     \A s \in Semifinals : semis'[other][s] # Unread
  BY <1>1, EndIs DEF SlotsFilled
<1>2. ASSUME NEW t \in Tx, CommitFinalize(t) PROVE SlotsFilled'
  <2>1. EndTransaction(t) /\ UNCHANGED <<entries, opened>>
    BY <1>2 DEF CommitFinalize
  <2>2. \A k \in opened : SlotOf[k] # NoSlot => SlotOf[k] \in Slots /\ slots[SlotOf[k]].status # "absent"
    BY RulesAssumption DEF SlotsFilled, RoomsOK
  <2>. QED
    BY <1>1, <1>2, <2>1, <2>2, CommitSlots DEF SlotsFilled
<1>3. ASSUME NEW t \in Tx, CommitJoin(t) PROVE SlotsFilled'
  <2>1. EndTransaction(t) /\ UNCHANGED opened
    BY <1>3 DEF CommitJoin, roomVars
  <2>2. \A s \in Slots : slots[s].status = "absent"
    BY <1>3, JoinSlots DEF SlotsFilled
  <2>3. \A k \in opened : SlotOf[k] = NoSlot
    BY <2>2, RulesAssumption DEF SlotsFilled, RoomsOK
  <2>. QED
    BY <1>1, <1>3, <2>1, <2>2, <2>3, JoinSlots DEF SlotsFilled
<1>4. ASSUME UNCHANGED <<tables, opened, semis>> PROVE SlotsFilled'
  BY <1>4 DEF SlotsFilled, tables
<1>5. ASSUME NEW t \in Tx, JoinAgain(t) \/ CommitBan(t) \/ DeadlockVictim(t) \/ Rollback(t) PROVE SlotsFilled'
  <2>1. EndTransaction(t) /\ UNCHANGED <<tables, opened>>
    BY <1>5 DEF JoinAgain, CommitBan, DeadlockVictim, Rollback, roomVars
  <2>. QED
    BY <1>1, <2>1 DEF SlotsFilled, tables
<1>6. ASSUME NEW t \in Tx, LockCup(t) PROVE SlotsFilled'
  <2>1. \A s \in Semifinals : slots[s].winner # Unread
    BY Nobody DEF TablesOK, SlotRows, Slots
  <2>2. semis' = [semis EXCEPT ![t] = [s \in Semifinals |->
                    IF slots[s].status = "finished" THEN slots[s].winner ELSE NoUser]]
    BY <1>6 DEF LockCup
  <2>3. \A s \in Semifinals : semis'[t][s] # Unread
    BY <2>1, <2>2, Nobody DEF TransactionsOK
  <2>4. \A other \in Tx \ {t} : semis'[other] = semis[other]
    BY <2>2 DEF TransactionsOK
  <2>5. UNCHANGED <<entries, slots, opened>>
    BY <1>6 DEF LockCup, tables, roomVars
  <2>. QED
    BY <2>3, <2>4, <2>5 DEF SlotsFilled
<1>7. ASSUME NEW k \in Keys, StartTournamentMatch(k) PROVE SlotsFilled'
  <2>. DEFINE own == SlotOf[k]
  <2>1. own \in Slots /\ slots[own].status # "absent"
    BY <1>7, RulesAssumption DEF StartTournamentMatch
  <2>2. /\ slots' = [slots EXCEPT ![own].status = "running"]
        /\ opened' = opened \cup {k} /\ UNCHANGED <<entries, semis>>
    BY <1>7 DEF StartTournamentMatch, readVars
  <2>3. /\ \A s \in Slots \ {own} : slots'[s] = slots[s]
        /\ slots'[own].status = "running"
        /\ slots'[own].left = slots[own].left /\ slots'[own].right = slots[own].right
    BY <2>1, <2>2 DEF TablesOK, SlotRows
  <2>4. \A j \in opened' : SlotOf[j] # NoSlot => SlotOf[j] \in Slots /\ slots[SlotOf[j]].status # "absent"
    BY <2>1, <2>2, RulesAssumption DEF SlotsFilled, RoomsOK
  <2>. HIDE DEF own
  <2>. QED
    BY <2>1, <2>2, <2>3, <2>4 DEF SlotsFilled
<1>8. ASSUME NEW t \in Tx, CheckReference(t) \/ LockParticipant(t) \/ LockSlot(t) PROVE SlotsFilled'
  BY <1>4, <1>8 DEF CheckReference, LockParticipant, LockSlot, readVars, roomVars
<1>9. ASSUME NEW t \in Tx, NEW k \in Keys, InsertMatch(t, k) PROVE SlotsFilled'
  BY <1>4, <1>9 DEF InsertMatch, readVars
<1>10. ASSUME NEW t \in Tx, NEW u \in Joiners, BeginJoin(t, u) PROVE SlotsFilled'
  BY <1>4, <1>10 DEF BeginJoin, readVars, roomVars
<1>11. ASSUME NEW t \in Tx, NEW u \in Targets, BeginBan(t, u) PROVE SlotsFilled'
  BY <1>4, <1>11 DEF BeginBan, readVars, roomVars
<1>12. ASSUME NEW k \in Keys, FindExisting(k) PROVE SlotsFilled'
  BY <1>4, <1>12 DEF FindExisting, readVars
<1>13. ASSUME UNCHANGED vars PROVE SlotsFilled'
  BY <1>4, <1>13 DEF vars, readVars, roomVars
<1>. QED
  BY <1>2, <1>3, <1>5, <1>6, <1>7, <1>8, <1>9, <1>10, <1>11, <1>12, <1>13 DEF Next, Uncommitted

-----------------------------------------------------------------------------
(* Ratings and payments.                                                   *)

\* A chain of rows goes on.
LEMMA ChainGrows ==
  ASSUME NEW rows \in Seq(Rows), NEW row \in Rows, NEW rating \in Nat,
         \A i \in DOMAIN rows : rows[i].before = IF i = 1 THEN InitialRating ELSE rows[i - 1].after,
         rating = IF rows = <<>> THEN InitialRating ELSE rows[Len(rows)].after,
         row.before = rating
  PROVE  LET more == Append(rows, row) IN
         /\ \A i \in DOMAIN more : more[i].before = IF i = 1 THEN InitialRating ELSE more[i - 1].after
         /\ more # <<>> /\ more[Len(more)] = row /\ Len(more) = Len(rows) + 1
<1>. DEFINE more == Append(rows, row)
<1>1. /\ Len(rows) \in Nat /\ Len(more) = Len(rows) + 1 /\ more[Len(rows) + 1] = row
      /\ \A i \in 1..Len(rows) : more[i] = rows[i]
      /\ DOMAIN more = 1..(Len(rows) + 1) /\ DOMAIN rows = 1..Len(rows)
      /\ rows = <<>> <=> Len(rows) = 0
  OBVIOUS
<1>. HIDE DEF more
<1>2. ASSUME NEW i \in DOMAIN more
      PROVE  more[i].before = IF i = 1 THEN InitialRating ELSE more[i - 1].after
  <2>1. CASE i \in 1..Len(rows)
    <3>1. i = 1 \/ i - 1 \in 1..Len(rows)
      BY <2>1
    <3>. QED
      BY <1>1, <2>1, <3>1
  <2>2. CASE i = Len(rows) + 1
    <3>1. CASE Len(rows) = 0
      BY <1>1, <2>2, <3>1
    <3>2. CASE Len(rows) # 0
      <4>1. i - 1 = Len(rows) /\ Len(rows) \in 1..Len(rows) /\ i # 1
        BY <1>1, <2>2, <3>2
      <4>. QED
        BY <1>1, <2>2, <3>2, <4>1
    <3>. QED
      BY <3>1, <3>2
  <2>. QED
    BY <1>1, <2>1, <2>2
<1>3. more # <<>>
  BY <1>1 DEF more
<1>. QED
  BY <1>1, <1>2, <1>3 DEF more

LEMMA RatingsStay == ASSUME Inv, [Next]_vars PROVE RatingsFollowHistory' /\ EachResultPaysOnce'
<1>. USE DEF Inv
<1>1. ASSUME NEW t \in Tx, CommitFinalize(t) PROVE RatingsFollowHistory'
  <2> SUFFICES ASSUME NEW u \in Users
               PROVE  LET rows == history'[u] IN
                      /\ \A i \in DOMAIN rows :
                           rows[i].before = IF i = 1 THEN InitialRating ELSE rows[i - 1].after
                      /\ accounts'[u].rating = IF rows = <<>> THEN InitialRating ELSE rows[Len(rows)].after
                      /\ accounts'[u].wins + accounts'[u].losses = Len(rows)
    BY DEF RatingsFollowHistory
  <2>1. CASE u \in PlayersIn(t)
    <3>. DEFINE rows == history[u]
                row == HistoryRow(t, u)
    <3>1. /\ row \in Rows /\ row.before = accounts[u].rating
          /\ history'[u] = Append(rows, row)
          /\ accounts'[u].rating = row.after
          /\ accounts'[u].wins + accounts'[u].losses = accounts[u].wins + accounts[u].losses + 1
      BY <1>1, <2>1, CommitIs
    <3>2. rows \in Seq(Rows) /\ accounts[u].rating \in Nat
      BY DEF TablesOK
    <3>3. /\ \A i \in DOMAIN rows : rows[i].before = IF i = 1 THEN InitialRating ELSE rows[i - 1].after
          /\ accounts[u].rating = IF rows = <<>> THEN InitialRating ELSE rows[Len(rows)].after
          /\ accounts[u].wins + accounts[u].losses = Len(rows)
      BY DEF RatingsFollowHistory
    <3>. HIDE DEF rows, row
    <3>4. LET more == Append(rows, row) IN
          /\ \A i \in DOMAIN more : more[i].before = IF i = 1 THEN InitialRating ELSE more[i - 1].after
          /\ more # <<>> /\ more[Len(more)] = row /\ Len(more) = Len(rows) + 1
      BY <3>1, <3>2, <3>3, ChainGrows
    <3>. QED
      BY <3>1, <3>3, <3>4
  <2>2. CASE u \notin PlayersIn(t)
    <3>1. accounts'[u] = accounts[u] /\ history'[u] = history[u]
      BY <1>1, <2>2, CommitIs
    <3>2. LET rows == history[u] IN
          /\ \A i \in DOMAIN rows :
               rows[i].before = IF i = 1 THEN InitialRating ELSE rows[i - 1].after
          /\ accounts[u].rating = IF rows = <<>> THEN InitialRating ELSE rows[Len(rows)].after
          /\ accounts[u].wins + accounts[u].losses = Len(rows)
      BY DEF RatingsFollowHistory
    <3>. QED
      BY <3>1, <3>2
  <2>. QED
    BY <2>1, <2>2
<1>2. ASSUME NEW t \in Tx, CommitFinalize(t) PROVE EachResultPaysOnce'
  <2>. DEFINE k == tx[t].key
  <2>1. /\ Is(t, "finalize") /\ k \in Keys /\ matches[k] = NoMatch
        /\ PlayersIn(t) = {tx[t].winner, tx[t].loser} \ {NoUser}
    BY <1>2, FinalizeIs DEF CommitFinalize, AccountsLocked, OneAttempt
  <2>2. /\ matches'[k].winner = tx[t].winner /\ matches'[k].loser = tx[t].loser
        /\ \A j \in Keys \ {k} : matches'[j] = matches[j]
    BY <1>2, <2>1 DEF CommitFinalize, TablesOK
  <2>3. \A u \in Users : \A i \in DOMAIN history[u] : history[u][i].key # k
    <3>1. matches[k].winner = NoUser /\ matches[k].loser = NoUser
      BY <2>1 DEF NoMatch
    <3>. HIDE DEF k
    <3>. QED
      BY <2>1, <3>1, Nobody DEF EachResultPaysOnce
  <2> SUFFICES ASSUME NEW u \in Users
               PROVE  /\ \A i, j \in DOMAIN history'[u] : history'[u][i].key = history'[u][j].key => i = j
                      /\ \A j \in Keys : u \in {matches'[j].winner, matches'[j].loser}
                                         <=> \E i \in DOMAIN history'[u] : history'[u][i].key = j
    BY DEF EachResultPaysOnce
  <2>4. u \in {matches'[k].winner, matches'[k].loser} <=> u \in PlayersIn(t)
    BY <2>1, <2>2, Nobody
  <2>. DEFINE rows == history[u]
              row == HistoryRow(t, u)
              more == history'[u]
  <2>5. rows \in Seq(Rows)
    BY DEF TablesOK
  <2>6. /\ \A i, j \in DOMAIN rows : rows[i].key = rows[j].key => i = j
        /\ \A j \in Keys : u \in {matches[j].winner, matches[j].loser}
                           <=> \E i \in DOMAIN rows : rows[i].key = j
    BY DEF EachResultPaysOnce
  <2>7. CASE u \in PlayersIn(t)
    <3>1. row \in Rows /\ row.key = k /\ more = Append(rows, row)
      BY <1>2, <2>7, CommitIs
    <3>. HIDE DEF k, rows, row, more
    <3>2. /\ DOMAIN more = 1..(Len(rows) + 1) /\ DOMAIN rows = 1..Len(rows) /\ Len(rows) \in Nat
          /\ \A i \in 1..Len(rows) : more[i] = rows[i]
          /\ more[Len(rows) + 1] = row
      BY <2>5, <3>1
    <3>3. \A i \in DOMAIN rows : i \in DOMAIN more /\ more[i] = rows[i] /\ more[i].key # k
      BY <2>3, <3>2 DEF rows
    <3>4. \A i \in DOMAIN more : i \in DOMAIN rows \/ i = Len(rows) + 1
      BY <3>2
    <3>5. Len(rows) + 1 \in DOMAIN more /\ more[Len(rows) + 1].key = k
      BY <3>1, <3>2
    <3>6. \A i, j \in DOMAIN more : more[i].key = more[j].key => i = j
      BY <2>6, <3>3, <3>4, <3>5
    <3>7. ASSUME NEW j \in Keys
          PROVE  u \in {matches'[j].winner, matches'[j].loser} <=> \E i \in DOMAIN more : more[i].key = j
      <4>1. CASE j = k
        BY <2>4, <2>7, <3>5, <4>1
      <4>2. CASE j # k
        BY <2>2, <2>6, <3>3, <3>4, <3>5, <4>2
      <4>. QED
        BY <4>1, <4>2
    <3>. QED
      BY <3>6, <3>7 DEF more
  <2>8. CASE u \notin PlayersIn(t)
    <3>1. more = rows
      BY <1>2, <2>8, CommitIs
    <3>2. ~(\E i \in DOMAIN rows : rows[i].key = k)
      BY <2>3
    <3>. HIDE DEF k, rows, more
    <3>3. \A j \in Keys : u \in {matches'[j].winner, matches'[j].loser} <=> \E i \in DOMAIN rows : rows[i].key = j
      BY <2>2, <2>4, <2>6, <2>8, <3>2
    <3>. QED
      BY <2>6, <3>1, <3>3 DEF more
  <2>. QED
    BY <2>7, <2>8
<1>3. ASSUME UNCHANGED <<accounts, history, matches>> PROVE RatingsFollowHistory' /\ EachResultPaysOnce'
  BY <1>3 DEF RatingsFollowHistory, EachResultPaysOnce
<1>4. CASE \E t \in Tx : CommitFinalize(t)
  BY <1>1, <1>2, <1>4
<1>5. CASE ~\E t \in Tx : CommitFinalize(t)
  <2>1. UNCHANGED <<accounts, history, matches>>
    BY <1>5, StepsAre, InsertIs DEF EndsOnly, Begins, LocksOnly, LockParticipant, tables
  <2>. QED
    BY <1>3, <2>1
<1>. QED
  BY <1>4, <1>5

-----------------------------------------------------------------------------
THEOREM ResultInvariance == Spec => []Inv
<1>1. Inv /\ [Next]_vars => Inv'
  <2> SUFFICES ASSUME Inv, [Next]_vars PROVE Inv'
    OBVIOUS
  <2>1. RoomsOK' /\ TransactionsOK'
    BY RoomsStay, TransactionsStay DEF Inv
  <2>. QED
    BY <2>1, TablesStay, LocksReadStays, AttemptsStay, SlotsStayFilled, RatingsStay DEF Inv
<1>. QED
  BY <1>1, InitiallyHolds, PTL DEF Spec

\* The tables and what the connections keep of them stay well formed.
THEOREM TypesHold == Spec => []TypeOK
<1>1. Inv => TypeOK
  BY TypesAgree DEF Inv
<1>. QED
  BY <1>1, ResultInvariance, PTL

\* No update of a rating is lost, under any number of finalizations at once,
\* retries and aborts.
THEOREM RatingsFollowHistoryAlways == Spec => []RatingsFollowHistory
<1>1. Inv => RatingsFollowHistory
  BY DEF Inv
<1>. QED
  BY <1>1, ResultInvariance, PTL

\* Every recorded result has paid each of its players once.
THEOREM EachResultPaysOnceAlways == Spec => []EachResultPaysOnce
<1>1. Inv => EachResultPaysOnce
  BY DEF Inv
<1>. QED
  BY <1>1, ResultInvariance, PTL

\* Whoever has an answer finds the result recorded the answer was about.
THEOREM AnswersAreRecordedAlways == Spec => []AnswersAreRecorded
<1>1. Inv => AnswersAreRecorded
  BY DEF Inv
<1>. QED
  BY <1>1, ResultInvariance, PTL

-----------------------------------------------------------------------------
(* The tournament: the bracket says what the results say, and the         *)
(* transactions implement ResultLedger.                                    *)

\* The four entrants are four, and meet as the seeds say.
Seeded ==
  /\ \A i, j \in DOMAIN entries : entries[i] = entries[j] => i = j
  /\ Len(entries) = Capacity =>
       /\ slots["semifinal 1"].status # "absent" /\ slots["semifinal 2"].status # "absent"
       /\ slots["semifinal 1"].left = entries[1] /\ slots["semifinal 1"].right = entries[4]
       /\ slots["semifinal 2"].left = entries[2] /\ slots["semifinal 2"].right = entries[3]

\* A slot has a winner, one of its two players, once it has a result.
Decisive ==
  \A s \in Slots :
    /\ slots[s].status = "absent" => slots[s] = AbsentSlot
    /\ slots[s].winner \in {NoUser, slots[s].left, slots[s].right}
    /\ slots[s].status = "finished" <=> slots[s].winner # NoUser
    /\ slots[s].match # NoKey <=> slots[s].winner # NoUser

FinalSeated ==
  /\ slots["final"].status # "absent" <=> \A s \in Semifinals : slots[s].winner # NoUser
  /\ slots["final"].status # "absent" =>
       /\ slots["final"].left = slots["semifinal 1"].winner
       /\ slots["final"].right = slots["semifinal 2"].winner

CupAgrees ==
  /\ cup.status = "finished" <=> slots["final"].winner # NoUser
  /\ cup.winner = slots["final"].winner
  /\ cup.status = "open" <=> Len(entries) < Capacity

SlotsRecorded ==
  \A k \in Keys : SlotOf[k] # NoSlot /\ matches[k] # NoMatch =>
    slots[SlotOf[k]].match = k /\ slots[SlotOf[k]].winner = matches[k].winner

\* The tables of the tournament.
Bracketed == Seeded /\ Decisive /\ FinalSeated /\ CupAgrees /\ SlotsRecorded

\* Two different users play for a result.
TwoPlay ==
  \A k \in Keys : outcome[k] # NoMatch =>
    /\ outcome[k].winner \in Users /\ outcome[k].loser \in Users
    /\ outcome[k].winner # outcome[k].loser

\* What a transaction has read under the lock on the cup still holds.
CupHeld ==
  \A t \in Tx :
    /\ Is(t, "join") => cupLock = t
    /\ HasRead(t) => /\ cupLock = t /\ Is(t, "finalize")
                     /\ \A s \in Semifinals : semis[t][s] = slots[s].winner

BracketInv == Bracketed /\ TwoPlay /\ CupHeld

\* A slot two players are waiting for.
Waiting(slot, left, right) ==
  /\ slot.status = "ready" /\ slot.left = left /\ slot.right = right
  /\ slot.winner = NoUser /\ slot.match = NoKey

LEMMA WaitingIs == ASSUME NEW a, NEW b PROVE Waiting(ReadySlot(a, b), a, b)
BY ReadySlotIs DEF Waiting

LEMMA SlotNames ==
  /\ Slots = {"semifinal 1", "semifinal 2", "final"} /\ Semifinals = {"semifinal 1", "semifinal 2"}
  /\ Semifinals \subseteq Slots /\ "final" \notin Semifinals /\ Capacity = 4
  /\ AbsentSlot.status = "absent" /\ AbsentSlot.winner = NoUser /\ AbsentSlot.match = NoKey
  /\ AbsentSlot.left = NoUser /\ AbsentSlot.right = NoUser
BY DEF Slots, Semifinals, Capacity, AbsentSlot

-----------------------------------------------------------------------------
THEOREM BracketInitially == Init => BracketInv
<1> SUFFICES ASSUME Init PROVE BracketInv
  OBVIOUS
<1>1. /\ \A i, j \in DOMAIN entries : entries[i] = entries[j] => i = j
      /\ Len(entries) \in Nat /\ Len(entries) < Capacity
  BY RulesAssumption DEF Init
<1>2. \A s \in Slots : slots[s] = AbsentSlot
  BY DEF Init
<1>3. Seeded
  <2>1. Len(entries) # Capacity
    BY <1>1 DEF Capacity
  <2>. QED
    BY <1>1, <2>1 DEF Seeded
<1>4. Decisive
  BY <1>2, SlotNames DEF Decisive
<1>5. FinalSeated
  BY <1>2, SlotNames DEF FinalSeated
<1>6. cup.status = "open" /\ cup.winner = NoUser
  BY DEF Init
<1>7. CupAgrees
  BY <1>1, <1>2, <1>6, SlotNames DEF CupAgrees
<1>8. SlotsRecorded /\ TwoPlay
  BY DEF Init, SlotsRecorded, TwoPlay
<1>9. CupHeld
  BY DEF Init, CupHeld, Is, Idle, HasRead
<1>. QED
  BY <1>3, <1>4, <1>5, <1>7, <1>8, <1>9 DEF BracketInv, Bracketed

-----------------------------------------------------------------------------
(* Commits.                                                                *)

\* A finalization that commits plays for nothing, or decides its slot between
\* the slot's players, with the semifinals as they are.
LEMMA CommitDecides ==
  ASSUME Inv, BracketInv, NEW t \in Tx, CommitFinalize(t), SlotFor(t) # NoSlot
  PROVE  /\ SlotFor(t) \in Slots /\ HasRead(t) /\ cupLock = t
         /\ slots[SlotFor(t)].status # "absent" /\ slots[SlotFor(t)].winner = NoUser
         /\ tx[t].key \in Keys
         /\ tx[t].winner \in Users /\ tx[t].loser \in Users /\ tx[t].winner # tx[t].loser
         /\ tx[t].winner \in {slots[SlotFor(t)].left, slots[SlotFor(t)].right}
         /\ Participants(tx[t].winner, tx[t].loser) \subseteq {slots[SlotFor(t)].left, slots[SlotFor(t)].right}
         /\ slots[SlotFor(t)].match = NoKey
<1>. USE DEF Inv, BracketInv
<1>1. Is(t, "finalize") /\ SlotReady(t)
  BY DEF CommitFinalize, AccountsLocked
<1>2. tx[t].key \in Keys /\ PlayersIn(t) # {}
      /\ PlayersIn(t) = {tx[t].winner, tx[t].loser} \ {NoUser}
  BY <1>1, FinalizeIs DEF OutcomesStand
<1>3. SlotFor(t) \in Slots
  BY <1>2, RulesAssumption DEF SlotFor
<1>4. HasRead(t) /\ SlotTakes(slots[SlotFor(t)], tx[t].winner, tx[t].loser)
  BY <1>1 DEF SlotReady
<1>5. cupLock = t
  BY <1>4 DEF CupHeld
<1>6. slots[SlotFor(t)].winner = NoUser
  BY <1>3, <1>4 DEF SlotTakes, Bracketed, Decisive
<1>7. outcome[tx[t].key] = [winner |-> tx[t].winner, loser |-> tx[t].loser]
  BY <1>1 DEF OneAttempt
<1>8. outcome[tx[t].key] # NoMatch
  BY <1>2, <1>7 DEF NoMatch
<1>9. tx[t].winner \in Users /\ tx[t].loser \in Users /\ tx[t].winner # tx[t].loser
  BY <1>2, <1>7, <1>8 DEF TwoPlay
<1>10. tx[t].winner \in {slots[SlotFor(t)].left, slots[SlotFor(t)].right}
  BY <1>4, <1>9, Nobody DEF SlotTakes, Participants
<1>. QED
  BY <1>2, <1>3, <1>4, <1>5, <1>6, <1>9, <1>10 DEF SlotTakes

\* The slots after it.
LEMMA CommitWrites ==
  ASSUME Inv, BracketInv, NEW t \in Tx, CommitFinalize(t), SlotFor(t) # NoSlot
  PROVE  LET own  == SlotFor(t)
             seat == [status |-> "finished", left |-> slots[own].left, right |-> slots[own].right,
                      winner |-> tx[t].winner, match |-> tx[t].key]
         IN /\ slots'[own] = seat
            /\ \A s \in Slots \ {own, "final"} : slots'[s] = slots[s]
            /\ own # "final" => /\ slots["final"] = AbsentSlot
                                /\ IF \A s \in Semifinals : slots'[s].winner # NoUser
                                   THEN Waiting(slots'["final"], slots'["semifinal 1"].winner,
                                                slots'["semifinal 2"].winner)
                                   ELSE slots'["final"] = AbsentSlot
            /\ DOMAIN slots' = Slots
<1>. USE DEF Inv, BracketInv
<1>. DEFINE own == SlotFor(t)
            seat == [status |-> "finished", left |-> slots[own].left, right |-> slots[own].right,
                     winner |-> tx[t].winner, match |-> tx[t].key]
            decided == [slots EXCEPT ![own] = Decided(@, tx[t].key, tx[t].winner)]
            f == ReadySlot(Finalists(t)["semifinal 1"], Finalists(t)["semifinal 2"])
<1>1. own \in Slots /\ HasRead(t) /\ tx[t].winner \in Users /\ slots[own].winner = NoUser
  BY CommitDecides
<1>2. slots' = IF SeatsFinal(t) /\ slots["final"].status = "absent"
               THEN [decided EXCEPT !["final"] = f] ELSE decided
  BY DEF CommitFinalize, SlotsWritten
<1>3. decided[own] = seat /\ \A s \in Slots \ {own} : decided[s] = slots[s]
  BY <1>1 DEF TablesOK, SlotRows, Decided
<1>4. DOMAIN decided = Slots
  BY DEF TablesOK
<1>5. CASE own = "final"
  <2>1. ~SeatsFinal(t)
    BY <1>5, SlotNames DEF SeatsFinal
  <2>. HIDE DEF decided, own, seat
  <2>. QED
    BY <1>2, <1>3, <1>4, <1>5, <2>1 DEF own, seat
<1>6. CASE own # "final"
  <2>1. own \in Semifinals
    BY <1>1, <1>6, SlotNames
  <2>2. slots["final"].status = "absent" /\ slots["final"] = AbsentSlot
    BY <1>1, <2>1, SlotNames DEF Bracketed, FinalSeated, Decisive
  <2>3. \A s \in Semifinals : semis[t][s] = slots[s].winner
    BY <1>1 DEF CupHeld
  <2>4. \A s \in Semifinals : Finalists(t)[s] = decided[s].winner
    <3>1. semis[t] \in [Semifinals -> Users \cup {NoUser, Unread}]
      BY DEF TransactionsOK
    <3>2. \A s \in Semifinals : Finalists(t)[s] = IF s = own THEN tx[t].winner ELSE semis[t][s]
      BY <3>1 DEF Finalists
    <3>3. decided[own].winner = tx[t].winner
      BY <1>3
    <3>4. \A s \in Semifinals \ {own} : decided[s].winner = slots[s].winner
      BY <1>3, SlotNames
    <3>. HIDE DEF decided, own, seat
    <3>. QED
      BY <2>3, <3>2, <3>3, <3>4
  <2>5. SeatsFinal(t) <=> \A s \in Semifinals : decided[s].winner # NoUser
    BY <1>1, <2>1, <2>4 DEF SeatsFinal
  <2>6. Waiting(f, Finalists(t)["semifinal 1"], Finalists(t)["semifinal 2"])
    BY WaitingIs
  <2>7. decided["final"] = AbsentSlot
    BY <1>3, <1>6, <2>2, SlotNames
  <2>. HIDE DEF decided, own, seat, f
  <2>8. \A s \in Slots \ {"final"} : slots'[s] = decided[s]
    BY <1>2, <1>4
  <2>9. slots'["final"] = IF \A s \in Semifinals : decided[s].winner # NoUser THEN f ELSE AbsentSlot
    BY <1>2, <1>4, <2>2, <2>5, <2>7, SlotNames
  <2>10. \A s \in Semifinals : slots'[s] = decided[s]
    BY <2>8, SlotNames
  <2>11. DOMAIN slots' = Slots
    BY <1>2, <1>4
  <2>12. IF \A s \in Semifinals : slots'[s].winner # NoUser
         THEN Waiting(slots'["final"], slots'["semifinal 1"].winner, slots'["semifinal 2"].winner)
         ELSE slots'["final"] = AbsentSlot
    <3>1. /\ Finalists(t)["semifinal 1"] = slots'["semifinal 1"].winner
          /\ Finalists(t)["semifinal 2"] = slots'["semifinal 2"].winner
      BY <2>4, <2>10, SlotNames
    <3>2. CASE \A s \in Semifinals : slots'[s].winner # NoUser
      <4>1. slots'["final"] = f
        BY <2>9, <2>10, <3>2
      <4>. QED
        BY <2>6, <3>1, <3>2, <4>1
    <3>3. CASE ~(\A s \in Semifinals : slots'[s].winner # NoUser)
      BY <2>9, <2>10, <3>3
    <3>. QED
      BY <3>2, <3>3
  <2>. QED
    BY <1>1, <1>3, <1>6, <2>2, <2>8, <2>11, <2>12 DEF own, seat
<1>. QED
  BY <1>5, <1>6

\* The bracket after the fourth entrant.
LEMMA JoinWrites ==
  ASSUME Inv, BracketInv, NEW t \in Tx, CommitJoin(t)
  PROVE  /\ tx[t].user \in Users /\ ~Entered(tx[t].user)
         /\ entries' = Append(entries, tx[t].user) /\ Len(entries') = Len(entries) + 1
         /\ Len(entries) < Capacity /\ Len(entries) \in Nat
         /\ \A i \in DOMAIN entries : entries'[i] = entries[i]
         /\ entries'[Len(entries) + 1] = tx[t].user
         /\ DOMAIN entries' = 1..(Len(entries) + 1) /\ DOMAIN entries = 1..Len(entries)
         /\ \A s \in Slots : slots[s] = AbsentSlot
         /\ IF Len(entries') = Capacity
            THEN slots' = Bracket(entries') /\ cup' = [cup EXCEPT !.status = "running"]
            ELSE UNCHANGED <<slots, cup>>
<1>. USE DEF Inv, BracketInv
<1>1. tx[t].user \in Users
  <2>1. tx[t] \in Commands /\ tx[t].op = "join"
    BY DEF CommitJoin, Is, TransactionsOK
  <2>. QED
    BY <2>1 DEF Commands, Idle
<1>2. Len(entries) < Capacity /\ ~Entered(tx[t].user)
      /\ entries' = Append(entries, tx[t].user) /\ entries \in Seq(Users)
  BY DEF CommitJoin, Admits, TablesOK
<1>3. /\ Len(entries') = Len(entries) + 1 /\ Len(entries) \in Nat
      /\ \A i \in DOMAIN entries : entries'[i] = entries[i]
      /\ entries'[Len(entries) + 1] = tx[t].user
      /\ DOMAIN entries' = 1..(Len(entries) + 1) /\ DOMAIN entries = 1..Len(entries)
  BY <1>1, <1>2
<1>4. \A s \in Slots : slots[s] = AbsentSlot
  BY <1>2 DEF SlotsFilled, Bracketed, Decisive
<1>5. IF Len(entries') = Capacity
      THEN slots' = Bracket(entries') /\ cup' = [cup EXCEPT !.status = "running"]
      ELSE UNCHANGED <<slots, cup>>
  BY DEF CommitJoin
<1>. QED
  BY <1>1, <1>2, <1>3, <1>4, <1>5

LEMMA BracketIs ==
  ASSUME NEW seeds
  PROVE  /\ Waiting(Bracket(seeds)["semifinal 1"], seeds[1], seeds[4])
         /\ Waiting(Bracket(seeds)["semifinal 2"], seeds[2], seeds[3])
         /\ Bracket(seeds)["final"] = AbsentSlot
         /\ DOMAIN Bracket(seeds) = Slots
<1>1. /\ Bracket(seeds)["semifinal 1"] = ReadySlot(seeds[1], seeds[4])
      /\ Bracket(seeds)["semifinal 2"] = ReadySlot(seeds[2], seeds[3])
      /\ Bracket(seeds)["final"] = AbsentSlot
      /\ DOMAIN Bracket(seeds) = Slots
  BY SlotNames DEF Bracket
<1>. QED
  BY <1>1, WaitingIs

\* The four seats are of four users.
LEMMA FourPlay ==
  ASSUME Inv, BracketInv, Len(entries) = Capacity
  PROVE  /\ slots["semifinal 1"].left # slots["semifinal 1"].right
         /\ slots["semifinal 2"].left # slots["semifinal 2"].right
         /\ {slots["semifinal 1"].left, slots["semifinal 1"].right}
              \cap {slots["semifinal 2"].left, slots["semifinal 2"].right} = {}
         /\ \A s \in Semifinals : slots[s].left \in Users /\ slots[s].right \in Users
<1>. USE DEF Inv, BracketInv
<1>1. DOMAIN entries = {1, 2, 3, 4}
  <2>1. entries \in Seq(Users) /\ Len(entries) = 4
    BY SlotNames DEF TablesOK
  <2>. QED
    BY <2>1
<1>2. \A i, j \in {1, 2, 3, 4} : i # j => entries[i] # entries[j]
  BY <1>1 DEF Bracketed, Seeded
<1>3. /\ entries[1] # entries[4] /\ entries[2] # entries[3]
      /\ entries[1] # entries[2] /\ entries[1] # entries[3]
      /\ entries[4] # entries[2] /\ entries[4] # entries[3]
  BY <1>2
<1>4. /\ slots["semifinal 1"].left = entries[1] /\ slots["semifinal 1"].right = entries[4]
      /\ slots["semifinal 2"].left = entries[2] /\ slots["semifinal 2"].right = entries[3]
      /\ \A s \in Semifinals : slots[s].status # "absent"
  BY SlotNames DEF Bracketed, Seeded
<1>5. \A s \in Semifinals : slots[s].left \in Users /\ slots[s].right \in Users
  BY <1>4, SlotNames DEF SlotsFilled
<1>. QED
  BY <1>3, <1>4, <1>5

-----------------------------------------------------------------------------
LEMMA CommitBrackets ==
  ASSUME Inv, BracketInv, NEW t \in Tx, CommitFinalize(t)
  PROVE  Bracketed'
<1>. USE DEF Inv, BracketInv
<1>0. entries' = entries
  BY DEF CommitFinalize
<1>1. CASE SlotFor(t) = NoSlot
  <2>1. UNCHANGED <<slots, cup, entries>>
    BY <1>0, <1>1 DEF CommitFinalize
  <2>2. matches' = [matches EXCEPT ![tx[t].key] = [winner |-> tx[t].winner, loser |-> tx[t].loser]]
    BY DEF CommitFinalize
  <2>3. \A k \in Keys : SlotOf[k] # NoSlot => matches'[k] = matches[k]
    BY <1>1, <2>2 DEF SlotFor, TablesOK
  <2>4. SlotsRecorded'
    BY <2>1, <2>3 DEF Bracketed, SlotsRecorded
  <2>5. Seeded' /\ Decisive' /\ FinalSeated' /\ CupAgrees'
    BY <2>1 DEF Bracketed, Seeded, Decisive, FinalSeated, CupAgrees
  <2>. QED
    BY <2>4, <2>5 DEF Bracketed
<1>2. CASE SlotFor(t) # NoSlot
  <2>. DEFINE own == SlotFor(t)
              w == tx[t].winner
              k == tx[t].key
              seat == [status |-> "finished", left |-> slots[own].left, right |-> slots[own].right,
                       winner |-> w, match |-> k]
  <2>1. /\ own \in Slots /\ slots[own].status # "absent" /\ slots[own].winner = NoUser
        /\ slots[own].match = NoKey
        /\ w \in Users /\ w \in {slots[own].left, slots[own].right} /\ k \in Keys
    BY <1>2, CommitDecides
  <2>2. /\ slots'[own] = seat
        /\ \A s \in Slots \ {own, "final"} : slots'[s] = slots[s]
        /\ own # "final" => /\ slots["final"] = AbsentSlot
                            /\ IF \A s \in Semifinals : slots'[s].winner # NoUser
                               THEN Waiting(slots'["final"], slots'["semifinal 1"].winner,
                                            slots'["semifinal 2"].winner)
                               ELSE slots'["final"] = AbsentSlot
    BY <1>2, CommitWrites
  <2>3. /\ seat.status = "finished" /\ seat.left = slots[own].left /\ seat.right = slots[own].right
        /\ seat.winner = w /\ seat.match = k
    OBVIOUS
  <2>4. cup' = IF own = "final" THEN [status |-> "finished", winner |-> w] ELSE cup
    BY <1>2 DEF CommitFinalize, CupAfter
  <2>5. /\ matches'[k].winner = w
        /\ \A j \in Keys \ {k} : matches'[j] = matches[j]
        /\ k \in Keys /\ k # NoKey /\ SlotOf[k] = own /\ w # NoUser
    BY <2>1, Nobody, RulesAssumption DEF CommitFinalize, TablesOK, SlotFor
  <2>. HIDE DEF own, seat, w, k
  <2>6. Seeded'
    <3>1. ASSUME NEW s \in {"semifinal 1", "semifinal 2"}
          PROVE  /\ slots[s].status # "absent" => slots'[s].status # "absent"
                 /\ slots'[s].left = slots[s].left /\ slots'[s].right = slots[s].right
      <4>1. s \in Slots /\ s # "final"
        BY SlotNames
      <4>2. CASE s = own
        BY <2>2, <2>3, <4>2
      <4>3. CASE s # own
        BY <2>2, <4>1, <4>3
      <4>. QED
        BY <4>2, <4>3
    <3>2. entries' = entries /\ Seeded
      BY <1>0 DEF Bracketed
    <3>. QED
      BY <3>1, <3>2 DEF Seeded
  <2>7. Decisive'
    <3> SUFFICES ASSUME NEW s \in Slots
                 PROVE  /\ slots'[s].status = "absent" => slots'[s] = AbsentSlot
                        /\ slots'[s].winner \in {NoUser, slots'[s].left, slots'[s].right}
                        /\ slots'[s].status = "finished" <=> slots'[s].winner # NoUser
                        /\ slots'[s].match # NoKey <=> slots'[s].winner # NoUser
      BY DEF Decisive
    <3>1. CASE s = own
      BY <2>1, <2>2, <2>3, <2>5, <3>1
    <3>2. CASE s # own /\ s # "final"
      BY <2>2, <3>2 DEF Bracketed, Decisive
    <3>3. CASE s # own /\ s = "final"
      <4>1. CASE slots'["final"] = AbsentSlot
        BY <3>3, <4>1, SlotNames
      <4>2. CASE Waiting(slots'["final"], slots'["semifinal 1"].winner, slots'["semifinal 2"].winner)
        BY <3>3, <4>2 DEF Waiting
      <4>. QED
        BY <2>2, <3>3, <4>1, <4>2
    <3>. QED
      BY <3>1, <3>2, <3>3
  <2>8. FinalSeated'
    <3>1. CASE own = "final"
      <4>1. \A s \in Semifinals : slots'[s] = slots[s]
        BY <2>2, <3>1, SlotNames
      <4>. QED
        BY <2>1, <2>2, <2>3, <3>1, <4>1, SlotNames DEF Bracketed, FinalSeated
    <3>2. CASE own # "final"
      <4>1. CASE \A s \in Semifinals : slots'[s].winner # NoUser
        <5>1. /\ slots'["final"].status = "ready"
              /\ slots'["final"].left = slots'["semifinal 1"].winner
              /\ slots'["final"].right = slots'["semifinal 2"].winner
          BY <2>2, <3>2, <4>1 DEF Waiting
        <5>. QED
          BY <4>1, <5>1 DEF FinalSeated
      <4>2. CASE ~(\A s \in Semifinals : slots'[s].winner # NoUser)
        <5>1. slots'["final"].status = "absent"
          BY <2>2, <3>2, <4>2, SlotNames
        <5>. QED
          BY <4>2, <5>1 DEF FinalSeated
      <4>. QED
        BY <4>1, <4>2
    <3>. QED
      BY <3>1, <3>2
  <2>9. CupAgrees'
    <3>1. CASE own = "final"
      <4>1. slots'["final"].winner = w /\ cup'.status = "finished" /\ cup'.winner = w
        BY <2>2, <2>3, <2>4, <3>1
      <4>2. ~(Len(entries) < Capacity)
        BY <2>1 DEF SlotsFilled
      <4>. QED
        BY <1>0, <2>5, <4>1, <4>2 DEF CupAgrees
    <3>2. CASE own # "final"
      <4>1. slots["final"].winner = NoUser /\ slots'["final"].winner = NoUser /\ cup' = cup
        BY <2>2, <2>4, <3>2, SlotNames DEF Waiting
      <4>. QED
        BY <1>0, <4>1 DEF Bracketed, CupAgrees
    <3>. QED
      BY <3>1, <3>2
  <2>10. SlotsRecorded'
    <3> SUFFICES ASSUME NEW j \in Keys, SlotOf[j] # NoSlot, matches'[j] # NoMatch
                 PROVE  slots'[SlotOf[j]].match = j /\ slots'[SlotOf[j]].winner = matches'[j].winner
      BY DEF SlotsRecorded
    <3>1. CASE j = k
      BY <2>2, <2>3, <2>5, <3>1
    <3>2. CASE j # k
      <4>1. /\ matches'[j] = matches[j] /\ SlotOf[j] \in Slots /\ j # NoKey
            /\ slots[SlotOf[j]].match = j /\ slots[SlotOf[j]].winner = matches[j].winner
        BY <2>5, <3>2, RulesAssumption DEF Bracketed, SlotsRecorded
      <4>2. SlotOf[j] # own
        BY <2>1, <4>1
      <4>3. SlotOf[j] # "final" \/ own = "final"
        BY <2>2, <4>1, SlotNames
      <4>. QED
        BY <2>2, <4>1, <4>2, <4>3
    <3>. QED
      BY <3>1, <3>2
  <2>. QED
    BY <2>6, <2>7, <2>8, <2>9, <2>10 DEF Bracketed
<1>. QED
  BY <1>1, <1>2

LEMMA JoinBrackets ==
  ASSUME Inv, BracketInv, NEW t \in Tx, CommitJoin(t)
  PROVE  Bracketed'
<1>. USE DEF Inv, BracketInv
<1>1. /\ \A i, j \in DOMAIN entries' : entries'[i] = entries'[j] => i = j
  <2>. DEFINE n == Len(entries)
              e == entries'
  <2>1. /\ n \in Nat /\ DOMAIN e = 1..(n + 1) /\ DOMAIN entries = 1..n
        /\ \A i \in DOMAIN entries : e[i] = entries[i] /\ entries[i] # e[n + 1]
    BY JoinWrites DEF Entered
  <2>2. \A i, j \in DOMAIN entries : entries[i] = entries[j] => i = j
    BY DEF Bracketed, Seeded
  <2>. HIDE DEF n, e
  <2>3. \A i \in DOMAIN e : i \in DOMAIN entries \/ i = n + 1
    BY <2>1
  <2>4. \A i, j \in DOMAIN e : e[i] = e[j] => i = j
    BY <2>1, <2>2, <2>3
  <2>. QED
    BY <2>4 DEF e
<1>2. SlotsRecorded'
  <2>1. \A k \in Keys : SlotOf[k] # NoSlot => matches[k] = NoMatch
    <3> SUFFICES ASSUME NEW k \in Keys, SlotOf[k] # NoSlot, matches[k] # NoMatch PROVE FALSE
      OBVIOUS
    <3>1. slots[SlotOf[k]].match = k /\ SlotOf[k] \in Slots /\ k # NoKey
      BY RulesAssumption DEF Bracketed, SlotsRecorded
    <3>2. slots[SlotOf[k]] = AbsentSlot
      BY <3>1, JoinWrites
    <3>. QED
      BY <3>1, <3>2, SlotNames
  <2>2. matches' = matches
    BY DEF CommitJoin
  <2>. QED
    BY <2>1, <2>2 DEF SlotsRecorded
<1>3. CASE Len(entries') = Capacity
  <2>1. slots' = Bracket(entries') /\ cup' = [cup EXCEPT !.status = "running"]
    BY <1>3, JoinWrites
  <2>2. /\ Waiting(slots'["semifinal 1"], entries'[1], entries'[4])
        /\ Waiting(slots'["semifinal 2"], entries'[2], entries'[3])
        /\ slots'["final"] = AbsentSlot
    BY <2>1, BracketIs
  <2>3. Seeded'
    BY <1>1, <2>2 DEF Seeded, Waiting
  <2>4. Decisive'
    <3> SUFFICES ASSUME NEW s \in Slots
                 PROVE  /\ slots'[s].status = "absent" => slots'[s] = AbsentSlot
                        /\ slots'[s].winner \in {NoUser, slots'[s].left, slots'[s].right}
                        /\ slots'[s].status = "finished" <=> slots'[s].winner # NoUser
                        /\ slots'[s].match # NoKey <=> slots'[s].winner # NoUser
      BY DEF Decisive
    <3>1. CASE s = "final"
      BY <2>2, <3>1, SlotNames
    <3>2. CASE s = "semifinal 1"
      BY <2>2, <3>2 DEF Waiting
    <3>3. CASE s = "semifinal 2"
      BY <2>2, <3>3 DEF Waiting
    <3>. QED
      BY <3>1, <3>2, <3>3, SlotNames
  <2>5. FinalSeated'
    BY <2>2, SlotNames DEF FinalSeated, Waiting
  <2>6. cup'.status = "running" /\ cup'.winner = cup.winner
    BY <2>1 DEF TablesOK
  <2>7. cup.winner = NoUser
    BY JoinWrites, SlotNames DEF Bracketed, CupAgrees
  <2>8. CupAgrees'
    <3>1. slots'["final"].winner = NoUser /\ ~(Len(entries') < Capacity)
      <4>1. ~(Len(entries') < Capacity)
        BY <1>3 DEF Capacity
      <4>2. slots'["final"].winner = NoUser
        BY <2>2, SlotNames
      <4>. QED
        BY <4>1, <4>2
    <3>. QED
      BY <2>6, <2>7, <3>1 DEF CupAgrees
  <2>. QED
    BY <1>2, <2>3, <2>4, <2>5, <2>8 DEF Bracketed
<1>4. CASE Len(entries') # Capacity
  <2>1. UNCHANGED <<slots, cup>>
    BY <1>4, JoinWrites
  <2>2. Seeded'
    BY <1>1, <1>4 DEF Seeded
  <2>3. Decisive' /\ FinalSeated'
    BY <2>1 DEF Bracketed, Decisive, FinalSeated
  <2>4. Len(entries) < Capacity /\ Len(entries') < Capacity
    <3>1. Len(entries') = Len(entries) + 1 /\ Len(entries) < Capacity /\ Len(entries) \in Nat
      BY JoinWrites
    <3>. QED
      BY <1>4, <3>1 DEF Capacity
  <2>5. CupAgrees'
    BY <2>1, <2>4 DEF Bracketed, CupAgrees
  <2>. QED
    BY <1>2, <2>2, <2>3, <2>5 DEF Bracketed
<1>. QED
  BY <1>3, <1>4

-----------------------------------------------------------------------------
(* The invariant.                                                          *)

LEMMA BracketStays == ASSUME Inv, BracketInv, [Next]_vars PROVE Bracketed'
<1>. USE DEF Inv, BracketInv
<1>1. ASSUME UNCHANGED tables PROVE Bracketed'
  BY <1>1 DEF tables, Bracketed, Seeded, Decisive, FinalSeated, CupAgrees, SlotsRecorded
<1>2. ASSUME NEW k \in Keys, StartTournamentMatch(k) PROVE Bracketed'
  <2>. DEFINE own == SlotOf[k]
  <2>1. own \in Slots /\ slots[own].status \in {"ready", "running"}
    BY <1>2, RulesAssumption DEF StartTournamentMatch
  <2>2. slots' = [slots EXCEPT ![own].status = "running"] /\ UNCHANGED <<matches, entries, cup>>
    BY <1>2 DEF StartTournamentMatch
  <2>3. /\ \A s \in Slots \ {own} : slots'[s] = slots[s]
        /\ slots'[own].status = "running"
        /\ slots'[own].left = slots[own].left /\ slots'[own].right = slots[own].right
        /\ slots'[own].winner = slots[own].winner /\ slots'[own].match = slots[own].match
    BY <2>1, <2>2 DEF TablesOK, SlotRows
  <2>. HIDE DEF own
  <2>4. \A s \in Slots : /\ slots'[s].left = slots[s].left /\ slots'[s].right = slots[s].right
                         /\ slots'[s].winner = slots[s].winner /\ slots'[s].match = slots[s].match
                         /\ slots'[s].status = "absent" <=> slots[s].status = "absent"
                         /\ slots'[s].status = "finished" <=> slots[s].status = "finished"
                         /\ slots'[s].status = "absent" => slots'[s] = slots[s]
    BY <2>1, <2>3
  <2>. HIDE <2>3
  <2>5. Seeded'
    BY <2>2, <2>4, SlotNames DEF Bracketed, Seeded
  <2>6. Decisive'
    BY <2>4 DEF Bracketed, Decisive
  <2>7. FinalSeated'
    <3>1. /\ slots'["final"].left = slots["final"].left /\ slots'["final"].right = slots["final"].right
          /\ slots'["final"].status = "absent" <=> slots["final"].status = "absent"
          /\ \A s \in Semifinals : slots'[s].winner = slots[s].winner
      BY <2>4, SlotNames
    <3>. QED
      BY <3>1, SlotNames DEF Bracketed, FinalSeated
  <2>8. CupAgrees'
    BY <2>2, <2>4, SlotNames DEF Bracketed, CupAgrees
  <2>9. SlotsRecorded'
    <3>1. \A j \in Keys : SlotOf[j] # NoSlot => SlotOf[j] \in Slots
      BY RulesAssumption
    <3>. QED
      BY <2>2, <2>4, <3>1 DEF Bracketed, SlotsRecorded
  <2>. QED
    BY <2>5, <2>6, <2>7, <2>8, <2>9 DEF Bracketed
<1>3. ASSUME NEW t \in Tx, CommitFinalize(t) PROVE Bracketed'
  BY <1>3, CommitBrackets
<1>4. ASSUME NEW t \in Tx, CommitJoin(t) PROVE Bracketed'
  BY <1>4, JoinBrackets
<1>5. ASSUME NEW k \in Keys, FindExisting(k) PROVE Bracketed'
  BY <1>1, <1>5 DEF FindExisting
<1>6. ASSUME UNCHANGED vars PROVE Bracketed'
  BY <1>1, <1>6 DEF vars
<1>7. ASSUME Uncommitted PROVE Bracketed'
  BY <1>1, <1>7, OthersKeepTables DEF Uncommitted
<1>. QED
  BY <1>1, <1>2, <1>3, <1>4, <1>5, <1>6, <1>7, OthersKeepTables DEF Next

LEMMA TwoStillPlay == ASSUME Inv, BracketInv, [Next]_vars PROVE TwoPlay'
<1>. USE DEF Inv, BracketInv
<1>1. ASSUME NEW t \in Tx, NEW k \in Keys, InsertMatch(t, k) PROVE TwoPlay'
  <2>1. PICK result \in (IF outcome[k] = NoMatch THEN Results(k) ELSE {outcome[k]}) :
          outcome' = [outcome EXCEPT ![k] = result]
    BY <1>1 DEF InsertMatch
  <2>2. k \in opened
    BY <1>1 DEF InsertMatch
  <2>3. result # NoMatch => result.winner \in Users /\ result.loser \in Users /\ result.winner # result.loser
    <3>1. CASE outcome[k] = NoMatch
      <4>1. result.winner \in Users /\ result.loser \in Users /\ result \in Results(k)
        BY <2>1, <2>2, <3>1, ResultsAre
      <4>2. CASE SlotOf[k] = NoSlot
        BY <4>1, <4>2, PostgresAssumption DEF Results
      <4>3. CASE SlotOf[k] # NoSlot
        <5>1. SlotOf[k] \in Slots /\ slots[SlotOf[k]].status # "absent"
          BY <2>2, <4>3, RulesAssumption DEF SlotsFilled
        <5>2. slots[SlotOf[k]].left # slots[SlotOf[k]].right
          <6>1. Len(entries) = Capacity
            <7>1. Len(entries) \in Nat /\ Len(entries) <= Capacity
              BY DEF TablesOK
            <7>2. ~(Len(entries) < Capacity)
              BY <5>1 DEF SlotsFilled
            <7>. DEFINE n == Len(entries)
            <7>3. n \in Nat /\ n <= 4 /\ ~(n < 4)
              BY <7>1, <7>2 DEF Capacity
            <7>. HIDE DEF n
            <7>4. n = 4
              BY <7>3
            <7>. QED
              BY <7>4 DEF n, Capacity
          <6>2. CASE SlotOf[k] \in Semifinals
            BY <6>1, <6>2, FourPlay, SlotNames
          <6>3. CASE SlotOf[k] = "final"
            <7>1. /\ slots["final"].left = slots["semifinal 1"].winner
                  /\ slots["final"].right = slots["semifinal 2"].winner
                  /\ \A s \in Semifinals : slots[s].winner # NoUser
              BY <5>1, <6>3 DEF Bracketed, FinalSeated
            <7>2. /\ slots["semifinal 1"].winner \in {slots["semifinal 1"].left, slots["semifinal 1"].right}
                  /\ slots["semifinal 2"].winner \in {slots["semifinal 2"].left, slots["semifinal 2"].right}
              BY <7>1, SlotNames DEF Bracketed, Decisive
            <7>3. {slots["semifinal 1"].left, slots["semifinal 1"].right}
                    \cap {slots["semifinal 2"].left, slots["semifinal 2"].right} = {}
              BY <6>1, FourPlay
            <7>. QED
              BY <6>3, <7>1, <7>2, <7>3
          <6>. QED
            BY <5>1, <6>2, <6>3, SlotNames
        <5>. QED
          BY <4>1, <4>3, <5>2 DEF Results
      <4>. QED
        BY <4>1, <4>2, <4>3
    <3>2. CASE outcome[k] # NoMatch
      BY <2>1, <3>2 DEF TwoPlay
    <3>. QED
      BY <3>1, <3>2
  <2>4. outcome'[k] = result /\ \A j \in Keys \ {k} : outcome'[j] = outcome[j]
    BY <2>1 DEF RoomsOK
  <2>. QED
    BY <2>3, <2>4 DEF TwoPlay
<1>2. ASSUME UNCHANGED outcome PROVE TwoPlay'
  BY <1>2 DEF TwoPlay
<1>3. CASE \E t \in Tx, k \in Keys : InsertMatch(t, k)
  BY <1>1, <1>3
<1>4. CASE ~\E t \in Tx, k \in Keys : InsertMatch(t, k)
  <2>1. UNCHANGED outcome
    BY <1>4, StepsAre DEF CommitFinalize, EndsOnly, Begins, LocksOnly, LockParticipant, roomVars
  <2>. QED
    BY <1>2, <2>1
<1>. QED
  BY <1>3, <1>4

LEMMA CupStaysHeld == ASSUME Inv, BracketInv, [Next]_vars PROVE CupHeld'
<1>. USE DEF Inv, BracketInv
<1>0. NoTx \notin Tx
  BY PostgresAssumption
\* The others hold the cup as before.
<1>1. ASSUME NEW t \in Tx, EndTransaction(t)
      PROVE  /\ ~Is(t, "join")' /\ ~HasRead(t)'
             /\ \A other \in Tx \ {t} : /\ tx'[other] = tx[other] /\ semis'[other] = semis[other]
                                        /\ cupLock = other => cupLock' = other
  <2>1. ~Is(t, "join")'
    BY <1>1 DEF EndTransaction, TransactionsOK, Is, Idle
  <2>2. ~HasRead(t)'
    BY <1>1, EndIs DEF HasRead
  <2>3. \A other \in Tx \ {t} : cupLock = other => cupLock' = other
    BY <1>1 DEF EndTransaction
  <2>. QED
    BY <1>1, <2>1, <2>2, <2>3, EndIs
<1>2. ASSUME NEW t \in Tx, EndTransaction(t), UNCHANGED slots PROVE CupHeld'
  BY <1>1, <1>2 DEF CupHeld, Is, HasRead
<1>3. ASSUME NEW t \in Tx, EndTransaction(t), cupLock = t PROVE CupHeld'
  <2>1. ASSUME NEW other \in Tx \ {t} PROVE ~Is(other, "join") /\ ~HasRead(other)
    BY <1>3 DEF CupHeld
  <2>. QED
    BY <1>1, <1>3, <2>1 DEF CupHeld, Is, HasRead
<1>4. ASSUME NEW t \in Tx, CommitFinalize(t) PROVE CupHeld'
  <2>1. CASE SlotFor(t) = NoSlot
    BY <1>2, <1>4, <2>1 DEF CommitFinalize
  <2>2. CASE SlotFor(t) # NoSlot
    BY <1>3, <1>4, <2>2, CommitDecides DEF CommitFinalize
  <2>. QED
    BY <2>1, <2>2
<1>5. ASSUME NEW t \in Tx, CommitJoin(t) PROVE CupHeld'
  <2>1. cupLock = t /\ EndTransaction(t)
    BY <1>5 DEF CommitJoin, CupHeld
  <2>. QED
    BY <1>3, <2>1
<1>6. ASSUME NEW t \in Tx, JoinAgain(t) \/ CommitBan(t) \/ DeadlockVictim(t) \/ Rollback(t) PROVE CupHeld'
  BY <1>2, <1>6 DEF JoinAgain, CommitBan, DeadlockVictim, Rollback, tables
<1>7. ASSUME UNCHANGED <<slots, tx, semis, cupLock>> PROVE CupHeld'
  BY <1>7 DEF CupHeld, Is, HasRead
<1>8. ASSUME NEW t \in Tx, CheckReference(t) \/ LockParticipant(t) \/ LockSlot(t) PROVE CupHeld'
  BY <1>7, <1>8 DEF CheckReference, LockParticipant, LockSlot, tables, readVars
<1>9. ASSUME NEW t \in Tx, LockCup(t) PROVE CupHeld'
  <2>1. /\ Is(t, "finalize") /\ cupLock = NoTx /\ cupLock' = t
        /\ semis' = [semis EXCEPT ![t] = [s \in Semifinals |->
                       IF slots[s].status = "finished" THEN slots[s].winner ELSE NoUser]]
        /\ UNCHANGED <<slots, tx>>
    BY <1>9 DEF LockCup, WantsCup, AccountsLocked, tables
  <2>2. \A s \in Semifinals : semis'[t][s] = slots[s].winner
    <3>1. \A s \in Semifinals : slots[s].status # "finished" => slots[s].winner = NoUser
      BY SlotNames DEF Bracketed, Decisive
    <3>. QED
      BY <2>1, <3>1 DEF TransactionsOK
  <2>3. \A other \in Tx \ {t} : semis'[other] = semis[other] /\ ~HasRead(other) /\ ~Is(other, "join")
    BY <1>0, <2>1 DEF TransactionsOK, CupHeld
  <2>4. ~Is(t, "join")
    BY <2>1 DEF Is
  <2>. QED
    BY <2>1, <2>2, <2>3, <2>4 DEF CupHeld, Is, HasRead
<1>10. ASSUME NEW t \in Tx, Is(t, "idle")
       PROVE  ~HasRead(t) /\ ~Is(t, "join")
  BY <1>10 DEF CupHeld, Is
<1>11. ASSUME NEW t \in Tx, NEW k \in Keys, InsertMatch(t, k) PROVE CupHeld'
  <2>1. /\ Is(t, "idle") /\ UNCHANGED <<slots, semis, cupLock>> /\ ~Is(t, "join")'
        /\ \A other \in Tx \ {t} : tx'[other] = tx[other]
    <3>1. PICK result \in (IF outcome[k] = NoMatch THEN Results(k) ELSE {outcome[k]}) :
            tx' = [tx EXCEPT ![t] = Finalize(k, result)]
      BY <1>11 DEF InsertMatch
    <3>2. ~Is(t, "join")' /\ \A other \in Tx \ {t} : tx'[other] = tx[other]
      BY <3>1 DEF TransactionsOK, Is, Finalize
    <3>. QED
      BY <1>11, <3>2 DEF InsertMatch, tables, readVars, lockVars
  <2>. QED
    BY <1>10, <2>1 DEF CupHeld, Is, HasRead
<1>12. ASSUME NEW t \in Tx, NEW u \in Joiners, BeginJoin(t, u) PROVE CupHeld'
  <2>1. /\ Is(t, "idle") /\ UNCHANGED <<slots, semis>> /\ cupLock = NoTx /\ cupLock' = t
        /\ \A other \in Tx \ {t} : tx'[other] = tx[other]
    BY <1>12 DEF BeginJoin, tables, readVars, TransactionsOK
  <2>2. \A other \in Tx : ~HasRead(other) /\ ~Is(other, "join")
    BY <1>0, <2>1 DEF CupHeld
  <2>. QED
    BY <2>1, <2>2 DEF CupHeld, Is, HasRead
<1>13. ASSUME NEW t \in Tx, NEW u \in Targets, BeginBan(t, u) PROVE CupHeld'
  <2>1. tx' = [tx EXCEPT ![t] = SetBan(u, u \notin banned)] /\ Is(t, "idle") /\ UNCHANGED <<slots, semis, cupLock>>
    BY <1>13 DEF BeginBan, tables, readVars
  <2>2. SetBan(u, u \notin banned).op = "ban"
    BY DEF SetBan
  <2>3. ~Is(t, "join")' /\ \A other \in Tx \ {t} : tx'[other] = tx[other]
    BY <2>1, <2>2 DEF Is, TransactionsOK
  <2>. QED
    BY <1>10, <2>1, <2>3 DEF CupHeld, Is, HasRead
<1>14. ASSUME NEW k \in Keys, FindExisting(k) PROVE CupHeld'
  BY <1>7, <1>14 DEF FindExisting, tables, readVars, lockVars
<1>15. ASSUME NEW k \in Keys, StartTournamentMatch(k) PROVE CupHeld'
  <2>1. SlotOf[k] \in Slots
    BY <1>15, RulesAssumption DEF StartTournamentMatch
  <2>2. slots' = [slots EXCEPT ![SlotOf[k]].status = "running"] /\ UNCHANGED <<tx, semis, cupLock>>
    BY <1>15 DEF StartTournamentMatch, readVars, lockVars
  <2>3. \A s \in Semifinals : slots'[s].winner = slots[s].winner
    <3>. DEFINE own == SlotOf[k]
    <3>1. own \in Slots /\ slots' = [slots EXCEPT ![own].status = "running"]
      BY <2>1, <2>2
    <3>. HIDE DEF own
    <3>2. slots'[own].winner = slots[own].winner /\ \A s \in Slots \ {own} : slots'[s] = slots[s]
      BY <3>1 DEF TablesOK, SlotRows
    <3>. QED
      BY <3>2, SlotNames
  <2>. QED
    BY <2>2, <2>3 DEF CupHeld, Is, HasRead
<1>16. ASSUME UNCHANGED vars PROVE CupHeld'
  BY <1>7, <1>16 DEF vars, tables, readVars, lockVars
<1>. QED
  BY <1>4, <1>5, <1>6, <1>8, <1>9, <1>11, <1>12, <1>13, <1>14, <1>15, <1>16 DEF Next, Uncommitted

LEMMA BracketStep == ASSUME Inv, BracketInv, [Next]_vars PROVE Inv' /\ BracketInv'
<1>1. RoomsOK' /\ TransactionsOK'
  BY RoomsStay, TransactionsStay DEF Inv
<1>2. Inv'
  BY <1>1, TablesStay, LocksReadStays, AttemptsStay, SlotsStayFilled, RatingsStay DEF Inv
<1>3. BracketInv'
  BY BracketStays, TwoStillPlay, CupStaysHeld DEF BracketInv
<1>. QED
  BY <1>2, <1>3

\* The two invariants hold together (finalizeMatch and joinTournament,
\* index.ts:640-737 and 805-847).
THEOREM BracketInvariance == Spec => [](Inv /\ BracketInv)
<1>1. Init => Inv /\ BracketInv
  BY InitiallyHolds, BracketInitially
<1>2. Inv /\ BracketInv /\ [Next]_vars => (Inv /\ BracketInv)'
  BY BracketStep
<1>. QED
  BY <1>1, <1>2, PTL DEF Spec

-----------------------------------------------------------------------------
(* The bracket says what the results say.                                  *)

LEMMA BracketIsSaid == ASSUME Inv, BracketInv PROVE BracketFollowsResults
<1>. USE DEF Inv, BracketInv
<1>1. \A s \in Slots : slots[s].status = "finished" <=> slots[s].winner # NoUser
  BY DEF Bracketed, Decisive
<1>2. \A s \in Semifinals : slots[s].status = "finished" <=> slots[s].winner # NoUser
  BY <1>1, SlotNames
<1>3. slots["final"].status = "finished" <=> slots["final"].winner # NoUser
  BY <1>1, SlotNames
<1>4. slots["final"].status # "absent" <=> \A s \in Semifinals : slots[s].status = "finished"
  BY <1>2 DEF Bracketed, FinalSeated
<1>5. /\ slots["final"].left = IF slots["final"].status = "absent" THEN NoUser ELSE slots["semifinal 1"].winner
      /\ slots["final"].right = IF slots["final"].status = "absent" THEN NoUser ELSE slots["semifinal 2"].winner
  <2>1. slots["final"].status = "absent" => slots["final"] = AbsentSlot
    BY SlotNames DEF Bracketed, Decisive
  <2>. QED
    BY <2>1, SlotNames DEF Bracketed, FinalSeated
<1>6. ASSUME NEW k \in Keys, SlotOf[k] # NoSlot, matches[k] # NoMatch
      PROVE  /\ slots[SlotOf[k]].match = k /\ slots[SlotOf[k]].winner = matches[k].winner
             /\ slots[SlotOf[k]].status = "finished"
  <2>1. SlotOf[k] \in Slots /\ k # NoKey
    BY <1>6, RulesAssumption
  <2>2. slots[SlotOf[k]].match = k /\ slots[SlotOf[k]].winner = matches[k].winner
    BY <1>6 DEF Bracketed, SlotsRecorded
  <2>. QED
    BY <2>1, <2>2 DEF Bracketed, Decisive
<1>7. /\ cup.status = "finished" <=> slots["final"].status = "finished"
      /\ cup.winner = slots["final"].winner
      /\ cup.status = "open" <=> Len(entries) < Capacity
  BY <1>3 DEF Bracketed, CupAgrees
<1>8. ASSUME cup.status # "open"
      PROVE  {entries[i] : i \in DOMAIN entries} = UNION {{slots[s].left, slots[s].right} : s \in Semifinals}
  <2>1. entries \in Seq(Users) /\ Len(entries) \in Nat /\ Len(entries) <= 4 /\ ~(Len(entries) < 4)
    BY <1>7, <1>8 DEF TablesOK, Capacity
  <2>2. Len(entries) = Capacity /\ DOMAIN entries = {1, 2, 3, 4}
    <3>. DEFINE n == Len(entries)
    <3>1. n \in Nat /\ n <= 4 /\ ~(n < 4) /\ DOMAIN entries = 1..n
      BY <2>1
    <3>. HIDE DEF n
    <3>2. n = 4
      BY <3>1
    <3>3. 1..4 = {1, 2, 3, 4}
      OBVIOUS
    <3>. QED
      BY <3>1, <3>2, <3>3 DEF n, Capacity
  <2>3. /\ slots["semifinal 1"].left = entries[1] /\ slots["semifinal 1"].right = entries[4]
        /\ slots["semifinal 2"].left = entries[2] /\ slots["semifinal 2"].right = entries[3]
    BY <2>2 DEF Bracketed, Seeded
  <2>4. {entries[i] : i \in DOMAIN entries} = {entries[1], entries[2], entries[3], entries[4]}
    BY <2>2
  <2>5. UNION {{slots[s].left, slots[s].right} : s \in Semifinals}
          = {slots["semifinal 1"].left, slots["semifinal 1"].right,
             slots["semifinal 2"].left, slots["semifinal 2"].right}
    <3>. DEFINE P(s) == {slots[s].left, slots[s].right}
    <3>1. {P(s) : s \in Semifinals} = {P("semifinal 1"), P("semifinal 2")}
      BY SlotNames
    <3>2. UNION {P("semifinal 1"), P("semifinal 2")} = P("semifinal 1") \cup P("semifinal 2")
      OBVIOUS
    <3>. QED
      BY <3>1, <3>2
  <2>. QED
    BY <2>3, <2>4, <2>5
<1>. QED
  BY <1>4, <1>5, <1>6, <1>7, <1>8 DEF BracketFollowsResults

\* BracketFollowsResults holds always (finalizeMatch and joinTournament,
\* index.ts:640-737 and 805-847).
THEOREM BracketFollowsResultsAlways == Spec => []BracketFollowsResults
BY BracketInvariance, BracketIsSaid, PTL

-----------------------------------------------------------------------------
(* The transactions implement the ledger.                                  *)

SeatOf(slot) == [left |-> slot.left, right |-> slot.right, winner |-> slot.winner, match |-> slot.match]
SeatsNow == [s \in Slots |-> SeatOf(slots[s])]

\* The rules are the same on both sides.
LEMMA SameRules ==
  /\ Ledger!Slots = Slots /\ Ledger!Semifinals = Semifinals /\ Ledger!Capacity = Capacity
  /\ Ledger!NoMatch = NoMatch /\ Ledger!NoUser = NoUser /\ Ledger!NoKey = NoKey /\ Ledger!NoSlot = NoSlot
  /\ Ledger!Empty = SeatOf(AbsentSlot)
  /\ Ledger!InitialAccount = InitialAccount
BY DEF Ledger!Slots, Ledger!Semifinals, Ledger!Capacity, Ledger!NoMatch, Ledger!NoUser, Ledger!NoKey,
       Ledger!NoSlot, Ledger!Empty, Ledger!Seat, Ledger!AbsentSlot, Ledger!InitialAccount, Ledger!InitialRating,
       Slots, Semifinals, Capacity, NoMatch, NoUser, NoKey, NoSlot, SeatOf, AbsentSlot, InitialAccount,
       InitialRating

LEMMA SameAccounts ==
  ASSUME NEW a, NEW w, NEW l, NEW before
  PROVE  /\ Ledger!AccountsAfter(a, w, l, before) = AccountsAfter(a, w, l, before)
         /\ Ledger!Participants(w, l) = Participants(w, l)
BY DEF Ledger!AccountsAfter, Ledger!Participants, Ledger!Paid, Ledger!AfterWin, Ledger!AfterLoss, Ledger!NoUser,
       AccountsAfter, Participants, Paid, AfterWin, AfterLoss, NoUser

LEMMA SameBracket ==
  ASSUME NEW seeds
  PROVE  Ledger!SeatsOf(Ledger!Bracket(seeds)) = [s \in Slots |-> SeatOf(Bracket(seeds)[s])]
BY DEF Ledger!SeatsOf, Ledger!Seat, Ledger!Bracket, Ledger!ReadySlot, Ledger!AbsentSlot, Ledger!Slots,
       Ledger!Semifinals, Ledger!NoUser, Ledger!NoKey, SeatOf, Bracket, ReadySlot, AbsentSlot, Slots, Semifinals,
       NoUser, NoKey

LEMMA LedgerBegins == Init => Ledger!Init
<1> SUFFICES ASSUME Init PROVE Ledger!Init
  OBVIOUS
<1>1. SeatsNow = [s \in Slots |-> SeatOf(AbsentSlot)]
  BY DEF Init, SeatsNow
<1>2. /\ accounts = [u \in Users |-> InitialAccount] /\ matches = [k \in Keys |-> NoMatch]
      /\ entries \in FirstEntries /\ cup.winner = NoUser
  BY DEF Init
<1>. QED
  BY <1>1, <1>2, SameRules DEF Ledger!Init, SeatsNow, SeatOf

\* What a commit does to the ledger's seats.
LEMMA CommitSeats ==
  ASSUME Inv, BracketInv, NEW t \in Tx, CommitFinalize(t), SlotFor(t) # NoSlot
  PROVE  LET k == tx[t].key
             w == tx[t].winner
             own == SlotFor(t)
             decided == [SeatsNow EXCEPT ![own] = [@ EXCEPT !.winner = w, !.match = k]]
         IN SeatsNow' = IF own \in Semifinals /\ \A semi \in Semifinals : decided[semi].winner # NoUser
                        THEN [decided EXCEPT !["final"] = [@ EXCEPT !.left = decided["semifinal 1"].winner,
                                                                    !.right = decided["semifinal 2"].winner]]
                        ELSE decided
<1>. DEFINE k == tx[t].key
            w == tx[t].winner
            own == SlotFor(t)
            decided == [SeatsNow EXCEPT ![own] = [@ EXCEPT !.winner = w, !.match = k]]
            seat == [status |-> "finished", left |-> slots[own].left, right |-> slots[own].right,
                     winner |-> w, match |-> k]
            opened2 == [left |-> decided["semifinal 1"].winner, right |-> decided["semifinal 2"].winner,
                        winner |-> NoUser, match |-> NoKey]
<1>1. /\ own \in Slots /\ slots'[own] = seat
      /\ \A s \in Slots \ {own, "final"} : slots'[s] = slots[s]
      /\ own # "final" => /\ slots["final"] = AbsentSlot
                          /\ IF \A s \in Semifinals : slots'[s].winner # NoUser
                             THEN Waiting(slots'["final"], slots'["semifinal 1"].winner,
                                          slots'["semifinal 2"].winner)
                             ELSE slots'["final"] = AbsentSlot
  BY CommitDecides, CommitWrites
<1>2. /\ SeatsNow' = [s \in Slots |-> SeatOf(slots'[s])]
      /\ SeatsNow = [s \in Slots |-> SeatOf(slots[s])]
  BY DEF SeatsNow, SeatOf
<1>3. SeatOf(seat) = [left |-> slots[own].left, right |-> slots[own].right, winner |-> w, match |-> k]
  BY DEF SeatOf
<1>4. SeatsNow[own] = [left |-> slots[own].left, right |-> slots[own].right,
                       winner |-> slots[own].winner, match |-> slots[own].match]
  BY <1>1, <1>2 DEF SeatOf
<1>5. [SeatsNow[own] EXCEPT !.winner = w, !.match = k] = SeatOf(seat)
  <2>. DEFINE old == SeatsNow[own]
  <2>1. old = [left |-> slots[own].left, right |-> slots[own].right,
               winner |-> slots[own].winner, match |-> slots[own].match]
    BY <1>4
  <2>. HIDE DEF old, own, k, w, decided
  <2>2. [old EXCEPT !.winner = w, !.match = k]
          = [left |-> slots[own].left, right |-> slots[own].right, winner |-> w, match |-> k]
    <3>. DEFINE one == [old EXCEPT !.winner = w]
    <3>1. one = [left |-> slots[own].left, right |-> slots[own].right,
                 winner |-> w, match |-> slots[own].match]
      BY <2>1
    <3>2. [old EXCEPT !.winner = w, !.match = k] = [one EXCEPT !.match = k]
      OBVIOUS
    <3>. HIDE DEF one
    <3>. QED
      BY <3>1, <3>2
  <2>. QED
    BY <1>3, <2>2 DEF old
<1>6. /\ decided[own] = SeatOf(seat) /\ decided[own].winner = w
      /\ \A s \in Slots \ {own} : decided[s] = SeatsNow[s]
      /\ DOMAIN decided = Slots
  <2>. DEFINE new == [SeatsNow[own] EXCEPT !.winner = w, !.match = k]
  <2>1. decided = [SeatsNow EXCEPT ![own] = new] /\ DOMAIN SeatsNow = Slots
    BY <1>2
  <2>2. new = SeatOf(seat) /\ SeatOf(seat).winner = w
    BY <1>3, <1>5
  <2>. HIDE DEF new, own, decided, seat, k, w
  <2>. QED
    BY <1>1, <2>1, <2>2
<1>7. \A s \in Slots : SeatsNow'[s] = SeatOf(slots'[s]) /\ SeatsNow[s] = SeatOf(slots[s])
  BY <1>2
<1>. HIDE DEF decided, seat, own, k, w
<1>8. SeatsNow'[own] = decided[own] /\ \A s \in Slots \ {own, "final"} : SeatsNow'[s] = decided[s]
  <2>1. own \in Slots /\ SeatsNow'[own] = SeatOf(slots'[own]) /\ slots'[own] = seat
    BY <1>1, <1>7
  <2>2. SeatsNow'[own] = decided[own]
    BY <1>6, <2>1
  <2>3. ASSUME NEW s \in Slots \ {own, "final"} PROVE SeatsNow'[s] = decided[s]
    <3>1. slots'[s] = slots[s] /\ decided[s] = SeatsNow[s]
      BY <1>1, <1>6, <2>3
    <3>2. SeatsNow'[s] = SeatOf(slots'[s]) /\ SeatsNow[s] = SeatOf(slots[s])
      BY <1>7, <2>3
    <3>. QED
      BY <3>1, <3>2
  <2>. QED
    BY <2>2, <2>3
<1>9. DOMAIN SeatsNow' = Slots
  BY <1>2
<1>10. CASE own = "final"
  <2>1. \A s \in Slots : SeatsNow'[s] = decided[s]
    BY <1>8, <1>10
  <2>2. SeatsNow' = decided
    BY <1>2, <1>6, <1>9, <2>1 DEF decided, SeatsNow
  <2>. QED
    BY <1>10, <2>2, SlotNames DEF decided, own, k, w
<1>11. CASE own # "final"
  <2>1. own \in Semifinals
    BY <1>1, <1>11, SlotNames
  <2>2. \A s \in Semifinals : decided[s].winner = slots'[s].winner
    <3>1. \A s \in Semifinals : SeatsNow'[s] = decided[s] /\ s \in Slots
      BY <1>8, SlotNames
    <3>2. \A s \in Semifinals : decided[s] = SeatOf(slots'[s])
      BY <1>7, <3>1
    <3>3. \A s \in Semifinals : SeatOf(slots'[s]).winner = slots'[s].winner
      BY DEF SeatOf
    <3>. QED
      BY <3>2, <3>3
  <2>3. decided["final"] = SeatOf(AbsentSlot)
    BY <1>1, <1>6, <1>7, <1>11, SlotNames
  <2>4. CASE \A semi \in Semifinals : decided[semi].winner # NoUser
    <3>1. Waiting(slots'["final"], decided["semifinal 1"].winner, decided["semifinal 2"].winner)
      BY <1>1, <1>11, <2>2, <2>4, SlotNames
    <3>2. SeatsNow'["final"] = opened2
      BY <1>7, <3>1, SlotNames DEF SeatOf, Waiting
    <3>3. [decided["final"] EXCEPT !.left = decided["semifinal 1"].winner,
                                   !.right = decided["semifinal 2"].winner] = opened2
      <4>1. decided["final"] = [left |-> NoUser, right |-> NoUser, winner |-> NoUser, match |-> NoKey]
        BY <2>3, SlotNames DEF SeatOf
      <4>. DEFINE a == decided["semifinal 1"].winner
                  b == decided["semifinal 2"].winner
                  old == decided["final"]
      <4>3. old = [left |-> NoUser, right |-> NoUser, winner |-> NoUser, match |-> NoKey]
        BY <4>1
      <4>. HIDE DEF a, b, old
      <4>2. [old EXCEPT !.left = a, !.right = b]
              = [left |-> a, right |-> b, winner |-> NoUser, match |-> NoKey]
        <5>. DEFINE one == [old EXCEPT !.left = a]
        <5>1. one = [left |-> a, right |-> NoUser, winner |-> NoUser, match |-> NoKey]
          BY <4>3
        <5>2. [old EXCEPT !.left = a, !.right = b] = [one EXCEPT !.right = b]
          OBVIOUS
        <5>. HIDE DEF one
        <5>. QED
          BY <5>1, <5>2
      <4>. QED
        BY <4>2 DEF a, b, old
    <3>. DEFINE after == [decided EXCEPT !["final"] = [@ EXCEPT !.left = decided["semifinal 1"].winner,
                                                               !.right = decided["semifinal 2"].winner]]
    <3>4. DOMAIN after = Slots /\ after["final"] = opened2 /\ \A s \in Slots \ {"final"} : after[s] = decided[s]
      BY <1>6, <3>3, SlotNames
    <3>5. \A s \in Slots : SeatsNow'[s] = after[s]
      <4>. HIDE DEF after, opened2
      <4>. QED
        BY <1>8, <1>11, <3>2, <3>4
    <3>6. after = [s \in Slots |-> after[s]]
      BY <3>4
    <3>7. SeatsNow' = [s \in Slots |-> SeatsNow'[s]]
      BY <1>2
    <3>8. SeatsNow' = after
      <4>. HIDE DEF after
      <4>. QED
        BY <3>5, <3>6, <3>7
    <3>. QED
      BY <2>1, <2>4, <3>8 DEF decided, own, k, w
  <2>5. CASE ~(\A semi \in Semifinals : decided[semi].winner # NoUser)
    <3>1. slots'["final"] = AbsentSlot
      BY <1>1, <1>11, <2>2, <2>5
    <3>2. \A s \in Slots : SeatsNow'[s] = decided[s]
      BY <1>7, <1>8, <2>3, <3>1, SlotNames
    <3>3. SeatsNow' = decided
      BY <1>2, <1>6, <1>9, <3>2 DEF decided, SeatsNow
    <3>. QED
      BY <2>5, <3>3 DEF decided, own, k, w
  <2>. QED
    BY <2>4, <2>5
<1>. QED
  BY <1>10, <1>11

\* A finalization that commits records its result.
LEMMA CommitRecords ==
  ASSUME Inv, BracketInv, NEW t \in Tx, CommitFinalize(t)
  PROVE  Ledger!Next
<1>. USE DEF Inv, BracketInv
<1>1. Is(t, "finalize") /\ Locked(t) = PlayersIn(t)
  BY DEF CommitFinalize, AccountsLocked
<1>2. /\ tx[t].key \in Keys /\ matches[tx[t].key] = NoMatch
      /\ outcome[tx[t].key] = [winner |-> tx[t].winner, loser |-> tx[t].loser]
      /\ PlayersIn(t) # {} /\ PlayersIn(t) = {tx[t].winner, tx[t].loser} \ {NoUser}
      /\ PlayersIn(t) \subseteq Users
  BY <1>1, FinalizeIs DEF OneAttempt, OutcomesStand
<1>3. tx[t].winner \in Users /\ tx[t].loser \in Users /\ tx[t].winner # tx[t].loser
  <2>1. outcome[tx[t].key] # NoMatch
    BY <1>2 DEF NoMatch
  <2>. QED
    BY <1>2, <2>1 DEF TwoPlay
<1>0. PICK k \in Keys, w \in Users, l \in Users : k = tx[t].key /\ w = tx[t].winner /\ l = tx[t].loser
  BY <1>2, <1>3
<1>4. matches' = [matches EXCEPT ![k] = [winner |-> w, loser |-> l]] /\ matches'[k] # NoMatch
  <2>1. matches' = [matches EXCEPT ![k] = [winner |-> w, loser |-> l]] /\ k \in DOMAIN matches
    BY <1>0 DEF CommitFinalize, TablesOK
  <2>2. matches'[k].winner = w /\ w # NoUser
    BY <2>1, Nobody
  <2>. QED
    BY <2>1, <2>2 DEF NoMatch
<1>5. accounts' = AccountsAfter(accounts, w, l, [u \in Users |-> accounts[u].rating])
  <2>. DEFINE now == [u \in Users |-> accounts[u].rating]
  <2>1. \A u \in Participants(w, l) : u \in Users /\ seen[t][u] = now[u]
    BY <1>0, <1>1, <1>2 DEF Locked, LocksRead, PlayersIn
  <2>2. accounts' = AccountsAfter(accounts, w, l, seen[t])
    BY <1>0 DEF CommitFinalize
  <2>. HIDE DEF now
  <2>. QED
    BY <2>1, <2>2 DEF AccountsAfter, now
<1>6. IF SlotOf[k] = NoSlot
      THEN UNCHANGED <<SeatsNow, cup>>
      ELSE /\ SeatsNow[SlotOf[k]].match = NoKey
           /\ Participants(w, l) \subseteq {SeatsNow[SlotOf[k]].left, SeatsNow[SlotOf[k]].right}
           /\ cup'.winner = IF SlotOf[k] = "final" THEN w ELSE cup.winner
  <2>1. CASE SlotOf[k] = NoSlot
    BY <1>0, <2>1 DEF CommitFinalize, SeatsNow, SeatOf, SlotFor
  <2>2. CASE SlotOf[k] # NoSlot
    <3>1. /\ SlotOf[k] \in Slots /\ slots[SlotOf[k]].match = NoKey
          /\ Participants(w, l) \subseteq {slots[SlotOf[k]].left, slots[SlotOf[k]].right}
      BY <1>0, <2>2, CommitDecides DEF SlotFor
    <3>2. /\ SeatsNow[SlotOf[k]].match = slots[SlotOf[k]].match
          /\ SeatsNow[SlotOf[k]].left = slots[SlotOf[k]].left
          /\ SeatsNow[SlotOf[k]].right = slots[SlotOf[k]].right
      BY <3>1 DEF SeatsNow, SeatOf
    <3>3. cup'.winner = IF SlotOf[k] = "final" THEN w ELSE cup.winner
      BY <1>0, <2>2 DEF CommitFinalize, CupAfter, SlotFor
    <3>. QED
      BY <2>2, <3>1, <3>2, <3>3
  <2>. QED
    BY <2>1, <2>2
<1>7. SlotOf[k] # NoSlot => SeatsNow' = Ledger!SeatsAfter(SlotOf[k], k, w)
  <2>1. SlotFor(t) = SlotOf[k]
    BY <1>0 DEF SlotFor
  <2>. DEFINE own == SlotOf[k]
              decided == [SeatsNow EXCEPT ![own] = [@ EXCEPT !.winner = w, !.match = k]]
  <2>. DEFINE after == IF own \in Semifinals /\ \A semi \in Semifinals : decided[semi].winner # NoUser
                       THEN [decided EXCEPT !["final"] = [@ EXCEPT !.left = decided["semifinal 1"].winner,
                                                                   !.right = decided["semifinal 2"].winner]]
                       ELSE decided
  <2>2. own # NoSlot => SeatsNow' = after
    BY <1>0, <2>1, CommitSeats
  <2>3. Ledger!SeatsAfter(own, k, w) = after
    <3>. HIDE DEF own
    <3>. QED
      BY Zenon DEF Ledger!SeatsAfter, SeatsNow, SeatOf, Ledger!Semifinals, Semifinals, Ledger!NoUser, NoUser
  <2>. HIDE DEF after
  <2>. QED
    BY <2>2, <2>3
<1>8. UNCHANGED entries
  BY DEF CommitFinalize
<1>9. Ledger!Record(k, w, l)
  <2>1. accounts' = Ledger!AccountsAfter(accounts, w, l, [u \in Users |-> accounts[u].rating])
    BY <1>5, SameAccounts
  <2>2. Participants(w, l) = Ledger!Participants(w, l)
    BY SameAccounts
  <2>3. CASE SlotOf[k] = NoSlot
    BY <1>0, <1>2, <1>4, <1>6, <1>8, <2>1, <2>3, SameRules DEF Ledger!Record, SeatsNow, SeatOf
  <2>4. CASE SlotOf[k] # NoSlot
    BY <1>0, <1>2, <1>4, <1>6, <1>7, <1>8, <2>1, <2>2, <2>4, SameRules DEF Ledger!Record, SeatsNow, SeatOf
  <2>. QED
    BY <2>3, <2>4
<1>10. \E winner \in Users : \E loser \in Users \ {winner} : Ledger!Record(k, winner, loser)
  BY <1>0, <1>3, <1>9
<1>11. k \in Keys /\ matches[k] = Ledger!NoMatch /\ matches'[k] # Ledger!NoMatch
  BY <1>0, <1>2, <1>4, SameRules
<1>. QED
  BY <1>10, <1>11, Zenon DEF Ledger!Next

\* A transaction that enters a user enters it.
LEMMA JoinEnters ==
  ASSUME Inv, BracketInv, NEW t \in Tx, CommitJoin(t)
  PROVE  Ledger!Next
<1>0. PICK u \in Users : u = tx[t].user
  BY JoinWrites
<1>1. /\ u \in Users /\ \A i \in DOMAIN entries : entries[i] # u
      /\ Len(entries) < Capacity /\ entries' = Append(entries, u)
  BY <1>0, JoinWrites DEF Entered
<1>2. UNCHANGED <<accounts, matches>>
  BY DEF CommitJoin
<1>3. cup'.winner = cup.winner
  <2>1. cup' = [cup EXCEPT !.status = "running"] \/ cup' = cup
    BY DEF CommitJoin
  <2>. QED
    BY <2>1 DEF Inv, TablesOK
<1>4. SeatsNow' = IF Len(entries') = Capacity THEN [s \in Slots |-> SeatOf(Bracket(entries')[s])] ELSE SeatsNow
  BY DEF CommitJoin, SeatsNow, SeatOf
<1>5. SeatsNow' = IF Len(entries') = Ledger!Capacity
                  THEN Ledger!SeatsOf(Ledger!Bracket(entries')) ELSE SeatsNow
  BY <1>4, SameBracket, SameRules
<1>6. Ledger!Enter(u)
  BY <1>1, <1>2, <1>3, <1>5, SameRules DEF Ledger!Enter, SeatsNow, SeatOf
<1>7. \E v \in Users : Ledger!Enter(v)
  BY <1>6
<1>. QED
  BY <1>7, Zenon DEF Ledger!Next

\* Every other step leaves the ledger as it is.
LEMMA OthersStutter ==
  ASSUME Inv, UNCHANGED tables \/ \E k \in Keys : StartTournamentMatch(k)
  PROVE  UNCHANGED Ledger!ledgerVars
<1>1. CASE UNCHANGED tables
  BY <1>1 DEF tables, Ledger!ledgerVars
<1>2. ASSUME NEW k \in Keys, StartTournamentMatch(k) PROVE UNCHANGED Ledger!ledgerVars
  <2>. DEFINE own == SlotOf[k]
  <2>1. own \in Slots /\ slots' = [slots EXCEPT ![own].status = "running"]
        /\ UNCHANGED <<accounts, matches, entries, cup>>
    BY <1>2, RulesAssumption DEF StartTournamentMatch
  <2>. HIDE DEF own
  <2>2. \A s \in Slots \ {own} : slots'[s] = slots[s]
    BY <2>1 DEF Inv, TablesOK
  <2>3. /\ slots'[own].left = slots[own].left /\ slots'[own].right = slots[own].right
        /\ slots'[own].winner = slots[own].winner /\ slots'[own].match = slots[own].match
    BY <2>1 DEF Inv, TablesOK, SlotRows
  <2>4. \A s \in Slots : /\ slots'[s].left = slots[s].left /\ slots'[s].right = slots[s].right
                         /\ slots'[s].winner = slots[s].winner /\ slots'[s].match = slots[s].match
    BY <2>2, <2>3
  <2>5. UNCHANGED SeatsNow
    BY <2>4 DEF SeatsNow, SeatOf
  <2>. QED
    BY <2>1, <2>5 DEF Ledger!ledgerVars, SeatsNow, SeatOf
<1>. QED
  BY <1>1, <1>2

\* Implements holds: every step of the transactions is a step of the ledger or
\* none at all, so that no interleaving of statements, rollback, deadlock or
\* repeated attempt shows through the repository's interface.
THEOREM ImplementsLedger == Spec => Implements
<1>1. ASSUME Inv, BracketInv, [Next]_vars PROVE [Ledger!Next]_(Ledger!ledgerVars)
  <2>1. CASE \E t \in Tx : CommitFinalize(t)
    BY <1>1, <2>1, CommitRecords
  <2>2. CASE \E t \in Tx : CommitJoin(t)
    BY <1>1, <2>2, JoinEnters
  <2>3. CASE \E t \in Tx : JoinAgain(t) \/ CommitBan(t)
    BY <1>1, <2>3, OthersKeepTables, OthersStutter
  <2>4. CASE Uncommitted
    <3>1. Tx # {} => UNCHANGED tables
      BY <2>4, OthersKeepTables
    <3>2. Tx # {}
      BY <2>4 DEF Uncommitted
    <3>. QED
      BY <1>1, <3>1, <3>2, OthersStutter
  <2>5. CASE \E k \in Keys : FindExisting(k)
    BY <1>1, <2>5, OthersStutter DEF FindExisting
  <2>6. CASE \E k \in Keys : StartTournamentMatch(k)
    BY <1>1, <2>6, OthersStutter
  <2>7. CASE UNCHANGED vars
    BY <1>1, <2>7, OthersStutter DEF vars
  <2>. QED
    BY <1>1, <2>1, <2>2, <2>3, <2>4, <2>5, <2>6, <2>7 DEF Next
<1>2. Inv /\ BracketInv /\ [Next]_vars => [Ledger!Next]_(Ledger!ledgerVars)
  BY <1>1
<1>. QED
  BY <1>2, LedgerBegins, BracketInvariance, PTL DEF Spec, Implements, Ledger!Spec

-----------------------------------------------------------------------------
(* The in-memory repository keeps up with the tables.                      *)

\* The memory repository with these contents.
Books(a, m, e, s, c, b) ==
  [accounts |-> a, matches |-> m, entries |-> e, slots |-> s, cup |-> c, banned |-> b]
CupBook(status, winner) == [status |-> status, winner |-> winner]

\* It has what the tables have, whatever it takes the tournament's status for.
Twinned ==
  \E status : memory = Books(accounts, matches, entries, slots, CupBook(status, cup.winner), banned)

LEMMA BookIs ==
  ASSUME NEW a, NEW m, NEW e, NEW s, NEW c, NEW b, NEW x
  PROVE  LET book == Books(a, m, e, s, c, b)
         IN /\ book.accounts = a /\ book.matches = m /\ book.entries = e
            /\ book.slots = s /\ book.cup = c /\ book.banned = b
            /\ [book EXCEPT !.accounts = x] = Books(x, m, e, s, c, b)
            /\ [book EXCEPT !.matches = x] = Books(a, x, e, s, c, b)
            /\ [book EXCEPT !.entries = x] = Books(a, m, x, s, c, b)
            /\ [book EXCEPT !.slots = x] = Books(a, m, e, x, c, b)
            /\ [book EXCEPT !.cup = x] = Books(a, m, e, s, x, b)
            /\ [book EXCEPT !.banned = x] = Books(a, m, e, s, c, x)
BY DEF Books

LEMMA CupBookIs ==
  ASSUME NEW status, NEW winner, NEW x
  PROVE  /\ CupBook(status, winner).status = status /\ CupBook(status, winner).winner = winner
         /\ [CupBook(status, winner) EXCEPT !.status = x] = CupBook(x, winner)
BY DEF CupBook

\* The entrants once u has asked to join.
EntrantsWith(u) == IF Entered(u) THEN entries ELSE Append(entries, u)

\* What joining makes of the memory: an entrant, and a bracket once there are four.
LEMMA MemoryJoins ==
  ASSUME NEW status, NEW u,
         memory = Books(accounts, matches, entries, slots, CupBook(status, cup.winner), banned),
         Entered(u) \/ ~(Len(entries) >= Capacity)
  PROVE  \E now :
           joinTournament(memory, u) =
             Books(accounts, matches, EntrantsWith(u),
                   IF Len(EntrantsWith(u)) < Capacity \/ \E semi \in Semifinals : slots[semi].status # "absent"
                   THEN slots ELSE Bracket(EntrantsWith(u)),
                   CupBook(now, cup.winner), banned)
<1>. DEFINE after == EntrantsWith(u)
            now == IF Len(after) >= Capacity THEN "running" ELSE "open"
            joined == [memory EXCEPT !.entries = after, !.cup.status = now]
            old == CupBook(status, cup.winner)
            new == CupBook(now, cup.winner)
            bracket == Bracket(after)
<1>1. memory = Books(accounts, matches, entries, slots, old, banned)
  OBVIOUS
<1>2. [old EXCEPT !.status = now] = new
  BY CupBookIs
<1>. HIDE DEF old, new
<1>3. memory.entries = entries
  BY <1>1, BookIs
<1>4. joinTournament(memory, u) = ensureMemoryBracket(joined)
  BY <1>3 DEF joinTournament, EntrantsWith, Entered
<1>. HIDE DEF now, after
<1>5. joined = Books(accounts, matches, after, slots, new, banned)
  <2>. DEFINE one == [memory EXCEPT !.entries = after]
  <2>1. joined = [one EXCEPT !.cup = [one.cup EXCEPT !.status = now]]
    OBVIOUS
  <2>2. one = Books(accounts, matches, after, slots, old, banned)
    BY ONLY <1>1, BookIs
  <2>. HIDE DEF one, joined
  <2>3. one.cup = old
    BY <2>2, BookIs
  <2>4. [one EXCEPT !.cup = new] = Books(accounts, matches, after, slots, new, banned)
    BY <2>2, BookIs
  <2>. QED
    BY <1>2, <2>1, <2>3, <2>4
<1>. HIDE DEF joined, bracket
<1>6. joined.entries = after /\ joined.slots = slots
  BY <1>5, BookIs
<1>7. ensureMemoryBracket(joined)
        = IF Len(after) < Capacity \/ \E semi \in Semifinals : slots[semi].status # "absent"
          THEN joined ELSE [joined EXCEPT !.slots = bracket]
  BY <1>6 DEF ensureMemoryBracket, bracket
<1>8. [joined EXCEPT !.slots = bracket] = Books(accounts, matches, after, bracket, new, banned)
  BY <1>5, BookIs
<1>9. ensureMemoryBracket(joined)
        = Books(accounts, matches, after,
                IF Len(after) < Capacity \/ \E semi \in Semifinals : slots[semi].status # "absent"
                THEN slots ELSE bracket,
                new, banned)
  BY <1>5, <1>7, <1>8
<1>. QED
  BY <1>4, <1>9 DEF bracket, new, after

\* Both repositories seat the final alike.
LEMMA CommitSeatsTwin ==
  ASSUME Inv, BracketInv, NEW t \in Tx, CommitFinalize(t), SlotFor(t) # NoSlot
  PROVE  LET decided == [slots EXCEPT ![SlotFor(t)] = Decided(@, tx[t].key, tx[t].winner)]
         IN slots' = IF SlotFor(t) \in Semifinals THEN ensureMemoryFinal(decided) ELSE decided
<1>. USE DEF Inv, BracketInv
<1>. DEFINE own == SlotFor(t)
            decided == [slots EXCEPT ![own] = Decided(@, tx[t].key, tx[t].winner)]
            f == ReadySlot(decided["semifinal 1"].winner, decided["semifinal 2"].winner)
<1>1. /\ own \in Slots /\ HasRead(t) /\ tx[t].winner \in Users /\ tx[t].winner # NoUser
  BY CommitDecides, Nobody
<1>2. slots' = IF SeatsFinal(t) /\ slots["final"].status = "absent"
               THEN [decided EXCEPT !["final"] =
                       ReadySlot(Finalists(t)["semifinal 1"], Finalists(t)["semifinal 2"])]
               ELSE decided
  BY DEF CommitFinalize, SlotsWritten
<1>3. /\ decided[own].winner = tx[t].winner /\ decided[own].status = "finished"
      /\ \A s \in Slots \ {own} : decided[s] = slots[s]
  BY <1>1 DEF TablesOK, SlotRows, Decided
<1>4. CASE own \notin Semifinals
  BY <1>2, <1>4 DEF SeatsFinal
<1>5. CASE own \in Semifinals
  <2>1. decided["final"].status = "absent" /\ slots["final"].status = "absent"
    BY <1>1, <1>3, <1>5, CommitWrites, SlotNames
  <2>2. \A s \in Semifinals : Finalists(t)[s] = decided[s].winner
    <3>1. semis[t] \in [Semifinals -> Users \cup {NoUser, Unread}]
      BY DEF TransactionsOK
    <3>2. \A s \in Semifinals : Finalists(t)[s] = IF s = own THEN tx[t].winner ELSE semis[t][s]
      BY <3>1 DEF Finalists
    <3>3. \A s \in Semifinals : semis[t][s] = slots[s].winner
      BY <1>1 DEF CupHeld
    <3>4. \A s \in Semifinals \ {own} : decided[s].winner = slots[s].winner
      BY <1>3, SlotNames
    <3>. HIDE DEF decided, own
    <3>. QED
      BY <1>3, <3>2, <3>3, <3>4
  <2>3. \A s \in Semifinals : decided[s].status = "finished" <=> decided[s].winner # NoUser
    <3>1. \A s \in Semifinals \ {own} : slots[s].status = "finished" <=> slots[s].winner # NoUser
      BY SlotNames DEF Bracketed, Decisive
    <3>2. \A s \in Semifinals \ {own} : decided[s] = slots[s]
      BY <1>3, SlotNames
    <3>. HIDE DEF decided, own
    <3>. QED
      BY <1>1, <1>3, <3>1, <3>2
  <2>4. SeatsFinal(t) <=> \A s \in Semifinals : decided[s].winner # NoUser
    BY <1>1, <1>5, <2>2 DEF SeatsFinal
  <2>. HIDE DEF decided
  <2>5. ensureMemoryFinal(decided)
          = IF \A s \in Semifinals : decided[s].winner # NoUser THEN [decided EXCEPT !["final"] = f] ELSE decided
    BY <2>1, <2>3 DEF ensureMemoryFinal
  <2>6. slots' = IF \A s \in Semifinals : decided[s].winner # NoUser THEN [decided EXCEPT !["final"] = f] ELSE decided
    BY <1>2, <2>1, <2>2, <2>4, SlotNames
  <2>. QED
    BY <1>5, <2>5, <2>6 DEF decided
<1>. QED
  BY <1>4, <1>5

\* A finalization that commits in the database is one the memory carries out.
LEMMA CommitTwinned ==
  ASSUME Inv, BracketInv, Twinned, NEW t \in Tx, CommitFinalize(t),
         memory' = finalizeMatch(memory, tx[t].key, tx[t].winner, tx[t].loser)
  PROVE  Twinned'
<1>0. PICK status : memory = Books(accounts, matches, entries, slots, CupBook(status, cup.winner), banned)
  BY DEF Twinned
<1>1. Is(t, "finalize") /\ Locked(t) = PlayersIn(t) /\ UNCHANGED <<entries, banned>>
  BY DEF CommitFinalize, AccountsLocked, banVars
<1>2. tx[t].key \in Keys /\ matches[tx[t].key] = NoMatch /\ PlayersIn(t) \subseteq Users
  BY <1>1, FinalizeIs DEF Inv, OneAttempt
<1>3. PICK k, w, l : k = tx[t].key /\ w = tx[t].winner /\ l = tx[t].loser
  OBVIOUS
<1>. DEFINE own == SlotOf[k]
            ratings == [u \in Users |-> accounts[u].rating]
            paid == Books(accounts', matches', entries, slots, CupBook(status, cup.winner), banned)
            decided == [slots EXCEPT ![own] = Decided(@, k, w)]
            seated == IF own \in Semifinals THEN ensureMemoryFinal(decided) ELSE decided
            crowned == IF own \in Semifinals THEN CupBook(status, cup.winner)
                       ELSE [status |-> "finished", winner |-> w]
<1>4. accounts' = AccountsAfter(accounts, w, l, ratings)
  <2>1. \A u \in Participants(w, l) : u \in Users /\ seen[t][u] = ratings[u]
    BY <1>1, <1>2, <1>3 DEF Locked, Inv, LocksRead, PlayersIn
  <2>2. accounts' = AccountsAfter(accounts, w, l, seen[t])
    BY <1>3 DEF CommitFinalize
  <2>. HIDE DEF ratings
  <2>. QED
    BY <2>1, <2>2 DEF AccountsAfter, ratings
<1>5. matches' = [matches EXCEPT ![k] = [winner |-> w, loser |-> l]]
  BY <1>3 DEF CommitFinalize
<1>6. [memory EXCEPT !.matches[k] = [winner |-> w, loser |-> l],
                     !.accounts = AccountsAfter(@, w, l, [u \in Users |-> @[u].rating])] = paid
  <2>. DEFINE cupBook == CupBook(status, cup.winner)
              result == [winner |-> w, loser |-> l]
              recorded == [memory EXCEPT !.matches[k] = result]
              after(x) == AccountsAfter(x, w, l, [u \in Users |-> x[u].rating])
  <2>1. memory = Books(accounts, matches, entries, slots, cupBook, banned)
    BY <1>0
  <2>2. recorded = [memory EXCEPT !.matches = [memory.matches EXCEPT ![k] = result]]
    OBVIOUS
  <2>3. [memory EXCEPT !.matches[k] = result, !.accounts = AccountsAfter(@, w, l, [u \in Users |-> @[u].rating])]
          = [recorded EXCEPT !.accounts = after(recorded.accounts)]
    OBVIOUS
  <2>. HIDE DEF cupBook, recorded, result
  <2>4. recorded = Books(accounts, matches', entries, slots, cupBook, banned)
    <3>1. memory.matches = matches
      BY <2>1, BookIs
    <3>2. recorded = [memory EXCEPT !.matches = matches']
      BY <1>5, <2>2, <3>1 DEF result
    <3>. QED
      BY <2>1, <3>2, BookIs
  <2>5. recorded.accounts = accounts
    BY <2>4, BookIs
  <2>6. [recorded EXCEPT !.accounts = accounts'] = Books(accounts', matches', entries, slots, cupBook, banned)
    BY <2>4, BookIs
  <2>. QED
    BY <1>4, <2>3, <2>5, <2>6 DEF cupBook, result
<1>7. /\ memory.matches[k] = NoMatch /\ memory.slots = slots
      /\ paid.slots = slots /\ paid.cup = CupBook(status, cup.winner)
  BY <1>0, <1>2, <1>3, BookIs
<1>8. CASE own = NoSlot
  <2>1. UNCHANGED <<slots, cup>>
    BY <1>3, <1>8 DEF CommitFinalize, SlotFor
  <2>2. memory' = paid
    BY <1>3, <1>6, <1>7, <1>8 DEF finalizeMatch
  <2>. QED
    BY <1>1, <2>1, <2>2 DEF Twinned
<1>9. CASE own # NoSlot
  <2>1. SlotFor(t) = own
    BY <1>3 DEF SlotFor
  <2>2. SlotTakes(slots[own], w, l)
    BY <1>3, <1>9, <2>1 DEF CommitFinalize, SlotReady
  <2>3. memory' = [paid EXCEPT !.slots = seated, !.cup = crowned]
    BY <1>3, <1>6, <1>7, <1>9, <2>2 DEF finalizeMatch
  <2>4. memory' = Books(accounts', matches', entries, seated, crowned, banned)
    <3>. DEFINE cupBook == CupBook(status, cup.winner)
                one == [paid EXCEPT !.slots = seated]
    <3>1. paid = Books(accounts', matches', entries, slots, cupBook, banned)
      OBVIOUS
    <3>2. memory' = [one EXCEPT !.cup = crowned]
      BY <2>3
    <3>. HIDE DEF paid, seated, crowned, cupBook
    <3>3. one = Books(accounts', matches', entries, seated, cupBook, banned)
      BY <3>1, BookIs
    <3>. HIDE DEF one
    <3>. QED
      BY <3>2, <3>3, BookIs
  <2>5. crowned = CupBook(crowned.status, cup'.winner)
    <3>1. cup' = CupAfter(cup, own, w) /\ own \in Slots
      BY <1>2, <1>3, <1>9, <2>1, RulesAssumption DEF CommitFinalize
    <3>2. CASE own \in Semifinals
      BY <3>1, <3>2, SlotNames DEF CupAfter, CupBook
    <3>3. CASE own = "final"
      BY <3>1, <3>3, SlotNames DEF CupAfter, CupBook
    <3>. QED
      BY <3>1, <3>2, <3>3, SlotNames
  <2>6. seated = slots'
    BY <1>3, <1>9, <2>1, CommitSeatsTwin
  <2>. QED
    BY <1>1, <2>4, <2>5, <2>6 DEF Twinned
<1>. QED
  BY <1>8, <1>9

\* An entrant the database enters is entered in the memory.
LEMMA JoinTwinned ==
  ASSUME Inv, BracketInv, Twinned, NEW t \in Tx, CommitJoin(t), memory' = joinTournament(memory, tx[t].user)
  PROVE  Twinned'
<1>0. PICK status : memory = Books(accounts, matches, entries, slots, CupBook(status, cup.winner), banned)
  BY DEF Twinned
<1>1. PICK u : u = tx[t].user
  OBVIOUS
<1>2. /\ ~(\E i \in DOMAIN entries : entries[i] = u) /\ entries' = Append(entries, u)
      /\ Len(entries') = Len(entries) + 1 /\ Len(entries) \in Nat /\ Len(entries) < Capacity
      /\ \A s \in Slots : slots[s] = AbsentSlot
  BY <1>1, JoinWrites DEF Entered
<1>3. /\ UNCHANGED <<accounts, matches, banned>>
      /\ IF Len(entries') = Capacity
         THEN slots' = Bracket(entries') /\ cup' = [cup EXCEPT !.status = "running"]
         ELSE UNCHANGED <<slots, cup>>
  BY DEF CommitJoin, banVars
<1>4. cup'.winner = cup.winner
  <2>1. cup' = [cup EXCEPT !.status = "running"] \/ cup' = cup
    BY <1>3
  <2>. QED
    BY <2>1 DEF Inv, TablesOK
<1>5. ~(Len(entries) >= Capacity) /\ (Len(entries') < Capacity <=> Len(entries') # Capacity)
  <2>. DEFINE n == Len(entries)
              n2 == Len(entries')
  <2>1. n2 = n + 1 /\ n \in Nat /\ n < 4 /\ Capacity = 4
    BY <1>2, SlotNames
  <2>. HIDE DEF n, n2
  <2>2. ~(n >= Capacity) /\ (n2 < Capacity <=> n2 # Capacity)
    BY <2>1
  <2>. QED
    BY <2>2 DEF n, n2
<1>6. PICK now : memory' =
        Books(accounts, matches, entries',
              IF Len(entries') < Capacity \/ \E semi \in Semifinals : slots[semi].status # "absent"
              THEN slots ELSE Bracket(entries'),
              CupBook(now, cup.winner), banned)
  <2>1. entries' = EntrantsWith(u)
    BY <1>2 DEF EntrantsWith, Entered
  <2>. QED
    BY <1>0, <1>1, <1>5, <2>1, MemoryJoins
<1>7. ~(\E semi \in Semifinals : slots[semi].status # "absent")
  BY <1>2, SlotNames
<1>8. slots' = IF Len(entries') < Capacity \/ \E semi \in Semifinals : slots[semi].status # "absent"
               THEN slots ELSE Bracket(entries')
  BY <1>3, <1>5, <1>7
<1>. QED
  BY <1>3, <1>4, <1>6, <1>8 DEF Twinned

\* An entrant who asks again stays entered once, and the bracket as it is.
LEMMA JoinAgainTwinned ==
  ASSUME Inv, BracketInv, Twinned, NEW t \in Tx, JoinAgain(t), memory' = joinTournament(memory, tx[t].user)
  PROVE  Twinned'
<1>0. PICK status : memory = Books(accounts, matches, entries, slots, CupBook(status, cup.winner), banned)
  BY DEF Twinned
<1>1. UNCHANGED <<accounts, matches, entries, slots, cup, banned>> /\ Entered(tx[t].user)
  BY DEF JoinAgain, tables, banVars
<1>2. PICK u : u = tx[t].user
  OBVIOUS
<1>3. Entered(u) /\ EntrantsWith(u) = entries
  BY <1>1, <1>2 DEF EntrantsWith
<1>4. PICK now : memory' =
        Books(accounts, matches, entries,
              IF Len(entries) < Capacity \/ \E semi \in Semifinals : slots[semi].status # "absent"
              THEN slots ELSE Bracket(entries),
              CupBook(now, cup.winner), banned)
  BY <1>0, <1>2, <1>3, MemoryJoins
<1>5. Len(entries) < Capacity \/ \E semi \in Semifinals : slots[semi].status # "absent"
  <2>. DEFINE n == Len(entries)
  <2>0. entries \in Seq(Users) /\ n <= 4
    BY DEF Inv, TablesOK, Capacity
  <2>1. n \in Nat /\ n <= 4
    BY <2>0
  <2>2. n = 4 => slots["semifinal 1"].status # "absent"
    BY SlotNames DEF BracketInv, Bracketed, Seeded
  <2>. HIDE DEF n
  <2>3. n < 4 \/ n = 4
    BY <2>1
  <2>. QED
    BY <2>2, <2>3, SlotNames DEF n
<1>. QED
  BY <1>1, <1>4, <1>5 DEF Twinned

LEMMA StartTwinned ==
  ASSUME Inv, Twinned, NEW k \in Keys, StartTournamentMatch(k), memory' = startTournamentMatch(memory, SlotOf[k])
  PROVE  Twinned'
<1>0. PICK status : memory = Books(accounts, matches, entries, slots, CupBook(status, cup.winner), banned)
  BY DEF Twinned
<1>. DEFINE own == SlotOf[k]
            cupBook == CupBook(status, cup.winner)
<1>1. /\ slots' = [slots EXCEPT ![own].status = "running"] /\ slots[own].status # "absent"
      /\ UNCHANGED <<accounts, matches, entries, cup, banned>>
  BY DEF StartTournamentMatch, banVars
<1>2. memory = Books(accounts, matches, entries, slots, cupBook, banned)
  BY <1>0
<1>. HIDE DEF cupBook
<1>3. memory.slots = slots
  BY <1>2, BookIs
<1>4. memory' = [memory EXCEPT !.slots[own].status = "running"]
  BY <1>1, <1>3 DEF startTournamentMatch
<1>5. memory' = [memory EXCEPT !.slots = slots']
  BY <1>1, <1>3, <1>4
<1>6. memory' = Books(accounts, matches, entries, slots', cupBook, banned)
  BY <1>2, <1>5, BookIs
<1>. QED
  BY <1>1, <1>6 DEF Twinned, cupBook

LEMMA BanTwinned ==
  ASSUME Inv, Twinned, NEW t \in Tx, CommitBan(t), memory' = setUserBan(memory, tx[t].user, tx[t].ban)
  PROVE  Twinned'
<1>0. PICK status : memory = Books(accounts, matches, entries, slots, CupBook(status, cup.winner), banned)
  BY DEF Twinned
<1>. DEFINE cupBook == CupBook(status, cup.winner)
<1>1. /\ banned' = IF tx[t].ban THEN banned \cup {tx[t].user} ELSE banned \ {tx[t].user}
      /\ UNCHANGED <<accounts, matches, entries, slots, cup>>
  BY DEF CommitBan, tables
<1>2. memory = Books(accounts, matches, entries, slots, cupBook, banned)
  BY <1>0
<1>. HIDE DEF cupBook
<1>3. memory.banned = banned
  BY <1>2, BookIs
<1>4. memory' = [memory EXCEPT !.banned = banned']
  BY <1>1, <1>3 DEF setUserBan
<1>5. memory' = Books(accounts, matches, entries, slots, cupBook, banned')
  BY <1>2, <1>4, BookIs
<1>. QED
  BY <1>1, <1>5 DEF Twinned, cupBook

\* What does not show in the tables does not show in the memory.
LEMMA QuietTwinned ==
  ASSUME Twinned, UNCHANGED <<tables, banned, memory>>
  PROVE  Twinned'
BY DEF Twinned, tables

\* A finalization whose key is taken finds it taken in the memory.
LEMMA ExistingTwinned ==
  ASSUME Twinned, NEW k \in Keys, FindExisting(k),
         memory' = finalizeMatch(memory, k, outcome[k].winner, outcome[k].loser)
  PROVE  Twinned'
<1>0. PICK status : memory = Books(accounts, matches, entries, slots, CupBook(status, cup.winner), banned)
  BY DEF Twinned
<1>1. matches[k] # NoMatch /\ UNCHANGED <<tables, banned>>
  BY DEF FindExisting, banVars
<1>2. memory.matches[k] # NoMatch
  BY <1>0, <1>1, BookIs
<1>3. memory' = memory
  BY <1>2 DEF finalizeMatch
<1>. QED
  BY <1>1, <1>3, QuietTwinned

-----------------------------------------------------------------------------
LEMMA TwinsTogether ==
  ASSUME Inv, BracketInv, Twinned, [TwinNext]_twinVars
  PROVE  [Next]_vars /\ Twinned'
<1>1. ASSUME NEW t \in Tx, CommitFinalize(t),
             memory' = finalizeMatch(memory, tx[t].key, tx[t].winner, tx[t].loser)
      PROVE  [Next]_vars /\ Twinned'
  BY <1>1, CommitTwinned DEF Next
<1>2. ASSUME NEW k \in Keys, FindExisting(k),
             memory' = finalizeMatch(memory, k, outcome[k].winner, outcome[k].loser)
      PROVE  [Next]_vars /\ Twinned'
  BY <1>2, ExistingTwinned DEF Next
<1>3. ASSUME NEW t \in Tx, CommitJoin(t), memory' = joinTournament(memory, tx[t].user)
      PROVE  [Next]_vars /\ Twinned'
  BY <1>3, JoinTwinned DEF Next
<1>4. ASSUME NEW t \in Tx, JoinAgain(t), memory' = joinTournament(memory, tx[t].user)
      PROVE  [Next]_vars /\ Twinned'
  BY <1>4, JoinAgainTwinned DEF Next
<1>5. ASSUME NEW k \in Keys, StartTournamentMatch(k), memory' = startTournamentMatch(memory, SlotOf[k])
      PROVE  [Next]_vars /\ Twinned'
  BY <1>5, StartTwinned DEF Next
<1>6. ASSUME NEW t \in Tx, CommitBan(t), memory' = setUserBan(memory, tx[t].user, tx[t].ban)
      PROVE  [Next]_vars /\ Twinned'
  BY <1>6, BanTwinned DEF Next
<1>7. ASSUME Uncommitted, UNCHANGED memory PROVE [Next]_vars /\ Twinned'
  <2>1. UNCHANGED tables
    <3>1. \A t \in Tx : UNCHANGED tables
      BY <1>7, OthersKeepTables
    <3>. QED
      BY <1>7, <3>1 DEF Uncommitted
  <2>2. UNCHANGED banned
    BY <1>7, Zenon DEF Uncommitted, CheckReference, LockParticipant, LockSlot, LockCup, DeadlockVictim,
       Rollback, InsertMatch, BeginJoin, BeginBan, banVars
  <2>. QED
    BY <1>7, <2>1, <2>2, QuietTwinned DEF Next
<1>8. CASE UNCHANGED twinVars
  BY <1>8, QuietTwinned DEF twinVars, vars, banVars
<1>. QED
  BY <1>1, <1>2, <1>3, <1>4, <1>5, <1>6, <1>7, <1>8 DEF TwinNext

\* The memory repository keeps up with PostgreSQL: TwinsAgree holds always
\* (MemoryRepository against PostgresRepository, index.ts:956-965).
THEOREM TwinsAgreeAlways == TwinSpec => []TwinsAgree
<1>1. TwinInit => Init /\ Twinned
  <2> SUFFICES ASSUME TwinInit PROVE Twinned
    BY DEF TwinInit
  <2>1. /\ accounts = [u \in Users |-> InitialAccount] /\ matches = [k \in Keys |-> NoMatch]
        /\ slots = [s \in Slots |-> AbsentSlot] /\ cup.winner = NoUser /\ banned = {}
        /\ memory = NewMemory(entries)
    BY DEF TwinInit, Init
  <2>2. memory = Books(accounts, matches, entries, slots, CupBook("open", cup.winner), banned)
    BY <2>1 DEF NewMemory, Books, CupBook
  <2>. QED
    BY <2>2 DEF Twinned
<1>2. Inv /\ BracketInv /\ Twinned /\ [TwinNext]_twinVars => [Next]_vars /\ (Inv /\ BracketInv /\ Twinned)'
  <2> SUFFICES ASSUME Inv, BracketInv, Twinned, [TwinNext]_twinVars
               PROVE  [Next]_vars /\ Inv' /\ BracketInv' /\ Twinned'
    OBVIOUS
  <2>1. [Next]_vars /\ Twinned'
    BY TwinsTogether
  <2>. QED
    BY <2>1, BracketStep
<1>3. Twinned => TwinsAgree
  <2> SUFFICES ASSUME NEW status,
                      memory = Books(accounts, matches, entries, slots, CupBook(status, cup.winner), banned)
               PROVE  TwinsAgree
    BY DEF Twinned
  <2>. QED
    BY BookIs, CupBookIs DEF TwinsAgree
<1>4. Init => Inv /\ BracketInv
  BY InitiallyHolds, BracketInitially
<1>. QED
  BY <1>1, <1>2, <1>3, <1>4, PTL DEF TwinSpec
=============================================================================
