--------------------------- MODULE PostgresResults ---------------------------
(***************************************************************************)
(* PostgresRepository (packages/db/src/index.ts): results, tournament      *)
(* entries and bans as transactions of several statements, run on several  *)
(* connections at once.  A statement that takes a row lock is an action;   *)
(* what a transaction wrote shows at its commit, as under READ COMMITTED.  *)
(* The server may lose a transaction before its commit, or the answer of   *)
(* a commit that took place; the room then asks again with the same key.   *)
(*                                                                         *)
(* Row locks are PostgreSQL's: FOR UPDATE excludes every other lock, an    *)
(* UPDATE of a column that is no key excludes all but FOR KEY SHARE, and a *)
(* row inserted with a foreign key takes FOR KEY SHARE on the row it       *)
(* refers to.                                                              *)
(***************************************************************************)
EXTENDS ResultRules, FiniteSets

CONSTANTS
  Tx,        \* database connections
  Joiners,   \* the users who ask to enter the tournament
  PlayersOf, \* the players of a room that plays for no slot, winner first
  FirstOpened, \* the rooms without a slot that play, by the first entries
  Targets,   \* the users the admin bans and unbans
  Admin,     \* the account of the admin who bans
  MaxBans    \* bound: bans and unbans

NoTx == "none"

ASSUME PostgresAssumption ==
  /\ NoTx \notin Tx
  /\ Joiners \subseteq Users /\ Targets \subseteq Users
  /\ FirstOpened \in [FirstEntries -> SUBSET {k \in Keys : SlotOf[k] = NoSlot}]
  /\ PlayersOf \in [Keys -> Users \X Users]
  /\ \A k \in Keys : PlayersOf[k][1] # PlayersOf[k][2]
  /\ Admin \in Users
  /\ MaxBans \in Nat

VARIABLES
  accounts,  \* users: rating, wins and losses
  history,   \* rating_history: the rows of every user, oldest first
  matches,   \* matches: winner and loser by result_key
  entries,   \* tournament_entries, in order of the seeds
  slots,     \* tournament_matches
  cup,       \* tournaments: status and winner
  opened,    \* rooms whose match has been started
  outcome,   \* the result a room has come to, the same in every attempt
  answered,  \* rooms that have been answered about their result
  tx,        \* the command of the transaction on each connection
  keyShare,  \* holders of FOR KEY SHARE on the users rows
  lock,      \* the holder of FOR UPDATE on the users rows
  writer,    \* the holder of the lock of an UPDATE on the users rows
  seen,      \* the ratings a transaction has read under its locks
  semis,     \* the winners of finished semifinals a transaction has read
  slotLock,  \* the holder of FOR UPDATE on the tournament_matches rows
  cupLock,   \* the holder of FOR UPDATE on the tournaments row
  banned,    \* users whose status is banned
  actions    \* the number of admin_actions rows

tables == <<accounts, history, matches, entries, slots, cup>>
roomVars == <<opened, outcome, answered>>
lockVars == <<keyShare, lock, writer, slotLock, cupLock>>
readVars == <<seen, semis>>
banVars == <<banned, actions>>
vars == <<tables, roomVars, tx, readVars, lockVars, banVars>>

Ledger == INSTANCE ResultLedger
  WITH results <- matches,
       seats <- [s \in Slots |-> [left |-> slots[s].left, right |-> slots[s].right,
                                  winner |-> slots[s].winner, match |-> slots[s].match]],
       champion <- cup.winner

NothingRead == [u \in Users |-> 0]
Unread == -1
SemisUnread == [s \in Semifinals |-> Unread]
Idle == [op |-> "idle"]
Finalize(k, result) == [op |-> "finalize", key |-> k, winner |-> result.winner, loser |-> result.loser]
Join(u) == [op |-> "join", user |-> u]
SetBan(u, ban) == [op |-> "ban", user |-> u, ban |-> ban]

Commands ==
  {Idle} \cup [op : {"finalize"}, key : Keys, winner : Users \cup {NoUser}, loser : Users \cup {NoUser}]
         \cup [op : {"join"}, user : Users] \cup [op : {"ban"}, user : Users, ban : BOOLEAN]

Init ==
  /\ accounts = [u \in Users |-> InitialAccount]
  /\ history = [u \in Users |-> <<>>]
  /\ matches = [k \in Keys |-> NoMatch]
  /\ entries \in FirstEntries
  /\ slots = [s \in Slots |-> AbsentSlot]
  /\ cup = [status |-> "open", winner |-> NoUser]
  /\ opened = FirstOpened[entries]
  /\ outcome = [k \in Keys |-> NoMatch]
  /\ answered = {}
  /\ tx = [t \in Tx |-> Idle]
  /\ keyShare = [u \in Users |-> {}]
  /\ lock = [u \in Users |-> NoTx]
  /\ writer = [u \in Users |-> NoTx]
  /\ seen = [t \in Tx |-> NothingRead]
  /\ semis = [t \in Tx |-> SemisUnread]
  /\ slotLock = [s \in Slots |-> NoTx]
  /\ cupLock = NoTx
  /\ banned = {}
  /\ actions = 0

-----------------------------------------------------------------------------
(* Rows and locks.  (Here and below, an operator Mut... is a plausible     *)
(* slip in what follows it, put in its place to see that the properties    *)
(* notice.)                                                                *)

Is(t, op) == tx[t].op = op
PlayersIn(t) == Participants(tx[t].winner, tx[t].loser)
SlotFor(t) == SlotOf[tx[t].key]
Entered(u) == \E i \in DOMAIN entries : entries[i] = u
MutAdmits(u) == ~Entered(u)

Admits(u) == ~Entered(u) /\ Len(entries) < Capacity

\* Nobody else holds a lock on the users row that FOR UPDATE has to wait for.
RowFree(t, u) ==
  /\ keyShare[u] \subseteq {t}
  /\ lock[u] = NoTx
  /\ writer[u] \in {NoTx, t}

Locked(t) == {u \in PlayersIn(t) : lock[u] = t}

\* The participant whose row is locked next: ids in sorted order.
NextToLock(t) ==
  CHOOSE u \in PlayersIn(t) \ Locked(t) : \A v \in PlayersIn(t) \ Locked(t) : u <= v

\* The winners of the semifinals as a finalization sees them: its own update
\* and what it has read.  It inserts the final when both are there.
HasRead(t) == semis[t] # SemisUnread
Finalists(t) == [semis[t] EXCEPT ![SlotFor(t)] = tx[t].winner]
SeatsFinal(t) ==
  /\ SlotFor(t) \in Semifinals
  /\ HasRead(t)
  /\ \A s \in Semifinals : Finalists(t)[s] # NoUser

\* The users the rows a transaction has inserted so far refer to, in the order
\* in which the references are checked.
Pair(a, b) == SelectSeq(<<a, b>>, LAMBDA u : u # NoUser)
References(t) ==
  CASE Is(t, "finalize") ->
         Pair(tx[t].winner, tx[t].loser) \o
         (IF SeatsFinal(t) THEN Pair(Finalists(t)["semifinal 1"], Finalists(t)["semifinal 2"]) ELSE <<>>)
    [] Is(t, "join") /\ Admits(tx[t].user) ->
         <<tx[t].user>> \o (IF Len(entries) + 1 = Capacity THEN entries ELSE <<>>)
    [] Is(t, "ban") -> <<Admin, tx[t].user>>
    [] OTHER -> <<>>
Unchecked(t) == SelectSeq(References(t), LAMBDA u : t \notin keyShare[u])
ReferencesChecked(t) == Unchecked(t) = <<>>

\* Commit and rollback both end the transaction and give back its locks.
EndTransaction(t) ==
  /\ tx' = [tx EXCEPT ![t] = Idle]
  /\ keyShare' = [u \in Users |-> keyShare[u] \ {t}]
  /\ lock' = [u \in Users |-> IF lock[u] = t THEN NoTx ELSE lock[u]]
  /\ writer' = [u \in Users |-> IF writer[u] = t THEN NoTx ELSE writer[u]]
  /\ slotLock' = [s \in Slots |-> IF slotLock[s] = t THEN NoTx ELSE slotLock[s]]
  /\ cupLock' = IF cupLock = t THEN NoTx ELSE cupLock
  /\ seen' = [seen EXCEPT ![t] = NothingRead]
  /\ semis' = [semis EXCEPT ![t] = SemisUnread]

\* The room hears of its result, or the answer is lost on the way.
Answer(k) == answered' \in {answered, answered \cup {k}}

-----------------------------------------------------------------------------
(* Beginning: a finished room, a user, an admin.                           *)

\* startTournamentMatch: one statement, which waits for a finalization that
\* holds the row and then looks at the status again.
StartTournamentMatch(k) ==
  /\ SlotOf[k] # NoSlot
  /\ k \notin opened
  /\ slotLock[SlotOf[k]] = NoTx
  /\ slots[SlotOf[k]].status \in {"ready", "running"}
  /\ slots' = [slots EXCEPT ![SlotOf[k]].status = "running"]
  /\ opened' = opened \cup {k}
  /\ UNCHANGED <<accounts, history, matches, entries, cup, outcome, answered>>
  /\ UNCHANGED <<tx, readVars, lockVars, banVars>>

\* The results the players of a room can bring about.
Results(k) ==
  IF SlotOf[k] = NoSlot
  THEN {[winner |-> PlayersOf[k][1], loser |-> PlayersOf[k][2]]}
  ELSE LET slot == slots[SlotOf[k]]
       IN {[winner |-> slot.left, loser |-> slot.right], [winner |-> slot.right, loser |-> slot.left]}

MutKeyPending(k) == FALSE

\* Another transaction has inserted the key and may yet roll back: the insert waits for it.
KeyPending(k) == \E t \in Tx : Is(t, "finalize") /\ tx[t].key = k

\* finalizeMatch is called, again if the room has had no answer: an earlier
\* attempt may still be running on another connection.  Its first statement
\* inserts the matches row.
InsertMatch(t, k) ==
  /\ Is(t, "idle")
  /\ k \in opened \ answered
  /\ ~KeyPending(k)
  /\ matches[k] = NoMatch
  /\ \E result \in IF outcome[k] = NoMatch THEN Results(k) ELSE {outcome[k]} :
       /\ outcome' = [outcome EXCEPT ![k] = result]
       /\ tx' = [tx EXCEPT ![t] = Finalize(k, result)]
  /\ UNCHANGED <<tables, opened, answered, readVars, lockVars, banVars>>

MutFindExisting(k) ==
  /\ k \in opened \ answered
  /\ KeyPending(k) \/ matches[k] # NoMatch
  /\ answered' = answered \cup {k}
  /\ UNCHANGED <<tables, opened, outcome, tx, readVars, lockVars, banVars>>

\* The key is taken: the existing result is the answer.
FindExisting(k) ==
  /\ k \in opened \ answered
  /\ ~KeyPending(k)
  /\ matches[k] # NoMatch
  /\ answered' = answered \cup {k}
  /\ UNCHANGED <<tables, opened, outcome, tx, readVars, lockVars, banVars>>

\* joinTournament: select capacity from tournaments ... for update
BeginJoin(t, u) ==
  /\ Is(t, "idle")
  /\ cupLock = NoTx
  /\ cupLock' = t
  /\ tx' = [tx EXCEPT ![t] = Join(u)]
  /\ UNCHANGED <<tables, roomVars, readVars, keyShare, lock, writer, slotLock, banVars>>

\* setUserBan: update users set status = ...
BeginBan(t, u) ==
  /\ Is(t, "idle")
  /\ actions < MaxBans
  /\ lock[u] = NoTx /\ writer[u] = NoTx
  /\ writer' = [writer EXCEPT ![u] = t]
  /\ tx' = [tx EXCEPT ![t] = SetBan(u, u \notin banned)]
  /\ UNCHANGED <<tables, roomVars, readVars, keyShare, lock, slotLock, cupLock, banVars>>

-----------------------------------------------------------------------------
(* The statements of finalizeMatch.                                        *)

\* The check of one foreign key of what has been inserted.
CheckReference(t) ==
  /\ ~ReferencesChecked(t)
  /\ LET u == Head(Unchecked(t)) IN
       /\ lock[u] \in {NoTx, t}
       /\ keyShare' = [keyShare EXCEPT ![u] = @ \cup {t}]
  /\ UNCHANGED <<tables, roomVars, tx, lock, writer, readVars, slotLock, cupLock, banVars>>

\* select ... from users where id = ... for update
LocksNext(t) ==
  /\ Is(t, "finalize")
  /\ ReferencesChecked(t)
  /\ Locked(t) # PlayersIn(t)

\* A plain SELECT: it waits for nobody, and what was read stays as it was.
MutLockParticipant(t) ==
  /\ LocksNext(t)
  /\ LET u == NextToLock(t) IN
       /\ lock' = [lock EXCEPT ![u] = t]
       /\ seen' = [seen EXCEPT ![t][u] = IF @ = 0 THEN accounts[u].rating ELSE @]
  /\ UNCHANGED <<tables, roomVars, tx, keyShare, writer, semis, slotLock, cupLock, banVars>>

LockParticipant(t) ==
  /\ LocksNext(t)
  /\ LET u == NextToLock(t) IN
       /\ RowFree(t, u)
       /\ lock' = [lock EXCEPT ![u] = t]
       /\ seen' = [seen EXCEPT ![t][u] = accounts[u].rating]
  /\ UNCHANGED <<tables, roomVars, tx, keyShare, writer, semis, slotLock, cupLock, banVars>>

AccountsLocked(t) ==
  /\ Is(t, "finalize")
  /\ Locked(t) = PlayersIn(t)

LockSlot(t) ==
  /\ AccountsLocked(t)
  /\ SlotFor(t) # NoSlot
  /\ slotLock[SlotFor(t)] = NoTx
  /\ slotLock' = [slotLock EXCEPT ![SlotFor(t)] = t]
  /\ UNCHANGED <<tables, roomVars, tx, keyShare, lock, writer, readVars, cupLock, banVars>>

\* select ... from tournaments ... for update, and then the finished semifinals
WantsCup(t) == AccountsLocked(t) /\ SlotFor(t) # NoSlot /\ slotLock[SlotFor(t)] = t /\ ~HasRead(t)

MutLockCup(t) ==
  /\ WantsCup(t)
  /\ semis' = [semis EXCEPT ![t] = [s \in Semifinals |->
                 IF slots[s].status = "finished" THEN slots[s].winner ELSE NoUser]]
  /\ UNCHANGED <<tables, roomVars, tx, seen, lockVars, banVars>>

LockCup(t) ==
  /\ WantsCup(t)
  /\ cupLock = NoTx
  /\ cupLock' = t
  /\ semis' = [semis EXCEPT ![t] = [s \in Semifinals |->
                 IF slots[s].status = "finished" THEN slots[s].winner ELSE NoUser]]
  /\ UNCHANGED <<tables, roomVars, tx, keyShare, lock, writer, seen, slotLock, banVars>>

SlotReady(t) ==
  SlotFor(t) # NoSlot => HasRead(t) /\ SlotTakes(slots[SlotFor(t)], tx[t].winner, tx[t].loser)

\* The tournament_matches rows as the transaction leaves them.
SlotsWritten(t) ==
  LET decided == [slots EXCEPT ![SlotFor(t)] = Decided(@, tx[t].key, tx[t].winner)]
  IN IF SeatsFinal(t) /\ slots["final"].status = "absent"
     THEN [decided EXCEPT !["final"] =
             ReadySlot(Finalists(t)["semifinal 1"], Finalists(t)["semifinal 2"])]
     ELSE decided

\* The rating_history row, computed like the account from the rating read under the lock.
HistoryRow(t, u) ==
  [key |-> tx[t].key, before |-> seen[t][u],
   after |-> IF u = tx[t].winner THEN AfterWin(seen[t][u]) ELSE AfterLoss(seen[t][u])]

CommitFinalize(t) ==
  /\ AccountsLocked(t)
  /\ SlotReady(t)
  /\ ReferencesChecked(t)
  /\ accounts' = AccountsAfter(accounts, tx[t].winner, tx[t].loser, seen[t])
  /\ history' = [u \in Users |-> IF u \in PlayersIn(t) THEN Append(history[u], HistoryRow(t, u)) ELSE history[u]]
  /\ matches' = [matches EXCEPT ![tx[t].key] = [winner |-> tx[t].winner, loser |-> tx[t].loser]]
  /\ IF SlotFor(t) = NoSlot
     THEN UNCHANGED <<slots, cup>>
     ELSE /\ slots' = SlotsWritten(t)
          /\ cup' = CupAfter(cup, SlotFor(t), tx[t].winner)
  /\ Answer(tx[t].key)
  /\ EndTransaction(t)
  /\ UNCHANGED <<entries, opened, outcome, banVars>>

-----------------------------------------------------------------------------
(* joinTournament and setUserBan.                                          *)

\* An entrant who asks again is answered with the tournament as it is.
JoinAgain(t) ==
  /\ Is(t, "join")
  /\ Entered(tx[t].user)
  /\ EndTransaction(t)
  /\ UNCHANGED <<tables, roomVars, banVars>>

CommitJoin(t) ==
  /\ Is(t, "join")
  /\ ReferencesChecked(t)
  /\ Admits(tx[t].user)
  /\ entries' = Append(entries, tx[t].user)
  /\ IF Len(entries') = Capacity
     THEN slots' = Bracket(entries') /\ cup' = [cup EXCEPT !.status = "running"]
     ELSE UNCHANGED <<slots, cup>>
  /\ EndTransaction(t)
  /\ UNCHANGED <<accounts, history, matches, roomVars, banVars>>

CommitBan(t) ==
  /\ Is(t, "ban")
  /\ ReferencesChecked(t)
  /\ banned' = IF tx[t].ban THEN banned \cup {tx[t].user} ELSE banned \ {tx[t].user}
  /\ actions' = actions + 1
  /\ EndTransaction(t)
  /\ UNCHANGED <<tables, roomVars>>

-----------------------------------------------------------------------------
(* Failures.                                                               *)

\* Transaction t waits for a lock that transaction other holds.
WaitsFor(t, other) ==
  /\ t # other
  /\ \/ (~ReferencesChecked(t) /\ lock[Head(Unchecked(t))] = other)
     \/ (LocksNext(t) /\ other \in keyShare[NextToLock(t)] \cup {lock[NextToLock(t)], writer[NextToLock(t)]})
     \/ (AccountsLocked(t) /\ SlotFor(t) # NoSlot /\ slotLock[SlotFor(t)] = other)
     \/ (WantsCup(t) /\ cupLock = other)

\* The database breaks a circular wait of two by failing one of them.
DeadlockVictim(t) ==
  /\ \E other \in Tx : WaitsFor(t, other) /\ WaitsFor(other, t)
  /\ EndTransaction(t)
  /\ UNCHANGED <<tables, roomVars, banVars>>

\* The code throws (a full tournament, a slot that is decided or not these
\* players'), or the connection or the process is lost: a rollback.
Rollback(t) ==
  /\ ~Is(t, "idle")
  /\ EndTransaction(t)
  /\ UNCHANGED <<tables, roomVars, banVars>>

-----------------------------------------------------------------------------
\* What shows to nobody else: statements before the commit, and rollbacks.
Uncommitted ==
  \/ \E t \in Tx :
       \/ CheckReference(t) \/ LockParticipant(t) \/ LockSlot(t) \/ LockCup(t)
       \/ DeadlockVictim(t) \/ Rollback(t)
       \/ \E k \in Keys : InsertMatch(t, k)
       \/ \E u \in Joiners : BeginJoin(t, u)
       \/ \E u \in Targets : BeginBan(t, u)

Next ==
  \/ \E t \in Tx : CommitFinalize(t) \/ JoinAgain(t) \/ CommitJoin(t) \/ CommitBan(t)
  \/ \E k \in Keys : FindExisting(k) \/ StartTournamentMatch(k)
  \/ Uncommitted

Spec == Init /\ [][Next]_vars

-----------------------------------------------------------------------------
(* Properties.                                                             *)

TypeOK ==
  /\ accounts \in [Users -> [rating : Nat, wins : Nat, losses : Nat]]
  /\ history \in [Users -> Seq([key : Keys, before : Nat, after : Nat])]
  /\ matches \in [Keys -> [winner : Users \cup {NoUser}, loser : Users \cup {NoUser}]]
  /\ entries \in Seq(Users) /\ Len(entries) <= Capacity
  /\ slots \in [Slots -> [status : {"absent", "ready", "running", "finished"},
                          left : Users \cup {NoUser}, right : Users \cup {NoUser},
                          winner : Users \cup {NoUser}, match : Keys \cup {NoKey}]]
  /\ cup \in [status : {"open", "running", "finished"}, winner : Users \cup {NoUser}]
  /\ opened \subseteq Keys
  /\ outcome \in [Keys -> [winner : Users \cup {NoUser}, loser : Users \cup {NoUser}]]
  /\ answered \subseteq Keys
  /\ tx \in [Tx -> Commands]
  /\ keyShare \in [Users -> SUBSET Tx]
  /\ lock \in [Users -> Tx \cup {NoTx}]
  /\ writer \in [Users -> Tx \cup {NoTx}]
  /\ seen \in [Tx -> [Users -> Nat]]
  /\ semis \in [Tx -> [Semifinals -> Users \cup {NoUser, Unread}]]
  /\ slotLock \in [Slots -> Tx \cup {NoTx}]
  /\ cupLock \in Tx \cup {NoTx}
  /\ banned \subseteq Users
  /\ actions \in Nat

\* No rating update is lost: the history of every account is a chain from the
\* first rating to the current one, each row starting where the one before
\* ended, and it has one row per win or loss, although ratings are read in one
\* statement and written as absolute values in a later one (index.ts:571-638).
RatingsFollowHistory ==
  \A u \in Users :
    LET rows == history[u] IN
    /\ \A i \in DOMAIN rows :
         rows[i].before = IF i = 1 THEN InitialRating ELSE rows[i - 1].after
    /\ accounts[u].rating = IF rows = <<>> THEN InitialRating ELSE rows[Len(rows)].after
    /\ accounts[u].wins + accounts[u].losses = Len(rows)

\* Every recorded result has paid each of its players exactly once, under
\* every number of attempts with its key (index.ts:520-555).
EachResultPaysOnce ==
  \A u \in Users :
    /\ \A i, j \in DOMAIN history[u] : history[u][i].key = history[u][j].key => i = j
    /\ \A k \in Keys : u \in {matches[k].winner, matches[k].loser}
                       <=> \E i \in DOMAIN history[u] : history[u][i].key = k

\* The bracket says what the results say: the final exists as soon as both
\* semifinals are decided, between their winners, although two finalizations
\* that end together each see only their own semifinal (index.ts:640-737), and
\* the semifinals are between the four entrants (index.ts:805-847, 924-945).
BracketFollowsResults ==
  /\ slots["final"].status # "absent" <=> \A s \in Semifinals : slots[s].status = "finished"
  /\ slots["final"].left = IF slots["final"].status = "absent" THEN NoUser ELSE slots["semifinal 1"].winner
  /\ slots["final"].right = IF slots["final"].status = "absent" THEN NoUser ELSE slots["semifinal 2"].winner
  /\ \A k \in Keys : SlotOf[k] # NoSlot /\ matches[k] # NoMatch =>
       LET slot == slots[SlotOf[k]]
       IN slot.match = k /\ slot.winner = matches[k].winner /\ slot.status = "finished"
  /\ cup.status = "finished" <=> slots["final"].status = "finished"
  /\ cup.winner = slots["final"].winner
  /\ cup.status = "open" <=> Len(entries) < Capacity
  /\ cup.status # "open" =>
       {entries[i] : i \in DOMAIN entries}
         = UNION {{slots[s].left, slots[s].right} : s \in Semifinals}

\* A room that has been answered finds its own result recorded, whichever of
\* its attempts the answer came from.
AnswersAreRecorded ==
  \A k \in answered : matches[k] = outcome[k] /\ matches[k] # NoMatch

\* The transactions implement the ledger: each commit is one of its steps.
Implements == Ledger!Spec
=============================================================================
