----------------------------- MODULE TwinResults -----------------------------
(***************************************************************************)
(* The two repositories side by side: every operation PostgreSQL commits   *)
(* is called, in the order of the commits, on a MemoryRepository.          *)
(***************************************************************************)
EXTENDS PostgresResults, MemoryResults

VARIABLE memory  \* the MemoryRepository

twinVars == <<vars, memory>>

TwinInit == Init /\ memory = NewMemory(entries)

TwinNext ==
  \/ \E t \in Tx : CommitFinalize(t)
       /\ memory' = finalizeMatch(memory, tx[t].key, tx[t].winner, tx[t].loser)
  \/ \E k \in Keys : FindExisting(k)
       /\ memory' = finalizeMatch(memory, k, outcome[k].winner, outcome[k].loser)
  \/ \E t \in Tx : (CommitJoin(t) \/ JoinAgain(t)) /\ memory' = joinTournament(memory, tx[t].user)
  \/ \E k \in Keys : StartTournamentMatch(k) /\ memory' = startTournamentMatch(memory, SlotOf[k])
  \/ \E t \in Tx : CommitBan(t) /\ memory' = setUserBan(memory, tx[t].user, tx[t].ban)
  \/ Uncommitted /\ UNCHANGED memory

TwinSpec == TwinInit /\ [][TwinNext]_twinVars

-----------------------------------------------------------------------------
\* The twins follow the same rules (index.ts:956-965): accounts, results,
\* entrants, the whole bracket, the champion and who is banned are the same in
\* both.  The tournament's status is left out: an entrant who asks again to
\* join a finished tournament reopens it in the memory repository only.
TwinsAgree ==
  /\ memory.accounts = accounts
  /\ memory.matches = matches
  /\ memory.entries = entries
  /\ memory.slots = slots
  /\ memory.cup.winner = cup.winner
  /\ memory.banned = banned
=============================================================================
