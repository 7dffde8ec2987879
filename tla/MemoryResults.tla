---------------------------- MODULE MemoryResults ----------------------------
(***************************************************************************)
(* The twin of PostgresRepository that keeps everything in arrays and maps *)
(* (MemoryRepository in packages/db/src/index.ts), for tests and for       *)
(* development without a database.  A method runs without interruption;    *)
(* each is an operator from the repository to the repository.  A call that *)
(* throws changes nothing.                                                 *)
(***************************************************************************)
EXTENDS ResultRules

NewMemory(seeds) ==
  [accounts |-> [u \in Users |-> InitialAccount],
   matches |-> [k \in Keys |-> NoMatch],
   entries |-> seeds,
   slots |-> [s \in Slots |-> AbsentSlot],
   cup |-> [status |-> "open", winner |-> NoUser],
   banned |-> {}]

\* The semifinals, once there are four entrants and no semifinals yet.
ensureMemoryBracket(memory) ==
  IF Len(memory.entries) < Capacity \/ \E s \in Semifinals : memory.slots[s].status # "absent"
  THEN memory
  ELSE [memory EXCEPT !.slots = Bracket(memory.entries)]

\* A slip in ensureMemoryFinal below.
MutMemoryFinal(slots) ==
  IF \/ slots["final"].status # "absent"
     \/ \E s \in Semifinals : slots[s].status # "finished" \/ slots[s].winner = NoUser
  THEN slots
  ELSE [slots EXCEPT !["final"] = ReadySlot(slots["semifinal 2"].winner, slots["semifinal 1"].winner)]

\* The final, once there are two finished semifinals and no final yet.
ensureMemoryFinal(slots) ==
  IF \/ slots["final"].status # "absent"
     \/ \E s \in Semifinals : slots[s].status # "finished" \/ slots[s].winner = NoUser
  THEN slots
  ELSE [slots EXCEPT !["final"] = ReadySlot(slots["semifinal 1"].winner, slots["semifinal 2"].winner)]

joinTournament(memory, u) ==
  LET alreadyJoined == \E i \in DOMAIN memory.entries : memory.entries[i] = u
      entries == IF alreadyJoined THEN memory.entries ELSE Append(memory.entries, u)
      status == IF Len(entries) >= Capacity THEN "running" ELSE "open"
  IN IF ~alreadyJoined /\ Len(memory.entries) >= Capacity
     THEN memory
     ELSE ensureMemoryBracket([memory EXCEPT !.entries = entries, !.cup.status = status])

startTournamentMatch(memory, s) ==
  IF memory.slots[s].status = "absent" THEN memory
  ELSE [memory EXCEPT !.slots[s].status = "running"]

finalizeMatch(memory, k, winner, loser) ==
  LET s == SlotOf[k]
      paid == [memory EXCEPT
        !.matches[k] = [winner |-> winner, loser |-> loser],
        !.accounts = AccountsAfter(@, winner, loser, [u \in Users |-> @[u].rating])]
      decided == [paid.slots EXCEPT ![s] = Decided(@, k, winner)]
  IN CASE memory.matches[k] # NoMatch -> memory
       [] memory.matches[k] = NoMatch /\ s = NoSlot -> paid
       [] OTHER ->
            IF ~SlotTakes(memory.slots[s], winner, loser) THEN memory
            ELSE [paid EXCEPT
                    !.slots = IF s \in Semifinals THEN ensureMemoryFinal(decided) ELSE decided,
                    !.cup = IF s \in Semifinals THEN @ ELSE [status |-> "finished", winner |-> winner]]

setUserBan(memory, u, ban) ==
  [memory EXCEPT !.banned = IF ban THEN @ \cup {u} ELSE @ \ {u}]
=============================================================================
