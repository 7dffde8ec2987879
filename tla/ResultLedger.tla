----------------------------- MODULE ResultLedger -----------------------------
(***************************************************************************)
(* What the repository promises about results (AppRepository in            *)
(* packages/db/src/index.ts): every result is recorded in one step, whole, *)
(* once per result key, and pays the accounts as they are in that step; a  *)
(* tournament slot is decided once, by its own players; the second         *)
(* semifinal to be decided seats the final, and the final names the        *)
(* champion.  Nothing of transactions, locks, retries or of a match being  *)
(* started shows here.                                                     *)
(***************************************************************************)
EXTENDS ResultRules

VARIABLES
  accounts,  \* rating, wins and losses of every user
  results,   \* winner and loser by result key
  entries,   \* the tournament's entrants in order of their seeds
  seats,     \* players, winner and result key of every slot
  champion   \* the winner of the tournament

ledgerVars == <<accounts, results, entries, seats, champion>>

Seat(slot) == [left |-> slot.left, right |-> slot.right, winner |-> slot.winner, match |-> slot.match]
SeatsOf(slots) == [s \in Slots |-> Seat(slots[s])]
Empty == Seat(AbsentSlot)

Init ==
  /\ accounts = [u \in Users |-> InitialAccount]
  /\ results = [k \in Keys |-> NoMatch]
  /\ entries \in FirstEntries
  /\ seats = [s \in Slots |-> Empty]
  /\ champion = NoUser

\* The final is seated as soon as both semifinals have a winner.
SeatsAfter(s, k, winner) ==
  LET decided == [seats EXCEPT ![s] = [@ EXCEPT !.winner = winner, !.match = k]]
  IN IF s \in Semifinals /\ \A semi \in Semifinals : decided[semi].winner # NoUser
     THEN [decided EXCEPT !["final"] = [@ EXCEPT !.left = decided["semifinal 1"].winner,
                                                 !.right = decided["semifinal 2"].winner]]
     ELSE decided

\* A result nobody recorded before, with all its consequences.
Record(k, winner, loser) ==
  /\ results[k] = NoMatch
  /\ results' = [results EXCEPT ![k] = [winner |-> winner, loser |-> loser]]
  /\ accounts' = AccountsAfter(accounts, winner, loser, [u \in Users |-> accounts[u].rating])
  /\ IF SlotOf[k] = NoSlot
     THEN UNCHANGED <<seats, champion>>
     ELSE /\ seats[SlotOf[k]].match = NoKey
          /\ Participants(winner, loser) \subseteq {seats[SlotOf[k]].left, seats[SlotOf[k]].right}
          /\ seats' = SeatsAfter(SlotOf[k], k, winner)
          /\ champion' = IF SlotOf[k] = "final" THEN winner ELSE champion
  /\ UNCHANGED entries

\* A user enters the tournament; the fourth one fills the semifinals.
Enter(u) ==
  /\ Len(entries) < Capacity
  /\ \A i \in DOMAIN entries : entries[i] # u
  /\ entries' = Append(entries, u)
  /\ seats' = IF Len(entries') = Capacity THEN SeatsOf(Bracket(entries')) ELSE seats
  /\ UNCHANGED <<accounts, results, champion>>

Next ==
  \/ \E k \in Keys :
       /\ results[k] = NoMatch /\ results'[k] # NoMatch
       /\ \E winner \in Users : \E loser \in Users \ {winner} : Record(k, winner, loser)
  \/ \E u \in Users : Enter(u)

Spec == Init /\ [][Next]_ledgerVars
=============================================================================
