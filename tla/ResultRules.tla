------------------------------ MODULE ResultRules ------------------------------
(***************************************************************************)
(* What a match result is worth and how a tournament of four goes on from  *)
(* it: the rules PostgresRepository and MemoryRepository both follow       *)
(* (packages/db/src/index.ts).                                             *)
(***************************************************************************)
EXTENDS Integers, Sequences

CONSTANTS
  Users,     \* ids of users and NPCs
  Keys,      \* result keys, one per room
  SlotOf,    \* the tournament slot a room plays for, or NoSlot
  FirstEntries \* the entrants by seed the model may start with

\* Ids are compared when participants are sorted; 0 stands for null.
NoUser == 0
NoKey == "none"
NoSlot == "no slot"
Semifinals == {"semifinal 1", "semifinal 2"}
Slots == Semifinals \cup {"final"}
Capacity == 4

ASSUME RulesAssumption ==
  /\ Users \subseteq Nat \ {NoUser}
  /\ NoKey \notin Keys
  /\ SlotOf \in [Keys -> Slots \cup {NoSlot}]
  /\ FirstEntries \subseteq Seq(Users)
  /\ \A seeds \in FirstEntries :
       /\ Len(seeds) < Capacity
       /\ \A i, j \in DOMAIN seeds : seeds[i] = seeds[j] => i = j

InitialRating == 1200
InitialAccount == [rating |-> InitialRating, wins |-> 0, losses |-> 0]
NoMatch == [winner |-> NoUser, loser |-> NoUser]
Participants(winner, loser) == {winner, loser} \ {NoUser}

AfterWin(rating) == rating + 16
AfterLoss(rating) == IF rating - 12 < 800 THEN 800 ELSE rating - 12

\* The account of u after a match, given the rating the new one is computed
\* from; wins and losses are counted up where they are.
Paid(account, u, winner, before) ==
  IF u = winner
  THEN [account EXCEPT !.rating = AfterWin(before), !.wins = @ + 1]
  ELSE [account EXCEPT !.rating = AfterLoss(before), !.losses = @ + 1]

AccountsAfter(accounts, winner, loser, before) ==
  [u \in Users |-> IF u \in Participants(winner, loser)
                   THEN Paid(accounts[u], u, winner, before[u]) ELSE accounts[u]]

-----------------------------------------------------------------------------
(* The bracket.                                                            *)

AbsentSlot == [status |-> "absent", left |-> NoUser, right |-> NoUser,
               winner |-> NoUser, match |-> NoKey]
ReadySlot(left, right) == [AbsentSlot EXCEPT !.status = "ready", !.left = left, !.right = right]

\* The slots after the last entrant: first seed against fourth, second against third.
Bracket(seeds) ==
  [s \in Slots |-> CASE s = "semifinal 1" -> ReadySlot(seeds[1], seeds[4])
                     [] s = "semifinal 2" -> ReadySlot(seeds[2], seeds[3])
                     [] OTHER -> AbsentSlot]

Decided(slot, k, winner) ==
  [slot EXCEPT !.status = "finished", !.winner = winner, !.match = k]

CupAfter(cup, s, winner) == IF s = "final" THEN [status |-> "finished", winner |-> winner] ELSE cup

\* (An operator Mut... is a plausible slip in the definition after it.)
MutSlotTakes(slot, winner, loser) ==
  slot.status # "absent" /\ Participants(winner, loser) \subseteq {slot.left, slot.right}

\* Whether the result of a slot's match may be entered, for these players.
SlotTakes(slot, winner, loser) ==
  /\ slot.status # "absent"
  /\ slot.match = NoKey
  /\ Participants(winner, loser) \subseteq {slot.left, slot.right}
=============================================================================
