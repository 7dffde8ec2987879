------------------------------ MODULE MCResults ------------------------------
(* Two connections, three entrants and two users who want the last place,  *)
(* matches against the same NPC, and two rooms for the first semifinal.    *)
EXTENDS TwinResults, TLC

CONSTANTS c1, c2

Connections == {c1, c2}
Everybody == 1..6
Rooms == {"npc a", "npc b", "semi 1", "semi 1 again", "semi 2", "last"}
SlotOfRoom == [k \in Rooms |->
  CASE k \in {"semi 1", "semi 1 again"} -> "semifinal 1"
    [] k = "semi 2" -> "semifinal 2"
    [] k = "last" -> "final"
    [] OTHER -> NoSlot]
Players == [k \in Rooms |-> IF k = "npc b" THEN <<6, 2>> ELSE <<1, 6>>]
OneTarget == {2}
LateJoiners == {4, 5}
OneSeatFree == {<<>>, <<1, 2, 3>>}
CasualRooms == [seeds \in OneSeatFree |-> IF seeds = <<>> THEN {"npc a", "npc b"} ELSE {}]
SymmetricConnections == Permutations(Connections)
=============================================================================
