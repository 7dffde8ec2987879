---------------------------- MODULE MCMatchmaking ----------------------------
(* Three registered users, the middle one equally far from both others, who *)
(* are too far from each other, a fourth at exactly the limit from the      *)
(* middle one, and a guest that would suit the middle one perfectly.        *)
EXTENDS Matchmaking

CONSTANTS low, middle, high, higher, visitor

MCUsers == {low, middle, high, higher, visitor}
MCGuests == {visitor}
MCRating ==
  [u \in MCUsers |-> CASE u = low -> 1000 [] u = middle -> 1150 [] u = high -> 1300
                       [] u = higher -> 1350 [] u = visitor -> 1150]
=============================================================================
