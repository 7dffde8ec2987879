------------------------------ MODULE MCGameHub ------------------------------
(* Instances of the hub small enough for TLC.                              *)
EXTENDS GameHub

CONSTANTS ann, bob, visitor, final

TwoUsers == {ann, bob}
WithGuest == {ann, visitor}
AllUsers == {ann, bob, visitor}
NoGuests == {}
OneGuest == {visitor}
SameRating(users) == [u \in users |-> 1200]
RatingOfTwo == SameRating(TwoUsers)
RatingWithGuest == SameRating(WithGuest)
RatingOfAll == SameRating(AllUsers)
NoMatches == {}
NoParticipants == <<>>
OneMatch == {final}
FinalParticipants == [m \in OneMatch |-> [side \in Sides |-> IF side = "left" THEN ann ELSE bob]]
SymmetricUsers == Permutations(TwoUsers)
=============================================================================
