----------------------------- MODULE Friendships -----------------------------
(***************************************************************************)
(* Friendships in the database (packages/db/src/index.ts) and its          *)
(* in-memory twin, from the rows older releases left, through migration    *)
(* 004_friendship_tournament_invariants, to requests that cross each       *)
(* other.  Before the migration a pair may have a row for each direction   *)
(* and users may have befriended themselves.                               *)
(***************************************************************************)
EXTENDS Integers, Sequences, FiniteSets

CONSTANTS
  Friends,     \* the users
  MaxLegacy    \* bound of the rows the migration finds

ASSUME FriendsAssumption == MaxLegacy \in Nat

VARIABLES
  friendships,       \* the table, in the order of created_at and id
  friendsMigrated,   \* whether migration 004 was applied
  memoryFriends,     \* friendships of MemoryRepository
  wanted,            \* history: <<a, b>>: a asked for b, or accepted b
  youngDatabase      \* history: whether the table was empty at first

friendVars == <<friendships, friendsMigrated, memoryFriends, wanted, youngDatabase>>

\* FriendshipStatus.
FriendStatus == {"pending", "accepted"}
Friendship   == [requester : Friends, addressee : Friends, status : FriendStatus]
NewFriendship(a, b) == [requester |-> a, addressee |-> b, status |-> "pending"]

SamePair(f, g)    == {f.requester, f.addressee} = {g.requester, g.addressee}
OtherWay(f, g)    == f.requester = g.addressee /\ f.addressee = g.requester
Accepted(f)       == [f EXCEPT !.status = "accepted"]

\* unique (requester_id, addressee_id), the key of the first release.
DirectionsUnique(table) ==
  \A i, j \in DOMAIN table :
    i # j => table[i].requester # table[j].requester \/ table[i].addressee # table[j].addressee

\* What the rows say of who wants whom.
WantedIn(table) ==
  {<<table[i].requester, table[i].addressee>> : i \in DOMAIN table}
    \cup {<<table[i].addressee, table[i].requester>> : i \in
            {j \in DOMAIN table : table[j].status = "accepted"}}

FriendsInit ==
  /\ friendships \in UNION {[1..n -> Friendship] : n \in 0..MaxLegacy}
  /\ DirectionsUnique(friendships)
  /\ friendsMigrated = FALSE
  /\ memoryFriends = <<>>
  /\ wanted = WantedIn(friendships)
  /\ youngDatabase = (friendships = <<>>)

-----------------------------------------------------------------------------
(* Migration 004: one statement after the other, in one transaction.       *)

\* A table of which a delete leaves the rows at these places.
Remaining(table, kept) ==
  [n \in 1..Cardinality(kept) |->
     table[CHOOSE i \in kept : Cardinality({j \in kept : j <= i}) = n]]

WithoutSelves(table) ==
  Remaining(table, {i \in DOMAIN table : table[i].requester # table[i].addressee})

AcceptMutual(table) ==
  [i \in DOMAIN table |->
     IF \E j \in DOMAIN table : j # i /\ OtherWay(table[i], table[j])
     THEN Accepted(table[i]) ELSE table[i]]

\* position = 1 in its pair: accepted before pending, then the older row.
FirstOfPair(table, i) ==
  \A j \in DOMAIN table \ {i} :
    SamePair(table[i], table[j]) =>
      \/ table[i].status = "accepted" /\ table[j].status = "pending"
      \/ table[i].status = table[j].status /\ i < j

OnePerPair(table) == Remaining(table, {i \in DOMAIN table : FirstOfPair(table, i)})

MigrateFriendships ==
  /\ ~friendsMigrated
  /\ friendsMigrated' = TRUE
  /\ friendships' = OnePerPair(AcceptMutual(WithoutSelves(friendships)))
  /\ UNCHANGED <<memoryFriends, wanted, youngDatabase>>

-----------------------------------------------------------------------------
RowsOfPair(table, a, b) ==
  {i \in DOMAIN table : {table[i].requester, table[i].addressee} = {a, b}}

MutUpserted(f, a, b) ==
  IF f.status = "pending" THEN Accepted(f) ELSE f

\* on conflict do update: a pending request of the other direction is accepted.
Upserted(f, a, b) ==
  IF f.status = "pending" /\ f.requester = b /\ f.addressee = a THEN Accepted(f) ELSE f

\* The statement inserts, or updates the row of the pair, whichever way round.
requestFriend(table, a, b) ==
  IF RowsOfPair(table, a, b) = {}
  THEN Append(table, NewFriendship(a, b))
  ELSE [i \in DOMAIN table |->
          IF i \in RowsOfPair(table, a, b) THEN Upserted(table[i], a, b) ELSE table[i]]

\* find, then a change of what was found: no await between them.
memoryRequestFriend(array, a, b) ==
  LET found == {i \in RowsOfPair(array, a, b) :
                  \A j \in RowsOfPair(array, a, b) : i <= j}
  IN IF found = {} THEN Append(array, NewFriendship(a, b))
     ELSE [i \in DOMAIN array |->
             IF i \in found /\ array[i].status = "pending" /\ array[i].requester = b
             THEN Accepted(array[i]) ELSE array[i]]

\* The twin starts empty and is compared when the database did.
RequestFriend(a, b) ==
  /\ friendsMigrated
  /\ a # b
  /\ friendships' = requestFriend(friendships, a, b)
  /\ memoryFriends' = IF youngDatabase THEN memoryRequestFriend(memoryFriends, a, b) ELSE memoryFriends
  /\ wanted' = wanted \cup {<<a, b>>}
  /\ UNCHANGED <<friendsMigrated, youngDatabase>>

\* Only the addressee's acceptance finds the row, in whatever state it is.
acceptFriend(table, user, i) ==
  IF i \in DOMAIN table /\ table[i].addressee = user
  THEN [table EXCEPT ![i] = Accepted(@)] ELSE table

\* A row is known by its place here, by a random id there.
AcceptFriend(user, i) ==
  /\ friendsMigrated
  /\ friendships' = acceptFriend(friendships, user, i)
  /\ memoryFriends' = IF youngDatabase THEN acceptFriend(memoryFriends, user, i) ELSE memoryFriends
  /\ wanted' = IF friendships[i].addressee = user
               THEN wanted \cup {<<user, friendships[i].requester>>} ELSE wanted
  /\ UNCHANGED <<friendsMigrated, youngDatabase>>

FriendsNext ==
  \/ MigrateFriendships
  \/ \E a, b \in Friends : RequestFriend(a, b)
  \/ \E user \in Friends, i \in DOMAIN friendships : AcceptFriend(user, i)

FriendsSpec == FriendsInit /\ [][FriendsNext]_friendVars

-----------------------------------------------------------------------------
(* Properties.                                                             *)

FriendsTypeOK ==
  /\ friendships \in Seq(Friendship) /\ memoryFriends \in Seq(Friendship)
  /\ friendsMigrated \in BOOLEAN /\ youngDatabase \in BOOLEAN
  /\ wanted \subseteq Friends \X Friends

\* A pair has one row, of two different people ...
OneRowPerPair ==
  \A i, j \in DOMAIN friendships :
    /\ friendships[i].requester # friendships[i].addressee
    /\ i # j => ~SamePair(friendships[i], friendships[j])

\* ... accepted exactly if both wanted it, and nobody's wish is forgotten.
StatusFollowsWishes ==
  /\ \A i \in DOMAIN friendships :
       LET f == friendships[i] IN
       /\ <<f.requester, f.addressee>> \in wanted
       /\ f.status = "accepted" <=> <<f.addressee, f.requester>> \in wanted
  /\ \A w \in wanted : w[1] # w[2] => RowsOfPair(friendships, w[1], w[2]) # {}

\* Once migrated, friendships are what the people asked for, whatever the old
\* rows were and whoever asked first, and the in-memory repository agrees
\* (index.ts:441-490, 1160-1192; 004_friendship_tournament_invariants.sql).
FriendshipsAgree ==
  friendsMigrated => /\ OneRowPerPair
                     /\ StatusFollowsWishes
                     /\ youngDatabase => memoryFriends = friendships
=============================================================================
