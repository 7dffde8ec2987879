------------------------------ MODULE GuestAccess ------------------------------
(***************************************************************************)
(* What the server keeps of its guests (apps/api/src/guestAccess.ts): the  *)
(* tickets they may open a socket with, the newest one of each guest, and  *)
(* the connection each guest holds on lease.  The maps are functions over  *)
(* the keys they hold; every method is the condition under which it        *)
(* refuses and the value it leaves behind.                                 *)
(***************************************************************************)
EXTENDS Integers, Sequences, FiniteSets, Functions

CONSTANTS
  ticketsPerIp,      \* unused tickets of one address, at most
  ticketLimit,       \* unused tickets, at most
  connectionsPerIp,  \* connected guests of one address, at most
  connectionLimit    \* connected guests, at most

ASSUME LimitsAssumption ==
  /\ ticketsPerIp \in Nat \ {0} /\ ticketLimit \in Nat \ {0}
  /\ connectionsPerIp \in Nat \ {0} /\ connectionLimit \in Nat \ {0}

Nothing == <<>>  \* the function over no keys: an empty Map

Put(map, key, value) == [k \in DOMAIN map \cup {key} |-> IF k = key THEN value ELSE map[k]]
Drop(map, keys)      == Restrict(map, DOMAIN map \ keys)

-----------------------------------------------------------------------------
(* Tickets: [guest, ip, expiresAtMs] under their hash.                     *)

TicketsOfIp(tickets, ip) == {t \in DOMAIN tickets : tickets[t].ip = ip}
ExpiredTickets(tickets, nowMs) == {t \in DOMAIN tickets : nowMs >= tickets[t].expiresAtMs}

\* ticketHashByGuest after the tickets in gone were deleted.
NewestWithout(newest, gone) == Drop(newest, {g \in DOMAIN newest : newest[g] \in gone})

\* The previous ticket of a guest, deleted when it asks for another.
Previous(newest, guest) == IF guest \in DOMAIN newest THEN {newest[guest]} ELSE {}

MutTicketAllowed(tickets, ip) ==
  /\ Cardinality(TicketsOfIp(tickets, ip)) <= ticketsPerIp
  /\ Cardinality(DOMAIN tickets) < ticketLimit

\* The limits issueWsTicket checks, after the previous ticket is gone.
TicketAllowed(tickets, ip) ==
  /\ Cardinality(TicketsOfIp(tickets, ip)) < ticketsPerIp
  /\ Cardinality(DOMAIN tickets) < ticketLimit

-----------------------------------------------------------------------------
(* Connections: [ip, leaseId] under the guest.                             *)

GuestsOfIp(connections, ip) == {g \in DOMAIN connections : connections[g].ip = ip}

ConnectionAllowed(connections, ip, guest) ==
  IF guest \in DOMAIN connections
  THEN \/ connections[guest].ip = ip
       \/ Cardinality(GuestsOfIp(connections, ip)) < connectionsPerIp
  ELSE /\ Cardinality(GuestsOfIp(connections, ip)) < connectionsPerIp
       /\ Cardinality(DOMAIN connections) < connectionLimit

acquireConnection(connections, ip, guest, leaseId) ==
  Put(connections, guest, [ip |-> ip, leaseId |-> leaseId])

MutRelease(connections, guest, leaseId) == Drop(connections, {guest})

\* A lease that was taken over is not given back by its former holder.
release(connections, guest, leaseId) ==
  Drop(connections, {g \in DOMAIN connections \cap {guest} : connections[g].leaseId = leaseId})
=============================================================================
