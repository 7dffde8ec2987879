----------------------------- MODULE AccountAccess -----------------------------
(***************************************************************************)
(* How the sockets of registered users are opened and closed: sessions and *)
(* WebSocket tickets in the database (packages/db/src/index.ts), the       *)
(* handshake with its buffer of early messages, and the ban of a user,     *)
(* which is a change in the database and then a call of the hub            *)
(* (apps/api/src/app.ts).  Every await is a place where the others go on.  *)
(* Of the hub only clientsByUser remains here; GameHub has the rest.       *)
(***************************************************************************)
EXTENDS Integers, Sequences

CONSTANTS
  Members,          \* the registered users
  Tokens,           \* session tokens
  Tickets,          \* hashes of tickets
  Doors,            \* the sockets that come to GET /ws
  MessageSizes,     \* how large a message may be
  PRE_AUTH_MESSAGE_MAX_BYTES, PRE_AUTH_MESSAGE_MAX_COUNT, PRE_AUTH_BUFFER_MAX_BYTES,
  MaxMessages,      \* bound of the messages of a socket
  MaxSuspensions    \* bound of the bans under way at once

Nobody == "nobody"
NoDoor == "no socket"

ASSUME AccessAssumption ==
  /\ NoDoor \notin Doors /\ Nobody \notin Members
  /\ MessageSizes \subseteq Nat
  /\ PRE_AUTH_BUFFER_MAX_BYTES \in Nat /\ MaxMessages \in Nat /\ MaxSuspensions \in Nat

VARIABLES
  suspended,   \* the users whose status is "banned"
  sessions,    \* sessions: the user of each token
  wsTickets,   \* ws_tickets, and the requests that are about to insert one
  door,        \* the sockets at the server
  clientOf,    \* clientsByUser of the hub
  revoking,    \* how many bans of a user are past setUserBan and before revokeUser
  slippedBy    \* history: the sockets admitted and not connected when last revoked

accessVars == <<suspended, sessions, wsTickets, door, clientOf, revoking, slippedBy>>

TicketRow == [user : Members \cup {Nobody}, state : {"unused", "asked", "valid", "expired", "gone"}]

DoorState ==
  [stage : {"none", "consuming", "admitted", "client", "over"},
   ticket : Tickets \cup {"none"},
   user : Members \cup {Nobody},       \* what consumeWsTicket answered
   shut : BOOLEAN,                     \* authenticationClosed
   isOpen : BOOLEAN,                   \* readyState = OPEN
   pendingPayloads : Seq(MessageSizes), pendingBytes : Nat,
   received : Seq(MessageSizes),       \* history: what arrived on the socket
   handled : Seq(MessageSizes)]        \* history: what the hub's receive was called with

NewDoor == [stage |-> "none", ticket |-> "none", user |-> Nobody, shut |-> FALSE, isOpen |-> FALSE,
            pendingPayloads |-> <<>>, pendingBytes |-> 0, received |-> <<>>, handled |-> <<>>]

AccessInit ==
  /\ suspended = {}
  /\ sessions = [c \in Tokens |-> Nobody]
  /\ wsTickets = [t \in Tickets |-> [user |-> Nobody, state |-> "unused"]]
  /\ door = [s \in Doors |-> NewDoor]
  /\ clientOf = [u \in Members |-> NoDoor]
  /\ revoking = [u \in Members |-> 0]
  /\ slippedBy = {}

-----------------------------------------------------------------------------
(* Sessions and tickets.                                                   *)

\* POST /auth/dev-login, createSession; a ban does not keep anybody from it.
LogIn(u, c) ==
  /\ sessions[c] = Nobody
  /\ sessions' = [sessions EXCEPT ![c] = u]
  /\ UNCHANGED <<suspended, wsTickets, door, clientOf, revoking, slippedBy>>

\* POST /auth/logout, deleteSession; or the 14 days are over.
LogOut(c) ==
  /\ sessions[c] # Nobody
  /\ sessions' = [sessions EXCEPT ![c] = Nobody]
  /\ UNCHANGED <<suspended, wsTickets, door, clientOf, revoking, slippedBy>>

\* POST /auth/ws-ticket: the account is read ...
RequestWsTicket(c, t) ==
  /\ wsTickets[t].state = "unused"
  /\ sessions[c] # Nobody /\ sessions[c] \notin suspended
  /\ wsTickets' = [wsTickets EXCEPT ![t] = [user |-> sessions[c], state |-> "asked"]]
  /\ UNCHANGED <<suspended, sessions, door, clientOf, revoking, slippedBy>>

\* ... and the ticket inserted after an await.
createWsTicket(t) ==
  /\ wsTickets[t].state = "asked"
  /\ wsTickets' = [wsTickets EXCEPT ![t].state = "valid"]
  /\ UNCHANGED <<suspended, sessions, door, clientOf, revoking, slippedBy>>

WsTicketExpires(t) ==
  /\ wsTickets[t].state = "valid"
  /\ wsTickets' = [wsTickets EXCEPT ![t].state = "expired"]
  /\ UNCHANGED <<suspended, sessions, door, clientOf, revoking, slippedBy>>

-----------------------------------------------------------------------------
(* The handshake.                                                          *)

\* GET /ws with a ticket, new or used: the database is asked, messages wait.
ComeToDoor(s, t) ==
  /\ door[s].stage = "none"
  /\ wsTickets[t].state \notin {"unused", "asked"}
  /\ door' = [door EXCEPT ![s] = [@ EXCEPT !.stage = "consuming", !.ticket = t, !.isOpen = TRUE]]
  /\ UNCHANGED <<suspended, sessions, wsTickets, clientOf, revoking, slippedBy>>

closeAuthentication(d) == [d EXCEPT !.shut = TRUE, !.isOpen = FALSE]

TooMuch(d, size) ==
  \/ size > PRE_AUTH_MESSAGE_MAX_BYTES
  \/ Len(d.pendingPayloads) >= PRE_AUTH_MESSAGE_MAX_COUNT
  \/ d.pendingBytes + size > PRE_AUTH_BUFFER_MAX_BYTES

MutBufferPayload(d, size) ==
  IF d.shut \/ TooMuch(d, size) THEN d
  ELSE [d EXCEPT !.pendingPayloads = Append(@, size), !.pendingBytes = @ + size]

bufferPayload(d, size) ==
  IF d.shut THEN d
  ELSE IF TooMuch(d, size) THEN closeAuthentication(d)
  ELSE [d EXCEPT !.pendingPayloads = Append(@, size), !.pendingBytes = @ + size]

\* A message arrives: at the buffer, or at the hub, which hears its clients only.
onMessage(d, size) ==
  LET heard == [d EXCEPT !.received = Append(@, size)]
  IN IF d.stage = "client" THEN [heard EXCEPT !.handled = Append(@, size)]
     ELSE bufferPayload(heard, size)

MessageArrives(s, size) ==
  /\ door[s].isOpen /\ Len(door[s].received) < MaxMessages
  /\ door' = [door EXCEPT ![s] = onMessage(@, size)]
  /\ UNCHANGED <<suspended, sessions, wsTickets, clientOf, revoking, slippedBy>>

MutConsumeWsTicket(t) == IF wsTickets[t].state = "valid" THEN wsTickets[t].user ELSE Nobody

\* The row is deleted in any case, and names a user while it is valid and the
\* user is active.
consumeWsTicket(t) ==
  IF wsTickets[t].state = "valid" /\ wsTickets[t].user \notin suspended
  THEN wsTickets[t].user ELSE Nobody

ConsumeAtDoor(s) ==
  /\ door[s].stage = "consuming"
  /\ wsTickets' = [wsTickets EXCEPT ![door[s].ticket].state = "gone"]
  /\ door' = [door EXCEPT ![s].stage = "admitted", ![s].user = consumeWsTicket(door[s].ticket)]
  /\ UNCHANGED <<suspended, sessions, clientOf, revoking, slippedBy>>

\* The socket is closed by the server, and is nobody's any more.
Replaced(doors, previous) ==
  [s \in Doors |-> IF s = previous THEN [doors[s] EXCEPT !.isOpen = FALSE, !.stage = "over"]
                   ELSE doors[s]]

\* hub.connect, as far as it matters here: the user's previous socket makes way,
\* and what had arrived so far is handled in its order.
HubTakes(s) ==
  LET u == door[s].user
  IN /\ clientOf' = [clientOf EXCEPT ![u] = s]
     /\ door' = [Replaced(door, clientOf[u]) EXCEPT ![s].stage = "client",
                                                    ![s].handled = door[s].pendingPayloads]

\* The answer of the database arrives.
AuthenticationAnswered(s) ==
  /\ door[s].stage = "admitted"
  /\ \/ /\ door[s].user = Nobody
        /\ door' = [door EXCEPT ![s] = [closeAuthentication(@) EXCEPT !.stage = "over"]]
        /\ UNCHANGED clientOf
     \/ /\ door[s].user # Nobody /\ (door[s].shut \/ ~door[s].isOpen)
        /\ door' = [door EXCEPT ![s].stage = "over"]
        /\ UNCHANGED clientOf
     \/ /\ door[s].user # Nobody /\ ~door[s].shut /\ door[s].isOpen
        /\ HubTakes(s)
  /\ UNCHANGED <<suspended, sessions, wsTickets, revoking, slippedBy>>

\* The client goes away: the hub forgets it, a handshake under way finds out.
LeaveDoor(s) ==
  /\ door[s].isOpen
  /\ door' = [door EXCEPT ![s].isOpen = FALSE,
                          ![s].stage = IF @ = "client" THEN "over" ELSE @]
  /\ clientOf' = [u \in Members |-> IF clientOf[u] = s THEN NoDoor ELSE clientOf[u]]
  /\ UNCHANGED <<suspended, sessions, wsTickets, revoking, slippedBy>>

-----------------------------------------------------------------------------
(* Bans: two steps of one request, and requests may cross each other.      *)

Suspend(u) ==
  /\ revoking[u] < MaxSuspensions
  /\ suspended' = suspended \cup {u}
  /\ revoking' = [revoking EXCEPT ![u] = @ + 1]
  /\ UNCHANGED <<sessions, wsTickets, door, clientOf, slippedBy>>

Reinstate(u) ==
  /\ suspended' = suspended \ {u}
  /\ UNCHANGED <<sessions, wsTickets, door, clientOf, revoking, slippedBy>>

revokeUser(u) ==
  /\ revoking[u] > 0
  /\ revoking' = [revoking EXCEPT ![u] = @ - 1]
  /\ door' = Replaced(door, clientOf[u])
  /\ clientOf' = [clientOf EXCEPT ![u] = NoDoor]
  /\ slippedBy' = {s \in Doors : IF door[s].user = u THEN door[s].stage = "admitted" ELSE s \in slippedBy}
  /\ UNCHANGED <<suspended, sessions, wsTickets>>

AccessNext ==
  \/ \E u \in Members, c \in Tokens : LogIn(u, c)
  \/ \E c \in Tokens : LogOut(c)
  \/ \E c \in Tokens, t \in Tickets : RequestWsTicket(c, t)
  \/ \E t \in Tickets : createWsTicket(t) \/ WsTicketExpires(t)
  \/ \E s \in Doors, t \in Tickets : ComeToDoor(s, t)
  \/ \E s \in Doors, size \in MessageSizes : MessageArrives(s, size)
  \/ \E s \in Doors : ConsumeAtDoor(s) \/ AuthenticationAnswered(s) \/ LeaveDoor(s)
  \/ \E u \in Members : Suspend(u) \/ Reinstate(u) \/ revokeUser(u)

AccessSpec == AccessInit /\ [][AccessNext]_accessVars

-----------------------------------------------------------------------------
(* Properties.                                                             *)

AccessTypeOK ==
  /\ suspended \subseteq Members
  /\ sessions \in [Tokens -> Members \cup {Nobody}]
  /\ wsTickets \in [Tickets -> TicketRow]
  /\ door \in [Doors -> DoorState]
  /\ clientOf \in [Members -> Doors \cup {NoDoor}]
  /\ revoking \in [Members -> 0..MaxSuspensions]
  /\ slippedBy \subseteq Doors

\* Once a ban is carried out its user is out, and stays out until reinstated:
\* no ticket asked for before, no session and no other socket brings the user
\* back.  The one exception is a handshake whose ticket the database had
\* accepted before and whose answer comes after the hub was told
\* (app.ts:206-235, 572-601; index.ts:312-341).
SuspendedAreOut ==
  \A u \in suspended :
    revoking[u] = 0 /\ clientOf[u] # NoDoor => clientOf[u] \in slippedBy

\* A ticket opens one socket, a user has one socket at most, and the hub knows
\* it.
OneSocketEach ==
  \A s \in Doors :
    /\ door[s].stage = "client" <=> \E u \in Members : clientOf[u] = s
    /\ door[s].stage = "client" => clientOf[door[s].user] = s
    /\ \A r \in Doors \ {s} : door[s].user # Nobody /\ door[r].user # Nobody
                                => door[s].ticket # door[r].ticket

\* Nothing a client says is lost or said out of its turn: the hub hears what
\* arrived, in its order, from the first message on, however early it was sent;
\* what is too much for the buffer closes the socket (app.ts:157-189, 211-235;
\* gameHub.ts:237-239).
NothingSaidIsLost ==
  \A s \in Doors :
    /\ door[s].stage = "client" => door[s].handled = door[s].received
    /\ door[s].stage \in {"consuming", "admitted"} /\ ~door[s].shut =>
         /\ door[s].pendingPayloads = door[s].received
         /\ door[s].handled = <<>>
    /\ door[s].pendingBytes <= PRE_AUTH_BUFFER_MAX_BYTES

\* The sockets of registered users (OneSocketEach, NothingSaidIsLost).
SocketsAreTheirs == OneSocketEach /\ NothingSaidIsLost
=============================================================================
