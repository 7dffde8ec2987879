---------------------------- MODULE GuestAccessLife ----------------------------
(***************************************************************************)
(* Guests over time: sessions are created, tickets issued, used and        *)
(* cleaned up, connections opened and closed, all under the rolling        *)
(* windows that limit how often an address may ask.  Cleanup timers may    *)
(* come late; the code checks expiry wherever it reads.                    *)
(***************************************************************************)
EXTENDS GuestAccess

CONSTANTS
  Guests, Ips,
  creationLimitPerMinute, ticketIssueLimitPerMinute, trackedIpLimit,
  CREATION_WINDOW_MS, TICKET_TTL_MS, GUEST_SESSION_TTL_MS,
  MaxTickets,      \* bound of the tickets handed out
  MaxGuestClock    \* bound of the clock

ASSUME GuestAssumption ==
  /\ {creationLimitPerMinute, ticketIssueLimitPerMinute, trackedIpLimit,
      CREATION_WINDOW_MS, TICKET_TTL_MS, GUEST_SESSION_TTL_MS} \subseteq Nat \ {0}
  /\ MaxTickets \in Nat /\ MaxGuestClock \in Nat

VARIABLES
  guestClock,   \* Date.now()
  cookies,      \* the signed cookie each guest was given
  creations,    \* creationsByIp
  issues,       \* ticketIssuesByIp
  tickets,      \* tickets
  newest,       \* ticketHashByGuest
  connections,  \* connections
  spent,        \* history: the ids of the tickets handed out
  consumed      \* history: the ticket ids a handshake presented

guestVars == <<guestClock, cookies, creations, issues, tickets, newest, connections, spent, consumed>>

GuestInit ==
  /\ guestClock = 0
  /\ cookies = Nothing /\ creations = Nothing /\ issues = Nothing
  /\ tickets = Nothing /\ newest = Nothing /\ connections = Nothing
  /\ spent = {} /\ consumed = {}

-----------------------------------------------------------------------------
(* The rolling windows: [timestamps, expiresAtMs] under the address.       *)

pruneWindows(store) ==
  Drop(store, {ip \in DOMAIN store : guestClock >= store[ip].expiresAtMs})

recent(store, ip) ==
  IF ip \in DOMAIN store
  THEN SelectSeq(store[ip].timestamps, LAMBDA at : at > guestClock - CREATION_WINDOW_MS)
  ELSE <<>>

WindowAllows(store, ip, limit) ==
  LET pruned == pruneWindows(store)
  IN /\ ip \in DOMAIN pruned \/ Cardinality(DOMAIN pruned) < trackedIpLimit
     /\ Len(recent(pruned, ip)) < limit

\* recordWindowEvent: a refusal leaves the pruned store.
recordWindowEvent(store, ip, limit) ==
  LET pruned == pruneWindows(store)
  IN IF ~WindowAllows(store, ip, limit) THEN pruned
     ELSE Put(pruned, ip, [timestamps  |-> Append(recent(pruned, ip), guestClock),
                           expiresAtMs |-> guestClock + CREATION_WINDOW_MS])

-----------------------------------------------------------------------------
createSession(g, ip) ==
  /\ g \notin DOMAIN cookies
  /\ creations' = recordWindowEvent(creations, ip, creationLimitPerMinute)
  /\ cookies' = IF WindowAllows(creations, ip, creationLimitPerMinute)
                THEN Put(cookies, g, [ip |-> ip, expiresAtMs |-> guestClock + GUEST_SESSION_TTL_MS])
                ELSE cookies
  /\ UNCHANGED <<guestClock, issues, tickets, newest, connections, spent, consumed>>

\* The cookie is bound to its address and expires.
Authenticated(g, ip) ==
  /\ g \in DOMAIN cookies
  /\ guestClock < cookies[g].expiresAtMs
  /\ cookies[g].ip = ip

NewTicket(g, ip) == [guest |-> g, ip |-> ip, expiresAtMs |-> guestClock + TICKET_TTL_MS]

MutIssueWsTicket(g, ip, t) ==
  LET gone  == ExpiredTickets(tickets, guestClock) \cup Previous(newest, g)
      room  == Drop(tickets, gone)
      given == /\ WindowAllows(issues, ip, ticketIssueLimitPerMinute)
               /\ TicketAllowed(room, ip)
  IN /\ issues' = recordWindowEvent(issues, ip, ticketIssueLimitPerMinute)
     /\ tickets' = IF given THEN Put(room, t, NewTicket(g, ip)) ELSE room
     /\ newest' = IF given THEN Put(newest, g, t) ELSE NewestWithout(newest, gone)
     /\ spent' = spent \cup {t}

\* The order matters: expired tickets go first, a refusal by the window comes
\* before the previous ticket is deleted, the other limits after it.
issueWsTicket(g, ip, t) ==
  LET expired == ExpiredTickets(tickets, guestClock)
      gone    == expired \cup Previous(NewestWithout(newest, expired), g)
  IN /\ issues' = recordWindowEvent(issues, ip, ticketIssueLimitPerMinute)
     /\ \/ /\ ~WindowAllows(issues, ip, ticketIssueLimitPerMinute)
           /\ tickets' = Drop(tickets, expired)
           /\ newest' = NewestWithout(newest, expired)
           /\ UNCHANGED spent
        \/ /\ WindowAllows(issues, ip, ticketIssueLimitPerMinute)
           /\ ~TicketAllowed(Drop(tickets, gone), ip)
           /\ tickets' = Drop(tickets, gone)
           /\ newest' = NewestWithout(newest, gone)
           /\ UNCHANGED spent
        \/ /\ WindowAllows(issues, ip, ticketIssueLimitPerMinute)
           /\ TicketAllowed(Drop(tickets, gone), ip)
           /\ tickets' = Put(Drop(tickets, gone), t, NewTicket(g, ip))
           /\ newest' = Put(NewestWithout(newest, gone), g, t)
           /\ spent' = spent \cup {t}

\* POST /auth/ws-ticket; hashes are random, ids are given out in order.
RequestTicket(g, ip) ==
  /\ spent # 1..MaxTickets
  /\ Authenticated(g, ip)
  /\ issueWsTicket(g, ip, Cardinality(spent) + 1)
  /\ UNCHANGED <<guestClock, cookies, creations, connections, consumed>>

\* The handshake presents a ticket, from whatever address: the ticket is used
\* up, and the socket takes a lease unless it is closed or a limit forbids.
Handshake(t, ip) ==
  /\ t \in spent \ consumed
  /\ consumed' = consumed \cup {t}
  /\ tickets' = Drop(tickets, {t})
  /\ newest' = NewestWithout(newest, {t})
  /\ IF t \in DOMAIN tickets \ ExpiredTickets(tickets, guestClock)
     THEN LET g == tickets[t].guest
          IN \/ UNCHANGED connections
             \/ /\ ConnectionAllowed(connections, ip, g)
                /\ connections' = acquireConnection(connections, ip, g, t)
     ELSE UNCHANGED connections
  /\ UNCHANGED <<guestClock, cookies, creations, issues, spent>>

\* The socket opened with t closes.
SocketEnds(g, t) ==
  /\ t \in consumed
  /\ connections' = release(connections, g, t)
  /\ UNCHANGED <<guestClock, cookies, creations, issues, tickets, newest, spent, consumed>>

\* deleteTicket, called by the cleanup timer of a ticket.
TicketTimer(t) ==
  /\ t \in ExpiredTickets(tickets, guestClock)
  /\ tickets' = Drop(tickets, {t})
  /\ newest' = NewestWithout(newest, {t})
  /\ UNCHANGED <<guestClock, cookies, creations, issues, connections, spent, consumed>>

\* The cleanup timers of the windows.
WindowTimers ==
  /\ creations' = pruneWindows(creations)
  /\ issues' = pruneWindows(issues)
  /\ UNCHANGED <<guestClock, cookies, tickets, newest, connections, spent, consumed>>

ElapseGuest ==
  /\ guestClock < MaxGuestClock
  /\ guestClock' = guestClock + 1
  /\ UNCHANGED <<cookies, creations, issues, tickets, newest, connections, spent, consumed>>

GuestNext ==
  \/ \E g \in Guests, ip \in Ips : createSession(g, ip) \/ RequestTicket(g, ip)
  \/ \E t \in 1..MaxTickets, ip \in Ips : Handshake(t, ip)
  \/ \E g \in Guests, t \in 1..MaxTickets : SocketEnds(g, t)
  \/ \E t \in 1..MaxTickets : TicketTimer(t)
  \/ WindowTimers
  \/ ElapseGuest

GuestSpec == GuestInit /\ [][GuestNext]_guestVars

-----------------------------------------------------------------------------
(* Properties.                                                             *)

\* The two maps of tickets agree, a ticket is of the address its guest's
\* cookie is bound to, and no limit is exceeded.
TicketsAgree ==
  /\ \A t \in DOMAIN tickets :
       /\ tickets[t].guest \in DOMAIN newest \cap DOMAIN cookies
       /\ newest[tickets[t].guest] = t
       /\ tickets[t].ip = cookies[tickets[t].guest].ip
  /\ \A g \in DOMAIN newest : newest[g] \in DOMAIN tickets
  /\ \A ip \in Ips : Cardinality(TicketsOfIp(tickets, ip)) <= ticketsPerIp
  /\ Cardinality(DOMAIN tickets) <= ticketLimit

\* A ticket handed out and not expired is there until a handshake presents it
\* or its guest is handed a newer one: a refused request costs nobody the
\* ticket it holds, although the previous ticket is deleted before the limits
\* are checked (guestAccess.ts:191-231, 305-315, 366-373).
TicketsEndForAReason ==
  [][\A t \in DOMAIN tickets \ ExpiredTickets(tickets, guestClock) :
       t \in DOMAIN tickets'
         \/ t \in consumed'
         \/ \E u \in DOMAIN tickets' \ DOMAIN tickets : tickets'[u].guest = tickets[t].guest]_guestVars
=============================================================================
