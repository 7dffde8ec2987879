--------------------------------- MODULE Entry ---------------------------------
(***************************************************************************)
(* How a browser tab gets to its seat and keeps it: the socket client of   *)
(* the tab (apps/web/src/game/GameSocketClient.ts) with the page's state   *)
(* (gameConnection.ts, useGameConnection.ts), the ticket it asks for and   *)
(* the WebSocket handshake (apps/api/src/app.ts), the lease of a guest     *)
(* (GuestAccess) and the registration with the hub (gameHub.ts).           *)
(*                                                                         *)
(* An attempt is one run of openSocket: a ticket request, and the ticket   *)
(* and the socket that may come of it.  Requests, answers, messages and    *)
(* closures take any time at either end, and a connection may be cut.  Of  *)
(* the match only the seat remains here; GameHub has the rest.             *)
(***************************************************************************)
EXTENDS GuestAccess

CONSTANTS
  Users, Tabs, Ips,
  MaxAttempts,   \* bound of the attempts
  MaxUnderWay,   \* bound of the attempts under way at once
  MaxFaults      \* bound of the connections cut and the snapshots held up

ASSUME EntryAssumption ==
  /\ MaxAttempts \in Nat /\ MaxUnderWay \in Nat /\ MaxFaults \in Nat

Seats == {"none", "queued", "held", "reserved", "ending", "endingAway"}

VARIABLES
  demo,         \* APP_MODE is demo: all users are guests, otherwise none is
  owner,        \* the user of each tab
  tab,          \* the page and its GameSocketClient
  att,          \* the attempts made so far
  hub,          \* clientsByUser
  seat,         \* of each user: none, queued, held, reserved after a loss, or, while
                \* the result is written: ending, or endingAway without the player
  recent,       \* recentGuestResults
  connections,  \* the leases of GuestAccess
  faults        \* connections cut and snapshots held up so far

entryVars == <<demo, owner, tab, att, hub, seat, recent, connections, faults>>

NoAttempt == 0
Attempts  == DOMAIN att
UserOf(a) == owner[att[a].tab]

\* "inRoom" stands for waitingReady, playing and paused.
Statuses == {"idle", "connecting", "matching", "inRoom", "reconnecting", "finished", "failed"}

NewPage == [status |-> "idle", room |-> FALSE]

Tab == [page    : [status : Statuses, room : BOOLEAN],   \* the reducer's state
        seen    : {"startable", "room", "other"},        \* stateRef: as last rendered
        current : Attempts \cup {NoAttempt},             \* this.socket
        timer   : BOOLEAN,                               \* reconnectTimer
        window  : {"none", "open", "over"}]              \* reconnectDeadlineMs

\* "over" is a snapshot of the phase finished, "snapshot" one of any other.
Messages == {"room", "snapshot", "over", "finished", "error"}

Attempt == [tab : Tabs,
            fresh : BOOLEAN,        \* its generation is the client's
            reconnected : BOOLEAN,
            stage : {"requesting", "granted", "refused", "connecting", "open", "closed"},
            ticket : {"none", "valid", "void"},  \* void: replaced by a newer one
            server : {"none", "coming", "admitted", "registered", "closing", "closed"},
            joins : BOOLEAN,        \* queue:join is on its way
            inbox : Seq(Messages),  \* sent to the browser, in order
            waiting : BOOLEAN,      \* a snapshot is held in the LatestSnapshotBuffer
            late : BOOLEAN,         \* history: what had waited was sent after its match
            cut : BOOLEAN]

EntryInit ==
  /\ demo \in BOOLEAN
  /\ owner \in [Tabs -> Users]
  /\ tab = [t \in Tabs |-> [page |-> NewPage, seen |-> "startable", current |-> NoAttempt,
                            timer |-> FALSE, window |-> "none"]]
  /\ att = <<>>
  /\ hub = [u \in Users |-> NoAttempt]
  /\ seat = [u \in Users |-> "none"]
  /\ recent = {}
  /\ connections = Nothing
  /\ faults = 0

-----------------------------------------------------------------------------
(* The page: gameConnectionReducer.                                        *)

reduced(page, event) ==
  CASE event = "connectStarted"     -> [status |-> "connecting", room |-> FALSE]
    [] event = "socketOpened"       -> [page EXCEPT !.status = "matching"]
    [] event = "socketReopened"     -> [page EXCEPT !.status = "reconnecting"]
    [] event \in {"room", "snapshot"} -> [status |-> "inRoom", room |-> TRUE]
    [] event = "over"               -> [status |-> "finished", room |-> TRUE]
    [] event = "finished"           -> [status |-> "finished", room |-> FALSE]
    [] event \in {"error", "failed"} -> [page EXCEPT !.status = "failed"]
    [] event = "socketClosed"       ->
         [page EXCEPT !.status = IF page.room THEN "reconnecting" ELSE "failed"]

dispatch(tb, event) == [tb EXCEPT !.page = reduced(@, event)]

canStartNewMatch(page) == ~page.room /\ page.status \in {"idle", "finished", "failed"}

\* What the client asks of the page last rendered.
Shown(page) == IF canStartNewMatch(page) THEN "startable"
               ELSE IF page.room THEN "room" ELSE "other"

\* React renders some time after the dispatches.
Render(t) ==
  /\ tab[t].seen # Shown(tab[t].page)
  /\ tab' = [tab EXCEPT ![t].seen = Shown(tab[t].page)]
  /\ UNCHANGED <<demo, owner, att, hub, seat, recent, connections, faults>>

-----------------------------------------------------------------------------
(* GameSocketClient.                                                       *)

Finished(t) == [tab |-> t, fresh |-> FALSE, reconnected |-> FALSE, stage |-> "closed",
                ticket |-> "none", server |-> "closed", joins |-> FALSE, inbox |-> <<>>,
                waiting |-> FALSE, late |-> FALSE, cut |-> FALSE]

\* What is left of an attempt once the browser has closed its socket: what the
\* server has yet to see of it, and nothing when both ends are through.
Settled(r) ==
  CASE r.stage # "closed" -> r
    [] r.stage = "closed" /\ (r.server \in {"none", "closed"} \/ (r.server = "coming" /\ r.cut)) -> Finished(r.tab)
    [] OTHER -> [Finished(r.tab) EXCEPT !.server = r.server, !.ticket = r.ticket,
                                        !.joins = r.joins /\ ~r.cut]

\* The attempts that are not over at both ends.
UnderWay == {a \in Attempts : att[a].stage # "closed" \/ att[a].server # "closed"}

\* The bounds of the model.
MayAttempt == Len(att) < MaxAttempts /\ Cardinality(UnderWay) < MaxUnderWay

\* replaceConnection: what was under way belongs to an older generation, the
\* socket is closed and its handlers are taken off.
Retired(t) ==
  [a \in Attempts |->
     IF att[a].tab # t THEN att[a]
     ELSE Settled([att[a] EXCEPT !.fresh = FALSE,
                                 !.stage = IF a = tab[t].current THEN "closed" ELSE @])]

Cleared(tb) == [tb EXCEPT !.current = NoAttempt, !.timer = FALSE, !.window = "none"]

NewAttempt(t, reconnected) ==
  [tab |-> t, fresh |-> TRUE, reconnected |-> reconnected, stage |-> "requesting",
   ticket |-> "none", server |-> "none", joins |-> FALSE, inbox |-> <<>>,
   waiting |-> FALSE, late |-> FALSE, cut |-> FALSE]

\* scheduleReconnect, in the generation of the tab.
scheduleReconnect(tb) ==
  CASE tb.timer -> tb
    [] ~tb.timer /\ tb.window = "over" -> dispatch(tb, "failed")
    [] OTHER -> [tb EXCEPT !.timer = TRUE, !.window = "open"]

isCurrent(a) == tab[att[a].tab].current = a /\ att[a].fresh

\* connect: the start buttons, guarded by what was rendered last.
Connect(t) ==
  /\ tab[t].seen = "startable"
  /\ MayAttempt
  /\ tab' = [tab EXCEPT ![t] = dispatch(Cleared(@), "connectStarted")]
  /\ att' = Append(Retired(t), NewAttempt(t, FALSE))
  /\ UNCHANGED <<demo, owner, hub, seat, recent, connections, faults>>

\* close: the page is left or loaded anew.
LeavePage(t) ==
  /\ tab[t].page # NewPage
  /\ tab' = [tab EXCEPT ![t] = [Cleared(@) EXCEPT !.page = NewPage, !.seen = "startable"]]
  /\ att' = Retired(t)
  /\ UNCHANGED <<demo, owner, hub, seat, recent, connections, faults>>

ReconnectTimerFires(t) ==
  /\ tab[t].timer
  /\ MayAttempt
  /\ tab' = [tab EXCEPT ![t].timer = FALSE]
  /\ att' = Append(att, NewAttempt(t, TRUE))
  /\ UNCHANGED <<demo, owner, hub, seat, recent, connections, faults>>

ReconnectWindowEnds(t) ==
  /\ tab[t].window = "open"
  /\ tab' = [tab EXCEPT ![t].window = "over"]
  /\ UNCHANGED <<demo, owner, att, hub, seat, recent, connections, faults>>

MutObsolete(a) == FALSE

\* The request was aborted, or its generation is over.
Obsolete(a) == ~att[a].fresh

\* openSocket goes on after its await.
TicketAnswered(a) ==
  LET t == att[a].tab
      opens == att[a].stage = "granted" /\ ~Obsolete(a)
  IN /\ att[a].stage \in {"granted", "refused"}
     /\ att' = [att EXCEPT ![a] = IF opens THEN [@ EXCEPT !.stage = "connecting", !.server = "coming"]
                                 ELSE Settled([@ EXCEPT !.stage = "closed"])]
     /\ tab' = [tab EXCEPT ![t] =
          CASE opens -> [@ EXCEPT !.current = a]
            [] ~opens /\ Obsolete(a) -> @
            [] ~opens /\ ~Obsolete(a) /\ att[a].reconnected -> scheduleReconnect(@)
            [] OTHER -> dispatch(@, "failed")]
     /\ UNCHANGED <<demo, owner, hub, seat, recent, connections, faults>>

\* onopen: the event the attempt was made for is sent, once.
SocketOpens(a) ==
  /\ att[a].stage = "connecting"
  /\ att[a].server # "coming" /\ ~att[a].cut
  /\ att' = [att EXCEPT ![a].stage = "open",
                        ![a].joins = /\ isCurrent(a) /\ ~att[a].reconnected
                                     /\ att[a].server \in {"admitted", "registered"}]
  /\ tab' = [tab EXCEPT ![att[a].tab] =
       IF isCurrent(a)
       THEN dispatch([@ EXCEPT !.window = "none"],
                     IF att[a].reconnected THEN "socketReopened" ELSE "socketOpened")
       ELSE @]
  /\ UNCHANGED <<demo, owner, hub, seat, recent, connections, faults>>

\* onmessage.
Deliver(a) ==
  /\ att[a].stage = "open" /\ att[a].inbox # <<>>
  /\ att' = [att EXCEPT ![a].inbox = Tail(@)]
  /\ tab' = [tab EXCEPT ![att[a].tab] = IF isCurrent(a) THEN dispatch(@, Head(att[a].inbox)) ELSE @]
  /\ UNCHANGED <<demo, owner, hub, seat, recent, connections, faults>>

\* onclose, after everything the server sent, or at once when the connection
\* was cut: the tab reconnects if the page last rendered was in a room.
SocketCloses(a) ==
  LET closed(tb) == dispatch([tb EXCEPT !.current = NoAttempt], "socketClosed")
  IN /\ \/ att[a].stage = "open" /\ att[a].server \in {"closing", "closed"} /\ att[a].inbox = <<>>
        \/ att[a].stage \in {"connecting", "open"} /\ att[a].cut
     /\ att' = [att EXCEPT ![a] = Settled([@ EXCEPT !.stage = "closed"])]
     /\ tab' = [tab EXCEPT ![att[a].tab] =
          CASE ~isCurrent(a) -> @
            [] isCurrent(a) /\ @.seen = "room" -> scheduleReconnect(closed(@))
            [] OTHER -> closed(@)]
     /\ UNCHANGED <<demo, owner, hub, seat, recent, connections, faults>>

-----------------------------------------------------------------------------
(* The ticket and the handshake.                                           *)

\* POST /auth/ws-ticket, also for a request the browser has given up: a ticket
\* of a guest replaces its previous one, or the request is refused or fails.
IssueTicket(a) ==
  /\ att[a].stage = "requesting"
  /\ \/ att' = [b \in Attempts |->
          IF b = a THEN [att[b] EXCEPT !.stage = "granted", !.ticket = "valid"]
          ELSE IF demo /\ UserOf(b) = UserOf(a) /\ att[b].ticket = "valid"
          THEN [att[b] EXCEPT !.ticket = "void"]
          ELSE att[b]]
     \/ att' = [att EXCEPT ![a].stage = "refused"]
  /\ UNCHANGED <<demo, owner, tab, hub, seat, recent, connections, faults>>

MutReplaced(attempts, previous) == attempts

\* What replaceConnection does to the previous socket: what waits in its
\* buffer is dropped, it is closed, and its close event comes later.
Replaced(attempts, previous) ==
  IF previous = NoAttempt THEN attempts
  ELSE [attempts EXCEPT ![previous].server = "closing", ![previous].waiting = FALSE,
                        ![previous].joins = FALSE]

MutGreetings(u) == {IF u \in recent THEN <<"finished">> ELSE <<>>}

\* Whether the page will show a match once it has heard what was sent to it.
ShowsMatch(page, inbox) ==
  IF inbox = <<>> THEN page.status = "inRoom" ELSE inbox[Len(inbox)] \in {"room", "snapshot"}

\* What is on its way with a message more; a snapshot that leaves the page as it
\* would be is not kept.
With(page, inbox, message) ==
  IF message = "snapshot" /\ ShowsMatch(page, inbox) THEN inbox ELSE Append(inbox, message)

\* What a new connection is sent, which is not behind yet: its room and the
\* snapshot, if it has one, else the result of the guest's last match.  A
\* snapshot the page has seen changes nothing there.
Greetings(u) ==
  LET seated == IF hub[u] = NoAttempt THEN seat[u] = "reserved" ELSE seat[u] \in {"held", "ending"}
      newest == IF seat[u] = "ending" THEN "over" ELSE "snapshot"
  IN IF seated THEN {<<"room">>, With(NewPage, <<"room">>, newest)}
     ELSE {IF u \in recent THEN <<"finished">> ELSE <<>>}

\* hub.connect: a connection of the user is replaced, else a reserved seat is
\* recovered; a place in the queue is lost with the connection that had it.
HubConnect(a) ==
  LET u == UserOf(a)
  IN /\ hub' = [hub EXCEPT ![u] = a]
     /\ \E greeting \in Greetings(u) :
          att' = Replaced([att EXCEPT ![a] = Settled([@ EXCEPT !.server = "registered", !.ticket = "none",
                                                              !.inbox = greeting])], hub[u])
     /\ seat' = [seat EXCEPT ![u] = CASE @ = "queued" -> "none"
                                      [] @ = "reserved" -> "held"
                                      [] OTHER -> @]
     /\ UNCHANGED <<demo, owner, tab, recent, faults>>

\* GET /ws: the socket is open at the server, and its ticket is checked, also
\* when the browser has given the socket up meanwhile.
AtTheDoor(a) == att[a].server = "coming" /\ ~att[a].cut

\* The upgrade of a socket the browser has given up never reaches the server.
UpgradeLost(a) ==
  /\ att[a].stage = "closed" /\ att[a].server = "coming"
  /\ att' = [att EXCEPT ![a] = Finished(att[a].tab)]
  /\ UNCHANGED <<demo, owner, tab, hub, seat, recent, connections, faults>>

\* closeAuthentication: the ticket is unknown or too old, or a limit is reached.
Rejected(a) ==
  /\ att' = [att EXCEPT ![a].server = "closing", ![a].ticket = "none"]
  /\ UNCHANGED <<demo, owner, tab, hub, seat, recent, connections, faults>>

\* A guest's ticket is in memory: it is used, the lease taken and the socket
\* registered with nothing in between.
AuthenticateGuest(a, ip) ==
  /\ demo /\ AtTheDoor(a)
  /\ \/ /\ att[a].ticket = "valid" /\ ConnectionAllowed(connections, ip, UserOf(a))
        /\ HubConnect(a)
        /\ connections' = acquireConnection(connections, ip, UserOf(a), a)
     \/ Rejected(a)

\* A registered user's ticket is used up in the database first.
ConsumeTicket(a) ==
  /\ ~demo /\ AtTheDoor(a)
  /\ \/ /\ att[a].ticket = "valid"
        /\ att' = [att EXCEPT ![a].server = "admitted", ![a].ticket = "none"]
        /\ UNCHANGED <<demo, owner, tab, hub, seat, recent, connections, faults>>
     \/ Rejected(a)

Admit(a) ==
  /\ att[a].server = "admitted"
  /\ HubConnect(a)
  /\ UNCHANGED connections

-----------------------------------------------------------------------------
(* The hub.                                                                *)

Send(u, message) ==
  [a \in Attempts |-> IF a = hub[u] /\ att[a].stage # "closed" /\ ~att[a].cut
                      THEN [att[a] EXCEPT !.inbox = Append(@, message)] ELSE att[a]]

\* The close event at the server: the guest's lease is given back, then the
\* hub forgets the connection, unless another has taken its place.
ServerNotices(a) ==
  LET u == UserOf(a)
  IN /\ \/ att[a].server = "closing"
        \/ /\ att[a].server \in {"admitted", "registered"}
           /\ att[a].stage = "closed" \/ att[a].cut
     /\ att' = [att EXCEPT ![a] = Settled([@ EXCEPT !.server = "closed", !.joins = FALSE,
                                                     !.waiting = FALSE])]
     /\ connections' = release(connections, u, a)
     /\ IF hub[u] = a
        THEN /\ hub' = [hub EXCEPT ![u] = NoAttempt]
             /\ seat' = [seat EXCEPT ![u] = CASE @ = "queued" -> "none"
                                              [] @ = "held" -> "reserved"
                                              [] @ = "ending" -> "endingAway"
                                              [] OTHER -> @]
        ELSE UNCHANGED <<hub, seat>>
     /\ UNCHANGED <<demo, owner, tab, recent, faults>>

\* joinQueue, asked for by the attempt that holds the user's place.
JoinQueue(a) ==
  LET u == UserOf(a)
  IN /\ att[a].joins /\ ~att[a].cut
     /\ att[a].server = "registered" /\ hub[u] = a
     /\ att' = [(IF seat[u] = "none" THEN att ELSE Send(u, "error")) EXCEPT ![a].joins = FALSE]
     /\ seat' = [seat EXCEPT ![u] = IF @ = "none" THEN "queued" ELSE @]
     /\ UNCHANGED <<demo, owner, tab, hub, recent, connections, faults>>

MatchFound(u) ==
  /\ seat[u] = "queued"
  /\ seat' = [seat EXCEPT ![u] = "held"]
  /\ att' = Send(u, "room")
  /\ UNCHANGED <<demo, owner, tab, hub, recent, connections, faults>>

\* A snapshot of the match goes out, or is held up while the client is behind.
SendSnapshot(u) ==
  LET a == hub[u]
      news == With(tab[att[a].tab].page, att[a].inbox, "snapshot")
  IN /\ seat[u] = "held" /\ a # NoAttempt
     /\ att[a].stage # "closed" /\ ~att[a].cut
     /\ \/ /\ att' = [att EXCEPT ![a].inbox = news, ![a].waiting = FALSE]
           /\ UNCHANGED faults
        \/ /\ ~att[a].waiting /\ faults < MaxFaults
           /\ att' = [att EXCEPT ![a].waiting = TRUE]
           /\ faults' = faults + 1
     /\ UNCHANGED <<demo, owner, tab, hub, seat, recent, connections>>

\* The retry timer of the buffer: what was held up goes out when the client has
\* caught up, whatever has become of the match.
SnapshotRetried(a) ==
  /\ att[a].server = "registered" /\ att[a].waiting
  /\ att' = [att EXCEPT ![a].waiting = FALSE,
                        ![a].inbox = With(tab[att[a].tab].page, @, "snapshot"),
                        ![a].late = @ \/ seat[UserOf(a)] \notin {"held", "ending"}]
  /\ UNCHANGED <<demo, owner, tab, hub, seat, recent, connections, faults>>

\* A match of guests ends, won or lost, or by forfeit of a player who is
\* missing; it is dropped without a result only when both are missing.
GuestMatchEnds(u) ==
  /\ demo /\ seat[u] \in {"held", "reserved"}
  /\ seat' = [seat EXCEPT ![u] = "none"]
  /\ att' = Send(u, "finished")
  /\ recent' = recent \cup {u}
  /\ UNCHANGED <<demo, owner, tab, hub, connections, faults>>

\* A match of registered users ends: nobody is waited for any more, but the
\* room stays until its result is written.
MatchEnds(u) ==
  /\ ~demo /\ seat[u] \in {"held", "reserved"}
  /\ seat' = [seat EXCEPT ![u] = IF @ = "held" THEN "ending" ELSE "endingAway"]
  /\ UNCHANGED <<demo, owner, tab, att, hub, recent, connections, faults>>

\* The result is written: those still in the room are told, and it is removed.
ResultWritten(u) ==
  /\ seat[u] \in {"ending", "endingAway"}
  /\ seat' = [seat EXCEPT ![u] = "none"]
  /\ att' = IF seat[u] = "ending" THEN Send(u, "finished") ELSE att
  /\ UNCHANGED <<demo, owner, tab, hub, recent, connections, faults>>

MatchAbandoned(u) ==
  /\ seat[u] = "reserved"
  /\ seat' = [seat EXCEPT ![u] = "none"]
  /\ UNCHANGED <<demo, owner, tab, att, hub, recent, connections, faults>>

GuestResultExpires(u) ==
  /\ u \in recent
  /\ recent' = recent \ {u}
  /\ UNCHANGED <<demo, owner, tab, att, hub, seat, connections, faults>>

\* The network: a connection, or the upgrade to one, is cut.
Cut(a) ==
  /\ faults < MaxFaults
  /\ att[a].stage \in {"connecting", "open"} /\ ~att[a].cut
  /\ att' = [att EXCEPT ![a].cut = TRUE, ![a].inbox = <<>>, ![a].waiting = FALSE,
                        ![a].joins = FALSE]
  /\ faults' = faults + 1
  /\ UNCHANGED <<demo, owner, tab, hub, seat, recent, connections>>

EntryNext ==
  \/ \E t \in Tabs : \/ Render(t) \/ Connect(t) \/ LeavePage(t)
                     \/ ReconnectTimerFires(t) \/ ReconnectWindowEnds(t)
  \/ \E a \in UnderWay : \/ TicketAnswered(a) \/ SocketOpens(a) \/ Deliver(a) \/ SocketCloses(a)
                         \/ IssueTicket(a)
                         \/ \E ip \in Ips : AuthenticateGuest(a, ip)
                         \/ ConsumeTicket(a) \/ Admit(a) \/ UpgradeLost(a)
                         \/ ServerNotices(a) \/ JoinQueue(a) \/ SnapshotRetried(a) \/ Cut(a)
  \/ \E u \in Users : \/ MatchFound(u) \/ SendSnapshot(u)
                      \/ GuestMatchEnds(u) \/ MatchEnds(u) \/ ResultWritten(u)
                      \/ MatchAbandoned(u) \/ GuestResultExpires(u)

EntrySpec == EntryInit /\ [][EntryNext]_entryVars

-----------------------------------------------------------------------------
(* Properties.                                                             *)

EntryTypeOK ==
  /\ demo \in BOOLEAN /\ owner \in [Tabs -> Users]
  /\ tab \in [Tabs -> Tab]
  /\ \A a \in Attempts : att[a] \in Attempt
  /\ hub \in [Users -> Attempts \cup {NoAttempt}]
  /\ seat \in [Users -> Seats]
  /\ recent \subseteq Users
  /\ faults \in 0..MaxFaults

\* A tab never has two sockets, however its starts, reconnections and late
\* tickets follow each other (GameSocketClient.ts:52-64, 99, 167-187).
OneLiveSocketPerTab ==
  \A a \in Attempts : att[a].stage \in {"connecting", "open"} => isCurrent(a)

\* The guests connected to the hub are the ones who hold a lease, each the
\* lease of the socket the hub knows, and they keep within the limits: no
\* late closure of a replaced socket gives the successor's lease away
\* (guestAccess.ts:248-303; app.ts:225-233; gameHub.ts:188-241).
LeaseFollowsSocket ==
  IF demo
  THEN /\ DOMAIN connections = {u \in Users : hub[u] # NoAttempt}
       /\ \A u \in DOMAIN connections : connections[u].leaseId = hub[u]
       /\ \A ip \in Ips : Cardinality(GuestsOfIp(connections, ip)) <= connectionsPerIp
       /\ Cardinality(DOMAIN connections) <= connectionLimit
  ELSE connections = Nothing

\* A tab that shows a match, has heard everything and has a socket nobody has
\* closed is the one the hub plays that match with: a tab taken over by
\* another, or left without a seat, is told.  Only a snapshot that had waited
\* may bring an ended match back (gameHub.ts:341-427, 1097-1111;
\* gameConnection.ts:62-122).
PlayingTabHasSeat ==
  \A t \in Tabs :
    LET a == tab[t].current
    IN tab[t].page.status = "inRoom" /\ a # NoAttempt
         /\ att[a].inbox = <<>> /\ ~att[a].cut /\ att[a].server \notin {"closing", "closed"}
       => hub[owner[t]] = a /\ (seat[owner[t]] \in {"held", "ending"} \/ att[a].late)

\* And the other way: a player the hub counts on as present has the room on the
\* page once everything sent has arrived, after any takeover or recovery and
\* while the result is being written (gameHub.ts:365-427, 501-506).
SeatedTabShowsRoom ==
  \A u \in Users :
    LET a == hub[u]
    IN a # NoAttempt /\ seat[u] \in {"held", "ending"}
         /\ att[a].stage = "open" /\ att[a].inbox = <<>> /\ ~att[a].cut
       => tab[att[a].tab].page.room
=============================================================================
