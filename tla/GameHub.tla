------------------------------- MODULE GameHub -------------------------------
(***************************************************************************)
(* The hub of the game server (apps/api/src/gameHub.ts): who is connected, *)
(* who waits for an opponent, which rooms are open, how a match is ended,  *)
(* recorded and taken off, and how the server is drained.  It composes the *)
(* matchmaking engine (Matchmaker) and one session per room (RoomSession). *)
(*                                                                         *)
(* Every action is one callback of the event loop: a socket event, a       *)
(* message, a timer, or the continuation of an await.  What happens at an  *)
(* await is a pending call (lookups, joins, starts, writes) whose answer   *)
(* is an action of its own, so that anything may come in between.          *)
(***************************************************************************)
EXTENDS RoomSession, Matchmaker, FiniteSets

CONSTANTS
  Matches,       \* tournament matches that are ready to be played
  Participants,  \* the two users of each
  MaxConns,      \* bound: connections ever made
  MaxRooms,      \* bound: rooms ever created
  MaxLookups,    \* bound: pending listNpcOpponents() calls of one user
  MaxJoins,      \* bound: pending getTournamentMatch() calls
  MaxDrains      \* bound: drains begun, 0 or 1 (index.ts begins one, on a signal)

VARIABLES
  owner,      \* the user of every connection ever made, in order
  open,       \* connections whose socket is OPEN
  clients,    \* this.clients
  byUser,     \* this.clientsByUser; 0 for a missing key
  roomOf,     \* client.roomId; 0 for null
  queue,      \* this.matchmaker and this.queueEntries
  lookups,    \* listNpcOpponents() calls of matchQueuedClientWithNpc
  waiters,    \* this.tournamentWaiters
  joins,      \* getTournamentMatch() calls of joinTournamentMatch
  starts,     \* startTournamentMatch() calls of joinTournamentMatch
  rooms,      \* the Room objects still referred to, by room id
  active,     \* the keys of this.rooms
  created,    \* the number of rooms created, the last room id
  scheduled,  \* rooms registered with this.roomScheduler
  writes,     \* rooms with a finalizeMatch() call under way
  results,    \* the database: the results applied for every room, by tournament match
  bracket,    \* the database: the status of every tournament match
  recent,     \* this.recentGuestResults
  accepting,  \* this.acceptingMatches
  drain,      \* this.drainWaiter, and what its promise came to
  closed      \* close() has run

connVars == <<owner, open, clients, byUser>>
bracketVars == <<waiters, joins, starts, bracket>>
roomVars == <<rooms, active, created, scheduled>>
dbVars == <<writes, results>>
lifeVars == <<accepting, drain, closed>>
vars == <<connVars, roomOf, queue, lookups, bracketVars, roomVars, dbVars, recent, lifeVars>>

Conns == 1..MaxConns
RoomIds == 1..MaxRooms
AI == 0        \* the right seat of a room without a second client
NoRoom == 0
NoConn == 0
NoMatch == "none"
NoEntry == [client |-> NoConn, stamp |-> 0, timer |-> FALSE]

ASSUME HubAssumption ==
  /\ IsFiniteSet(Users)
  /\ NoMatch \notin Matches
  /\ Participants \in [Matches -> [Sides -> Users \ Guests]]
  /\ MaxConns \in Nat /\ MaxRooms \in Nat
  /\ MaxLookups \in Nat /\ MaxJoins \in Nat /\ MaxDrains \in {0, 1}

\* Two entries of one client are different objects: the stamp tells them apart.
Entry == [client : Conns, stamp : 0..MaxLookups, timer : BOOLEAN]
QueueState == [mm : MatchmakerState, entries : [Users -> Entry \cup {NoEntry}]]

Room ==
  [seat    : [Sides -> Conns \cup {AI}],
   match   : Matches \cup {NoMatch},
   session : Session,
   phase   : ResumableStates \cup {"finished"},  \* snapshot.state.phase
   ready   : SUBSET Sides,
   gone    : SUBSET Sides,                       \* the keys of disconnectedUsers
   timer   : BOOLEAN,                            \* reconnectTimer is armed
   waited  : 0..(RECONNECT_WINDOW_MS + 1),       \* time since the window was started
   fin     : {"no", "writing", "backoff"},       \* finishing, and what it waits for
   winner  : Sides \cup {NoSide}]

ConnTypes ==
  /\ owner \in Seq(Users) /\ Len(owner) <= MaxConns
  /\ open \subseteq DOMAIN owner
  /\ clients \subseteq DOMAIN owner
  /\ byUser \in [Users -> DOMAIN owner \cup {NoConn}]

QueueTypes ==
  /\ queue \in QueueState
  /\ lookups \subseteq [client : DOMAIN owner, stamp : 0..MaxLookups]

BracketTypes ==
  /\ waiters \in [Matches -> SUBSET DOMAIN owner]
  /\ joins \subseteq [client : DOMAIN owner, match : Matches, nth : 1..MaxJoins, wasReady : BOOLEAN]
  /\ starts \subseteq [match : Matches, room : RoomIds]
  /\ bracket \in [Matches -> {"ready", "running", "finished"}]

RoomTypes ==
  /\ roomOf \in Seq(RoomIds \cup {NoRoom}) /\ Len(roomOf) = Len(owner)
  /\ created \in 0..MaxRooms
  /\ DOMAIN rooms = active \cup writes
  /\ \A r \in DOMAIN rooms :
       /\ r \in 1..created /\ rooms[r] \in Room
       /\ rooms[r].seat["left"] \in DOMAIN owner
       /\ rooms[r].seat["right"] \in DOMAIN owner \cup {AI}
  /\ scheduled \subseteq active

LifeTypes ==
  /\ results \in [RoomIds -> Seq(Matches \cup {NoMatch})]
  /\ recent \subseteq Guests
  /\ accepting \in BOOLEAN /\ closed \in BOOLEAN
  /\ drain \in {"idle", "waiting", "drained", "timedout"}

TypeOK == ConnTypes /\ QueueTypes /\ BracketTypes /\ RoomTypes /\ LifeTypes

Init ==
  /\ owner = <<>> /\ open = {} /\ clients = {} /\ byUser = [u \in Users |-> NoConn]
  /\ roomOf = <<>>
  /\ queue = [mm |-> NewMatchmaker, entries |-> [u \in Users |-> NoEntry]]
  /\ lookups = {}
  /\ waiters = [m \in Matches |-> {}] /\ joins = {} /\ starts = {}
  /\ bracket = [m \in Matches |-> "ready"]
  /\ rooms = <<>> /\ active = {} /\ created = 0 /\ scheduled = {}
  /\ writes = {} /\ results = [r \in RoomIds |-> <<>>]
  /\ recent = {}
  /\ accepting = TRUE /\ drain = "idle" /\ closed = FALSE

-----------------------------------------------------------------------------
(* The queue: the matchmaker and the entries the hub keeps beside it.      *)

\* leaveQueue: a user claimed by the fallback is no longer queued, and is
\* released instead.
LeaveQueueOf(q, u) ==
  IF q.entries[u] = NoEntry THEN [q EXCEPT !.mm = leaveQueue(q.mm, u)]
  ELSE [mm |-> IF leavesQueue(q.mm, u) THEN leaveQueue(q.mm, u) ELSE release(leaveQueue(q.mm, u), u),
        entries |-> [q.entries EXCEPT ![u] = NoEntry]]

LeaveAll(q, us) == FoldSet(LAMBDA u, acc : LeaveQueueOf(acc, u), q, us)
WithEntry(q) == {u \in Users : q.entries[u] # NoEntry}

\* pruneQueue
Pruned(q) == LeaveAll(q, {u \in WithEntry(q) : q.entries[u].client \notin open})

MutDropEntry(q, u) == [q EXCEPT !.entries[u].timer = FALSE]

ReleaseUser(q, u) == [q EXCEPT !.mm = release(@, u)]
DropEntry(q, u) == [q EXCEPT !.entries[u] = NoEntry]

ReleaseAll(q, us) == FoldSet(LAMBDA u, acc : ReleaseUser(acc, u), q, us)

SeatedUsers(room) == {owner[c] : c \in Range(room.seat) \ {AI}}

MutReleaseSeats(q, room) == ReleaseUser(q, owner[room.seat["left"]])

\* releaseMatchmakingReservations
ReleaseSeats(q, room) == ReleaseAll(q, SeatedUsers(room))

NewEntry(c) ==
  [client |-> c, timer |-> TRUE,
   stamp  |-> CHOOSE s \in 0..MaxLookups :
                /\ [client |-> c, stamp |-> s] \notin lookups
                /\ \A t \in 0..(s - 1) : [client |-> c, stamp |-> t] \in lookups]

-----------------------------------------------------------------------------
(* Rooms.                                                                  *)

sideFor(room, c) == {side \in Sides : room.seat[side] = c}
IsGuestRoom(room) == owner[room.seat["left"]] \in Guests

NewRoom(left, right, m) ==
  [seat    |-> [side \in Sides |-> IF side = "left" THEN left ELSE right],
   match   |-> m,
   session |-> IF right = AI THEN markReady(NewSession, "right") ELSE NewSession,
   phase   |-> "waiting",
   ready   |-> {}, gone |-> {}, timer |-> FALSE, waited |-> 0,
   fin     |-> "no", winner |-> NoSide]

createRoom(left, right, m) ==
  /\ created < MaxRooms
  /\ created' = created + 1
  /\ rooms' = [r \in DOMAIN rooms \cup {created + 1} |->
                 IF r = created + 1 THEN NewRoom(left, right, m) ELSE rooms[r]]
  /\ active' = active \cup {created + 1}
  /\ roomOf' = [c \in DOMAIN owner |-> IF c \in {left, right} THEN created + 1 ELSE roomOf[c]]
  /\ UNCHANGED scheduled

\* createRoom that fails after the room is entered takes it back.
createRoomFails == UNCHANGED <<roomOf, roomVars>>

notifyDrainProgress(left) == IF drain = "waiting" /\ left = {} THEN "drained" ELSE drain

MutRemoveRoomOfUsers(r, q, rs, writing) ==
  /\ queue' = ReleaseSeats(q, rs[r])
  /\ roomOf' = [c \in DOMAIN owner |->
                  IF \E d \in Range(rs[r].seat) \ {AI} : owner[d] = owner[c] THEN NoRoom ELSE roomOf[c]]
  /\ active' = active \ {r}
  /\ scheduled' = scheduled \ {r}
  /\ rooms' = Restrict(rs, (active \ {r}) \cup writing)
  /\ writes' = writing
  /\ drain' = notifyDrainProgress(active \ {r})
  /\ UNCHANGED created

\* abandonRoom and removeFinishedRoom take the room off in the same way, with
\* q the queue and rs the room objects they find.
RemoveRoom(r, q, rs, writing) ==
  /\ queue' = ReleaseSeats(q, rs[r])
  /\ roomOf' = [c \in DOMAIN owner |-> IF c \in Range(rs[r].seat) THEN NoRoom ELSE roomOf[c]]
  /\ active' = active \ {r}
  /\ scheduled' = scheduled \ {r}
  /\ rooms' = Restrict(rs, (active \ {r}) \cup writing)
  /\ writes' = writing
  /\ drain' = notifyDrainProgress(active \ {r})
  /\ UNCHANGED created

\* The room a client leaves: it has to be in it, and the room not finishing.
LeftRooms(c) ==
  {r \in active : /\ r = roomOf[c]
                  /\ sideFor(rooms[r], c) # {}
                  /\ rooms[r].fin = "no" /\ rooms[r].session.state # "finished"}

MutReserved(room, side) ==
  [room EXCEPT !.session = disconnect(@, side, 0),
               !.waited  = 0,
               !.gone    = @ \cup {side},
               !.phase   = "paused",
               !.timer   = room.gone = {}]

\* reserveRoomSide; the window starts anew, and so does its clock.
Reserved(room, side) ==
  [room EXCEPT !.session = disconnect(@, side, 0),
               !.waited  = 0,
               !.gone    = @ \cup {side},
               !.phase   = "paused",
               !.timer   = TRUE]

reserveRoomSide(c) ==
  /\ rooms' = [r \in DOMAIN rooms |->
                 IF r \in LeftRooms(c)
                 THEN Reserved(rooms[r], CHOOSE side \in sideFor(rooms[r], c) : TRUE)
                 ELSE rooms[r]]
  /\ scheduled' = scheduled \ LeftRooms(c)

\* finishRoom and the first part of finalizeRoom, on room object room.
finishRoom(r, room, side) ==
  LET done == [room EXCEPT !.gone = {}, !.timer = FALSE, !.waited = 0, !.session = finish(@),
                           !.phase = "finished", !.winner = side, !.fin = "writing"]
  IN /\ room.fin = "no"
     /\ \/ /\ IsGuestRoom(room)
           /\ recent' = recent \cup SeatedUsers(room)
           /\ RemoveRoom(r, queue, [rooms EXCEPT ![r] = done], writes)
        \/ /\ ~IsGuestRoom(room)
           /\ rooms' = [rooms EXCEPT ![r] = done]
           /\ writes' = writes \cup {r}
           /\ scheduled' = scheduled \ {r}
           /\ UNCHANGED <<active, created, roomOf, queue, recent, drain>>
     /\ UNCHANGED <<connVars, lookups, bracketVars, results, accepting, closed>>
-----------------------------------------------------------------------------
(* Connections.                                                            *)

Without(c) == [m \in Matches |-> waiters[m] \ {c}]

\* recoverConnection: the first room that keeps a seat for u and takes it back.
KeptFor(u, r, side) ==
  /\ side \in rooms[r].gone
  /\ owner[rooms[r].seat[side]] = u
  /\ reconnects(rooms[r].session, side, rooms[r].waited)

Recoverable(u) == {p \in active \X Sides : KeptFor(u, p[1], p[2])}

FirstRecoverable(u) ==
  CHOOSE p \in Recoverable(u) :
    \A q \in Recoverable(u) : p[1] < q[1] \/ (p[1] = q[1] /\ (p[2] = "left" \/ q[2] = "right"))

\* The room with side back in the hands of connection c.
Recovered(room, side, c) ==
  LET back == reconnect(room.session, side, room.waited)
      seated == [room EXCEPT !.session = back, !.seat[side] = c, !.gone = @ \ {side}]
  IN IF back.state = "reconnecting" THEN seated
     ELSE [seated EXCEPT !.timer = FALSE, !.waited = 0, !.phase = back.state]

\* connect of a user that has no connection: recoverConnection.
ConnectAfresh(u, c) ==
  /\ byUser[u] = NoConn
  /\ IF Recoverable(u) = {}
     THEN /\ roomOf' = Append(roomOf, NoRoom)
          /\ UNCHANGED <<rooms, scheduled>>
     ELSE LET r == FirstRecoverable(u)[1]
              side == FirstRecoverable(u)[2]
              room == Recovered(rooms[r], side, c)
          IN /\ roomOf' = Append([roomOf EXCEPT ![rooms[r].seat[side]] = NoRoom], r)
             /\ rooms' = [rooms EXCEPT ![r] = room]
             /\ scheduled' = IF room.session.state = "playing" THEN scheduled \cup {r} ELSE scheduled
  /\ clients' = clients \cup {c}
  /\ open' = open \cup {c}
  /\ UNCHANGED <<queue, waiters>>

\* The seat of connection old in the hands of connection c.
Reseated(room, old, c) ==
  [room EXCEPT !.seat = [side \in Sides |-> IF room.seat[side] = old THEN c ELSE room.seat[side]]]

\* connect of a user that has one: replaceConnection hands the seat over and
\* closes the previous socket.
ConnectReplacing(u, c) ==
  LET old == byUser[u]
      r == roomOf[old]
      seated == r \in active /\ sideFor(rooms[r], old) # {}
  IN /\ old # NoConn
     /\ queue' = LeaveQueueOf(queue, u)
     /\ waiters' = Without(old)
     /\ clients' = (clients \cup {c}) \ {old}
     /\ open' = (open \cup {c}) \ {old}
     /\ IF seated
        THEN /\ rooms' = [rooms EXCEPT ![r] = Reseated(@, old, c)]
             /\ roomOf' = Append([roomOf EXCEPT ![old] = NoRoom], r)
        ELSE /\ roomOf' = Append(roomOf, NoRoom)
             /\ UNCHANGED rooms
     /\ UNCHANGED scheduled

Connect(u) ==
  LET c == Len(owner) + 1
  IN /\ ~closed /\ c <= MaxConns
     /\ owner' = Append(owner, u)
     /\ byUser' = [byUser EXCEPT ![u] = c]
     /\ ConnectAfresh(u, c) \/ ConnectReplacing(u, c)
     /\ UNCHANGED <<lookups, joins, starts, bracket, active, created, dbVars, recent, lifeVars>>

\* The network or the heartbeat ends a socket; its close event comes later.
SocketDrops(c) ==
  /\ c \in open
  /\ open' = open \ {c}
  /\ UNCHANGED <<owner, clients, byUser, roomOf, queue, lookups, bracketVars, roomVars, dbVars,
                 recent, lifeVars>>

\* What disconnect and revokeUser share.
Depart(c) ==
  /\ queue' = LeaveQueueOf(queue, owner[c])
  /\ waiters' = Without(c)
  /\ clients' = clients \ {c}
  /\ byUser' = [byUser EXCEPT ![owner[c]] = IF @ = c THEN NoConn ELSE @]
  /\ reserveRoomSide(c)
  /\ UNCHANGED <<owner, roomOf, lookups, joins, starts, bracket, active, created, dbVars, recent,
                 lifeVars>>

\* The close event; for a connection that is not a client it does nothing.
Disconnect(c) ==
  /\ c \in clients \ open
  /\ Depart(c)
  /\ UNCHANGED open

\* A ban (app.ts:570); the user may come back once it is lifted.
RevokeUser(u) ==
  /\ u \notin Guests /\ byUser[u] # NoConn
  /\ Depart(byUser[u])
  /\ open' = open \ {byUser[u]}

-----------------------------------------------------------------------------
(* Messages of the lobby.  receive drops what comes from an old client.    *)

Receives(c) == c \in clients \cap open

\* joinQueue for a match against the practice AI.
JoinAi(c) ==
  /\ Receives(c) /\ accepting /\ roomOf[c] = NoRoom
  /\ queue' = LeaveQueueOf(Pruned(queue), owner[c])
  /\ createRoom(c, AI, NoMatch) \/ createRoomFails
  /\ UNCHANGED <<connVars, lookups, bracketVars, dbVars, recent, lifeVars>>

\* joinQueue when nobody suits, or when the user is known already.
JoinAndWait(c) ==
  LET q == Pruned(queue)
      u == owner[c]
      joined == [q EXCEPT !.mm = enqueue(@, u, 0)]
  IN /\ Receives(c) /\ accepting /\ roomOf[c] = NoRoom
     /\ ~FindsOpponent(q.mm, u)
     /\ queue' = IF IsDuplicate(q.mm, u) THEN q
                 ELSE [joined EXCEPT !.entries[u] = NewEntry(c)]
     /\ UNCHANGED <<connVars, roomOf, lookups, bracketVars, roomVars, dbVars, recent, lifeVars>>

\* joinQueue when an opponent waits.  Without the opponent's entry, or without
\* a room, both are released.
JoinAndPlay(c) ==
  LET q == Pruned(queue)
      u == owner[c]
      v == OpponentOf(q.mm, u)
      joined == [q EXCEPT !.mm = enqueue(@, u, 0)]
  IN /\ Receives(c) /\ accepting /\ roomOf[c] = NoRoom
     /\ FindsOpponent(q.mm, u)
     /\ \/ /\ q.entries[v] # NoEntry
           /\ queue' = DropEntry(joined, v)
           /\ createRoom(q.entries[v].client, c, NoMatch)
        \/ /\ queue' = ReleaseUser(ReleaseUser(DropEntry(joined, v), v), u)
           /\ createRoomFails
     /\ UNCHANGED <<connVars, lookups, bracketVars, dbVars, recent, lifeVars>>

QueueLeave(c) ==
  /\ Receives(c)
  /\ queue' = LeaveQueueOf(queue, owner[c])
  /\ UNCHANGED <<connVars, roomOf, lookups, bracketVars, roomVars, dbVars, recent, lifeVars>>
-----------------------------------------------------------------------------
(* The fallback of a user nobody suits: matchQueuedClientWithNpc.          *)

\* Whether the match found for an entry still has a taker.
CanBeSeated(c) == c \in open /\ roomOf[c] = NoRoom

\* The timer of the current entry.  A guest gets the practice AI at once (no
\* entry outlives a drain, so the server accepts matches); for a registered
\* user the rated NPCs are looked up first.
NpcFallbackTimer(u) ==
  LET entry == queue.entries[u]
      c == entry.client
      claimed == [queue EXCEPT !.mm = claimAiFallback(@, u, 0)]
  IN /\ entry.timer
     /\ \/ /\ ~CanBeSeated(c)
           /\ queue' = LeaveQueueOf(queue, u)
           /\ UNCHANGED <<roomOf, lookups, roomVars>>
        \/ /\ CanBeSeated(c) /\ claimResult(queue.mm, u, 0) = "unavailable"
           /\ queue' = DropEntry(claimed, u)
           /\ UNCHANGED <<roomOf, lookups, roomVars>>
        \/ /\ CanBeSeated(c) /\ claimResult(queue.mm, u, 0) = "ready" /\ u \in Guests
           /\ \/ /\ queue' = DropEntry(claimed, u)
                 /\ createRoom(c, AI, NoMatch)
              \/ /\ queue' = ReleaseUser(DropEntry(claimed, u), u)
                 /\ createRoomFails
           /\ UNCHANGED lookups
        \/ /\ CanBeSeated(c) /\ claimResult(queue.mm, u, 0) = "ready" /\ u \notin Guests
           /\ Cardinality({l \in lookups : owner[l.client] = u}) < MaxLookups
           /\ queue' = [claimed EXCEPT !.entries[u].timer = FALSE]
           /\ lookups' = lookups \cup {[client |-> c, stamp |-> entry.stamp]}
           /\ UNCHANGED <<roomOf, roomVars>>
     /\ UNCHANGED <<connVars, bracketVars, dbVars, recent, lifeVars>>

\* The entry the lookup was made for is still the user's, and may be served.
IsCurrent(l) ==
  LET entry == queue.entries[owner[l.client]]
  IN entry.client = l.client /\ entry.stamp = l.stamp
StillWanted(l) == IsCurrent(l) /\ accepting /\ CanBeSeated(l.client)

\* listNpcOpponents() answers with an NPC, with none, or with an error; a room
\* that cannot be created counts as an error.  A stale answer gives the claim up.
NpcLookupReturns(l, answer) ==
  LET u == owner[l.client]
  IN /\ l \in lookups
     /\ lookups' = lookups \ {l}
     /\ \/ /\ answer = "npc" /\ StillWanted(l)
           /\ queue' = DropEntry(queue, u)
           /\ createRoom(l.client, AI, NoMatch)
        \/ /\ answer \in {"npc", "none"} /\ ~StillWanted(l)
           /\ queue' = ReleaseUser(queue, u)
           /\ UNCHANGED <<roomOf, roomVars>>
        \/ /\ answer = "none" => StillWanted(l)
           /\ answer \in {"none", "error"}
           /\ queue' = ReleaseUser(IF IsCurrent(l) THEN DropEntry(queue, u) ELSE queue, u)
           /\ UNCHANGED <<roomOf, roomVars>>
     /\ UNCHANGED <<connVars, bracketVars, dbVars, recent, lifeVars>>

-----------------------------------------------------------------------------
(* Tournament matches: joinTournamentMatch.                                *)

Plays(u, m) == \E side \in Sides : Participants[m][side] = u

\* Up to the await of getTournamentMatch.  The calls under way are numbered, since
\* a client may ask twice; a call takes the least number that is free.
TournamentJoin(c, m) ==
  /\ Receives(c) /\ owner[c] \notin Guests /\ accepting
  /\ queue' = LeaveQueueOf(queue, owner[c])
  /\ waiters' = Without(c)
  /\ \E n \in 1..MaxJoins :
       /\ \A j \in joins : j.nth # n
       /\ \A k \in 1..(n - 1) : \E j \in joins : j.nth = k
       /\ joins' = joins \cup {[client |-> c, match |-> m, nth |-> n, wasReady |-> bracket[m] = "ready"]}
  /\ UNCHANGED <<connVars, roomOf, lookups, starts, bracket, roomVars, dbVars, recent, lifeVars>>

MutAdmitted(j, seenReady) ==
  seenReady /\ Plays(owner[j.client], j.match) /\ roomOf[j.client] = NoRoom

Admitted(j, seenReady) ==
  /\ seenReady /\ Plays(owner[j.client], j.match) /\ roomOf[j.client] = NoRoom
  /\ ~\E w \in waiters[j.match] : owner[w] = owner[j.client]

\* The rest.  The database was read at some moment since the call; a match
\* never becomes ready again, so what was seen is what held then or holds now.
TournamentLookupReturns(j, seenReady) ==
  LET c == j.client
      m == j.match
      waiting == waiters[m]
      admitted == Admitted(j, seenReady)
  IN /\ j \in joins
     /\ seenReady \in {j.wasReady, bracket[m] = "ready"}
     /\ joins' = joins \ {j}
     /\ \/ /\ ~admitted
           /\ UNCHANGED <<waiters, starts, roomOf, roomVars>>
        \/ /\ admitted /\ waiting = {}
           /\ waiters' = [waiters EXCEPT ![m] = @ \cup {c}]
           /\ UNCHANGED <<starts, roomOf, roomVars>>
        \/ \E w \in waiting :
             /\ admitted
             /\ waiters' = [waiters EXCEPT ![m] = {}]
             /\ \/ /\ IF owner[c] = Participants[m]["left"] THEN createRoom(c, w, m)
                                                           ELSE createRoom(w, c, m)
                   /\ starts' = starts \cup {[match |-> m, room |-> created + 1]}
                \/ createRoomFails /\ UNCHANGED starts
     /\ UNCHANGED <<connVars, queue, lookups, bracket, dbVars, recent, lifeVars>>

\* startTournamentMatch() takes effect or not, and answers or fails; the room
\* of a failed start is abandoned.
StartReturns(s, takesEffect, fails) ==
  LET possible == bracket[s.match] \in {"ready", "running"}
  IN /\ s \in starts
     /\ takesEffect => possible
     /\ takesEffect \/ fails
     /\ starts' = starts \ {s}
     /\ bracket' = IF takesEffect THEN [bracket EXCEPT ![s.match] = "running"] ELSE bracket
     /\ \/ /\ fails /\ s.room \in active
           /\ RemoveRoom(s.room, queue, rooms, writes)
        \/ /\ ~(fails /\ s.room \in active)
           /\ UNCHANGED <<queue, roomOf, roomVars, writes, drain>>
     /\ UNCHANGED <<connVars, lookups, waiters, joins, results, recent, accepting, closed>>

-----------------------------------------------------------------------------
(* Messages of a match.  The seat counts, not the room the client is in.   *)

Seated(c, r) == Receives(c) /\ r \in active /\ sideFor(rooms[r], c) # {}

GameReady(c, r) ==
  /\ Seated(c, r)
  /\ \E side \in sideFor(rooms[r], c) :
       LET room == rooms[r]
           ready == room.ready \cup {side} \cup (IF room.seat["right"] = AI THEN {"right"} ELSE {})
           session == markReady(room.session, side)
           starting == ready = Sides /\ session.state = "playing"
       IN /\ rooms' = [rooms EXCEPT ![r] =
                         [room EXCEPT !.ready = ready, !.session = session,
                                      !.phase = IF starting THEN "playing" ELSE @]]
          /\ scheduled' = IF starting THEN scheduled \cup {r} ELSE scheduled
  /\ UNCHANGED <<connVars, roomOf, queue, lookups, bracketVars, active, created, dbVars, recent,
                 lifeVars>>

GamePause(c, r) ==
  /\ Seated(c, r) /\ rooms[r].phase = "playing"
  /\ LET session == pause(rooms[r].session)
     IN rooms' = IF session.state # "paused" THEN [rooms EXCEPT ![r].session = session]
                 ELSE [rooms EXCEPT ![r].session = session, ![r].phase = "paused"]
  /\ scheduled' = scheduled \ {r}
  /\ UNCHANGED <<connVars, roomOf, queue, lookups, bracketVars, active, created, dbVars, recent,
                 lifeVars>>

MutGameResume(c, r) ==
  /\ Seated(c, r) /\ rooms[r].phase = "paused"
  /\ rooms' = [rooms EXCEPT ![r].session = resume(@), ![r].phase = "playing"]
  /\ scheduled' = scheduled \cup {r}
  /\ UNCHANGED <<connVars, roomOf, queue, lookups, bracketVars, active, created, dbVars, recent,
                 lifeVars>>

GameResume(c, r) ==
  /\ Seated(c, r) /\ rooms[r].phase = "paused"
  /\ resume(rooms[r].session).state = "playing"
  /\ rooms' = [rooms EXCEPT ![r].session = resume(@), ![r].phase = "playing"]
  /\ scheduled' = scheduled \cup {r}
  /\ UNCHANGED <<connVars, roomOf, queue, lookups, bracketVars, active, created, dbVars, recent,
                 lifeVars>>

\* tick: a round of the simulation that gives side its last point.  Every
\* other round changes only the simulation, which is left out.
MatchEnds(r, side) ==
  /\ r \in scheduled /\ rooms[r].phase = "playing"
  /\ finishRoom(r, rooms[r], side)
-----------------------------------------------------------------------------
(* The reconnect window of a room.                                         *)

\* Time passes for a room whose seat is kept; beyond the deadline it makes no
\* difference how much.
RoomClock(r) ==
  /\ r \in active /\ rooms[r].timer
  /\ rooms[r].waited <= RECONNECT_WINDOW_MS
  /\ rooms' = [rooms EXCEPT ![r].waited = @ + 1]
  /\ UNCHANGED <<connVars, roomOf, queue, lookups, bracketVars, active, created, scheduled, dbVars,
                 recent, lifeVars>>

\* expireReconnect.  A timer that fires early is armed again, which changes
\* nothing.  With both sides missing the room is abandoned, otherwise the side
\* that is there wins.
ReconnectTimerFires(r) ==
  LET room == rooms[r]
      expired == [room EXCEPT !.session = expireReconnect(@, room.waited),
                              !.timer = FALSE, !.gone = {}]
  IN /\ r \in active /\ room.timer /\ room.fin = "no"
     /\ expires(room.session, room.waited)
     /\ \/ /\ winnerSide(room.session) = NoSide
           /\ RemoveRoom(r, queue, [rooms EXCEPT ![r] = expired], writes)
           /\ UNCHANGED <<connVars, lookups, bracketVars, results, recent, accepting, closed>>
        \/ /\ winnerSide(room.session) # NoSide
           /\ finishRoom(r, expired, winnerSide(room.session))

-----------------------------------------------------------------------------
(* Recording the result: the retry loop of finalizeRoom.                   *)

\* finalizeMatch of the database: one transaction that applies the result of a
\* room once, the room being its key.
Applied(r) ==
  IF results[r] # <<>> THEN results
  ELSE [results EXCEPT ![r] = Append(@, rooms[r].match)]

MutRejected(r) == FALSE /\ results[r] = <<>>

\* A tournament match that has a result already rejects another.
Rejected(r) ==
  /\ results[r] = <<>> /\ rooms[r].match # NoMatch
  /\ bracket[rooms[r].match] = "finished"

\* The write takes effect or not, and its answer comes or is lost.  On success
\* the room is taken off, on failure the retry is armed if it is still there.
WriteReturns(r, takesEffect, fails) ==
  LET m == rooms[r].match
  IN /\ r \in writes
     /\ takesEffect => ~Rejected(r)
     /\ takesEffect \/ fails
     /\ results' = IF takesEffect THEN Applied(r) ELSE results
     /\ bracket' = IF takesEffect /\ m # NoMatch THEN [bracket EXCEPT ![m] = "finished"] ELSE bracket
     /\ \/ /\ ~fails
           /\ RemoveRoom(r, queue, rooms, writes \ {r})
        \/ /\ fails
           /\ rooms' = Restrict([rooms EXCEPT ![r].fin = "backoff"], active \cup (writes \ {r}))
           /\ writes' = writes \ {r}
           /\ UNCHANGED <<queue, roomOf, active, created, scheduled, drain>>
     /\ UNCHANGED <<connVars, lookups, waiters, joins, starts, recent, accepting, closed>>

MutRetryTimerFires(r) ==
  /\ r \in active /\ rooms[r].fin = "backoff" /\ accepting
  /\ rooms' = [rooms EXCEPT ![r].fin = "writing"]
  /\ writes' = writes \cup {r}
  /\ UNCHANGED <<connVars, roomOf, queue, lookups, bracketVars, active, created, scheduled, results,
                 recent, lifeVars>>

\* waitForFinalizationRetry is over.
RetryTimerFires(r) ==
  /\ r \in active /\ rooms[r].fin = "backoff"
  /\ rooms' = [rooms EXCEPT ![r].fin = "writing"]
  /\ writes' = writes \cup {r}
  /\ UNCHANGED <<connVars, roomOf, queue, lookups, bracketVars, active, created, scheduled, results,
                 recent, lifeVars>>

\* The retention of a guest's result ends.
GuestResultExpires(u) ==
  /\ u \in recent
  /\ recent' = recent \ {u}
  /\ UNCHANGED <<connVars, roomOf, queue, lookups, bracketVars, roomVars, dbVars, lifeVars>>

-----------------------------------------------------------------------------
(* Draining and closing the server.                                        *)

MutBeginDrain ==
  /\ drain = "idle" /\ MaxDrains = 1
  /\ accepting' = FALSE
  /\ queue' = LeaveAll(queue, WithEntry(queue))
  /\ waiters' = [m \in Matches |-> {}]
  /\ drain' = "waiting"
  /\ UNCHANGED <<connVars, roomOf, lookups, joins, starts, bracket, roomVars, dbVars, recent, closed>>

BeginDrain ==
  /\ drain = "idle" /\ MaxDrains = 1
  /\ accepting' = FALSE
  /\ queue' = LeaveAll(queue, WithEntry(queue))
  /\ waiters' = [m \in Matches |-> {}]
  /\ drain' = IF active = {} THEN "drained" ELSE "waiting"
  /\ UNCHANGED <<connVars, roomOf, lookups, joins, starts, bracket, roomVars, dbVars, recent, closed>>

DrainTimeout ==
  /\ drain = "waiting"
  /\ drain' = "timedout"
  /\ UNCHANGED <<connVars, roomOf, queue, lookups, bracketVars, roomVars, dbVars, recent, accepting,
                 closed>>

\* close, once the drain is answered.  Writes under way keep their room.
Close ==
  LET left == LeaveAll(queue, WithEntry(queue))
  IN /\ drain \in {"drained", "timedout"} /\ ~closed
     /\ closed' = TRUE
     /\ accepting' = FALSE
     /\ queue' = ReleaseAll(left, UNION {SeatedUsers(rooms[r]) : r \in active})
     /\ waiters' = [m \in Matches |-> {}]
     /\ active' = {}
     /\ scheduled' = {}
     /\ rooms' = Restrict(rooms, writes)
     /\ recent' = {}
     /\ clients' = {}
     /\ byUser' = [u \in Users |-> NoConn]
     /\ open' = open \ clients
     /\ UNCHANGED <<owner, roomOf, lookups, joins, starts, bracket, created, dbVars, drain>>

-----------------------------------------------------------------------------
LobbyNext ==
  \/ \E c \in clients :
       JoinAi(c) \/ JoinAndWait(c) \/ JoinAndPlay(c) \/ QueueLeave(c)
  \/ \E u \in Users : NpcFallbackTimer(u)
  \/ \E l \in lookups, answer \in {"npc", "none", "error"} : NpcLookupReturns(l, answer)

TournamentNext ==
  \/ \E c \in clients, m \in Matches : TournamentJoin(c, m)
  \/ \E j \in joins, seenReady \in BOOLEAN : TournamentLookupReturns(j, seenReady)
  \/ \E s \in starts, takesEffect, fails \in BOOLEAN : StartReturns(s, takesEffect, fails)

MatchNext ==
  \/ \E c \in clients, r \in active : GameReady(c, r) \/ GamePause(c, r) \/ GameResume(c, r)
  \/ \E r \in scheduled, side \in Sides : MatchEnds(r, side)
  \/ \E r \in active : RoomClock(r) \/ ReconnectTimerFires(r) \/ RetryTimerFires(r)
  \/ \E r \in writes, takesEffect, fails \in BOOLEAN : WriteReturns(r, takesEffect, fails)

ServerNext ==
  \/ \E u \in Users : Connect(u) \/ RevokeUser(u) \/ GuestResultExpires(u)
  \/ \E c \in open : SocketDrops(c)
  \/ \E c \in clients : Disconnect(c)
  \/ BeginDrain \/ DrainTimeout \/ Close

Next == ServerNext \/ LobbyNext \/ TournamentNext \/ MatchNext

Spec == Init /\ [][Next]_vars

\* What the event loop and the timers of Node guarantee, with a database that
\* answers every call and is not down forever.  Nothing is assumed of users.
Fairness ==
  /\ \A c \in Conns : WF_vars(Disconnect(c))
  /\ \A u \in Users : WF_vars(NpcFallbackTimer(u))
  /\ \A l \in [client : Conns, stamp : 0..MaxLookups] :
       WF_vars(\E answer \in {"npc", "none", "error"} : NpcLookupReturns(l, answer))
  /\ \A r \in RoomIds :
       /\ WF_vars(RoomClock(r)) /\ WF_vars(ReconnectTimerFires(r))
       /\ WF_vars(RetryTimerFires(r))
       /\ WF_vars(\E takesEffect, fails \in BOOLEAN : WriteReturns(r, takesEffect, fails))
       /\ SF_vars(WriteReturns(r, TRUE, FALSE))

FairSpec == Spec /\ Fairness

\* Users who play the tournament only.
TournamentSpec == Init /\ [][ServerNext \/ TournamentNext \/ MatchNext]_vars

-----------------------------------------------------------------------------
(* Properties.                                                             *)

Reconnecting(r) == rooms[r].session.state = "reconnecting"

\* A user the matchmaker lets wait can be found and will not wait forever: the
\* hub keeps an entry for it, of its present connection, with the fallback
\* timer running (gameHub.ts:508-565, 693-700).
QueuedUsersHaveEntries ==
  \A u \in Users : queue.mm.status[u] = "queued" =>
    /\ queue.entries[u].client = byUser[u]
    /\ queue.entries[u].timer
    /\ accepting

\* Nobody stays reserved for a match that is not there: whoever the matchmaker
\* holds as matched has a seat in an open room or an NPC lookup under way.
\* A reservation left behind would lock the user out of the queue for good
\* ("duplicate", gameHub.ts:532-540, 586-629, 1180-1184).
NoStrandedReservation ==
  \A u \in Users : queue.mm.status[u] = "matched" =>
    \/ \E r \in active, side \in Sides :
         rooms[r].seat[side] # AI /\ owner[rooms[r].seat[side]] = u
    \/ \E l \in lookups : owner[l.client] = u

\* Queue, reservations, entries and rooms tell the same story, and nobody is
\* lost between them (gameHub.ts:508-629, 693-700, 1180-1184).
QueueBooksAgree == QueuedUsersHaveEntries /\ NoStrandedReservation

\* Every seat of a match that is not over is either in the hands of a
\* connection that knows it plays here, or kept for a lost one with the
\* session counting it as missing and the timer running.  A seat that is
\* neither blocks the room forever (gameHub.ts:341-442).
SeatsAreHeld ==
  \A r \in active, side \in Sides :
    LET c == rooms[r].seat[side]
        missing == side \in rooms[r].session.disconnected
    IN rooms[r].fin = "no" /\ c # AI =>
         \/ c \in clients /\ roomOf[c] = r /\ side \notin rooms[r].gone /\ ~missing
         \/ c \notin clients /\ side \in rooms[r].gone /\ missing /\ rooms[r].timer

\* What the players see, what the session says and whether the simulation runs
\* are three records of one thing (gameHub.ts:413-423, 433-442, 893-960).
PhaseFollowsSession ==
  \A r \in active :
    /\ rooms[r].phase = IF Reconnecting(r) THEN "paused" ELSE rooms[r].session.state
    /\ r \in scheduled <=> rooms[r].phase = "playing"

\* Nobody loses a match for having been there: when the window of a lost seat
\* ends a match, the side that wins is connected (gameHub.ts:451-476).
ForfeitWinnerIsConnected ==
  [][\A r \in active :
       Reconnecting(r) /\ r \in writes' \ writes =>
         LET c == rooms[r].seat[rooms'[r].winner] IN c = AI \/ c \in clients]_vars

\* The drain is waited for as long as a room is open, and answered "drained"
\* only when none is (gameHub.ts:734-761, 1194-1206).
DrainIsAnswered ==
  /\ drain = "waiting" => active # {}
  /\ drain = "drained" => active = {}

\* One tournament match is decided by the result of one room, and is finished
\* exactly when it has that result (packages/db/src/index.ts:640-745).
TournamentDecidedOnce ==
  \A m \in Matches :
    LET deciding == {r \in RoomIds : m \in Range(results[r])}
    IN /\ Cardinality(deciding) <= 1
       /\ bracket[m] = "finished" <=> deciding # {}

\* However the database behaves before it recovers, a room whose match is over
\* is taken off: the retry is never forgotten (gameHub.ts:1047-1137).
FinishedRoomIsRemoved ==
  \A r \in RoomIds : (r \in active /\ rooms[r].fin # "no") ~> r \notin active

\* A lost seat does not suspend its match forever: everybody comes back, or the
\* match ends (gameHub.ts:433-489).
LostSeatIsDecided ==
  \A r \in RoomIds : (r \in active /\ Reconnecting(r)) ~> ~(r \in active /\ Reconnecting(r))

\* A wait ends, whether or not anybody suits, however often the user leaves,
\* comes back and reconnects (gameHub.ts:567-629).
QueueWaitEnds ==
  \A u \in Users : queue.entries[u] # NoEntry
                     ~> queue.entries[u] = NoEntry

\* The room of a tournament match seats its two participants, each on the side
\* of the bracket, through every reconnection; never one user against itself
\* (gameHub.ts:671-685).
TournamentSeatsAgree ==
  \A r \in active : rooms[r].match # NoMatch =>
    \A side \in Sides : owner[rooms[r].seat[side]] = Participants[rooms[r].match][side]

\* One user plays one match at a time ("you are in a match already",
\* gameHub.ts:513-516, 664-667).
OneMatchPerUser ==
  \A r, s \in active, side1, side2 \in Sides :
    LET c == rooms[r].seat[side1]
        d == rooms[s].seat[side2]
    IN r # s /\ rooms[r].fin = "no" /\ rooms[s].fin = "no" /\ c # AI /\ d # AI
         => owner[c] # owner[d]

\* Once the server drains, no match is started (gameHub.ts:729-736;
\* README.md: "refuse new matches").
NoMatchWhileDraining == [][~accepting => created' = created]_vars

\* When the fallback timer of somebody who is there fires, the matchmaker knows
\* that this user waits (gameHub.ts:577-585).
FallbackFindsUserQueued ==
  \A u \in Users : queue.entries[u].timer /\ CanBeSeated(queue.entries[u].client)
    => queue.mm.status[u] = "queued"
=============================================================================
