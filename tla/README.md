# A TLA+ model of the pong-pong game server

This directory holds TLA+ specifications of the pong-pong server, its database
and its browser client, TLC configurations that check them on small instances,
and TLAPS proofs of the theorems that hold for every instance. Paths such as
`gameHub.ts:655` are relative to `apps/api/src/` and its `game/`, to
`packages/db/src/` (`index.ts` with a line above 100 is the repository's) or to
`apps/web/src/game/`, as the components below say.

## 1. The system

pong-pong is a TypeScript monorepo: a Node server (`apps/api`), a PostgreSQL
repository with an in-memory twin (`packages/db`), shared schemas
(`packages/shared`) and a Next.js client (`apps/web`). One process holds all
matches in memory. There are no threads: concurrency is the interleaving of
event-loop callbacks, that is of socket events, messages, timers and the
continuations of `await`; and, in the database, of the statements of
transactions on several connections.

### Inventory

| component | source | state it keeps | operations | how it meets the others |
|---|---|---|---|---|
| room session | `game/roomSession.ts` | state, resumeState, ready, disconnected, deadline | markReady, pause, resume, disconnect, reconnect, expireReconnect, finish | owned by one `Room` of the hub, clock passed in |
| matchmaking engine | `game/matchmaker.ts` | queue, playerStatuses | enqueue, claimAiFallback, leaveQueue, release | called by the hub; the hub keeps `queueEntries` (client, timer) beside it |
| game hub | `gameHub.ts` | clients, clientsByUser, queueEntries, rooms, tournamentWaiters, recentGuestResults, acceptingMatches, drainWaiter | connect, disconnect, revokeUser, receive (12 messages), timers, finalizeRoom, beginDrain, close | everything above and below; awaits `listNpcOpponents`, `getTournamentMatch`, `startTournamentMatch`, `finalizeMatch` of the repository |
| match results, bracket | `packages/db/src/index.ts` | users, rating_history, matches, tournament tables | finalizeMatch, joinTournament, startTournamentMatch, setUserBan | transactions with row locks; answers may be lost; an in-memory twin |
| guest access | `guestAccess.ts` | creation windows, tickets, connection leases | createSession, authenticate, issueWsTicket, consumeWsTicket, acquireConnection, release, cleanup timers | called by routes and by the handshake |
| handshake, routes | `app.ts`, `wsTicket.ts`, `httpBoundary.ts` | pre-authentication buffer of each socket | login, logout, ticket, upgrade, buffer, authenticate, hand over to the hub; ban and unban; ready probe | awaits the database for ticket and ban, then calls `hub.connect`, `hub.revokeUser` |
| shutdown | `gracefulShutdown.ts`, `index.ts` | `started`, `draining` | SIGTERM/SIGINT: drain, close the app with its hooks | calls `hub.beginDrain`, `hub.close`, `repo.close` |
| input gate, heartbeat, snapshot buffer | `game/inputGate.ts`, `heartbeat.ts`, `latestSnapshotBuffer.ts` | buckets and sequence numbers; two timers; one pending frame per socket | check, releaseUser; start, acknowledge, stop; enqueue, drain, close | per message, per connection, per tick |
| schedulers | `game/fixedStepScheduler.ts`, `sharedRoomScheduler.ts` | accumulated time; registered rooms | start, stop, register, unregister | calls `tick` of every registered room |
| simulation, practice AI | `game/pongSimulation.ts`, `pongAi.ts` | ball, paddles, score; target | step, nextDirection | called by `tick` |
| friendships, tickets and other tables | `packages/db/src/index.ts` | users, friendships, chat, tickets | requests and queries | routes |
| migrations | `migrator.ts`, `migrations/*.sql` | kysely_migration | compare, migrate | the migrate command; readiness |
| web game client | `GameSocketClient.ts`, `gameConnection.ts`, `useGameConnection.ts` | socket, generation, reconnect timer and window; page state | connect, openSocket, reconnect, close, reduce events | ticket route, the WebSocket protocol |
| web pages, schemas, observability | `apps/web/src/app`, `packages/shared`, `observability.ts` | none that matters to a protocol | rendering, validation, metrics | |

### What is hard about it

* Four awaits of the hub are windows in which anything may happen: the socket
  closes, the user comes back on another connection, joins again, the server
  begins to drain. What was checked before the await is stale after it.
* The same facts are kept several times: the matchmaker's statuses and queue,
  the hub's `queueEntries`; a room's phase, its session state and its
  registration with the scheduler; the seats of a room, `client.roomId`, the
  set of missing sides; a guest's lease and the hub's connection; what the
  server knows of a seat and what the page shows. Every path has to change all
  of them.
* Many things are keyed by user although they belong to a connection or a room
  (reservations, queue entries, leases, sequence numbers), and one user has
  many connections in turn.
* A result is written with retries to a database whose commit may succeed while
  its answer is lost; the result must count once and its room must go. Two
  results that end together meet in the rows of their players and of their
  bracket.
* Two losses share one reconnect deadline; losing, coming back and expiring race.
* A drain ends when the last room goes, whichever of four paths removes it.
* The browser has generations of sockets: tickets, closures and messages of an
  earlier one arrive late, at either end.

`PROJECT.json` lists every such hazard at its line with the properties that
would notice it going wrong, or the reason why none does.

### What correctness means, component by component

* **Session**: its three ways of saying "somebody is missing" agree; nobody
  plays before both are ready; whoever forfeits had the full window since its
  own loss, and whoever wins by forfeit is present; a finished session is final.
* **Matchmaking**: queue and statuses name the same users; no two compatible
  users wait side by side; a match is with the closest candidate and, among equally
  close ones, with the one who waited longest; only `release` takes a match back.
* **Hub**: no wait without a timer; no reservation without a match or a
  lookup; every seat held by a connection that knows it, or kept with a running
  timer; phase, session and scheduler agree; the drain answered
  exactly when no room is left; every finished room removed, every lost seat
  decided, every wait ended.
* **Results**: each transaction is one step of a ledger that records a result
  whole and once; ratings form a chain, none is lost; the bracket follows from
  the results; a room is answered only if its result stands; the in-memory twin
  says the same.
* **Guests and entry**: no ticket is lost without a reason, leases follow
  sockets and keep the limits, a tab has one live socket, a tab that shows a
  match is the one the hub plays it with, and who is seated is shown the room.
* **Sockets of registered users**: a ban that was carried out lasts, but for a
  handshake that was past the database before; a ticket opens one socket; the
  hub hears everything a client said, in order, however early it was said.
* **Room loop**: inputs in order and within the rate, the silent cut and no
  others, each snapshot one fate, rooms on the wall clock, matches by the rules.
* **Database and deployment**: one friendship per pair that says what both
  asked for, also after the migration; a readiness answer is true of a moment of
  its probe.

## 2. Modules

| module | kind | models |
|---|---|---|
| `RoomSession` | operators | every method of `RoomSession`, from session record to session record |
| `RoomSessionLife` | machine | one session, any order of calls, with a clock and a history of losses |
| `Matchmaker` | operators | every state-changing method of `Matchmaker`, from engine record to engine record |
| `Matchmaking`, `MCMatchmaking` | machine, instance | one engine, any order of calls, with a clock; five users around the rating limit |
| `GameHub`, `MCGameHub` | machine, instance | `GameHub`, composed of `Matchmaker` and one `RoomSession` per room, with the database calls; two or three users, zero or one tournament match |
| `ResultRules` | operators | ratings, bracket and what a slot takes: the rules both repositories follow |
| `ResultLedger` | abstract machine | what the repository promises: a result recorded in one step, an entrant entered in one step |
| `PostgresResults` | machine | the transactions, statement by statement with row locks, bans, retries, deadlock, rollback and lost answers |
| `MemoryResults`, `TwinResults`, `MCResults` | operators, composition, instance | the in-memory repository; both side by side; two connections, six users |
| `GuestAccess`, `GuestAccessLife` | operators, machine | tickets, leases, rolling windows, cleanup timers |
| `Entry`, `MCEntry` | machine, instance | browser tab, ticket, handshake, lease and seat; composed with `GuestAccess` |
| `AccountAccess` | machine | sessions, tickets, handshakes with their buffer, and bans of registered users |
| `InputGate` | machine | the gate with the sockets whose inputs pass it |
| `Heartbeat` | machine | the two timers of a connection, and pongs that come late |
| `LatestSnapshotBuffer` | machine | the snapshots on their way to one client |
| `RoomScheduler` | machine | accumulator, timer loop and the rooms registered |
| `PongMatch` | machine | a match against the AI, tick by tick |
| `Friendships` | machine | the table through migration 004, requests, and the in-memory array |
| `Deployment` | machine | migrations, processes, signals, close hooks, readiness probes |
| `MCParts` | composition | the parts that share no state, side by side, one moving at a time |
| `SessionLemmas`, `MatchmakerProofs` | lemmas | about the operators of `RoomSession` and `Matchmaker` |
| `RoomSessionProofs`, `MatchmakingProofs`, `GameHubProofs`, `ResultProofs`, `EntryProofs`, `PartsProofs` | proofs | see section 4 |

What several modules use is written as operators from value to value
(`RoomSession`, `Matchmaker`, `GuestAccess`, `ResultRules`, `MemoryResults`), so that
stand-alone machines, proofs and compositions share the same definitions.
Operators whose name begins with `Mut` are plausible slips of the definition
that follows them; they are used by nothing else, and serve to see that each
property notices its bug.

### How GameHub corresponds to the code

Every action is one event-loop callback, complete with all it calls
synchronously. An `await` splits a handler: the part before it adds a pending
call (`lookups` for `listNpcOpponents`, `joins` for `getTournamentMatch`,
`starts` for `startTournamentMatch`, `writes` for `finalizeMatch`), and the part
after it is another action that takes the call away with any answer the
database can give.

| action | code |
|---|---|
| `Connect` (`ConnectAfresh`, `ConnectReplacing`) | `connect` with `recoverConnection` / `replaceConnection` |
| `SocketDrops`, `Disconnect` | the socket stops being OPEN (network, heartbeat), and later its close event runs `disconnect` and `reserveRoomSide` |
| `RevokeUser` | `revokeUser` |
| `JoinAi`, `JoinAndWait`, `JoinAndPlay`, `QueueLeave` | `joinQueue`'s three outcomes, `leaveQueue` |
| `NpcFallbackTimer`, `NpcLookupReturns` | `matchQueuedClientWithNpc` before and after its await |
| `TournamentJoin`, `TournamentLookupReturns`, `StartReturns` | `joinTournamentMatch`, and the callbacks of the unawaited `startTournamentMatch` |
| `GameReady`, `GamePause`, `GameResume` | `markReady`, `pauseRoom`, `resumeRoom` |
| `MatchEnds` | the `tick` that finishes a match, with `finishRoom` and `finalizeRoom` up to its await |
| `RoomClock`, `ReconnectTimerFires` | time, and `expireReconnect` (forfeit or abandon) |
| `WriteReturns`, `RetryTimerFires` | one turn of the loop of `finalizeRoom`, and the end of its backoff |
| `GuestResultExpires` | the retention timer of `rememberGuestResult` |
| `BeginDrain`, `DrainTimeout`, `Close` | `beginDrain`, its timeout, `close` |

Decisions a reader should know of:

* Room objects live as long as something refers to them. `rooms` holds a room
  that is in the map (`active`) or has a write under way, which is how a write
  that outlives `close` or `abandonRoom` keeps its room.
* Queue entries are objects compared by identity after the await
  (`gameHub.ts:606`), so an `Entry` has a `stamp` that tells two entries of one
  connection apart; it is the smallest one no pending lookup uses.
* The clock of a room, `waited`, counts from the last loss. This is an exact
  shift of `Date.now()`, because a session keeps only one deadline and every
  loss overwrites it. It saturates one past the deadline.
* In the hub the fallback delay is 0 and the engine's clock stands at 0: an
  armed fallback timer may fire at any later step. The delay itself is checked
  in `Matchmaking`.
* `createRoom` may fail, because notifying the room's clients can throw and the
  code handles it (`gameHub.ts:882-890`, and the test of it at
  `gameHub.matchmaking.test.ts:104`).
* To the hub the database is two atomic calls. A write takes effect or not and
  its answer arrives or is lost, independently; a room's result is keyed by
  room, and a tournament match that is finished rejects another result. That
  transactions of many statements behave like this is what `PostgresResults`
  shows.
* Joins under way are numbered (`nth`), so that two calls of one connection for
  one match are two and come back one by one.
* A user sends messages only on the connection that is OPEN and still
  registered, as `receive` demands (`gameHub.ts:272`).
* Bans concern registered users and can be lifted, so a revoked user may
  connect again.

Left out of the hub: chat (the hub keeps no state for it), the rounds of the
simulation that do not end a match, presence and statistics, the contents of
snapshots, samples of the waiting time, metrics.

### How PostgresResults corresponds to the code

A statement that takes a row lock is an action, and so is the commit, which
makes everything the transaction wrote visible at once (READ COMMITTED).

| action | code (`index.ts`) |
|---|---|
| `InsertMatch`, `FindExisting` | the `insert ... on conflict (result_key) do nothing` and the answer to a repeated key (514-555); a key another transaction is inserting is waited for (`KeyPending`) |
| `CheckReference` | the row lock that the foreign key of an inserted row takes on the user it names |
| `LockParticipant` | one turn of the loop of `select ... for update`, in the order of the ids (571-586) |
| `LockSlot`, `LockCup` | the row of the tournament match, then of the tournament, with the read of the semifinals (640-704) |
| `CommitFinalize` | updates of accounts and history, of the slot, the final and the cup, and the commit (588-745) |
| `BeginJoin`, `JoinAgain`, `CommitJoin` | `joinTournament` with `ensureTournamentBracket` (805-847, 924-945) |
| `BeginBan`, `CommitBan` | `setUserBan` (887-901) |
| `StartTournamentMatch` | one `update ... where status in (...)` (859-867) |
| `Rollback`, `DeadlockVictim` | any failure before the commit; PostgreSQL ending a circular wait |

PostgreSQL's row locks are external and modelled as its documentation describes
them: FOR UPDATE excludes every other lock, an UPDATE of a column that is no
key excludes all but FOR KEY SHARE, an inserted foreign key takes FOR KEY SHARE.
`ResultLedger` knows nothing of this; `Ledger` maps the tables onto it
(`results <- matches`, the players and winner of each slot, the cup's winner),
and `Implements` is `Ledger!Spec`.

### How the other machines correspond to the code

* **`Entry`**: an *attempt* is one run of `openSocket`, with the ticket request
  (`IssueTicket`, `TicketAnswered`), the socket (`SocketOpens`, `Deliver`,
  `SocketCloses`) and its server end (`AuthenticateGuest`, or `ConsumeTicket`
  and `Admit` around the await; `ServerNotices`). A tab is the page's reducer
  and its `GameSocketClient`; `Render` is React bringing `stateRef` up to date,
  which comes some time after the dispatches, so that handlers read an old page.
  Messages are delivered in order per socket, everything else takes any time at
  either end. Of a match only the seat of each user remains. `demo` chooses the
  mode at the start: all users are guests, or none is.
  `MatchEnds` and `ResultWritten` are the two ends of `finalizeRoom`'s write: in
  between the room is still there ("ending", or "endingAway" for a player who
  was lost), it shows its players the phase "finished", and whoever takes over
  or reconnects is treated by the map of rooms as the code does. A guest's
  match has no write and ends at once (`GuestMatchEnds`).
  Room and result are sent directly (`Send`), snapshots through the
  `LatestSnapshotBuffer` of the connection: `waiting` is the one it holds, which
  goes out by a later `SendSnapshot` or by its retry timer (`SnapshotRetried`),
  even after the match it shows. The snapshot a new connection is greeted with is not
  held up, since nothing has been sent on its socket yet. `late` remembers that a
  snapshot went out after its match. A snapshot
  that leaves the page as it is once it has heard everything is not kept in
  the inbox (`With`), which keeps the inbox short. A socket the browser gave up
  while connecting still reaches the server, and may be authenticated and
  registered until its close event; or it never does (`UpgradeLost`).
* **`GuestAccessLife`**: every public method and both kinds of cleanup timer.
  The order of pruning, window, deletion of the previous ticket and limits in
  `issueWsTicket` is kept. Timers may come late, as the code expects.
* **`AccountAccess`**: a *door* is one socket at `GET /ws`. `ConsumeAtDoor` is the
  row being deleted in the database, `AuthenticationAnswered` the continuation
  after the await; between them messages are buffered, the socket may close and
  the user may be banned. A ban is `Suspend` (the update of `setUserBan`) and
  then, after an await, `revokeUser`; two bans, or a ban and its lifting, may cross.
  Of the hub only `clientsByUser` is there. `slippedBy` remembers which handshakes
  were past the database when the hub was told of a ban.
* **`InputGate`**: the buckets and numbers of one player in one room, with the
  browser's counter, which begins anew with every socket, and the hub's
  `releaseUser` on replacement and disconnection. A token is `TOKEN` units, so
  that the refill per millisecond is whole.
* **`Heartbeat`**, **`LatestSnapshotBuffer`**: timers are punctual, that is the
  clock does not pass a timer that is due; messages, pongs and the socket's
  answers come at any time. `StartSkipped` is a socket that is no longer OPEN when
  the hub registers it and gets no heartbeat (`gameHub.ts:234`). The size of the socket's buffer is one of three
  levels, which is what `drain` tells apart. A socket that fails its ping is
  cut in the same action.
* **`RoomScheduler`**: `TimerFires`, `BeginTick` and `StepRoom` are one timer
  callback, in which rooms leave in the middle. A callback may be late by any
  amount up to `MaxLateness`.
* **`PongMatch`**: `step` is one operator with the order of the code: move
  paddles, move and fold the ball, left paddle, right paddle, serve, accelerate,
  end. Speeds are whole numbers chosen within what the code makes sure of.
* **`Friendships`**: starts from any table the old key allows, applies the
  statements of migration 004 one after the other, then takes requests; the
  in-memory array is compared when the table began empty.
* **`Deployment`**: a release is the set of its migrations. `MigrateDatabase`
  is Kysely's `migrateToLatest`, external, which refuses a database it does
  not recognise. Fastify's onClose hooks run in any order. A probe reads the
  table at one moment and is answered at a later one (`ProbeReads`,
  `ProbeAnswered`), and the database may be migrated in between; `held` are all
  sets of migrations the table held since the probe came, whatever it read.

## 3. Runs

All runs are exhaustive over their instance. State counts are distinct states.

| run | question | instance | states |
|---|---|---|---|
| `parts` | does each part that shares no state with another do its own work, in any order of calls and timers? | see below | 1 108 000 |
| `matchmaking` | are queue and statuses consistent, is nobody left beside a compatible user, is the closest chosen, and of two the one who waited longest? | 4 registered users at 1000/1150/1300/1350 and a guest, limit 200, delay 2, clock 0..3 | 4 300 |
| `hub_queue` | do the hub's books stay consistent through queue, fallback, reconnection, forfeit, result, drain? | 2 registered users and a guest, 3 connections, 1 room, 1 lookup per user, drain | 765 000 |
| `hub_rooms` | does the end of one room leave another one of the same users alone? | 2 users, 3 connections, 2 rooms, drain | 573 000 |
| `hub_live` | are finished rooms removed, lost seats decided, waits ended? | 2 users, 2 connections, 1 room, 1 lookup per user, drain, fairness | 66 000 |
| `hub_tournament` | is a tournament match decided once, by its participants? | 2 users, 2 connections, 2 joins under way, 2 rooms, drain | 1 035 000 |
| `results` | do the transactions implement the ledger and agree with the twin? | 2 database connections, 6 users; either 2 matches against an NPC, or 3 entrants, 2 users for the last place and 4 tournament rooms, two of them for one semifinal; 1 ban | 224 000 |
| `entry` | do tabs, tickets, handshakes, leases and seats agree, in both directions? | 2 tabs of a registered user, or one each of two guests, 3 attempts, 2 under way, 1 fault (a connection cut or a snapshot held up), lease limit 1 | 2 110 000 |
| `drain_race` | is no match started while draining? | violated: finding 1 | |
| `two_matches` | does a user play one match at a time? | violated: finding 2 | |
| `lost_wait` | does a fallback timer find its user queued? | violated: finding 3 | |
| `dead_waiter` | is every tournament seat held or kept? | violated: finding 4 | |

**`parts`** checks ten machines in one run. They share no state, so every
behaviour of their product is a shuffle of behaviours of the parts; a property
of one part holds in all shuffles if it holds while the others rest. The first
state therefore picks the part that moves, and the number of states is the sum,
not the product. Their instances:

| part | instance |
|---|---|
| session | window 2, clock 0..6 |
| input gate | 2 sockets that are opened again and again, burst 2, 1 of 2 units per ms, 4 inputs per socket, 2 under way, clock 0..5 |
| heartbeat | ping 2, timeout 6, 2 pongs under way, clock 0..16 |
| snapshots | 4 snapshots, retry 2, give up 4, clock 0..9 |
| scheduler | 2 rooms, step 2, 2 steps per loop, lateness to 4, clock 0..10 |
| guests | 2 guests, 2 addresses, 3 tickets, every limit 1 or 2, clock 0..4 |
| accounts | 1 member with 1 session, 2 tickets, 2 sockets; messages of size 1 and 3 where 2 is allowed, 1 buffered, 2 per socket; 2 bans under way |
| friendships | 3 users, up to 3 old rows |
| match | court 9 by 8, speeds to 2, 2 points, 8 ticks |
| deployment | 1 process after another, releases {1}, {1,2}, {1,3}: one ahead of another and two that have diverged |

Why the bounds are enough. In the hub three connections let one user reconnect
while the other one plays, let one connection replace another, and let both be
lost. Two rooms are what a match and the one started during its result write
need, or a tournament room and the second attempt after the first was abandoned.
Two lookups under way are two entries of different users; two entries of one
connection meet through the stamps. With one window unit (`RECONNECT_WINDOW_MS`
= 1) a reconnection can come before the deadline, at it, and after it. The
ratings of `matchmaking` contain a pair at exactly the limit, an equidistant
pair and incompatible neighbours. In the session a clock of three windows
lets both sides be lost, come back and be lost again. In `results` two
connections are all that two transactions need to meet in every row, and each
pair the code can bring together is there: two results of one user, two of one
slot, the two semifinals, the last two entrants, a retry beside its first
attempt, a ban beside each of them. In `accounts` two tickets and two sockets let
one socket replace another, one ticket be used twice, and a handshake be under
way while another socket is a client; two bans under way cross each other. In `entry` three attempts are a start, the
start that takes over from it and the reconnection that meets both; one fault is a
reconnection, or an ended match that comes back. A clock of
more than two timeouts, windows or lifetimes lets each expire, be renewed and
expire again.

`hub_queue`, `hub_rooms` and `lost_wait` declare the two registered users symmetric:
they have the same rating and kind, and these runs check safety only;
`results` does so with connections, `entry` with tabs. In
`results` ids are ordered, so users are not symmetric. `hub_live` has no
symmetry. In `entry` two tabs of two registered users would share nothing at
all, and two tabs of one guest little that a page loaded anew does not share
with its own past (a replaced ticket, a lease taken over); `MCInit` leaves both
out, which the theorems about `Entry` do not.

`CHECK_DEADLOCK FALSE` stands in all configurations but that of `matchmaking`, because the
models really stop: connections, rooms, attempts, clocks and drains are bounded,
a closed server does nothing more, and in `results` every room has its answer.

`hub_tournament`, `drain_race` and `dead_waiter` use `TournamentSpec`, in which users send
no lobby messages (all other actions are present), to keep the instance small;
`two_matches` uses the whole next-state relation.

### Fairness

`FairSpec` assumes what Node and the operating system give: a closed socket
gets its close event (`Disconnect`), an armed timer fires (`NpcFallbackTimer`,
`RoomClock`, `ReconnectTimerFires`, `RetryTimerFires`), a database call is
answered one way or another (`NpcLookupReturns`, `WriteReturns`), each weakly
fair. One assumption is strong: a result that is written again and again is
at some time written and acknowledged (`SF` of `WriteReturns(r, TRUE, FALSE)`),
that is, the database does not stay down for ever; `finalizeRoom` retries
without limit, so nothing weaker could make the room go. Nothing is assumed of
users, of the network, of new connections, or of the drain.

The other machines are checked for safety only. Where they promise something in
time (a silent peer is cut, a snapshot is not held back for ever, rooms keep up
with the clock) timers are punctual and the promise is a bound on the clock,
which is an invariant and stronger than an eventuality.

### Findings

Each of the first four has a run that shows it.

1. **A match starts on a draining server** (`drain_race`, `gameHub.ts:655`).
   `joinTournamentMatch` checks `acceptingMatches` before its await only. Two
   joins that are inside the await while the drain begins create a room, also
   after the drain was answered with no room left.
2. **Two matches for one user** (`two_matches`, `gameHub.ts:681`). Who waits
   for a tournament opponent may start another match, and is seated in both;
   the first room is then no longer told of the user's disconnection.
3. **A lost wait** (`lost_wait`, `gameHub.ts:612`). A stale fallback
   continuation releases by user id and so takes the user's newer registration
   out of the engine. The newer entry's timer then finds the user "unavailable"
   and drops it without a message, which the code believes cannot concern a user that waits.
4. **A seat nobody holds** (`dead_waiter`, `gameHub.ts:677`). A connection that
   closes during the await is entered as a waiter afterwards and is given a
   seat without a reservation or timer; nothing ends that match.

Met while modelling, and not given a run of their own:

5. **Locks in order, and a deadlock all the same** (`index.ts:566`). The comment
   at `index.ts:560-565` says that locking the participants in sorted order makes a
   circular wait structurally impossible. Before that loop, the insert into
   `matches` has taken FOR KEY SHARE on both participants through its foreign
   keys (`001_initial.sql:41-42`); two finalizations that share a user, both past
   their insert, then wait for each other's FOR UPDATE. `DeadlockVictim` is this
   step, and the run `results` takes it. PostgreSQL ends one of them, `finalizeRoom`
   retries, and all properties hold: what is lost is only time.
6. **The twins differ once** (`index.ts:1339`). In the memory repository an entrant who
   joins a finished tournament again sets its status back to "running" (Postgres
   returns at 820), and `startTournamentMatch` (1359) does not look at the
   status of the match as Postgres does (863), although the comment at 964 says that both
   follow the same rules. `TwinsAgree` compares everything but that status.
7. **Two tabs take over from each other for ever** (`GameSocketClient.ts:124`).
   A replaced connection is closed with code 4001 so that the client can tell
   (`gameHub.ts:360-364`); the client does not look at the code, and a tab that is in
   a room reconnects, which replaces the other tab, and so on.
8. **A page that cannot start again** (`useGameConnection.ts`, `gameConnection.ts`).
   A tab whose match is gone when it reconnects stays "reconnecting" with its room,
   and one whose window has ended is "failed" with its room; `canStartNewMatch`
   is false in both until the page is loaded anew. `onopen` counts the reconnection as
   done before the server has authenticated it, so that a refused ticket begins
   a new window each time.
9. **An old result in a new match** (`gameHub.ts:1156`). A guest who starts a second match within
   the retention of `recentGuestResults` is greeted with the result of the first one.
10. **A direction that is not sent** (`app/play/page.tsx:49-53`). The page remembers the
    direction before it knows that it was sent or accepted, and does not repeat
    it; and `replaceConnection` does not stop the paddle (`gameHub.ts:365-388`), as
    `disconnect` does by reserving the seat.
11. "Ready" pressed while the opponent reconnects enters `room.ready` but not
    the session, so the match does not start until "ready" is sent again
    (`gameHub.ts:893-909`). A `startTournamentMatch` that commits while its answer
    is lost leaves the match "running" with no room (685). A player who
    comes back after the deadline but before the timer has run is not recovered
    and may start another match beside the one that is about to be forfeited.
    A user banned between `consumeWsTicket` and `hub.connect` (`app.ts:211-233`)
    is not revoked and stays connected: this is the one exception of
    `SuspendedAreOut`, which holds for everybody else.

12. **An ended match comes back** (`gameHub.ts:1242`). The tick that ends a match
    has just queued a snapshot of it (`gameHub.ts:981-988`). If the client is
    behind, that snapshot stays in its `LatestSnapshotBuffer`, while `game.finished`
    is sent around it (1250), and nothing empties the buffer when the room is removed
    (1168-1178). The retry, 50 ms later, sends the snapshot after the result. The reducer
    looks at its sequence number only, which is new (`gameConnection.ts:90-95`), and
    the page is "playing" in a room again that the server does not have, although the
    comment at `gameConnection.ts:85-88` says that the sequence check keeps late
    snapshots from making the page go back in time. The model has this behaviour: `PlayingTabHasSeat`
    is violated without its exception `late`, and shows that there is no other way.

`SeatsAreHeld` holds without a tournament, as `hub_rooms` shows on its instance and
a theorem for every other; finding 4 is the same property with one. Finding 3 does not contradict
`QueueBooksAgree`, which holds in general: finding 3 needs a user of two entries, and violates a property of its own,
because the entry is still there, only the engine forgot the user.

## 4. Proofs

TLC shows the properties on one instance; the theorems hold for every value of
the constants, from the named assumptions of each module alone (that a window is
positive, guests are users, the cap of the lag is what a loop can make up for,
and the like; they are the ASSUMEs of the machines, which TLC evaluates). One
further hypothesis stands in five theorems about the hub and is explained there.

All safety invariants and action properties of the passing runs but one
(`SeatedTabShowsRoom`) are proved. Each
proof has the same shape: an inductive invariant, a lemma for each action or group of
actions, and the theorems that follow from it.

**`RoomSessionProofs`.** The safety properties are not inductive: that a
forfeit comes after the full window needs to know that the deadline lies a full
window after every loss that is still open, and that the set of missing sides
is exactly the set of recorded losses. `HistoryAgrees` says this, and `IInv` is
the conjunction of the properties with it. `MethodsType` (in `SessionLemmas`,
which the hub's proofs use too) gives the type of every method once; `NextIInv`
has one step per method. From `Invariance` follow `TypeCorrect`,
`SessionAgreesAlways`, `ForfeitIsFairAlways`, and the action properties
`ReturnsToStateBeforeAlways` and `FinishedIsFinalAlways`.

**`MatchmakingProofs`.** The invariant is a predicate of the engine's record,
`Consistent(m)`: typed, no user twice in the queue, no two entries compatible,
and queued exactly the users in the queue. The argument has three layers, all in
`MatchmakerProofs`. About sequences: `RemoveAtProperties`, `RemoveEntry` and `AppendEntry` say what taking
out or adding an entry leaves of these facts. About the search: `LeastNatural`
(from the library's well-foundedness of strict inclusion of finite sets, by way
of the sets `0..n-1`) gives `ClosestIsCandidate`, that the `CHOOSE` of
`findClosestOpponent` picks a candidate, none is closer, and none
as close stands before it in the queue; `QueuedPosition` says
a queued user has one place. About the methods: each preserves `Consistent`;
`ClaimConsistent` shows on the way that the repair branch of `claimAiFallback`
(queued, but in no queue) is dead code. The theorems are `TypeCorrect`,
`QueueMatchesStatusAlways`, `NoCompatiblePairWaitsAlways`,
`MatchedWithClosestAlways` and `MatchSurvivesLeavingAlways`.

**`GameHubProofs`.** The inductive invariant `HubInv` has these parts, in the
order of the proof:

* `ConnInv`: a connection is a client of the user it belongs to, one per user.
* `QueueInv`: the engine is `Consistent`, and its queue, the hub's entries, the
  timers and the lookups under way speak of the same users. A release by user
  touches engine and entry at once, and the folds over users that a removed
  room or a closing hub makes (`ReleaseAllIs`, `LeaveAllIs`) are shown equal
  to their closed form by induction on the finite set.
* `RoomInv`: types of rooms, phase against session, session against scheduler, each write
  under way has its room. What a step can do to rooms is said once, in
  `RoomsMove`: a room stays with its players and its match (`Keeps`), or begins
  with players who suit each other (`Begins`), or goes.
* `BracketInv`, `SeatsSuit`: who waits for a tournament match, or sits in its
  room, is its participant, on the right side.
* `ResultsInv`: a result is of the room's match and only a finishing room has
  one; a bracket match is finished by one room alone.
* `Held`: who is marked as matched has a room or a lookup under way.
* `ServerInv`: the stages of drain and close.

From it, for every hub and with tournaments: `HubTypes`, `QueueBooksAgreeAlways`,
`PhaseFollowsSessionAlways`, `TournamentDecidedOnceAlways`,
`TournamentSeatsAgreeAlways`.

The other four properties rest on what findings 1, 2 and 4 refute where there are
tournaments, and are true of the rest of the hub. Their theorems say just this by
the hypothesis `Matches = {}`, the setting of `hub_queue` and `hub_rooms`: a
hub that serves no tournament match. `QuietInv` adds to `HubInv` what then
holds too: a drained hub is empty (`DrainedInv`), a connection in an open
seat knows its room (`SeatsKnown`), who waits has no room (`WaitersFree`), and a
seat is with a client or its side is missing with the timer running (`Tended`).
The theorems are `SeatsAreHeldAlways`, `DrainIsAnsweredAlways`,
`ForfeitWinnerIsConnectedAlways` and `NoMatchWhileDrainingWithoutTournaments`; the last
shows that the await of `joinTournamentMatch` is the only way to finding 1.

**`ResultProofs`.** `Inv` adds to the types and properties what they rest on.
`LocksRead`: whoever holds a row FOR UPDATE is a finalization with this
participant, and the rating it has read is still the account's; this is what
makes the rating it writes the next link of the chain. `OneAttempt`: of one
result key at most one transaction is inserting, none whose result is recorded, and each with the
result the room has come to; so nothing is paid twice, and a retry says what the
first attempt said. `OutcomesStand` and `SlotsFilled` tie results and slots to
what rooms do. Each action has a lemma of its own; those that only take or give
back locks are one (`LocksOnly`).
`TypesHold`, `RatingsFollowHistoryAlways`, `EachResultPaysOnceAlways` and
`AnswersAreRecordedAlways` follow.

Its second half is about the tournament. `BracketInv`: the entrants are
four different users seeded as the bracket says (`Seeded`), a slot is finished
exactly when it has a winner, who is one of its players, and a key (`Decisive`), the final is seated from
both semifinals and only then (`FinalSeated`), the cup agrees with the final
(`CupAgrees`), a recorded result is the one of its slot (`SlotsRecorded`), two different users play for it (`TwoPlay`), and
what a transaction has read under the lock of the tournament still holds
(`CupHeld`). `CupHeld` is why two semifinals that end at once seat the final
once. `BracketFollowsResultsAlways` follows, and with it `ImplementsLedger`, the
refinement: `CommitFinalize` is `Record` (`CommitRecords`), `CommitJoin` is
`Enter` (`JoinEnters`), every other action leaves the ledger as it is
(`OthersStutter`), and initial states map to initial states (`LedgerBegins`).

Its third part is about the two repositories (`TwinsAgreeAlways`). `Twinned` says that
the in-memory repository is the record of the tables, whatever status its
tournaments show. What `finalizeMatch` writes in memory is what the commit
writes: the ratings are equal by `LocksRead`, the seat of the final by `CupHeld`
(`CommitSeatsTwin`), and a key that is taken changes neither (`OneAttempt`,
`CommitTwinned`). A join counts the same entrants in both and seats the same
four (`MemoryJoins`, `JoinTwinned`, `JoinAgainTwinned`); all other steps touch
neither side (`QuietTwinned`).

**`EntryProofs`.** None of the properties of `entry` is inductive, since each
relates two ends of a wire. `EntryInv` says what lies between:

* `TabsInv`: a tab pursues one attempt or waits for its timer, never both; a
  socket that is being opened or open is the tab's current one. This is
  `OneLiveSocketPerTab` with its reason.
* `SocketsInv`: an attempt is registered exactly when the hub knows it under its
  user; a seat is held only while connected, reserved only while not.
* `NewsInv`: what the page will show once it has heard everything on its
  wire is decided by the last message there, or by the page if there is
  none; and if that is a match, the hub has the seat, or has had the room until
  the result was written, or the message is a snapshot that waited too long
  (`late`). So messages under way, pages that hear them late, and what the
  buffer sends after the result (`SnapshotComesLate`) are covered.
* `LeaseInv`: guests hold the leases of the sockets the server has. The
  limits count leases, so `LeaseTaken` and `LeaseReturned` work with the
  cardinality of finite sets.

`OneLiveSocketPerTabAlways`, `LeaseFollowsSocketAlways` and `PlayingTabHasSeatAlways`
hold for any number of tabs, users, attempts and faults.

**`PartsProofs`** has the machines of one connection and of the process.

* Input gate: `InputsHeardInOrder` needs to know that at most one socket is
  registered, that the last number heard is that socket's, and that the numbers
  on every wire rise (`WiresInOrder`). `RateHolds`, over every window between
  two inputs, is strengthened to include the window that ends now
  (`TokensAreSpent`): tokens spent since any input, and those left, are no more
  than the burst and the refill since.
* Heartbeat (`OnlyTheSilentAreCutAlways`): either both timers run or none, for a
  connection with a place that was not cut, and the timeout is set from what was
  heard last.
* Snapshots (`SnapshotHasOneFateAlways`): the one that waits is the newest and a
  retry is coming for it; while the socket is congested the retry comes within one interval of
  the end of patience, and what waits has not waited longer than
  the congestion lasts (`Congestion`). The first form of it, that congestion is
  noted only while something waits, is not inductive: a retry that was
  planned before and finds the socket congested notes it with nothing pending.
* Scheduler (`RoomsKeepTimeAlways`): `RemainderIs` shows that the cap of the lag
  is just what a loop can catch up with, so that less than a step is carried
  over and no time is lost twice.
* Deployment (`ReadyIsTrueAlways`): the number of drains is what `started` says. The
  property speaks of `held`, what the table held since the probe came, not of
  what was read, so a migration between read and answer is seen: "ready" is said
  only if the table held just the release's migrations at a moment of the probe,
  holds them still, and the drain had not begun when it was said; "not ready" has a
  reason of the same kind. `ProbeMeans` gives what a probe knows its meaning: the set it
  read is among those held, and nothing leaves the table.
* Registered users (`SuspendedAreOutAlways`, `SocketsAreTheirsAlways`): a socket
  that was given a user has used up a ticket of its own, which nobody can use
  again (`DoorsKnown`); while it waits its buffer is all it said, or it is shut
  (`DoorHeard`); of a user whose ban is carried out, not only those who are
  clients but also those about to be are in `slippedBy` (`DoorsOut`), which
  is the strengthening that `SuspendedAreOut` needs.
* Guests (`TicketsEndForAReasonAlways`): tickets and the newest ticket of each
  guest are inverse to each other (`Paired`), no limit is exceeded
  (`WithinLimits`), and ids are given out in order, so that a new ticket is new
  (`IdsInOrder`). `saveTicket` deletes the guest's former ticket before it looks at
  the limits; `RoomForAnother` shows that this costs nobody a ticket: what
  was deleted makes the room, so no request that deletes a live ticket is refused.
* Match (`PlayedByTheRulesAlways`): `StepIs` says what one tick does to a state of
  the match wherever the ball is. `MatchInv` adds that the game is over just when
  the score or the time says so, and that the direction the AI moves in is that of the
  target it last chose; since no paddle step jumps over a dead zone
  (`CourtAssumption`), it cannot turn round before it chooses another.
* Friendships (`FriendshipsAgreeAlways`): `RemainingIs` says what a delete leaves of a table, by
  counting: the rank of a place among those kept is a bijection. Of the migration's three
  statements `SelvesGo`, `MutualAccepted` and `OneIsLeft` say what each does;
  `MigrationFollows` puts them together: a pair has at most two
  rows by the old key, and two are both accepted before one of them goes, so no wish is lost.
  Afterwards a pair has one row, which is why the `find` of the in-memory
  repository and the `on conflict` of the database meet the same one (`RequestFollows`).
* All of them side by side (`PartsTypes`): `PartsAreThemselves` shows that in `MCParts` each part does
  what its own specification allows. So running them together checks each of them,
  and what is proved of one alone holds there.

**Only model-checked.** Every invariant and every action property of the passing runs is
stated by a theorem, three of them for hubs without tournaments as said above, except for
`SeatedTabShowsRoom`: its invariant would have to say of the room what `NewsInv`
says of the match, in the other direction, and is left to the plan. The liveness properties of
`hub_live` are left to TLC for good: liveness under fairness, and anything about `ENABLED`, is
out of the prover's reach.

No module uses a RECURSIVE operator, since the prover loses its arithmetic
backend in modules that do.

## 5. Plan

Done, in this order: `RoomSession`, `Matchmaker` and `GameHub` with their runs,
findings and proofs; the repository with its ledger, twin, refinement and
proofs; guests and the entry through tickets, handshake and client; the room
loop; friendships; deployment; the sockets of registered users; the proofs of
hub, entry, snapshots, sockets, guests, match, friendships, and of the agreement
of the two repositories.

Next, most important first:

1. **The hub's writes as the ledger's**: `GameHub` keeps results and bracket of
   its own; the composition with `PostgresResults` in place of `WriteReturns` would
   show findings such as a tournament room that retries for ever in one model.
2. **`SeatedTabShowsRoomAlways`**, beside `PlayingTabHasSeatAlways`.
3. **Liveness of the client**: that a page does not stay "reconnecting", which
   findings 7 and 8 refute as the code stands.

## 6. Not modelled

* Web pages and HTTP wrappers (rendering), shared schemas (data formats),
  observability, request logging and environment parsing (they read state and
  change none), CLI, seeds, test reset and pool errors (I/O driven by hand), the
  load and end-to-end tests.
* Chat: the hub keeps no state for it; a message is stored and sent to whoever is
  there. Profiles, rankings and statistics are single statements of
  the repository with no protocol around them.
* In `Entry`: the buffer before authentication and bans, which `AccountAccess` has,
  and a registered ticket that expires by the clock (it is refused
  as any other unknown ticket is).
* In the client: the delays between attempts (any delay is possible), and the sequence
  numbers by which the page drops a snapshot older than one it has seen: in `Entry` one
  that goes out is news, or leaves the page as it is. Rating, name and avatar of players are data.
* In `Entry`, a player who comes back after the deadline but before its timer
  has run, and a start of another match by a player who returned while the result is
  being written (finding 11 and `two_matches` are of this kind; `GameHub` has both).
* The physics of the ball as floating-point numbers, and the AI's aim with
  its random numbers. `PongMatch` assumes that a ball is never so fast that it crosses a
  paddle's reach (51) between two ticks. The code caps what `accelerateBall` adds, and
  a hit multiplies the speed by 1.04 without a cap (`pongSimulation.ts:195`); a
  match has at most 900 ticks and a ball needs many of them from paddle to
  paddle, which leaves it below 34.
* Several server processes at once: `gameHub.ts` keeps its matches in one process.
  `PostgresResults` has several connections, which covers several processes writing results.

A user's rating is a constant of the hub's and the engine's models. The code
copies it from the connection's user when a queue entry is made, so it may
change between two entries of a user, never while an entry waits.
