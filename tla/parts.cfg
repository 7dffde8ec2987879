CONSTANTS
  RECONNECT_WINDOW_MS = 2
  MaxClock = 6
  Sockets = {s1, s2}
  RATE = 1
  TOKEN = 2
  BURST = 2
  MaxGateClock = 5
  MaxSequence = 4
  MaxInFlight = 2
  HEARTBEAT_PING_INTERVAL_MS = 2
  HEARTBEAT_TIMEOUT_MS = 6
  MaxPongs = 2
  MaxBeatClock = 16
  MAX_CONGESTION_MS = 4
  RETRY_INTERVAL_MS = 2
  MaxSnapshots = 4
  MaxSnapClock = 9
  MatchRooms = {r1, r2}
  timestepMs = 2
  maxTicksPerLoop = 2
  maxAccumulatedMs = 4
  MaxTickClock = 10
  MaxLateness = 4
  Guests = {g1, g2}
  Ips = {a, b}
  MaxTickets = 3
  ticketsPerIp = 1
  ticketLimit = 2
  connectionsPerIp = 1
  connectionLimit = 2
  creationLimitPerMinute = 2
  ticketIssueLimitPerMinute = 2
  trackedIpLimit = 2
  CREATION_WINDOW_MS = 2
  TICKET_TTL_MS = 2
  GUEST_SESSION_TTL_MS = 3
  MaxGuestClock = 4
  Members = {u}
  Tokens = {c}
  Tickets = {t1, t2}
  Doors = {d1, d2}
  MessageSizes = {1, 3}
  PRE_AUTH_MESSAGE_MAX_BYTES = 2
  PRE_AUTH_MESSAGE_MAX_COUNT = 1
  PRE_AUTH_BUFFER_MAX_BYTES = 4
  MaxMessages = 2
  MaxSuspensions = 2
  Friends = {p, q, r}
  MaxLegacy = 3
  GAME_WIDTH = 9
  GAME_HEIGHT = 8
  PADDLE_HEIGHT = 2
  PADDLE_REACH = 2
  BALL_RADIUS = 1
  ARENA_PADDING = 1
  PADDLE_SPEED_PER_TICK = 2
  MaxAcross = 2
  MaxSlope = 2
  WINNING_SCORE = 2
  MAX_MATCH_TICKS = 8
  reactionTicks = 2
  deadZone = 1
  Processes = {v}
  Releases = {{1}, {1, 2}, {1, 3}}
CHECK_DEADLOCK FALSE
SPECIFICATION PartsSpec
INVARIANTS
  PartsTypeOK
  SessionAgrees
  ForfeitIsFair
  InputsHeardInOrder
  RateHolds
  OnlyTheSilentAreCut
  SnapshotHasOneFate
  RoomsKeepTime
  SuspendedAreOut
  SocketsAreTheirs
  FriendshipsAgree
PROPERTIES
  ReturnsToStateBefore
  TicketsEndForAReason
  PlayedByTheRules
  ReadyIsTrue
