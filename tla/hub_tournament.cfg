CONSTANTS
  ann = ann
  bob = bob
  visitor = visitor
  final = final
  Users <- TwoUsers
  Guests <- NoGuests
  Rating <- RatingOfTwo
  MAX_RATING_DIFFERENCE = 200
  AI_FALLBACK_MS = 0
  RECONNECT_WINDOW_MS = 1
  Matches <- OneMatch
  Participants <- FinalParticipants
  MaxLookups = 0
  MaxJoins = 2
  MaxRooms = 2
  MaxConns = 2
  MaxDrains = 1
CHECK_DEADLOCK FALSE
SPECIFICATION TournamentSpec
INVARIANTS
  TournamentDecidedOnce
  TournamentSeatsAgree
