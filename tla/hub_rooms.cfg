CONSTANTS
  ann = ann
  bob = bob
  visitor = visitor
  final = final
  Users <- TwoUsers
  Guests <- NoGuests
  Rating <- RatingOfTwo
  MAX_RATING_DIFFERENCE = 200
  AI_FALLBACK_MS = 0
  RECONNECT_WINDOW_MS = 1
  Matches <- NoMatches
  Participants <- NoParticipants
  MaxLookups = 0
  MaxJoins = 0
  MaxRooms = 2
  MaxConns = 3
  MaxDrains = 1
SYMMETRY SymmetricUsers
CHECK_DEADLOCK FALSE
SPECIFICATION Spec
INVARIANTS
  SeatsAreHeld
