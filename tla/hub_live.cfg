CONSTANTS
  ann = ann
  bob = bob
  visitor = visitor
  final = final
  Users <- TwoUsers
  Guests <- NoGuests
  Rating <- RatingOfTwo
  MAX_RATING_DIFFERENCE = 200
  AI_FALLBACK_MS = 0
  RECONNECT_WINDOW_MS = 1
  Matches <- NoMatches
  Participants <- NoParticipants
  MaxLookups = 1
  MaxJoins = 0
  MaxRooms = 1
  MaxConns = 2
  MaxDrains = 1
CHECK_DEADLOCK FALSE
SPECIFICATION FairSpec
PROPERTIES
  FinishedRoomIsRemoved
  LostSeatIsDecided
  QueueWaitEnds
