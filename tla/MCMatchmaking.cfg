CONSTANTS
  low = low
  middle = middle
  high = high
  higher = higher
  visitor = visitor
  Users <- MCUsers
  Guests <- MCGuests
  Rating <- MCRating
  MAX_RATING_DIFFERENCE = 200
  AI_FALLBACK_MS = 2
  MaxClock = 3
SPECIFICATION Spec
INVARIANTS
  QueueMatchesStatus
  NoCompatiblePairWaits
PROPERTIES
  MatchedWithClosest
  MatchSurvivesLeaving
