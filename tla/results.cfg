CONSTANTS
  c1 = c1
  c2 = c2
  Tx <- Connections
  Users <- Everybody
  Joiners <- LateJoiners
  FirstOpened <- CasualRooms
  Keys <- Rooms
  SlotOf <- SlotOfRoom
  PlayersOf <- Players
  FirstEntries <- OneSeatFree
  Targets <- OneTarget
  Admin = 1
  MaxBans = 1
CHECK_DEADLOCK FALSE
SYMMETRY SymmetricConnections
SPECIFICATION TwinSpec
INVARIANTS
  TypeOK
  RatingsFollowHistory
  EachResultPaysOnce
  BracketFollowsResults
  AnswersAreRecorded
  TwinsAgree
PROPERTIES
  Implements
