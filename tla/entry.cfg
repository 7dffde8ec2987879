CONSTANTS
  ana = ana
  ben = ben
  tab1 = tab1
  tab2 = tab2
  Users <- BothUsers
  Tabs <- BothTabs
  Ips = {"home"}
  ticketsPerIp = 4
  ticketLimit = 4
  connectionsPerIp = 1
  connectionLimit = 1
  MaxAttempts = 3
  MaxUnderWay = 2
  MaxFaults = 1
SYMMETRY Alike
CHECK_DEADLOCK FALSE
SPECIFICATION MCSpec
INVARIANTS
  OneLiveSocketPerTab
  LeaseFollowsSocket
  
  SeatedTabShowsRoom
