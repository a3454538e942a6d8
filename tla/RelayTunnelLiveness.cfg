\* One client, whose gateway may stop taking data, so that the state graph stays
\* small enough for temporal checking.
SPECIFICATION FairSpec
CONSTANTS
  Clients = {c1}
  MaxConns = 2
  MaxFlight = 1
  MaxCrashes = 1
  MaxBreaks = 1
  Stuck = {c1}
PROPERTIES
  AgentReconnects
  
  RelayStops
CHECK_DEADLOCK FALSE
