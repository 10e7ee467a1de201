SPECIFICATION FairSpec
CONSTANTS
  MaxSession = 2
  MaxBridge = 2
INVARIANTS TypeOK StatusIsOfSession
PROPERTIES CreatedCallStays LiveCallIsShown SeenCallIsForgotten
CHECK_DEADLOCK FALSE
