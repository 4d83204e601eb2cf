CONSTANTS
  p1 = p1  p2 = p2
  MaxSessions = 1
  MaxTickers = 3
  MaxFlaps = 1
  DisablePolling = FALSE
SPECIFICATION PartSpec
INVARIANT FailureIsReported
PROPERTIES PollingFollowsConnection DisabledSessionsEnd 
CHECK_DEADLOCK FALSE
