CONSTANTS
  MaxSessions = 1
  MaxTickers = 3
  MaxFlaps = 1
  DisablePolling = FALSE
SPECIFICATION Spec
INVARIANT NoPanic
CHECK_DEADLOCK FALSE
