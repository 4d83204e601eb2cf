CONSTANTS
  r1 = r1  r2 = r2
  Reconnectors = {r1, r2}
  MaxPending = 1
  MaxFlaps = 1
  MaxCalls = 2
  c1 = c1  h1 = h1  user = user  none = none
  Contexts = {c1}
  Handlers = {h1}
  User = user
  NoContext = none
  MaxStarts = 2
  MaxStartCalls = 2
SPECIFICATION PartSpec
INVARIANTS TransitioningIsOwned OneLiveLoop NothingIsLost
PROPERTIES Heals StoppedLoopsExit ClosedComesToRest AcceptedIsHandled
CHECK_DEADLOCK FALSE
