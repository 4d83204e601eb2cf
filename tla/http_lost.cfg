CONSTANTS
  a = a  c = c  e1 = e1  e2 = e2
  Pushes = {a}
  EventsOf <- TwoEvents
  Others = {c}
  Parsers = {"zero"}
  MaxSize = 1
  Limit = 2
  MaxAttempts = 2
  MaxTroubles = 0
SPECIFICATION Spec
INVARIANT OkMeansStored
CHECK_DEADLOCK FALSE
