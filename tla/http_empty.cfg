CONSTANTS
  a = a  c = c  e1 = e1  e2 = e2
  Pushes = {a}
  EventsOf <- TwoEvents
  Others = {c}
  Parsers = {"default"}
  MaxSize = 1
  Limit = 2
  MaxAttempts = 2
  MaxTroubles = 0
SPECIFICATION FairSpec
PROPERTY PushesAreServed
CHECK_DEADLOCK FALSE
