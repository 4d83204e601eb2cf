CONSTANTS
  a = a  c = c  e1 = e1  e2 = e2
  Pushes = {a}
  EventsOf <- TwoEvents
  Others = {c}
  Parsers = {"default", "zero"}
  MaxSize = 1
  Limit = 2
  MaxAttempts = 2
  MaxTroubles = 2
SPECIFICATION PartSpec
INVARIANTS OnlyRacesDuplicate OnlyCutsLose PagesSkipNothing CompressionIsTransparent DataIsNotMisread
PROPERTY OkReachesReader
CHECK_DEADLOCK FALSE
