CONSTANTS
  p1 = p1  p2 = p2
  Runners = {p1, p2}
  MaxWorkers <- TwoOrOne
  BatchSize = 1
  MaxStored <- TwoOrOne
  ClientVersions = {1, 2}
  HookRunner = p1
  MaxEvents = 2
  MaxRounds = 2
  MaxFaults = 1
SPECIFICATION FairSpec
INVARIANTS NothingSkipped CleanRoundCatchesUp
PROPERTIES OnlyLateRunnersMoveBack PushIsProjected
CHECK_DEADLOCK FALSE
