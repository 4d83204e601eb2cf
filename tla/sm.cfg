CONSTANTS
  c1 = c1  c2 = c2  g1 = g1  g2 = g2  g3 = g3
  States <- SmallStates
  InitialState <- SyncIdle
  TransitionRules <- SmallRules
  MaxHistorySize = 2
  Callers = {c1, c2}
  Observers = {o1}
  MaxCalls = 3
  MaxSubscribers = 1
  MaxToggles = 2
  MaxRestarts = 1
  Resolvers = {g1, g2}
  NumRules = 2
  MaxResolverCalls = 2
  Auditors = {"g1", "g2"}
  AuditedAggregates = {"a", "b"}
  MaxTime = 2
  MaxResolutions = 2
  MaxDeletes = 1
SPECIFICATION PartSpec
INVARIANTS HistoryIsChain EveryAttemptReported NotesAreOfOneConflict ResolvesAsFlattened ResolutionsAreAudited
PROPERTIES ImplementsValidatedState StuckIsNoticed ResolverComesBack
CHECK_DEADLOCK FALSE
