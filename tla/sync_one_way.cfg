CONSTANTS
  n1 = n1  n2 = n2
  w1 = w1  w2 = w2
  e1 = e1  e2 = e2  e3 = e3
  Nodes = {n1, n2}
  Workers = {w1, w2}
  NodeOf <- OneWorkerEach
  Events = {e1, e2}
  Origin <- WriterOrigin
  Key <- SameKey
  Mode <- OneWriter
  Operations = {"sync"}
  Accepts = {e1, e2}
  BatchSize = 1
  Resolver = "lww"
  UniqueIDs = FALSE
  MaxOps = 0
  MaxFaults = 1
  MaxCloses = 0
SPECIFICATION FairSpec
INVARIANTS ReplicasArePrefixes CleanPullStoresAll
PROPERTY EventsReachEveryone
CHECK_DEADLOCK FALSE
