CONSTANTS
  n1 = n1  n2 = n2
  w1 = w1  w2 = w2
  e1 = e1  e2 = e2  e3 = e3
  Nodes = {n1, n2}
  Workers = {w1, w2}
  NodeOf <- OneWorkerEach
  Events = {e1, e2, e3}
  Origin <- OneEach
  Key <- SameKey
  Mode <- SecondPushes
  Operations = {"sync", "pull"}
  Accepts = {e1, e2, e3}
  BatchSize = 2
  Resolver = "lww"
  UniqueIDs = FALSE
  MaxOps = 1
  MaxFaults = 1
  MaxCloses = 1
SPECIFICATION Spec
INVARIANTS RestsInIdle
CHECK_DEADLOCK FALSE
