CONSTANTS
  n1 = n1  n2 = n2
  w1 = w1  w2 = w2
  e1 = e1  e2 = e2  e3 = e3
  Nodes = {n1, n2}
  Workers = {w1, w2}
  NodeOf <- OneWorkerEach
  Events = {e1, e2, e3}
  Origin <- OneEach
  Key <- TwoKeys
  Mode <- FirstPulls
  Operations = {"sync"}
  Accepts = {e1, e2, e3}
  BatchSize = 2
  Resolver = "lww"
  UniqueIDs = FALSE
  MaxOps = 1
  MaxFaults = 0
  MaxCloses = 0
SPECIFICATION Spec
INVARIANTS CleanPullStoresAll
CHECK_DEADLOCK FALSE
