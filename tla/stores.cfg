CONSTANTS
  a = a  b = b  t = t  u = u  x = x  y = y
  w1 = w1  w2 = w2  w3 = w3
  e1 = e1  e2 = e2  e3 = e3  e4 = e4
  Aggregates = {a, b}
  Types = {t, u}
  Tenants = {x, y}
  Any = Any
  Batches <- SomeBatches
  MaxSeq = 6
  SqlWriters = {w1, w2, w3}
  SqlEvents = {e1, e2, e3, e4}
  SqlBatch <- ThreeBatches
  Single = {w3}
  Background = {w3}
  MaxOpenConns = 2
  MaxSqlCalls = 2
  Replicas = {"r1", "r2", "r3"}
  NodeID <- ThreeNodes
  Storing = {"r1"}
  MaxNodes = 3
  StampedAggregates = {a}
  MaxStamps = 3
  MaxStamped = 1
  MaxReopens = 1
  PgAggregates = {"a"}
  Handlers = {"h1", "h2"}
  MaxLoops = 2
  MaxPgCalls = 3
  MaxBreaks = 1
  MaxRefusals = 1
  MaxInserts = 1
  MaxErrors = 1
SPECIFICATION StoresSpec
INVARIANTS LoadsAgree ReadsWholeBatches ReaderMissesNothing ClocksTellCausality HandlersAreListenedFor
PROPERTIES StoreIsALog ConnectionsComeBack
CHECK_DEADLOCK FALSE
