------------------------------ MODULE StoresProofs ------------------------------
(* Proofs about the event stores. The in-memory store comes first, then the SQL   *)
(* stores.                                                                        *)
EXTENDS MemStore, Stores, TLAPS

USE ZenonT(3), SMTT(30)

(********************************************************************************)
(* The in-memory store, for every set of aggregates, types, tenants and         *)
(* batches: the index of the streams and the log agree, so that the two queries *)
(* answer alike, and readers see whole batches.                                 *)
(********************************************************************************)
\* The type invariant: every action keeps the fields of MemStore in their types.
THEOREM TypeCorrect == Spec => []TypeOK
<1>1. Init => TypeOK
  <2> SUFFICES ASSUME Init PROVE TypeOK
    OBVIOUS
  <2>1. closed \in BOOLEAN
    BY Zenon DEF Init
  <2>2. ends \subseteq Nat /\ nextSeq \in Nat \ {0} /\ cursor \in Nat
    BY DEF Init
  <2>3. events \in Seq(Stored) /\ todo \in Seq(Event)
    BY DEF Init
  <2>4. streams \in [Aggregates -> Seq(Nat)]
    BY DEF Init
  <2>. QED BY <2>1, <2>2, <2>3, <2>4 DEF TypeOK
<1>2. TypeOK /\ [Next]_vars => TypeOK'
  <2> SUFFICES ASSUME TypeOK, [Next]_vars
               PROVE  TypeOK'
    OBVIOUS
  <2> USE DEF TypeOK
  <2>1. ASSUME NEW batch \in Batches, StoreBatch(batch)
        PROVE  TypeOK'
    BY <2>1, MemStoreAssumption DEF StoreBatch
  <2>2. CASE StoreOne
    <3>1. Head(todo) \in Event /\ Tail(todo) \in Seq(Event)
      BY <2>2 DEF StoreOne
    <3>2. Head(todo).aggregate \in Aggregates
      BY <3>1 DEF Event
    <3>3. events' \in Seq(Stored)
      BY <2>2, <3>1 DEF StoreOne, Stored
    <3>4. streams' \in [Aggregates -> Seq(Nat)]
      BY <2>2, <3>2 DEF StoreOne
    <3>. QED BY <2>2, <3>1, <3>3, <3>4 DEF StoreOne
  <2>3. CASE LatestVersion
    BY <2>3 DEF LatestVersion
  <2>4. CASE Close
    BY <2>4 DEF Close
  <2>5. CASE UNCHANGED vars
    BY <2>5 DEF vars
  <2>. QED BY <2>1, <2>2, <2>3, <2>4, <2>5 DEF Next
<1>. QED BY <1>1, <1>2, PTL DEF Spec

\* What StoreOne does to the log and to the index of a stream: the new event is
\* the last of both, and everything before it stays.
LEMMA StoreOneEffect ==
  ASSUME TypeOK, StoreOne
  PROVE  /\ Len(events') = Len(events) + 1
         /\ \A i \in 1..Len(events) : events'[i] = events[i]
         /\ events'[Len(events) + 1] = [event |-> Head(todo), version |-> nextSeq]
         /\ Head(todo) \in Event
         /\ \A a \in Aggregates :
              a # Head(todo).aggregate => streams'[a] = streams[a]
         /\ Head(todo).aggregate \in Aggregates
         /\ LET s == streams[Head(todo).aggregate]
                t == streams'[Head(todo).aggregate]
            IN  /\ Len(t) = Len(s) + 1
                /\ \A j \in 1..Len(s) : t[j] = s[j]
                /\ t[Len(s) + 1] = Len(events) + 1
<1>1. Head(todo) \in Event
  BY DEF StoreOne, TypeOK
<1>2. Head(todo).aggregate \in Aggregates
  BY <1>1 DEF Event
<1>3. events \in Seq(Stored) /\ nextSeq \in Nat
  BY DEF TypeOK
<1>4. [event |-> Head(todo), version |-> nextSeq] \in Stored
  BY <1>1, <1>3 DEF Stored
<1>5. /\ Len(events') = Len(events) + 1
      /\ \A i \in 1..Len(events) : events'[i] = events[i]
      /\ events'[Len(events) + 1] = [event |-> Head(todo), version |-> nextSeq]
  BY <1>3, <1>4 DEF StoreOne
<1>6. \A a \in Aggregates : a # Head(todo).aggregate => streams'[a] = streams[a]
  BY <1>2 DEF StoreOne, TypeOK
<1>7. streams[Head(todo).aggregate] \in Seq(Nat) /\ Len(events) + 1 \in Nat
  BY <1>2, <1>3 DEF TypeOK
<1>8. streams'[Head(todo).aggregate] = Append(streams[Head(todo).aggregate], Len(events) + 1)
  BY <1>2 DEF StoreOne, TypeOK
<1>9. LET s == streams[Head(todo).aggregate]
          t == streams'[Head(todo).aggregate]
      IN  /\ Len(t) = Len(s) + 1
          /\ \A j \in 1..Len(s) : t[j] = s[j]
          /\ t[Len(s) + 1] = Len(events) + 1
  BY <1>7, <1>8
<1>. QED BY <1>1, <1>2, <1>5, <1>6, <1>9

\* StoreOne keeps the index: the new event's index is larger than all others and
\* goes to the stream of its aggregate alone.
LEMMA StoreOneKeepsIndex ==
  ASSUME TypeOK, StreamsIndexEvents, StoreOne
  PROVE  StreamsIndexEvents'
<1> DEFINE h == Head(todo).aggregate
           n == Len(events)
<1>0. n \in Nat
  BY DEF TypeOK
<1>1. ASSUME NEW a \in Aggregates, a # h
      PROVE  /\ \A j \in 1..Len(streams'[a]) :
                  /\ streams'[a][j] \in 1..Len(events')
                  /\ events'[streams'[a][j]].event.aggregate = a
             /\ \A j, k \in 1..Len(streams'[a]) : j < k => streams'[a][j] < streams'[a][k]
             /\ \A i \in 1..Len(events') :
                  events'[i].event.aggregate = a =>
                    \E j \in 1..Len(streams'[a]) : streams'[a][j] = i
  <2>1. streams'[a] = streams[a]
    BY <1>1, StoreOneEffect
  <2>2. ASSUME NEW j \in 1..Len(streams[a])
        PROVE  streams[a][j] \in 1..n + 1 /\ events'[streams[a][j]].event.aggregate = a
    <3>1. streams[a][j] \in 1..n /\ events[streams[a][j]].event.aggregate = a
      BY DEF StreamsIndexEvents
    <3>. QED BY <1>0, <3>1, StoreOneEffect
  <2>3. ASSUME NEW i \in 1..n + 1, events'[i].event.aggregate = a
        PROVE  \E j \in 1..Len(streams[a]) : streams[a][j] = i
    <3>1. events'[n + 1].event.aggregate = h
      BY StoreOneEffect
    <3>2. i # n + 1
      BY <1>1, <2>3, <3>1
    <3>3. i \in 1..n
      BY <1>0, <3>2
    <3>. QED BY <2>3, <3>3, StoreOneEffect DEF StreamsIndexEvents
  <2>4. \A j, k \in 1..Len(streams[a]) : j < k => streams[a][j] < streams[a][k]
    BY DEF StreamsIndexEvents
  <2>. QED BY <2>1, <2>2, <2>3, <2>4, StoreOneEffect
<1>2. /\ \A j \in 1..Len(streams'[h]) :
           /\ streams'[h][j] \in 1..Len(events')
           /\ events'[streams'[h][j]].event.aggregate = h
      /\ \A j, k \in 1..Len(streams'[h]) : j < k => streams'[h][j] < streams'[h][k]
      /\ \A i \in 1..Len(events') :
           events'[i].event.aggregate = h =>
             \E j \in 1..Len(streams'[h]) : streams'[h][j] = i
  <2> DEFINE m == Len(streams[h])
  <2>0. m \in Nat /\ h \in Aggregates
    BY StoreOneEffect DEF TypeOK
  <2>1. /\ Len(streams'[h]) = m + 1
        /\ \A j \in 1..m : streams'[h][j] = streams[h][j]
        /\ streams'[h][m + 1] = n + 1
        /\ Len(events') = n + 1
        /\ \A i \in 1..n : events'[i] = events[i]
        /\ events'[n + 1].event.aggregate = h
    BY StoreOneEffect
  <2>2. /\ \A j \in 1..m : streams[h][j] \in 1..n /\ events[streams[h][j]].event.aggregate = h
        /\ \A j, k \in 1..m : j < k => streams[h][j] < streams[h][k]
        /\ \A i \in 1..n :
             events[i].event.aggregate = h => \E j \in 1..m : streams[h][j] = i
    BY <2>0 DEF StreamsIndexEvents
  <2> HIDE DEF h, n, m
  <2>3. ASSUME NEW j \in 1..m + 1
        PROVE  streams'[h][j] \in 1..n + 1 /\ events'[streams'[h][j]].event.aggregate = h
    <3>1. CASE j = m + 1
      BY <1>0, <2>1, <3>1
    <3>2. CASE j \in 1..m
      BY <1>0, <2>1, <2>2, <3>2
    <3>. QED BY <2>0, <3>1, <3>2
  <2>4. ASSUME NEW j \in 1..m + 1, NEW k \in 1..m + 1, j < k
        PROVE  streams'[h][j] < streams'[h][k]
    <3>1. j \in 1..m
      BY <2>0, <2>4
    <3>2. CASE k = m + 1
      BY <1>0, <2>1, <2>2, <3>1, <3>2
    <3>3. CASE k \in 1..m
      BY <2>1, <2>2, <2>4, <3>1, <3>3
    <3>. QED BY <2>0, <3>2, <3>3
  <2>5. ASSUME NEW i \in 1..n + 1, events'[i].event.aggregate = h
        PROVE  \E j \in 1..m + 1 : streams'[h][j] = i
    <3>1. CASE i = n + 1
      BY <2>0, <2>1, <3>1
    <3>2. CASE i \in 1..n
      <4>1. PICK j \in 1..m : streams[h][j] = i
        BY <2>1, <2>2, <2>5, <3>2
      <4>2. j \in 1..m + 1 /\ streams'[h][j] = i
        BY <2>0, <2>1, <4>1
      <4>. QED BY <4>2
    <3>. QED BY <1>0, <3>1, <3>2
  <2>. QED BY <2>1, <2>3, <2>4, <2>5
<1> HIDE DEF h
<1>. QED BY <1>1, <1>2, Zenon DEF StreamsIndexEvents

\* The invariant of MemStore: index, versions and the ends of batches.
THEOREM InvariantHolds == Spec => []MemStoreInv
<1>1. Init => MemStoreInv
  <2> SUFFICES ASSUME Init PROVE MemStoreInv
    OBVIOUS
  <2>0. events = <<>> /\ \A a \in Aggregates : streams[a] = <<>>
    BY DEF Init
  <2>1. StreamsIndexEvents
    <3>1. 1..0 = {}
      OBVIOUS
    <3>2. Len(events) = 0 /\ \A a \in Aggregates : Len(streams[a]) = 0
      BY <2>0
    <3>3. SUFFICES ASSUME NEW a \in Aggregates
                   PROVE  /\ \A j \in {} : streams[a][j] \in {} /\ events[streams[a][j]].event.aggregate = a
                          /\ \A j, k \in {} : j < k => streams[a][j] < streams[a][k]
                          /\ \A i \in {} : events[i].event.aggregate = a => \E j \in {} : streams[a][j] = i
      BY <3>1, <3>2, Zenon DEF StreamsIndexEvents
    <3>. QED BY Zenon
  <2>2. VersionsAreIndices
    BY DEF Init, VersionsAreIndices
  <2>3. ReadsWholeBatches
    BY DEF Init, ReadsWholeBatches
  <2>. QED BY <2>1, <2>2, <2>3 DEF Init, MemStoreInv
<1>2. TypeOK /\ MemStoreInv /\ [Next]_vars => MemStoreInv'
  <2> SUFFICES ASSUME TypeOK, MemStoreInv, [Next]_vars
               PROVE  MemStoreInv'
    OBVIOUS
  <2>1. ASSUME NEW batch \in Batches, StoreBatch(batch)
        PROVE  MemStoreInv'
    <3>1. todo' # <<>> /\ ~closed'
      BY <2>1, MemStoreAssumption DEF StoreBatch
    <3>2. UNCHANGED <<events, streams, nextSeq, closed, cursor, ends>>
      BY <2>1 DEF StoreBatch
    <3>. QED BY <3>1, <3>2 DEF MemStoreInv, StreamsIndexEvents, VersionsAreIndices,
                               ReadsWholeBatches
  <2>2. CASE StoreOne
    <3>1. StreamsIndexEvents'
      BY <2>2, StoreOneKeepsIndex DEF MemStoreInv
    <3>2. ~closed /\ ~closed'
      BY <2>2 DEF StoreOne, MemStoreInv
    <3>3. nextSeq = Len(events) + 1 /\ nextSeq' = nextSeq + 1
      BY <2>2, <3>2 DEF StoreOne, MemStoreInv, VersionsAreIndices
    <3>4. Len(events) \in Nat
      BY DEF TypeOK
    <3>5. ASSUME NEW i \in 1..Len(events')
          PROVE  events'[i].version = i
      <4>1. CASE i = Len(events) + 1
        BY <2>2, <3>3, <4>1, StoreOneEffect
      <4>2. CASE i \in 1..Len(events)
        BY <2>2, <4>2, StoreOneEffect DEF MemStoreInv, VersionsAreIndices
      <4>. QED BY <2>2, <3>4, <4>1, <4>2, StoreOneEffect
    <3>6. VersionsAreIndices'
      BY <2>2, <3>3, <3>5, StoreOneEffect DEF VersionsAreIndices
    <3>7. ReadsWholeBatches'
      BY <2>2 DEF StoreOne, MemStoreInv, ReadsWholeBatches
    <3>8. todo' = <<>> => nextSeq' - 1 \in ends'
      BY <2>2, <3>3, <3>4 DEF StoreOne
    <3>. QED BY <3>1, <3>2, <3>6, <3>7, <3>8 DEF MemStoreInv
  <2>3. CASE LatestVersion
    <3>1. UNCHANGED <<events, streams, nextSeq, closed, todo, ends>>
      BY <2>3 DEF LatestVersion
    <3>2. CASE events = <<>>
      <4>1. nextSeq = 1
        BY <2>3, <3>2 DEF LatestVersion, MemStoreInv, VersionsAreIndices
      <4>. QED BY <2>3, <3>1, <3>2, <4>1
               DEF LatestVersion, MemStoreInv, StreamsIndexEvents, VersionsAreIndices,
                   ReadsWholeBatches
    <3>3. CASE events # <<>>
      BY <2>3, <3>1, <3>3 DEF LatestVersion, MemStoreInv, StreamsIndexEvents,
                              VersionsAreIndices, ReadsWholeBatches
    <3>. QED BY <3>2, <3>3
  <2>4. CASE Close
    <3>1. StreamsIndexEvents'
      BY <2>4 DEF Close, StreamsIndexEvents
    <3>2. VersionsAreIndices'
      BY <2>4 DEF Close, VersionsAreIndices
    <3>. QED BY <2>4, <3>1, <3>2 DEF Close, MemStoreInv, ReadsWholeBatches
  <2>5. CASE UNCHANGED vars
    BY <2>5 DEF vars, MemStoreInv, StreamsIndexEvents, VersionsAreIndices, ReadsWholeBatches
  <2>. QED BY <2>1, <2>2, <2>3, <2>4, <2>5 DEF Next
<1>. QED BY <1>1, <1>2, TypeCorrect, PTL DEF Spec

\* LoadByAggregate reads the index and Load reads the log: at every moment the
\* index of a stream lists exactly its events, in the order of the log.
THEOREM IndexCorrect == Spec => []StreamsIndexEvents
BY InvariantHolds, PTL DEF MemStoreInv

\* A reader never stops in the middle of a batch (StoreBatch holds the lock).
THEOREM WholeBatches == Spec => []ReadsWholeBatches
BY InvariantHolds, PTL DEF MemStoreInv

\* LoadByAggregate answers as Load with a filter for the aggregate does, from
\* any version and with any further filters: the index maps the entries that
\* the one selects, in order, onto the positions that the other selects.
LEMMA QueriesAgree ==
  ASSUME TypeOK, StreamsIndexEvents, NEW a \in Aggregates, NEW since \in Nat,
         NEW f \in Filters, f.aggregate = Any
  PROVE  LET entries == LoadByAggregate(a, since, f)
         IN  /\ {streams[a][j] : j \in entries} = Load(since, [f EXCEPT !.aggregate = a])
             /\ \A j, k \in entries : j < k => streams[a][j] < streams[a][k]
<1> DEFINE index == streams[a]
           g == [f EXCEPT !.aggregate = a]
           J == LoadByAggregate(a, since, f)
           I == Load(since, g)
<1>1. DOMAIN index = 1..Len(index) /\ DOMAIN events = 1..Len(events)
  BY DEF TypeOK
<1>2. g["aggregate"] = a /\ g["type"] = f["type"] /\ g["tenant"] = f["tenant"] /\ f["aggregate"] = Any
  BY DEF Filters
<1>3. a # Any
  BY MemStoreAssumption
<1>4. ASSUME NEW e
      PROVE  MatchesFilters(e, g) <=> MatchesFilters(e, f) /\ e["aggregate"] = a
  BY <1>2, <1>3 DEF MatchesFilters
<1>5. ASSUME NEW ev PROVE Wanted(ev, since, g) <=> Wanted(ev, since, f) /\ ev.event.aggregate = a
  BY <1>4 DEF Wanted
<1>6. /\ \A j \in 1..Len(index) : index[j] \in 1..Len(events) /\ events[index[j]].event.aggregate = a
      /\ \A j, k \in 1..Len(index) : j < k => index[j] < index[k]
      /\ \A i \in 1..Len(events) :
           events[i].event.aggregate = a => \E j \in 1..Len(index) : index[j] = i
  BY Zenon DEF StreamsIndexEvents
<1>7. /\ \A j : j \in J <=> j \in 1..Len(index) /\ Wanted(events[index[j]], since, f)
      /\ \A i : i \in I <=> i \in 1..Len(events) /\ Wanted(events[i], since, g)
  BY <1>1 DEF LoadByAggregate, Load
<1> HIDE DEF index, g, I, J
<1>8. \A j \in J : index[j] \in I
  BY <1>5, <1>6, <1>7
<1>9. \A i \in I : \E j \in J : index[j] = i
  BY <1>5, <1>6, <1>7
<1>10. \A j, k \in J : j < k => index[j] < index[k]
  BY <1>6, <1>7
<1>11. {index[j] : j \in J} = I
  BY <1>8, <1>9
<1> QED
  BY <1>10, <1>11 DEF I, J, g, index

\* The same, of every state: what the two queries return is one thing.
THEOREM LoadsSame == Spec => []LoadsAgree
<1>1. ASSUME TypeOK, StreamsIndexEvents PROVE LoadsAgree
  <2>1. \A since \in 0..nextSeq : since \in Nat
    BY <1>1 DEF TypeOK
  <2> QED
    BY <2>1, <1>1, QueriesAgree DEF LoadsAgree
<1> QED
  BY <1>1, TypeCorrect, IndexCorrect, PTL

(********************************************************************************)
(* The SQL stores, for any writers, batches, pool and number of calls. A reader *)
(* that goes on from the last row it was given misses nothing but what          *)
(* PostgreSQL commits below a visible version, and with SQLite nothing at all   *)
(* (Reads). The databases keep that in different ways, and the invariant has a  *)
(* part for each: SQLite's one writing transaction holds versions above the     *)
(* table's (OneWriter); PostgreSQL draws every version once (DrawnOnce), so a   *)
(* row that is still open has not the version of a committed one. SQLite's      *)
(* table is a log that grows by whole batches (IsALog): its versions have no    *)
(* gaps (LogInv).                                                               *)
(********************************************************************************)

\* Calls are given sequences of events.
BatchesOfEvents == SqlBatch \in [SqlWriters -> Seq(SqlEvents)]

OpenRow == [version : Nat \ {0}, id : SqlEvents]

SqlTypeInv ==
  /\ postgres \in BOOLEAN
  /\ serial \in Nat /\ sqlCursor \in Nat
  /\ rows \subseteq OpenRow
  /\ tx \in [SqlWriters -> Seq(OpenRow)]
  /\ \A t \in left : t.tx \in Seq(OpenRow)

\* There is a last row.
HasLast(S) == S = {} \/ \E r \in S : \A s \in S : s.version <= r.version

\* The rows of a transaction are in the order of their versions.
Ascending(s) == \A i, j \in DOMAIN s : i < j => s[i].version < s[j].version

OneWriter ==
  /\ \A w \in SqlWriters : tx[w] # <<>> => \A t \in Sql!Others(w) : t = <<>>
  /\ \A w \in SqlWriters : \A i \in DOMAIN tx[w] : tx[w][i].version = Sql!Latest + i
  /\ \A r \in Sql!OpenRows : r.version > Sql!Latest

DrawnOnce ==
  /\ \A r \in rows : r.version <= serial
  /\ \A w \in SqlWriters : \A i \in DOMAIN tx[w] :
       /\ tx[w][i].version <= serial
       /\ \A r \in rows : r.version # tx[w][i].version
       /\ \A v \in SqlWriters \ {w} : \A j \in DOMAIN tx[v] : tx[w][i].version # tx[v][j].version

ReaderInv ==
  /\ sqlCursor <= Sql!Latest
  /\ \A r \in rows : r.version <= sqlCursor => r.id \in seen \cup passed
  /\ \A w \in SqlWriters : \A i \in DOMAIN tx[w] : tx[w][i].version <= sqlCursor => tx[w][i].id \in passed
  /\ ~postgres => passed = {}

SqlInv ==
  /\ SqlTypeInv /\ HasLast(rows) /\ (\A w \in SqlWriters : Ascending(tx[w]))
  /\ ~postgres => OneWriter
  /\ postgres => DrawnOnce
  /\ ReaderInv

--------------------------------------------------------------------------------
\* The last version of a table: 0 of an empty one, otherwise that of a row and
\* not below any.
LEMMA LastFacts ==
  ASSUME NEW S \in SUBSET OpenRow, HasLast(S)
  PROVE  /\ Sql!LastOf(S) \in Nat
         /\ \A r \in S : r.version <= Sql!LastOf(S)
         /\ S = {} => Sql!LastOf(S) = 0
         /\ S # {} => \E r \in S : r.version = Sql!LastOf(S)
<1>1. CASE S = {} BY <1>1 DEF Sql!LastOf
<1>2. CASE S # {}
  <2>1. \E v \in {r.version : r \in S} : \A r \in S : r.version <= v BY <1>2 DEF HasLast
  <2>2. Sql!LastOf(S) \in {r.version : r \in S} /\ \A r \in S : r.version <= Sql!LastOf(S)
    BY <1>2, <2>1 DEF Sql!LastOf
  <2> QED BY <1>2, <2>2 DEF OpenRow
<1> QED BY <1>1, <1>2

\* The rows of a transaction have versions.
LEMMA RowVersion ==
  ASSUME NEW t \in Seq(OpenRow), NEW i \in DOMAIN t
  PROVE  t[i] \in OpenRow /\ t[i].version \in Nat /\ t[i].version > 0
<1>1. i \in 1..Len(t) OBVIOUS
<1>2. t[i] \in OpenRow BY <1>1
<1> QED BY <1>2 DEF OpenRow

\* An empty table that nobody has read.
LEMMA InitSql == Sql!Init => SqlInv
<1> SUFFICES ASSUME Sql!Init PROVE SqlInv OBVIOUS
<1>1. \A w \in SqlWriters : tx[w] = <<>> BY DEF Sql!Init
<1>2. SqlTypeInv BY DEF Sql!Init, SqlTypeInv
<1>3. Sql!Latest = 0 BY DEF Sql!Init, Sql!Latest, Sql!LastOf
<1>4. Sql!OpenRows = {} BY <1>1 DEF Sql!Init, Sql!OpenRows, Sql!RowsOf
<1>5. OneWriter BY <1>1, <1>4 DEF OneWriter
<1> QED BY <1>1, <1>2, <1>3, <1>5 DEF Sql!Init, SqlInv, HasLast, Ascending, DrawnOnce, ReaderInv

\* Steps that leave the table and the reader alone, and keep or end open
\* transactions: Begin, Close, a rollback and an error that StoreBatch hides.
LEMMA EndStep ==
  ASSUME SqlInv, NEW ended \in SUBSET SqlWriters,
         UNCHANGED <<rows, serial, Sql!reader>>,
         tx' = [w \in SqlWriters |-> IF w \in ended THEN <<>> ELSE tx[w]],
         \A t \in left' : t \in left \/ \E w \in ended : t.tx = tx[w]
  PROVE  SqlInv'
<1> USE DEF SqlInv
<1>1. \A w \in SqlWriters : tx'[w] = tx[w] \/ tx'[w] = <<>> OBVIOUS
<1>2. SqlTypeInv'
  <2>1. tx' \in [SqlWriters -> Seq(OpenRow)] BY DEF SqlTypeInv
  <2>2. \A t \in left' : t.tx \in Seq(OpenRow) BY DEF SqlTypeInv
  <2> QED BY <2>1, <2>2 DEF SqlTypeInv, Sql!reader
<1>3. \A w \in SqlWriters : Ascending(tx'[w]) BY <1>1 DEF Ascending
<1>4. ASSUME ~postgres PROVE OneWriter'
  <2>1. OneWriter BY <1>4
  <2>2. ASSUME NEW w \in SqlWriters, tx'[w] # <<>>, NEW t \in Sql!Others(w)' PROVE t = <<>>
    <3>1. w \notin ended /\ tx[w] # <<>> /\ \A u \in Sql!Others(w) : u = <<>> BY <2>1, <2>2 DEF OneWriter
    <3>2. CASE \E v \in SqlWriters \ {w} : t = tx'[v] BY <3>1, <3>2, Zenon DEF Sql!Others
    <3>3. CASE \E u \in left' : t = u.tx BY <3>1, <3>3, Zenon DEF Sql!Others
    <3> QED BY <2>2, <3>2, <3>3 DEF Sql!Others
  <2>3. Sql!OpenRows' \subseteq Sql!OpenRows
    <3> SUFFICES ASSUME NEW r \in Sql!OpenRows' PROVE r \in Sql!OpenRows OBVIOUS
    <3>1. PICK t \in {tx'[w] : w \in SqlWriters} \cup {u.tx : u \in left'} : r \in Sql!RowsOf(t) BY DEF Sql!OpenRows
    <3>2. CASE t = <<>> BY <3>1, <3>2 DEF Sql!RowsOf
    <3>3. CASE t # <<>>
      <4>1. t \in {tx[w] : w \in SqlWriters} \cup {u.tx : u \in left} BY <3>1, <3>3
      <4> QED BY <3>1, <4>1 DEF Sql!OpenRows
    <3> QED BY <3>2, <3>3
  <2>4. Sql!Latest' = Sql!Latest BY DEF Sql!Latest
  <2> QED BY <1>1, <2>1, <2>2, <2>3, <2>4 DEF OneWriter
<1>5. ASSUME postgres PROVE DrawnOnce'
  <2>1. DrawnOnce BY <1>5
  <2> QED BY <1>1, <2>1 DEF DrawnOnce
<1>6. ReaderInv' BY <1>1 DEF ReaderInv, Sql!Latest, Sql!reader
<1> QED BY <1>2, <1>3, <1>4, <1>5, <1>6 DEF HasLast, Sql!reader

\* An insert draws a version above the table's last one, above the cursor, and
\* with PostgreSQL above every version drawn before.
LEMMA InsertStep ==
  ASSUME BatchesOfEvents, SqlInv, NEW w \in SqlWriters, Sql!Insert(w)
  PROVE  SqlInv'
<1> USE DEF SqlInv
<1> DEFINE row == [version |-> Sql!NextVersion(w), id |-> Sql!Pending(w)]
           n == Len(tx[w])
<1>1. /\ tx' = [tx EXCEPT ![w] = Append(tx[w], row)]
      /\ serial' = IF postgres THEN serial + 1 ELSE serial
      /\ UNCHANGED <<rows, left, Sql!reader>>
  BY DEF Sql!Insert
<1>2. tx[w] \in Seq(OpenRow) /\ n \in Nat /\ serial \in Nat BY DEF SqlTypeInv
<1>3. Sql!Latest \in Nat /\ \A r \in rows : r.version <= Sql!Latest BY LastFacts DEF Sql!Latest, SqlTypeInv
<1>4. Sql!Latest' = Sql!Latest BY <1>1 DEF Sql!Latest
<1>5. row \in OpenRow
  <2>1. Sql!NextVersion(w) \in Nat \ {0} BY <1>2, <1>3 DEF Sql!NextVersion
  <2>2. Sql!Pending(w) \in SqlEvents
    <3>1. SqlBatch[w] \in Seq(SqlEvents) /\ n + 1 \in 1..Len(SqlBatch[w]) BY <1>2 DEF Sql!Insert, BatchesOfEvents
    <3> QED BY <3>1 DEF Sql!Pending
  <2> QED BY <2>1, <2>2 DEF OpenRow
<1>6. row.version = Sql!NextVersion(w) OBVIOUS
<1> HIDE DEF row
<1>7. /\ tx'[w] = Append(tx[w], row) /\ tx'[w] \in Seq(OpenRow)
      /\ DOMAIN tx'[w] = 1..(n + 1) /\ DOMAIN tx[w] = 1..n
      /\ \A i \in 1..n : tx'[w][i] = tx[w][i]
      /\ tx'[w][n + 1] = row
      /\ \A v \in SqlWriters \ {w} : tx'[v] = tx[v]
  <2>1. tx'[w] = Append(tx[w], row) /\ \A v \in SqlWriters \ {w} : tx'[v] = tx[v] BY <1>1 DEF SqlTypeInv
  <2> QED BY <2>1, <1>2, <1>5
<1>8. SqlTypeInv'
  <2>1. tx' \in [SqlWriters -> Seq(OpenRow)] BY <1>1, <1>7 DEF SqlTypeInv
  <2> QED BY <2>1, <1>1, <1>2 DEF SqlTypeInv, Sql!reader
<1>9. /\ row.version > Sql!Latest
      /\ \A i \in DOMAIN tx[w] : tx[w][i].version \in Nat /\ tx[w][i].version < row.version
  <2>1. \A i \in DOMAIN tx[w] : tx[w][i].version \in Nat BY <1>2, RowVersion
  <2>2. CASE postgres
    <3>1. DrawnOnce /\ row.version = serial + 1 BY <2>2, <1>6 DEF Sql!NextVersion
    <3>2. \A i \in DOMAIN tx[w] : tx[w][i].version < row.version BY <3>1, <2>1, <1>2 DEF DrawnOnce
    <3>3. Sql!Latest <= serial
      <4>1. CASE rows = {} BY <4>1, <1>2 DEF Sql!Latest, Sql!LastOf
      <4>2. CASE rows # {}
        <5>1. PICK r \in rows : r.version = Sql!Latest BY <4>2, LastFacts DEF Sql!Latest, SqlTypeInv
        <5> QED BY <5>1, <3>1 DEF DrawnOnce
      <4> QED BY <4>1, <4>2
    <3> QED BY <3>1, <3>2, <3>3, <2>1, <1>2, <1>3
  <2>3. CASE ~postgres
    <3>1. OneWriter /\ row.version = Sql!Latest + n + 1 BY <2>3, <1>6 DEF Sql!NextVersion
    <3>2. DOMAIN tx[w] = 1..n BY <1>2
    <3> QED BY <3>1, <3>2, <2>1, <1>2, <1>3 DEF OneWriter
  <2> QED BY <2>2, <2>3
<1>10. \A v \in SqlWriters : Ascending(tx'[v])
  <2>1. Ascending(tx'[w])
    <3> SUFFICES ASSUME NEW i \in 1..(n + 1), NEW j \in 1..(n + 1), i < j
                 PROVE  tx'[w][i].version < tx'[w][j].version
      BY <1>7 DEF Ascending
    <3>1. i \in 1..n BY <1>2
    <3>2. CASE j = n + 1 BY <3>1, <3>2, <1>7, <1>9
    <3>3. CASE j \in 1..n BY <3>1, <3>3, <1>7 DEF Ascending
    <3> QED BY <3>2, <3>3, <1>2
  <2> QED BY <2>1, <1>7, Zenon
<1>11. ASSUME ~postgres PROVE OneWriter'
  <2>1. OneWriter /\ row.version = Sql!Latest + n + 1 BY <1>11, <1>6 DEF Sql!NextVersion
  <2>2. \A t \in Sql!Others(w) : t = <<>> BY <1>11 DEF Sql!Insert, Sql!Blocked
  <2>3. Sql!Others(w)' = Sql!Others(w)
    <3>1. {tx'[v] : v \in SqlWriters \ {w}} = {tx[v] : v \in SqlWriters \ {w}} BY <1>7
    <3> QED BY <3>1, <1>1 DEF Sql!Others
  <2>4. \A v \in SqlWriters \ {w} : tx'[v] = <<>> BY <2>2, <1>7, Zenon DEF Sql!Others
  <2>5. \A i \in 1..(n + 1) : tx'[w][i].version = Sql!Latest + i
    <3>1. \A i \in 1..n : tx'[w][i].version = Sql!Latest + i BY <2>1, <1>7 DEF OneWriter
    <3>2. tx'[w][n + 1].version = Sql!Latest + (n + 1) BY <2>1, <1>2, <1>3, <1>7
    <3> QED BY <3>1, <3>2, <1>2
  <2>6. \A v \in SqlWriters : \A i \in DOMAIN tx'[v] : tx'[v][i].version = Sql!Latest' + i
    BY <2>4, <2>5, <1>4, <1>7
  <2>7. ASSUME NEW r \in Sql!OpenRows' PROVE r.version > Sql!Latest'
    <3>1. PICK t \in {tx'[v] : v \in SqlWriters} \cup {u.tx : u \in left'} : r \in Sql!RowsOf(t) BY <2>7 DEF Sql!OpenRows
    <3>2. PICK i \in DOMAIN t : r = t[i] BY <3>1 DEF Sql!RowsOf
    <3>3. CASE t = tx'[w]
      BY <3>2, <3>3, <2>5, <1>2, <1>3, <1>4, <1>7
    <3>4. CASE t # tx'[w]
      <4>1. t \in Sql!Others(w) BY <3>1, <3>4, <1>1, <1>7 DEF Sql!Others
      <4> QED BY <4>1, <3>2, <2>2
    <3> QED BY <3>3, <3>4
  <2> QED BY <2>2, <2>3, <2>4, <2>6, <2>7 DEF OneWriter
<1>12. ASSUME postgres PROVE DrawnOnce'
  <2>1. DrawnOnce /\ row.version = serial + 1 /\ serial' = serial + 1 BY <1>1, <1>12, <1>6 DEF Sql!NextVersion
  <2>2. \A r \in rows : r.version \in Nat /\ r.version <= serial BY <2>1 DEF DrawnOnce, SqlTypeInv, OpenRow
  <2>3. \A v \in SqlWriters : \A i \in DOMAIN tx[v] : tx[v][i].version \in Nat /\ tx[v][i].version <= serial
    BY <2>1, RowVersion DEF DrawnOnce, SqlTypeInv
  <2>4. \A v \in SqlWriters : \A i \in DOMAIN tx'[v] :
          (v = w /\ i = n + 1 /\ tx'[v][i].version = serial + 1) \/ (i \in DOMAIN tx[v] /\ tx'[v][i] = tx[v][i])
    <3> SUFFICES ASSUME NEW v \in SqlWriters, NEW i \in DOMAIN tx'[v]
                 PROVE  \/ v = w /\ i = n + 1 /\ tx'[v][i].version = serial + 1
                        \/ i \in DOMAIN tx[v] /\ tx'[v][i] = tx[v][i]
      OBVIOUS
    <3>1. CASE v # w BY <3>1, <1>7
    <3>2. CASE v = w /\ i = n + 1 BY <3>2, <2>1, <1>7
    <3>3. CASE v = w /\ i # n + 1
      <4>1. i \in 1..n BY <3>3, <1>2, <1>7
      <4> QED BY <3>3, <4>1, <1>7
    <3> QED BY <3>1, <3>2, <3>3
  <2> QED BY <2>1, <2>2, <2>3, <2>4, <1>1, <1>2 DEF DrawnOnce
<1>13. ReaderInv'
  <2>1. row.version > sqlCursor BY <1>2, <1>3, <1>5, <1>9 DEF ReaderInv, SqlTypeInv, OpenRow
  <2>2. ~(row.version <= sqlCursor) BY <2>1, <1>5 DEF SqlTypeInv, OpenRow
  <2>3. \A v \in SqlWriters : \A i \in DOMAIN tx'[v] :
          tx'[v][i] = row \/ (i \in DOMAIN tx[v] /\ tx'[v][i] = tx[v][i])
    BY <1>2, <1>7
  <2> QED BY <2>2, <2>3, <1>1, <1>4 DEF ReaderInv, Sql!reader
<1> QED BY <1>1, <1>8, <1>10, <1>11, <1>12, <1>13 DEF HasLast, Sql!reader

\* A commit puts rows into the table that the reader has not gone past, or has
\* while they were open.
LEMMA CommitStep ==
  ASSUME SqlInv, NEW w \in SqlWriters, Sql!Commit(w)
  PROVE  SqlInv'
<1> USE DEF SqlInv
<1> DEFINE n == Len(tx[w])
<1>1. /\ rows' = rows \cup Sql!RowsOf(tx[w])
      /\ tx' = [tx EXCEPT ![w] = <<>>]
      /\ UNCHANGED <<serial, left, Sql!reader>>
  BY DEF Sql!Commit, Sql!End
<1>2. tx'[w] = <<>> /\ \A v \in SqlWriters \ {w} : tx'[v] = tx[v] BY <1>1 DEF SqlTypeInv
<1>3. tx[w] \in Seq(OpenRow) /\ n \in Nat /\ DOMAIN tx[w] = 1..n BY DEF SqlTypeInv
<1>4. ASSUME NEW r \in Sql!RowsOf(tx[w])
      PROVE  r \in OpenRow /\ \E i \in DOMAIN tx[w] : r = tx[w][i]
  <2>1. PICK i \in DOMAIN tx[w] : r = tx[w][i] BY <1>4 DEF Sql!RowsOf
  <2> QED BY <2>1, <1>3, RowVersion
<1>5. SqlTypeInv'
  <2>1. tx' \in [SqlWriters -> Seq(OpenRow)] BY <1>1 DEF SqlTypeInv
  <2> QED BY <2>1, <1>1, <1>4 DEF SqlTypeInv, Sql!reader
<1>6. \A r \in rows : r.version \in Nat BY DEF SqlTypeInv, OpenRow
<1>7. HasLast(rows')
  <2>1. CASE n = 0
    <3>1. Sql!RowsOf(tx[w]) = {} BY <2>1, <1>3 DEF Sql!RowsOf
    <3> QED BY <3>1, <1>1 DEF HasLast
  <2>2. CASE n # 0
    <3> DEFINE last == tx[w][n]
    <3>1. n \in DOMAIN tx[w] /\ last \in Sql!RowsOf(tx[w]) BY <2>2, <1>3 DEF Sql!RowsOf
    <3>2. last.version \in Nat BY <3>1, <1>3, RowVersion
    <3>3. ASSUME NEW r \in Sql!RowsOf(tx[w]) PROVE r.version <= last.version
      <4>1. PICK i \in DOMAIN tx[w] : r = tx[w][i] BY <1>4, <3>3
      <4>2. CASE i = n BY <4>1, <4>2, <3>2
      <4>3. CASE i # n
        <5>1. i < n BY <4>3, <1>3
        <5>2. r.version < last.version BY <4>1, <5>1, <3>1 DEF Ascending
        <5>3. r.version \in Nat BY <4>1, <1>3, RowVersion
        <5> QED BY <5>2, <5>3, <3>2
      <4> QED BY <4>2, <4>3
    <3> HIDE DEF last
    <3>4. CASE rows = {} BY <3>1, <3>3, <3>4, <1>1 DEF HasLast
    <3>5. CASE rows # {}
      <4>1. PICK top \in rows : \A r \in rows : r.version <= top.version BY <3>5 DEF HasLast
      <4>2. CASE top.version <= last.version
        <5>1. \A r \in rows : r.version <= last.version BY <4>1, <4>2, <3>2, <1>6
        <5> QED BY <5>1, <3>1, <3>3, <1>1 DEF HasLast
      <4>3. CASE ~(top.version <= last.version)
        <5>1. \A r \in Sql!RowsOf(tx[w]) : r.version \in Nat BY <1>4 DEF OpenRow
        <5>2. \A r \in Sql!RowsOf(tx[w]) : r.version <= top.version BY <4>3, <5>1, <3>2, <3>3, <1>6
        <5> QED BY <4>1, <5>2, <1>1 DEF HasLast
      <4> QED BY <4>2, <4>3
    <3> QED BY <3>4, <3>5
  <2> QED BY <2>1, <2>2
<1>8. /\ Sql!Latest \in Nat /\ Sql!Latest' \in Nat /\ Sql!Latest <= Sql!Latest'
  <2>1. Sql!Latest \in Nat /\ (rows = {} => Sql!Latest = 0) /\ (rows # {} => \E r \in rows : r.version = Sql!Latest)
    BY LastFacts DEF Sql!Latest, SqlTypeInv
  <2>2. Sql!Latest' \in Nat /\ \A r \in rows' : r.version <= Sql!Latest'
    <3>1. rows' \in SUBSET OpenRow BY <1>5 DEF SqlTypeInv
    <3> QED BY <3>1, <1>7, LastFacts DEF Sql!Latest
  <2>3. CASE rows = {} BY <2>1, <2>2, <2>3
  <2>4. CASE rows # {}
    <3>1. PICK r \in rows : r.version = Sql!Latest BY <2>1, <2>4
    <3>2. r \in rows' BY <1>1
    <3> QED BY <3>1, <3>2, <2>1, <2>2
  <2> QED BY <2>1, <2>2, <2>3, <2>4
<1>9. \A v \in SqlWriters : Ascending(tx'[v]) BY <1>2 DEF Ascending
<1>10. ASSUME ~postgres PROVE OneWriter'
  <2>1. OneWriter BY <1>10
  <2>2. CASE tx[w] = <<>>
    <3>1. \A v \in SqlWriters : tx'[v] = tx[v] BY <2>2, <1>2
    <3>2. rows' = rows BY <2>2, <1>1 DEF Sql!RowsOf
    <3>3. tx' = tx BY <3>1, <1>1 DEF SqlTypeInv
    <3>4. Sql!Latest' = Sql!Latest BY <3>2 DEF Sql!Latest
    <3>5. Sql!OpenRows' = Sql!OpenRows BY <3>3, <1>1 DEF Sql!OpenRows
    <3>6. \A v \in SqlWriters : Sql!Others(v)' = Sql!Others(v) BY <3>3, <1>1 DEF Sql!Others
    <3> QED BY <2>1, <3>3, <3>4, <3>5, <3>6 DEF OneWriter
  <2>3. CASE tx[w] # <<>>
    <3>1. \A t \in Sql!Others(w) : t = <<>> BY <2>1, <2>3 DEF OneWriter
    <3>2. \A v \in SqlWriters : tx'[v] = <<>> BY <3>1, <1>2 DEF Sql!Others
    <3>3. \A u \in left' : u.tx = <<>> BY <3>1, <1>1 DEF Sql!Others
    <3>4. Sql!OpenRows' = {} BY <3>2, <3>3 DEF Sql!OpenRows, Sql!RowsOf
    <3> QED BY <3>2, <3>4 DEF OneWriter
  <2> QED BY <2>2, <2>3
<1>11. ASSUME postgres PROVE DrawnOnce'
  <2>1. DrawnOnce BY <1>11
  <2>2. \A r \in rows' : r.version <= serial BY <2>1, <1>1, <1>4 DEF DrawnOnce
  <2>3. ASSUME NEW v \in SqlWriters, NEW i \in DOMAIN tx'[v]
        PROVE  /\ v # w /\ tx'[v] = tx[v]
               /\ \A r \in rows' : r.version # tx'[v][i].version
    <3>1. v # w /\ tx'[v] = tx[v] BY <2>3, <1>2
    <3>2. \A r \in rows : r.version # tx[v][i].version BY <2>1, <2>3, <3>1 DEF DrawnOnce
    <3>3. \A r \in Sql!RowsOf(tx[w]) : r.version # tx[v][i].version BY <2>1, <2>3, <3>1, <1>4 DEF DrawnOnce
    <3> QED BY <3>1, <3>2, <3>3, <1>1
  <2> QED BY <2>1, <2>2, <2>3, <1>1 DEF DrawnOnce
<1>12. ReaderInv'
  <2>1. sqlCursor \in Nat /\ sqlCursor' = sqlCursor /\ seen' = seen /\ passed' = passed /\ postgres' = postgres
    BY <1>1 DEF SqlTypeInv, Sql!reader
  <2>2. sqlCursor' <= Sql!Latest' BY <2>1, <1>8 DEF ReaderInv
  <2>3. ASSUME NEW r \in rows', r.version <= sqlCursor PROVE r.id \in seen \cup passed
    <3>1. CASE r \in rows BY <2>3, <3>1 DEF ReaderInv
    <3>2. CASE r \in Sql!RowsOf(tx[w]) BY <2>3, <3>2, <1>4 DEF ReaderInv
    <3> QED BY <3>1, <3>2, <1>1
  <2>4. ASSUME NEW v \in SqlWriters, NEW i \in DOMAIN tx'[v], tx'[v][i].version <= sqlCursor
        PROVE  tx'[v][i].id \in passed
    <3>1. tx'[v] = tx[v] BY <2>4, <1>2
    <3> QED BY <2>4, <3>1 DEF ReaderInv
  <2> QED BY <2>1, <2>2, <2>3, <2>4 DEF ReaderInv
<1> QED BY <1>1, <1>5, <1>7, <1>9, <1>10, <1>11, <1>12 DEF Sql!reader

\* Load gives the reader the rows after its version; what is open below the last
\* row has been passed, and with SQLite nothing is.
LEMMA LoadStep ==
  ASSUME SqlInv, Sql!Load
  PROVE  SqlInv'
<1> USE DEF SqlInv
<1>1. /\ seen' = seen \cup {r.id : r \in {x \in rows : x.version > sqlCursor}}
      /\ sqlCursor' = Sql!Latest
      /\ passed' = passed \cup {r.id : r \in {x \in Sql!OpenRows : x.version < Sql!Latest}}
      /\ UNCHANGED <<postgres, rows, serial, tx, left>>
  BY DEF Sql!Load, Sql!Pass
<1>2. Sql!Latest \in Nat /\ (rows = {} => Sql!Latest = 0) /\ (rows # {} => \E r \in rows : r.version = Sql!Latest)
  BY LastFacts DEF Sql!Latest, SqlTypeInv
<1>3. SqlTypeInv' BY <1>1, <1>2 DEF SqlTypeInv
<1>4. Sql!Latest' = Sql!Latest /\ Sql!Latest <= Sql!Latest BY <1>1, <1>2 DEF Sql!Latest
<1>5. ~postgres => OneWriter'
  <2>1. Sql!OpenRows' = Sql!OpenRows /\ \A w : Sql!Others(w)' = Sql!Others(w)
    BY <1>1 DEF Sql!OpenRows, Sql!Others
  <2>2. OneWriter => OneWriter'
    BY <1>1, <1>4, <2>1 DEF OneWriter
  <2> QED BY <2>2
<1>6. postgres => DrawnOnce'
  <2>1. DrawnOnce => DrawnOnce'
    BY <1>1 DEF DrawnOnce
  <2> QED BY <2>1
<1>7. ASSUME NEW r \in rows PROVE r.id \in seen' \cup passed'
  <2>1. r.version \in Nat /\ sqlCursor \in Nat BY <1>7 DEF SqlTypeInv, OpenRow
  <2>2. CASE r.version > sqlCursor BY <2>2, <1>1
  <2>3. CASE r.version <= sqlCursor BY <2>3, <1>1 DEF ReaderInv
  <2> QED BY <2>1, <2>2, <2>3
<1>8. ASSUME NEW w \in SqlWriters, NEW i \in DOMAIN tx[w], tx[w][i].version <= Sql!Latest
      PROVE  tx[w][i].id \in passed'
  <2>1. tx[w] \in Seq(OpenRow) BY DEF SqlTypeInv
  <2>2. tx[w][i].version \in Nat /\ tx[w][i].version > 0 BY <2>1, <1>8, RowVersion
  <2>3. tx[w][i] \in Sql!OpenRows
    <3>1. tx[w][i] \in Sql!RowsOf(tx[w]) BY <1>8 DEF Sql!RowsOf
    <3> QED BY <3>1 DEF Sql!OpenRows
  <2>4. CASE ~postgres
    <3>1. tx[w][i].version > Sql!Latest BY <2>3, <2>4 DEF OneWriter
    <3> QED BY <3>1, <2>2, <1>2, <1>8
  <2>5. CASE postgres
    <3>1. PICK r \in rows : r.version = Sql!Latest BY <2>2, <1>2, <1>8
    <3>2. tx[w][i].version # Sql!Latest BY <3>1, <2>5, <1>8 DEF DrawnOnce
    <3>3. tx[w][i].version < Sql!Latest BY <3>2, <2>2, <1>2, <1>8
    <3> QED BY <3>3, <2>3, <1>1
  <2> QED BY <2>4, <2>5 DEF SqlTypeInv
<1>9. ASSUME ~postgres PROVE passed' = {}
  <2>1. passed = {} /\ \A r \in Sql!OpenRows : r.version > Sql!Latest BY <1>9 DEF ReaderInv, OneWriter
  <2>2. ASSUME NEW r \in Sql!OpenRows PROVE r.version \in Nat
    <3>1. PICK t \in {tx[w] : w \in SqlWriters} \cup {u.tx : u \in left} : r \in Sql!RowsOf(t) BY <2>2 DEF Sql!OpenRows
    <3>2. t \in Seq(OpenRow) BY <3>1 DEF SqlTypeInv
    <3>3. PICK i \in DOMAIN t : r = t[i] BY <3>1 DEF Sql!RowsOf
    <3> QED BY <3>2, <3>3, RowVersion
  <2>3. {x \in Sql!OpenRows : x.version < Sql!Latest} = {} BY <2>1, <2>2, <1>2
  <2> QED BY <2>1, <2>3, <1>1
<1>10. ReaderInv' BY <1>1, <1>4, <1>7, <1>8, <1>9, Zenon DEF ReaderInv
<1> QED BY <1>1, <1>3, <1>5, <1>6, <1>10 DEF HasLast, Ascending

\* Every step preserves the invariant.
LEMMA NextSql == BatchesOfEvents /\ SqlInv /\ [Sql!Next]_(Sql!vars) => SqlInv'
<1> SUFFICES ASSUME BatchesOfEvents, SqlInv, [Sql!Next]_(Sql!vars) PROVE SqlInv' OBVIOUS
<1>1. tx \in [SqlWriters -> Seq(OpenRow)] BY DEF SqlInv, SqlTypeInv
<1>2. ASSUME UNCHANGED <<rows, serial, tx, Sql!reader>>, left' \subseteq left PROVE SqlInv'
  <2>1. tx' = [w \in SqlWriters |-> IF w \in {} THEN <<>> ELSE tx[w]] BY <1>1, <1>2
  <2> QED BY <1>2, <2>1, EndStep
<1>3. ASSUME NEW w \in SqlWriters, Sql!End(w), UNCHANGED <<rows, serial, Sql!reader>>,
             \A t \in left' : t \in left \/ t.tx = tx[w]
      PROVE  SqlInv'
  <2>1. tx' = [v \in SqlWriters |-> IF v \in {w} THEN <<>> ELSE tx[v]] BY <1>1, <1>3, Zenon DEF Sql!End
  <2>2. {w} \in SUBSET SqlWriters /\ \A t \in left' : t \in left \/ \E v \in {w} : t.tx = tx[v] BY <1>3
  <2> QED BY <1>3, <2>1, <2>2, EndStep, Zenon
<1>4. CASE UNCHANGED Sql!vars BY <1>2, <1>4 DEF Sql!vars, Sql!reader
<1>5. CASE Sql!Close BY <1>2, <1>5 DEF Sql!Close
<1>6. CASE Sql!Load BY <1>6, LoadStep
<1>7. ASSUME NEW t \in left, Sql!ContextDone(t) PROVE SqlInv'
  BY <1>2, <1>7 DEF Sql!ContextDone
<1>8. ASSUME NEW w \in SqlWriters, Sql!Begin(w) \/ Sql!Call(w) PROVE SqlInv'
  <2>1. CASE Sql!Begin(w) BY <1>2, <2>1 DEF Sql!Begin
  <2>2. CASE Sql!Insert(w) BY <2>2, InsertStep
  <2>3. CASE Sql!StoreFails(w) BY <1>3, <2>3 DEF Sql!StoreFails
  <2>4. CASE Sql!StoreBatchFails(w) BY <1>3, <2>4 DEF Sql!StoreBatchFails
  <2>5. CASE Sql!Commit(w) BY <2>5, CommitStep
  <2>6. CASE Sql!CommitFails(w) BY <1>3, <2>6 DEF Sql!CommitFails
  <2> QED BY <1>8, <2>1, <2>2, <2>3, <2>4, <2>5, <2>6 DEF Sql!Call
<1> QED BY <1>4, <1>5, <1>6, <1>7, <1>8 DEF Sql!Next

\* A reader that goes on from the version of the last row it was given (Load)
\* has been given every event up to there, except with PostgreSQL what commits
\* below a version that was already visible: for any number of writers, calls
\* and connections, any batches, and transactions that StoreBatch leaves open.
THEOREM Reads == BatchesOfEvents => (Sql!Spec => []ReaderMissesNothing)
<1> SUFFICES ASSUME BatchesOfEvents PROVE Sql!Spec => []ReaderMissesNothing OBVIOUS
<1>1. SqlInv /\ [Sql!Next]_(Sql!vars) => SqlInv' BY NextSql
<1>2. SqlInv => ReaderMissesNothing BY DEF SqlInv, ReaderInv, ReaderMissesNothing, Sql!ReaderMissesNothing
<1> QED BY <1>1, <1>2, InitSql, PTL DEF Sql!Spec
--------------------------------------------------------------------------------
(* SQLite's table is a log.                                                     *)

\* The rows of S have the versions 1 to n, each once.
Numbers(S, n) ==
  /\ n \in Nat
  /\ \A r \in S : r.version \in 1..n
  /\ \A i \in 1..n : \E r \in S : r.version = i
  /\ \A r, s \in S : r.version = s.version => r = s

\* SQLite numbers the table without gaps, and a transaction holds the first
\* events of its batch.
LogInv ==
  ~postgres =>
    /\ \E n \in Nat : Numbers(rows, n)
    /\ \A w \in SqlWriters : \A i \in DOMAIN tx[w] :
         i \in DOMAIN SqlBatch[w] /\ tx[w][i].id = SqlBatch[w][i]

Table(S) == [v \in {r.version : r \in S} |-> (CHOOSE r \in S : r.version = v).id]

LEMMA LogIs == Sql!Log = Table(rows) /\ Sql!Log' = Table(rows')
BY DEF Sql!Log, Table

\* So Load gives the events in the order of their versions.
LEMMA TableIs ==
  ASSUME NEW S, NEW n \in Nat, Numbers(S, n)
  PROVE  /\ DOMAIN Table(S) = 1..n
         /\ Table(S) = [i \in 1..n |-> Table(S)[i]]
         /\ \A r \in S : r.version \in 1..n /\ Table(S)[r.version] = r.id
<1> DEFINE vs == {r.version : r \in S}
           Of(v) == CHOOSE r \in S : r.version = v
<1>1. vs = 1..n
  BY DEF Numbers
<1>2. \A r \in S : Of(r.version) = r
  BY DEF Numbers
<1>3. \A r \in S : r.version \in vs
  OBVIOUS
<1>4. Table(S) = [v \in vs |-> Of(v).id]
  BY DEF Table
<1> HIDE DEF vs, Of
<1> QED
  BY <1>1, <1>2, <1>3, <1>4

\* The last version is their number.
LEMMA LatestIs ==
  ASSUME SqlInv, NEW n \in Nat, Numbers(rows, n)
  PROVE  Sql!Latest = n
<1>1. /\ Sql!Latest \in Nat
      /\ \A r \in rows : r.version <= Sql!Latest
      /\ rows = {} => Sql!Latest = 0
      /\ rows # {} => \E r \in rows : r.version = Sql!Latest
  BY LastFacts DEF Sql!Latest, SqlInv, SqlTypeInv
<1>2. CASE n = 0
  BY <1>1, <1>2 DEF Numbers
<1>3. CASE n # 0
  <2>1. n \in 1..n
    BY <1>3
  <2>2. PICK r \in rows : r.version = n
    BY <2>1 DEF Numbers
  <2>3. PICK t \in rows : t.version = Sql!Latest
    BY <2>2, <1>1
  <2>4. t.version \in 1..n /\ r.version <= Sql!Latest
    BY <1>1 DEF Numbers
  <2> QED
    BY <1>1, <2>2, <2>3, <2>4
<1> QED
  BY <1>2, <1>3

\* A commit appends the batch to the log.
LEMMA CommitAppends ==
  ASSUME BatchesOfEvents, SqlInv, LogInv, ~postgres, NEW w \in SqlWriters, Sql!Commit(w)
  PROVE  LogInv' /\ Sql!Log' = Sql!Log \o SqlBatch[w]
<1> DEFINE m == Len(SqlBatch[w])
<1>1. PICK n \in Nat : Numbers(rows, n)
  BY DEF LogInv
<1>2. /\ Len(tx[w]) = m /\ rows' = rows \cup Sql!RowsOf(tx[w])
      /\ tx' = [tx EXCEPT ![w] = <<>>] /\ postgres' = postgres
  BY DEF Sql!Commit, Sql!End, Sql!reader
<1>3. tx[w] \in Seq(OpenRow) /\ SqlBatch[w] \in Seq(SqlEvents) /\ m \in Nat /\ rows \subseteq OpenRow
      /\ DOMAIN tx = SqlWriters
  BY DEF SqlInv, SqlTypeInv, BatchesOfEvents
<1>4. Sql!Latest = n
  BY <1>1, LatestIs
<1>5. ASSUME NEW i \in 1..m
      PROVE  tx[w][i] \in rows' /\ tx[w][i].version = n + i /\ tx[w][i].id = SqlBatch[w][i]
  <2>1. i \in DOMAIN tx[w]
    BY <1>2, <1>3
  <2>2. tx[w][i].version = n + i
    BY <2>1, <1>4 DEF SqlInv, OneWriter
  <2>3. tx[w][i].id = SqlBatch[w][i]
    BY <2>1 DEF LogInv
  <2>4. tx[w][i] \in Sql!RowsOf(tx[w])
    BY <2>1 DEF Sql!RowsOf
  <2> QED
    BY <2>2, <2>3, <2>4, <1>2
<1>6. ASSUME NEW r \in rows'
      PROVE  r \in rows \/ \E i \in 1..m : r = tx[w][i]
  <2>1. CASE r \in Sql!RowsOf(tx[w])
    <3>1. PICK i \in DOMAIN tx[w] : r = tx[w][i]
      BY <2>1 DEF Sql!RowsOf
    <3> QED
      BY <3>1, <1>2, <1>3
  <2> QED
    BY <2>1, <1>2
<1>7. \A r \in rows : r \in rows' /\ r.version \in 1..n
  BY <1>1, <1>2 DEF Numbers
<1>8. Numbers(rows', n + m)
  <2>1. n + m \in Nat
    BY <1>3
  <2>2. ASSUME NEW r \in rows' PROVE r.version \in 1..(n + m)
    <3>1. CASE r \in rows
      BY <3>1, <1>3, <1>7
    <3>2. ASSUME NEW i \in 1..m, r = tx[w][i] PROVE r.version \in 1..(n + m)
      BY <3>2, <1>3, <1>5
    <3> QED
      BY <3>1, <3>2, <1>6
  <2>3. ASSUME NEW i \in 1..(n + m) PROVE \E r \in rows' : r.version = i
    <3>1. CASE i \in 1..n
      BY <3>1, <1>1, <1>7 DEF Numbers
    <3>2. CASE i \notin 1..n
      <4>1. i - n \in 1..m /\ n + (i - n) = i
        BY <3>2, <1>3
      <4> QED
        BY <4>1, <1>5, Zenon
    <3> QED
      BY <3>1, <3>2
  <2>4. ASSUME NEW r \in rows', NEW s \in rows', r.version = s.version PROVE r = s
    <3>1. CASE r \in rows /\ s \in rows
      BY <2>4, <3>1, <1>1 DEF Numbers
    <3>2. ASSUME NEW i \in 1..m, NEW t \in rows, t.version = tx[w][i].version PROVE FALSE
      BY <3>2, <1>3, <1>5, <1>7
    <3>3. ASSUME NEW i \in 1..m, NEW j \in 1..m, r = tx[w][i], s = tx[w][j] PROVE r = s
      <4>1. n + i = n + j
        BY <2>4, <3>3, <1>5
      <4>2. i = j
        BY <4>1
      <4> QED
        BY <4>2, <3>3
    <3> QED
      BY <2>4, <3>1, <3>2, <3>3, <1>6
  <2> QED
    BY <2>1, <2>2, <2>3, <2>4 DEF Numbers
<1>9. LogInv'
  <2>1. \A v \in SqlWriters : \A i \in DOMAIN tx'[v] : i \in DOMAIN tx[v] /\ tx'[v][i] = tx[v][i]
    BY <1>2, <1>3
  <2>2. \A v \in SqlWriters : \A i \in DOMAIN tx'[v] : i \in DOMAIN SqlBatch[v] /\ tx'[v][i].id = SqlBatch[v][i]
    BY <2>1 DEF LogInv
  <2> QED
    BY <2>2, <1>3, <1>8 DEF LogInv
<1>10. /\ DOMAIN Sql!Log = 1..n
       /\ Sql!Log = [i \in 1..n |-> Sql!Log[i]]
       /\ \A r \in rows : Sql!Log[r.version] = r.id
  BY <1>1, LogIs, TableIs
<1>11. /\ DOMAIN Sql!Log' = 1..(n + m)
       /\ Sql!Log' = [i \in 1..(n + m) |-> Sql!Log'[i]]
       /\ \A r \in rows' : Sql!Log'[r.version] = r.id
  BY <1>3, <1>8, LogIs, TableIs
<1>12. ASSUME NEW i \in 1..n PROVE Sql!Log[i] \in SqlEvents /\ Sql!Log'[i] = Sql!Log[i]
  <2>1. PICK r \in rows : r.version = i
    BY <1>1 DEF Numbers
  <2>2. r.id \in SqlEvents
    BY <1>3 DEF OpenRow
  <2> QED
    BY <2>1, <2>2, <1>7, <1>10, <1>11
<1>13. Sql!Log \in Seq(SqlEvents) /\ Len(Sql!Log) = n
  <2>2. Sql!Log \in [1..n -> SqlEvents]
    BY <1>10, <1>12
  <2> QED
    BY <2>2
<1>14. Sql!Log' = Sql!Log \o SqlBatch[w]
  <2> DEFINE both == Sql!Log \o SqlBatch[w]
  <2>1. /\ both \in Seq(SqlEvents) /\ Len(both) = n + m
        /\ \A i \in 1..(n + m) : both[i] = IF i <= n THEN Sql!Log[i] ELSE SqlBatch[w][i - n]
    <3>1. ASSUME NEW s \in Seq(SqlEvents), NEW t \in Seq(SqlEvents)
          PROVE  /\ s \o t \in Seq(SqlEvents) /\ Len(s \o t) = Len(s) + Len(t)
                 /\ \A i \in 1..(Len(s) + Len(t)) :
                      (s \o t)[i] = IF i <= Len(s) THEN s[i] ELSE t[i - Len(s)]
      OBVIOUS
    <3> QED
      BY <3>1, <1>3, <1>13, Zenon
  <2>2. both = [i \in 1..(n + m) |-> both[i]]
    BY <2>1
  <2> HIDE DEF both
  <2>3. ASSUME NEW i \in 1..(n + m) PROVE Sql!Log'[i] = both[i]
    <3>1. CASE i <= n
      <4>1. i \in 1..n
        BY <3>1
      <4> QED
        BY <3>1, <4>1, <2>1, <1>12
    <3>2. CASE ~(i <= n)
      <4>1. i - n \in 1..m /\ n + (i - n) = i
        BY <3>2, <1>3
      <4>2. tx[w][i - n] \in rows' /\ tx[w][i - n].version = i /\ tx[w][i - n].id = SqlBatch[w][i - n]
        BY <4>1, <1>5
      <4>3. Sql!Log'[i] = SqlBatch[w][i - n]
        BY <4>2, <1>11
      <4> QED
        BY <3>2, <4>3, <2>1
    <3> QED
      BY <3>1, <3>2
  <2>4. Sql!Log' = both
    BY <2>2, <2>3, <1>11, Zenon
  <2> QED
    BY <2>4 DEF both
<1> QED
  BY <1>9, <1>14

\* What changes neither the table nor transactions but by ending them keeps it.
LEMMA LogCalm ==
  ASSUME LogInv, UNCHANGED <<rows, postgres>>,
         \A w \in SqlWriters : tx'[w] = tx[w] \/ tx'[w] = <<>>
  PROVE  LogInv' /\ Sql!Log' = Sql!Log
<1>1. Sql!Log' = Sql!Log
  BY DEF Sql!Log
<1>2. \A w \in SqlWriters : \A i \in DOMAIN tx'[w] : i \in DOMAIN tx[w] /\ tx'[w][i] = tx[w][i]
  OBVIOUS
<1> QED
  BY <1>1, <1>2 DEF LogInv

\* An insert takes the next event of the batch.
LEMMA InsertLog ==
  ASSUME SqlInv, LogInv, BatchesOfEvents, NEW w \in SqlWriters, Sql!Insert(w)
  PROVE  LogInv' /\ Sql!Log' = Sql!Log
<1> DEFINE row == [version |-> Sql!NextVersion(w), id |-> Sql!Pending(w)]
           n == Len(tx[w])
<1>1. /\ tx' = [tx EXCEPT ![w] = Append(tx[w], row)]
      /\ UNCHANGED <<rows, postgres>> /\ n < Len(SqlBatch[w])
  BY DEF Sql!Insert, Sql!reader
<1>2. row.id = SqlBatch[w][n + 1]
  BY DEF Sql!Pending
<1>3. tx[w] \in Seq(OpenRow) /\ SqlBatch[w] \in Seq(SqlEvents) /\ n \in Nat /\ DOMAIN tx = SqlWriters
  BY DEF SqlInv, SqlTypeInv, BatchesOfEvents
<1> HIDE DEF row
<1>4. Sql!Log' = Sql!Log
  BY <1>1 DEF Sql!Log
<1>5. ASSUME NEW v \in SqlWriters, NEW i \in DOMAIN tx'[v], ~postgres
      PROVE  i \in DOMAIN SqlBatch[v] /\ tx'[v][i].id = SqlBatch[v][i]
  <2>1. CASE v # w
    BY <2>1, <1>1, <1>3, <1>5 DEF LogInv
  <2>2. CASE v = w
    <3>1. tx'[v] = Append(tx[w], row)
      BY <2>2, <1>1, <1>3
    <3>2. i \in 1..(n + 1) /\ DOMAIN tx[w] = 1..n
      BY <3>1, <1>3, <1>5
    <3>3. CASE i = n + 1
      <4>1. tx'[v][i] = row /\ i \in 1..Len(SqlBatch[w])
        BY <3>1, <3>3, <1>1, <1>3
      <4> QED
        BY <4>1, <3>3, <2>2, <1>2, <1>3
    <3>4. CASE i # n + 1
      <4>1. i \in 1..n
        BY <3>2, <3>4, <1>3
      <4>2. tx'[v][i] = tx[w][i]
        BY <4>1, <3>1, <1>3
      <4> QED
        BY <4>1, <4>2, <3>2, <2>2, <1>5 DEF LogInv
    <3> QED
      BY <3>3, <3>4
  <2> QED
    BY <2>1, <2>2
<1> QED
  BY <1>1, <1>4, <1>5 DEF LogInv

\* An empty table is an empty log.
LEMMA LogInit == Sql!Init => LogInv /\ Sql!Log = <<>>
<1> SUFFICES ASSUME Sql!Init PROVE LogInv /\ Sql!Log = <<>>
  OBVIOUS
<1>1. rows = {} /\ \A w \in SqlWriters : tx[w] = <<>>
  BY DEF Sql!Init
<1>2. Numbers(rows, 0)
  BY <1>1 DEF Numbers
<1>3. Sql!Log = [i \in 1..0 |-> Sql!Log[i]]
  BY <1>2, LogIs, TableIs
<1>4. Sql!Log = <<>>
  BY <1>3
<1> QED
  BY <1>1, <1>2, <1>4 DEF LogInv

\* Every step leaves the log as it is or appends a batch.
LEMMA LogNext ==
  ASSUME BatchesOfEvents, SqlInv, LogInv, [Sql!Next]_(Sql!vars)
  PROVE  /\ LogInv' /\ postgres' = postgres
         /\ ~postgres => Sql!Log' = Sql!Log \/ \E w \in SqlWriters : Sql!Log' = Sql!Log \o SqlBatch[w]
<1>1. DOMAIN tx = SqlWriters
  BY DEF SqlInv, SqlTypeInv
<1>2. ASSUME NEW w \in SqlWriters, Sql!Commit(w), postgres PROVE LogInv' /\ postgres' = postgres
  BY <1>2 DEF Sql!Commit, Sql!reader, LogInv
<1>3. ASSUME NEW w \in SqlWriters, Sql!Commit(w), ~postgres
      PROVE  LogInv' /\ postgres' = postgres /\ Sql!Log' = Sql!Log \o SqlBatch[w]
  BY <1>3, CommitAppends DEF Sql!Commit, Sql!reader
<1>4. ASSUME NEW w \in SqlWriters, Sql!Insert(w) PROVE LogInv' /\ postgres' = postgres /\ Sql!Log' = Sql!Log
  BY <1>4, InsertLog, Zenon DEF Sql!Insert, Sql!reader
<1>5. ASSUME NEW w \in SqlWriters, Sql!End(w), UNCHANGED <<rows, postgres>> PROVE LogInv' /\ Sql!Log' = Sql!Log
  <2>1. \A v \in SqlWriters : tx'[v] = tx[v] \/ tx'[v] = <<>>
    BY <1>1, <1>5 DEF Sql!End
  <2> QED
    BY <2>1, <1>5, LogCalm
<1>6. ASSUME UNCHANGED <<rows, tx, postgres>> PROVE LogInv' /\ Sql!Log' = Sql!Log
  BY <1>6, LogCalm
<1>7. ASSUME NEW w \in SqlWriters, Sql!Begin(w) \/ Sql!Call(w), ~Sql!Commit(w)
      PROVE  LogInv' /\ postgres' = postgres /\ Sql!Log' = Sql!Log
  <2>1. CASE Sql!Begin(w)
    BY <2>1, <1>6 DEF Sql!Begin, Sql!reader
  <2>2. CASE Sql!StoreFails(w)
    BY <2>2, <1>5 DEF Sql!StoreFails, Sql!reader
  <2>3. CASE Sql!StoreBatchFails(w)
    BY <2>3, <1>5 DEF Sql!StoreBatchFails, Sql!reader
  <2>4. CASE Sql!CommitFails(w)
    BY <2>4, <1>5 DEF Sql!CommitFails, Sql!reader
  <2> QED
    BY <2>1, <2>2, <2>3, <2>4, <1>4, <1>7 DEF Sql!Call
<1>8. ASSUME \/ Sql!Close \/ Sql!Load \/ UNCHANGED Sql!vars \/ \E t \in left : Sql!ContextDone(t)
      PROVE  LogInv' /\ postgres' = postgres /\ Sql!Log' = Sql!Log
  BY <1>6, <1>8 DEF Sql!Close, Sql!Load, Sql!vars, Sql!ContextDone, Sql!reader
<1> QED
  BY <1>2, <1>3, <1>7, <1>8 DEF Sql!Next

\* SQLite's store implements the log: for a reader the table grows at its end,
\* by whole batches, whatever transactions fail, are rolled back or left open
\* by StoreBatch, for any number of writers, calls and connections.
THEOREM IsALog == BatchesOfEvents => (Sql!Spec => StoreIsALog)
<1> SUFFICES ASSUME BatchesOfEvents PROVE Sql!Spec => StoreIsALog
  OBVIOUS
<1> DEFINE log == IF postgres THEN <<>> ELSE Sql!Log
<1>1. Sql!Init => Sql!Abstract!Init
  BY LogInit DEF Sql!Abstract!Init
<1>2. SqlInv /\ [Sql!Next]_(Sql!vars) => SqlInv'
  BY NextSql
<1>3. SqlInv /\ LogInv /\ [Sql!Next]_(Sql!vars) => LogInv'
  BY LogNext
<1>4. SqlInv /\ LogInv /\ [Sql!Next]_(Sql!vars) => [Sql!Abstract!Next]_log
  <2> SUFFICES ASSUME SqlInv, LogInv, [Sql!Next]_(Sql!vars) PROVE [Sql!Abstract!Next]_log
    OBVIOUS
  <2>1. postgres' = postgres /\ (~postgres => Sql!Log' = Sql!Log \/ \E w \in SqlWriters : Sql!Log' = Sql!Log \o SqlBatch[w])
    BY LogNext
  <2>2. ASSUME NEW w \in SqlWriters, ~postgres, Sql!Log' = Sql!Log \o SqlBatch[w] PROVE Sql!Abstract!Next
    <3>1. SqlBatch[w] \in Sql!Calls
      BY DEF Sql!Calls
    <3> QED
      BY <2>1, <2>2, <3>1 DEF Sql!Abstract!Next, Sql!Abstract!StoreBatch
  <2>3. CASE ~postgres /\ Sql!Log' = Sql!Log
    BY <2>1, <2>3
  <2>4. CASE postgres
    BY <2>1, <2>4
  <2> QED
    BY <2>1, <2>2, <2>3, <2>4
<1> QED
  BY <1>1, <1>2, <1>3, <1>4, InitSql, LogInit, PTL DEF Sql!Spec, StoreIsALog, Sql!StoreIsALog, Sql!Abstract!Spec
==================================================================================
