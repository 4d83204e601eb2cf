-------------------------------- MODULE MemStore --------------------------------
(* The in-memory event store (storage/memstore/memstore.go): a slice of events *)
(* and, for every stream, the indices of its events. Store and StoreBatch add  *)
(* one event after the other under the write lock.                             *)
EXTENDS Naturals, Sequences

CONSTANTS
  Aggregates, Types, Tenants,
  Any,      \* a filter that is not given
  Batches,  \* the sequences of events that callers store
  MaxSeq    \* bound: events stored

Event == [aggregate: Aggregates, type: Types, tenant: Tenants]

ASSUME MemStoreAssumption ==
  /\ Any \notin Aggregates \cup Types \cup Tenants
  /\ Batches \subseteq Seq(Event) /\ <<>> \notin Batches
  /\ MaxSeq \in Nat

VARIABLES
  events,   \* the stored events, each with its version
  streams,  \* for every stream the indices of its events
  nextSeq,
  closed,
  todo,     \* what the holder of the write lock has still to store
  cursor,   \* the version up to which a reader has loaded
  ends      \* ghost: the versions at which a call of Store or StoreBatch ended

vars == <<events, streams, nextSeq, closed, todo, cursor, ends>>

Stored == [event: Event, version: Nat]

TypeOK ==
  /\ events \in Seq(Stored)
  /\ streams \in [Aggregates -> Seq(Nat)]
  /\ nextSeq \in Nat \ {0}
  /\ closed \in BOOLEAN
  /\ todo \in Seq(Event)
  /\ cursor \in Nat
  /\ ends \subseteq Nat

Init ==
  /\ events = <<>>
  /\ streams = [a \in Aggregates |-> <<>>]
  /\ nextSeq = 1
  /\ closed = FALSE
  /\ todo = <<>> /\ cursor = 0 /\ ends = {0}

\* Store (a batch of one) and StoreBatch take the lock.
StoreBatch(batch) ==
  /\ todo = <<>> /\ ~closed
  /\ nextSeq + Len(batch) <= MaxSeq + 1
  /\ todo' = batch
  /\ UNCHANGED <<events, streams, nextSeq, closed, cursor, ends>>

\* Mutant of StoreOne: only the first event of a stream is indexed.
StoreOneIndexFirst ==
  /\ todo # <<>>
  /\ events' = Append(events, [event |-> Head(todo), version |-> nextSeq])
  /\ streams' = [streams EXCEPT ![Head(todo).aggregate] =
                   IF @ = <<>> THEN <<Len(events) + 1>> ELSE @]
  /\ nextSeq' = nextSeq + 1
  /\ todo' = Tail(todo)
  /\ ends' = IF Tail(todo) = <<>> THEN ends \cup {nextSeq} ELSE ends
  /\ UNCHANGED <<closed, cursor>>

\* Add one event, its version and its index.
StoreOne ==
  /\ todo # <<>>
  /\ events' = Append(events, [event |-> Head(todo), version |-> nextSeq])
  /\ streams' = [streams EXCEPT ![Head(todo).aggregate] = Append(@, Len(events) + 1)]
  /\ nextSeq' = nextSeq + 1
  /\ todo' = Tail(todo)
  /\ ends' = IF Tail(todo) = <<>> THEN ends \cup {nextSeq} ELSE ends
  /\ UNCHANGED <<closed, cursor>>

\* Mutant of LatestVersion: without the read lock.
LatestVersionUnlocked ==
  /\ ~closed
  /\ cursor' = IF events = <<>> THEN 0 ELSE nextSeq - 1
  /\ UNCHANGED <<events, streams, nextSeq, closed, todo, ends>>

\* A reader has loaded everything and asks how far that is.
LatestVersion ==
  /\ todo = <<>> /\ ~closed
  /\ cursor' = IF events = <<>> THEN 0 ELSE nextSeq - 1
  /\ UNCHANGED <<events, streams, nextSeq, closed, todo, ends>>

Close ==
  /\ todo = <<>> /\ ~closed
  /\ closed' = TRUE
  /\ events' = <<>>
  /\ streams' = [a \in Aggregates |-> <<>>]
  /\ UNCHANGED <<nextSeq, todo, cursor, ends>>

Next == (\E batch \in Batches : StoreBatch(batch)) \/ StoreOne \/ LatestVersion \/ Close

Spec == Init /\ [][Next]_vars

(****************************************************************************)
(* The queries.                                                              *)
(****************************************************************************)
Filters == [type: Types \cup {Any}, aggregate: Aggregates \cup {Any},
            tenant: Tenants \cup {Any}]

MatchesFilters(e, f) ==
  \A key \in {"type", "aggregate", "tenant"} : f[key] \in {Any, e[key]}

Wanted(ev, since, f) == ev.version > since /\ MatchesFilters(ev.event, f)

\* Load scans the log; its answer is the events at these indices, in order.
Load(since, f) == {i \in DOMAIN events : Wanted(events[i], since, f)}

\* LoadByAggregate scans the index of the stream; its answer is the events that
\* these of its entries refer to, in order.
LoadByAggregate(a, since, f) ==
  {j \in DOMAIN streams[a] : Wanted(events[streams[a][j]], since, f)}

(****************************************************************************)
(* Properties.                                                               *)
(****************************************************************************)
\* LoadByAggregate returns what Load returns with a filter for the aggregate,
\* from any version and with any further filters: the same events of the log,
\* each once and in the order of the log.
LoadsAgree ==
  todo = <<>> =>
    \A a \in Aggregates, since \in 0..nextSeq, f \in Filters :
      f.aggregate = Any =>
        LET entries == LoadByAggregate(a, since, f)
        IN  /\ {streams[a][j] : j \in entries} = Load(since, [f EXCEPT !.aggregate = a])
            /\ \A j, k \in entries : j < k => streams[a][j] < streams[a][k]

\* The index of a stream lists exactly its events, in the order of the log
\* (MemStore.streams), at every moment.
StreamsIndexEvents ==
  \A a \in Aggregates :
    /\ \A j \in 1..Len(streams[a]) :
         /\ streams[a][j] \in 1..Len(events)
         /\ events[streams[a][j]].event.aggregate = a
    /\ \A j, k \in 1..Len(streams[a]) : j < k => streams[a][j] < streams[a][k]
    /\ \A i \in 1..Len(events) :
         events[i].event.aggregate = a => \E j \in 1..Len(streams[a]) : streams[a][j] = i

\* Until the store is closed, the event at index i has version i, so that what
\* a version means never depends on filters.
VersionsAreIndices ==
  /\ \A i \in 1..Len(events) : events[i].version = i
  /\ ~closed => nextSeq = Len(events) + 1

\* A reader never stops in the middle of a batch (StoreBatch "acquires the lock
\* once").
ReadsWholeBatches == cursor \in ends

\* The invariant that is inductive: the three above, and where batches end.
MemStoreInv ==
  /\ StreamsIndexEvents
  /\ VersionsAreIndices
  /\ ReadsWholeBatches
  /\ todo = <<>> /\ ~closed => nextSeq - 1 \in ends
  /\ closed => todo = <<>>
================================================================================
