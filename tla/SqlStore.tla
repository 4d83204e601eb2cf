-------------------------------- MODULE SqlStore --------------------------------
(* The SQL event stores (storage/sqlite/store.go, storage/postgres/store.go):  *)
(* callers of Store and StoreBatch run a transaction each on a pool of         *)
(* connections, and a reader follows the table with Load. The databases are    *)
(* external: SQLite lets one transaction write at a time and its AUTOINCREMENT *)
(* is part of the transaction; PostgreSQL lets transactions overlap and draws  *)
(* the BIGSERIAL version when a row is inserted. In both the id is unique.     *)
EXTENDS Naturals, Sequences, FiniteSets

CONSTANTS
  Writers,       \* goroutines that call the store
  Events,        \* event IDs
  Batch,         \* Batch[w]: the events that w stores in one call
  Single,        \* writers that call Store; the others call StoreBatch
  Background,    \* writers whose context is never done
  MaxOpenConns,  \* the pool's size
  MaxCalls       \* bound: calls of each writer

VARIABLES
  postgres,  \* the database is PostgreSQL, not SQLite
  rows,    \* the committed rows: [version, id]
  serial,  \* the last version that the database has drawn
  pc,      \* where each writer is
  tx,      \* the rows of its open transaction
  calls,   \* calls begun
  left,    \* transactions that a call left open: [w, n, tx]
  closed,
  cursor, seen,  \* the reader's version and the events it was given
  passed  \* ghost: events the reader passed while their transaction was open

vars == <<postgres, rows, serial, pc, tx, calls, left, closed, cursor, seen, passed>>
reader == <<postgres, cursor, seen, passed>>

Versions == 0..(MaxCalls * Cardinality(Writers) * Cardinality(Events))
Row == [version: Versions, id: Events]

TypeOK ==
  /\ postgres \in BOOLEAN
  /\ rows \subseteq Row
  /\ serial \in Versions
  /\ pc \in [Writers -> {"idle", "tx"}]
  /\ \A w \in Writers : tx[w] \in Seq(Row)
  /\ calls \in [Writers -> 0..MaxCalls]
  /\ \A t \in left : t.w \in Writers /\ t.tx \in Seq(Row)
  /\ closed \in BOOLEAN
  /\ cursor \in Versions /\ seen \subseteq Events /\ passed \subseteq Events

Init ==
  /\ postgres \in BOOLEAN
  /\ rows = {} /\ serial = 0
  /\ pc = [w \in Writers |-> "idle"]
  /\ tx = [w \in Writers |-> <<>>]
  /\ calls = [w \in Writers |-> 0]
  /\ left = {} /\ closed = FALSE
  /\ cursor = 0 /\ seen = {} /\ passed = {}

RowsOf(s) == {s[i] : i \in DOMAIN s}
Ids(s) == {s[i].id : i \in DOMAIN s}
Stored == {r.id : r \in rows}
LastOf(S) == IF S = {} THEN 0 ELSE CHOOSE v \in {r.version : r \in S} : \A r \in S : r.version <= v
Latest == LastOf(rows)

\* Connections in use, by calls and by what they left behind
Conns == Cardinality({w \in Writers : pc[w] = "tx"}) + Cardinality(left)

\* Rows of the other open transactions
Others(w) == {tx[v] : v \in Writers \ {w}} \cup {t.tx : t \in left}

\* The database makes the insert of event e wait for another transaction.
Blocked(w, e) ==
  \E t \in Others(w) : IF postgres THEN e \in Ids(t) ELSE t # <<>>

\* The version that an insert of w draws
NextVersion(w) == IF postgres THEN serial + 1 ELSE Latest + Len(tx[w]) + 1

Pending(w) == Batch[w][Len(tx[w]) + 1]

End(w) == /\ pc' = [pc EXCEPT ![w] = "idle"]
          /\ tx' = [tx EXCEPT ![w] = <<>>]

\* BeginTx; the pool makes it wait for a connection.
Begin(w) ==
  /\ pc[w] = "idle" /\ calls[w] < MaxCalls
  /\ ~closed
  /\ Conns < MaxOpenConns
  /\ pc' = [pc EXCEPT ![w] = "tx"]
  /\ calls' = [calls EXCEPT ![w] = @ + 1]
  /\ UNCHANGED <<rows, serial, tx, left, closed, reader>>

\* Mutant of Insert: every insert commits on its own.
InsertAndCommit(w) ==
  /\ pc[w] = "tx" /\ Len(tx[w]) < Len(Batch[w])
  /\ Pending(w) \notin Stored \cup Ids(tx[w])
  /\ ~Blocked(w, Pending(w))
  /\ rows' = rows \cup {[version |-> NextVersion(w), id |-> Pending(w)]}
  /\ tx' = [tx EXCEPT ![w] = Append(@, [version |-> NextVersion(w), id |-> Pending(w)])]
  /\ serial' = IF postgres THEN serial + 1 ELSE serial
  /\ UNCHANGED <<pc, calls, left, closed, reader>>

Insert(w) ==
  /\ pc[w] = "tx" /\ Len(tx[w]) < Len(Batch[w])
  /\ Pending(w) \notin Stored \cup Ids(tx[w])
  /\ ~Blocked(w, Pending(w))
  /\ tx' = [tx EXCEPT ![w] = Append(@, [version |-> NextVersion(w), id |-> Pending(w)])]
  /\ serial' = IF postgres THEN serial + 1 ELSE serial
  /\ UNCHANGED <<rows, pc, calls, left, closed, reader>>

\* The data cannot be marshalled, the id is taken, the database gave up waiting
\* (busy timeout, deadlock), or the context is done.
InsertFails(w) == pc[w] = "tx" /\ Len(tx[w]) < Len(Batch[w])

\* Mutant of StoreFails: as in StoreBatch, an inner err hides the error.
StoreFailsOpen(w) ==
  /\ w \in Single
  /\ InsertFails(w)
  /\ left' = left \cup {[w |-> w, n |-> calls[w], tx |-> tx[w]]}
  /\ End(w)
  /\ UNCHANGED <<rows, serial, calls, closed, reader>>

\* Store, and StoreBatch when the statement cannot be prepared: the deferred
\* function sees the error and rolls back.
StoreFails(w) ==
  /\ w \in Single \/ tx[w] = <<>>
  /\ InsertFails(w)
  /\ End(w)
  /\ UNCHANGED <<rows, serial, calls, left, closed, reader>>

\* StoreBatch, once the statement is prepared: the error is the loop's own err, the
\* deferred function sees nil.
StoreBatchFails(w) ==
  /\ w \notin Single
  /\ InsertFails(w)
  /\ left' = left \cup {[w |-> w, n |-> calls[w], tx |-> tx[w]]}
  /\ End(w)
  /\ UNCHANGED <<rows, serial, calls, closed, reader>>

Commit(w) ==
  /\ pc[w] = "tx" /\ Len(tx[w]) = Len(Batch[w])
  /\ rows' = rows \cup RowsOf(tx[w])
  /\ End(w)
  /\ UNCHANGED <<serial, calls, left, closed, reader>>

\* The commit fails: nothing is stored and the connection goes back.
CommitFails(w) ==
  /\ pc[w] = "tx" /\ Len(tx[w]) = Len(Batch[w])
  /\ End(w)
  /\ UNCHANGED <<rows, serial, calls, left, closed, reader>>

\* database/sql rolls a transaction back when its context is done.
ContextDone(t) ==
  /\ t.w \notin Background
  /\ left' = left \ {t}
  /\ UNCHANGED <<rows, serial, pc, tx, calls, closed, reader>>

\* Close: calls that have begun are not stopped.
Close ==
  /\ ~closed /\ closed' = TRUE
  /\ UNCHANGED <<rows, serial, pc, tx, calls, left, reader>>

OpenRows == UNION {RowsOf(t) : t \in {tx[w] : w \in Writers} \cup {t.tx : t \in left}}
Pass(upTo) == passed' = passed \cup {r.id : r \in {x \in OpenRows : x.version < upTo}}

\* Mutant of Load: the reader goes on from the last version that was drawn.
LoadToSerial ==
  /\ ~closed /\ Conns < MaxOpenConns
  /\ seen' = seen \cup {r.id : r \in {x \in rows : x.version > cursor}}
  /\ cursor' = Latest + Cardinality(OpenRows)
  /\ Pass(Latest)
  /\ UNCHANGED <<postgres, rows, serial, pc, tx, calls, left, closed>>

\* A reader loads what is after its version and goes on from the last row.
Load ==
  /\ ~closed /\ Conns < MaxOpenConns
  /\ seen' = seen \cup {r.id : r \in {x \in rows : x.version > cursor}}
  /\ cursor' = Latest
  /\ Pass(Latest)
  /\ UNCHANGED <<postgres, rows, serial, pc, tx, calls, left, closed>>

Call(w) == Insert(w) \/ StoreFails(w) \/ StoreBatchFails(w) \/ Commit(w) \/ CommitFails(w)

Next ==
  \/ \E w \in Writers : Begin(w) \/ Call(w)
  \/ \E t \in left : ContextDone(t)
  \/ Close \/ Load

Spec == Init /\ [][Next]_vars

\* Every call returns and every context ends that is not the background's.
FairSpec == /\ Spec
            /\ \A w \in Writers : WF_vars(Call(w))
            /\ WF_vars(\E t \in left : ContextDone(t))

(****************************************************************************)
(* Properties.                                                               *)
(****************************************************************************)
\* The table as Load gives it (ORDER BY version ASC): a sequence of events, as
\* SQLite numbers the rows from 1 without gaps.
Log == [v \in {r.version : r \in rows} |-> (CHOOSE r \in rows : r.version = v).id]
Calls == {Batch[w] : w \in Writers}
Abstract == INSTANCE EventLog WITH
              Batches <- Calls, log <- IF postgres THEN <<>> ELSE Log

\* For a reader SQLite's store is a log that grows by whole batches at its end
\* (storage/README.md "Append-only mindset").
StoreIsALog == Abstract!Spec

\* A reader that goes on from the version of the last row it was given has been
\* given every event up to there (Load "retrieves all events strictly after"),
\* except what PostgreSQL commits below a version that is already visible.
ReaderMissesNothing ==
  /\ \A r \in rows : r.version <= cursor => r.id \in seen \cup passed
  /\ ~postgres => passed = {}

\* All connections come back to the pool, when StoreBatch is not called with the
\* background context.
ConnectionsComeBack == (Conns > 0) ~> (Conns = 0)
================================================================================
