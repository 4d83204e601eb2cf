--------------------------------- MODULE Stores ---------------------------------
(* The SQL stores (SqlStore), under names of their own beside the other stores.    *)
EXTENDS Naturals, Sequences, FiniteSets

CONSTANTS SqlWriters, SqlEvents, SqlBatch, Single, Background, MaxOpenConns, MaxSqlCalls

VARIABLES postgres, rows, serial, pc, tx, calls, left, sqlClosed, sqlCursor, seen, passed

sqlVars == <<postgres, rows, serial, pc, tx, calls, left, sqlClosed, sqlCursor, seen, passed>>

Sql == INSTANCE SqlStore WITH
         Writers <- SqlWriters, Events <- SqlEvents, Batch <- SqlBatch, MaxCalls <- MaxSqlCalls,
         closed <- sqlClosed, cursor <- sqlCursor

\* SqlStore: a reader has been given every event up to its version.
ReaderMissesNothing == Sql!ReaderMissesNothing
\* SqlStore: the table is an append-only log of batches.
StoreIsALog == Sql!StoreIsALog
\* SqlStore: connections come back to the pool.
ConnectionsComeBack == Sql!ConnectionsComeBack
==================================================================================
