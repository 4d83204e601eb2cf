------------------------------- MODULE StoreLayers -------------------------------
(* What is put on top of an event store, side by side: the decorator that stamps    *)
(* events with vector clocks (VersionedStore) and the notifications of PostgreSQL   *)
(* (PgListener).                                                                    *)
CONSTANTS
  Replicas, NodeID, Storing, MaxNodes, StampedAggregates, MaxStamps, MaxStamped, MaxReopens,
  PgAggregates, Handlers, MaxLoops, MaxPgCalls, MaxBreaks, MaxRefusals, MaxInserts, MaxErrors

VARIABLES
  clock, knows, stamps, stampedLog, pending, reopens,
  subscriptions, open, connected, resub, call, pgClosed, loops, notify, heard, spent

versionedVars == <<clock, knows, stamps, stampedLog, pending, reopens>>
listenerVars == <<subscriptions, open, connected, resub, call, pgClosed, loops, notify, heard, spent>>

Versioned == INSTANCE VersionedStore WITH
               Aggregates <- StampedAggregates, MaxEvents <- MaxStamped, log <- stampedLog

Listener == INSTANCE PgListener WITH
              Aggregates <- PgAggregates, MaxCalls <- MaxPgCalls, MaxEvents <- MaxInserts,
              closed <- pgClosed

\* VersionedStore: vector clocks tell causality.
ClocksTellCausality == Versioned!ClocksTellCausality
\* PgListener: a channel with handlers is listened for.
HandlersAreListenedFor == Listener!HandlersAreListenedFor
================================================================================
