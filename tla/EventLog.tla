-------------------------------- MODULE EventLog --------------------------------
(* What an event store promises its readers (storage/README.md: "stores return *)
(* events in order and advance Version monotonically"): a log that only grows  *)
(* at its end, a whole batch at a time.                                        *)
EXTENDS Sequences

CONSTANT Batches  \* the sequences of events that callers store

VARIABLE log

Init == log = <<>>

StoreBatch(batch) == log' = log \o batch

Next == \E batch \in Batches : StoreBatch(batch)

Spec == Init /\ [][Next]_log
================================================================================
