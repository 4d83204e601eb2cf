---------------------------- MODULE MCSyncManager ----------------------------
(* Instances of SyncManager.                                               *)
EXTENDS SyncManager

CONSTANTS n1, n2, w1, w2, e1, e2, e3

\* One calling goroutine for each node.
OneWorkerEach == [w \in Workers |-> IF w = w1 THEN n1 ELSE n2]

\* One pushing node, pulling nodes.
OneWriter == [n \in Nodes |-> IF n = n1 THEN "push" ELSE "pull"]
WriterOrigin == [n \in Nodes |-> IF n = n1 THEN Events ELSE {}]

\* A node that pushes and pulls, or only pulls, beside one that pushes.
SecondPushes == [n \in Nodes |-> IF n = n1 THEN "both" ELSE "push"]
FirstPulls == [n \in Nodes |-> IF n = n1 THEN "pull" ELSE "push"]
OneEach == [n \in Nodes |-> IF n = n1 THEN {e1} ELSE {e2, e3} \cap Events]

\* All events have the same aggregate, or the last has one of its own.
SameKey == [e \in Events |-> "k"]
TwoKeys == [e \in Events |-> IF e = e3 THEN "other" ELSE "k"]
==============================================================================
