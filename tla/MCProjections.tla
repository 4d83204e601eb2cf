---------------------------- MODULE MCProjections ----------------------------
(* An instance of Projections.                                             *)
EXTENDS Projections
CONSTANTS p1, p2

\* One runner goes further than two; two share one worker, one has two.
TwoOrOne == [n \in 1..2 |-> IF n = 1 THEN 2 ELSE 1]
==============================================================================
