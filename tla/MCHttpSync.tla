------------------------------ MODULE MCHttpSync ------------------------------
(* Instances of HttpSync.                                                  *)
EXTENDS HttpSync
CONSTANTS a, c, e1, e2

TwoEvents == [p \in Pushes |-> <<e1, e2>>]
================================================================================
