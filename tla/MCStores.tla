-------------------------------- MODULE MCStores --------------------------------
(* The stores (Stores) and what is put on top of them (StoreLayers). A behaviour *)
(* is one of any of them.                                                        *)
EXTENDS MemStore, Stores, StoreLayers

VARIABLE part  \* the one that runs

CONSTANTS a, b, t, u, x, y, w1, w2, w3, e1, e2, e3, e4

OnA == [aggregate |-> a, type |-> t, tenant |-> x]
AlsoA == [aggregate |-> a, type |-> u, tenant |-> y]
OnB == [aggregate |-> b, type |-> t, tenant |-> y]
SomeBatches == {<<OnA>>, <<OnB>>, <<OnA, OnB>>, <<OnB, AlsoA, OnA>>}

ThreeBatches == [w \in {w1, w2, w3} |-> CASE w = w1 -> <<e1, e2>>
                                          [] w = w2 -> <<e3>>
                                          [] w = w3 -> <<e4>>]
ThreeNodes == [r1 |-> "n1", r2 |-> "n2", r3 |-> "n3"]

StoresInit ==
  /\ part \in {"memory", "sql", "versioned", "listener"}
  /\ Init /\ Sql!Init /\ Versioned!Init /\ Listener!Init
  /\ part # "sql" => ~postgres

StoresNext ==
  /\ UNCHANGED part
  /\ \/ part = "memory" /\ Next /\ UNCHANGED <<sqlVars, versionedVars, listenerVars>>
     \/ part = "sql" /\ Sql!Next /\ UNCHANGED <<vars, versionedVars, listenerVars>>
     \/ part = "versioned" /\ Versioned!Next /\ UNCHANGED <<vars, sqlVars, listenerVars>>
     \/ part = "listener" /\ Listener!Next /\ UNCHANGED <<vars, sqlVars, versionedVars>>

storesVars == <<part, vars, sqlVars, versionedVars, listenerVars>>

\* Every call returns, and every context ends that is not the background's.
StoresSpec ==
  /\ StoresInit /\ [][StoresNext]_storesVars
  /\ \A w \in SqlWriters : WF_sqlVars(part = "sql" /\ Sql!Call(w))
  /\ WF_sqlVars(part = "sql" /\ \E tr \in left : Sql!ContextDone(tr))
================================================================================
