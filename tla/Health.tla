-------------------------------- MODULE Health --------------------------------
(* The health checker (observability/health): probes of one process that run   *)
(* the registered checks under the registry's read lock, and the calls that    *)
(* change the registry under its write lock. A check is named by its kind,     *)
(* which is also its component; the checks of one kind differ in nothing, so   *)
(* the registry is a bag of them. What the checks look at (a database, an HTTP or   *)
(* TCP endpoint, a storage backend) breaks and recovers while probes run.      *)
EXTENDS Naturals, Sequences, Bags

CONSTANTS
  Probes,        \* goroutines that serve a probe
  Registries,    \* the registries to start from
  Requests,      \* probe -> the requests it serves
  Breakable,     \* what may break
  Missing,       \* dependencies that are nil when the checks are made
  Parts,         \* the checks a composite check combines
  Runners,       \* the projection runners of the projection system check that are not nil
  MinHealthy,    \* how many of them it wants
  Changes,       \* the calls of AddCheck and RemoveCheck that are made
  MaxCopies, MaxToggles, MaxSeconds, MaxRequests  \* bounds of the exploration

VARIABLES
  registry,  \* check type -> the bag of its checks
  writer,    \* the registry change that holds or waits for the write lock
  faults,    \* what is broken at the moment
  toggles,   \* how often something broke or recovered
  requests,  \* how many requests were made
  now,       \* the clock, in seconds
  cell,      \* what storage holds under the test key; 0 when nothing
  probe      \* per probe, what it is doing

vars == <<registry, writer, faults, toggles, requests, now, cell, probe>>

Types == {"liveness", "readiness", "startup"}
Kinds == {"database", "http", "tcp", "system", "composite", "syncmanager", "storage", "transport",
          "conflict_resolver", "sync_operations", "network", "projection_runner",
          "projection_metrics", "projection_system", "custom"}
Faults == {"ping", "query", "pool", "request", "status", "dial", "put", "get", "delete",
           "lag", "panic"}
None == "none"

Unlocked == [op |-> None]

Resting == [pc |-> "idle", req |-> None, types |-> <<>>, todo |-> EmptyBag, step |-> None,
            data |-> 0, expired |-> FALSE, status |-> "up", total |-> 0, overall |-> "up",
            code |-> 0, always |-> {}, ever |-> {}, excuse |-> {}, asked |-> {}]

Init ==
  /\ registry \in Registries
  /\ writer = Unlocked
  /\ faults = {} /\ toggles = 0 /\ requests = 0 /\ now = 1 /\ cell = 0
  /\ probe = [p \in Probes |-> Resting]

-------------------------------------------------------------------------------
(* What each check answers. An expired context fails the calls made with it.   *)

DatabaseCheck(expired) ==
  IF expired \/ faults \cap {"ping", "query"} # {} THEN "down"
  ELSE IF "pool" \in faults THEN "degraded" ELSE "up"

HTTPCheck(expired) == IF expired \/ faults \cap {"request", "status"} # {} THEN "down" ELSE "up"

TCPCheck(expired) == IF expired \/ "dial" \in faults THEN "down" ELSE "up"

\* The statistics are never filled in, so the threshold is never exceeded.
MemoryCheck == "up"

SyncManagerCheck == IF "manager" \in Missing THEN "down" ELSE "up"

TransportCheck == IF "transport" \in Missing THEN "down" ELSE "up"

ConflictResolverCheck == "up"

SyncOperationCheck(expired) ==
  IF "manager" \in Missing THEN "down" ELSE IF expired THEN "degraded" ELSE "up"

\* Every peer is taken to be reachable.
NetworkConnectivityCheck == "up"

ProjectionRunnerHealthCheck(expired) ==
  IF "runner" \in Missing THEN "down" ELSE IF expired THEN "degraded" ELSE "up"

ProjectionMetricsHealthCheck ==
  IF "metrics" \in Missing THEN "down" ELSE IF "lag" \in faults THEN "degraded" ELSE "up"

ProjectionSystemHealthCheck ==
  IF Runners >= MinHealthy THEN "up" ELSE IF Runners > 0 THEN "degraded" ELSE "down"

\* The check of a kind that answers in one call; a check of the application's
\* own may panic.
Answer(k, expired) ==
  CASE k = "database"            -> DatabaseCheck(expired)
    [] k = "http"                -> HTTPCheck(expired)
    [] k = "tcp"                 -> TCPCheck(expired)
    [] k = "system"              -> MemoryCheck
    [] k = "syncmanager"         -> SyncManagerCheck
    [] k = "transport"           -> TransportCheck
    [] k = "conflict_resolver"   -> ConflictResolverCheck
    [] k = "sync_operations"     -> SyncOperationCheck(expired)
    [] k = "network"             -> NetworkConnectivityCheck
    [] k = "projection_runner"   -> ProjectionRunnerHealthCheck(expired)
    [] k = "projection_metrics"  -> ProjectionMetricsHealthCheck
    [] k = "projection_system"   -> ProjectionSystemHealthCheck
    [] k = "custom"              -> IF "panic" \in faults THEN "panic" ELSE "up"

\* Mutant of Aggregate: a degraded check hides the one that was down.
AggregateLatest(status, r) == IF r \in {"down", "degraded", "unknown"} THEN r ELSE status

\* How the status of one more check enters the overall status.
Aggregate(status, r) ==
  IF r = "down" \/ (r \in {"degraded", "unknown"} /\ status = "up") THEN r ELSE status

\* The sub-checks run one after another with no recover: a panic is the composite's.
CompositeCheck(expired) ==
  LET answers == [i \in 1..Len(Parts) |-> Answer(Parts[i], expired)]
      upTo[i \in 0..Len(Parts)] ==
        IF i = 0 THEN "up" ELSE Aggregate(upTo[i - 1], answers[i])
  IN IF Parts = <<>> THEN "unknown"
     ELSE IF \E i \in DOMAIN answers : answers[i] = "panic" THEN "panic"
     ELSE upTo[Len(Parts)]

-------------------------------------------------------------------------------
(* The registry.                                                               *)

Readers == {p \in Probes : probe[p].pc = "run"}

\* AddCheck and RemoveCheck ask for the write lock; until they have it no
\* further probe gets the read lock.
Change(c) ==
  /\ writer = Unlocked
  /\ LET copies == CopiesIn(c.kind, registry[c.type])
     IN IF c.op = "add" THEN copies < MaxCopies ELSE copies > 0
  /\ writer' = c
  /\ UNCHANGED <<registry, faults, toggles, requests, now, cell, probe>>

AddCheck ==
  /\ writer.op = "add" /\ Readers = {}
  /\ registry' = [registry EXCEPT ![writer.type] = @ (+) SetToBag({writer.kind})]
  /\ writer' = Unlocked
  /\ UNCHANGED <<faults, toggles, requests, now, cell, probe>>

RemoveCheck ==
  /\ writer.op = "remove" /\ Readers = {}
  /\ registry' = [registry EXCEPT ![writer.type] = @ (-) SetToBag({writer.kind})]
  /\ writer' = Unlocked
  /\ UNCHANGED <<faults, toggles, requests, now, cell, probe>>

-------------------------------------------------------------------------------
(* A probe.                                                                    *)

\* A request for one component runs the first check of each type it has.
TypesOf(req) ==
  CASE req \in {"liveness", "middleware"} -> <<"liveness">>
    [] req = "readiness" -> <<"readiness">>
    [] req = "startup"   -> <<"startup">>
    [] req \in {"all"} \cup Kinds -> <<"liveness", "readiness", "startup">>

Request(p, req) ==
  /\ probe[p].pc \in {"idle", "done"} /\ requests < MaxRequests
  /\ requests' = requests + 1
  /\ probe' = [probe EXCEPT ![p] = [Resting EXCEPT !.pc = "lock", !.req = req,
                                      !.types = TypesOf(req), !.always = faults, !.ever = faults]]
  /\ UNCHANGED <<registry, writer, faults, toggles, now, cell>>

\* The checks of type t that a request runs.
Checks(req, t) ==
  IF req \notin Kinds THEN registry[t]
  ELSE SetToBag({req} \cap BagToSet(registry[t]))

\* The checks of a type begin. The probe's own deadline outlives that of runChecks.
Load(p, r, expired) ==
  LET todo == Checks(r.req, Head(r.types))
      some == BagToSet(todo)
  IN probe' = [probe EXCEPT ![p] = [r EXCEPT
       !.pc = "run", !.todo = todo, !.status = "up", !.total = 0, !.expired = expired,
       !.asked = @ \cup some, !.excuse = IF some = {} THEN @ \cup {"nothing"} ELSE @]]

\* A writer that waits for the lock goes before a new reader.
RunChecks(p) ==
  /\ probe[p].pc = "lock" /\ writer = Unlocked
  /\ \E expired \in {FALSE, probe[p].expired} : Load(p, probe[p], expired)
  /\ UNCHANGED <<registry, writer, faults, toggles, requests, now, cell>>

\* What runChecks does with the result of a check of kind k. A check that
\* panicked is counted, and its empty status is none of those switched on.
Count(p, k, r) ==
  probe' = [probe EXCEPT ![p].todo = @ (-) SetToBag({k}), ![p].step = None, ![p].total = @ + 1,
                         ![p].status = Aggregate(@, r)]

Pending(p) == BagToSet(probe[p].todo)

\* Components come in the order of Go's map iteration: any.
ExecuteCheck(p, k) ==
  /\ probe[p].pc = "run" /\ probe[p].step = None /\ k \in Pending(p) \ {"storage"}
  /\ Count(p, k, IF k = "composite" THEN CompositeCheck(probe[p].expired)
                                    ELSE Answer(k, probe[p].expired))
  /\ UNCHANGED <<registry, writer, faults, toggles, requests, now, cell>>

\* StorageCheck writes the second it runs in, reads it back and deletes it, all
\* under one key that every probe shares.
Written == now

StoragePut(p) ==
  /\ probe[p].pc = "run" /\ probe[p].step = None /\ "storage" \in Pending(p)
  /\ LET others == {q \in Probes \ {p} : probe[q].step # None}
         overlap == IF others = {} THEN {} ELSE {"overlap"}
     IN IF "storage" \in Missing \/ "put" \in faults
        THEN Count(p, "storage", "down") /\ UNCHANGED cell
        ELSE /\ cell' = Written
             /\ probe' = [q \in Probes |->
                  CASE q = p -> [probe[p] EXCEPT !.step = "get", !.data = now, !.excuse = @ \cup overlap]
                    [] q \in others -> [probe[q] EXCEPT !.excuse = @ \cup overlap]
                    [] OTHER -> probe[q]]
  /\ UNCHANGED <<registry, writer, faults, toggles, requests, now>>

StorageGet(p) ==
  /\ probe[p].step = "get"
  /\ IF "get" \in faults \/ cell = 0 THEN Count(p, "storage", "down")
     ELSE IF cell # probe[p].data THEN Count(p, "storage", "degraded")
     ELSE probe' = [probe EXCEPT ![p].step = "delete"]
  /\ UNCHANGED <<registry, writer, faults, toggles, requests, now, cell>>

StorageDelete(p) ==
  /\ probe[p].step = "delete"
  /\ IF "delete" \in faults
     THEN Count(p, "storage", "degraded") /\ UNCHANGED cell
     ELSE Count(p, "storage", "up") /\ cell' = 0
  /\ UNCHANGED <<registry, writer, faults, toggles, requests, now>>

GetStatusCode(status) == IF status \in {"up", "degraded"} THEN 200 ELSE 503

\* All checks of a type have run: the lock is released, the next type begins or
\* the response is written. A type without checks is unknown, except to a
\* request for one component, which also keeps the lock from type to type.
\* HealthMiddleware only turns a request away when the service is down.
Respond(p) ==
  /\ probe[p].pc = "run" /\ probe[p].step = None /\ Pending(p) = {}
  /\ LET r == probe[p]
         one == r.req \in Kinds
         status == IF r.total = 0 /\ ~one THEN "unknown" ELSE r.status
         after == [r EXCEPT !.types = Tail(@), !.overall = Aggregate(@, status)]
         code == IF r.req = "middleware" THEN (IF after.overall = "down" THEN 503 ELSE 200)
                                         ELSE GetStatusCode(after.overall)
     IN IF after.types = <<>> THEN probe' = [probe EXCEPT ![p] = [after EXCEPT !.pc = "done", !.code = code, !.expired = FALSE, !.data = 0]]
        ELSE IF one THEN Load(p, after, r.expired)
        ELSE probe' = [probe EXCEPT ![p] = [after EXCEPT !.pc = "lock"]]
  /\ UNCHANGED <<registry, writer, faults, toggles, requests, now, cell>>

-------------------------------------------------------------------------------
(* The surroundings.                                                           *)

Toggle(f) ==
  /\ toggles < MaxToggles /\ toggles' = toggles + 1
  /\ faults' = (faults \cup {f}) \ (faults \cap {f})
  /\ probe' = [p \in Probes |->
       IF probe[p].pc \in {"idle", "done"} THEN probe[p]
       ELSE [probe[p] EXCEPT !.always = @ \cap faults', !.ever = @ \cup faults']]
  /\ UNCHANGED <<registry, writer, requests, now, cell>>

Tick ==
  /\ now < MaxSeconds /\ now' = now + 1
  /\ UNCHANGED <<registry, writer, faults, toggles, requests, cell, probe>>

Deadline(p) ==
  /\ probe[p].pc = "run" /\ ~probe[p].expired
  /\ toggles < MaxToggles /\ toggles' = toggles + 1
  /\ probe' = [probe EXCEPT ![p].expired = TRUE, ![p].excuse = @ \cup {"deadline"}]
  /\ UNCHANGED <<registry, writer, faults, requests, now, cell>>

Step(p) ==
  \/ RunChecks(p)
  \/ \E k \in Kinds : ExecuteCheck(p, k)
  \/ StoragePut(p) \/ StorageGet(p) \/ StorageDelete(p)
  \/ Respond(p)

Next ==
  \/ \E p \in Probes : Step(p) \/ Deadline(p) \/ \E req \in Requests[p] : Request(p, req)
  \/ \E c \in Changes : Change(c)
  \/ AddCheck \/ RemoveCheck
  \/ \E f \in Breakable : Toggle(f)
  \/ Tick

Spec == Init /\ [][Next]_vars

-------------------------------------------------------------------------------
(* Properties.                                                                 *)

\* The faults that take a check down.
FaultsOf(k) ==
  CASE k = "database" -> {"ping", "query"}
    [] k = "http"     -> {"request", "status"}
    [] k = "tcp"      -> {"dial"}
    [] k = "storage"  -> {"put", "get"}
    [] OTHER          -> {}

\* A fault that is there from the request to the response and takes down a check
\* the probe ran is in the answer, whatever the other checks said before or after.
FailureIsReported ==
  \A p \in Probes : probe[p].pc = "done" =>
    \A k \in probe[p].asked : FaultsOf(k) \cap probe[p].always # {} => probe[p].code = 503

\* A probe that does not find everything up has a reason: something was broken
\* in the meantime, a deadline passed, it had no check to run, or another probe's
\* storage check ran at the same time. What earlier probes left behind is none.
NoFalseAlarm ==
  \A p \in Probes :
    (probe[p].pc = "done" /\ probe[p].overall # "up" /\ probe[p].excuse = {} /\ Missing = {}
       /\ Parts # <<>> /\ Runners >= MinHealthy)
    => probe[p].ever # {}

================================================================================
