------------------------------- MODULE MCRealtime -------------------------------
(* Notifications in real time: the manager's real-time sync (Realtime) and the  *)
(* event stream between server and client (SseStream); and the health checks of *)
(* a node that is being watched (Health). A behaviour is one of any of them.    *)
EXTENDS Realtime, Bags

CONSTANTS p1, p2

VARIABLES
  part,  \* which of them runs
  stored, serving, cur, flushed, up, client, delay, ctx, handled, seen, failed, lost, faults,
  registry, writer, broken, toggles, requests, seconds, cell, probe

streamVars == <<stored, serving, cur, flushed, up, client, delay, ctx, handled, seen, failed, lost, faults>>
healthVars == <<registry, writer, broken, toggles, requests, seconds, cell, probe>>

Stream == INSTANCE SseStream WITH BatchSize <- 2, MaxDelay <- 3, MaxEvents <- 3, MaxFaults <- 4

Checks == INSTANCE Health WITH
  Probes <- {p1, p2}, Breakable <- {"ping", "delete"}, Missing <- {}, Runners <- 1, MinHealthy <- 1,
  Registries <- {[liveness |-> SetToBag({"storage", "database"}), readiness |-> SetToBag({"composite"}),
                  startup |-> SetToBag({"tcp"})]},
  Parts <- <<"projection_metrics", "http", "custom">>,
  Changes <- [op : {"add", "remove"}, type : {"liveness"}, kind : {"database"}],
  Requests <- [p \in {p1, p2} |-> IF p = p1 THEN {"liveness"} ELSE {"liveness", "all", "database"}],
  MaxCopies <- 1, MaxToggles <- 1, MaxSeconds <- 2, MaxRequests <- 2,
  faults <- broken, now <- seconds

PartInit ==
  /\ part \in {"realtime", "stream", "health"}
  /\ Init /\ Stream!Init /\ Checks!Init
  /\ part # "realtime" => ~link

PartNext ==
  /\ UNCHANGED part
  /\ \/ part = "realtime" /\ Next /\ UNCHANGED <<streamVars, healthVars>>
     \/ part = "stream" /\ Stream!Next /\ UNCHANGED <<vars, healthVars>>
     \/ part = "health" /\ Checks!Next /\ UNCHANGED <<vars, streamVars>>

\* The fairness of each part, for the behaviours of that part.
PartSpec ==
  /\ PartInit /\ [][PartNext]_<<part, vars, streamVars, healthVars>>
  /\ \A s \in Sessions : /\ WF_vars(part = "realtime" /\ ~panicked /\ HandlerStep(s))
                         /\ WF_vars(part = "realtime" /\ ~panicked /\ MonitorStep(s))
                         /\ SF_vars(part = "realtime" /\ ~panicked /\ HandlerExits(s))
                         /\ SF_vars(part = "realtime" /\ ~panicked /\ MonitorExits(s))
  /\ \A k \in Tickers : /\ WF_vars(part = "realtime" /\ ~panicked /\ PollerStep(k))
                        /\ SF_vars(part = "realtime" /\ ~panicked /\ PollerExits(k))
  /\ WF_streamVars(part = "stream" /\ Stream!Server)
  /\ WF_streamVars(part = "stream" /\ Stream!Subscribe)

\* SseStream: over one connection the handler is given the events without a gap.
StreamHasNoGaps == Stream!StreamHasNoGaps
\* Health: a fault that lasts is in the answer.
FailureIsReported == part = "health" => Checks!FailureIsReported
\* Health: an alarm has a reason.
NoFalseAlarm == part = "health" => Checks!NoFalseAlarm
================================================================================
