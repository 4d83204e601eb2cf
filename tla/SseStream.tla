------------------------------- MODULE SseStream -------------------------------
(* Server-sent events (transport/sse): a handler of the server that streams the  *)
(* store in batches, and the client's Subscribe, which connects, consumes the    *)
(* stream and connects again. Connections are refused and break with data under  *)
(* way. Times are left out, but the backoff keeps its value, in units of its      *)
(* start.                                                                        *)
EXTENDS Naturals, Sequences

CONSTANTS
  BatchSize, MaxDelay,                                      \* of server and client
  MaxEvents, MaxFaults                                      \* bounds

VARIABLES
  stored,   \* the number of events of the store; their versions are 1..stored
  serving,  \* the server's handler runs
  cur,      \* its cursor: the last version it has sent
  flushed,  \* lines under way to the client: the versions of a batch each
  up,       \* the connection is up
  client,   \* where Subscribe is
  delay,    \* its backoff
  ctx,      \* its context: TRUE until it ends
  handled,  \* the versions handed to the handler over this connection
  seen,     \* the versions handed to the handler at all
  failed,   \* the handler has returned an error
  lost,     \* the versions of batches that could not be encoded
  faults

sseVars == <<stored, serving, cur, flushed, up, client, delay, ctx, handled, seen, failed, lost, faults>>

Fault == faults < MaxFaults /\ faults' = faults + 1
Least(a, b) == IF a < b THEN a ELSE b

Init ==
  /\ stored = 0 /\ serving = FALSE /\ cur = 0 /\ flushed = <<>> /\ up = FALSE
  /\ client = "check" /\ delay = 1 /\ ctx = TRUE /\ handled = <<>> /\ seen = {} /\ failed = FALSE /\ lost = {}
  /\ faults = 0

\* An event is stored on the server.
StoreEvent ==
  /\ stored < MaxEvents /\ stored' = stored + 1
  /\ UNCHANGED <<serving, cur, flushed, up, client, delay, ctx, handled, seen, failed, lost, faults>>

--------------------------------------------------------------------------------
(* The server.                                                                  *)

\* loadNext: what follows the cursor, cut to the batch size; the next cursor is
\* the version of the last event sent, an integer or a vector cursor as the stores
\* of the repository number their events.
LoadNext ==
  LET n == Least(stored - cur, BatchSize) IN
  [events |-> [i \in 1..n |-> cur + i], next |-> cur + n]

\* A round of the handler: nothing to send, it sleeps; else a line is flushed.
SendBatch ==
  /\ serving /\ up /\ LoadNext.events # <<>>
  /\ flushed' = Append(flushed, LoadNext.events)
  /\ cur' = LoadNext.next
  /\ UNCHANGED <<stored, serving, up, client, delay, ctx, handled, seen, failed, lost, faults>>

\* The error of json.Marshal is dropped: the line is empty, the cursor moves on
\* and the client skips what it cannot decode.
EncodingFails ==
  /\ serving /\ up /\ LoadNext.events # <<>> /\ Fault
  /\ lost' = lost \cup {LoadNext.events[i] : i \in DOMAIN LoadNext.events}
  /\ cur' = LoadNext.next
  /\ UNCHANGED <<stored, serving, flushed, up, client, delay, ctx, handled, seen, failed>>

\* The store cannot be read: the handler returns, and the stream ends.
LoadFails ==
  /\ serving /\ up /\ Fault
  /\ serving' = FALSE
  /\ UNCHANGED <<stored, cur, flushed, up, client, delay, ctx, handled, seen, failed, lost>>

\* The request's context has ended with the connection.
HandlerEnds ==
  /\ serving /\ ~up
  /\ serving' = FALSE
  /\ UNCHANGED <<stored, cur, flushed, up, client, delay, ctx, handled, seen, failed, lost, faults>>

\* The connection breaks: what was under way is lost.
Break ==
  /\ up /\ Fault
  /\ up' = FALSE /\ flushed' = <<>>
  /\ UNCHANGED <<stored, serving, cur, client, delay, ctx, handled, seen, failed, lost>>

--------------------------------------------------------------------------------
(* Subscribe.                                                                   *)

ContextEnds ==
  /\ ctx /\ client # "returned" /\ ctx' = FALSE
  /\ UNCHANGED <<stored, serving, cur, flushed, up, client, delay, handled, seen, failed, lost, faults>>

\* Returns with the context's error: at the top of the loop, in a pause, or in
\* the stream.
SeesContext ==
  /\ ~ctx /\ client \in {"check", "backoff", "pause", "consume"}
  /\ client' = "returned" /\ up' = FALSE /\ flushed' = <<>>
  /\ UNCHANGED <<stored, serving, cur, delay, ctx, handled, seen, failed, lost, faults>>

\* The request carries no cursor: the server starts from the beginning.
Connect ==
  /\ client = "check" /\ ctx
  /\ up' = TRUE /\ serving' = TRUE /\ cur' = 0 /\ flushed' = <<>>
  /\ client' = "consume" /\ delay' = 1 /\ handled' = <<>>
  /\ UNCHANGED <<stored, ctx, seen, failed, lost, faults>>

\* No connection, or a status other than 200.
ConnectFails ==
  /\ client = "check" /\ ctx /\ Fault
  /\ client' = "backoff"
  /\ UNCHANGED <<stored, serving, cur, flushed, up, delay, ctx, handled, seen, failed, lost>>


\* The backoff is over; it is doubled while it is below the maximum.
Retry ==
  /\ client = "backoff"
  /\ client' = "check"
  /\ delay' = IF delay < MaxDelay THEN 2 * delay ELSE delay
  /\ UNCHANGED <<stored, serving, cur, flushed, up, ctx, handled, seen, failed, lost, faults>>

\* consumeStream: a line, handed to the handler ...
HandleLine ==
  /\ client = "consume" /\ flushed # <<>>
  /\ handled' = handled \o Head(flushed)
  /\ seen' = seen \cup {Head(flushed)[i] : i \in DOMAIN Head(flushed)}
  /\ flushed' = Tail(flushed)
  /\ UNCHANGED <<stored, serving, cur, up, client, delay, ctx, failed, lost, faults>>

\* ... whose error ends the subscription.
HandlerFails ==
  /\ client = "consume" /\ flushed # <<>> /\ Fault
  /\ failed' = TRUE /\ client' = "returned" /\ up' = FALSE /\ flushed' = <<>>
  /\ UNCHANGED <<stored, serving, cur, delay, ctx, handled, seen, lost>>

\* The stream has ended, with or without an error: a pause, then another round.
StreamEnds ==
  /\ client = "consume" /\ flushed = <<>> /\ (~up \/ ~serving)
  /\ client' = "pause" /\ up' = FALSE
  /\ UNCHANGED <<stored, serving, cur, flushed, delay, ctx, handled, seen, failed, lost, faults>>

Reconnect ==
  /\ client = "pause" /\ client' = "check"
  /\ UNCHANGED <<stored, serving, cur, flushed, up, delay, ctx, handled, seen, failed, lost, faults>>

Server == SendBatch \/ HandlerEnds
Subscribe == SeesContext \/ Connect \/ Retry \/ HandleLine \/ StreamEnds \/ Reconnect

Next ==
  \/ StoreEvent \/ Server \/ EncodingFails \/ LoadFails \/ Break
  \/ Subscribe \/ ContextEnds \/ ConnectFails \/ HandlerFails

Spec == Init /\ [][Next]_sseVars

\* Both sides go on, and the network does not fail for ever.
FairSpec == Spec /\ WF_sseVars(Server) /\ WF_sseVars(Subscribe)

--------------------------------------------------------------------------------
(* Properties.                                                                  *)

\* Over one connection the handler is given the events from the first on, each
\* once, in order and without a gap, wherever batches are cut and however the
\* store grows meanwhile, but for batches that could not be encoded.
StreamHasNoGaps ==
  \A i \in DOMAIN handled :
    /\ i > 1 => handled[i - 1] < handled[i]
    /\ \A v \in 1..handled[i] : v \in lost \/ \E j \in 1..i : handled[j] = v

================================================================================
