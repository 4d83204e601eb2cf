-------------------------------- MODULE HttpSync --------------------------------
(* The HTTP transport: HTTPTransport.Push, Pull and GetLatestVersion           *)
(* (transport/httptransport/client.go) against SyncHandler (http.go) with its  *)
(* idempotency tracker (idempotency.go). Requests and replies may be lost or   *)
(* late: a caller that gets an error sends its batch again, with the same      *)
(* idempotency key, while the server may still work on the first request.      *)
EXTENDS Naturals, Sequences, FiniteSets, Functions

CONSTANTS
  Pushes,         \* batches that callers push
  EventsOf,       \* the events of each batch, a sequence
  Others,         \* other clients: each pushes one event, with a key, both named like it
  Parsers,        \* the clients' version parsers: "default" refuses 0, "zero" does not
  MaxSize,        \* IdempotencyTracker.maxSize
  Limit,          \* events in one pull reply
  MaxAttempts,    \* bound: attempts of each batch
  MaxTroubles     \* bound: store failures, expired keys and restarts

ASSUME HttpAssumption == /\ MaxSize \in Nat \ {0}
                         /\ Limit \in Nat \ {0}
                         /\ MaxAttempts \in Nat \ {0}
                         /\ MaxTroubles \in Nat

\* Event IDs and idempotency keys are unique: an event is in one batch, once.
ASSUME UniqueNames ==
  /\ Pushes \cap Others = {}
  /\ \A p \in Pushes :
       /\ EventsOf[p] \in Seq(Range(EventsOf[p])) /\ IsInjective(EventsOf[p])
       /\ Range(EventsOf[p]) \cap Others = {}
       /\ \A q \in Pushes \ {p} : Range(EventsOf[p]) \cap Range(EventsOf[q]) = {}

VARIABLES
  keyed,     \* the batches that are pushed with an idempotency key
  unique,    \* the store refuses an event ID it already has
  parser,    \* the VersionParser the client was made with
  log,       \* the events of the server's store, in order of their versions
  keys,      \* the tracker's keys
  older,     \* pairs of keys: the first one's timestamp is before the second one's
  stale,     \* keys that are older than maxAge
  request,   \* the server's handler for each attempt: [pc, next]
  caller,    \* each batch's caller: [pc, attempt]
  replica,   \* the events the reading client has pulled
  troubles,  \* store failures, expired keys and restarts so far
  overlapped,  \* ghost: batches two handlers worked on at once
  cut,         \* ghost: batches a handler passed over events of
  failed,      \* ghost: those of them an event of could not be stored
  forgotten    \* ghost: keys the tracker has lost

ghosts == <<overlapped, cut, failed>>
config == <<keyed, unique, parser>>
vars == <<keyed, unique, parser, log, keys, older, stale, request, caller, replica, troubles,
          overlapped, cut, failed, forgotten>>
trackerVars == <<keyed, unique, parser, keys, older, stale, forgotten>>

Events == Others \cup UNION {Range(EventsOf[p]) : p \in Pushes}
Keys == Pushes \cup Others
KeyPairs == Keys \X Keys
Attempts == Pushes \X (1..MaxAttempts)

NoRequest == [pc |-> "none", next |-> 1]

TypeOK ==
  /\ keyed \subseteq Pushes /\ unique \in BOOLEAN /\ parser \in Parsers
  /\ log \in Seq(Events)
  /\ keys \subseteq Keys /\ older \subseteq KeyPairs /\ stale \subseteq Keys
  /\ request \in [Attempts -> [pc: {"none", "sent", "store", "record", "reply", "gone"},
                               next: Nat]]
  /\ caller \in [Pushes -> [pc: {"version", "refused", "push", "waiting", "ok", "failed"},
                            attempt: 0..MaxAttempts]]
  /\ replica \in Seq(Events)
  /\ troubles \in 0..MaxTroubles
  /\ overlapped \subseteq Pushes /\ cut \subseteq Pushes
  /\ failed \subseteq Pushes /\ forgotten \subseteq Keys

Init ==
  /\ keyed \in SUBSET Pushes /\ unique \in BOOLEAN /\ parser \in Parsers
  /\ log = <<>> /\ keys = {} /\ older = {} /\ stale = {}
  /\ request = [a \in Attempts |-> NoRequest]
  /\ caller = [p \in Pushes |-> [pc |-> "version", attempt |-> 0]]
  /\ replica = <<>>
  /\ troubles = 0
  /\ overlapped = {} /\ cut = {} /\ failed = {} /\ forgotten = {}

Trouble == troubles < MaxTroubles /\ troubles' = troubles + 1

Step(a, pc) == request' = [request EXCEPT ![a] = [pc |-> pc, next |-> 1]]

(****************************************************************************)
(* The pushing client.                                                       *)
(****************************************************************************)
\* SyncManager.push asks for the latest version before it pushes. The server
\* answers with the number of its last event, 0 when it has none; the client
\* parses it.
AskLatestVersion(p) ==
  /\ caller[p].pc = "version"
  /\ Len(log) > 0 \/ parser = "zero"
  /\ caller' = [caller EXCEPT ![p].pc = "push"]
  /\ UNCHANGED <<log, trackerVars, request, replica, troubles, ghosts>>

\* An answer the client cannot parse is an error, and the sync ends with it.
VersionIsRefused(p) ==
  /\ caller[p].pc = "version"
  /\ Len(log) = 0 /\ parser = "default"
  /\ caller' = [caller EXCEPT ![p].pc = "refused"]
  /\ UNCHANGED <<log, trackerVars, request, replica, troubles, ghosts>>

SyncAgain(p) ==
  /\ caller[p].pc = "refused"
  /\ caller' = [caller EXCEPT ![p].pc = "version"]
  /\ UNCHANGED <<log, trackerVars, request, replica, troubles, ghosts>>

\* Push marshals the batch and sends it.
SendPush(p) ==
  /\ caller[p].pc = "push"
  /\ LET n == caller[p].attempt + 1 IN
       /\ caller' = [caller EXCEPT ![p] = [pc |-> "waiting", attempt |-> n]]
       /\ request' = [request EXCEPT ![<<p, n>>] = [pc |-> "sent", next |-> 1]]
  /\ UNCHANGED <<log, trackerVars, replica, troubles, ghosts>>

\* A status of 200 ends Push without an error.
ReceiveReply(p) ==
  /\ caller[p].pc = "waiting"
  /\ request[<<p, caller[p].attempt>>].pc = "reply"
  /\ caller' = [caller EXCEPT ![p].pc = "ok"]
  /\ Step(<<p, caller[p].attempt>>, "gone")
  /\ UNCHANGED <<log, trackerVars, replica, troubles, ghosts>>

\* A network error or the timeout of the HTTP client: Push returns an error and
\* the caller pushes again while it has attempts left.
PushTimesOut(p) ==
  /\ caller[p].pc = "waiting"
  /\ caller' = [caller EXCEPT ![p].pc =
                  IF caller[p].attempt < MaxAttempts THEN "push" ELSE "failed"]
  /\ UNCHANGED <<log, trackerVars, request, replica, troubles, ghosts>>

\* The request never arrives, or nobody waits for its reply any more.
Lose(a) ==
  /\ request[a].pc \in {"sent", "reply"}
  /\ Step(a, "gone")
  /\ UNCHANGED <<log, trackerVars, caller, replica, troubles, ghosts>>

(****************************************************************************)
(* The server: handlePush and the tracker.                                   *)
(****************************************************************************)
\* IdempotencyTracker.Check
Known(key) == key \in keys /\ key \notin stale

\* Handlers of the same batch that have passed the check and not recorded.
InHandler(p) == {n \in 1..MaxAttempts : request[<<p, n>>].pc \in {"store", "record"}}

\* Mutant of ReceivePush: the key is not looked up.
ReceivePushUnchecked(a) ==
  /\ request[a].pc = "sent"
  /\ Step(a, "store")
  /\ UNCHANGED overlapped
  /\ UNCHANGED <<log, trackerVars, caller, replica, troubles, cut, failed>>

\* A key that is known is answered from the cache; otherwise the batch is
\* decoded and worked on.
ReceivePush(a) ==
  /\ request[a].pc = "sent"
  /\ IF a[1] \in keyed /\ Known(a[1])
     THEN Step(a, "reply") /\ UNCHANGED overlapped
     ELSE /\ Step(a, "store")
          /\ overlapped' = IF InHandler(a[1]) = {} THEN overlapped ELSE overlapped \cup {a[1]}
  /\ UNCHANGED <<log, trackerVars, caller, replica, troubles, cut, failed>>

Batch(a) == EventsOf[a[1]]
Event(a) == Batch(a)[request[a].next]
Accepts(e) == ~unique \/ e \notin Range(log)

\* The next event of the batch; a duplicate is refused, logged and passed over.
StoreNext(a) ==
  /\ request[a].pc = "store" /\ request[a].next <= Len(Batch(a))
  /\ log' = IF Accepts(Event(a)) THEN Append(log, Event(a)) ELSE log
  /\ request' = [request EXCEPT ![a].next = @ + 1]
  /\ UNCHANGED <<trackerVars, caller, replica, troubles, ghosts>>

PassOver(a) ==
  /\ request[a].pc = "store" /\ request[a].next <= Len(Batch(a))
  /\ request' = [request EXCEPT ![a].next = @ + 1]
  /\ cut' = cut \cup {a[1]}
  /\ UNCHANGED <<log, trackerVars, caller, replica, overlapped>>

\* The event cannot be converted or stored: logged and passed over as well.
StoreFails(a) == Trouble /\ failed' = failed \cup {a[1]} /\ PassOver(a)

Waiting(a) == caller[a[1]].pc = "waiting" /\ caller[a[1]].attempt = a[2]

\* The context of the request is done once its client has gone, and the store
\* refuses to work for it.
StoreCancelled(a) == ~Waiting(a) /\ UNCHANGED <<troubles, failed>> /\ PassOver(a)

\* Mutant of StoredAll: the loop ends one event early.
StoredAllButLast(a) ==
  /\ request[a].pc = "store" /\ request[a].next >= Len(Batch(a))
  /\ Step(a, IF a[1] \in keyed THEN "record" ELSE "reply")
  /\ UNCHANGED <<log, trackerVars, caller, replica, troubles, ghosts>>

StoredAll(a) ==
  /\ request[a].pc = "store" /\ request[a].next > Len(Batch(a))
  /\ Step(a, IF a[1] \in keyed THEN "record" ELSE "reply")
  /\ UNCHANGED <<log, trackerVars, caller, replica, troubles, ghosts>>

\* The entry with the first timestamp.
Oldest == {k \in keys : \A l \in keys \ {k} : <<k, l>> \in older}

\* The entries Record leaves: at the limit the oldest one goes, also when the
\* key itself is already there.
Kept == IF Cardinality(keys) >= MaxSize THEN keys \ Oldest ELSE keys

Among(S) == older \cap (S \X S)

\* IdempotencyTracker.Record: the entry gets a new timestamp.
Record(key) ==
  /\ keys' = Kept \cup {key}
  /\ older' = Among(Kept \ {key}) \cup ((Kept \ {key}) \X {key})
  /\ stale' = (stale \cap keys') \ {key}
  /\ forgotten' = forgotten \cup (keys \ keys')

RecordKey(a) ==
  /\ request[a].pc = "record"
  /\ Record(a[1])
  /\ Step(a, "reply")
  /\ UNCHANGED <<config, log, caller, replica, troubles, ghosts>>

\* The push of another client shares the store and the tracker.
OtherPush(c) ==
  /\ c \notin Range(log)
  /\ log' = Append(log, c)
  /\ Record(c)
  /\ UNCHANGED <<config, request, caller, replica, troubles, ghosts>>

\* A key becomes older than maxAge, after the keys with an earlier timestamp.
Expire(key) ==
  /\ Known(key) /\ Trouble
  /\ \A k \in keys : <<k, key>> \in older => k \in stale
  /\ stale' = stale \cup {key}
  /\ forgotten' = forgotten \cup {key}
  /\ UNCHANGED <<config, log, keys, older, request, caller, replica, ghosts>>

\* The hourly cleanup removes what has expired.
Cleanup ==
  /\ stale # {}
  /\ keys' = keys \ stale
  /\ older' = Among(keys \ stale)
  /\ stale' = {}
  /\ UNCHANGED <<config, log, request, caller, replica, troubles, ghosts, forgotten>>

\* The server restarts: the store survives, handlers and the tracker do not.
Restart ==
  /\ Trouble
  /\ request' = [a \in Attempts |->
       IF request[a].pc = "none" THEN request[a] ELSE [pc |-> "gone", next |-> 1]]
  /\ keys' = {} /\ older' = {} /\ stale' = {}
  /\ forgotten' = Keys
  /\ UNCHANGED <<config, log, caller, replica, ghosts>>

(****************************************************************************)
(* The reading client: Pull and handlePull.                                  *)
(****************************************************************************)
MinOf(x, y) == IF x < y THEN x ELSE y

\* Mutant of Page: the limit is applied to the end of what was loaded.
LastPage(since) ==
  SubSeq(log, IF Len(log) > since + Limit THEN Len(log) - Limit + 1 ELSE since + 1, Len(log))

\* The events after "since", cut to the limit.
Page(since) == SubSeq(log, since + 1, MinOf(Len(log), since + Limit))

\* The client pulls from its own latest version and stores what it gets.
Pull ==
  /\ Len(replica) < Len(log)
  /\ replica' = replica \o Page(Len(replica))
  /\ UNCHANGED <<log, trackerVars, request, caller, troubles, ghosts>>

ServerStep(a) == ReceivePush(a) \/ StoreNext(a) \/ StoredAll(a) \/ RecordKey(a)

Ask(p) == AskLatestVersion(p) \/ VersionIsRefused(p) \/ SyncAgain(p)

ClientStep(p) == Ask(p) \/ SendPush(p) \/ ReceiveReply(p)

Next ==
  \/ \E p \in Pushes : ClientStep(p) \/ PushTimesOut(p)
  \/ \E a \in Attempts : ServerStep(a) \/ StoreFails(a) \/ StoreCancelled(a) \/ Lose(a)
  \/ \E c \in Others : OtherPush(c)
  \/ \E k \in Keys : Expire(k)
  \/ Cleanup \/ Restart \/ Pull

Spec == Init /\ [][Next]_vars

\* Clients and handlers run, a reader keeps pulling, and the network delivers
\* (timeouts are bounded by MaxAttempts).
FairSpec ==
  /\ Spec
  /\ \A p \in Pushes : WF_vars(ClientStep(p)) /\ WF_vars(PushTimesOut(p))
  /\ \A a \in Attempts : WF_vars(ServerStep(a))
  /\ WF_vars(Pull)

(****************************************************************************)
(* Properties.                                                               *)
(****************************************************************************)
StoredAgain(e) == \E i, j \in DOMAIN log : i # j /\ log[i] = e /\ log[j] = e

\* An idempotency key works as far as it can: an event is stored again only
\* when two handlers of the batch overlapped, when the tracker had forgotten the
\* key, or when there was none (handlePush: Check, then Record).
OnlyRacesDuplicate ==
  \A p \in Pushes : \A e \in Range(EventsOf[p]) :
    StoredAgain(e) => p \in overlapped \/ p \in forgotten \/ (p \notin keyed /\ ~unique)

\* When Push returns nil, the whole batch is in the server's store, whichever
\* attempt was answered and whether from the handler or from the cache
\* (synckit/types: "Push sends a batch of events to the remote endpoint").
OkMeansStored ==
  \A p \in Pushes : caller[p].pc = "ok" => Range(EventsOf[p]) \subseteq Range(log)

\* A batch is answered and not stored only when an event of it could not be
\* stored, whatever else went wrong, or when it has
\* a key that a handler recorded after it had passed events over because its
\* own client had gone.
OnlyCutsLose ==
  \A p \in Pushes :
    caller[p].pc = "ok" =>
      \/ Range(EventsOf[p]) \subseteq Range(log)
      \/ p \in failed
      \/ p \in cut /\ p \in keyed

\* A handler has passed over events of the batch, and its own client will not
\* take the answer unless the store failed or the key is recorded.
Passed(a) == a[1] \in cut /\ (a[1] \in failed \/ a[1] \in keyed \/ ~Waiting(a))
Stored(p) == Range(EventsOf[p]) \subseteq Range(log)

CallerHolds(p) ==
  /\ caller[p].pc \in {"version", "refused", "push"} => caller[p].attempt < MaxAttempts
  /\ caller[p].pc = "waiting" => caller[p].attempt >= 1
  /\ caller[p].pc = "ok" => Stored(p) \/ (p \in cut /\ (p \in failed \/ p \in keyed))
  /\ p \in keys => p \in keyed /\ (Stored(p) \/ p \in cut)

HandlerHolds(a) ==
  /\ request[a].pc # "none" => a[2] <= caller[a[1]].attempt
  /\ request[a].pc = "store" =>
       /\ request[a].next >= 1
       /\ \/ \A i \in DOMAIN Batch(a) : i < request[a].next => Batch(a)[i] \in Range(log)
          \/ Passed(a)
  /\ request[a].pc = "record" => a[1] \in keyed /\ (Stored(a[1]) \/ a[1] \in cut)
  /\ request[a].pc = "reply" => Stored(a[1]) \/ Passed(a)

\* The inductive form of OnlyCutsLose: what a handler has behind it is in the
\* store or was passed over, and what is recorded was either.
HandlerInv == (\A p \in Pushes : CallerHolds(p)) /\ (\A a \in Attempts : HandlerHolds(a))

\* A batch whose key has protected it so far.
Guarded(p) == p \in keyed /\ p \notin overlapped /\ p \notin forgotten

OneInHandler(p) == (\A m, n \in InHandler(p) : m = n) /\ (InHandler(p) # {} => p \notin keys)

NoneStored(p) == Range(EventsOf[p]) \cap Range(log) = {}

NoneTwice(p) ==
  \A i, j \in DOMAIN log : log[i] = log[j] /\ log[i] \in Range(EventsOf[p]) => i = j

NoneAhead(p, n) ==
  request[<<p, n>>].pc = "store" =>
    \A i \in DOMAIN EventsOf[p] :
      i >= request[<<p, n>>].next => EventsOf[p][i] \notin Range(log)

\* Nothing of it is stored before its one handler, nothing beyond where that
\* handler is, and afterwards its key is known.
StoredOnce(p) ==
  /\ OneInHandler(p)
  /\ InHandler(p) = {} /\ p \notin keys => NoneStored(p)
  /\ NoneTwice(p)
  /\ \A n \in InHandler(p) : NoneAhead(p, n)

\* The inductive form of OnlyRacesDuplicate.
DuplicateInv ==
  /\ stale \subseteq forgotten
  /\ unique => IsInjective(log)
  /\ \A p \in Pushes : Guarded(p) => StoredOnce(p)

\* An answered batch reaches the reader, page by page, without gaps
\* (handlePull's limit and the client's cursor).
OkReachesReader ==
  \A p \in Pushes :
    caller[p].pc = "ok" ~> (p \in cut \/ Range(EventsOf[p]) \subseteq Range(replica))

\* A client that goes on syncing gets beyond GetLatestVersion to its push, also
\* when it is the first to write to the server (README.md, the HTTP quick start).
PushesAreServed == \A p \in Pushes : <>(caller[p].pc \in {"ok", "failed"})
================================================================================
