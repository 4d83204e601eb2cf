---------------------------- MODULE SyncManager ----------------------------
(***************************************************************************)
(* The sync managers of several nodes (synckit/manager.go), each with its  *)
(* event store and its state machine, sharing one transport that keeps the *)
(* pushed events under the version their sender gave them (memchan).       *)
(* Goroutines (Workers) call Sync, Push and Pull; the application stores   *)
(* events and closes managers at any moment; contexts are cancelled and    *)
(* store and transport calls fail.                                         *)
(***************************************************************************)
EXTENDS Naturals, Sequences, FiniteSets, SyncState

CONSTANTS
  Nodes, Workers,
  NodeOf,        \* Workers -> Nodes: whose manager a goroutine calls
  Events,
  Origin,        \* Nodes -> SUBSET Events: what the application creates there
  Key,           \* Events -> AggregateID:Type
  Mode,          \* Nodes -> {"both", "push", "pull"}: PushOnly, PullOnly
  Operations,    \* the calls the goroutines make: a subset of {"sync", "push", "pull"}
  Accepts,       \* SyncOptions.Filter, the events it lets through
  BatchSize,     \* SyncOptions.BatchSize, after the default
  Resolver,      \* SyncOptions.ConflictResolver
  UniqueIDs,     \* the store has a UNIQUE id column (SQLite, Postgres)
  MaxOps,        \* bound: operations each goroutine starts, 0 for no bound
  MaxFaults,     \* bound: failing calls and cancelled contexts
  MaxCloses      \* bound: managers that are closed

ASSUME ManagerAssumption ==
  /\ NodeOf \in [Workers -> Nodes]
  /\ Origin \in [Nodes -> SUBSET Events]
  /\ Mode \in [Nodes -> {"both", "push", "pull"}]
  /\ Operations \subseteq {"sync", "push", "pull"}
  /\ Accepts \subseteq Events
  /\ BatchSize \in Nat \ {0}
  /\ Resolver \in {"lww", "fww", "merge", "manual"}
  /\ UniqueIDs \in BOOLEAN
  /\ {MaxOps, MaxFaults, MaxCloses} \subseteq Nat

VARIABLES
  local,    \* local[n]: the events of n's store, the version is the position
  remote,   \* MemChan.events: [ev, ver] in the order they were pushed
  state,    \* state[n]: the state of n's machine
  life,     \* life[n]: "open", then the steps of Close
  wk,       \* the locals of each goroutine
  ops,      \* operations started by each goroutine
  faults

vars == <<local, remote, state, life, wk, ops, faults>>

RangeOf(s) == {s[i] : i \in DOMAIN s}

\* The elements of s at the positions in I, in order.
Pick(s, I) ==
  [k \in 1..Cardinality(I) |->
     s[CHOOSE i \in I : Cardinality({j \in I : j <= i}) = k]]

Idler == [op |-> "none", pc |-> "idle", armed |-> FALSE, since |-> 0,
          evs |-> <<>>, mine |-> <<>>, next |-> 1, errs |-> FALSE,
          cancelled |-> FALSE, fetched |-> {}, owed |-> {}]

Init ==
  /\ local = [n \in Nodes |-> <<>>]
  /\ remote = <<>>
  /\ state = [n \in Nodes |-> SyncIdle]
  /\ life = [n \in Nodes |-> "open"]
  /\ wk = [w \in Workers |-> Idler]
  /\ ops = [w \in Workers |-> 0]
  /\ faults = 0

Go(w, pc) == wk' = [wk EXCEPT ![w].pc = pc]

\* A call on the store or the transport of w's node succeeds, or fails because
\* the context is done, the callee is closed or something else went wrong.
StoreOpen(w)     == life[NodeOf[w]] \in {"open", "closing", "transportClosed"}
TransportOpen(w) == life[NodeOf[w]] \in {"open", "closing"}
Works(w, open) == ~wk[w].cancelled /\ open /\ UNCHANGED faults
Breaks(w, open) ==
  IF wk[w].cancelled \/ ~open THEN UNCHANGED faults
  ELSE faults < MaxFaults /\ faults' = faults + 1

(***************************************************************************)
(* The store and the transport.                                            *)
(***************************************************************************)
Versioned(n) == [i \in DOMAIN local[n] |-> [ev |-> local[n][i], ver |-> i]]

LatestVersion(n) == Len(local[n])

Load(n, since) == Pick(Versioned(n), {i \in DOMAIN local[n] : i > since})

CanStore(n, e) == UniqueIDs => e \notin RangeOf(local[n])

\* Mutant of PullSince: the event at the given version is sent again
PullSinceInclusive(since) ==
  Pick(remote, {i \in DOMAIN remote : remote[i].ver >= since /\ remote[i].ev \in Accepts})

\* transport.Pull, then the filter loop of pull
PullSince(since) ==
  Pick(remote, {i \in DOMAIN remote : remote[i].ver > since /\ remote[i].ev \in Accepts})

\* Mutant of GetLatestVersion: one too many
NextRemoteVersion == Len(remote) + 1

GetLatestVersion ==
  IF remote = <<>> THEN 0
  ELSE CHOOSE v \in {remote[i].ver : i \in DOMAIN remote} :
         \A i \in DOMAIN remote : remote[i].ver <= v

(***************************************************************************)
(* The application.                                                        *)
(***************************************************************************)
AppStores(n, e) ==
  /\ e \in Origin[n]
  /\ \A m \in Nodes : e \notin RangeOf(local[m])
  /\ life[n] \in {"open", "closing", "transportClosed"}
  /\ local' = [local EXCEPT ![n] = Append(@, e)]
  /\ UNCHANGED <<remote, state, life, wk, ops, faults>>

\* closed is set first; Sync, Push and Pull test it, calls in flight do not
CloseBegins(n) ==
  /\ life[n] = "open"
  /\ Cardinality({m \in Nodes : life[m] # "open"}) < MaxCloses
  /\ life' = [life EXCEPT ![n] = "closing"]
  /\ UNCHANGED <<local, remote, state, wk, ops, faults>>

CloseStep(n) ==
  /\ life[n] \in {"closing", "transportClosed"}
  /\ life' = [life EXCEPT ![n] = IF @ = "closing" THEN "transportClosed" ELSE "closed"]
  /\ UNCHANGED <<local, remote, state, wk, ops, faults>>

CancelContext(w) ==
  /\ wk[w].op # "none" /\ ~wk[w].cancelled
  /\ faults < MaxFaults
  /\ faults' = faults + 1
  /\ wk' = [wk EXCEPT ![w].cancelled = TRUE]
  /\ UNCHANGED <<local, remote, state, life, ops>>

(***************************************************************************)
(* The calls: closed is tested first.                                      *)
(***************************************************************************)
Start(w, op) ==
  /\ wk[w].op = "none"
  /\ op \in Operations
  /\ MaxOps = 0 \/ ops[w] < MaxOps
  /\ life[NodeOf[w]] = "open"
  /\ ops' = IF MaxOps = 0 THEN ops ELSE [ops EXCEPT ![w] = @ + 1]
  /\ wk' = [wk EXCEPT ![w] =
              [Idler EXCEPT !.op = op,
                            !.pc = CASE op = "sync" -> "current"
                                     [] op = "push" -> "pushVersion"
                                     [] op = "pull" -> "pullVersion"]]
  /\ UNCHANGED <<local, remote, state, life, faults>>

\* if !currentState.CanAutoSync(): the sync is rejected
TestIdle(w) ==
  /\ wk[w].pc = "current"
  /\ IF CanAutoSync(state[NodeOf[w]])
       THEN Go(w, "init")
       ELSE wk' = [wk EXCEPT ![w] = Idler]
  /\ UNCHANGED <<local, remote, state, life, ops, faults>>

(***************************************************************************)
(* The state machine calls.  TransitionWithContext validates in one step   *)
(* and stores in another; what follows depends on where the call is made.  *)
(***************************************************************************)
Sites == {"init", "toPull", "toResolve", "toPush", "final", "toIdle"}

Target(w) ==
  CASE wk[w].pc = "init"      -> "Initializing"
    [] wk[w].pc = "toPull"    -> "Pulling"
    [] wk[w].pc = "toResolve" -> "ResolvingConflicts"
    [] wk[w].pc = "toPush"    -> "Pushing"
    [] wk[w].pc = "final"     -> IF wk[w].errs THEN "Failed" ELSE "Completed"
    [] wk[w].pc = "toIdle"    -> "Idle"

FirstPhase(w) == IF Mode[NodeOf[w]] # "push" THEN "toPull" ELSE "toPush"
AfterPull(w)  == IF Mode[NodeOf[w]] # "pull" THEN "toPush" ELSE "projections"

\* pull returns to Pull's caller, or to Sync
PullReturns(w, ok) ==
  wk' = [wk EXCEPT ![w] =
           IF wk[w].op = "pull" THEN [wk[w] EXCEPT !.pc = "return", !.errs = ~ok]
           ELSE [wk[w] EXCEPT !.pc = AfterPull(w), !.errs = wk[w].errs \/ ~ok]]

PushReturns(w, ok) ==
  wk' = [wk EXCEPT ![w] =
           IF wk[w].op = "push" THEN [wk[w] EXCEPT !.pc = "return", !.errs = ~ok]
           ELSE [wk[w] EXCEPT !.pc = "projections", !.errs = wk[w].errs \/ ~ok]]

Validate(w) ==
  /\ wk[w].pc \in Sites /\ ~wk[w].armed
  /\ Target(w) \in SyncStateTransitionRules[state[NodeOf[w]]]
  /\ wk' = [wk EXCEPT ![w].armed = TRUE]
  /\ UNCHANGED <<local, remote, state, life, ops, faults>>

\* The transition is refused: Sync returns an error, or goes to its deferred
\* block, or only logs; pull returns a nil error and a result that holds one,
\* which Sync does not look at
Refused(w) ==
  /\ wk[w].pc \in Sites /\ ~wk[w].armed
  /\ Target(w) \notin SyncStateTransitionRules[state[NodeOf[w]]]
  /\ \/ wk[w].pc = "init" /\ wk' = [wk EXCEPT ![w] = Idler]
     \/ /\ wk[w].pc \in {"toPull", "toPush"}
        /\ wk' = [wk EXCEPT ![w].errs = TRUE, ![w].pc = "final"]
     \/ wk[w].pc = "toResolve" /\ PullReturns(w, wk[w].op = "sync")
     \/ wk[w].pc = "final" /\ Go(w, "toIdle")
     \/ wk[w].pc = "toIdle" /\ Go(w, "return")
  /\ UNCHANGED <<local, remote, state, life, ops, faults>>

\* Mutant of AfterTransition: a failed sync does not go back to Idle
AfterTransitionStaysFailed(w) ==
  CASE wk[w].pc = "init"      -> FirstPhase(w)
    [] wk[w].pc = "toPull"    -> "pullVersion"
    [] wk[w].pc = "toResolve" -> "resolve"
    [] wk[w].pc = "toPush"    -> "pushVersion"
    [] wk[w].pc = "final"     -> IF wk[w].errs THEN "return" ELSE "toIdle"
    [] wk[w].pc = "toIdle"    -> "return"

\* Where the calls go on when the transition was made
AfterTransition(w) ==
  CASE wk[w].pc = "init"      -> FirstPhase(w)
    [] wk[w].pc = "toPull"    -> "pullVersion"
    [] wk[w].pc = "toResolve" -> "resolve"
    [] wk[w].pc = "toPush"    -> "pushVersion"
    [] wk[w].pc = "final"     -> "toIdle"
    [] wk[w].pc = "toIdle"    -> "return"

Transition(w) ==
  /\ wk[w].pc \in Sites /\ wk[w].armed
  /\ state' = [state EXCEPT ![NodeOf[w]] = Target(w)]
  /\ wk' = [wk EXCEPT ![w].armed = FALSE, ![w].pc = AfterTransition(w)]
  /\ UNCHANGED <<local, remote, life, ops, faults>>

(***************************************************************************)
(* pull                                                                    *)
(***************************************************************************)
PullVersion(w) ==
  /\ wk[w].pc = "pullVersion"
  /\ \/ /\ Works(w, StoreOpen(w))
        /\ wk' = [wk EXCEPT ![w].since = LatestVersion(NodeOf[w]),
                            ![w].pc = "pullFetch"]
     \/ Breaks(w, StoreOpen(w)) /\ PullReturns(w, FALSE)
  /\ UNCHANGED <<local, remote, state, life, ops>>

PullFetch(w) ==
  /\ wk[w].pc = "pullFetch"
  /\ LET evs == PullSince(wk[w].since) IN
     \/ /\ Works(w, TransportOpen(w))
        /\ \A i \in DOMAIN remote : remote[i].ver <= wk[w].since
        /\ PullReturns(w, TRUE)
     \/ /\ Works(w, TransportOpen(w))
        /\ \E i \in DOMAIN remote : remote[i].ver > wk[w].since
        /\ wk' = [wk EXCEPT ![w].evs = evs, ![w].next = 1, ![w].pc = "pullLoad"]
     \/ Breaks(w, TransportOpen(w)) /\ PullReturns(w, FALSE)
  /\ UNCHANGED <<local, remote, state, life, ops>>

\* detectConflicts: one conflict for every remote event and every local event
\* of its aggregate and type that has another version
Conflicts(evs, mine) ==
  LET m == Len(mine)
      pair == [g \in 1..(Len(evs) * m) |->
                 [remote |-> evs[((g - 1) \div m) + 1],
                  local  |-> mine[((g - 1) % m) + 1]]]
  IN Pick(pair, {g \in DOMAIN pair :
                   /\ Key[pair[g].remote.ev] = Key[pair[g].local.ev]
                   /\ pair[g].remote.ver # pair[g].local.ver})

\* ghost: the pulled events that are in no conflict
Unconflicted(evs, mine) ==
  {evs[i].ev : i \in {k \in DOMAIN evs : \A j \in DOMAIN mine :
                        Key[evs[k].ev] = Key[mine[j].ev] => evs[k].ver = mine[j].ver}}

\* The built-in resolvers; the versions of a conflict differ
ResolvedEvents(cs) ==
  LET newer(c) == IF c.local.ver < c.remote.ver THEN c.remote ELSE c.local
      older(c) == IF c.local.ver < c.remote.ver THEN c.local ELSE c.remote
  IN CASE Resolver = "lww"    -> [k \in DOMAIN cs |-> newer(cs[k])]
       [] Resolver = "fww"    -> [k \in DOMAIN cs |-> older(cs[k])]
       [] Resolver = "merge"  -> [k \in 1..(2 * Len(cs)) |->
                                    IF k % 2 = 1 THEN cs[(k + 1) \div 2].local
                                                 ELSE cs[k \div 2].remote]
       [] Resolver = "manual" -> <<>>

\* Load since the version read before the fetch: only events stored meanwhile
PullLoad(w) ==
  /\ wk[w].pc = "pullLoad"
  /\ LET mine == Load(NodeOf[w], wk[w].since) IN
     \/ /\ Works(w, StoreOpen(w))
        /\ wk' = [wk EXCEPT ![w].mine = mine,
                            ![w].pc = IF Conflicts(wk[w].evs, mine) = <<>>
                                        THEN "pullStore" ELSE "toResolve",
                            ![w].fetched = Unconflicted(wk[w].evs, mine)]
     \/ Breaks(w, StoreOpen(w)) /\ PullReturns(w, FALSE)
  /\ UNCHANGED <<local, remote, state, life, ops>>

\* The pulled events are replaced by the resolved ones
Resolve(w) ==
  /\ wk[w].pc = "resolve"
  /\ \/ /\ Works(w, TRUE)
        /\ wk' = [wk EXCEPT ![w].evs = ResolvedEvents(Conflicts(@, wk[w].mine)),
                            ![w].pc = "pullStore"]
     \/ Breaks(w, TRUE) /\ PullReturns(w, FALSE)
  /\ UNCHANGED <<local, remote, state, life, ops>>

\* Mutant of PullStore: a failed store is only logged
PullStoreIgnoresErrors(w) ==
  /\ wk[w].pc = "pullStore"
  /\ wk[w].next <= Len(wk[w].evs)
  /\ LET n == NodeOf[w]
         e == wk[w].evs[wk[w].next].ev IN
     \/ /\ Works(w, StoreOpen(w)) /\ CanStore(n, e)
        /\ local' = [local EXCEPT ![n] = Append(@, e)]
     \/ Breaks(w, StoreOpen(w) /\ CanStore(n, e)) /\ UNCHANGED local
  /\ wk' = [wk EXCEPT ![w].next = @ + 1]
  /\ UNCHANGED <<remote, state, life, ops>>

\* store.Store, one event per step, with the context tested before each
PullStore(w) ==
  /\ wk[w].pc = "pullStore"
  /\ wk[w].next <= Len(wk[w].evs)
  /\ LET n == NodeOf[w]
         e == wk[w].evs[wk[w].next].ev IN
     \/ /\ Works(w, StoreOpen(w)) /\ CanStore(n, e)
        /\ local' = [local EXCEPT ![n] = Append(@, e)]
        /\ wk' = [wk EXCEPT ![w].next = @ + 1]
     \/ /\ Breaks(w, StoreOpen(w) /\ CanStore(n, e))
        /\ PullReturns(w, FALSE)
        /\ UNCHANGED local
  /\ UNCHANGED <<remote, state, life, ops>>

PullStored(w) ==
  /\ wk[w].pc = "pullStore"
  /\ wk[w].next > Len(wk[w].evs)
  /\ PullReturns(w, TRUE)
  /\ UNCHANGED <<local, remote, state, life, ops, faults>>

(***************************************************************************)
(* push                                                                    *)
(***************************************************************************)
PushVersion(w) ==
  /\ wk[w].pc = "pushVersion"
  /\ \/ /\ Works(w, TransportOpen(w))
        /\ wk' = [wk EXCEPT ![w].since = GetLatestVersion, ![w].pc = "pushLoad",
                            ![w].owed = RangeOf(local[NodeOf[w]]) \cap Accepts]
     \/ Breaks(w, TransportOpen(w)) /\ PushReturns(w, FALSE)
  /\ UNCHANGED <<local, remote, state, life, ops>>

PushLoad(w) ==
  /\ wk[w].pc = "pushLoad"
  /\ LET evs == Load(NodeOf[w], wk[w].since)
         kept == Pick(evs, {i \in DOMAIN evs : evs[i].ev \in Accepts}) IN
     \/ /\ Works(w, StoreOpen(w))
        /\ wk' = [wk EXCEPT ![w].evs = kept, ![w].next = 1, ![w].pc = "pushBatch"]
     \/ Breaks(w, StoreOpen(w)) /\ PushReturns(w, FALSE)
  /\ UNCHANGED <<local, remote, state, life, ops>>

BatchEnd(w) ==
  IF wk[w].next + BatchSize - 1 <= Len(wk[w].evs)
    THEN wk[w].next + BatchSize - 1 ELSE Len(wk[w].evs)

Batch(w) == SubSeq(wk[w].evs, wk[w].next, BatchEnd(w))

\* transport.Push stores the batch and answers; or the answer is an error,
\* with or without the batch having been stored
PushBatch(w) ==
  /\ wk[w].pc = "pushBatch"
  /\ wk[w].next <= Len(wk[w].evs)
  /\ \/ /\ Works(w, TransportOpen(w))
        /\ remote' = remote \o Batch(w)
        /\ wk' = [wk EXCEPT ![w].next = BatchEnd(w) + 1]
     \/ /\ Breaks(w, TransportOpen(w))
        /\ PushReturns(w, FALSE)
        /\ \/ UNCHANGED remote
           \/ ~wk[w].cancelled /\ TransportOpen(w) /\ remote' = remote \o Batch(w)
  /\ UNCHANGED <<local, state, life, ops>>

PushDone(w) ==
  /\ wk[w].pc = "pushBatch"
  /\ wk[w].next > Len(wk[w].evs)
  /\ PushReturns(w, TRUE)
  /\ UNCHANGED <<local, remote, state, life, ops, faults>>

(***************************************************************************)
(* The end of Sync.                                                        *)
(***************************************************************************)

\* runProjectionsAfterSync, which may fail, when there was no error so far
RunProjections(w) ==
  /\ wk[w].pc = "projections"
  /\ \/ Go(w, "latest") /\ UNCHANGED faults
     \/ /\ ~wk[w].errs
        /\ Breaks(w, TRUE)
        /\ wk' = [wk EXCEPT ![w].errs = TRUE, ![w].pc = "latest"]
  /\ UNCHANGED <<local, remote, state, life, ops>>

FinalVersion(w) ==
  /\ wk[w].pc = "latest"
  /\ \/ Works(w, StoreOpen(w)) /\ Go(w, "final")
     \/ /\ Breaks(w, StoreOpen(w))
        /\ wk' = [wk EXCEPT ![w].errs = TRUE, ![w].pc = "final"]
  /\ UNCHANGED <<local, remote, state, life, ops>>

\* The subscribers are notified and the result is returned
Return(w) ==
  /\ wk[w].pc = "return"
  /\ wk' = [wk EXCEPT ![w] = Idler]
  /\ UNCHANGED <<local, remote, state, life, ops, faults>>

------------------------------------------------------------------------------
Step(w) ==
  \/ TestIdle(w) \/ Validate(w) \/ Refused(w) \/ Transition(w)
  \/ PullVersion(w) \/ PullFetch(w) \/ PullLoad(w) \/ Resolve(w)
  \/ PullStore(w) \/ PullStored(w)
  \/ PushVersion(w) \/ PushLoad(w) \/ PushBatch(w) \/ PushDone(w)
  \/ RunProjections(w) \/ FinalVersion(w) \/ Return(w)

Next ==
  \/ \E w \in Workers : Step(w) \/ CancelContext(w) \/ \E op \in Operations : Start(w, op)
  \/ \E n \in Nodes : CloseBegins(n) \/ CloseStep(n) \/ \E e \in Events : AppStores(n, e)

Spec == Init /\ [][Next]_vars

\* Goroutines are scheduled fairly, Close runs to its end, and the auto-sync
\* ticker (or the caller) keeps asking for a sync while the manager is open.
Fairness ==
  /\ \A w \in Workers : WF_vars(Step(w)) /\ WF_vars(Start(w, "sync"))
  /\ \A n \in Nodes : WF_vars(CloseStep(n))

FairSpec == Spec /\ Fairness

------------------------------------------------------------------------------
Versioneds == [ev : Events, ver : Nat \ {0}]
Pcs == Sites \cup {"idle", "current", "pullVersion", "pullFetch", "pullLoad",
                   "resolve", "pullStore", "pushVersion", "pushLoad",
                   "pushBatch", "projections", "latest", "return"}
WorkerStates ==
  [op : {"none", "sync", "push", "pull"}, pc : Pcs, armed : BOOLEAN, since : Nat,
   evs : Seq(Versioneds), mine : Seq(Versioneds), next : Nat, errs : BOOLEAN,
   cancelled : BOOLEAN, fetched : SUBSET Events, owed : SUBSET Events]

\* Type invariant.
TypeOK ==
  /\ local \in [Nodes -> Seq(Events)]
  /\ remote \in Seq(Versioneds)
  /\ state \in [Nodes -> SyncStates]
  /\ life \in [Nodes -> {"open", "closing", "transportClosed", "closed"}]
  /\ wk \in [Workers -> WorkerStates]
  /\ ops \in [Workers -> Nat]
  /\ faults \in Nat

IsPrefix(a, b) == Len(a) <= Len(b) /\ \A i \in 1..Len(a) : a[i] = b[i]

RemoteEvents == [i \in 1..Len(remote) |-> remote[i].ev]

\* With one pushing node and any number of pulling ones, whatever calls fail,
\* whichever batches or single events are half done, and however often they
\* are retried: the transport holds a prefix of the writer's log, and every
\* reader a prefix of the transport's.  No gap, no duplicate, no reordering.
ReplicasArePrefixes ==
  \A n \in Nodes :
    /\ Mode[n] = "push" => IsPrefix(RemoteEvents, local[n])
    /\ Mode[n] = "pull" => IsPrefix(local[n], RemoteEvents)

\* What a goroutine of the one-way deployment holds between two steps, the
\* strengthening that makes ReplicasArePrefixes inductive.  A reader in the
\* middle of a pull has fetched exactly what follows its log at the transport,
\* a writer in the middle of a push has loaded, under the versions of its
\* positions, exactly what follows the transport's log in its own.
ReaderHolds(r, log) ==
  /\ r.pc \notin {"toResolve", "resolve", "toPush", "pushVersion", "pushLoad", "pushBatch"}
  /\ r.pc \in {"pullFetch", "pullLoad"} => r.since = Len(log)
  /\ r.pc \in {"pullLoad", "pullStore"} =>
       /\ r.next \in 1..(Len(r.evs) + 1)
       /\ Len(log) + (Len(r.evs) + 1 - r.next) <= Len(remote)
       /\ \A k \in r.next..Len(r.evs) : r.evs[k].ev = remote[Len(log) + (k + 1 - r.next)].ev

WriterHolds(r, log) ==
  /\ r.pc \notin {"toPull", "pullVersion", "pullFetch", "pullLoad", "toResolve", "resolve", "pullStore"}
  /\ r.pc = "pushLoad" => r.since = Len(remote)
  /\ r.pc = "pushBatch" =>
       /\ r.next \in 1..(Len(r.evs) + 1)
       /\ Len(remote) + (Len(r.evs) + 1 - r.next) <= Len(log)
       /\ \A k \in r.next..Len(r.evs) :
            LET p == Len(remote) + (k + 1 - r.next)
            IN r.evs[k] = [ev |-> log[p], ver |-> p]

OneWayInv ==
  /\ \A n \in Nodes : Mode[n] = "push" =>
       /\ Len(remote) <= Len(local[n])
       /\ \A i \in 1..Len(remote) : remote[i] = [ev |-> local[n][i], ver |-> i]
  /\ \A n \in Nodes : Mode[n] = "pull" =>
       /\ Len(local[n]) <= Len(remote)
       /\ \A i \in 1..Len(local[n]) : local[n][i] = remote[i].ev
  /\ \A w \in Workers :
       IF Mode[NodeOf[w]] = "push" THEN WriterHolds(wk[w], local[NodeOf[w]])
                                   ELSE ReaderHolds(wk[w], local[NodeOf[w]])

\* A pull that returns without an error, alone or inside a Sync, has stored
\* every event it fetched that was in no conflict with a local one.
CleanPullStoresAll ==
  \A w \in Workers : (wk[w].pc = "return" /\ ~wk[w].errs)
                        => wk[w].fetched \subseteq RangeOf(local[NodeOf[w]])

\* The strengthening that makes CleanPullStoresAll inductive where the
\* application stores nothing at a node that pulls: nothing is stored there while
\* a pull runs, so it meets no conflict, and what it has fetched is in the store
\* or still ahead of it.
IsSeq(s) == s \in Seq(RangeOf(s))

PullHolds(r, n, log) ==
  /\ r.next \in Nat \ {0} /\ IsSeq(r.evs)
  /\ r.pc \notin {"toResolve", "resolve"}
  /\ r.pc \in {"toPull", "pullVersion", "pullFetch", "pullLoad", "pullStore"} => Origin[n] = {}
  /\ r.op = "push" => r.pc \notin {"current", "init", "toPull", "pullVersion",
                                    "pullFetch", "pullLoad", "pullStore"}
  /\ r.pc \in {"pullFetch", "pullLoad"} => r.since = Len(log)
  /\ r.pc = "pullLoad" => r.next = 1
  /\ (r.op = "push" \/ r.pc \in {"current", "init", "toPull", "pullVersion", "pullFetch", "pullLoad"})
       => r.fetched = {}
  /\ r.pc = "pullStore" =>
       r.fetched \subseteq RangeOf(log) \cup {r.evs[k].ev : k \in r.next..Len(r.evs)}
  /\ (r.pc # "pullStore" /\ ~r.errs) => r.fetched \subseteq RangeOf(log)

PullInv ==
  /\ IsSeq(remote) /\ \A n \in Nodes : IsSeq(local[n])
  /\ \A w \in Workers : PullHolds(wk[w], NodeOf[w], local[NodeOf[w]])

\* A push that returns without an error, alone or inside a Sync, has left every
\* event the store held when it began with the transport.
CleanPushDeliversAll ==
  \A w \in Workers : (wk[w].pc = "return" /\ ~wk[w].errs)
                        => wk[w].owed \subseteq RangeOf(RemoteEvents)

\* When no operation of a manager is running, its machine is back in Idle, so
\* that the next Sync is accepted.
RestsInIdle ==
  \A n \in Nodes : (\A w \in Workers : NodeOf[w] = n => wk[w].op = "none")
                     => state[n] = SyncIdle

\* The strengthening that makes RestsInIdle inductive when each manager is called
\* by one goroutine: where that goroutine is tells the state of the machine, and
\* a transition that was validated is still allowed when it is stored.
InPhase(r, s) ==
  \/ r.op = "none" /\ r.pc = "idle" /\ s = SyncIdle
  \/ /\ r.op = "pull" /\ s = SyncIdle
     /\ r.pc \in {"pullVersion", "pullFetch", "pullLoad", "toResolve", "pullStore", "return"}
  \/ /\ r.op = "push" /\ s = SyncIdle
     /\ r.pc \in {"pushVersion", "pushLoad", "pushBatch", "return"}
  \/ /\ r.op = "sync" /\ r.pc # "idle"
     /\ r.pc \in {"current", "init", "return"} => s = SyncIdle
     /\ r.pc = "toPull" => s = "Initializing"
     /\ r.pc \in {"pullVersion", "pullFetch", "pullLoad", "toResolve"} => s = "Pulling"
     /\ r.pc = "resolve" => s = "ResolvingConflicts"
     /\ r.pc = "pullStore" => s \in {"Pulling", "ResolvingConflicts"}
     /\ r.pc = "toPush" => s \in {"Initializing", "Pulling", "ResolvingConflicts"}
     /\ r.pc \in {"pushVersion", "pushLoad", "pushBatch"} => s = "Pushing"
     /\ r.pc \in {"projections", "latest", "final"} =>
          s \in {"Pulling", "ResolvingConflicts", "Pushing"}
     /\ r.pc = "toIdle" => s \in {"Completed", "Failed"}

PhaseInv ==
  /\ \A w \in Workers :
       /\ InPhase(wk[w], state[NodeOf[w]])
       /\ wk[w].armed => /\ wk[w].pc \in Sites
                         /\ Target(w) \in SyncStateTransitionRules[state[NodeOf[w]]]
  /\ \A n \in Nodes : (\A w \in Workers : NodeOf[w] # n) => state[n] = SyncIdle

\* An event stored at one node reaches every node, as long as the nodes keep
\* syncing and calls fail only finitely often.
EventsReachEveryone ==
  \A e \in Events : (\E n \in Nodes : e \in RangeOf(local[n]))
                      ~> (\A n \in Nodes : e \in RangeOf(local[n]))
==============================================================================
