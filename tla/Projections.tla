------------------------------ MODULE Projections ------------------------------
(* Read-model projections: the runners of projection/runner.go, the offset   *)
(* store they share (projection/badger/offsets.go), the worker pool that runs *)
(* them after every sync (synckit/manager.go, runProjectionsAfterSync), and   *)
(* the AfterCommit hook of the HTTP server that applies pushed events         *)
(* directly (transport/httptransport/http.go).                                *)
(*                                                                            *)
(* The event store numbers events 1, 2, ...; an event is its number. Offsets  *)
(* and read models survive a crash of the process, goroutines do not. A       *)
(* round is one call of runProjectionsAfterSync: the next one may begin while *)
(* goroutines of a round that timed out still run.                            *)
EXTENDS Integers, FiniteSets

CONSTANTS
  Runners,         \* projection runners
  MaxWorkers,      \* capacity of the worker pool, for each number of runners
  BatchSize,       \* events a runner applies at a time
  ClientVersions,  \* versions that pushed events carry
  HookRunner,      \* the runner the hook calls
  MaxStored,       \* bound: events of a node, for each number of runners
  MaxEvents, MaxRounds, MaxFaults  \* bounds of the model

ASSUME BatchAssumption == BatchSize \in Nat \ {0}
ASSUME WorkersAssumption == MaxWorkers \in [1..Cardinality(Runners) -> Nat]
ASSUME BoundsAssumption == /\ MaxEvents \in Nat
                           /\ MaxStored \in [1..Cardinality(Runners) -> 0..MaxEvents]
                           /\ MaxRounds \in Nat
                           /\ MaxFaults \in Nat
ASSUME HookAssumption == ClientVersions \subseteq Nat \ {0}

VARIABLES
  runners,  \* ProjectionConfig.Runners
  server,   \* the process is an HTTP server with the hook, not a syncing node
  log,      \* number of events in the store
  offset,   \* stored offset of each runner, 0 when there is none
  applied,  \* how often each runner's projector has applied each event
  round,    \* number of the current or last round
  wait,     \* the waiting caller: [on, got, failed]
  expired,  \* rounds whose context is done
  clean,    \* rounds that returned nil
  goal,     \* size of the log when each round began
  late,     \* ghost: the runners an earlier round had not done with when this one began
  task,     \* the goroutine of each round and runner
  hook,     \* the hook goroutine of each pushed event
  slots,    \* occupied worker slots
  faults    \* failures and crashes so far

vars == <<runners, server, log, offset, applied, round, wait, expired, clean, goal, late, task,
          hook, slots, faults>>
roundVars == <<round, wait, expired, clean, goal, late>>
bounds == <<faults, runners, server>>

Versions == 1..MaxEvents
Rounds == 1..MaxRounds
Tasks == Rounds \X Runners
Working == {"start", "load", "apply", "set"}
Pending == Working \cup {"queued"}
TaskPcs == Working \cup {"none", "queued", "release", "done"}

NoTask == [pc |-> "none", after |-> 0, last |-> 0, result |-> "none"]
NoHook == [pc |-> "none", version |-> 0]
NoWait == [on |-> FALSE, got |-> {}, failed |-> FALSE]

TypeOK ==
  /\ runners \subseteq Runners
  /\ server \in BOOLEAN
  /\ log \in 0..MaxEvents
  /\ offset \in [Runners -> Nat]
  /\ applied \in [Runners -> [Versions -> Nat]]
  /\ round \in 0..MaxRounds
  /\ wait \in [on: BOOLEAN, got: SUBSET Runners, failed: BOOLEAN]
  /\ expired \subseteq Rounds /\ clean \subseteq Rounds
  /\ goal \in [Rounds -> 0..MaxEvents]
  /\ late \subseteq Runners
  /\ task \in [Tasks -> [pc: TaskPcs, after: Nat, last: Nat,
                         result: {"none", "ok", "error"}]]
  /\ hook \in [Versions -> [pc: {"none", "apply", "set", "done"}, version: Nat]]
  /\ slots \in Nat
  /\ faults \in 0..MaxFaults

Init ==
  /\ runners \in {R \in SUBSET Runners : HookRunner \in R}
  /\ server \in BOOLEAN
  /\ log = 0
  /\ offset = [p \in Runners |-> 0]
  /\ applied = [p \in Runners |-> [v \in Versions |-> 0]]
  /\ round = 0 /\ wait = NoWait
  /\ expired = {} /\ clean = {}
  /\ goal = [r \in Rounds |-> 0]
  /\ late = {}
  /\ task = [t \in Tasks |-> NoTask]
  /\ hook = [v \in Versions |-> NoHook]
  /\ slots = 0
  /\ faults = 0

Fault == faults < MaxFaults /\ faults' = faults + 1 /\ UNCHANGED <<runners, server>>

(****************************************************************************)
(* The store and the hook of the HTTP server.                                *)
(****************************************************************************)
\* An event is stored, by a sync or by a push request without a hook.
StoreEvent ==
  /\ ~server /\ log < MaxStored[Cardinality(runners)]
  /\ log' = log + 1
  /\ UNCHANGED <<offset, applied, roundVars, task, hook, slots, bounds>>

\* Mutant of PushEvent: the hook runs only for versions beyond the offset.
PushEventIfNew(version) ==
  /\ server /\ log < MaxEvents
  /\ log' = log + 1
  /\ hook' = [hook EXCEPT ![log + 1] =
                [pc |-> IF version > offset[HookRunner] THEN "apply" ELSE "done",
                 version |-> version]]
  /\ UNCHANGED <<offset, applied, roundVars, task, slots, bounds>>

\* handlePush stores an event, answers, and starts the hook with the event as
\* the client sent it: the version is the client's, not the one assigned here.
PushEvent(version) ==
  /\ server /\ log < MaxEvents
  /\ log' = log + 1
  /\ hook' = [hook EXCEPT ![log + 1] = [pc |-> "apply", version |-> version]]
  /\ UNCHANGED <<offset, applied, roundVars, task, slots, bounds>>

\* ApplyBatch called by the hook: the projector, then the offset.
HookApplies(v) ==
  /\ hook[v].pc = "apply"
  /\ applied' = [applied EXCEPT ![HookRunner][v] = @ + 1]
  /\ hook' = [hook EXCEPT ![v].pc = "set"]
  /\ UNCHANGED <<log, offset, roundVars, task, slots, bounds>>

HookSetsOffset(v) ==
  /\ hook[v].pc = "set"
  /\ offset' = [offset EXCEPT ![HookRunner] = hook[v].version]
  /\ hook' = [hook EXCEPT ![v].pc = "done"]
  /\ UNCHANGED <<log, applied, roundVars, task, slots, bounds>>

\* The projector or the offset store fails; the hook only logs the error.
HookFails(v) ==
  /\ hook[v].pc \in {"apply", "set"} /\ Fault
  /\ hook' = [hook EXCEPT ![v].pc = "done"]
  /\ UNCHANGED <<log, offset, applied, roundVars, task, slots>>

(****************************************************************************)
(* One runner's goroutine.                                                   *)
(****************************************************************************)
Workers == MaxWorkers[Cardinality(runners)]

Move(t, pc) == task' = [task EXCEPT ![t].pc = pc]

\* ApplySince has returned; the goroutine reports on one of the two channels,
\* which are large enough never to block, and then frees its slot.
Report(t, result) == task' = [task EXCEPT ![t].pc = "release", ![t].result = result]

\* The pool is a channel of capacity MaxWorkers.
Acquire(t) ==
  /\ task[t].pc = "queued" /\ slots < Workers
  /\ slots' = slots + 1
  /\ Move(t, "start")
  /\ UNCHANGED <<log, offset, applied, roundVars, hook, bounds>>

\* The context ended first: an error, and there is no slot to free.
GiveUpWaiting(t) ==
  /\ task[t].pc = "queued" /\ t[1] \in expired
  /\ task' = [task EXCEPT ![t].pc = "done", ![t].result = "error"]
  /\ UNCHANGED <<log, offset, applied, roundVars, hook, slots, bounds>>

\* Mutant of ReadOffset: every call starts from the zero version.
ReadOffsetBehind(t) ==
  /\ task[t].pc = "start"
  /\ task' = [task EXCEPT ![t].pc = "load", ![t].after = 0]
  /\ UNCHANGED <<log, offset, applied, roundVars, hook, slots, bounds>>

\* getStartVersion: the stored offset, or the zero version.
ReadOffset(t) ==
  /\ task[t].pc = "start"
  /\ task' = [task EXCEPT ![t].pc = "load", ![t].after = offset[t[2]]]
  /\ UNCHANGED <<log, offset, applied, roundVars, hook, slots, bounds>>

BatchEnd(after) == IF after + BatchSize < log THEN after + BatchSize ELSE log

\* Load everything after the position, cut to a batch; none left: done.
LoadBatch(t) ==
  /\ task[t].pc = "load" /\ t[1] \notin expired
  /\ IF task[t].after >= log
     THEN Report(t, "ok")
     ELSE task' = [task EXCEPT ![t].pc = "apply", ![t].last = BatchEnd(task[t].after)]
  /\ UNCHANGED <<log, offset, applied, roundVars, hook, slots, bounds>>

\* The store refuses to load once the context is done.
LoadFails(t) ==
  /\ task[t].pc = "load" /\ t[1] \in expired
  /\ Report(t, "error")
  /\ UNCHANGED <<log, offset, applied, roundVars, hook, slots, bounds>>

Batch(t) == {v \in Versions : task[t].after < v /\ v <= task[t].last}

\* Mutant of ApplyEvents: the last event of a full batch is left out.
ApplyAllButLast(t) ==
  /\ task[t].pc = "apply"
  /\ applied' = [applied EXCEPT ![t[2]] =
       [v \in Versions |-> IF v \in Batch(t) /\ v - task[t].after < BatchSize
                           THEN @[v] + 1 ELSE @[v]]]
  /\ Move(t, "set")
  /\ UNCHANGED <<log, offset, roundVars, hook, slots, bounds>>

\* ApplyBatch, first half: the projector applies the batch.
ApplyEvents(t) ==
  /\ task[t].pc = "apply"
  /\ applied' = [applied EXCEPT ![t[2]] =
       [v \in Versions |-> IF v \in Batch(t) THEN @[v] + 1 ELSE @[v]]]
  /\ Move(t, "set")
  /\ UNCHANGED <<log, offset, roundVars, hook, slots, bounds>>

Full(t) == task[t].last = task[t].after + BatchSize

\* ApplyBatch, second half: the offset is stored. A batch that is not full was
\* the last one.
SetOffset(t) ==
  /\ task[t].pc = "set"
  /\ offset' = [offset EXCEPT ![t[2]] = task[t].last]
  /\ IF Full(t)
     THEN task' = [task EXCEPT ![t].pc = "load", ![t].after = task[t].last]
     ELSE Report(t, "ok")
  /\ UNCHANGED <<log, applied, roundVars, hook, slots, bounds>>

\* The offset store, the event store or the projector returns an error; a
\* projector may have applied the batch before it failed.
StepFails(t) ==
  /\ task[t].pc \in {"start", "load", "apply", "set"} /\ Fault
  /\ Report(t, "error")
  /\ UNCHANGED <<log, offset, applied, roundVars, hook, slots>>

\* The deferred receive from the pool.
Release(t) ==
  /\ task[t].pc = "release"
  /\ slots' = slots - 1
  /\ Move(t, "done")
  /\ UNCHANGED <<log, offset, applied, roundVars, hook, bounds>>

(****************************************************************************)
(* The caller: one round after each successful sync.                         *)
(****************************************************************************)
BeginRound ==
  /\ ~server /\ ~wait.on /\ round < MaxRounds
  /\ round' = round + 1
  /\ wait' = [NoWait EXCEPT !.on = TRUE]
  /\ goal' = [goal EXCEPT ![round + 1] = log]
  /\ late' = {p \in Runners : \E t \in Tasks : t[2] = p /\ task[t].pc \in Pending}
  /\ task' = [t \in Tasks |-> IF t[1] = round + 1 /\ t[2] \in runners
                              THEN [NoTask EXCEPT !.pc = "queued"] ELSE task[t]]
  /\ UNCHANGED <<log, offset, applied, expired, clean, hook, slots, bounds>>

\* The timeout of the round, or its parent context, fires.
Expire ==
  /\ wait.on /\ round \notin expired
  /\ expired' = expired \cup {round}
  /\ UNCHANGED <<log, offset, applied, round, wait, clean, goal, late, task, hook,
                 slots, bounds>>

\* Mutant of Collect: an error is counted as completed and then forgotten.
CollectForgetsErrors(p) ==
  /\ wait.on /\ p \notin wait.got /\ task[<<round, p>>].result # "none"
  /\ wait' = [wait EXCEPT !.got = @ \cup {p}]
  /\ UNCHANGED <<log, offset, applied, round, expired, clean, goal, late, task, hook,
                 slots, bounds>>

\* A receive from completedChan or errorChan.
Collect(p) ==
  /\ wait.on /\ p \notin wait.got /\ task[<<round, p>>].result # "none"
  /\ wait' = [wait EXCEPT !.got = @ \cup {p},
                          !.failed = @ \/ task[<<round, p>>].result = "error"]
  /\ UNCHANGED <<log, offset, applied, round, expired, clean, goal, late, task, hook,
                 slots, bounds>>

\* All runners have reported. The deferred cancel ends the round's context.
RoundReturns ==
  /\ wait.on /\ wait.got = runners
  /\ wait' = NoWait
  /\ clean' = IF wait.failed THEN clean ELSE clean \cup {round}
  /\ expired' = expired \cup {round}
  /\ UNCHANGED <<log, offset, applied, round, goal, late, task, hook, slots, bounds>>

\* The context ended while runners are pending: the round returns an error and
\* leaves them running.
RoundTimesOut ==
  /\ wait.on /\ wait.got # runners /\ round \in expired
  /\ wait' = NoWait
  /\ UNCHANGED <<log, offset, applied, round, expired, clean, goal, late, task, hook,
                 slots, bounds>>

\* The process crashes and restarts.
Crash ==
  /\ Fault
  /\ task' = [t \in Tasks |-> [task[t] EXCEPT !.pc = IF @ = "none" THEN @ ELSE "done"]]
  /\ hook' = [v \in Versions |-> [hook[v] EXCEPT !.pc = IF @ = "none" THEN @ ELSE "done"]]
  /\ wait' = NoWait
  /\ expired' = 1..round
  /\ slots' = 0
  /\ UNCHANGED <<log, offset, applied, round, clean, goal, late>>

TaskStep(t) ==
  \/ Acquire(t) \/ GiveUpWaiting(t) \/ ReadOffset(t)
  \/ LoadBatch(t) \/ LoadFails(t) \/ ApplyEvents(t) \/ SetOffset(t)
  \/ Release(t)

HookStep(v) == HookApplies(v) \/ HookSetsOffset(v) \* ApplyBatch

CallerStep == (\E p \in runners : Collect(p)) \/ RoundReturns \/ RoundTimesOut

Next ==
  \/ StoreEvent
  \/ \E version \in ClientVersions : PushEvent(version)
  \/ \E v \in Versions : HookStep(v) \/ HookFails(v)
  \/ \E t \in Tasks : TaskStep(t) \/ StepFails(t)
  \/ BeginRound \/ Expire \/ CallerStep
  \/ Crash

Spec == Init /\ [][Next]_vars

\* Goroutines are scheduled, timers fire and stores return. A projector may
\* hang: nothing is assumed of ApplyEvents.
FairSpec ==
  /\ Spec
  /\ WF_vars(\E t \in Tasks : task[t].pc # "apply" /\ TaskStep(t))
  /\ WF_vars(\E v \in Versions : HookStep(v))
  /\ WF_vars(CallerStep) /\ WF_vars(Expire)

(****************************************************************************)
(* Properties.                                                               *)
(****************************************************************************)
\* Every slot that is taken is held by a goroutine that is still running, and
\* no more than MaxWorkers runners work at a time, over all rounds together
\* (runProjectionsAfterSync: the send to projectionPool and the deferred
\* receive).
SlotsAreHeld ==
  /\ slots = Cardinality({t \in Tasks : task[t].pc \in Working \cup {"release"}})
  /\ slots <= Workers

\* At least once: when no hook bypasses the log, each event at or below a
\* stored offset has been applied, also across crashes, failures and runners
\* that outlive their round (ApplyBatch stores the offset after Apply).
NothingSkipped ==
  ~server =>
    \A p \in Runners : \A v \in Versions : v <= offset[p] => applied[p][v] > 0

\* A round that returns nil has brought every projection up to the log it
\* found (the wait loop of runProjectionsAfterSync).
CleanRoundCatchesUp ==
  \A r \in clean : \A p \in runners :
    \A v \in Versions : v <= goal[r] => applied[p][v] > 0

\* On a syncing node an offset moves back only in a round that began while a
\* goroutine of an earlier round still ran the same projection: two runners,
\* and either may be behind (projection/interfaces.go: the last applied version;
\* runProjectionsAfterSync leaves the runners of a round that timed out behind).
OnlyLateRunnersMoveBack ==
  [][~server => \A p \in Runners : offset'[p] < offset[p] => p \in late]_vars

\* Every pushed event reaches the read model through its hook, unless a failure
\* or a crash intervenes (handlePush starts the hook after the commit).
PushIsProjected ==
  \A v \in Versions :
    hook[v].pc # "none" ~> (applied[HookRunner][v] > 0 \/ faults > 0)

\* Every round returns to the caller, even when every runner hangs
\* (the wait loop's third case).
RoundsReturn == wait.on ~> ~wait.on

(****************************************************************************)
(* The strengthening that makes NothingSkipped inductive: what a goroutine   *)
(* has read from the offset store, or applied, has been applied.             *)
(****************************************************************************)
AppliedUpTo(p, n) == \A v \in Versions : v <= n => applied[p][v] > 0

TasksKnow ==
  \A t \in Tasks :
    /\ task[t].pc \in {"load", "apply", "set"} => AppliedUpTo(t[2], task[t].after)
    /\ task[t].pc = "set" => AppliedUpTo(t[2], task[t].last)

NoHooks == ~server => \A v \in Versions : hook[v].pc = "none"

ProjectionInv == NothingSkipped /\ TasksKnow /\ NoHooks

(****************************************************************************)
(* The strengthening that makes CleanRoundCatchesUp inductive: a goroutine    *)
(* that is not done will load again, or holds a batch that reaches the goal   *)
(* of its round; one that reported success has reached it; and the caller has *)
(* heard what it has counted.                                                 *)
(****************************************************************************)
TasksAim ==
  \A t \in Tasks :
    /\ t[1] > round => task[t].pc = "none"
    /\ task[t].pc \in Pending \cup {"none"} => task[t].result = "none"
    /\ task[t].pc \in {"apply", "set"} => Full(t) \/ task[t].last >= goal[t[1]]
    /\ task[t].result = "ok" => AppliedUpTo(t[2], goal[t[1]])

CallerKnows ==
  /\ (wait.on \/ wait.got # {}) => round > 0
  /\ \A p \in wait.got : /\ task[<<round, p>>].result # "none"
                         /\ task[<<round, p>>].result = "error" => wait.failed

RoundInv ==
  /\ TasksAim /\ CallerKnows /\ CleanRoundCatchesUp
  /\ clean \subseteq 1..round
  /\ \A r \in Rounds : goal[r] <= log

\* The strengthening that makes OnlyLateRunnersMoveBack hold of every step: of a
\* projection that no earlier round still works on, the one goroutine at work is
\* the current round's, and goes on from the stored offset.
OneRunner ==
  \A t \in Tasks : (t[2] \notin late /\ task[t].pc \in Pending) =>
    /\ t[1] = round
    /\ task[t].pc \in {"load", "apply", "set"} => task[t].after = offset[t[2]]
    /\ task[t].pc \in {"apply", "set"} => task[t].after <= task[t].last
================================================================================
