--------------------------- MODULE ProjectionsProofs ----------------------------
(* Proofs about the projections that run after every sync.                       *)
EXTENDS Projections, TLAPS

USE ZenonT(3), SMTT(30)

(********************************************************************************)
(* The projections, for any number of runners, workers, rounds, events,          *)
(* failures and crashes, and any batch size.                                     *)
(*                                                                               *)
(* At least once (AtLeastOnce): the invariant is ProjectionInv with the types;   *)
(* what a goroutine of any round, late ones included, has read from the offset   *)
(* store or handed to the projector has been applied, so whatever it stores as   *)
(* an offset is safe to start from. A clean round has caught up (CleanRounds):   *)
(* RoundInv follows its goroutines to the goal. Offsets advance                  *)
(* (OffsetsAdvance): OneRunner, from which each step of Next keeps its promise.  *)
(********************************************************************************)

Goroutines == [pc : TaskPcs, after : Nat, last : Nat, result : {"none", "ok", "error"}]

NodeTypes ==
  /\ log \in Nat
  /\ offset \in [Runners -> Nat]
  /\ applied \in [Runners -> [Versions -> Nat]]
  /\ task \in [Tasks -> Goroutines]
  /\ hook \in [Versions -> [pc : {"none", "apply", "set", "done"}, version : Nat]]

\* Of a server, whose hook bypasses the log, nothing is claimed.
NodeInv == ~server => NodeTypes /\ ProjectionInv

--------------------------------------------------------------------------------
\* A process that has just been started for the first time.
LEMMA InitNode == Init => NodeInv
<1> SUFFICES ASSUME Init PROVE NodeTypes /\ ProjectionInv BY DEF NodeInv
<1>1. NoTask \in Goroutines BY DEF NoTask, Goroutines, TaskPcs
<1>2. NodeTypes BY <1>1 DEF Init, NodeTypes, NoHook
<1>3. \A t \in Tasks : task[t].pc = "none" BY DEF Init, NoTask
<1>4. TasksKnow BY <1>3 DEF TasksKnow
<1>5. NothingSkipped BY DEF Init, NothingSkipped, Versions
<1>6. NoHooks BY DEF Init, NoHooks, NoHook
<1> QED BY <1>2, <1>4, <1>5, <1>6 DEF ProjectionInv

\* The counts of a read model say that the events up to n were applied.
UpTo(counts, n) == \A v \in Versions : v <= n => counts[v] > 0

\* A step in which nothing that was applied is taken back.
Kept == \A p \in Runners : \A v \in Versions : applied[p][v] > 0 => applied'[p][v] > 0

\* What a step of one goroutine has to show: that what it now knows to be
\* applied has been, and that the offset it may have stored is such.
LEMMA TaskChange ==
  ASSUME NodeTypes, ProjectionInv, ~server, ~server', NEW t \in Tasks, NEW next \in Goroutines,
         task' = [task EXCEPT ![t] = next], UNCHANGED <<log, hook>>, Kept,
         applied' \in [Runners -> [Versions -> Nat]],
         offset' \in [Runners -> Nat],
         \A p \in Runners : offset'[p] = offset[p] \/ UpTo(applied'[p], offset'[p]),
         next.pc \in {"load", "apply", "set"} => UpTo(applied'[t[2]], next.after),
         next.pc = "set" => UpTo(applied'[t[2]], next.last)
  PROVE  NodeTypes' /\ ProjectionInv'
<1>1. NodeTypes' BY DEF NodeTypes
<1>2. ASSUME NEW p \in Runners, NEW n, UpTo(applied[p], n) PROVE UpTo(applied'[p], n)
  BY <1>2 DEF UpTo, Kept
<1>3. NothingSkipped'
  <2>1. \A p \in Runners : UpTo(applied[p], offset[p]) BY DEF ProjectionInv, NothingSkipped, UpTo
  <2>2. \A p \in Runners : UpTo(applied'[p], offset'[p]) BY <1>2, <2>1
  <2> QED BY <2>2 DEF NothingSkipped, UpTo
<1>4. TasksKnow'
  <2>1. ASSUME NEW u \in Tasks
        PROVE  /\ task'[u].pc \in {"load", "apply", "set"} => UpTo(applied'[u[2]], task'[u].after)
               /\ task'[u].pc = "set" => UpTo(applied'[u[2]], task'[u].last)
    <3>1. CASE u = t
      <4>1. task'[u] = next BY <3>1 DEF NodeTypes
      <4> QED BY <3>1, <4>1
    <3>2. CASE u # t
      <4>1. task'[u] = task[u] /\ u[2] \in Runners BY <3>2, <2>1 DEF NodeTypes, Tasks
      <4>2. /\ task[u].pc \in {"load", "apply", "set"} => UpTo(applied[u[2]], task[u].after)
            /\ task[u].pc = "set" => UpTo(applied[u[2]], task[u].last)
        BY <2>1 DEF ProjectionInv, TasksKnow, AppliedUpTo, UpTo
      <4> QED BY <4>1, <4>2, <1>2
    <3> QED BY <3>1, <3>2
  <2> QED BY <2>1 DEF TasksKnow, AppliedUpTo, UpTo
<1>5. NoHooks' BY DEF ProjectionInv, NoHooks
<1> QED BY <1>1, <1>3, <1>4, <1>5 DEF ProjectionInv


\* Goroutines that start, wait, report, end or are killed know nothing new.
LEMMA NothingLearned ==
  ASSUME NodeTypes, ProjectionInv, ~server, ~server', UNCHANGED <<offset, applied>>, log' \in Nat,
         task' \in [Tasks -> Goroutines],
         \A t \in Tasks : task'[t] = task[t] \/ task'[t].pc \notin {"load", "apply", "set"},
         hook' \in [Versions -> [pc : {"none", "apply", "set", "done"}, version : Nat]],
         \A v \in Versions : hook'[v].pc = "none"
  PROVE  NodeTypes' /\ ProjectionInv'
<1>1. NodeTypes' BY DEF NodeTypes
<1>2. NothingSkipped' BY DEF ProjectionInv, NothingSkipped
<1>3. TasksKnow' BY DEF ProjectionInv, TasksKnow, AppliedUpTo
<1> QED BY <1>1, <1>2, <1>3 DEF ProjectionInv, NoHooks

\* ReadOffset: what the offset store says has been applied.
LEMMA ReadOffsetKeeps ==
  ASSUME NodeTypes, ProjectionInv, ~server, NEW t \in Tasks, ReadOffset(t)
  PROVE  NodeTypes' /\ ProjectionInv'
<1> DEFINE next == [task[t] EXCEPT !.pc = "load", !.after = offset[t[2]]]
<1>1. t[2] \in Runners /\ task[t] \in Goroutines /\ offset[t[2]] \in Nat BY DEF Tasks, NodeTypes
<1>2. task' = [task EXCEPT ![t] = next] /\ UNCHANGED <<log, offset, applied, hook, server>>
  BY Zenon DEF ReadOffset, bounds
<1>3. next \in Goroutines /\ next.pc = "load" /\ next.after = offset[t[2]]
  BY <1>1, Zenon DEF Goroutines, TaskPcs, Working
<1> HIDE DEF next
<1>4. UpTo(applied'[t[2]], next.after) BY <1>1, <1>2, <1>3 DEF ProjectionInv, NothingSkipped, UpTo
<1>5. Kept BY <1>2 DEF Kept
<1> QED BY <1>2, <1>3, <1>4, <1>5, TaskChange, Zenon DEF NodeTypes

\* LoadBatch: the position stays, the batch is not applied yet.
LEMMA LoadBatchKeeps ==
  ASSUME NodeTypes, ProjectionInv, ~server, NEW t \in Tasks, LoadBatch(t)
  PROVE  NodeTypes' /\ ProjectionInv'
<1>1. t[2] \in Runners /\ task[t] \in Goroutines /\ task[t].pc = "load" /\ log \in Nat
  BY DEF Tasks, NodeTypes, LoadBatch
<1>2. UNCHANGED <<log, offset, applied, hook, server>> BY DEF LoadBatch, bounds
<1>3. UpTo(applied[t[2]], task[t].after) BY <1>1 DEF ProjectionInv, TasksKnow, AppliedUpTo, UpTo
<1>4. Kept BY <1>2 DEF Kept
<1>5. CASE task[t].after >= log
  <2> DEFINE next == [task[t] EXCEPT !.pc = "release", !.result = "ok"]
  <2>1. task' = [task EXCEPT ![t] = next] BY <1>5, Zenon DEF LoadBatch, Report
  <2>2. next \in Goroutines /\ next.pc = "release" BY <1>1, Zenon DEF Goroutines, TaskPcs
  <2> HIDE DEF next
  <2> QED BY <1>2, <1>4, <2>1, <2>2, TaskChange, Zenon DEF NodeTypes
<1>6. CASE ~(task[t].after >= log)
  <2> DEFINE last == BatchEnd(task[t].after)
             next == [task[t] EXCEPT !.pc = "apply", !.last = last]
  <2>1. task' = [task EXCEPT ![t] = next] BY <1>6, Zenon DEF LoadBatch
  <2>2. last \in Nat BY <1>1, BatchAssumption DEF BatchEnd, Goroutines
  <2> HIDE DEF last
  <2>3. next \in Goroutines /\ next.pc = "apply" /\ next.after = task[t].after
    BY <1>1, <2>2, Zenon DEF Goroutines, TaskPcs, Working
  <2> HIDE DEF next
  <2> QED BY <1>2, <1>3, <1>4, <2>1, <2>3, TaskChange, Zenon DEF NodeTypes
<1> QED BY <1>5, <1>6

\* ApplyEvents: with the batch, everything up to its last event is applied.
LEMMA ApplyKeeps ==
  ASSUME NodeTypes, ProjectionInv, ~server, NEW t \in Tasks, ApplyEvents(t)
  PROVE  NodeTypes' /\ ProjectionInv'
<1> DEFINE next == [task[t] EXCEPT !.pc = "set"]
           counts == [v \in Versions |-> IF v \in Batch(t) THEN applied[t[2]][v] + 1 ELSE applied[t[2]][v]]
<1>1. t[2] \in Runners /\ task[t] \in Goroutines /\ task[t].pc = "apply" BY DEF Tasks, NodeTypes, ApplyEvents
<1>2. /\ task' = [task EXCEPT ![t] = next] /\ applied' = [applied EXCEPT ![t[2]] = counts]
      /\ UNCHANGED <<log, offset, hook, server>>
  BY DEF ApplyEvents, Move, bounds
<1>3. next \in Goroutines /\ next.pc = "set" /\ next.after = task[t].after /\ next.last = task[t].last
  BY <1>1 DEF Goroutines, TaskPcs, Working
<1>4. counts \in [Versions -> Nat] /\ \A v \in Versions : applied[t[2]][v] \in Nat
  BY <1>1 DEF NodeTypes
<1>5. applied' \in [Runners -> [Versions -> Nat]] /\ applied'[t[2]] = counts
      /\ \A p \in Runners \ {t[2]} : applied'[p] = applied[p]
  BY <1>1, <1>2, <1>4 DEF NodeTypes
<1>6. \A v \in Versions : applied[t[2]][v] > 0 \/ v \in Batch(t) => counts[v] > 0
  BY <1>4
<1>7. Kept BY <1>5, <1>6 DEF Kept
<1>8. UpTo(applied[t[2]], task[t].after) BY <1>1 DEF ProjectionInv, TasksKnow, AppliedUpTo, UpTo
<1>9. UpTo(counts, task[t].after) BY <1>6, <1>8 DEF UpTo
<1>10. UpTo(counts, task[t].last)
  <2> SUFFICES ASSUME NEW v \in Versions, v <= task[t].last PROVE counts[v] > 0 BY DEF UpTo
  <2>1. v \in Nat /\ task[t].after \in Nat BY <1>1, BoundsAssumption DEF Versions, Goroutines
  <2>2. CASE v <= task[t].after BY <2>2, <1>9 DEF UpTo
  <2>3. CASE task[t].after < v BY <2>3, <1>6 DEF Batch
  <2> QED BY <2>1, <2>2, <2>3
<1> HIDE DEF next, counts
<1> QED BY <1>2, <1>3, <1>5, <1>7, <1>9, <1>10, TaskChange, Zenon DEF NodeTypes

\* SetOffset: what is stored has been applied; a full batch goes on from there.
LEMMA SetOffsetKeeps ==
  ASSUME NodeTypes, ProjectionInv, ~server, NEW t \in Tasks, SetOffset(t)
  PROVE  NodeTypes' /\ ProjectionInv'
<1> DEFINE next == IF Full(t) THEN [task[t] EXCEPT !.pc = "load", !.after = task[t].last]
                   ELSE [task[t] EXCEPT !.pc = "release", !.result = "ok"]
<1>1. /\ t[2] \in Runners /\ task[t] \in Goroutines /\ task[t].pc = "set" /\ task[t].last \in Nat
  BY DEF Tasks, NodeTypes, SetOffset, Goroutines
<1>2. /\ task' = [task EXCEPT ![t] = next] /\ offset' = [offset EXCEPT ![t[2]] = task[t].last]
      /\ UNCHANGED <<log, applied, hook, server>>
  BY Zenon DEF SetOffset, Report, bounds
<1>3. next \in Goroutines /\ next.pc \in {"load", "release"} /\ (next.pc = "load" => next.after = task[t].last)
  <2>1. CASE Full(t) BY <2>1, <1>1, Zenon DEF Goroutines, TaskPcs, Working
  <2>2. CASE ~Full(t) BY <2>2, <1>1, Zenon DEF Goroutines, TaskPcs
  <2> QED BY <2>1, <2>2
<1> HIDE DEF next
<1>4. UpTo(applied'[t[2]], task[t].last) BY <1>1, <1>2 DEF ProjectionInv, TasksKnow, AppliedUpTo, UpTo
<1>5. offset' \in [Runners -> Nat] /\ \A p \in Runners : offset'[p] = offset[p] \/ UpTo(applied'[p], offset'[p])
  BY <1>1, <1>2, <1>4 DEF NodeTypes
<1>6. Kept BY <1>2 DEF Kept
<1> QED BY <1>2, <1>3, <1>4, <1>5, <1>6, TaskChange, Zenon DEF NodeTypes


\* The other steps of a goroutine: it gets a slot, gives up, reports or ends.
LEMMA QuietTask ==
  ASSUME NodeTypes, ProjectionInv, ~server, NEW t \in Tasks,
         Acquire(t) \/ GiveUpWaiting(t) \/ LoadFails(t) \/ StepFails(t) \/ Release(t)
  PROVE  NodeTypes' /\ ProjectionInv'
<1>1. task[t] \in Goroutines BY DEF NodeTypes
<1>2. UNCHANGED <<log, offset, applied, hook, server>>
  BY DEF Acquire, GiveUpWaiting, LoadFails, StepFails, Release, Fault, bounds
<1>3. \E pc \in {"start", "release", "done"} :
        \/ task' = [task EXCEPT ![t].pc = pc]
        \/ task' = [task EXCEPT ![t].pc = pc, ![t].result = "error"]
  BY DEF Acquire, GiveUpWaiting, LoadFails, StepFails, Release, Move, Report
<1>4. PICK pc \in {"start", "release", "done"} :
        \/ task' = [task EXCEPT ![t].pc = pc]
        \/ task' = [task EXCEPT ![t].pc = pc, ![t].result = "error"]
  BY <1>3
<1>5. /\ task'[t] \in Goroutines /\ task'[t].pc \notin {"load", "apply", "set"}
      /\ \A u \in Tasks \ {t} : task'[u] = task[u]
  BY <1>1, <1>4 DEF NodeTypes, Goroutines, TaskPcs, Working
<1>6. task' \in [Tasks -> Goroutines] BY <1>4, <1>5 DEF NodeTypes
<1> QED BY <1>2, <1>5, <1>6, NothingLearned DEF NodeTypes, ProjectionInv, NoHooks

\* BeginRound queues the goroutines of a round, and a crash ends all of them.
LEMMA ManyTasks ==
  ASSUME NodeTypes, ProjectionInv, ~server, BeginRound \/ Crash
  PROVE  NodeTypes' /\ ProjectionInv'
<1>1. CASE BeginRound
  <2> DEFINE new == [NoTask EXCEPT !.pc = "queued"]
  <2>1. new \in Goroutines /\ new.pc = "queued"
    <3>1. NoTask \in Goroutines BY DEF NoTask, Goroutines, TaskPcs
    <3> QED BY <3>1 DEF Goroutines, TaskPcs
  <2>2. \A t \in Tasks : task'[t] = task[t] \/ task'[t] = new BY <1>1 DEF BeginRound
  <2>3. task' \in [Tasks -> Goroutines]
    BY <1>1, <2>1 DEF BeginRound, NodeTypes
  <2> HIDE DEF new
  <2>4. UNCHANGED <<log, offset, applied, hook, server>> BY <1>1 DEF BeginRound, bounds
  <2> QED BY <2>1, <2>2, <2>3, <2>4, NothingLearned DEF NodeTypes, ProjectionInv, NoHooks
<1>2. CASE Crash
  <2> DEFINE hooks == [pc : {"none", "apply", "set", "done"}, version : Nat]
  <2>1. UNCHANGED <<log, offset, applied, server>> BY <1>2 DEF Crash, Fault
  <2>2. \A t \in Tasks : task'[t] = [task[t] EXCEPT !.pc = IF @ = "none" THEN @ ELSE "done"]
    BY <1>2 DEF Crash
  <2>3. ASSUME NEW t \in Tasks PROVE task'[t] \in Goroutines /\ task'[t].pc \in {"none", "done"}
    <3>1. task[t] \in Goroutines BY DEF NodeTypes
    <3>2. CASE task[t].pc = "none" BY <3>1, <3>2, <2>2 DEF Goroutines, TaskPcs
    <3>3. CASE task[t].pc # "none" BY <3>1, <3>3, <2>2, Zenon DEF Goroutines, TaskPcs
    <3> QED BY <3>2, <3>3
  <2>4. task' \in [Tasks -> Goroutines] BY <1>2, <2>3 DEF Crash
  <2>5. ASSUME NEW v \in Versions PROVE hook'[v] \in hooks /\ hook'[v].pc = "none"
    <3>1. hook[v] \in hooks /\ hook[v].pc = "none" BY DEF NodeTypes, ProjectionInv, NoHooks
    <3>2. hook'[v] = [hook[v] EXCEPT !.pc = "none"] BY <1>2, <3>1 DEF Crash
    <3> QED BY <3>1, <3>2
  <2>6. hook' \in [Versions -> hooks] BY <1>2, <2>5 DEF Crash
  <2> QED BY <2>1, <2>3, <2>4, <2>5, <2>6, NothingLearned DEF NodeTypes
<1> QED BY <1>1, <1>2

\* No process changes its kind.
LEMMA KindStays == [Next]_vars => UNCHANGED server
BY Zenon DEF Next, vars, StoreEvent, PushEvent, HookStep, HookApplies, HookSetsOffset, HookFails, TaskStep, StepFails,
         Acquire, GiveUpWaiting, ReadOffset, LoadBatch, LoadFails, ApplyEvents, SetOffset, Release,
         BeginRound, Expire, CallerStep, Collect, RoundReturns, RoundTimesOut, Crash, Fault, bounds

\* Every step preserves the invariant.
LEMMA NextNode == NodeInv /\ [Next]_vars => NodeInv'
<1> SUFFICES ASSUME NodeTypes, ProjectionInv, ~server, ~server', [Next]_vars
             PROVE  NodeTypes' /\ ProjectionInv'
  BY KindStays DEF NodeInv
<1>2. ASSUME UNCHANGED <<offset, applied, task, hook>>, log' \in Nat PROVE NodeTypes' /\ ProjectionInv'
  BY <1>2, NothingLearned DEF NodeTypes, ProjectionInv, NoHooks
<1>3. CASE UNCHANGED vars BY <1>2, <1>3 DEF vars, NodeTypes
<1>4. CASE StoreEvent BY <1>2, <1>4 DEF StoreEvent, NodeTypes
<1>5. ~(\E version \in ClientVersions : PushEvent(version)) BY Zenon DEF PushEvent
<1>6. ~(\E v \in Versions : HookStep(v) \/ HookFails(v))
  BY DEF HookStep, HookApplies, HookSetsOffset, HookFails, ProjectionInv, NoHooks
<1>7. ASSUME NEW t \in Tasks, TaskStep(t) \/ StepFails(t) PROVE NodeTypes' /\ ProjectionInv'
  BY <1>7, QuietTask, ReadOffsetKeeps, LoadBatchKeeps, ApplyKeeps, SetOffsetKeeps DEF TaskStep
<1>8. CASE Expire \/ CallerStep
  BY <1>2, <1>8, Zenon DEF Expire, CallerStep, Collect, RoundReturns, RoundTimesOut, NodeTypes
<1>9. CASE BeginRound \/ Crash BY <1>9, ManyTasks
<1> QED BY <1>3, <1>4, <1>5, <1>6, <1>7, <1>8, <1>9 DEF Next

\* At least once: ApplyBatch stores an offset only after the projector has been
\* given everything up to it. Rounds that time out and leave their goroutines
\* behind, failing stores and crashes between Apply and Set do not change it.
THEOREM AtLeastOnce == Spec => []NothingSkipped
<1>1. NodeInv => NothingSkipped BY DEF NodeInv, ProjectionInv, NothingSkipped
<1> QED BY <1>1, InitNode, NextNode, PTL DEF Spec

--------------------------------------------------------------------------------
(* A clean round has caught up: theorem CleanRounds.                             *)

RoundTypes ==
  /\ round \in 0..MaxRounds
  /\ runners \subseteq Runners
  /\ goal \in [Rounds -> Nat]
  /\ wait \in [on : BOOLEAN, got : SUBSET Runners, failed : BOOLEAN]

\* A server has no rounds; of a node, everything is claimed that is known of it.
CatchUpInv ==
  /\ server => ~wait.on /\ clean = {}
  /\ ~server => NodeTypes /\ ProjectionInv /\ RoundTypes /\ RoundInv

\* Nothing is taken back, so a goal that was reached stays reached.
LEMMA ReachedStays ==
  ASSUME Kept, NEW p \in Runners, NEW n, AppliedUpTo(p, n)
  PROVE  AppliedUpTo(p, n)'
BY DEF Kept, AppliedUpTo

LEMMA InitRounds == Init => CatchUpInv
<1> SUFFICES ASSUME Init PROVE CatchUpInv OBVIOUS
<1>1. ~server => NodeTypes /\ ProjectionInv BY InitNode DEF NodeInv
<1>2. RoundTypes BY BoundsAssumption DEF Init, RoundTypes, NoWait
<1>3. \A t \in Tasks : task[t].pc = "none" /\ task[t].result = "none" BY DEF Init, NoTask
<1>4. TasksAim BY <1>3 DEF TasksAim
<1>5. CallerKnows /\ ~wait.on /\ clean = {} BY DEF Init, CallerKnows, NoWait
<1>6. \A r \in Rounds : goal[r] <= log BY DEF Init
<1> QED BY <1>1, <1>2, <1>4, <1>5, <1>6 DEF CatchUpInv, RoundInv, CleanRoundCatchesUp

\* What a step of one goroutine has to show: a report is made once, and is a
\* success only at the goal.
LEMMA TaskAims ==
  ASSUME NodeTypes, RoundTypes, RoundInv, Kept, NEW t \in Tasks, NEW next \in Goroutines,
         task' = [task EXCEPT ![t] = next],
         UNCHANGED <<log, round, wait, clean, goal, runners>>,
         task[t].pc # "none", next.pc # "none",
         task[t].pc \in Pending \/ next.result = task[t].result,
         next.pc \in Pending => next.result = "none",
         next.pc \in {"apply", "set"} =>
           next.last = next.after + BatchSize \/ next.last >= goal[t[1]],
         next.result = "ok" => AppliedUpTo(t[2], goal[t[1]])'
  PROVE  RoundInv'
<1>1. task'[t] = next /\ \A u \in Tasks \ {t} : task'[u] = task[u] BY DEF NodeTypes
<1>2. TasksAim'
  <2> SUFFICES ASSUME NEW u \in Tasks
               PROVE  /\ u[1] > round => task'[u].pc = "none"
                      /\ task'[u].pc \in Pending \cup {"none"} => task'[u].result = "none"
                      /\ task'[u].pc \in {"apply", "set"} =>
                           task'[u].last = task'[u].after + BatchSize \/ task'[u].last >= goal[u[1]]
                      /\ task'[u].result = "ok" => AppliedUpTo(u[2], goal[u[1]])'
    BY DEF TasksAim, Full
  <2>1. CASE u = t
    <3>1. ~(t[1] > round) BY DEF RoundInv, TasksAim
    <3> QED BY <2>1, <3>1, <1>1
  <2>2. CASE u # t
    <3>1. task'[u] = task[u] /\ u[2] \in Runners BY <2>2, <1>1 DEF Tasks
    <3>2. /\ u[1] > round => task[u].pc = "none"
          /\ task[u].pc \in Pending \cup {"none"} => task[u].result = "none"
          /\ task[u].pc \in {"apply", "set"} =>
               task[u].last = task[u].after + BatchSize \/ task[u].last >= goal[u[1]]
          /\ task[u].result = "ok" => AppliedUpTo(u[2], goal[u[1]])
      BY DEF RoundInv, TasksAim, Full
    <3>3. AppliedUpTo(u[2], goal[u[1]]) => AppliedUpTo(u[2], goal[u[1]])' BY <3>1, ReachedStays
    <3> QED BY <3>1, <3>2, <3>3
  <2> QED BY <2>1, <2>2
<1>3. CallerKnows'
  <2>1. task[t].result # "none" => next.result = task[t].result BY DEF RoundInv, TasksAim
  <2>2. \A p \in wait.got : <<round, p>> \in Tasks
    BY DEF RoundInv, CallerKnows, RoundTypes, Tasks, Rounds
  <2> QED BY <1>1, <2>1, <2>2 DEF RoundInv, CallerKnows
<1>4. CleanRoundCatchesUp'
  <2> SUFFICES ASSUME NEW r \in clean, NEW p \in runners PROVE AppliedUpTo(p, goal[r])'
    BY DEF CleanRoundCatchesUp, AppliedUpTo
  <2>1. AppliedUpTo(p, goal[r]) BY DEF RoundInv, CleanRoundCatchesUp, AppliedUpTo
  <2> QED BY <2>1, ReachedStays DEF RoundTypes
<1> QED BY <1>2, <1>3, <1>4 DEF RoundInv

\* Acquire, ReadOffset, LoadBatch, ApplyEvents and SetOffset: a batch that is
\* cut short ends at the log, which holds the goal.
LEMMA WorkAims ==
  ASSUME NodeTypes, ProjectionInv, RoundTypes, RoundInv, ~server, NEW t \in Tasks,
         \/ Acquire(t) \/ ReadOffset(t) \/ LoadBatch(t) \/ ApplyEvents(t) \/ SetOffset(t)
  PROVE  RoundInv'
<1> USE BatchAssumption
<1>1. /\ t[1] \in Rounds /\ t[2] \in Runners /\ task[t] \in Goroutines
      /\ log \in Nat /\ goal[t[1]] \in Nat /\ goal[t[1]] <= log
      /\ task[t].after \in Nat /\ task[t].last \in Nat /\ offset[t[2]] \in Nat
  BY DEF Tasks, NodeTypes, RoundTypes, RoundInv, Goroutines
<1>2. UNCHANGED <<log, round, wait, clean, goal, runners>>
  BY DEF Acquire, ReadOffset, LoadBatch, ApplyEvents, SetOffset, roundVars, bounds
<1>3. task[t].pc \in Pending /\ task[t].pc # "none" /\ task[t].result = "none"
  BY DEF Acquire, ReadOffset, LoadBatch, ApplyEvents, SetOffset, Pending, Working, RoundInv, TasksAim
<1>4. task[t].pc \in {"load", "apply", "set"} => AppliedUpTo(t[2], task[t].after)
  BY DEF ProjectionInv, TasksKnow
<1>5. task[t].pc = "set" => AppliedUpTo(t[2], task[t].last) BY DEF ProjectionInv, TasksKnow
<1>6. task[t].pc \in {"apply", "set"} => Full(t) \/ task[t].last >= goal[t[1]]
  BY DEF RoundInv, TasksAim
<1>7. ~ApplyEvents(t) => Kept BY DEF Acquire, ReadOffset, LoadBatch, SetOffset, Kept
<1>8. ASSUME NEW n \in Nat, AppliedUpTo(t[2], n), goal[t[1]] <= n, ~ApplyEvents(t)
      PROVE  AppliedUpTo(t[2], goal[t[1]])'
  <2>1. AppliedUpTo(t[2], goal[t[1]]) BY <1>1, <1>8, BoundsAssumption DEF AppliedUpTo, Versions
  <2> QED BY <1>1, <1>2, <1>7, <1>8, <2>1, ReachedStays
<1>9. CASE Acquire(t)
  <2> DEFINE next == [task[t] EXCEPT !.pc = "start"]
  <2>1. task' = [task EXCEPT ![t] = next] BY <1>9 DEF Acquire, Move
  <2>2. next \in Goroutines /\ next.pc = "start" /\ next.result = "none"
    BY <1>1, <1>3 DEF Goroutines, TaskPcs, Working
  <2>3. Kept BY <1>9 DEF Acquire, Kept
  <2> HIDE DEF next
  <2> QED BY <1>2, <1>3, <2>1, <2>2, <2>3, TaskAims, Zenon
<1>10. CASE ReadOffset(t)
  <2> DEFINE next == [task[t] EXCEPT !.pc = "load", !.after = offset[t[2]]]
  <2>1. task' = [task EXCEPT ![t] = next] BY <1>10, Zenon DEF ReadOffset
  <2>2. next \in Goroutines /\ next.pc = "load" /\ next.result = "none"
    BY <1>1, <1>3, Zenon DEF Goroutines, TaskPcs, Working
  <2>3. Kept BY <1>10 DEF ReadOffset, Kept
  <2> HIDE DEF next
  <2> QED BY <1>2, <1>3, <2>1, <2>2, <2>3, TaskAims, Zenon
<1>11. CASE LoadBatch(t)
  <2>0. Kept /\ task[t].pc = "load" /\ ~ApplyEvents(t) BY <1>11 DEF LoadBatch, ApplyEvents, Kept
  <2>1. CASE task[t].after >= log
    <3> DEFINE next == [task[t] EXCEPT !.pc = "release", !.result = "ok"]
    <3>1. task' = [task EXCEPT ![t] = next] BY <1>11, <2>1, Zenon DEF LoadBatch, Report
    <3>2. next \in Goroutines /\ next.pc = "release" /\ next.pc \notin Pending
      BY <1>1, Zenon DEF Goroutines, TaskPcs, Pending, Working
    <3>3. AppliedUpTo(t[2], goal[t[1]])' BY <1>1, <1>4, <1>8, <2>0, <2>1
    <3> HIDE DEF next
    <3> QED BY <1>2, <1>3, <2>0, <3>1, <3>2, <3>3, TaskAims, Zenon
  <2>2. CASE ~(task[t].after >= log)
    <3> DEFINE last == BatchEnd(task[t].after)
               next == [task[t] EXCEPT !.pc = "apply", !.last = last]
    <3>1. task' = [task EXCEPT ![t] = next] BY <1>11, <2>2, Zenon DEF LoadBatch
    <3>2. last \in Nat /\ (last = task[t].after + BatchSize \/ last >= goal[t[1]])
      BY <1>1 DEF BatchEnd
    <3> HIDE DEF last
    <3>3. /\ next \in Goroutines /\ next.pc = "apply" /\ next.result = "none"
          /\ next.after = task[t].after /\ next.last = last
      BY <1>1, <1>3, <3>2, Zenon DEF Goroutines, TaskPcs, Working
    <3> HIDE DEF next
    <3> QED BY <1>2, <1>3, <2>0, <3>1, <3>2, <3>3, TaskAims, Zenon
  <2> QED BY <2>1, <2>2
<1>12. CASE ApplyEvents(t)
  <2> DEFINE next == [task[t] EXCEPT !.pc = "set"]
  <2>1. task' = [task EXCEPT ![t] = next] /\ task[t].pc = "apply" BY <1>12 DEF ApplyEvents, Move
  <2>2. /\ next \in Goroutines /\ next.pc = "set" /\ next.result = "none"
        /\ next.after = task[t].after /\ next.last = task[t].last
    BY <1>1, <1>3 DEF Goroutines, TaskPcs, Working
  <2>3. next.last = next.after + BatchSize \/ next.last >= goal[t[1]]
    BY <1>6, <2>1, <2>2 DEF Full
  <2>4. Kept
    <3>1. \A p \in Runners : applied[p] \in [Versions -> Nat] BY DEF NodeTypes
    <3>2. applied' = [applied EXCEPT ![t[2]] =
            [v \in Versions |-> IF v \in Batch(t) THEN applied[t[2]][v] + 1 ELSE applied[t[2]][v]]]
      BY <1>12 DEF ApplyEvents
    <3>3. \A v \in Versions : applied[t[2]][v] > 0 => applied'[t[2]][v] > 0
      BY <1>1, <3>1, <3>2 DEF NodeTypes
    <3>4. \A p \in Runners \ {t[2]} : applied'[p] = applied[p] BY <3>2 DEF NodeTypes
    <3> QED BY <3>3, <3>4 DEF Kept
  <2> HIDE DEF next
  <2> QED BY <1>2, <1>3, <2>1, <2>2, <2>3, <2>4, TaskAims, Zenon
<1>13. CASE SetOffset(t)
  <2>0. Kept /\ task[t].pc = "set" /\ ~ApplyEvents(t) BY <1>13 DEF SetOffset, ApplyEvents, Kept
  <2>1. CASE Full(t)
    <3> DEFINE next == [task[t] EXCEPT !.pc = "load", !.after = task[t].last]
    <3>1. task' = [task EXCEPT ![t] = next] BY <1>13, <2>1, Zenon DEF SetOffset
    <3>2. next \in Goroutines /\ next.pc = "load" /\ next.result = "none"
      BY <1>1, <1>3, Zenon DEF Goroutines, TaskPcs, Working
    <3> HIDE DEF next
    <3> QED BY <1>2, <1>3, <2>0, <3>1, <3>2, TaskAims, Zenon
  <2>2. CASE ~Full(t)
    <3> DEFINE next == [task[t] EXCEPT !.pc = "release", !.result = "ok"]
    <3>1. task' = [task EXCEPT ![t] = next] BY <1>13, <2>2, Zenon DEF SetOffset, Report
    <3>2. next \in Goroutines /\ next.pc = "release" /\ next.pc \notin Pending
      BY <1>1, Zenon DEF Goroutines, TaskPcs, Pending, Working
    <3>3. AppliedUpTo(t[2], goal[t[1]])' BY <1>1, <1>5, <1>6, <1>8, <2>0, <2>2
    <3> HIDE DEF next
    <3> QED BY <1>2, <1>3, <2>0, <3>1, <3>2, <3>3, TaskAims, Zenon
  <2> QED BY <2>1, <2>2
<1> QED BY <1>9, <1>10, <1>11, <1>12, <1>13

\* The goroutines that report an error or give their slot back.
LEMMA EndAims ==
  ASSUME NodeTypes, RoundTypes, RoundInv, NEW t \in Tasks,
         GiveUpWaiting(t) \/ LoadFails(t) \/ StepFails(t) \/ Release(t)
  PROVE  RoundInv'
<1>1. t[2] \in Runners /\ task[t] \in Goroutines BY DEF Tasks, NodeTypes
<1>2. UNCHANGED <<log, round, wait, clean, goal, runners>> /\ Kept
  BY DEF GiveUpWaiting, LoadFails, StepFails, Release, roundVars, bounds, Fault, Kept
<1>3. CASE GiveUpWaiting(t) \/ LoadFails(t) \/ StepFails(t)
  <2>1. PICK pc \in {"release", "done"} : task' = [task EXCEPT ![t].pc = pc, ![t].result = "error"]
    BY <1>3 DEF GiveUpWaiting, LoadFails, StepFails, Report
  <2> DEFINE next == [task[t] EXCEPT !.pc = pc, !.result = "error"]
  <2>2. task' = [task EXCEPT ![t] = next] BY <2>1, Zenon
  <2>3. next \in Goroutines /\ next.pc = pc /\ next.pc \notin Pending /\ next.result = "error"
    BY <1>1, Zenon DEF Goroutines, TaskPcs, Pending, Working
  <2>4. task[t].pc \in Pending BY <1>3 DEF GiveUpWaiting, LoadFails, StepFails, Pending, Working
  <2> HIDE DEF next
  <2> QED BY <1>2, <2>2, <2>3, <2>4, TaskAims, Zenon DEF Pending, Working
<1>4. CASE Release(t)
  <2> DEFINE next == [task[t] EXCEPT !.pc = "done"]
  <2>1. task' = [task EXCEPT ![t] = next] /\ task[t].pc = "release" BY <1>4 DEF Release, Move
  <2>2. next \in Goroutines /\ next.pc = "done" /\ next.pc \notin Pending /\ next.result = task[t].result
    BY <1>1 DEF Goroutines, TaskPcs, Pending, Working
  <2>3. next.result = "ok" => AppliedUpTo(t[2], goal[t[1]])' 
    BY <1>1, <1>2, <2>2, ReachedStays DEF RoundInv, TasksAim
  <2> HIDE DEF next
  <2> QED BY <1>2, <2>1, <2>2, <2>3, TaskAims, Zenon
<1> QED BY <1>3, <1>4

\* The caller: a round begins at the log it finds, counts every report, and is
\* clean when all of them were successes.
LEMMA CallerAims ==
  ASSUME NodeTypes, RoundTypes, RoundInv,
         \/ StoreEvent \/ BeginRound \/ Expire \/ RoundReturns \/ RoundTimesOut \/ Crash
         \/ \E p \in runners : Collect(p)
  PROVE  RoundTypes' /\ RoundInv'
<1> USE BoundsAssumption
<1>1. /\ UNCHANGED <<applied, runners>> /\ log \in Nat /\ round \in Nat
      /\ \A r \in Rounds : goal[r] \in Nat /\ goal[r] <= log
  <2>1. UNCHANGED <<applied, runners>>
    BY Zenon DEF StoreEvent, BeginRound, Expire, RoundReturns, RoundTimesOut, Crash, Collect, Fault, bounds
  <2> QED BY <2>1 DEF NodeTypes, RoundTypes, RoundInv
<1>2. CASE StoreEvent
  <2>1. UNCHANGED <<round, wait, clean, goal, task>> /\ log' = log + 1
    BY <1>2 DEF StoreEvent, roundVars
  <2>2. RoundTypes' BY <1>1, <2>1 DEF RoundTypes
  <2>3. TasksAim' /\ CallerKnows' /\ CleanRoundCatchesUp' /\ clean' \subseteq 1..round'
    BY <1>1, <2>1 DEF RoundInv, TasksAim, CallerKnows, CleanRoundCatchesUp, AppliedUpTo, Full
  <2>4. \A r \in Rounds : goal'[r] <= log' BY <1>1, <2>1
  <2> QED BY <2>2, <2>3, <2>4 DEF RoundInv
<1>3. CASE BeginRound
  <2> DEFINE new == [NoTask EXCEPT !.pc = "queued"]
  <2>1. /\ round' = round + 1 /\ round < MaxRounds /\ round' \in Rounds
        /\ goal' = [goal EXCEPT ![round + 1] = log]
        /\ UNCHANGED <<log, clean>> /\ wait' = [NoWait EXCEPT !.on = TRUE]
    BY <1>1, <1>3 DEF BeginRound, Rounds
  <2>2. RoundTypes'
    <3>1. goal' \in [Rounds -> Nat] BY <1>1, <2>1 DEF RoundTypes
    <3>2. wait' \in [on : BOOLEAN, got : SUBSET Runners, failed : BOOLEAN] BY <2>1, Zenon DEF NoWait
    <3>3. round' \in 0..MaxRounds BY <1>1, <2>1
    <3> QED BY <1>1, <3>1, <3>2, <3>3 DEF RoundTypes
  <2>3. /\ \A r \in Rounds : r # round + 1 => goal'[r] = goal[r]
        /\ goal'[round + 1] = log
    BY <2>1 DEF RoundTypes
  <2>4. \A r \in Rounds : goal'[r] <= log' BY <1>1, <2>1, <2>3
  <2>5. TasksAim'
    <3> SUFFICES ASSUME NEW t \in Tasks
                 PROVE  /\ t[1] > round' => task'[t].pc = "none"
                        /\ task'[t].pc \in Pending \cup {"none"} => task'[t].result = "none"
                        /\ task'[t].pc \in {"apply", "set"} =>
                             task'[t].last = task'[t].after + BatchSize \/ task'[t].last >= goal'[t[1]]
                        /\ task'[t].result = "ok" => AppliedUpTo(t[2], goal[t[1]])'
      BY DEF TasksAim, Full
    <3>1. t[1] \in Rounds /\ t[1] \in Nat BY DEF Tasks, Rounds
    <3>2. /\ t[1] > round => task[t].pc = "none"
          /\ task[t].pc \in Pending \cup {"none"} => task[t].result = "none"
          /\ task[t].pc \in {"apply", "set"} =>
               task[t].last = task[t].after + BatchSize \/ task[t].last >= goal[t[1]]
          /\ task[t].result = "ok" => AppliedUpTo(t[2], goal[t[1]])
      BY DEF RoundInv, TasksAim, Full
    <3>3. CASE task'[t] = task[t]
      <4>1. CASE t[1] = round + 1
        <5>1. task[t].pc = "none" /\ task[t].result = "none" BY <1>1, <3>1, <3>2, <4>1
        <5> QED BY <1>1, <2>1, <3>3, <4>1, <5>1
      <4>2. CASE t[1] # round + 1
        <5>1. goal'[t[1]] = goal[t[1]] /\ (t[1] > round' => t[1] > round) BY <1>1, <2>1, <2>3, <3>1, <4>2
        <5> QED BY <1>1, <3>2, <3>3, <5>1 DEF AppliedUpTo
      <4> QED BY <4>1, <4>2
    <3>4. CASE task'[t] # task[t]
      <4>1. task'[t] = new /\ t[1] = round + 1 BY <1>3, <3>4 DEF BeginRound
      <4>2. task'[t].pc = "queued" /\ task'[t].result = "none" BY <4>1 DEF NoTask
      <4> QED BY <1>1, <2>1, <4>1, <4>2
    <3> QED BY <3>3, <3>4
  <2>6. CallerKnows' BY <1>1, <2>1 DEF CallerKnows, NoWait
  <2>7. clean' \subseteq 1..round' BY <1>1, <2>1 DEF RoundInv
  <2>8. CleanRoundCatchesUp'
    <3> SUFFICES ASSUME NEW r \in clean, NEW p \in runners, NEW v \in Versions, v <= goal'[r]
                 PROVE  applied[p][v] > 0
      BY <1>1, <2>1 DEF CleanRoundCatchesUp
    <3>1. r \in 1..round /\ r \in Rounds /\ r # round + 1 BY <1>1, <2>1 DEF RoundInv, Rounds, RoundTypes
    <3> QED BY <2>3, <3>1 DEF RoundInv, CleanRoundCatchesUp
  <2> QED BY <2>2, <2>4, <2>5, <2>6, <2>7, <2>8 DEF RoundInv
<1>4. CASE Expire
  <2>1. UNCHANGED <<log, round, wait, clean, goal, task>> BY <1>4 DEF Expire
  <2> QED BY <1>1, <2>1 DEF RoundTypes, RoundInv, TasksAim, CallerKnows, CleanRoundCatchesUp, AppliedUpTo, Full
<1>5. ASSUME NEW p \in runners, Collect(p) PROVE RoundTypes' /\ RoundInv'
  <2>1. /\ UNCHANGED <<log, round, clean, goal, task>>
        /\ wait.on /\ task[<<round, p>>].result # "none"
        /\ wait' = [wait EXCEPT !.got = @ \cup {p},
                                !.failed = @ \/ task[<<round, p>>].result = "error"]
    BY <1>5, Zenon DEF Collect
  <2>2. /\ wait'.on = wait.on /\ wait'.got = wait.got \cup {p}
        /\ wait'.failed = (wait.failed \/ task[<<round, p>>].result = "error")
    BY <2>1, Zenon DEF RoundTypes
  <2>3. wait' \in [on : BOOLEAN, got : SUBSET Runners, failed : BOOLEAN]
    BY <2>1, Zenon DEF RoundTypes
  <2>4. CallerKnows' BY <2>1, <2>2, Zenon DEF RoundInv, CallerKnows
  <2>5. TasksAim' /\ CleanRoundCatchesUp'
    BY <1>1, <2>1 DEF RoundInv, TasksAim, CleanRoundCatchesUp, AppliedUpTo, Full
  <2> QED BY <1>1, <2>1, <2>3, <2>4, <2>5 DEF RoundTypes, RoundInv
<1>6. CASE RoundReturns
  <2>1. /\ UNCHANGED <<log, round, goal, task>> /\ wait' = NoWait /\ wait.on /\ wait.got = runners
        /\ clean' = IF wait.failed THEN clean ELSE clean \cup {round}
    BY <1>6 DEF RoundReturns
  <2>2. round \in Rounds /\ round \in 1..round BY <1>1, <2>1 DEF RoundInv, CallerKnows, RoundTypes, Rounds
  <2>3. RoundTypes' /\ CallerKnows' BY <1>1, <2>1 DEF RoundTypes, CallerKnows, NoWait
  <2>4. TasksAim' BY <1>1, <2>1 DEF RoundInv, TasksAim, AppliedUpTo, Full
  <2>5. ASSUME ~wait.failed, NEW p \in runners PROVE AppliedUpTo(p, goal[round])
    <3>1. <<round, p>> \in Tasks BY <2>2 DEF Tasks, RoundTypes
    <3>2. task[<<round, p>>].result \in {"none", "ok", "error"} BY <3>1 DEF NodeTypes, Goroutines
    <3>3. task[<<round, p>>].result = "ok" BY <2>1, <2>5, <3>2 DEF RoundInv, CallerKnows
    <3> QED BY <3>1, <3>3 DEF RoundInv, TasksAim
  <2>6. CleanRoundCatchesUp' BY <1>1, <2>1, <2>5 DEF RoundInv, CleanRoundCatchesUp, AppliedUpTo
  <2>7. clean' \subseteq 1..round' BY <2>1, <2>2, Zenon DEF RoundInv
  <2> QED BY <2>1, <2>3, <2>4, <2>6, <2>7 DEF RoundInv
<1>7. CASE RoundTimesOut
  <2>1. UNCHANGED <<log, round, clean, goal, task>> /\ wait' = NoWait BY <1>7 DEF RoundTimesOut
  <2>2. RoundTypes' /\ CallerKnows' BY <1>1, <2>1 DEF RoundTypes, CallerKnows, NoWait
  <2> QED BY <1>1, <2>1, <2>2 DEF RoundInv, TasksAim, CleanRoundCatchesUp, AppliedUpTo, Full
<1>8. CASE Crash
  <2>1. /\ UNCHANGED <<log, round, clean, goal>> /\ wait' = NoWait
        /\ \A t \in Tasks : task'[t] = [task[t] EXCEPT !.pc = IF @ = "none" THEN @ ELSE "done"]
    BY <1>8 DEF Crash
  <2>2. RoundTypes' /\ CallerKnows' BY <1>1, <2>1 DEF RoundTypes, CallerKnows, NoWait
  <2>3. ASSUME NEW t \in Tasks
        PROVE  /\ task'[t].pc = IF task[t].pc = "none" THEN "none" ELSE "done"
               /\ task'[t].result = task[t].result
    <3>1. task[t] \in Goroutines BY DEF NodeTypes
    <3> QED BY <2>1, <3>1, Zenon DEF Goroutines
  <2>4. TasksAim'
    <3>1. \A t \in Tasks : task'[t].pc \in {"none", "done"} BY <2>3
    <3>2. "done" \notin Pending \cup {"none", "apply", "set"} /\ "none" \notin {"apply", "set"}
      BY DEF Pending, Working
    <3> QED BY <1>1, <2>1, <2>3, <3>1, <3>2 DEF RoundInv, TasksAim, AppliedUpTo, Full
  <2> QED BY <1>1, <2>1, <2>2, <2>4 DEF RoundInv, CleanRoundCatchesUp
<1> QED BY <1>2, <1>3, <1>4, <1>5, <1>6, <1>7, <1>8

\* Every step preserves what is known of the rounds.
LEMMA NextRounds == CatchUpInv /\ [Next]_vars => CatchUpInv'
<1> SUFFICES ASSUME CatchUpInv, [Next]_vars PROVE CatchUpInv' OBVIOUS
<1>1. CASE UNCHANGED vars
  BY <1>1 DEF vars, CatchUpInv, NodeTypes, ProjectionInv, NothingSkipped, TasksKnow, NoHooks, AppliedUpTo,
              RoundTypes, RoundInv, TasksAim, CallerKnows, CleanRoundCatchesUp, Full
<1>2. server' = server BY KindStays
<1>3. CASE server /\ Next
  <2>1. ~wait.on /\ clean = {} BY <1>3 DEF CatchUpInv
  <2>2. (wait'.on = wait.on /\ clean' = clean) \/ Crash
    BY <1>3, <2>1, Zenon
       DEF Next, StoreEvent, PushEvent, HookStep, HookApplies, HookSetsOffset, HookFails, TaskStep, StepFails,
           Acquire, GiveUpWaiting, ReadOffset, LoadBatch, LoadFails, ApplyEvents, SetOffset, Release,
           BeginRound, Expire, CallerStep, Collect, RoundReturns, RoundTimesOut, roundVars
  <2>3. Crash => ~wait'.on /\ clean' = clean BY DEF Crash, NoWait
  <2> QED BY <1>2, <1>3, <2>1, <2>2, <2>3 DEF CatchUpInv
<1>4. CASE ~server /\ Next
  <2>1. NodeTypes /\ ProjectionInv /\ RoundTypes /\ RoundInv BY <1>4 DEF CatchUpInv
  <2>2. NodeTypes' /\ ProjectionInv' BY <1>2, <1>4, <2>1, NextNode DEF NodeInv
  <2>3. ~(\E version \in ClientVersions : PushEvent(version)) BY <1>4, Zenon DEF PushEvent
  <2>4. ~(\E v \in Versions : HookStep(v) \/ HookFails(v))
    BY <1>4, <2>1 DEF HookStep, HookApplies, HookSetsOffset, HookFails, ProjectionInv, NoHooks
  <2>5. ASSUME NEW t \in Tasks, TaskStep(t) \/ StepFails(t) PROVE RoundTypes' /\ RoundInv'
    <3>1. UNCHANGED <<round, runners, goal, wait>>
      BY <2>5, Zenon DEF TaskStep, StepFails, Acquire, GiveUpWaiting, ReadOffset, LoadBatch, LoadFails, ApplyEvents,
                  SetOffset, Release, roundVars, bounds, Fault
    <3> QED BY <1>4, <2>1, <2>5, <3>1, WorkAims, EndAims DEF TaskStep, RoundTypes
  <2>6. RoundTypes' /\ RoundInv' BY <1>4, <2>1, <2>3, <2>4, <2>5, CallerAims DEF Next, CallerStep
  <2> QED BY <1>2, <1>4, <2>2, <2>6 DEF CatchUpInv
<1> QED BY <1>1, <1>3, <1>4

\* When runProjectionsAfterSync returns nil, every projection has applied every
\* event the store held when the round began. That is so although the runners
\* stop at the first batch that is not full, runners of earlier rounds move the
\* offsets under them, and the reports of one round are counted one by one.
THEOREM CleanRounds == Spec => []CleanRoundCatchesUp
<1>1. CatchUpInv => CleanRoundCatchesUp BY DEF CatchUpInv, RoundInv, CleanRoundCatchesUp
<1> QED BY <1>1, InitRounds, NextRounds, PTL DEF Spec

--------------------------------------------------------------------------------
(* Offsets move back only under two runners: theorem OffsetsAdvance.             *)

RunnerInv == ~server => NodeTypes /\ ProjectionInv /\ RoundTypes /\ RoundInv /\ OneRunner

\* What a step of one goroutine has to show: alone on its projection, it holds
\* the stored offset, and stores none before it.
LEMMA AloneAdvances ==
  ASSUME NodeTypes, OneRunner, NEW t \in Tasks, NEW next \in Goroutines,
         task' = [task EXCEPT ![t] = next], UNCHANGED <<round, late>>,
         task[t].pc \in Pending \/ (next.pc \notin Pending /\ UNCHANGED offset),
         offset' \in [Runners -> Nat],
         \A p \in Runners \ {t[2]} : offset'[p] = offset[p],
         t[2] \notin late =>
           /\ offset[t[2]] <= offset'[t[2]]
           /\ next.pc \in {"load", "apply", "set"} => next.after = offset'[t[2]]
           /\ next.pc \in {"apply", "set"} => next.after <= next.last
  PROVE  /\ OneRunner'
         /\ \A p \in Runners : offset'[p] < offset[p] => p \in late
<1>0. t[2] \in Runners BY DEF Tasks
<1>1. task'[t] = next /\ \A u \in Tasks \ {t} : task'[u] = task[u] BY DEF NodeTypes
<1>2. \A p \in Runners : offset'[p] < offset[p] => p \in late
  <2>1. \A p \in Runners : offset[p] \in Nat /\ offset'[p] \in Nat BY DEF NodeTypes
  <2> QED BY <2>1
<1>3. OneRunner'
  <2> SUFFICES ASSUME NEW u \in Tasks, u[2] \notin late, task'[u].pc \in Pending
               PROVE  /\ u[1] = round
                      /\ task'[u].pc \in {"load", "apply", "set"} => task'[u].after = offset'[u[2]]
                      /\ task'[u].pc \in {"apply", "set"} => task'[u].after <= task'[u].last
    BY DEF OneRunner
  <2>1. CASE u = t
    <3>1. task[t].pc \in Pending BY <1>1, <2>1
    <3>2. t[1] = round BY <2>1, <3>1 DEF OneRunner
    <3> QED BY <1>1, <2>1, <3>2
  <2>2. CASE u # t
    <3>1. task'[u] = task[u] BY <1>1, <2>2
    <3>2. /\ u[1] = round
          /\ task[u].pc \in {"load", "apply", "set"} => task[u].after = offset[u[2]]
          /\ task[u].pc \in {"apply", "set"} => task[u].after <= task[u].last
      BY <3>1 DEF OneRunner
    <3>3. CASE u[2] # t[2]
      <4>1. offset'[u[2]] = offset[u[2]] BY <3>3 DEF Tasks
      <4> QED BY <3>1, <3>2, <4>1
    <3>4. CASE u[2] = t[2] /\ task[t].pc \in Pending
      <4>1. t[1] = round BY <3>4 DEF OneRunner
      <4>2. u = t BY <3>2, <3>4, <4>1 DEF Tasks
      <4> QED BY <2>2, <4>2
    <3>5. CASE u[2] = t[2] /\ task[t].pc \notin Pending
      <4> QED BY <3>1, <3>2, <3>5, <1>0
    <3> QED BY <3>3, <3>4, <3>5
  <2> QED BY <2>1, <2>2
<1> QED BY <1>2, <1>3

\* The steps of a goroutine: it reads the stored offset, goes on from what it has
\* stored itself, and otherwise leaves offsets alone.
LEMMA TaskAdvances ==
  ASSUME NodeTypes, OneRunner, ~server, NEW t \in Tasks, TaskStep(t) \/ StepFails(t)
  PROVE  /\ OneRunner'
         /\ \A p \in Runners : offset'[p] < offset[p] => p \in late
<1> USE BatchAssumption
<1>1. /\ t[2] \in Runners /\ task[t] \in Goroutines /\ log \in Nat
      /\ task[t].after \in Nat /\ task[t].last \in Nat /\ offset[t[2]] \in Nat
  BY DEF Tasks, NodeTypes, Goroutines
<1>2. UNCHANGED <<round, late>>
  BY Zenon DEF TaskStep, StepFails, Acquire, GiveUpWaiting, ReadOffset, LoadBatch, LoadFails, ApplyEvents,
               SetOffset, Release, roundVars
<1>3. t[2] \notin late /\ task[t].pc \in Pending =>
        /\ task[t].pc \in {"load", "apply", "set"} => task[t].after = offset[t[2]]
        /\ task[t].pc \in {"apply", "set"} => task[t].after <= task[t].last
  BY DEF OneRunner
<1>4. ASSUME NEW next \in Goroutines, task' = [task EXCEPT ![t] = next], UNCHANGED offset,
             task[t].pc \in Pending \/ next.pc \notin Pending,
             t[2] \notin late =>
               /\ next.pc \in {"load", "apply", "set"} => next.after = offset[t[2]]
               /\ next.pc \in {"apply", "set"} => next.after <= next.last
      PROVE  OneRunner' /\ \A p \in Runners : offset'[p] < offset[p] => p \in late
  <2>1. offset' \in [Runners -> Nat] /\ offset[t[2]] <= offset'[t[2]] /\ offset'[t[2]] = offset[t[2]]
    BY <1>1, <1>4 DEF NodeTypes
  <2>2. \A p \in Runners \ {t[2]} : offset'[p] = offset[p] BY <1>4
  <2> QED BY <1>2, <1>4, <2>1, <2>2, AloneAdvances, Zenon
<1>5. CASE \/ Acquire(t) \/ GiveUpWaiting(t) \/ LoadFails(t) \/ StepFails(t) \/ Release(t)
           \/ (LoadBatch(t) /\ task[t].after >= log)
  <2>1. UNCHANGED offset
    BY <1>5 DEF Acquire, GiveUpWaiting, LoadFails, StepFails, Release, LoadBatch
  <2>2. \E pc \in {"start", "release", "done"} : \E result \in {task[t].result, "ok", "error"} :
          /\ task' = [task EXCEPT ![t] = [task[t] EXCEPT !.pc = pc, !.result = result]]
          /\ pc = "start" => task[t].pc \in Pending
    <3>1. CASE Acquire(t)
      BY <3>1, <1>1, Zenon DEF Acquire, Move, Goroutines, Pending
    <3>2. CASE Release(t)
      BY <3>2, <1>1, Zenon DEF Release, Move, Goroutines
    <3>3. CASE GiveUpWaiting(t) \/ LoadFails(t) \/ StepFails(t)
      BY <3>3, Zenon DEF GiveUpWaiting, LoadFails, StepFails, Report
    <3>4. CASE LoadBatch(t) /\ task[t].after >= log
      BY <3>4, Zenon DEF LoadBatch, Report
    <3> QED BY <1>5, <3>1, <3>2, <3>3, <3>4
  <2>3. PICK pc \in {"start", "release", "done"}, result \in {task[t].result, "ok", "error"} :
          /\ task' = [task EXCEPT ![t] = [task[t] EXCEPT !.pc = pc, !.result = result]]
          /\ pc = "start" => task[t].pc \in Pending
    BY <2>2, Zenon
  <2> DEFINE next == [task[t] EXCEPT !.pc = pc, !.result = result]
  <2>4. /\ next \in Goroutines /\ next.pc = pc /\ next.pc \notin {"load", "apply", "set"}
        /\ task[t].pc \in Pending \/ next.pc \notin Pending
    BY <1>1, <2>3, Zenon DEF Goroutines, TaskPcs, Pending, Working
  <2>5. task' = [task EXCEPT ![t] = next] BY <2>3
  <2> HIDE DEF next
  <2> QED BY <1>4, <2>1, <2>4, <2>5, Zenon
<1>6. CASE ReadOffset(t)
  <2> DEFINE next == [task[t] EXCEPT !.pc = "load", !.after = offset[t[2]]]
  <2>1. task' = [task EXCEPT ![t] = next] /\ UNCHANGED offset /\ task[t].pc \in Pending
    BY <1>6, Zenon DEF ReadOffset, Pending, Working
  <2>2. next \in Goroutines /\ next.pc = "load" /\ next.after = offset[t[2]]
    BY <1>1, Zenon DEF Goroutines, TaskPcs, Working
  <2> HIDE DEF next
  <2> QED BY <1>4, <2>1, <2>2, Zenon
<1>7. CASE LoadBatch(t) /\ ~(task[t].after >= log)
  <2> DEFINE last == BatchEnd(task[t].after)
             next == [task[t] EXCEPT !.pc = "apply", !.last = last]
  <2>1. task' = [task EXCEPT ![t] = next] /\ UNCHANGED offset /\ task[t].pc = "load"
    BY <1>7, Zenon DEF LoadBatch
  <2>2. last \in Nat /\ task[t].after <= last BY <1>1, <1>7 DEF BatchEnd
  <2> HIDE DEF last
  <2>3. next \in Goroutines /\ next.pc = "apply" /\ next.after = task[t].after /\ next.last = last
    BY <1>1, <2>2, Zenon DEF Goroutines, TaskPcs, Working
  <2>4. task[t].pc \in Pending BY <2>1 DEF Pending, Working
  <2> HIDE DEF next
  <2> QED BY <1>3, <1>4, <2>1, <2>2, <2>3, <2>4, Zenon
<1>8. CASE ApplyEvents(t)
  <2> DEFINE next == [task[t] EXCEPT !.pc = "set"]
  <2>1. task' = [task EXCEPT ![t] = next] /\ UNCHANGED offset /\ task[t].pc = "apply"
    BY <1>8 DEF ApplyEvents, Move
  <2>2. next \in Goroutines /\ next.pc = "set" /\ next.after = task[t].after /\ next.last = task[t].last
    BY <1>1 DEF Goroutines, TaskPcs, Working
  <2>3. task[t].pc \in Pending BY <2>1 DEF Pending, Working
  <2> HIDE DEF next
  <2> QED BY <1>3, <1>4, <2>1, <2>2, <2>3, Zenon
<1>9. CASE SetOffset(t)
  <2> DEFINE next == IF Full(t) THEN [task[t] EXCEPT !.pc = "load", !.after = task[t].last]
                     ELSE [task[t] EXCEPT !.pc = "release", !.result = "ok"]
  <2>1. /\ task' = [task EXCEPT ![t] = next] /\ offset' = [offset EXCEPT ![t[2]] = task[t].last]
        /\ task[t].pc = "set"
    BY <1>9, Zenon DEF SetOffset, Report
  <2>2. next \in Goroutines /\ next.pc \in {"load", "release"} /\ (next.pc = "load" => next.after = task[t].last)
    <3>1. CASE Full(t) BY <3>1, <1>1, Zenon DEF Goroutines, TaskPcs, Working
    <3>2. CASE ~Full(t) BY <3>2, <1>1, Zenon DEF Goroutines, TaskPcs
    <3> QED BY <3>1, <3>2
  <2> HIDE DEF next
  <2>3. task[t].pc \in Pending BY <2>1 DEF Pending, Working
  <2>4. /\ offset' \in [Runners -> Nat] /\ offset'[t[2]] = task[t].last
        /\ \A p \in Runners \ {t[2]} : offset'[p] = offset[p]
    BY <1>1, <2>1 DEF NodeTypes
  <2>5. t[2] \notin late => offset[t[2]] <= task[t].last BY <1>1, <1>3, <2>1, <2>3
  <2>6. t[2] \notin late =>
          /\ offset[t[2]] <= offset'[t[2]]
          /\ next.pc \in {"load", "apply", "set"} => next.after = offset'[t[2]]
          /\ next.pc \in {"apply", "set"} => next.after <= next.last
    BY <2>2, <2>4, <2>5
  <2> QED BY <1>2, <2>1, <2>2, <2>3, <2>4, <2>6, AloneAdvances, Zenon
<1> QED BY <1>5, <1>6, <1>7, <1>8, <1>9 DEF TaskStep

\* Every step of a node: a round that begins finds out who is late, and no
\* offset of another projection has moved back.
LEMMA NextAdvances ==
  ASSUME NodeTypes, ProjectionInv, RoundTypes, RoundInv, OneRunner, ~server, [Next]_vars
  PROVE  /\ OneRunner'
         /\ \A p \in Runners : offset'[p] < offset[p] => p \in late
<1>1. \A p \in Runners : offset[p] \in Nat BY DEF NodeTypes
<1>2. ASSUME UNCHANGED <<offset, late, task, round>>
      PROVE  OneRunner' /\ \A p \in Runners : offset'[p] < offset[p] => p \in late
  BY <1>1, <1>2 DEF OneRunner
<1>3. CASE UNCHANGED vars BY <1>2, <1>3 DEF vars
<1>4. CASE StoreEvent \/ Expire \/ CallerStep
  BY <1>2, <1>4, Zenon DEF StoreEvent, Expire, CallerStep, Collect, RoundReturns, RoundTimesOut, roundVars
<1>5. ~(\E version \in ClientVersions : PushEvent(version)) BY Zenon DEF PushEvent
<1>6. ~(\E v \in Versions : HookStep(v) \/ HookFails(v))
  BY DEF HookStep, HookApplies, HookSetsOffset, HookFails, ProjectionInv, NoHooks
<1>7. CASE BeginRound
  <2>1. /\ UNCHANGED offset /\ round' = round + 1
        /\ late' = {p \in Runners : \E t \in Tasks : t[2] = p /\ task[t].pc \in Pending}
        /\ \A t \in Tasks : task'[t] = task[t] \/ (t[1] = round' /\ task'[t].pc = "queued")
    BY <1>7 DEF BeginRound, NoTask
  <2>2. ASSUME NEW t \in Tasks, t[2] \notin late', task'[t].pc \in Pending
        PROVE  t[1] = round' /\ task'[t].pc = "queued"
    <3>1. task[t].pc \notin Pending BY <2>1, <2>2 DEF Tasks
    <3> QED BY <2>1, <2>2, <3>1
  <2> QED BY <1>1, <2>1, <2>2 DEF OneRunner
<1>8. CASE Crash
  <2>1. /\ UNCHANGED offset
        /\ \A t \in Tasks : task'[t] = [task[t] EXCEPT !.pc = IF @ = "none" THEN @ ELSE "done"]
    BY <1>8 DEF Crash
  <2>2. ASSUME NEW t \in Tasks PROVE task'[t].pc \notin Pending
    <3>1. task[t] \in Goroutines BY DEF NodeTypes
    <3>2. task'[t].pc \in {"none", "done"} BY <2>1, <3>1, Zenon DEF Goroutines
    <3> QED BY <3>2 DEF Pending, Working
  <2> QED BY <1>1, <2>1, <2>2 DEF OneRunner
<1> QED BY <1>3, <1>4, <1>5, <1>6, <1>7, <1>8, TaskAdvances DEF Next

\* An offset that runProjectionsAfterSync moves never goes back, unless the round
\* began while a goroutine of an earlier one was still at work on the projection.
THEOREM OffsetsAdvance == Spec => OnlyLateRunnersMoveBack
<1>1. Init => RunnerInv
  <2>1. Init => \A t \in Tasks : task[t].pc \notin Pending BY DEF Init, NoTask, Pending, Working
  <2> QED BY <2>1, InitRounds DEF CatchUpInv, RunnerInv, OneRunner
<1>2. RunnerInv /\ CatchUpInv /\ [Next]_vars => RunnerInv'
  BY KindStays, NextRounds, NextAdvances DEF RunnerInv, CatchUpInv
<1>3. RunnerInv /\ [Next]_vars =>
        [~server => \A p \in Runners : offset'[p] < offset[p] => p \in late]_vars
  BY NextAdvances DEF RunnerInv
<1> QED BY <1>1, <1>2, <1>3, InitRounds, NextRounds, PTL DEF Spec, OnlyLateRunnersMoveBack
================================================================================
