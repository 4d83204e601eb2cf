------------------------- MODULE SyncRoundsProofs --------------------------
(***************************************************************************)
(* Proofs about one call of a sync manager, whatever fails and however     *)
(* often it is retried: after the call the machine is in Idle              *)
(* (MachinesRest), and a pull without error has stored what it fetched     *)
(* (CleanPulls).                                                           *)
(***************************************************************************)
EXTENDS SyncManager, Integers, FiniteSetTheorems, TLAPS

USE ZenonT(3), SMTT(30)

\* Each manager is called by one goroutine.
OneGoroutineEach == \A v, w \in Workers : NodeOf[v] = NodeOf[w] => v = w

\* A step of w leaves the other goroutines alone.
OthersKept(w) ==
  /\ DOMAIN wk' = Workers
  /\ \A v \in Workers \ {w} : wk'[v] = wk[v]

(***************************************************************************)
(* Every path of Sync leads the machine back to Idle.                      *)
(***************************************************************************)

Records ==
  /\ DOMAIN state = Nodes /\ DOMAIN wk = Workers
  /\ \A w \in Workers : DOMAIN wk[w] = DOMAIN Idler

\* What has to be shown of a step of one goroutine: where it is now fits the
\* state the machine is in now.
LEMMA PhaseFrame ==
  ASSUME OneGoroutineEach, PhaseInv, NEW w \in Workers, OthersKept(w),
         \A n \in Nodes : n # NodeOf[w] => state'[n] = state[n],
         InPhase(wk'[w], state'[NodeOf[w]]),
         wk'[w].armed => /\ wk'[w].pc \in Sites
                         /\ Target(w)' \in SyncStateTransitionRules[state'[NodeOf[w]]]
  PROVE  PhaseInv'
<1>1. NodeOf \in [Workers -> Nodes]
  BY ManagerAssumption
<1>2. ASSUME NEW v \in Workers
      PROVE  /\ InPhase(wk'[v], state'[NodeOf[v]])
             /\ wk'[v].armed => /\ wk'[v].pc \in Sites
                                /\ Target(v)' \in SyncStateTransitionRules[state'[NodeOf[v]]]
  <2>1. CASE v = w
    BY <2>1
  <2>2. CASE v # w
    <3>1. wk'[v] = wk[v] /\ state'[NodeOf[v]] = state[NodeOf[v]]
      BY <1>1, <2>2 DEF OthersKept, OneGoroutineEach
    <3>2. Target(v)' = Target(v)
      BY <3>1 DEF Target
    <3> QED
      BY <3>1, <3>2, Zenon DEF PhaseInv
  <2> QED
    BY <2>1, <2>2
<1>3. \A n \in Nodes : (\A v \in Workers : NodeOf[v] # n) => state'[n] = SyncIdle
  BY DEF PhaseInv
<1> QED
  BY <1>2, <1>3 DEF PhaseInv

\* A step that leaves the machine alone.
LEMMA PhaseKept ==
  ASSUME OneGoroutineEach, PhaseInv, NEW w \in Workers, OthersKept(w), state' = state,
         InPhase(wk'[w], state[NodeOf[w]]), ~wk'[w].armed
  PROVE  PhaseInv'
BY PhaseFrame, Zenon

\* A goroutine moves on, in whatever else it changes.
LEMMA FieldsKept ==
  ASSUME Records, NEW w \in Workers, NEW next, wk' = [wk EXCEPT ![w] = next]
  PROVE  wk'[w] = next /\ OthersKept(w) /\ (DOMAIN next = DOMAIN Idler /\ state' = state => Records')
BY DEF Records, OthersKept

\* pull and push return, to Sync or to the caller.
LEMMA PhaseReturns ==
  ASSUME OneGoroutineEach, Records, PhaseInv, NEW w \in Workers, NEW ok, state' = state,
         \/ PullReturns(w, ok) /\ wk[w].pc \in {"pullVersion", "pullFetch", "pullLoad", "resolve", "pullStore"}
         \/ PushReturns(w, ok) /\ wk[w].pc \in {"pushVersion", "pushLoad", "pushBatch"}
  PROVE  Records' /\ PhaseInv'
<1>1. DOMAIN wk = Workers /\ DOMAIN wk[w] = DOMAIN Idler
  BY DEF Records
<1>2. InPhase(wk[w], state[NodeOf[w]]) /\ ~wk[w].armed
  BY Zenon DEF PhaseInv, Sites
<1>3. CASE PullReturns(w, ok) /\ wk[w].pc \in {"pullVersion", "pullFetch", "pullLoad", "resolve", "pullStore"}
  <2>1. CASE wk[w].op = "pull"
    <3> DEFINE next == [wk[w] EXCEPT !.pc = "return", !.errs = ~ok]
    <3>1. wk' = [wk EXCEPT ![w] = next]
      BY <1>3, <2>1 DEF PullReturns
    <3>2. /\ DOMAIN next = DOMAIN Idler /\ next.pc = "return"
          /\ next.op = wk[w].op /\ next.armed = wk[w].armed
      BY <1>1 DEF Idler
    <3> HIDE DEF next
    <3>3. InPhase(next, state[NodeOf[w]])
      BY <1>2, <2>1, <3>2 DEF InPhase
    <3> QED
      BY <1>2, <3>1, <3>2, <3>3, FieldsKept, PhaseKept, ZenonT(30)
  <2>2. CASE wk[w].op # "pull"
    <3> DEFINE next == [wk[w] EXCEPT !.pc = AfterPull(w), !.errs = wk[w].errs \/ ~ok]
    <3>1. wk' = [wk EXCEPT ![w] = next]
      BY <1>3, <2>2, Zenon DEF PullReturns
    <3>2. /\ DOMAIN next = DOMAIN Idler /\ next.pc = AfterPull(w)
          /\ next.op = wk[w].op /\ next.armed = wk[w].armed
      BY <1>1 DEF Idler
    <3> HIDE DEF next
    <3>3. wk[w].op = "sync"
      BY <1>2, <1>3, <2>2 DEF InPhase
    <3>4. InPhase(next, state[NodeOf[w]])
      BY <1>2, <1>3, <3>2, <3>3 DEF InPhase, AfterPull
    <3> QED
      BY <1>2, <3>1, <3>2, <3>4, FieldsKept, PhaseKept, ZenonT(30)
  <2> QED
    BY <2>1, <2>2
<1>4. CASE PushReturns(w, ok) /\ wk[w].pc \in {"pushVersion", "pushLoad", "pushBatch"}
  <2>1. CASE wk[w].op = "push"
    <3> DEFINE next == [wk[w] EXCEPT !.pc = "return", !.errs = ~ok]
    <3>1. wk' = [wk EXCEPT ![w] = next]
      BY <1>4, <2>1 DEF PushReturns
    <3>2. /\ DOMAIN next = DOMAIN Idler /\ next.pc = "return"
          /\ next.op = wk[w].op /\ next.armed = wk[w].armed
      BY <1>1 DEF Idler
    <3> HIDE DEF next
    <3>3. InPhase(next, state[NodeOf[w]])
      BY <1>2, <2>1, <3>2 DEF InPhase
    <3> QED
      BY <1>2, <3>1, <3>2, <3>3, FieldsKept, PhaseKept, ZenonT(30)
  <2>2. CASE wk[w].op # "push"
    <3> DEFINE next == [wk[w] EXCEPT !.pc = "projections", !.errs = wk[w].errs \/ ~ok]
    <3>1. wk' = [wk EXCEPT ![w] = next]
      BY <1>4, <2>2, Zenon DEF PushReturns
    <3>2. /\ DOMAIN next = DOMAIN Idler /\ next.pc = "projections"
          /\ next.op = wk[w].op /\ next.armed = wk[w].armed
      BY <1>1 DEF Idler
    <3> HIDE DEF next
    <3>3. wk[w].op = "sync"
      BY <1>2, <1>4, <2>2 DEF InPhase
    <3>4. InPhase(next, state[NodeOf[w]])
      BY <1>2, <1>4, <3>2, <3>3 DEF InPhase
    <3> QED
      BY <1>2, <3>1, <3>2, <3>4, FieldsKept, PhaseKept, ZenonT(30)
  <2> QED
    BY <2>1, <2>2
<1> QED
  BY <1>3, <1>4

\* The steps that leave the machine alone and do not return from pull or push.
LEMMA PhaseMoves ==
  ASSUME OneGoroutineEach, Records, PhaseInv, NEW w \in Workers, NEW next,
         wk' = [wk EXCEPT ![w] = next], state' = state,
         DOMAIN next = DOMAIN Idler, next.op = wk[w].op, ~next.armed,
         \/ wk[w].pc = "current" /\ next.pc = "init"
         \/ wk[w].pc = "pullVersion" /\ next.pc = "pullFetch"
         \/ wk[w].pc = "pullFetch" /\ next.pc = "pullLoad"
         \/ wk[w].pc = "pullLoad" /\ next.pc \in {"pullStore", "toResolve"}
         \/ wk[w].pc = "resolve" /\ next.pc = "pullStore"
         \/ wk[w].pc = "pushVersion" /\ next.pc = "pushLoad"
         \/ wk[w].pc = "pushLoad" /\ next.pc = "pushBatch"
         \/ wk[w].pc \in {"pullStore", "pushBatch"} /\ next.pc = wk[w].pc
         \/ wk[w].pc = "projections" /\ next.pc = "latest"
         \/ wk[w].pc = "latest" /\ next.pc = "final"
  PROVE  Records' /\ PhaseInv'
<1>1. InPhase(wk[w], state[NodeOf[w]])
  BY DEF PhaseInv
<1>2. InPhase(next, state[NodeOf[w]])
  BY <1>1, SMTT(30) DEF InPhase
<1> QED
  BY <1>2, FieldsKept, PhaseKept, Zenon

\* pull: LatestVersion, transport.Pull, Load, the resolver and the stores.
LEMMA PhasePull ==
  ASSUME OneGoroutineEach, Records, PhaseInv, NEW w \in Workers,
         \/ PullVersion(w) \/ PullFetch(w) \/ PullLoad(w) \/ Resolve(w)
         \/ PullStore(w) \/ PullStored(w)
  PROVE  Records' /\ PhaseInv'
<1>1. DOMAIN wk = Workers /\ DOMAIN wk[w] = DOMAIN Idler
  BY DEF Records
<1>2. state' = state
  BY Zenon DEF PullVersion, PullFetch, PullLoad, Resolve, PullStore, PullStored
<1>3. wk[w].pc \in {"pullVersion", "pullFetch", "pullLoad", "resolve", "pullStore"}
  BY Zenon DEF PullVersion, PullFetch, PullLoad, Resolve, PullStore, PullStored
<1>4. ~wk[w].armed
  BY <1>3, Zenon DEF PhaseInv, Sites
<1>5. ASSUME NEW ok, PullReturns(w, ok) PROVE Records' /\ PhaseInv'
  BY <1>2, <1>3, <1>5, PhaseReturns
<1>6. CASE PullVersion(w)
  <2>1. wk[w].pc = "pullVersion"
    BY <1>6 DEF PullVersion
  <2>2. CASE wk' = [wk EXCEPT ![w].since = LatestVersion(NodeOf[w]), ![w].pc = "pullFetch"]
    <3> DEFINE next == [wk[w] EXCEPT !.since = LatestVersion(NodeOf[w]), !.pc = "pullFetch"]
    <3>1. wk' = [wk EXCEPT ![w] = next]
      BY <1>1, <2>2, Zenon
    <3>2. DOMAIN next = DOMAIN Idler /\ next.pc = "pullFetch" /\ next.op = wk[w].op /\ next.armed = wk[w].armed
      BY <1>1 DEF Idler
    <3> HIDE DEF next
    <3> QED
      BY <1>2, <1>4, <2>1, <3>1, <3>2, PhaseMoves, Zenon
  <2> QED
    BY <1>5, <1>6, <2>2, Zenon DEF PullVersion
<1>7. CASE PullFetch(w)
  <2>1. wk[w].pc = "pullFetch"
    BY <1>7 DEF PullFetch
  <2>2. ASSUME NEW evs, wk' = [wk EXCEPT ![w].evs = evs, ![w].next = 1, ![w].pc = "pullLoad"]
        PROVE  Records' /\ PhaseInv'
    <3> DEFINE next == [wk[w] EXCEPT !.evs = evs, !.next = 1, !.pc = "pullLoad"]
    <3>1. wk' = [wk EXCEPT ![w] = next]
      BY <1>1, <2>2, Zenon
    <3>2. DOMAIN next = DOMAIN Idler /\ next.pc = "pullLoad" /\ next.op = wk[w].op /\ next.armed = wk[w].armed
      BY <1>1 DEF Idler
    <3> HIDE DEF next
    <3> QED
      BY <1>2, <1>4, <2>1, <3>1, <3>2, PhaseMoves, Zenon
  <2> QED
    BY <1>5, <1>7, <2>2, Zenon DEF PullFetch
<1>8. CASE PullLoad(w)
  <2>1. wk[w].pc = "pullLoad"
    BY <1>8 DEF PullLoad
  <2>2. ASSUME NEW mine, NEW pc \in {"pullStore", "toResolve"}, NEW fetched,
               wk' = [wk EXCEPT ![w].mine = mine, ![w].pc = pc, ![w].fetched = fetched]
        PROVE  Records' /\ PhaseInv'
    <3> DEFINE next == [wk[w] EXCEPT !.mine = mine, !.pc = pc, !.fetched = fetched]
    <3>1. wk' = [wk EXCEPT ![w] = next]
      BY <1>1, <2>2, Zenon
    <3>2. DOMAIN next = DOMAIN Idler /\ next.pc = pc /\ next.op = wk[w].op /\ next.armed = wk[w].armed
      BY <1>1 DEF Idler
    <3> HIDE DEF next
    <3> QED
      BY <1>2, <1>4, <2>1, <3>1, <3>2, PhaseMoves, Zenon
  <2>3. (IF Conflicts(wk[w].evs, Load(NodeOf[w], wk[w].since)) = <<>> THEN "pullStore" ELSE "toResolve")
          \in {"pullStore", "toResolve"}
    OBVIOUS
  <2> QED
    BY <1>5, <1>8, <2>2, <2>3, Zenon DEF PullLoad
<1>9. CASE Resolve(w)
  <2>1. wk[w].pc = "resolve"
    BY <1>9 DEF Resolve
  <2>2. ASSUME NEW evs, wk' = [wk EXCEPT ![w].evs = evs, ![w].pc = "pullStore"]
        PROVE  Records' /\ PhaseInv'
    <3> DEFINE next == [wk[w] EXCEPT !.evs = evs, !.pc = "pullStore"]
    <3>1. wk' = [wk EXCEPT ![w] = next]
      BY <1>1, <2>2, Zenon
    <3>2. DOMAIN next = DOMAIN Idler /\ next.pc = "pullStore" /\ next.op = wk[w].op /\ next.armed = wk[w].armed
      BY <1>1 DEF Idler
    <3> HIDE DEF next
    <3> QED
      BY <1>2, <1>4, <2>1, <3>1, <3>2, PhaseMoves, Zenon
  <2> QED
    BY <1>5, <1>9, <2>2, Zenon DEF Resolve
<1>10. CASE PullStore(w)
  <2>1. wk[w].pc = "pullStore"
    BY <1>10 DEF PullStore
  <2>2. CASE wk' = [wk EXCEPT ![w].next = @ + 1]
    <3> DEFINE next == [wk[w] EXCEPT !.next = @ + 1]
    <3>1. wk' = [wk EXCEPT ![w] = next]
      BY <1>1, <2>2
    <3>2. DOMAIN next = DOMAIN Idler /\ next.pc = wk[w].pc /\ next.op = wk[w].op /\ next.armed = wk[w].armed
      BY <1>1 DEF Idler
    <3> HIDE DEF next
    <3> QED
      BY <1>2, <1>4, <2>1, <3>1, <3>2, PhaseMoves, Zenon
  <2> QED
    BY <1>5, <1>10, <2>2, Zenon DEF PullStore
<1>11. CASE PullStored(w)
  BY <1>5, <1>11, Zenon DEF PullStored
<1> QED
  BY <1>6, <1>7, <1>8, <1>9, <1>10, <1>11

\* push: GetLatestVersion, Load and the batches.
LEMMA PhasePush ==
  ASSUME OneGoroutineEach, Records, PhaseInv, NEW w \in Workers,
         PushVersion(w) \/ PushLoad(w) \/ PushBatch(w) \/ PushDone(w)
  PROVE  Records' /\ PhaseInv'
<1>1. DOMAIN wk = Workers /\ DOMAIN wk[w] = DOMAIN Idler
  BY DEF Records
<1>2. state' = state
  BY Zenon DEF PushVersion, PushLoad, PushBatch, PushDone
<1>3. wk[w].pc \in {"pushVersion", "pushLoad", "pushBatch"}
  BY Zenon DEF PushVersion, PushLoad, PushBatch, PushDone
<1>4. ~wk[w].armed
  BY <1>3, Zenon DEF PhaseInv, Sites
<1>5. ASSUME NEW ok, PushReturns(w, ok) PROVE Records' /\ PhaseInv'
  BY <1>2, <1>3, <1>5, PhaseReturns
<1>6. CASE PushVersion(w)
  <2>1. wk[w].pc = "pushVersion"
    BY <1>6 DEF PushVersion
  <2>2. ASSUME NEW owed, wk' = [wk EXCEPT ![w].since = GetLatestVersion, ![w].pc = "pushLoad", ![w].owed = owed]
        PROVE  Records' /\ PhaseInv'
    <3> DEFINE next == [wk[w] EXCEPT !.since = GetLatestVersion, !.pc = "pushLoad", !.owed = owed]
    <3>1. wk' = [wk EXCEPT ![w] = next]
      BY <1>1, <2>2, ZenonT(30)
    <3>2. DOMAIN next = DOMAIN Idler /\ next.pc = "pushLoad" /\ next.op = wk[w].op /\ next.armed = wk[w].armed
      BY <1>1 DEF Idler
    <3> HIDE DEF next
    <3> QED
      BY <1>2, <1>4, <2>1, <3>1, <3>2, PhaseMoves, Zenon
  <2> QED
    BY <1>5, <1>6, <2>2, Zenon DEF PushVersion
<1>7. CASE PushLoad(w)
  <2>1. wk[w].pc = "pushLoad"
    BY <1>7, Zenon DEF PushLoad
  <2>2. ASSUME NEW evs, wk' = [wk EXCEPT ![w].evs = evs, ![w].next = 1, ![w].pc = "pushBatch"]
        PROVE  Records' /\ PhaseInv'
    <3> DEFINE next == [wk[w] EXCEPT !.evs = evs, !.next = 1, !.pc = "pushBatch"]
    <3>1. wk' = [wk EXCEPT ![w] = next]
      BY <1>1, <2>2, Zenon
    <3>2. DOMAIN next = DOMAIN Idler /\ next.pc = "pushBatch" /\ next.op = wk[w].op /\ next.armed = wk[w].armed
      BY <1>1 DEF Idler
    <3> HIDE DEF next
    <3> QED
      BY <1>2, <1>4, <2>1, <3>1, <3>2, PhaseMoves, Zenon
  <2> QED
    BY <1>5, <1>7, <2>2, Zenon DEF PushLoad
<1>8. CASE PushBatch(w)
  <2>1. wk[w].pc = "pushBatch"
    BY <1>8 DEF PushBatch
  <2>2. CASE wk' = [wk EXCEPT ![w].next = BatchEnd(w) + 1]
    <3> DEFINE next == [wk[w] EXCEPT !.next = BatchEnd(w) + 1]
    <3>1. wk' = [wk EXCEPT ![w] = next]
      BY <1>1, <2>2
    <3>2. DOMAIN next = DOMAIN Idler /\ next.pc = wk[w].pc /\ next.op = wk[w].op /\ next.armed = wk[w].armed
      BY <1>1 DEF Idler
    <3> HIDE DEF next
    <3> QED
      BY <1>2, <1>4, <2>1, <3>1, <3>2, PhaseMoves, Zenon
  <2> QED
    BY <1>5, <1>8, <2>2, Zenon DEF PushBatch
<1>9. CASE PushDone(w)
  BY <1>5, <1>9, Zenon DEF PushDone
<1> QED
  BY <1>6, <1>7, <1>8, <1>9

\* The state machine calls: with one goroutine, only the transition out of
\* ResolvingConflicts to Pushing is refused, and what was allowed when it was
\* validated still is when it is stored.
LEMMA PhaseTransition ==
  ASSUME OneGoroutineEach, Records, PhaseInv, NEW w \in Workers,
         Validate(w) \/ Refused(w) \/ Transition(w)
  PROVE  Records' /\ PhaseInv'
<1> DEFINE s == state[NodeOf[w]]
<1>1. DOMAIN wk = Workers /\ DOMAIN wk[w] = DOMAIN Idler /\ DOMAIN state = Nodes /\ NodeOf[w] \in Nodes
  BY ManagerAssumption DEF Records
<1>2. InPhase(wk[w], s) /\ (wk[w].armed => Target(w) \in SyncStateTransitionRules[s])
  BY Zenon DEF PhaseInv
<1>3. wk[w].pc \in Sites
  BY Zenon DEF Validate, Refused, Transition
<1>4. s \in {"Idle", "Initializing", "Pulling", "ResolvingConflicts", "Pushing", "Completed", "Failed"}
  BY <1>2, <1>3, SMTT(30) DEF InPhase, Sites, SyncIdle
<1> HIDE DEF s
<1>5. CASE Validate(w)
  <2> DEFINE next == [wk[w] EXCEPT !.armed = TRUE]
  <2>1. wk' = [wk EXCEPT ![w] = next] /\ state' = state /\ Target(w) \in SyncStateTransitionRules[s]
    BY <1>1, <1>5 DEF Validate, s
  <2>2. /\ DOMAIN next = DOMAIN Idler /\ next.pc = wk[w].pc /\ next.op = wk[w].op
        /\ next.errs = wk[w].errs
    BY <1>1 DEF Idler
  <2> HIDE DEF next
  <2>3. wk'[w] = next /\ OthersKept(w) /\ Records'
    BY <2>1, <2>2, FieldsKept, Zenon
  <2>4. InPhase(wk'[w], state'[NodeOf[w]])
    BY <1>2, <2>1, <2>2, <2>3 DEF InPhase, s
  <2>5. Target(w)' = Target(w)
    BY <2>2, <2>3, Zenon DEF Target
  <2> QED
    BY <1>3, <2>1, <2>2, <2>3, <2>4, <2>5, PhaseFrame DEF s
<1>6. CASE Refused(w)
  <2>1. Target(w) \notin SyncStateTransitionRules[s] /\ ~wk[w].armed /\ state' = state
    BY <1>6, Zenon DEF Refused, s
  <2>2. \/ wk[w].pc = "toPush" /\ wk[w].op = "sync" /\ s = "ResolvingConflicts"
        \/ wk[w].pc = "toResolve" /\ wk[w].op = "pull" /\ s = SyncIdle
    <3>1. wk[w].pc # "init"
      BY <1>2, <1>4, <2>1 DEF Target, InPhase, SyncStateTransitionRules, SyncIdle
    <3>2. wk[w].pc # "toPull"
      BY <1>2, <1>4, <2>1 DEF Target, InPhase, SyncStateTransitionRules
    <3>3. wk[w].pc # "final"
      BY <1>2, <1>4, <2>1 DEF Target, InPhase, SyncStateTransitionRules
    <3>4. wk[w].pc # "toIdle"
      BY <1>2, <1>4, <2>1 DEF Target, InPhase, SyncStateTransitionRules
    <3>5. wk[w].pc = "toPush" => wk[w].op = "sync" /\ s = "ResolvingConflicts"
      BY <1>2, <1>4, <2>1 DEF Target, InPhase, SyncStateTransitionRules
    <3>6. wk[w].pc = "toResolve" => wk[w].op = "pull" /\ s = SyncIdle
      BY <1>2, <1>4, <2>1 DEF Target, InPhase, SyncStateTransitionRules
    <3> QED
      BY <1>3, <3>1, <3>2, <3>3, <3>4, <3>5, <3>6 DEF Sites
  <2>3. CASE wk[w].pc = "toPush"
    <3> DEFINE next == [wk[w] EXCEPT !.errs = TRUE, !.pc = "final"]
    <3>1. wk' = [wk EXCEPT ![w] = next]
      BY <1>1, <1>6, <2>3, Zenon DEF Refused
    <3>2. DOMAIN next = DOMAIN Idler /\ next.pc = "final" /\ next.op = wk[w].op /\ next.armed = wk[w].armed
      BY <1>1 DEF Idler
    <3> HIDE DEF next
    <3>3. InPhase(next, s)
      BY <2>2, <2>3, <3>2 DEF InPhase
    <3> QED
      BY <2>1, <3>1, <3>2, <3>3, FieldsKept, PhaseKept, Zenon DEF s
  <2>4. CASE wk[w].pc = "toResolve"
    <3> DEFINE next == [wk[w] EXCEPT !.pc = "return", !.errs = ~(wk[w].op = "sync")]
    <3>1. PullReturns(w, wk[w].op = "sync") /\ wk[w].op = "pull"
      BY <1>6, <2>2, <2>4 DEF Refused
    <3>2. wk' = [wk EXCEPT ![w] = next]
      BY <3>1, Zenon DEF PullReturns
    <3>3. DOMAIN next = DOMAIN Idler /\ next.pc = "return" /\ next.op = wk[w].op /\ next.armed = wk[w].armed
      BY <1>1 DEF Idler
    <3> HIDE DEF next
    <3>4. InPhase(next, s)
      BY <2>2, <2>4, <3>3 DEF InPhase
    <3> QED
      BY <2>1, <3>2, <3>3, <3>4, FieldsKept, PhaseKept, Zenon DEF s
  <2> QED
    BY <2>2, <2>3, <2>4
<1>7. CASE Transition(w)
  <2> DEFINE pc == AfterTransition(w)
             next == [wk[w] EXCEPT !.armed = FALSE, !.pc = pc]
  <2>1. wk' = [wk EXCEPT ![w] = next]
    BY <1>1, <1>7, Zenon DEF Transition, Idler
  <2>2. /\ DOMAIN next = DOMAIN Idler /\ next.pc = pc /\ next.op = wk[w].op /\ ~next.armed
    BY <1>1 DEF Idler
  <2>3. state' = [state EXCEPT ![NodeOf[w]] = Target(w)] /\ wk[w].armed
    BY <1>7, Zenon DEF Transition
  <2> HIDE DEF next
  <2>4. state'[NodeOf[w]] = Target(w) /\ \A n \in Nodes : n # NodeOf[w] => state'[n] = state[n]
    BY <1>1, <2>3
  <2>5. Target(w) \in SyncStateTransitionRules[s]
    BY <1>2, <2>3
  <2>6. InPhase(next, Target(w))
    <3>1. CASE wk[w].pc = "init"
      <4>1. pc \in {"toPull", "toPush"} /\ Target(w) = "Initializing" /\ wk[w].op = "sync"
        BY <1>2, <3>1 DEF AfterTransition, FirstPhase, Target, InPhase
      <4> HIDE DEF pc
      <4> QED
        BY <2>2, <4>1 DEF InPhase
    <3>2. CASE wk[w].pc = "toPull"
      <4>1. pc = "pullVersion" /\ Target(w) = "Pulling" /\ wk[w].op = "sync"
        BY <1>2, <3>2 DEF AfterTransition, Target, InPhase
      <4> HIDE DEF pc
      <4> QED
        BY <2>2, <4>1 DEF InPhase
    <3>3. CASE wk[w].pc = "toResolve"
      <4>1. pc = "resolve" /\ Target(w) = "ResolvingConflicts"
        BY <3>3 DEF AfterTransition, Target
      <4>2. wk[w].op = "sync"
        BY <1>2, <2>5, <3>3, <4>1 DEF InPhase, SyncStateTransitionRules, SyncIdle
      <4> HIDE DEF pc
      <4> QED
        BY <2>2, <4>1, <4>2 DEF InPhase
    <3>4. CASE wk[w].pc = "toPush"
      <4>1. pc = "pushVersion" /\ Target(w) = "Pushing" /\ wk[w].op = "sync"
        BY <1>2, <3>4 DEF AfterTransition, Target, InPhase
      <4> HIDE DEF pc
      <4> QED
        BY <2>2, <4>1 DEF InPhase
    <3>5. CASE wk[w].pc = "final"
      <4>1. pc = "toIdle" /\ Target(w) \in {"Failed", "Completed"} /\ wk[w].op = "sync"
        BY <1>2, <3>5 DEF AfterTransition, Target, InPhase
      <4> HIDE DEF pc
      <4> QED
        BY <2>2, <4>1 DEF InPhase
    <3>6. CASE wk[w].pc = "toIdle"
      <4>1. pc = "return" /\ Target(w) = SyncIdle /\ wk[w].op = "sync"
        BY <1>2, <3>6 DEF AfterTransition, Target, InPhase, SyncIdle
      <4> HIDE DEF pc
      <4> QED
        BY <2>2, <4>1 DEF InPhase
    <3> QED
      BY <1>3, <3>1, <3>2, <3>3, <3>4, <3>5, <3>6 DEF Sites
  <2>7. wk'[w] = next /\ OthersKept(w)
    BY <2>1, FieldsKept, Zenon
  <2>8. Records'
    BY <1>1, <2>2, <2>3, <2>7 DEF Records, OthersKept
  <2> QED
    BY <2>2, <2>4, <2>6, <2>7, <2>8, PhaseFrame
<1> QED
  BY <1>5, <1>6, <1>7

\* A call begins, is rejected, ends, or its context is cancelled.
LEMMA PhaseCalls ==
  ASSUME OneGoroutineEach, Records, PhaseInv, NEW w \in Workers,
         \/ TestIdle(w) \/ RunProjections(w) \/ FinalVersion(w) \/ Return(w) \/ CancelContext(w)
         \/ \E op \in Operations : Start(w, op)
  PROVE  Records' /\ PhaseInv'
<1> DEFINE s == state[NodeOf[w]]
<1>1. DOMAIN wk = Workers /\ DOMAIN wk[w] = DOMAIN Idler
  BY DEF Records
<1>2. state' = state
  BY Zenon DEF TestIdle, RunProjections, FinalVersion, Return, CancelContext, Start
<1>3. InPhase(wk[w], s) /\ (wk[w].armed => wk[w].pc \in Sites /\ Target(w) \in SyncStateTransitionRules[s])
  BY Zenon DEF PhaseInv
<1>4. DOMAIN Idler = DOMAIN Idler /\ Idler.op = "none" /\ Idler.pc = "idle" /\ ~Idler.armed
  BY DEF Idler
<1> HIDE DEF s
<1>5. ASSUME wk' = [wk EXCEPT ![w] = Idler], s = SyncIdle PROVE Records' /\ PhaseInv'
  <2>1. InPhase(Idler, s)
    BY <1>4, <1>5 DEF InPhase
  <2> QED
    BY <1>2, <1>4, <1>5, <2>1, FieldsKept, PhaseKept, ZenonT(30) DEF s
<1>6. ASSUME NEW pc, NEW errs, wk[w].pc \notin Sites,
             wk' = [wk EXCEPT ![w].errs = errs, ![w].pc = pc],
             \/ wk[w].pc = "current" /\ pc = "init"
             \/ wk[w].pc = "projections" /\ pc = "latest"
             \/ wk[w].pc = "latest" /\ pc = "final"
      PROVE  Records' /\ PhaseInv'
  <2> DEFINE next == [wk[w] EXCEPT !.errs = errs, !.pc = pc]
  <2>1. wk' = [wk EXCEPT ![w] = next]
    BY <1>1, <1>6, Zenon
  <2>2. DOMAIN next = DOMAIN Idler /\ next.pc = pc /\ next.op = wk[w].op /\ next.armed = wk[w].armed
    BY <1>1 DEF Idler
  <2> HIDE DEF next
  <2>3. ~wk[w].armed
    BY <1>3, <1>6, Zenon
  <2> QED
    BY <1>2, <1>6, <2>1, <2>2, <2>3, PhaseMoves, Zenon
<1>7. ASSUME NEW pc, wk[w].pc \notin Sites, Go(w, pc),
             \/ wk[w].pc = "current" /\ pc = "init"
             \/ wk[w].pc = "projections" /\ pc = "latest"
             \/ wk[w].pc = "latest" /\ pc = "final"
      PROVE  Records' /\ PhaseInv'
  <2> DEFINE next == [wk[w] EXCEPT !.pc = pc]
  <2>1. wk' = [wk EXCEPT ![w] = next]
    BY <1>1, <1>7 DEF Go
  <2>2. DOMAIN next = DOMAIN Idler /\ next.pc = pc /\ next.op = wk[w].op /\ next.armed = wk[w].armed
    BY <1>1 DEF Idler
  <2> HIDE DEF next
  <2>3. ~wk[w].armed
    BY <1>3, <1>7, Zenon
  <2> QED
    BY <1>2, <1>7, <2>1, <2>2, <2>3, PhaseMoves, Zenon
<1>8. CASE TestIdle(w)
  <2>1. wk[w].pc = "current" /\ "current" \notin Sites
    BY <1>8 DEF TestIdle, Sites
  <2>2. s = SyncIdle
    BY <1>3, <2>1 DEF InPhase
  <2> QED
    BY <1>5, <1>7, <1>8, <2>1, <2>2, Zenon DEF TestIdle
<1>9. CASE RunProjections(w)
  <2>1. wk[w].pc = "projections" /\ "projections" \notin Sites
    BY <1>9 DEF RunProjections, Sites
  <2> QED
    BY <1>6, <1>7, <1>9, <2>1, Zenon DEF RunProjections
<1>10. CASE FinalVersion(w)
  <2>1. wk[w].pc = "latest" /\ "latest" \notin Sites
    BY <1>10 DEF FinalVersion, Sites
  <2> QED
    BY <1>6, <1>7, <1>10, <2>1, Zenon DEF FinalVersion
<1>11. CASE Return(w)
  <2>1. wk[w].pc = "return"
    BY <1>11 DEF Return
  <2>2. s = SyncIdle
    BY <1>3, <2>1 DEF InPhase
  <2> QED
    BY <1>5, <1>11, <2>2 DEF Return
<1>12. CASE CancelContext(w)
  <2> DEFINE next == [wk[w] EXCEPT !.cancelled = TRUE]
  <2>1. wk' = [wk EXCEPT ![w] = next]
    BY <1>1, <1>12 DEF CancelContext
  <2>2. /\ DOMAIN next = DOMAIN Idler /\ next.pc = wk[w].pc /\ next.op = wk[w].op
        /\ next.armed = wk[w].armed /\ next.errs = wk[w].errs
    BY <1>1 DEF Idler
  <2> HIDE DEF next
  <2>3. wk'[w] = next /\ OthersKept(w) /\ Records'
    BY <1>2, <2>1, <2>2, FieldsKept, Zenon
  <2>4. Target(w)' = Target(w)
    BY <2>2, <2>3, Zenon DEF Target
  <2>5. InPhase(next, s)
    BY <1>3, <2>2 DEF InPhase
  <2>6. wk'[w].armed => wk'[w].pc \in Sites /\ Target(w)' \in SyncStateTransitionRules[state'[NodeOf[w]]]
    BY <1>2, <1>3, <2>2, <2>3, <2>4, Zenon DEF s
  <2> QED
    BY <1>2, <2>3, <2>5, <2>6, PhaseFrame DEF s
<1>13. ASSUME NEW op \in Operations, Start(w, op) PROVE Records' /\ PhaseInv'
  <2> DEFINE pc == CASE op = "sync" -> "current" [] op = "push" -> "pushVersion" [] op = "pull" -> "pullVersion"
             next == [Idler EXCEPT !.op = op, !.pc = pc]
  <2>1. wk' = [wk EXCEPT ![w] = next] /\ wk[w].op = "none"
    BY <1>13, Zenon DEF Start
  <2>2. op \in {"sync", "push", "pull"}
    BY ManagerAssumption
  <2>3. s = SyncIdle
    BY <1>3, <2>1 DEF InPhase
  <2>4. DOMAIN next = DOMAIN Idler /\ next.pc = pc /\ next.op = op /\ ~next.armed
    BY Zenon DEF Idler
  <2> HIDE DEF next
  <2>5. InPhase(next, s)
    BY <2>2, <2>3, <2>4 DEF InPhase
  <2> QED
    BY <1>2, <2>1, <2>4, <2>5, FieldsKept, PhaseKept, Zenon DEF s
<1> QED
  BY <1>8, <1>9, <1>10, <1>11, <1>12, <1>13

LEMMA PhaseInit ==
  ASSUME Init PROVE Records /\ PhaseInv
<1>1. DOMAIN Idler = DOMAIN Idler /\ Idler.op = "none" /\ Idler.pc = "idle" /\ ~Idler.armed
  BY DEF Idler
<1>2. \A w \in Workers : wk[w] = Idler /\ state[NodeOf[w]] = SyncIdle
  BY ManagerAssumption DEF Init
<1>3. InPhase(Idler, SyncIdle)
  BY <1>1 DEF InPhase
<1> QED
  BY <1>1, <1>2, <1>3, Zenon DEF Init, Records, PhaseInv

LEMMA PhaseNext ==
  ASSUME OneGoroutineEach, Records, PhaseInv, [Next]_vars PROVE Records' /\ PhaseInv'
<1>1. ASSUME UNCHANGED <<state, wk>> PROVE Records' /\ PhaseInv'
  <2>1. \A w \in Workers : Target(w)' = Target(w)
    BY <1>1, Zenon DEF Target
  <2> QED
    BY <1>1, <2>1, Zenon DEF Records, PhaseInv
<1>2. CASE UNCHANGED vars
  BY <1>1, <1>2 DEF vars
<1>3. ASSUME NEW n \in Nodes, CloseBegins(n) \/ CloseStep(n) \/ \E e \in Events : AppStores(n, e)
      PROVE  Records' /\ PhaseInv'
  BY <1>1, <1>3, Zenon DEF CloseBegins, CloseStep, AppStores
<1> QED
  BY <1>2, <1>3, PhaseTransition, PhasePull, PhasePush, PhaseCalls DEF Next, Step

\* Whatever a Sync, Push or Pull meets (errors, refused transitions, conflicts,
\* a cancelled context, a manager closed under it), the machine is in Idle when it
\* has returned, so that CanAutoSync lets the next Sync in. For every number of
\* managers, every mode, resolver and bound; one goroutine calls each manager.
THEOREM MachinesRest ==
  ASSUME OneGoroutineEach
  PROVE  Spec => []RestsInIdle
<1>1. Init => Records /\ PhaseInv
  BY PhaseInit
<1>2. Records /\ PhaseInv /\ [Next]_vars => Records' /\ PhaseInv'
  BY PhaseNext
<1>3. PhaseInv => RestsInIdle
  <2> SUFFICES ASSUME PhaseInv, NEW n \in Nodes, \A w \in Workers : NodeOf[w] = n => wk[w].op = "none"
               PROVE  state[n] = SyncIdle
    BY DEF RestsInIdle
  <2>1. ASSUME NEW w \in Workers, NodeOf[w] = n PROVE state[n] = SyncIdle
    <3>1. InPhase(wk[w], state[n]) /\ wk[w].op = "none"
      BY <2>1 DEF PhaseInv
    <3> QED
      BY <3>1 DEF InPhase
  <2> QED
    BY <2>1 DEF PhaseInv
<1> QED
  BY <1>1, <1>2, <1>3, PTL DEF Spec

(***************************************************************************)
(* A pull that returns without an error has stored what it fetched.        *)
(***************************************************************************)

\* The application stores nothing where events are pulled: a node with events of
\* its own only pushes. Two-way replication meets conflicts, whose resolution
\* decides what is stored; there the property is model-checked only.
PullersStoreNothing ==
  \A n \in Nodes : Origin[n] = {} \/ (Mode[n] = "push" /\ "pull" \notin Operations)

Frames ==
  /\ DOMAIN wk = Workers /\ DOMAIN local = Nodes
  /\ \A w \in Workers : DOMAIN wk[w] = DOMAIN Idler

\* What the operators on sequences return.
LEMMA SeqEmpty ==
  ASSUME NEW S
  PROVE  <<>> \in Seq(S) /\ Len(<<>>) = 0 /\ \A s \in Seq(S) : s # <<>> => Len(s) \in Nat \ {0}
OBVIOUS

LEMMA SeqConcat ==
  ASSUME NEW S, NEW s \in Seq(S), NEW t \in Seq(S)
  PROVE  /\ s \o t \in Seq(S) /\ Len(s \o t) = Len(s) + Len(t)
         /\ \A i \in 1..Len(s) + Len(t) : (s \o t)[i] = IF i <= Len(s) THEN s[i] ELSE t[i - Len(s)]
OBVIOUS

LEMMA SeqSub ==
  ASSUME NEW S, NEW s, NEW m \in Int, NEW n \in Int, \A i \in m..n : s[i] \in S
  PROVE  /\ SubSeq(s, m, n) \in Seq(S)
         /\ Len(SubSeq(s, m, n)) = IF m <= n THEN n - m + 1 ELSE 0
         /\ \A i \in 1..(n - m + 1) : SubSeq(s, m, n)[i] = s[m + i - 1]
OBVIOUS

LEMMA SeqAppend ==
  ASSUME NEW S, NEW s \in Seq(S), NEW e \in S
  PROVE  /\ Append(s, e) \in Seq(S) /\ Len(Append(s, e)) = Len(s) + 1
         /\ \A i \in 1..Len(s) : Append(s, e)[i] = s[i]
         /\ Append(s, e)[Len(s) + 1] = e
OBVIOUS

\* A function on 1..n is a sequence of length n.
LEMMA FunctionIsSeq ==
  ASSUME NEW S, NEW n \in Nat, NEW f \in [1..n -> S]
  PROVE  f \in Seq(S) /\ Len(f) = n /\ DOMAIN f = 1..n
OBVIOUS

\* No position.
LEMMA PickNothing ==
  ASSUME NEW s
  PROVE  Pick(s, {}) = <<>>
<1>1. Cardinality({}) = 0
  BY FS_EmptySet
<1>2. Pick(s, {}) \in [1..0 -> {}]
  BY <1>1 DEF Pick
<1>3. Pick(s, {}) \in Seq({}) /\ Len(Pick(s, {})) = 0
  BY <1>2, FunctionIsSeq
<1> QED
  BY <1>3

LEMMA SeqIsSeq ==
  ASSUME NEW S, NEW s \in Seq(S)
  PROVE  IsSeq(s) /\ Len(s) \in Nat /\ DOMAIN s = 1..Len(s)
<1>1. Len(s) \in Nat /\ DOMAIN s = 1..Len(s) /\ s \in [1..Len(s) -> S]
  OBVIOUS
<1>2. s \in [1..Len(s) -> RangeOf(s)]
  BY <1>1 DEF RangeOf
<1> QED
  BY <1>1, <1>2, FunctionIsSeq DEF IsSeq

LEMMA MapIsSeq ==
  ASSUME NEW n \in Nat, NEW f, DOMAIN f = 1..n, f = [k \in 1..n |-> f[k]]
  PROVE  IsSeq(f)
<1>1. f \in [1..n -> RangeOf(f)]
  BY DEF RangeOf
<1> QED
  BY <1>1, FunctionIsSeq DEF IsSeq

LEMMA PickIsSeq ==
  ASSUME NEW s, IsSeq(s), NEW I, I \subseteq DOMAIN s
  PROVE  IsSeq(Pick(s, I))
<1>1. Len(s) \in Nat /\ DOMAIN s = 1..Len(s)
  BY SeqIsSeq DEF IsSeq
<1>2. IsFiniteSet(1..Len(s))
  BY <1>1, FS_Interval
<1>3. Cardinality(I) \in Nat
  BY <1>1, <1>2, FS_Subset, FS_CardinalityType
<1> DEFINE f == Pick(s, I)
<1>4. DOMAIN f = 1..Cardinality(I) /\ f = [k \in 1..Cardinality(I) |-> f[k]]
  BY DEF Pick
<1> HIDE DEF f
<1>5. IsSeq(f)
  BY <1>3, <1>4, MapIsSeq
<1> QED
  BY <1>5 DEF f

LEMMA ConcatIsSeq ==
  ASSUME NEW a, IsSeq(a), NEW b, IsSeq(b)
  PROVE  IsSeq(a \o b)
<1> DEFINE S == RangeOf(a) \cup RangeOf(b)
<1>1. a \in Seq(S) /\ b \in Seq(S)
  BY DEF IsSeq
<1> HIDE DEF S
<1>2. a \o b \in Seq(S)
  BY <1>1, SeqConcat
<1> QED
  BY <1>2, SeqIsSeq, Zenon

LEMMA AppendIsSeq ==
  ASSUME NEW s, IsSeq(s), NEW e
  PROVE  IsSeq(Append(s, e)) /\ RangeOf(Append(s, e)) = RangeOf(s) \cup {e}
<1> DEFINE S == RangeOf(s) \cup {e}
<1>1. s \in Seq(S) /\ e \in S
  BY DEF IsSeq
<1>2. Len(s) \in Nat /\ DOMAIN s = 1..Len(s)
  BY SeqIsSeq DEF IsSeq
<1> HIDE DEF S
<1>3. /\ Append(s, e) \in Seq(S) /\ Len(Append(s, e)) = Len(s) + 1
      /\ \A i \in 1..Len(s) : Append(s, e)[i] = s[i]
      /\ Append(s, e)[Len(s) + 1] = e
  BY <1>1, SeqAppend
<1>4. DOMAIN Append(s, e) = 1..(Len(s) + 1)
  BY <1>3, SeqIsSeq
<1>5. 1..(Len(s) + 1) = 1..Len(s) \cup {Len(s) + 1}
  BY <1>2
<1>6. RangeOf(Append(s, e)) = {Append(s, e)[i] : i \in 1..Len(s) \cup {Len(s) + 1}}
  BY <1>4, <1>5 DEF RangeOf
<1>7. RangeOf(s) = {s[i] : i \in 1..Len(s)}
  BY <1>2 DEF RangeOf
<1>8. RangeOf(Append(s, e)) = RangeOf(s) \cup {e}
  BY <1>3, <1>6, <1>7
<1> QED
  BY <1>3, <1>8, SeqIsSeq, Zenon

LEMMA PullFrame ==
  ASSUME OneGoroutineEach, Frames, PullInv, NEW w \in Workers, OthersKept(w),
         DOMAIN wk'[w] = DOMAIN Idler, DOMAIN local' = Nodes,
         \A m \in Nodes : m # NodeOf[w] => local'[m] = local[m],
         IsSeq(local'[NodeOf[w]]), IsSeq(remote'),
         PullHolds(wk'[w], NodeOf[w], local'[NodeOf[w]])
  PROVE  Frames' /\ PullInv'
<1>1. Frames'
  BY DEF Frames, OthersKept
<1>2. NodeOf \in [Workers -> Nodes]
  BY ManagerAssumption
<1>3. ASSUME NEW v \in Workers PROVE PullHolds(wk'[v], NodeOf[v], local'[NodeOf[v]])
  <2>1. CASE v # w
    <3>1. wk'[v] = wk[v] /\ local'[NodeOf[v]] = local[NodeOf[v]]
      BY <1>2, <2>1 DEF OthersKept, OneGoroutineEach
    <3> QED
      BY <3>1 DEF PullInv
  <2> QED
    BY <2>1
<1>4. \A n \in Nodes : IsSeq(local'[n])
  BY <1>2 DEF PullInv
<1>5. PullInv' = ( /\ IsSeq(remote') /\ \A n \in Nodes : IsSeq(local'[n])
                   /\ \A v \in Workers : PullHolds(wk'[v], NodeOf[v], local'[NodeOf[v]]) )
  BY DEF PullInv
<1> QED
  BY <1>1, <1>3, <1>4, <1>5

\* A step that leaves the logs alone.
LEMMA PullKept ==
  ASSUME OneGoroutineEach, Frames, PullInv, NEW w \in Workers, NEW next,
         wk' = [wk EXCEPT ![w] = next], UNCHANGED <<local, remote>>,
         DOMAIN next = DOMAIN Idler, PullHolds(next, NodeOf[w], local[NodeOf[w]])
  PROVE  Frames' /\ PullInv'
<1>1. wk'[w] = next /\ OthersKept(w)
  BY DEF OthersKept, Frames
<1>2. NodeOf[w] \in Nodes
  BY ManagerAssumption
<1> QED
  BY <1>1, <1>2, PullFrame DEF PullInv, Frames

\* Where a goroutine is not, or no longer, pulling.
AfterwardsPcs == {"idle", "projections", "latest", "final", "toIdle", "return",
                  "toPush", "pushVersion", "pushLoad", "pushBatch"}

\* A goroutine that moves on with the pulled events in the store, or an error.
LEMMA HoldsAfterwards ==
  ASSUME NEW r, NEW n, NEW log, NEW next,
         r.op = "push" => r.fetched = {},
         next.op = r.op, next.fetched = r.fetched, next.next \in Nat \ {0}, IsSeq(next.evs),
         next.pc \in AfterwardsPcs,
         next.errs \/ r.fetched \subseteq RangeOf(log)
  PROVE  PullHolds(next, n, log)
<1>1. ~next.errs => r.fetched \subseteq RangeOf(log)
  OBVIOUS
<1>2. /\ next.pc \notin {"toResolve", "resolve", "toPull", "pullVersion", "pullFetch", "pullLoad", "pullStore"}
      /\ next.pc \notin {"current", "init"}
  BY DEF AfterwardsPcs
<1>3. next.pc \notin {"current", "init", "toPull", "pullVersion", "pullFetch", "pullLoad"}
  BY <1>2
<1>4. next.pc \notin {"toPull", "pullVersion", "pullFetch", "pullLoad", "pullStore"}
  BY <1>2
<1>5. next.pc \notin {"pullFetch", "pullLoad"} /\ next.pc # "pullLoad" /\ next.pc # "pullStore" /\ next.pc \notin {"toResolve", "resolve"}
  BY <1>2
<1>6. next.pc \notin {"current", "init", "toPull", "pullVersion", "pullFetch", "pullLoad", "pullStore"}
  BY <1>2
<1> QED
  BY <1>1, <1>3, <1>4, <1>5, <1>6, Zenon DEF PullHolds

LEMMA IdlerHolds ==
  ASSUME NEW n, NEW log PROVE PullHolds(Idler, n, log) /\ DOMAIN Idler = DOMAIN Idler
<1>1. /\ Idler.op = "none" /\ Idler.fetched = {} /\ Idler.next = 1 /\ Idler.evs = <<>> /\ Idler.pc = "idle"
  BY DEF Idler
<1>2. IsSeq(<<>>)
  BY SeqEmpty, SeqIsSeq, Zenon
<1>3. Idler.pc \in AfterwardsPcs /\ Idler.next \in Nat \ {0} /\ IsSeq(Idler.evs)
  BY <1>1, <1>2 DEF AfterwardsPcs
<1> QED
  BY <1>1, <1>3, HoldsAfterwards

\* A goroutine whose control alone moves.
LEMMA PullControl ==
  ASSUME OneGoroutineEach, Frames, PullInv, NEW w \in Workers, NEW pc, NEW errs, NEW armed, NEW cancelled,
         wk' = [wk EXCEPT ![w] = [wk[w] EXCEPT !.pc = pc, !.errs = errs, !.armed = armed, !.cancelled = cancelled]],
         UNCHANGED <<local, remote>>,
         \/ pc \in AfterwardsPcs /\ (errs \/ wk[w].fetched \subseteq RangeOf(local[NodeOf[w]]))
         \/ pc = wk[w].pc /\ errs = wk[w].errs
         \/ pc = "init" /\ wk[w].pc = "current"
         \/ pc = "toPull" /\ wk[w].pc = "init" /\ Origin[NodeOf[w]] = {}
         \/ pc = "pullVersion" /\ wk[w].pc = "toPull"
  PROVE  Frames' /\ PullInv'
<1> DEFINE n == NodeOf[w]
           log == local[n]
           next == [wk[w] EXCEPT !.pc = pc, !.errs = errs, !.armed = armed, !.cancelled = cancelled]
<1>1. PullHolds(wk[w], n, log) /\ DOMAIN wk[w] = DOMAIN Idler
  BY DEF PullInv, Frames
<1>2. /\ DOMAIN next = DOMAIN Idler /\ next.pc = pc /\ next.errs = errs /\ next.op = wk[w].op
      /\ next.since = wk[w].since /\ next.evs = wk[w].evs /\ next.next = wk[w].next
      /\ next.fetched = wk[w].fetched
  BY <1>1 DEF Idler
<1>3. wk' = [wk EXCEPT ![w] = next]
  OBVIOUS
<1> HIDE DEF next, n, log
<1>4. /\ wk[w].next \in Nat \ {0} /\ IsSeq(wk[w].evs)
      /\ wk[w].op = "push" => wk[w].fetched = {}
  BY <1>1, Zenon DEF PullHolds
<1>5. PullHolds(next, n, log)
  <2>1. CASE pc \in AfterwardsPcs /\ (errs \/ wk[w].fetched \subseteq RangeOf(log))
    BY <1>2, <1>4, <2>1, HoldsAfterwards
  <2>2. CASE pc = wk[w].pc /\ errs = wk[w].errs
    BY <1>1, <1>2, <2>2, ZenonT(30) DEF PullHolds
  <2>3. CASE pc \in {"init", "toPull", "pullVersion"} /\ wk[w].fetched = {} /\ wk[w].op # "push"
             /\ (pc # "init" => Origin[n] = {})
    <3>1. next.fetched = {} /\ next.pc \notin {"toResolve", "resolve", "pullFetch", "pullLoad", "pullStore"}
      BY <1>2, <2>3
    <3>2. next.pc \in {"toPull", "pullVersion", "pullFetch", "pullLoad", "pullStore"} => Origin[n] = {}
      BY <1>2, <2>3
    <3> QED
      BY <1>2, <1>4, <2>3, <3>1, <3>2 DEF PullHolds
  <2>4. wk[w].pc \in {"current", "init", "toPull"} => wk[w].fetched = {} /\ wk[w].op # "push"
    BY <1>1 DEF PullHolds
  <2>5. wk[w].pc = "toPull" => Origin[n] = {}
    BY <1>1 DEF PullHolds
  <2> QED
    BY <2>1, <2>2, <2>3, <2>4, <2>5 DEF n, log
<1> QED
  BY <1>2, <1>3, <1>5, PullKept, Zenon DEF n, log

LEMMA PullPullReturns ==
  ASSUME OneGoroutineEach, Frames, PullInv, NEW w \in Workers, NEW ok,
         PullReturns(w, ok), UNCHANGED <<local, remote>>,
         ok => wk[w].fetched \subseteq RangeOf(local[NodeOf[w]])
  PROVE  Frames' /\ PullInv'
<1> DEFINE errs == IF wk[w].op = "pull" THEN ~ok ELSE wk[w].errs \/ ~ok
           pc == IF wk[w].op = "pull" THEN "return" ELSE AfterPull(w)
<1>1. DOMAIN wk = Workers /\ DOMAIN wk[w] = DOMAIN Idler
  BY DEF Frames
<1>2. CASE wk[w].op = "pull"
  <2>1. wk' = [wk EXCEPT ![w] = [wk[w] EXCEPT !.pc = "return", !.errs = ~ok]]
    BY <1>2, Zenon DEF PullReturns
  <2>2. wk' = [wk EXCEPT ![w] = [wk[w] EXCEPT !.pc = "return", !.errs = ~ok, !.armed = wk[w].armed,
                                               !.cancelled = wk[w].cancelled]]
    BY <1>1, <2>1, Zenon DEF Idler
  <2> QED
    BY <2>2, PullControl, Zenon DEF AfterwardsPcs
<1>3. CASE wk[w].op # "pull"
  <2>1. wk' = [wk EXCEPT ![w] = [wk[w] EXCEPT !.pc = AfterPull(w), !.errs = wk[w].errs \/ ~ok]]
    BY <1>3, Zenon DEF PullReturns
  <2>2. wk' = [wk EXCEPT ![w] = [wk[w] EXCEPT !.pc = AfterPull(w), !.errs = wk[w].errs \/ ~ok,
                                               !.armed = wk[w].armed, !.cancelled = wk[w].cancelled]]
    BY <1>1, <2>1, Zenon DEF Idler
  <2>3. AfterPull(w) \in AfterwardsPcs
    BY DEF AfterPull, AfterwardsPcs
  <2> QED
    BY <2>2, <2>3, PullControl, Zenon
<1> QED
  BY <1>2, <1>3

LEMMA PullPushReturns ==
  ASSUME OneGoroutineEach, Frames, PullInv, NEW w \in Workers, NEW ok,
         PushReturns(w, ok), UNCHANGED local, IsSeq(remote'),
         wk[w].pc \in {"pushVersion", "pushLoad", "pushBatch"}
  PROVE  Frames' /\ PullInv'
<1> DEFINE n == NodeOf[w]
           log == local[n]
<1>1. DOMAIN wk = Workers /\ DOMAIN wk[w] = DOMAIN Idler /\ DOMAIN local = Nodes /\ n \in Nodes
  BY ManagerAssumption DEF Frames
<1>2. PullHolds(wk[w], n, log) /\ IsSeq(log)
  BY <1>1 DEF PullInv
<1> HIDE DEF log
<1>3. /\ wk[w].next \in Nat \ {0} /\ IsSeq(wk[w].evs)
      /\ wk[w].op = "push" => wk[w].fetched = {}
  BY <1>2, Zenon DEF PullHolds
<1>4. wk[w].pc # "pullStore"
  OBVIOUS
<1>5. wk[w].errs \/ wk[w].fetched \subseteq RangeOf(log)
  BY <1>2, <1>4, Zenon DEF PullHolds
<1>6. ASSUME NEW next, wk' = [wk EXCEPT ![w] = next], DOMAIN next = DOMAIN Idler, PullHolds(next, n, log)
      PROVE  Frames' /\ PullInv'
  <2>1. wk'[w] = next /\ OthersKept(w)
    BY <1>1, <1>6 DEF OthersKept
  <2> QED
    BY <1>1, <1>2, <1>6, <2>1, PullFrame DEF log
<1>7. CASE wk[w].op = "push"
  <2> DEFINE next == [wk[w] EXCEPT !.pc = "return", !.errs = ~ok]
  <2>1. wk' = [wk EXCEPT ![w] = next]
    BY <1>7, Zenon DEF PushReturns
  <2>2. /\ DOMAIN next = DOMAIN Idler /\ next.pc = "return" /\ next.op = wk[w].op
        /\ next.evs = wk[w].evs /\ next.next = wk[w].next /\ next.fetched = wk[w].fetched
    BY <1>1 DEF Idler
  <2> HIDE DEF next
  <2>3. wk[w].fetched \subseteq RangeOf(log) /\ next.pc \in AfterwardsPcs
    BY <1>3, <1>7, <2>2 DEF AfterwardsPcs
  <2>4. PullHolds(next, n, log)
    BY <1>3, <2>2, <2>3, HoldsAfterwards
  <2> QED
    BY <1>6, <2>1, <2>2, <2>4, Zenon
<1>8. CASE wk[w].op # "push"
  <2> DEFINE next == [wk[w] EXCEPT !.pc = "projections", !.errs = wk[w].errs \/ ~ok]
  <2>1. wk' = [wk EXCEPT ![w] = next]
    BY <1>8, Zenon DEF PushReturns
  <2>2. /\ DOMAIN next = DOMAIN Idler /\ next.pc = "projections" /\ next.op = wk[w].op
        /\ next.evs = wk[w].evs /\ next.next = wk[w].next /\ next.fetched = wk[w].fetched
        /\ next.errs = (wk[w].errs \/ ~ok)
    BY <1>1 DEF Idler
  <2> HIDE DEF next
  <2>3. next.pc \in AfterwardsPcs /\ (next.errs \/ wk[w].fetched \subseteq RangeOf(log))
    BY <1>5, <2>2, Zenon DEF AfterwardsPcs
  <2>4. PullHolds(next, n, log)
    BY <1>3, <2>2, <2>3, HoldsAfterwards
  <2> QED
    BY <1>6, <2>1, <2>2, <2>4, Zenon
<1> QED
  BY <1>7, <1>8

\* pull: with nothing stored since the version was read there is no conflict, and
\* the events it stores are the ones it fetched, in order.
LEMMA PullPulls ==
  ASSUME OneGoroutineEach, Frames, PullInv, NEW w \in Workers,
         PullVersion(w) \/ PullFetch(w) \/ PullLoad(w) \/ Resolve(w) \/ PullStore(w) \/ PullStored(w)
  PROVE  Frames' /\ PullInv'
<1> DEFINE n == NodeOf[w]
           log == local[n]
<1>1. DOMAIN wk = Workers /\ DOMAIN wk[w] = DOMAIN Idler /\ DOMAIN local = Nodes /\ n \in Nodes
  BY ManagerAssumption DEF Frames
<1>2. PullHolds(wk[w], n, log) /\ IsSeq(log) /\ IsSeq(remote)
  BY <1>1 DEF PullInv
<1>3. Len(log) \in Nat /\ DOMAIN log = 1..Len(log)
  BY <1>2, SeqIsSeq DEF IsSeq
<1>4. wk[w].next \in Nat \ {0} /\ IsSeq(wk[w].evs)
  BY <1>2, Zenon DEF PullHolds
<1>5. DOMAIN wk[w].evs = 1..Len(wk[w].evs) /\ Len(wk[w].evs) \in Nat
  BY <1>4, SeqIsSeq DEF IsSeq
<1>6. wk[w].pc \in {"pullVersion", "pullFetch", "pullLoad", "pullStore"} => Origin[n] = {}
  BY <1>2 DEF PullHolds
<1>7. wk[w].pc \in {"pullVersion", "pullFetch", "pullLoad"} => wk[w].fetched = {} /\ wk[w].op # "push"
  BY <1>2 DEF PullHolds
<1>8. CASE PullVersion(w)
  <2>1. wk[w].pc = "pullVersion" /\ UNCHANGED <<local, remote>>
    BY <1>8 DEF PullVersion
  <2>2. CASE wk' = [wk EXCEPT ![w].since = LatestVersion(n), ![w].pc = "pullFetch"]
    <3> DEFINE next == [wk[w] EXCEPT !.since = Len(log), !.pc = "pullFetch"]
    <3>1. wk' = [wk EXCEPT ![w] = next]
      BY <1>1, <2>2, Zenon DEF LatestVersion
    <3>2. /\ DOMAIN next = DOMAIN Idler /\ next.pc = "pullFetch" /\ next.since = Len(log)
          /\ next.evs = wk[w].evs /\ next.next = wk[w].next /\ next.fetched = wk[w].fetched
          /\ next.op = wk[w].op
      BY <1>1 DEF Idler
    <3> HIDE DEF next, log
    <3>3. PullHolds(next, n, log)
      BY <1>4, <1>6, <1>7, <2>1, <3>2 DEF PullHolds
    <3> QED
      BY <2>1, <3>1, <3>2, <3>3, PullKept, Zenon DEF log
  <2>3. CASE PullReturns(w, FALSE)
    BY <2>1, <2>3, PullPullReturns, Zenon
  <2> QED
    BY <1>8, <2>2, <2>3, Zenon DEF PullVersion
<1>9. CASE PullFetch(w)
  <2>1. wk[w].pc = "pullFetch" /\ UNCHANGED <<local, remote>>
    BY <1>9 DEF PullFetch
  <2>2. CASE wk' = [wk EXCEPT ![w].evs = PullSince(wk[w].since), ![w].next = 1, ![w].pc = "pullLoad"]
    <3> DEFINE evs == PullSince(wk[w].since)
               next == [wk[w] EXCEPT !.evs = evs, !.next = 1, !.pc = "pullLoad"]
    <3>1. IsSeq(evs)
      BY <1>2, PickIsSeq DEF PullSince
    <3> HIDE DEF evs
    <3>2. wk' = [wk EXCEPT ![w] = next]
      BY <1>1, <2>2, Zenon DEF evs
    <3>3. /\ DOMAIN next = DOMAIN Idler /\ next.pc = "pullLoad" /\ next.since = wk[w].since
          /\ next.evs = evs /\ next.next = 1 /\ next.fetched = wk[w].fetched /\ next.op = wk[w].op
      BY <1>1 DEF Idler
    <3>4. wk[w].since = Len(log)
      BY <1>2, <2>1 DEF PullHolds
    <3> HIDE DEF next, log
    <3>5. PullHolds(next, n, log)
      BY <1>6, <1>7, <2>1, <3>1, <3>3, <3>4 DEF PullHolds
    <3> QED
      BY <2>1, <3>2, <3>3, <3>5, PullKept, Zenon DEF log
  <2>3. ASSUME NEW ok, PullReturns(w, ok) PROVE Frames' /\ PullInv'
    <3>1. wk[w].fetched = {}
      BY <1>7, <2>1
    <3> QED
      BY <2>1, <2>3, <3>1, PullPullReturns
  <2> QED
    BY <1>9, <2>2, <2>3, Zenon DEF PullFetch
<1>10. CASE PullLoad(w)
  <2>1. wk[w].pc = "pullLoad" /\ UNCHANGED <<local, remote>>
    BY <1>10 DEF PullLoad
  <2>2. wk[w].since = Len(log) /\ wk[w].next = 1
    BY <1>2, <2>1 DEF PullHolds
  <2>3. Load(n, wk[w].since) = <<>>
    <3>1. {i \in DOMAIN log : i > Len(log)} = {}
      BY <1>3
    <3> QED
      BY <2>2, <3>1, PickNothing, Zenon DEF Load
  <2>4. Conflicts(wk[w].evs, <<>>) = <<>>
    <3>1. Len(<<>>) = 0 /\ 1..(Len(wk[w].evs) * 0) = {}
      BY <1>5
    <3> QED
      BY <3>1, PickNothing, Zenon DEF Conflicts
  <2>5. Unconflicted(wk[w].evs, <<>>) = {wk[w].evs[k].ev : k \in 1..Len(wk[w].evs)}
    <3>1. DOMAIN <<>> = {}
      OBVIOUS
    <3>2. {k \in DOMAIN wk[w].evs : \A j \in DOMAIN <<>> :
             Key[wk[w].evs[k].ev] = Key[<<>>[j].ev] => wk[w].evs[k].ver = <<>>[j].ver} = 1..Len(wk[w].evs)
      BY <1>5, <3>1
    <3> QED
      BY <3>2, Zenon DEF Unconflicted
  <2>6. CASE wk' = [wk EXCEPT ![w].mine = Load(n, wk[w].since),
                              ![w].pc = IF Conflicts(wk[w].evs, Load(n, wk[w].since)) = <<>>
                                          THEN "pullStore" ELSE "toResolve",
                              ![w].fetched = Unconflicted(wk[w].evs, Load(n, wk[w].since))]
    <3> DEFINE f == Unconflicted(wk[w].evs, <<>>)
               next == [wk[w] EXCEPT !.mine = <<>>, !.pc = "pullStore", !.fetched = f]
    <3>1. wk' = [wk EXCEPT ![w].mine = <<>>, ![w].pc = "pullStore", ![w].fetched = f]
      BY <2>3, <2>4, <2>6
    <3>2. f = {wk[w].evs[k].ev : k \in 1..Len(wk[w].evs)}
      BY <2>5
    <3> HIDE DEF f
    <3>3. wk' = [wk EXCEPT ![w] = next]
      BY <1>1, <3>1, Zenon
    <3>4. /\ DOMAIN next = DOMAIN Idler /\ next.pc = "pullStore" /\ next.op = wk[w].op
          /\ next.evs = wk[w].evs /\ next.next = wk[w].next /\ next.fetched = f
      BY <1>1 DEF Idler
    <3> HIDE DEF next, log
    <3>5. wk[w].op # "push"
      BY <1>7, <2>1
    <3>6. PullHolds(next, n, log)
      BY <1>4, <1>6, <2>1, <2>2, <3>2, <3>4, <3>5 DEF PullHolds
    <3> QED
      BY <2>1, <3>3, <3>4, <3>6, PullKept, Zenon DEF log
  <2>7. CASE PullReturns(w, FALSE)
    BY <2>1, <2>7, PullPullReturns, Zenon
  <2> QED
    BY <1>10, <2>6, <2>7, Zenon DEF PullLoad
<1>11. CASE Resolve(w)
  BY <1>2, <1>11 DEF Resolve, PullHolds
<1>12. CASE PullStore(w)
  <2>1. wk[w].pc = "pullStore" /\ UNCHANGED remote /\ wk[w].next \in 1..Len(wk[w].evs)
    BY <1>4, <1>5, <1>12 DEF PullStore
  <2> DEFINE e == wk[w].evs[wk[w].next].ev
  <2>2. CASE local' = [local EXCEPT ![n] = Append(local[n], e)] /\ wk' = [wk EXCEPT ![w].next = wk[w].next + 1]
    <3> DEFINE next == [wk[w] EXCEPT !.next = wk[w].next + 1]
               log2 == Append(log, e)
    <3>1. wk' = [wk EXCEPT ![w] = next]
      BY <1>1, <2>2
    <3>2. /\ DOMAIN next = DOMAIN Idler /\ next.pc = wk[w].pc /\ next.op = wk[w].op
          /\ next.evs = wk[w].evs /\ next.next = wk[w].next + 1 /\ next.fetched = wk[w].fetched
      BY <1>1 DEF Idler
    <3>3. IsSeq(log2) /\ RangeOf(log2) = RangeOf(log) \cup {e}
      BY <1>2, AppendIsSeq
    <3>4. local'[n] = log2 /\ DOMAIN local' = Nodes /\ \A m \in Nodes : m # n => local'[m] = local[m]
      BY <1>1, <2>2
    <3>5. wk[w].op # "push"
      BY <1>2, <2>1 DEF PullHolds
    <3>6. wk[w].fetched \subseteq RangeOf(log) \cup {wk[w].evs[k].ev : k \in wk[w].next..Len(wk[w].evs)}
      BY <1>2, <2>1 DEF PullHolds
    <3>7. {wk[w].evs[k].ev : k \in wk[w].next..Len(wk[w].evs)}
            \subseteq {e} \cup {wk[w].evs[k].ev : k \in (wk[w].next + 1)..Len(wk[w].evs)}
      BY <1>4, <1>5
    <3> HIDE DEF next, log2, e, log
    <3>8. next.fetched \subseteq RangeOf(log2) \cup {next.evs[k].ev : k \in next.next..Len(next.evs)}
      <4>1. {next.evs[k].ev : k \in next.next..Len(next.evs)}
              = {wk[w].evs[k].ev : k \in (wk[w].next + 1)..Len(wk[w].evs)}
        BY <3>2, Zenon
      <4> QED
        BY <3>2, <3>3, <3>6, <3>7, <4>1, Zenon
    <3>9. PullHolds(next, n, log2)
      BY <1>4, <1>6, <2>1, <3>2, <3>5, <3>8 DEF PullHolds
    <3>10. wk'[w] = next /\ OthersKept(w)
      BY <1>1, <3>1 DEF OthersKept
    <3> QED
      BY <1>2, <2>1, <3>2, <3>3, <3>4, <3>9, <3>10, PullFrame
  <2>3. CASE PullReturns(w, FALSE) /\ UNCHANGED local
    BY <2>1, <2>3, PullPullReturns, Zenon
  <2> QED
    BY <1>12, <2>2, <2>3, Zenon DEF PullStore
<1>13. CASE PullStored(w)
  <2>1. wk[w].pc = "pullStore" /\ UNCHANGED <<local, remote>> /\ PullReturns(w, TRUE) /\ wk[w].next > Len(wk[w].evs)
    BY <1>13, Zenon DEF PullStored
  <2>2. wk[w].fetched \subseteq RangeOf(log) \cup {wk[w].evs[k].ev : k \in wk[w].next..Len(wk[w].evs)}
    BY <1>2, <2>1 DEF PullHolds
  <2>3. wk[w].next..Len(wk[w].evs) = {}
    BY <1>4, <1>5, <2>1
  <2>4. wk[w].fetched \subseteq RangeOf(log)
    BY <2>2, <2>3
  <2> QED
    BY <2>1, <2>4, PullPullReturns, Zenon
<1> QED
  BY <1>8, <1>9, <1>10, <1>11, <1>12, <1>13

\* push: it touches nothing a pull remembers, and the transport's log stays a
\* sequence.
LEMMA PullPushes ==
  ASSUME OneGoroutineEach, Frames, PullInv, NEW w \in Workers,
         PushVersion(w) \/ PushLoad(w) \/ PushBatch(w) \/ PushDone(w)
  PROVE  Frames' /\ PullInv'
<1> DEFINE n == NodeOf[w]
           log == local[n]
<1>1. DOMAIN wk = Workers /\ DOMAIN wk[w] = DOMAIN Idler /\ DOMAIN local = Nodes /\ n \in Nodes
  BY ManagerAssumption DEF Frames
<1>2. PullHolds(wk[w], n, log) /\ IsSeq(log) /\ IsSeq(remote)
  BY <1>1 DEF PullInv
<1>3. wk[w].next \in Nat \ {0} /\ IsSeq(wk[w].evs) /\ (wk[w].op = "push" => wk[w].fetched = {})
  BY <1>2, Zenon DEF PullHolds
<1>4. DOMAIN wk[w].evs = 1..Len(wk[w].evs) /\ Len(wk[w].evs) \in Nat
  BY <1>3, SeqIsSeq DEF IsSeq
<1>5. wk[w].pc \in {"pushVersion", "pushLoad", "pushBatch"} /\ local' = local
  BY Zenon DEF PushVersion, PushLoad, PushBatch, PushDone
<1>6. wk[w].pc # "pullStore" /\ wk[w].pc \in AfterwardsPcs
  BY <1>5 DEF AfterwardsPcs
<1>7. wk[w].errs \/ wk[w].fetched \subseteq RangeOf(log)
  BY <1>2, <1>6, Zenon DEF PullHolds
<1>8. ASSUME NEW next, wk' = [wk EXCEPT ![w] = next], DOMAIN next = DOMAIN Idler, IsSeq(remote'),
             next.pc \in AfterwardsPcs, next.op = wk[w].op, next.fetched = wk[w].fetched,
             next.errs = wk[w].errs, next.next \in Nat \ {0}, IsSeq(next.evs)
      PROVE  Frames' /\ PullInv'
  <2>1. wk'[w] = next /\ OthersKept(w)
    BY <1>1, <1>8 DEF OthersKept
  <2>2. next.errs \/ wk[w].fetched \subseteq RangeOf(log)
    BY <1>7, <1>8, Zenon
  <2> HIDE DEF log
  <2>3. PullHolds(next, n, log)
    BY <1>3, <1>8, <2>2, HoldsAfterwards
  <2> QED
    BY <1>1, <1>2, <1>5, <1>8, <2>1, <2>3, PullFrame DEF log
<1>9. ASSUME NEW ok, PushReturns(w, ok), IsSeq(remote') PROVE Frames' /\ PullInv'
  BY <1>5, <1>9, PullPushReturns
<1>10. CASE PushVersion(w)
  <2>1. remote' = remote
    BY <1>10 DEF PushVersion
  <2>2. ASSUME NEW since, NEW owed, wk' = [wk EXCEPT ![w].since = since, ![w].pc = "pushLoad", ![w].owed = owed]
        PROVE  Frames' /\ PullInv'
    <3> DEFINE next == [wk[w] EXCEPT !.since = since, !.pc = "pushLoad", !.owed = owed]
    <3>1. wk' = [wk EXCEPT ![w] = next]
      BY <1>1, <2>2, Zenon
    <3>2. /\ DOMAIN next = DOMAIN Idler /\ next.pc = "pushLoad" /\ next.op = wk[w].op
          /\ next.fetched = wk[w].fetched /\ next.errs = wk[w].errs
          /\ next.next = wk[w].next /\ next.evs = wk[w].evs
      BY <1>1 DEF Idler
    <3> HIDE DEF next
    <3>3. next.pc \in AfterwardsPcs
      BY <3>2 DEF AfterwardsPcs
    <3> QED
      BY <1>2, <1>3, <1>8, <2>1, <3>1, <3>2, <3>3, Zenon
  <2> QED
    BY <1>2, <1>9, <1>10, <2>1, <2>2, Zenon DEF PushVersion
<1>11. CASE PushLoad(w)
  <2>1. remote' = remote
    BY <1>11, Zenon DEF PushLoad
  <2> DEFINE evs == Load(n, wk[w].since)
             kept == Pick(evs, {i \in DOMAIN evs : evs[i].ev \in Accepts})
  <2>2. IsSeq(kept)
    <3>1. IsSeq(Versioned(n))
      <4>1. Len(log) \in Nat /\ DOMAIN log = 1..Len(log)
        BY <1>2, SeqIsSeq DEF IsSeq
      <4> DEFINE f == Versioned(n)
      <4>2. DOMAIN f = 1..Len(log) /\ f = [k \in 1..Len(log) |-> f[k]]
        BY <4>1 DEF Versioned
      <4> HIDE DEF f
      <4>3. IsSeq(f)
        BY <4>1, <4>2, MapIsSeq
      <4> QED
        BY <4>3 DEF f
    <3>2. DOMAIN Versioned(n) = DOMAIN local[n]
      BY DEF Versioned
    <3>3. IsSeq(evs)
      BY <3>1, <3>2, PickIsSeq DEF Load
    <3> HIDE DEF evs
    <3> QED
      BY <3>3, PickIsSeq
  <2>3. CASE wk' = [wk EXCEPT ![w].evs = kept, ![w].next = 1, ![w].pc = "pushBatch"]
    <3> HIDE DEF kept
    <3> DEFINE next == [wk[w] EXCEPT !.evs = kept, !.next = 1, !.pc = "pushBatch"]
    <3>1. wk' = [wk EXCEPT ![w] = next]
      BY <1>1, <2>3, Zenon
    <3>2. /\ DOMAIN next = DOMAIN Idler /\ next.pc = "pushBatch" /\ next.op = wk[w].op
          /\ next.fetched = wk[w].fetched /\ next.errs = wk[w].errs
          /\ next.next = 1 /\ next.evs = kept
      BY <1>1 DEF Idler
    <3> HIDE DEF next
    <3>3. next.pc \in AfterwardsPcs /\ next.next \in Nat \ {0}
      BY <3>2 DEF AfterwardsPcs
    <3> QED
      BY <1>2, <1>8, <2>1, <2>2, <3>1, <3>2, <3>3, Zenon
  <2> QED
    BY <1>2, <1>9, <1>11, <2>1, <2>3, ZenonT(30) DEF PushLoad
<1>12. CASE PushBatch(w)
  <2>1. wk[w].next \in 1..Len(wk[w].evs) /\ BatchSize \in Nat \ {0}
    BY <1>3, <1>4, <1>12, ManagerAssumption DEF PushBatch
  <2>2. BatchEnd(w) \in wk[w].next..Len(wk[w].evs)
    BY <1>4, <2>1 DEF BatchEnd
  <2>3. IsSeq(Batch(w))
    <3>1. wk[w].evs \in Seq(RangeOf(wk[w].evs))
      BY <1>3 DEF IsSeq
    <3>2. Batch(w) \in Seq(RangeOf(wk[w].evs))
      BY <1>4, <2>1, <2>2, <3>1, SeqSub DEF Batch
    <3> QED
      BY <3>2, SeqIsSeq
  <2>4. IsSeq(remote')
    BY <1>2, <1>12, <2>3, ConcatIsSeq, Zenon DEF PushBatch
  <2>5. CASE wk' = [wk EXCEPT ![w].next = BatchEnd(w) + 1]
    <3> DEFINE next == [wk[w] EXCEPT !.next = BatchEnd(w) + 1]
    <3>1. wk' = [wk EXCEPT ![w] = next]
      BY <1>1, <2>5
    <3>2. /\ DOMAIN next = DOMAIN Idler /\ next.pc = wk[w].pc /\ next.op = wk[w].op
          /\ next.fetched = wk[w].fetched /\ next.errs = wk[w].errs
          /\ next.next = BatchEnd(w) + 1 /\ next.evs = wk[w].evs
      BY <1>1 DEF Idler
    <3> HIDE DEF next
    <3>3. next.next \in Nat \ {0}
      BY <1>4, <2>1, <2>2, <3>2
    <3> QED
      BY <1>3, <1>6, <1>8, <2>4, <3>1, <3>2, <3>3, Zenon
  <2> QED
    BY <1>9, <1>12, <2>4, <2>5, Zenon DEF PushBatch
<1>13. CASE PushDone(w)
  BY <1>2, <1>9, <1>13, Zenon DEF PushDone
<1> QED
  BY <1>10, <1>11, <1>12, <1>13

\* The state machine calls and the ends of Sync.
LEMMA PullMovesOn ==
  ASSUME OneGoroutineEach, PullersStoreNothing, Frames, PullInv, NEW w \in Workers,
         \/ TestIdle(w) \/ Validate(w) \/ Refused(w) \/ Transition(w)
         \/ RunProjections(w) \/ FinalVersion(w) \/ Return(w) \/ CancelContext(w)
  PROVE  Frames' /\ PullInv'
<1> DEFINE n == NodeOf[w]
           log == local[n]
<1>1. DOMAIN wk = Workers /\ DOMAIN wk[w] = DOMAIN Idler /\ n \in Nodes
  BY ManagerAssumption DEF Frames
<1>2. PullHolds(wk[w], n, log)
  BY DEF PullInv
<1>3. UNCHANGED <<local, remote>>
  BY Zenon DEF TestIdle, Validate, Refused, Transition, RunProjections, FinalVersion, Return, CancelContext
<1>4. ASSUME wk' = [wk EXCEPT ![w] = Idler] PROVE Frames' /\ PullInv'
  BY <1>3, <1>4, IdlerHolds, PullKept, Zenon
<1>5. ASSUME NEW pc, NEW errs, NEW armed, NEW cancelled,
             wk' = [wk EXCEPT ![w].pc = pc, ![w].errs = errs, ![w].armed = armed, ![w].cancelled = cancelled]
      PROVE  wk' = [wk EXCEPT ![w] = [wk[w] EXCEPT !.pc = pc, !.errs = errs, !.armed = armed,
                                                   !.cancelled = cancelled]]
  BY <1>1, <1>5, ZenonT(30) DEF Idler
<1>6. wk[w].pc # "pullStore" => wk[w].errs \/ wk[w].fetched \subseteq RangeOf(log)
  BY <1>2, Zenon DEF PullHolds
<1>7. ASSUME NEW pc, Go(w, pc), \/ pc \in AfterwardsPcs /\ wk[w].pc # "pullStore"
                                \/ pc = "init" /\ wk[w].pc = "current"
      PROVE  Frames' /\ PullInv'
  <2>1. wk' = [wk EXCEPT ![w].pc = pc, ![w].errs = wk[w].errs, ![w].armed = wk[w].armed,
                         ![w].cancelled = wk[w].cancelled]
    BY <1>1, <1>7, Zenon DEF Go, Idler
  <2>2. wk' = [wk EXCEPT ![w] = [wk[w] EXCEPT !.pc = pc, !.errs = wk[w].errs, !.armed = wk[w].armed,
                                              !.cancelled = wk[w].cancelled]]
    BY <1>5, <2>1, ZenonT(30)
  <2> QED
    BY <1>3, <1>6, <1>7, <2>2, PullControl, Zenon
<1>8. ASSUME NEW pc \in AfterwardsPcs, wk' = [wk EXCEPT ![w].errs = TRUE, ![w].pc = pc]
      PROVE  Frames' /\ PullInv'
  <2>1. wk' = [wk EXCEPT ![w].pc = pc, ![w].errs = TRUE, ![w].armed = wk[w].armed,
                         ![w].cancelled = wk[w].cancelled]
    BY <1>1, <1>8, Zenon DEF Idler
  <2>2. wk' = [wk EXCEPT ![w] = [wk[w] EXCEPT !.pc = pc, !.errs = TRUE, !.armed = wk[w].armed,
                                              !.cancelled = wk[w].cancelled]]
    BY <1>5, <2>1, Zenon
  <2> QED
    BY <1>3, <2>2, PullControl, Zenon
<1>9. {"latest", "final", "toIdle", "return"} \subseteq AfterwardsPcs
  BY DEF AfterwardsPcs
<1>10. CASE TestIdle(w)
  <2>1. wk[w].pc = "current"
    BY <1>10 DEF TestIdle
  <2> QED
    BY <1>4, <1>7, <1>10, <2>1, Zenon DEF TestIdle
<1>11. CASE Validate(w)
  <2>1. wk' = [wk EXCEPT ![w].armed = TRUE]
    BY <1>11, Zenon DEF Validate
  <2>2. wk' = [wk EXCEPT ![w].pc = wk[w].pc, ![w].errs = wk[w].errs, ![w].armed = TRUE,
                         ![w].cancelled = wk[w].cancelled]
    BY <1>1, <2>1, Zenon DEF Idler
  <2>3. wk' = [wk EXCEPT ![w] = [wk[w] EXCEPT !.pc = wk[w].pc, !.errs = wk[w].errs, !.armed = TRUE,
                                              !.cancelled = wk[w].cancelled]]
    BY <1>5, <2>2, Zenon
  <2> QED
    BY <1>3, <2>3, PullControl, Zenon
<1>12. CASE Refused(w)
  <2>1. wk[w].pc # "toResolve"
    BY <1>2 DEF PullHolds
  <2>2. \/ wk' = [wk EXCEPT ![w] = Idler]
        \/ wk' = [wk EXCEPT ![w].errs = TRUE, ![w].pc = "final"]
        \/ wk[w].pc = "final" /\ Go(w, "toIdle")
        \/ wk[w].pc = "toIdle" /\ Go(w, "return")
    BY <1>12, <2>1, Zenon DEF Refused
  <2>3. "final" # "pullStore" /\ "toIdle" # "pullStore"
    OBVIOUS
  <2> QED
    BY <1>4, <1>7, <1>8, <1>9, <2>2, <2>3, ZenonT(30)
<1>13. CASE Transition(w)
  <2> DEFINE pc == AfterTransition(w)
  <2>1. wk' = [wk EXCEPT ![w].armed = FALSE, ![w].pc = pc] /\ wk[w].pc \in Sites
    BY <1>13, Zenon DEF Transition
  <2>2. \/ wk[w].pc = "init" /\ pc = "toPull" /\ Mode[n] # "push"
        \/ wk[w].pc = "init" /\ pc = "toPush"
        \/ wk[w].pc = "toPull" /\ pc = "pullVersion"
        \/ wk[w].pc = "toPush" /\ pc = "pushVersion"
        \/ wk[w].pc = "final" /\ pc = "toIdle"
        \/ wk[w].pc = "toIdle" /\ pc = "return"
    <3>1. wk[w].pc # "toResolve"
      BY <1>2 DEF PullHolds
    <3> QED
      BY <2>1, <3>1 DEF Sites, AfterTransition, FirstPhase
  <2> HIDE DEF pc
  <2>3. wk' = [wk EXCEPT ![w].pc = pc, ![w].errs = wk[w].errs, ![w].armed = FALSE,
                         ![w].cancelled = wk[w].cancelled]
    BY <1>1, <2>1, Zenon DEF Idler
  <2>4. wk' = [wk EXCEPT ![w] = [wk[w] EXCEPT !.pc = pc, !.errs = wk[w].errs, !.armed = FALSE,
                                              !.cancelled = wk[w].cancelled]]
    BY <1>5, <2>3, Zenon
  <2>5. \/ pc \in AfterwardsPcs /\ wk[w].pc # "pullStore"
        \/ pc = "toPull" /\ wk[w].pc = "init" /\ Origin[n] = {}
        \/ pc = "pullVersion" /\ wk[w].pc = "toPull"
    BY <1>1, <2>2 DEF AfterwardsPcs, PullersStoreNothing
  <2> QED
    BY <1>3, <1>6, <2>4, <2>5, PullControl, Zenon
<1>14. CASE RunProjections(w)
  <2>1. wk[w].pc = "projections" /\ "projections" # "pullStore"
    BY <1>14 DEF RunProjections
  <2> QED
    BY <1>7, <1>8, <1>9, <1>14, <2>1, Zenon DEF RunProjections
<1>15. CASE FinalVersion(w)
  <2>1. wk[w].pc = "latest" /\ "latest" # "pullStore"
    BY <1>15 DEF FinalVersion
  <2> QED
    BY <1>7, <1>8, <1>9, <1>15, <2>1, ZenonT(30) DEF FinalVersion
<1>16. CASE Return(w)
  BY <1>4, <1>16, Zenon DEF Return
<1>17. CASE CancelContext(w)
  <2>1. wk' = [wk EXCEPT ![w].cancelled = TRUE]
    BY <1>17, Zenon DEF CancelContext
  <2>2. wk' = [wk EXCEPT ![w].pc = wk[w].pc, ![w].errs = wk[w].errs, ![w].armed = wk[w].armed,
                         ![w].cancelled = TRUE]
    BY <1>1, <2>1, Zenon DEF Idler
  <2>3. wk' = [wk EXCEPT ![w] = [wk[w] EXCEPT !.pc = wk[w].pc, !.errs = wk[w].errs,
                                              !.armed = wk[w].armed, !.cancelled = TRUE]]
    BY <1>5, <2>2, Zenon
  <2> QED
    BY <1>3, <2>3, PullControl, Zenon
<1> QED
  BY <1>10, <1>11, <1>12, <1>13, <1>14, <1>15, <1>16, <1>17

LEMMA PullStarts ==
  ASSUME OneGoroutineEach, PullersStoreNothing, Frames, PullInv, NEW w \in Workers,
         NEW op \in Operations, Start(w, op)
  PROVE  Frames' /\ PullInv'
<1> DEFINE n == NodeOf[w]
           log == local[n]
           pc == CASE op = "sync" -> "current" [] op = "push" -> "pushVersion" [] op = "pull" -> "pullVersion"
           next == [Idler EXCEPT !.op = op, !.pc = pc]
<1>1. wk' = [wk EXCEPT ![w] = next] /\ UNCHANGED <<local, remote>>
  BY Zenon DEF Start
<1>2. /\ DOMAIN next = DOMAIN Idler /\ next.pc = pc /\ next.op = op /\ next.fetched = {}
      /\ next.next = 1 /\ next.evs = <<>>
  BY Zenon DEF Idler
<1>3. IsSeq(<<>>)
  BY SeqEmpty, SeqIsSeq, Zenon
<1>4. op \in {"sync", "push", "pull"} /\ n \in Nodes
  BY ManagerAssumption
<1>5. op = "pull" => Origin[n] = {}
  BY <1>4 DEF PullersStoreNothing
<1>6. \/ op = "sync" /\ pc = "current"
      \/ op = "push" /\ pc = "pushVersion"
      \/ op = "pull" /\ pc = "pullVersion"
  <2>1. /\ op = "sync" => pc = "current"
        /\ op = "push" => pc = "pushVersion"
        /\ op = "pull" => pc = "pullVersion"
    OBVIOUS
  <2> QED
    BY <1>4, <2>1
<1> HIDE DEF next, pc, log
<1>7. PullHolds(next, n, log)
  BY <1>2, <1>3, <1>5, <1>6 DEF PullHolds
<1> QED
  BY <1>1, <1>2, <1>7, PullKept, Zenon DEF log

LEMMA PullAppStores ==
  ASSUME Frames, PullInv, NEW n \in Nodes, NEW e \in Events, AppStores(n, e)
  PROVE  Frames' /\ PullInv'
<1>1. /\ Origin[n] # {} /\ UNCHANGED <<wk, remote>>
      /\ local' = [local EXCEPT ![n] = Append(local[n], e)]
  BY DEF AppStores
<1>2. /\ DOMAIN local' = Nodes /\ local'[n] = Append(local[n], e)
      /\ \A m \in Nodes : m # n => local'[m] = local[m]
  BY <1>1 DEF Frames
<1>3. IsSeq(local'[n]) /\ RangeOf(local'[n]) = RangeOf(local[n]) \cup {e}
  BY <1>2, AppendIsSeq DEF PullInv
<1>4. ASSUME NEW v \in Workers PROVE PullHolds(wk'[v], NodeOf[v], local'[NodeOf[v]])
  <2>1. NodeOf[v] \in Nodes /\ PullHolds(wk[v], NodeOf[v], local[NodeOf[v]])
    BY ManagerAssumption DEF PullInv
  <2>2. CASE NodeOf[v] = n
    <3> DEFINE log2 == local'[n]
               log == local[n]
    <3>1. PullHolds(wk[v], n, log)
      BY <2>1, <2>2
    <3>2. wk[v].pc \notin {"pullFetch", "pullLoad", "pullStore"}
      BY <1>1, <3>1 DEF PullHolds
    <3>3. RangeOf(log) \subseteq RangeOf(log2)
      BY <1>3
    <3>4. wk[v].pc # "pullStore" /\ wk[v].pc \notin {"pullFetch", "pullLoad"}
      BY <3>2
    <3>5. ~wk[v].errs => wk[v].fetched \subseteq RangeOf(log2)
      <4>1. ~wk[v].errs => wk[v].fetched \subseteq RangeOf(log)
        BY <3>1, <3>4, Zenon DEF PullHolds
      <4> QED
        BY <3>3, <4>1
    <3> HIDE DEF log, log2
    <3>6. PullHolds(wk[v], n, log2)
      BY <3>1, <3>4, <3>5, Zenon DEF PullHolds
    <3> QED
      BY <1>1, <2>2, <3>6 DEF log2
  <2>3. CASE NodeOf[v] # n
    BY <1>1, <1>2, <2>1, <2>3
  <2> QED
    BY <2>2, <2>3
<1>5. \A m \in Nodes : IsSeq(local'[m])
  BY <1>2, <1>3, Zenon DEF PullInv
<1>6. IsSeq(remote')
  BY <1>1 DEF PullInv
<1>7. PullInv' = ( /\ IsSeq(remote') /\ \A m \in Nodes : IsSeq(local'[m])
                   /\ \A v \in Workers : PullHolds(wk'[v], NodeOf[v], local'[NodeOf[v]]) )
  BY DEF PullInv
<1>8. Frames'
  BY <1>1, <1>2 DEF Frames
<1> QED
  BY <1>4, <1>5, <1>6, <1>7, <1>8

LEMMA PullInit ==
  ASSUME Init PROVE Frames /\ PullInv
<1>1. IsSeq(<<>>)
  BY SeqEmpty, SeqIsSeq, Zenon
<1>2. \A w \in Workers : wk[w] = Idler
  BY DEF Init
<1> QED
  BY <1>1, <1>2, IdlerHolds DEF Init, Frames, PullInv

LEMMA PullNext ==
  ASSUME OneGoroutineEach, PullersStoreNothing, Frames, PullInv, [Next]_vars
  PROVE  Frames' /\ PullInv'
<1>1. ASSUME UNCHANGED <<local, remote, wk>> PROVE Frames' /\ PullInv'
  BY <1>1, Zenon DEF Frames, PullInv
<1>2. CASE UNCHANGED vars
  BY <1>1, <1>2 DEF vars
<1>3. ASSUME NEW n \in Nodes, CloseBegins(n) \/ CloseStep(n)
      PROVE  Frames' /\ PullInv'
  BY <1>1, <1>3, Zenon DEF CloseBegins, CloseStep
<1> QED
  BY <1>2, <1>3, PullMovesOn, PullPulls, PullPushes, PullStarts, PullAppStores DEF Next, Step

\* Where the application stores nothing at the nodes that pull, a pull that
\* returns no error, alone or inside a Sync, leaves every event it fetched in the
\* store, wherever calls fail or the context is cancelled between two single
\* stores. For every number of managers, every filter and batch size; one
\* goroutine calls each manager.
THEOREM CleanPulls ==
  ASSUME OneGoroutineEach, PullersStoreNothing
  PROVE  Spec => []CleanPullStoresAll
<1>1. Init => Frames /\ PullInv
  BY PullInit
<1>2. Frames /\ PullInv /\ [Next]_vars => Frames' /\ PullInv'
  BY PullNext
<1>3. PullInv => CleanPullStoresAll
  <2> SUFFICES ASSUME PullInv, NEW w \in Workers, wk[w].pc = "return", ~wk[w].errs
               PROVE  wk[w].fetched \subseteq RangeOf(local[NodeOf[w]])
    BY DEF CleanPullStoresAll
  <2>1. PullHolds(wk[w], NodeOf[w], local[NodeOf[w]]) /\ wk[w].pc # "pullStore"
    BY DEF PullInv
  <2> QED
    BY <2>1, Zenon DEF PullHolds
<1> QED
  BY <1>1, <1>2, <1>3, PTL DEF Spec
=============================================================================
