-------------------------------- MODULE AutoSync --------------------------------
(* The auto-sync goroutines and the subscribers of one sync manager           *)
(* (synckit/manager.go: StartAutoSync, StopAutoSync, Subscribe, Close,        *)
(* notifySubscribers). What a Sync does between its first and its last        *)
(* transition is in SyncManager; here it takes a while, blocks other syncs    *)
(* through the state machine and ends with or without an error.               *)
EXTENDS Naturals, FiniteSets

CONSTANTS
  Contexts,   \* contexts the application passes to StartAutoSync
  Handlers,   \* subscribers
  User,       \* the application goroutine that calls Sync itself
  MaxStarts,  \* bound: auto-sync goroutines
  NoContext,  \* the parent of a goroutine that has not been started
  MaxCalls    \* bound: calls of StartAutoSync

VARIABLES
  autoSyncCancel,  \* 0, or the goroutine whose context it cancels
  closed,
  ctxDone,         \* cancelled application contexts
  cancelled,       \* goroutines whose own context was cancelled
  parent,          \* the context each goroutine was started with
  pc,              \* where each goroutine, and the user, stands
  idle,            \* the state machine is in Idle
  healthy,         \* what isTransportHealthyForSync finds
  subscribers,
  due,             \* handler goroutines that have not run yet
  heard,           \* handlers that have been called
  starts, calls

vars == <<autoSyncCancel, closed, ctxDone, cancelled, parent, pc, idle, healthy,
          subscribers, due, heard, starts, calls>>
appVars == <<autoSyncCancel, closed, ctxDone, cancelled, parent, healthy,
             subscribers, starts, calls>>
noticeVars == <<due, heard>>

Loops == 1..MaxStarts
Callers == Loops \cup {User}

Pcs == {"none", "select", "tick", "health", "sync", "check", "enter", "store", "syncing",
        "exit"}

TypeOK ==
  /\ autoSyncCancel \in 0..MaxStarts
  /\ closed \in BOOLEAN
  /\ ctxDone \subseteq Contexts
  /\ cancelled \subseteq Loops
  /\ parent \in [Loops -> Contexts \cup {NoContext}]
  /\ pc \in [Callers -> Pcs]
  /\ idle \in BOOLEAN /\ healthy \in BOOLEAN
  /\ subscribers \subseteq Handlers
  /\ due \subseteq Handlers /\ heard \subseteq Handlers
  /\ starts \in 0..MaxStarts /\ calls \in 0..MaxCalls

Init ==
  /\ autoSyncCancel = 0 /\ closed = FALSE
  /\ ctxDone = {} /\ cancelled = {}
  /\ parent = [l \in Loops |-> NoContext]
  /\ pc = [c \in Callers |-> "none"]
  /\ idle = TRUE /\ healthy = TRUE
  /\ subscribers = {} /\ due = {} /\ heard = {}
  /\ starts = 0 /\ calls = 0

\* The goroutine's context is done: its own cancel, or the parent's.
Done(l) == l \in cancelled \/ parent[l] \in ctxDone
Running(l) == pc[l] \notin {"none", "exit"}
Live(l) == Running(l) /\ ~Done(l)

Set(c, p) == pc' = [pc EXCEPT ![c] = p]

(****************************************************************************)
(* Calls of the application. Each holds sm.mu.                               *)
(****************************************************************************)
\* Mutant of StartAutoSync: without the check for a running goroutine.
StartAgain(ctx) ==
  /\ calls < MaxCalls /\ calls' = calls + 1
  /\ IF ctx \in ctxDone \/ closed
     THEN UNCHANGED <<autoSyncCancel, parent, pc, starts>>
     ELSE /\ starts < MaxStarts /\ starts' = starts + 1
          /\ autoSyncCancel' = starts + 1
          /\ parent' = [parent EXCEPT ![starts + 1] = ctx]
          /\ Set(starts + 1, "select")
  /\ UNCHANGED <<closed, ctxDone, cancelled, idle, healthy, subscribers, due, heard>>

\* A cancelled context and a closed manager are errors; a goroutine that was
\* started and not stopped makes the call a no-op that returns nil.
StartAutoSync(ctx) ==
  /\ calls < MaxCalls /\ calls' = calls + 1
  /\ IF ctx \in ctxDone \/ autoSyncCancel # 0 \/ closed
     THEN UNCHANGED <<autoSyncCancel, parent, pc, starts>>
     ELSE /\ starts < MaxStarts /\ starts' = starts + 1
          /\ autoSyncCancel' = starts + 1
          /\ parent' = [parent EXCEPT ![starts + 1] = ctx]
          /\ Set(starts + 1, "select")
  /\ UNCHANGED <<closed, ctxDone, cancelled, idle, healthy, subscribers, due, heard>>

StopAutoSync ==
  /\ autoSyncCancel # 0
  /\ cancelled' = cancelled \cup {autoSyncCancel}
  /\ autoSyncCancel' = 0
  /\ UNCHANGED <<closed, ctxDone, parent, pc, idle, healthy, subscribers, due, heard,
                 starts, calls>>

\* Close cancels the goroutine and closes transport and store; a sync that is
\* running goes on and meets their errors.
Close ==
  /\ ~closed /\ closed' = TRUE
  /\ cancelled' = IF autoSyncCancel # 0 THEN cancelled \cup {autoSyncCancel} ELSE cancelled
  /\ autoSyncCancel' = 0
  /\ UNCHANGED <<ctxDone, parent, pc, idle, healthy, subscribers, due, heard,
                 starts, calls>>

Subscribe(h) ==
  /\ ~closed /\ h \notin subscribers
  /\ subscribers' = subscribers \cup {h}
  /\ UNCHANGED <<autoSyncCancel, closed, ctxDone, cancelled, parent, pc, idle, healthy,
                 due, heard, starts, calls>>

CancelContext(ctx) ==
  /\ ctx \notin ctxDone /\ ctxDone' = ctxDone \cup {ctx}
  /\ UNCHANGED <<autoSyncCancel, closed, cancelled, parent, pc, idle, healthy,
                 subscribers, due, heard, starts, calls>>

\* The connection of the transport goes down or comes back.
HealthChanges ==
  /\ healthy' = ~healthy
  /\ UNCHANGED <<autoSyncCancel, closed, ctxDone, cancelled, parent, pc, idle,
                 subscribers, due, heard, starts, calls>>

(****************************************************************************)
(* The goroutine. When the context is done and a tick is waiting, the select *)
(* takes either.                                                             *)
(****************************************************************************)
\* Mutant of Exit: only the goroutine's own cancel is watched.
ExitOnOwnCancel(l) ==
  /\ pc[l] = "select" /\ l \in cancelled
  /\ Set(l, "exit")
  /\ UNCHANGED <<appVars, noticeVars, idle>>

Exit(l) ==
  /\ pc[l] = "select" /\ Done(l)
  /\ Set(l, "exit")
  /\ UNCHANGED <<appVars, noticeVars, idle>>

Tick(l) ==
  /\ pc[l] = "select"
  /\ Set(l, "tick")
  /\ UNCHANGED <<appVars, noticeVars, idle>>

\* The tick is skipped while the machine is not in Idle.
CheckState(l) ==
  /\ pc[l] = "tick"
  /\ Set(l, IF idle THEN "health" ELSE "select")
  /\ UNCHANGED <<appVars, noticeVars, idle>>

CheckHealth(l) ==
  /\ pc[l] = "health"
  /\ Set(l, IF healthy THEN "sync" ELSE "select")
  /\ UNCHANGED <<appVars, noticeVars, idle>>

UserCallsSync ==
  /\ pc[User] = "none" /\ Set(User, "sync")
  /\ UNCHANGED <<appVars, noticeVars, idle>>

After(c) == IF c = User THEN "none" ELSE "select"

\* notifySubscribers starts a goroutine for each handler.
NotifySubscribers == due' = due \cup subscribers /\ UNCHANGED heard

\* A Sync that is refused returns an error; the auto-sync goroutine reports it.
Refuse(c) ==
  /\ Set(c, After(c))
  /\ IF c = User THEN UNCHANGED noticeVars ELSE NotifySubscribers
  /\ UNCHANGED idle

\* Sync: the closed check, the check of the state, then the transition, which
\* reads the state once more to validate and stores the new one.
SyncChecksClosed(c) ==
  /\ pc[c] = "sync"
  /\ IF closed THEN Refuse(c)
     ELSE Set(c, "check") /\ UNCHANGED <<noticeVars, idle>>
  /\ UNCHANGED appVars

SyncChecksState(c) ==
  /\ pc[c] = "check"
  /\ IF ~idle THEN Refuse(c)
     ELSE Set(c, "enter") /\ UNCHANGED <<noticeVars, idle>>
  /\ UNCHANGED appVars

SyncValidates(c) ==
  /\ pc[c] = "enter"
  /\ IF ~idle THEN Refuse(c)
     ELSE Set(c, "store") /\ UNCHANGED <<noticeVars, idle>>
  /\ UNCHANGED appVars

SyncEnters(c) ==
  /\ pc[c] = "store"
  /\ idle' = FALSE
  /\ Set(c, "syncing")
  /\ UNCHANGED <<appVars, noticeVars>>

Others(c) == {d \in Callers \ {c} : pc[d] = "syncing"}

\* The transition to Pulling or Pushing of a sync that another one has led back to
\* Idle meanwhile: it had been validated before, and is stored all the same.
SyncMovesOn(c) ==
  /\ pc[c] = "syncing"
  /\ idle /\ idle' = FALSE
  /\ UNCHANGED <<appVars, noticeVars, pc>>

\* Mutant of SyncEnds: the deferred return to Idle is left out.
SyncEndsBusy(c) ==
  /\ pc[c] = "syncing"
  /\ UNCHANGED idle
  /\ NotifySubscribers
  /\ Set(c, After(c))
  /\ UNCHANGED appVars

\* The deferred function of Sync moves the machine back to Idle and notifies;
\* with another sync inside, its transitions may be refused instead. (After an
\* error the auto-sync goroutine notifies once more; the handlers that are due
\* are the same.)
SyncEnds(c) ==
  /\ pc[c] = "syncing"
  /\ \/ idle' = TRUE
     \/ Others(c) # {} /\ UNCHANGED idle
  /\ NotifySubscribers
  /\ Set(c, After(c))
  /\ UNCHANGED appVars

\* A handler's goroutine runs; a panic in it is recovered.
Deliver(h) ==
  /\ h \in due
  /\ due' = due \ {h} /\ heard' = heard \cup {h}
  /\ UNCHANGED <<appVars, pc, idle>>

LoopStep(l) == Tick(l) \/ CheckState(l) \/ CheckHealth(l)
SyncStep(c) ==
  \/ SyncChecksClosed(c) \/ SyncChecksState(c)
  \/ SyncValidates(c) \/ SyncEnters(c) \/ SyncEnds(c)

Next ==
  \/ \E ctx \in Contexts : StartAutoSync(ctx) \/ CancelContext(ctx)
  \/ StopAutoSync \/ Close \/ HealthChanges \/ UserCallsSync
  \/ \E h \in Handlers : Subscribe(h) \/ Deliver(h)
  \/ \E l \in Loops : Exit(l) \/ LoopStep(l)
  \/ \E c \in Callers : SyncStep(c) \/ SyncMovesOn(c)

Spec == Init /\ [][Next]_vars

\* Goroutines are scheduled, tickers tick and syncs end (their context has a
\* timeout). A select that finds both channels ready picks one at random, so
\* a done context is not passed over for ever: strong fairness of Exit.
FairSpec ==
  /\ Spec
  /\ \A l \in Loops : SF_vars(Exit(l)) /\ WF_vars(LoopStep(l))
  /\ \A c \in Callers : WF_vars(SyncStep(c))
  /\ \A h \in Handlers : WF_vars(Deliver(h))

(****************************************************************************)
(* Properties.                                                               *)
(****************************************************************************)
\* At most one goroutine is live, and it is the one StopAutoSync and Close
\* would cancel, however calls and stale goroutines interleave
\* (StartAutoSync: "will not create duplicate goroutines"). And StartAutoSync is
\* passed over only for a goroutine that is live, or one the application itself
\* stopped through the context it had started it with.
OneLiveLoop ==
  /\ \A l \in Loops : Live(l) => autoSyncCancel = l
  /\ autoSyncCancel # 0 => Live(autoSyncCancel) \/ parent[autoSyncCancel] \in ctxDone

\* The strengthening that makes OneLiveLoop inductive: goroutines are numbered in
\* the order they are started, and one that StopAutoSync and Close would no longer
\* cancel is done already. The one they would cancel has not been cancelled, and
\* has not ended unless its parent context is done.
LoopInv ==
  /\ starts \in 0..MaxStarts /\ autoSyncCancel \in 0..starts
  /\ \A l \in Loops : l > starts => pc[l] = "none"
  /\ \A l \in Loops : (Running(l) /\ autoSyncCancel # l) => Done(l)
  /\ cancelled \subseteq 0..starts
  /\ autoSyncCancel # 0 =>
       /\ autoSyncCancel \notin cancelled
       /\ Running(autoSyncCancel) \/ parent[autoSyncCancel] \in ctxDone

\* A goroutine whose context is done ends, also when ticks keep coming and a
\* sync is in progress (the select of the auto-sync goroutine).
StoppedLoopsExit == \A l \in Loops : (Running(l) /\ Done(l)) ~> ~Running(l)

\* After Close nothing goes on for ever: goroutines end, syncs end, and the
\* machine is back in Idle (Close, and the deferred function of Sync).
ClosedComesToRest ==
  closed ~> (idle /\ \A l \in Loops : ~Running(l))

\* A handler that is subscribed while a sync runs is called (notifySubscribers).
SubscribersHear ==
  \A h \in Handlers :
    (h \in subscribers /\ \E c \in Callers : pc[c] = "syncing") ~> h \in heard
================================================================================
