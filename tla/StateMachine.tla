---------------------------- MODULE StateMachine ----------------------------
(***************************************************************************)
(* The generic state machine (synckit/statemachine/machine.go): goroutines *)
(* call TransitionWithContext, which loads the state, validates, stores,   *)
(* records and notifies in separate steps; observers and the auto-save     *)
(* run in goroutines of their own; a crash loses everything but the disk.  *)
(***************************************************************************)
EXTENDS Naturals, Sequences, FiniteSets

CONSTANTS
  States,           \* the comparable type T
  InitialState,     \* StateMachineConfig.InitialState
  TransitionRules,  \* StateMachineConfig.TransitionRules
  MaxHistorySize,   \* StateMachineConfig.MaxHistorySize, after the default
  Callers,          \* the goroutines that use the machine
  Observers,        \* the StateObservers they may subscribe
  MaxCalls,         \* bound: TransitionWithContext calls
  MaxSubscribers,   \* bound: length of machine.observers
  MaxToggles,       \* bound: EnablePersistence and DisablePersistence calls
  MaxRestarts       \* bound: process crashes

ASSUME MachineAssumption ==
  /\ InitialState \in States
  /\ DOMAIN TransitionRules \subseteq States
  /\ \A s \in DOMAIN TransitionRules : TransitionRules[s] \subseteq States
  /\ MaxHistorySize \in Nat \ {0}
  /\ {MaxCalls, MaxSubscribers, MaxToggles, MaxRestarts} \subseteq Nat

VARIABLES
  state,        \* machine.state, an AtomicState
  history,      \* machine.history
  observers,    \* machine.observers
  pc,           \* where each caller is in TransitionWithContext or EnablePersistence
  call,         \* the locals of that call: its number, from and to
  calls,        \* how many calls have begun
  overtaken,    \* ghost: callers about to store that validated an earlier state
  inbox,        \* observer goroutines that have not run yet
  seen,         \* the attempts each observer has been told of
  since,        \* ghost: the calls begun before an observer subscribed
  persistence,  \* machine.persistenceEnabled (with AutoSave, the default)
  savers,       \* auto-save goroutines, before and after createSnapshot
  disk,         \* the snapshot under machineID: {} or a singleton
  loaded,       \* the snapshot each EnablePersistence has read: {} or a singleton
  entered,      \* ghost: every state the machine has been in
  toggles, restarts,
  panicked      \* ghost: a goroutine called a nil persistence

callVars    == <<pc, call, calls, overtaken>>
observeVars == <<observers, inbox, seen, since>>
persistVars == <<persistence, savers, disk, loaded, toggles, restarts, panicked>>
vars == <<state, history, entered, callVars, observeVars, persistVars>>

NoCall == [id |-> 0, from |-> InitialState, to |-> InitialState]

\* Mutant of Contains: a state without a row allows everything
ContainsIfListed(from, to) ==
  from \in DOMAIN TransitionRules => to \in TransitionRules[from]

\* TransitionRules.Contains
Contains(from, to) == from \in DOMAIN TransitionRules /\ to \in TransitionRules[from]

\* New: history and observers are empty, persistence is off
Init ==
  /\ state = InitialState
  /\ history = <<>>
  /\ entered = {InitialState}
  /\ pc = [c \in Callers |-> "idle"]
  /\ call = [c \in Callers |-> NoCall]
  /\ calls = 0
  /\ overtaken = {}
  /\ observers = <<>>
  /\ inbox = {}
  /\ seen = [o \in Observers |-> <<>>]
  /\ since = [o \in Observers |-> 0]
  /\ persistence = FALSE
  /\ savers = {}
  /\ disk = {}
  /\ loaded = [c \in Callers |-> {}]
  /\ toggles = 0
  /\ restarts = 0
  /\ panicked = FALSE

(***************************************************************************)
(* TransitionWithContext.                                                  *)
(***************************************************************************)

\* from := m.state.Load()
Begin(c, to) ==
  /\ pc[c] = "idle"
  /\ calls < MaxCalls
  /\ calls' = calls + 1
  /\ call' = [call EXCEPT ![c] = [id |-> calls + 1, from |-> state, to |-> to]]
  /\ pc' = [pc EXCEPT ![c] = "check"]
  /\ UNCHANGED <<state, history, entered, overtaken, observeVars, persistVars>>

\* Mutant of Notifications: a refused attempt is not reported
NotificationsOfSuccess(c, ok) ==
  {[id |-> call[c].id, slot |-> i, obs |-> observers[i], ok |-> ok]
     : i \in {j \in DOMAIN observers : ok}}

\* One goroutine per element of the copied observers slice
Notifications(c, ok) ==
  {[id |-> call[c].id, slot |-> i, obs |-> observers[i], ok |-> ok]
     : i \in DOMAIN observers}

\* CanTransition loads the state a second time; what passes may still be
\* refused by the custom validator, for reasons of its own
Check(c) ==
  /\ pc[c] = "check"
  /\ \/ /\ Contains(state, call[c].to)
        /\ pc' = [pc EXCEPT ![c] = "store"]
        /\ UNCHANGED inbox
     \/ /\ pc' = [pc EXCEPT ![c] = "idle"]
        /\ inbox' = inbox \cup Notifications(c, FALSE)
  /\ UNCHANGED <<state, history, entered, call, calls, overtaken, observers, seen,
                 since, persistVars>>

\* The state changes under every other call that has validated and not stored
Overtake(c) ==
  overtaken' = (overtaken \ {c}) \cup {d \in Callers \ {c} : pc[d] = "store"}

\* m.state.Store(to): not a CompareAndSwap
StoreState(c) ==
  /\ pc[c] = "store"
  /\ state' = call[c].to
  /\ entered' = entered \cup {call[c].to}
  /\ pc' = [pc EXCEPT ![c] = "record"]
  /\ Overtake(c)
  /\ UNCHANGED <<history, call, calls, observeVars, persistVars>>

\* Mutant of DropOldest: the newest record is dropped
DropNewest(h) == SubSeq(h, 1, IF Len(h) > MaxHistorySize THEN MaxHistorySize ELSE Len(h))

DropOldest(h) == IF Len(h) > MaxHistorySize THEN Tail(h) ELSE h

AddToHistory(c) ==
  /\ pc[c] = "record"
  /\ history' = DropOldest(Append(history, [from |-> call[c].from, to |-> call[c].to]))
  /\ pc' = [pc EXCEPT ![c] = "notify"]
  /\ UNCHANGED <<state, entered, call, calls, overtaken, observeVars, persistVars>>

\* notifyTransition, then the auto-save goroutine
NotifyTransition(c) ==
  /\ pc[c] = "notify"
  /\ inbox' = inbox \cup Notifications(c, TRUE)
  /\ savers' = IF persistence THEN savers \cup {[id |-> call[c].id, snap |-> {}]}
                              ELSE savers
  /\ pc' = [pc EXCEPT ![c] = "idle"]
  /\ UNCHANGED <<state, history, entered, call, calls, overtaken, observers, seen,
                 since, persistence, disk, loaded, toggles, restarts, panicked>>

(***************************************************************************)
(* Observers.                                                              *)
(***************************************************************************)

Subscribe(c, o) ==
  /\ pc[c] = "idle"
  /\ Len(observers) < MaxSubscribers
  /\ observers' = Append(observers, o)
  /\ since' = IF \E i \in DOMAIN observers : observers[i] = o
                THEN since ELSE [since EXCEPT ![o] = calls]
  /\ UNCHANGED <<state, history, entered, callVars, inbox, seen, persistVars>>

\* &obs == &observer compares the addresses of two locals: it never removes
Unsubscribe(c, o) ==
  /\ pc[c] = "idle"
  /\ UNCHANGED vars

\* An observer goroutine runs: OnTransition or OnTransitionFailed
Deliver(n) ==
  /\ n \in inbox
  /\ inbox' = inbox \ {n}
  /\ seen' = [seen EXCEPT ![n.obs] = Append(@, [id |-> n.id, slot |-> n.slot])]
  /\ UNCHANGED <<state, history, entered, callVars, observers, since, persistVars>>

(***************************************************************************)
(* Persistence: the auto-save goroutine and the calls that switch it.      *)
(***************************************************************************)

Snapshot == [state |-> state, history |-> history]

CreateSnapshot(s) ==
  /\ s \in savers /\ s.snap = {}
  /\ savers' = (savers \ {s}) \cup {[s EXCEPT !.snap = {Snapshot}]}
  /\ UNCHANGED <<state, history, entered, callVars, observeVars,
                 persistence, disk, loaded, toggles, restarts, panicked>>

\* An error of the persistence is ignored
SaveState(s) ==
  /\ s \in savers /\ s.snap # {}
  /\ persistence
  /\ disk' \in {s.snap, disk}
  /\ savers' = savers \ {s}
  /\ UNCHANGED <<state, history, entered, callVars, observeVars,
                 persistence, loaded, toggles, restarts, panicked>>

\* The process is lost and started again: New, the disk survives
Reboot ==
  /\ state' = InitialState
  /\ history' = <<>>
  /\ pc' = [c \in Callers |-> "idle"]
  /\ call' = [c \in Callers |-> NoCall]
  /\ overtaken' = {}
  /\ loaded' = [c \in Callers |-> {}]
  /\ observers' = <<>>
  /\ inbox' = {}
  /\ seen' = [o \in Observers |-> <<>>]
  /\ since' = [o \in Observers |-> 0]
  /\ persistence' = FALSE
  /\ savers' = {}
  /\ UNCHANGED <<entered, calls, disk, toggles>>

Restart ==
  /\ restarts < MaxRestarts
  /\ restarts' = restarts + 1
  /\ Reboot
  /\ UNCHANGED panicked

\* m.persistence is read again after the snapshot; DisablePersistence has set
\* it to nil, and the call on the nil interface ends the process
SaveStatePanics(s) ==
  /\ s \in savers /\ s.snap # {}
  /\ ~persistence
  /\ panicked' = TRUE
  /\ Reboot
  /\ UNCHANGED restarts

\* Under the lock, which is released before the snapshot is read
EnablePersistence(c) ==
  /\ pc[c] = "idle"
  /\ toggles < MaxToggles
  /\ toggles' = toggles + 1
  /\ persistence' = TRUE
  /\ pc' = [pc EXCEPT ![c] = "load"]
  /\ UNCHANGED <<state, history, entered, call, calls, overtaken, observeVars,
                 savers, disk, loaded, restarts, panicked>>

\* A snapshot, or none: nothing was saved, LoadState failed (its error is
\* dropped), or a DisablePersistence has come first
LoadState(c) ==
  /\ pc[c] = "load"
  /\ \/ /\ persistence /\ disk # {}
        /\ loaded' = [loaded EXCEPT ![c] = disk]
        /\ pc' = [pc EXCEPT ![c] = "restore"]
     \/ /\ pc' = [pc EXCEPT ![c] = "idle"]
        /\ UNCHANGED loaded
  /\ UNCHANGED <<state, history, entered, call, calls, overtaken, observeVars,
                 persistence, savers, disk, toggles, restarts, panicked>>

\* A DisablePersistence between the test for nil and the call
LoadStatePanics(c) ==
  /\ pc[c] = "load"
  /\ ~persistence
  /\ panicked' = TRUE
  /\ Reboot
  /\ UNCHANGED restarts

\* restoreFromSnapshot, without the lock: the state, then the history.  The
\* configuration it also restores is the one the program was started with.
RestoreState(c) ==
  /\ pc[c] = "restore"
  /\ \E d \in loaded[c] : state' = d.state
  /\ pc' = [pc EXCEPT ![c] = "rewind"]
  /\ Overtake(c)
  /\ UNCHANGED <<history, entered, call, calls, observeVars, persistVars>>

RestoreHistory(c) ==
  /\ pc[c] = "rewind"
  /\ \E d \in loaded[c] : history' = d.history
  /\ loaded' = [loaded EXCEPT ![c] = {}]
  /\ pc' = [pc EXCEPT ![c] = "idle"]
  /\ UNCHANGED <<state, entered, call, calls, overtaken, observeVars,
                 persistence, savers, disk, toggles, restarts, panicked>>

DisablePersistence(c) ==
  /\ pc[c] = "idle"
  /\ toggles < MaxToggles
  /\ toggles' = toggles + 1
  /\ persistence' = FALSE
  /\ UNCHANGED <<state, history, entered, callVars, observeVars, savers, disk,
                 loaded, restarts, panicked>>

------------------------------------------------------------------------------
Transition(c) == Check(c) \/ StoreState(c) \/ AddToHistory(c) \/ NotifyTransition(c)

Restore(c) == LoadState(c) \/ LoadStatePanics(c) \/ RestoreState(c) \/ RestoreHistory(c)

AutoSave(s) == CreateSnapshot(s) \/ SaveState(s) \/ SaveStatePanics(s)

Next ==
  \/ \E c \in Callers :
       \/ \E to \in States : Begin(c, to)
       \/ Transition(c)
       \/ \E o \in Observers : Subscribe(c, o) \/ Unsubscribe(c, o)
       \/ EnablePersistence(c) \/ Restore(c) \/ DisablePersistence(c)
  \/ \E n \in inbox : Deliver(n)
  \/ \E s \in savers : AutoSave(s)
  \/ Restart

Spec == Init /\ [][Next]_vars

------------------------------------------------------------------------------
Calls == [id : 0..MaxCalls, from : States, to : States]
Records == [from : States, to : States]
Histories == {h \in Seq(Records) : Len(h) <= MaxHistorySize}
Snapshots == [state : States, history : Histories]

\* Type invariant.
TypeOK ==
  /\ state \in States
  /\ history \in Histories
  /\ entered \subseteq States
  /\ pc \in [Callers -> {"idle", "check", "store", "record", "notify",
                          "load", "restore", "rewind"}]
  /\ call \in [Callers -> Calls]
  /\ calls \in 0..MaxCalls
  /\ overtaken \subseteq Callers
  /\ observers \in Seq(Observers)
  /\ inbox \subseteq [id : 0..MaxCalls, slot : Nat, obs : Observers, ok : BOOLEAN]
  /\ seen \in [Observers -> Seq([id : 0..MaxCalls, slot : Nat])]
  /\ since \in [Observers -> 0..MaxCalls]
  /\ persistence \in BOOLEAN
  /\ savers \subseteq [id : 0..MaxCalls, snap : SUBSET Snapshots]
  /\ disk \subseteq Snapshots
  /\ loaded \in [Callers -> SUBSET Snapshots]
  /\ toggles \in 0..MaxToggles
  /\ restarts \in 0..MaxRestarts
  /\ panicked \in BOOLEAN

\* At most one goroutine has called TransitionWithContext since New.
OneHasCalled == \A c, d \in Callers : call[c].id # 0 /\ call[d].id # 0 => c = d

\* The records of machine.history join up (each starts where the one before
\* it ended), and between calls the last one ends in the current state, as long
\* as one goroutine makes the calls and no snapshot was restored (one taken
\* before AddToHistory lacks a record).
HistoryIsChain == (toggles = 0 /\ OneHasCalled) =>
  /\ \A i \in 1..(Len(history) - 1) : history[i].to = history[i + 1].from
  /\ (history # <<>> /\ \A c \in Callers : pc[c] # "record")
       => history[Len(history)].to = state

\* The call under way knows the state it will leave, and, until it has recorded
\* it, entered.
Chained ==
  /\ \A i \in 1..(Len(history) - 1) : history[i].to = history[i + 1].from
  /\ \A c \in Callers :
       /\ pc[c] # "idle" => call[c].id # 0
       /\ pc[c] \notin {"load", "restore", "rewind"}
       /\ pc[c] \in {"check", "store"} => call[c].from = state
       /\ pc[c] = "record" => /\ call[c].to = state
                              /\ history # <<>> => history[Len(history)].to = call[c].from
  /\ (history # <<>> /\ \A c \in Callers : pc[c] # "record")
       => history[Len(history)].to = state

\* The inductive form of HistoryIsChain.
ChainInv == (toggles = 0 /\ OneHasCalled) => Chained

\* Once the callers and the observer goroutines have come to rest, an observer
\* has been told of every attempt made since it subscribed, accepted or
\* rejected, exactly once for each of its subscriptions.
EveryAttemptReported ==
  (inbox = {} /\ \A c \in Callers : pc[c] = "idle") =>
    \A i \in DOMAIN observers : \A id \in (since[observers[i]] + 1)..calls :
      LET heard == {k \in DOMAIN seen[observers[i]] : seen[observers[i]][k].id = id}
      IN  /\ heard # {}
          /\ \A j, k \in heard :
               seen[observers[i]][j].slot = seen[observers[i]][k].slot => j = k

SavedStates == {d.state : d \in disk}
LoadedStates ==
  {d.state : d \in UNION {loaded[c] : c \in {e \in Callers : pc[e] = "restore"}}}
LateTargets == {call[c].to : c \in overtaken}

\* The machine implements ValidatedState: the state changes along the transition
\* table, or to the target of a call that was validated before another call or
\* a restore moved the machine; a restore brings back what it has loaded, which
\* may no longer be what is on the disk; and what is saved was entered.
Abstract == INSTANCE ValidatedState WITH
  saved <- SavedStates, loaded <- LoadedStates, late <- LateTargets

ImplementsValidatedState == Abstract!Spec
==============================================================================
