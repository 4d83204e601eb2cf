--------------------------- MODULE StateMachineProofs ---------------------------
(* Proofs about the state machine, for every table, every history size and every  *)
(* number of callers, observers and crashes: it is type correct, a restore brings *)
(* back only a state it has been in, it implements ValidatedState, and as long as *)
(* one goroutine makes the calls no call is overtaken and its history is a chain. *)
EXTENDS StateMachine, TLAPS

USE ZenonT(3), SMTT(30)

\* The history never outgrows MaxHistorySize: addToHistory drops one record
\* as soon as there is one too many.
LEMMA DropOldestBounds ==
  ASSUME NEW h \in Histories, NEW r \in Records
  PROVE  DropOldest(Append(h, r)) \in Histories
<1> DEFINE a == Append(h, r)
<1>1. a \in Seq(Records) /\ Len(a) = Len(h) + 1 /\ a # <<>>
  BY DEF Histories
<1>2. MaxHistorySize \in Nat
  BY MachineAssumption
<1>3. Tail(a) \in Seq(Records) /\ Len(Tail(a)) = Len(h)
  BY <1>1
<1> QED
  BY <1>1, <1>2, <1>3 DEF DropOldest, Histories

LEMMA NotificationsType ==
  ASSUME TypeOK, NEW c \in Callers, NEW ok \in BOOLEAN
  PROVE  Notifications(c, ok) \subseteq
           [id : 0..MaxCalls, slot : Nat, obs : Observers, ok : BOOLEAN]
<1>1. \A i \in DOMAIN observers : i \in Nat /\ observers[i] \in Observers
  BY DEF TypeOK
<1>2. call[c].id \in 0..MaxCalls
  BY DEF TypeOK, Calls
<1> QED
  BY <1>1, <1>2 DEF Notifications

LEMMA TypeInit == Init => TypeOK
<1> SUFFICES ASSUME Init PROVE TypeOK
  OBVIOUS
<1>1. NoCall \in Calls
  BY MachineAssumption DEF NoCall, Calls
<1>2. <<>> \in Histories /\ <<>> \in Seq(Observers)
  BY MachineAssumption DEF Histories
<1>3. seen \in [Observers -> Seq([id : 0..MaxCalls, slot : Nat])]
  BY DEF Init
<1>4. since \in [Observers -> 0..MaxCalls]
  BY MachineAssumption DEF Init
<1>5. persistence \in BOOLEAN /\ panicked \in BOOLEAN
  BY Zenon DEF Init
<1> QED
  BY <1>1, <1>2, <1>3, <1>4, <1>5, MachineAssumption DEF Init, TypeOK

\* A step of the call that validates, stores, records and notifies.
LEMMA TypeTransition ==
  ASSUME TypeOK, NEW c \in Callers, Transition(c)
  PROVE  TypeOK'
<1> USE MachineAssumption
<1>1. CASE Check(c)
  <2>1. inbox' \subseteq [id : 0..MaxCalls, slot : Nat, obs : Observers, ok : BOOLEAN]
    BY <1>1, NotificationsType, Zenon DEF Check, TypeOK
  <2>2. pc' \in [Callers -> {"idle", "check", "store", "record", "notify",
                             "load", "restore", "rewind"}]
    BY <1>1, Zenon DEF Check, TypeOK
  <2> QED
    BY <1>1, <2>1, <2>2, Zenon DEF Check, TypeOK, persistVars
<1>2. CASE StoreState(c)
  <2>1. overtaken' \subseteq Callers
    BY <1>2, Zenon DEF StoreState, Overtake, TypeOK
  <2> QED
    BY <1>2, <2>1, Zenon DEF StoreState, TypeOK, Calls, observeVars, persistVars
<1>3. CASE AddToHistory(c)
  <2> DEFINE r == [from |-> call[c].from, to |-> call[c].to]
  <2>1. r \in Records
    BY DEF TypeOK, Calls, Records
  <2>2. history' \in Histories
    BY <1>3, <2>1, DropOldestBounds DEF AddToHistory, TypeOK
  <2> QED
    BY <1>3, <2>2, Zenon DEF AddToHistory, TypeOK, observeVars, persistVars
<1>4. CASE NotifyTransition(c)
  <2>1. inbox' \subseteq [id : 0..MaxCalls, slot : Nat, obs : Observers, ok : BOOLEAN]
    BY <1>4, NotificationsType, Zenon DEF NotifyTransition, TypeOK
  <2>2. [id |-> call[c].id, snap |-> {}] \in [id : 0..MaxCalls, snap : SUBSET Snapshots]
    BY DEF TypeOK, Calls
  <2>3. savers' \subseteq [id : 0..MaxCalls, snap : SUBSET Snapshots]
    BY <1>4, <2>2 DEF NotifyTransition, TypeOK
  <2> QED
    BY <1>4, <2>1, <2>3, Zenon DEF NotifyTransition, TypeOK
<1> QED
  BY <1>1, <1>2, <1>3, <1>4 DEF Transition
\* A crash, whatever becomes of the two counters it leaves open.
LEMMA TypeReboot ==
  ASSUME TypeOK, Reboot, panicked' \in BOOLEAN, restarts' \in 0..MaxRestarts
  PROVE  TypeOK'
<1>1. NoCall \in Calls
  BY MachineAssumption DEF NoCall, Calls
<1>2. <<>> \in Histories /\ <<>> \in Seq(Observers)
  BY MachineAssumption DEF Histories
<1>3. seen' \in [Observers -> Seq([id : 0..MaxCalls, slot : Nat])]
  BY DEF Reboot
<1>4. since' \in [Observers -> 0..MaxCalls]
  BY MachineAssumption DEF Reboot
<1>5. persistence' \in BOOLEAN
  BY Zenon DEF Reboot
<1>6. loaded' \in [Callers -> SUBSET Snapshots] /\ overtaken' \subseteq Callers
  BY Zenon DEF Reboot
<1> QED
  BY <1>1, <1>2, <1>3, <1>4, <1>5, <1>6, MachineAssumption DEF Reboot, TypeOK

\* A step of EnablePersistence after it has released the lock.
LEMMA TypeRestore ==
  ASSUME TypeOK, NEW c \in Callers, Restore(c)
  PROVE  TypeOK'
<1>1. CASE LoadState(c)
  <2>1. loaded' \in [Callers -> SUBSET Snapshots]
    BY <1>1, Zenon DEF LoadState, TypeOK
  <2>2. pc' \in [Callers -> {"idle", "check", "store", "record", "notify",
                             "load", "restore", "rewind"}]
    BY <1>1, Zenon DEF LoadState, TypeOK
  <2> QED
    BY <1>1, <2>1, <2>2, Zenon DEF LoadState, TypeOK, observeVars
<1>2. CASE LoadStatePanics(c)
  <2>1. panicked' \in BOOLEAN /\ restarts' = restarts /\ Reboot
    BY <1>2 DEF LoadStatePanics
  <2>2. restarts' \in 0..MaxRestarts
    BY <2>1 DEF TypeOK
  <2> QED
    BY <2>1, <2>2, TypeReboot
<1>3. CASE RestoreState(c)
  <2>1. state' \in States
    BY <1>3 DEF RestoreState, TypeOK, Snapshots
  <2>2. overtaken' \subseteq Callers
    BY <1>3, Zenon DEF RestoreState, Overtake, TypeOK
  <2> QED
    BY <1>3, <2>1, <2>2, Zenon DEF RestoreState, TypeOK, observeVars, persistVars
<1>4. CASE RestoreHistory(c)
  <2>1. history' \in Histories
    BY <1>4 DEF RestoreHistory, TypeOK, Snapshots
  <2>2. loaded' \in [Callers -> SUBSET Snapshots]
    BY <1>4, Zenon DEF RestoreHistory, TypeOK
  <2> QED
    BY <1>4, <2>1, <2>2, Zenon DEF RestoreHistory, TypeOK, observeVars
<1> QED
  BY <1>1, <1>2, <1>3, <1>4 DEF Restore

\* A step of an auto-save goroutine.
LEMMA TypeAutoSave ==
  ASSUME TypeOK, NEW s \in savers, AutoSave(s)
  PROVE  TypeOK'
<1> DEFINE Savers == [id : 0..MaxCalls, snap : SUBSET Snapshots]
<1>0. s \in Savers /\ Snapshot \in Snapshots
  BY DEF TypeOK, Snapshot, Snapshots
<1>1. CASE CreateSnapshot(s)
  <2>1. [s EXCEPT !.snap = {Snapshot}] \in Savers
    BY <1>0
  <2>2. savers' \subseteq Savers
    BY <1>1, <2>1 DEF CreateSnapshot, TypeOK
  <2> QED
    BY <1>1, <2>2, Zenon DEF CreateSnapshot, TypeOK, callVars, observeVars
<1>2. CASE SaveState(s)
  <2>1. disk' \subseteq Snapshots /\ savers' \subseteq Savers
    BY <1>0, <1>2 DEF SaveState, TypeOK
  <2> QED
    BY <1>2, <2>1, Zenon DEF SaveState, TypeOK, callVars, observeVars
<1>3. CASE SaveStatePanics(s)
  <2>1. panicked' \in BOOLEAN /\ restarts' = restarts /\ Reboot
    BY <1>3 DEF SaveStatePanics
  <2>2. restarts' \in 0..MaxRestarts
    BY <2>1 DEF TypeOK
  <2> QED
    BY <2>1, <2>2, TypeReboot
<1> QED
  BY <1>1, <1>2, <1>3 DEF AutoSave

\* Every step preserves the types.
LEMMA TypeNext == TypeOK /\ [Next]_vars => TypeOK'
<1> SUFFICES ASSUME TypeOK, [Next]_vars PROVE TypeOK'
  OBVIOUS
<1> USE MachineAssumption
<1>1. CASE \E c \in Callers : \E to \in States : Begin(c, to)
  <2> PICK c \in Callers, to \in States : Begin(c, to)
    BY <1>1
  <2>1. calls' \in 0..MaxCalls
    BY DEF Begin, TypeOK
  <2>2. [id |-> calls + 1, from |-> state, to |-> to] \in Calls
    BY DEF Begin, TypeOK, Calls
  <2>3. call' \in [Callers -> Calls]
    BY <2>2 DEF Begin, TypeOK
  <2> QED
    BY <2>1, <2>3, Zenon DEF Begin, TypeOK, observeVars, persistVars
<1>2. CASE \E c \in Callers : Transition(c)
  BY <1>2, TypeTransition
<1>3. CASE \E c \in Callers, o \in Observers : Subscribe(c, o)
  <2> PICK c \in Callers, o \in Observers : Subscribe(c, o)
    BY <1>3
  <2>1. observers' \in Seq(Observers)
    BY DEF Subscribe, TypeOK
  <2>2. since' \in [Observers -> 0..MaxCalls]
    BY DEF Subscribe, TypeOK
  <2> QED
    BY <2>1, <2>2, Zenon DEF Subscribe, TypeOK, callVars, persistVars
<1>4. CASE \E c \in Callers, o \in Observers : Unsubscribe(c, o)
  BY <1>4, Zenon DEF Unsubscribe, TypeOK, vars, callVars, observeVars, persistVars
<1>5. CASE \E c \in Callers : EnablePersistence(c)
  <2> PICK c \in Callers : EnablePersistence(c)
    BY <1>5
  <2>2. toggles' \in 0..MaxToggles
    BY DEF EnablePersistence, TypeOK
  <2>3. persistence' \in BOOLEAN
    BY DEF EnablePersistence
  <2> QED
    BY <2>2, <2>3, Zenon DEF EnablePersistence, TypeOK, observeVars
<1>6. CASE \E c \in Callers : DisablePersistence(c)
  <2> PICK c \in Callers : DisablePersistence(c)
    BY <1>6
  <2>1. toggles' \in 0..MaxToggles
    BY DEF DisablePersistence, TypeOK
  <2>3. persistence' \in BOOLEAN
    BY Zenon DEF DisablePersistence
  <2> QED
    BY <2>1, <2>3, Zenon DEF DisablePersistence, TypeOK, callVars, observeVars
<1>7. CASE \E n \in inbox : Deliver(n)
  <2> PICK n \in inbox : Deliver(n)
    BY <1>7
  <2> DEFINE Heard == [id : 0..MaxCalls, slot : Nat]
  <2>1. n.obs \in Observers /\ [id |-> n.id, slot |-> n.slot] \in Heard
    BY DEF TypeOK
  <2>2. Append(seen[n.obs], [id |-> n.id, slot |-> n.slot]) \in Seq(Heard)
    <3>1. seen[n.obs] \in Seq(Heard)
      BY <2>1, Zenon DEF TypeOK
    <3> HIDE DEF Heard
    <3> QED
      BY <2>1, <3>1
  <2>3. seen' \in [Observers -> Seq(Heard)]
    BY <2>1, <2>2, Zenon DEF Deliver, TypeOK
  <2>4. inbox' \subseteq inbox
    BY DEF Deliver
  <2> QED
    BY <2>3, <2>4, Zenon DEF Deliver, TypeOK, callVars, persistVars
<1>8. CASE \E s \in savers : AutoSave(s)
  BY <1>8, TypeAutoSave
<1>9. CASE Restart
  <2>1. panicked' \in BOOLEAN /\ restarts' \in 0..MaxRestarts /\ Reboot
    BY <1>9 DEF Restart, TypeOK
  <2> QED
    BY <2>1, TypeReboot
<1>10. CASE UNCHANGED vars
  BY <1>10, Zenon DEF TypeOK, vars, callVars, observeVars, persistVars
<1>11. CASE \E c \in Callers : Restore(c)
  BY <1>11, TypeRestore
<1> QED
  BY <1>1, <1>2, <1>3, <1>4, <1>5, <1>6, <1>7, <1>8, <1>9, <1>10, <1>11 DEF Next

\* The variables of the machine keep their types, for any number of callers.
THEOREM TypeCorrect == Spec => []TypeOK
BY TypeInit, TypeNext, PTL DEF Spec

------------------------------------------------------------------------------
(******************************************************************************)
(* Any number of goroutines.  A call that is about to store was allowed from  *)
(* the current state, unless another call or a restore has changed the state  *)
(* since: then it is overtaken.                                               *)
(******************************************************************************)
StoreIsAllowed ==
  /\ \A c \in overtaken : pc[c] = "store"
  /\ \A c \in Callers : pc[c] = "store" => c \in overtaken \/ Contains(state, call[c].to)

\* What is held, snapshotted, saved or loaded was entered.
OnlyEntered ==
  /\ state \in entered /\ InitialState \in entered
  /\ \A d \in disk : d.state \in entered
  /\ \A s \in savers : s.snap = {} \/ \E d : s.snap = {d} /\ d.state \in entered
  /\ \A c \in Callers : \A d \in loaded[c] : d.state \in entered

MachineInv == TypeOK /\ StoreIsAllowed /\ OnlyEntered

LEMMA MachineInvInit == Init => MachineInv
BY TypeInit DEF Init, MachineInv, StoreIsAllowed, OnlyEntered

\* A step that leaves the state, the calls and who may store alone.
LEMMA StoreIsAllowedKept ==
  ASSUME StoreIsAllowed, UNCHANGED <<state, call, overtaken>>,
         \A d \in Callers : pc'[d] = "store" <=> pc[d] = "store",
         TypeOK
  PROVE  StoreIsAllowed'
BY DEF StoreIsAllowed, Contains, TypeOK

\* A step of c that changes the state: every other call that was allowed is
\* overtaken.
LEMMA StoreIsAllowedOvertaken ==
  ASSUME TypeOK, StoreIsAllowed, NEW c \in Callers, Overtake(c), UNCHANGED call,
         pc'[c] # "store", \A d \in Callers \ {c} : pc'[d] = pc[d]
  PROVE  StoreIsAllowed'
BY Zenon DEF StoreIsAllowed, Overtake, TypeOK

LEMMA StoreIsAllowedNext ==
  ASSUME TypeOK, StoreIsAllowed, [Next]_vars
  PROVE  StoreIsAllowed'
<1>1. ASSUME NEW c \in Callers, NEW to \in States, Begin(c, to) PROVE StoreIsAllowed'
  BY <1>1 DEF Begin, StoreIsAllowed, Contains, TypeOK
<1>2. ASSUME NEW c \in Callers, Transition(c) PROVE StoreIsAllowed'
  <2>1. CASE Check(c)
    BY <2>1 DEF Check, StoreIsAllowed, Contains, TypeOK
  <2>2. CASE StoreState(c)
    BY <2>2, StoreIsAllowedOvertaken DEF StoreState, TypeOK
  <2>3. CASE AddToHistory(c)
    BY <2>3, StoreIsAllowedKept DEF AddToHistory, TypeOK
  <2>4. CASE NotifyTransition(c)
    BY <2>4, StoreIsAllowedKept DEF NotifyTransition, TypeOK
  <2> QED
    BY <1>2, <2>1, <2>2, <2>3, <2>4 DEF Transition
<1>3. ASSUME NEW c \in Callers, NEW o \in Observers, Subscribe(c, o) \/ Unsubscribe(c, o)
      PROVE  StoreIsAllowed'
  BY <1>3, StoreIsAllowedKept DEF Subscribe, Unsubscribe, vars, callVars
<1>4. ASSUME NEW c \in Callers, EnablePersistence(c) \/ DisablePersistence(c)
      PROVE  StoreIsAllowed'
  BY <1>4, StoreIsAllowedKept DEF EnablePersistence, DisablePersistence, callVars, TypeOK
<1>5. ASSUME NEW c \in Callers, Restore(c) PROVE StoreIsAllowed'
  <2>1. CASE LoadState(c)
    BY <2>1, StoreIsAllowedKept DEF LoadState, TypeOK
  <2>2. CASE LoadStatePanics(c)
    BY <2>2 DEF LoadStatePanics, Reboot, StoreIsAllowed
  <2>3. CASE RestoreState(c)
    BY <2>3, StoreIsAllowedOvertaken DEF RestoreState, TypeOK
  <2>4. CASE RestoreHistory(c)
    BY <2>4, StoreIsAllowedKept DEF RestoreHistory, TypeOK
  <2> QED
    BY <1>5, <2>1, <2>2, <2>3, <2>4 DEF Restore
<1>6. ASSUME NEW n \in inbox, Deliver(n) PROVE StoreIsAllowed'
  BY <1>6, StoreIsAllowedKept DEF Deliver, callVars
<1>7. ASSUME NEW s \in savers, AutoSave(s) PROVE StoreIsAllowed'
  <2>1. CASE CreateSnapshot(s) \/ SaveState(s)
    BY <2>1, StoreIsAllowedKept DEF CreateSnapshot, SaveState, callVars
  <2>2. CASE SaveStatePanics(s)
    BY <2>2 DEF SaveStatePanics, Reboot, StoreIsAllowed
  <2> QED
    BY <1>7, <2>1, <2>2 DEF AutoSave
<1>8. CASE Restart
  BY <1>8 DEF Restart, Reboot, StoreIsAllowed
<1>9. CASE UNCHANGED vars
  BY <1>9, StoreIsAllowedKept DEF vars, callVars
<1> QED
  BY <1>1, <1>2, <1>3, <1>4, <1>5, <1>6, <1>7, <1>8, <1>9 DEF Next

LEMMA OnlyEnteredNext ==
  ASSUME TypeOK, OnlyEntered, [Next]_vars
  PROVE  OnlyEntered'
<1>1. ASSUME NEW c \in Callers, NEW to \in States, Begin(c, to) PROVE OnlyEntered'
  BY <1>1 DEF Begin, OnlyEntered, persistVars
<1>2. ASSUME NEW c \in Callers, Transition(c) PROVE OnlyEntered'
  <2>1. CASE Check(c)
    BY <2>1 DEF Check, OnlyEntered, persistVars
  <2>2. CASE StoreState(c)
    BY <2>2 DEF StoreState, OnlyEntered, persistVars
  <2>3. CASE AddToHistory(c)
    BY <2>3 DEF AddToHistory, OnlyEntered, persistVars
  <2>4. CASE NotifyTransition(c)
    BY <2>4 DEF NotifyTransition, OnlyEntered
  <2> QED
    BY <1>2, <2>1, <2>2, <2>3, <2>4 DEF Transition
<1>3. ASSUME NEW c \in Callers, NEW o \in Observers, Subscribe(c, o) \/ Unsubscribe(c, o)
      PROVE  OnlyEntered'
  BY <1>3 DEF Subscribe, Unsubscribe, OnlyEntered, vars, persistVars
<1>4. ASSUME NEW c \in Callers, EnablePersistence(c) \/ DisablePersistence(c)
      PROVE  OnlyEntered'
  BY <1>4 DEF EnablePersistence, DisablePersistence, OnlyEntered
<1>9. ASSUME NEW c \in Callers, Restore(c) PROVE OnlyEntered'
  <2>1. CASE LoadState(c)
    BY <2>1 DEF LoadState, OnlyEntered, TypeOK
  <2>2. CASE LoadStatePanics(c)
    BY <2>2 DEF LoadStatePanics, Reboot, OnlyEntered
  <2>3. CASE RestoreState(c)
    BY <2>3 DEF RestoreState, OnlyEntered, persistVars
  <2>4. CASE RestoreHistory(c)
    BY <2>4 DEF RestoreHistory, OnlyEntered, TypeOK
  <2> QED
    BY <1>9, <2>1, <2>2, <2>3, <2>4 DEF Restore
<1>5. ASSUME NEW n \in inbox, Deliver(n) PROVE OnlyEntered'
  BY <1>5 DEF Deliver, OnlyEntered, persistVars
<1>6. ASSUME NEW s \in savers, AutoSave(s) PROVE OnlyEntered'
  <2>1. CASE CreateSnapshot(s)
    <3>1. [s EXCEPT !.snap = {Snapshot}].snap = {Snapshot} /\ Snapshot.state \in entered
      BY DEF OnlyEntered, Snapshot, TypeOK
    <3> QED
      BY <2>1, <3>1, Zenon DEF CreateSnapshot, OnlyEntered
  <2>2. CASE SaveState(s)
    BY <2>2 DEF SaveState, OnlyEntered
  <2>3. CASE SaveStatePanics(s)
    BY <2>3 DEF SaveStatePanics, Reboot, OnlyEntered
  <2> QED
    BY <1>6, <2>1, <2>2, <2>3 DEF AutoSave
<1>7. CASE Restart
  BY <1>7 DEF Restart, Reboot, OnlyEntered
<1>8. CASE UNCHANGED vars
  BY <1>8 DEF OnlyEntered, vars, persistVars
<1> QED
  BY <1>1, <1>2, <1>3, <1>4, <1>5, <1>6, <1>7, <1>8, <1>9 DEF Next

\* Whatever snapshot is restored, however saves are reordered and whichever
\* load an old snapshot was read by, its state was entered before.
THEOREM RestoresOnlyEntered == Spec => []OnlyEntered
<1>1. Init => TypeOK /\ OnlyEntered
  BY MachineInvInit DEF MachineInv
<1>2. TypeOK /\ OnlyEntered /\ [Next]_vars => (TypeOK /\ OnlyEntered)'
  BY TypeNext, OnlyEnteredNext
<1> QED
  BY <1>1, <1>2, PTL DEF Spec

\* Steps that leave the mapped variables alone.
LEMMA SavedKept == ASSUME UNCHANGED disk PROVE UNCHANGED SavedStates
BY DEF SavedStates

LEMMA LoadedKept ==
  ASSUME UNCHANGED loaded, \A d \in Callers : pc'[d] = "restore" <=> pc[d] = "restore"
  PROVE  UNCHANGED LoadedStates
<1>1. {e \in Callers : pc'[e] = "restore"} = {e \in Callers : pc[e] = "restore"}
  OBVIOUS
<1> QED
  BY <1>1 DEF LoadedStates

LEMMA LateKept ==
  ASSUME UNCHANGED overtaken, \A d \in overtaken : call'[d] = call[d]
  PROVE  UNCHANGED LateTargets
BY DEF LateTargets

\* Whoever is overtaken was late already or had been allowed from this state.
LEMMA OvertakenAreAllowed ==
  ASSUME MachineInv, NEW c \in Callers, Overtake(c), UNCHANGED call
  PROVE  LateTargets' \subseteq LateTargets \cup Abstract!Successors
<1> SUFFICES ASSUME NEW d \in overtaken'
             PROVE  call[d].to \in LateTargets \cup Abstract!Successors
  BY DEF LateTargets
<1>1. d \in overtaken \/ (d \in Callers /\ pc[d] = "store")
  BY DEF Overtake
<1>2. d \in overtaken \/ Contains(state, call[d].to)
  BY <1>1 DEF MachineInv, StoreIsAllowed
<1> QED
  BY <1>2 DEF LateTargets, Contains, Abstract!Successors

\* A crash is a crash of ValidatedState.
LEMMA RebootRefines == ASSUME Reboot PROVE Abstract!Crash
<1>1. LoadedStates' = {} /\ LateTargets' = {} /\ UNCHANGED SavedStates
  BY DEF Reboot, LoadedStates, LateTargets, SavedStates
<1> QED
  BY <1>1 DEF Reboot, Abstract!Crash

\* Every step of the machine is a step of ValidatedState or leaves it alone.
LEMMA StepRefines ==
  ASSUME MachineInv, [Next]_vars
  PROVE  [Abstract!Next]_(Abstract!vars)
<1> USE DEF Abstract!vars, Abstract!Next
<1>0. TypeOK /\ StoreIsAllowed /\ OnlyEntered
  BY DEF MachineInv
<1>1. ASSUME NEW c \in Callers, NEW to \in States, Begin(c, to)
      PROVE  UNCHANGED Abstract!vars
  <2>1. UNCHANGED LateTargets
    <3>1. UNCHANGED overtaken /\ c \notin overtaken
      BY <1>0, <1>1 DEF Begin, StoreIsAllowed
    <3>2. \A d \in overtaken : call'[d] = call[d]
      BY <1>0, <1>1, <3>1 DEF Begin, TypeOK
    <3> QED
      BY <3>1, <3>2, LateKept
  <2>2. UNCHANGED LoadedStates /\ UNCHANGED SavedStates
    BY <1>0, <1>1, LoadedKept, SavedKept DEF Begin, persistVars, TypeOK
  <2> QED
    BY <1>1, <2>1, <2>2 DEF Begin
<1>2. ASSUME NEW c \in Callers, Transition(c)
      PROVE  [Abstract!Next]_(Abstract!vars)
  <2>1. UNCHANGED LoadedStates /\ UNCHANGED SavedStates
    <3>1. UNCHANGED <<loaded, disk>>
      BY <1>2 DEF Transition, Check, StoreState, AddToHistory, NotifyTransition, persistVars
    <3>2. \A d \in Callers : pc'[d] = "restore" <=> pc[d] = "restore"
      BY <1>0, <1>2 DEF Transition, Check, StoreState, AddToHistory, NotifyTransition, TypeOK
    <3> QED
      BY <3>1, <3>2, LoadedKept, SavedKept
  <2>2. CASE StoreState(c)
    <3>1. c \in overtaken \/ Contains(state, call[c].to)
      BY <1>0, <2>2 DEF StoreState, StoreIsAllowed
    <3>2. state' \in Abstract!Successors \cup LateTargets
      BY <2>2, <3>1 DEF StoreState, Contains, Abstract!Successors, LateTargets
    <3>3. LateTargets' \subseteq LateTargets \cup Abstract!Successors
      BY <2>2, OvertakenAreAllowed DEF StoreState
    <3>4. Abstract!Step
      BY <2>1, <2>2, <3>2, <3>3 DEF StoreState, Abstract!Step
    <3> QED
      BY <3>4
  <2>3. CASE Check(c) \/ AddToHistory(c) \/ NotifyTransition(c)
    <3>1. UNCHANGED <<state, entered, call, overtaken>>
      BY <2>3 DEF Check, AddToHistory, NotifyTransition
    <3>2. UNCHANGED LateTargets
      BY <3>1, LateKept
    <3> QED
      BY <2>1, <3>1, <3>2
  <2> QED
    BY <1>2, <2>2, <2>3, Zenon DEF Transition
<1>3. ASSUME UNCHANGED <<state, entered, callVars, disk, loaded>>
      PROVE  UNCHANGED Abstract!vars
  <2>1. UNCHANGED <<pc, call, overtaken>>
    BY <1>3 DEF callVars
  <2>2. UNCHANGED LoadedStates /\ UNCHANGED SavedStates /\ UNCHANGED LateTargets
    BY <1>3, <2>1, LoadedKept, SavedKept, LateKept
  <2> QED
    BY <1>3, <2>2
<1>4. ASSUME NEW c \in Callers, NEW o \in Observers, Subscribe(c, o) \/ Unsubscribe(c, o)
      PROVE  UNCHANGED Abstract!vars
  BY <1>3, <1>4 DEF Subscribe, Unsubscribe, vars, persistVars
<1>5. ASSUME NEW c \in Callers, DisablePersistence(c)
      PROVE  UNCHANGED Abstract!vars
  BY <1>3, <1>5 DEF DisablePersistence
<1>6. ASSUME NEW c \in Callers, EnablePersistence(c)
      PROVE  UNCHANGED Abstract!vars
  <2>1. UNCHANGED LoadedStates /\ UNCHANGED SavedStates /\ UNCHANGED LateTargets
    BY <1>0, <1>6, LoadedKept, SavedKept, LateKept DEF EnablePersistence, TypeOK
  <2> QED
    BY <1>6, <2>1 DEF EnablePersistence
<1>7. ASSUME NEW c \in Callers, Restore(c)
      PROVE  [Abstract!Next]_(Abstract!vars)
  <2>1. CASE LoadState(c)
    <3>1. UNCHANGED SavedStates /\ UNCHANGED LateTargets
      BY <2>1, SavedKept, LateKept DEF LoadState
    <3>2. CASE UNCHANGED loaded /\ pc'[c] = "idle"
      <4>1. UNCHANGED LoadedStates
        BY <1>0, <2>1, <3>2, LoadedKept DEF LoadState, TypeOK
      <4> QED
        BY <2>1, <3>1, <4>1 DEF LoadState
    <3>3. CASE loaded' = [loaded EXCEPT ![c] = disk] /\ pc' = [pc EXCEPT ![c] = "restore"]
      <4>1. LoadedStates' = LoadedStates \cup SavedStates
        <5>1. \A e \in Callers : pc'[e] = "restore" <=> (pc[e] = "restore" \/ e = c)
          BY <1>0, <2>1, <3>3 DEF LoadState, TypeOK
        <5>2. \A e \in Callers \ {c} : loaded'[e] = loaded[e]
          BY <1>0, <3>3 DEF TypeOK
        <5>3. loaded'[c] = disk /\ pc[c] # "restore"
          BY <1>0, <2>1, <3>3 DEF LoadState, TypeOK
        <5> DEFINE Held(x) == \E e \in Callers : pc[e] = "restore" /\ \E d \in loaded[e] : x = d.state
        <5>4. \A x : x \in LoadedStates <=> Held(x)
          BY Zenon DEF LoadedStates
        <5>5. \A x : x \in LoadedStates' <=>
                \E e \in Callers : pc'[e] = "restore" /\ \E d \in loaded'[e] : x = d.state
          BY Zenon DEF LoadedStates
        <5>6. \A x : x \in LoadedStates' <=> Held(x) \/ \E d \in disk : x = d.state
          <6> TAKE x
          <6>1. ASSUME x \in LoadedStates' PROVE Held(x) \/ \E d \in disk : x = d.state
            <7> PICK e \in Callers : pc'[e] = "restore" /\ \E d \in loaded'[e] : x = d.state
              BY <5>5, <6>1
            <7>1. CASE e = c
              BY <5>3, <7>1
            <7>2. CASE e # c
              BY <5>1, <5>2, <7>2
            <7> QED
              BY <7>1, <7>2
          <6>2. ASSUME Held(x) PROVE x \in LoadedStates'
            <7> PICK e \in Callers : pc[e] = "restore" /\ \E d \in loaded[e] : x = d.state
              BY <6>2
            <7>1. e # c
              BY <5>3
            <7> QED
              BY <5>1, <5>2, <5>5, <7>1
          <6>3. ASSUME \E d \in disk : x = d.state PROVE x \in LoadedStates'
            BY <5>1, <5>3, <5>5, <6>3
          <6> QED
            BY <6>1, <6>2, <6>3
        <5>7. \A x : x \in SavedStates <=> \E d \in disk : x = d.state
          BY DEF SavedStates
        <5> HIDE DEF Held
        <5> QED
          BY <5>4, <5>6, <5>7
      <4>2. Abstract!Load
        BY <2>1, <3>1, <4>1 DEF LoadState, Abstract!Load
      <4> QED
        BY <4>2
    <3> QED
      BY <1>0, <2>1, <3>2, <3>3 DEF LoadState, TypeOK
  <2>2. CASE LoadStatePanics(c)
    BY <2>2, RebootRefines DEF LoadStatePanics
  <2>3. CASE RestoreState(c)
    <3>1. state' \in LoadedStates
      BY <2>3 DEF RestoreState, LoadedStates
    <3>2. LoadedStates' \subseteq LoadedStates
      <4>1. UNCHANGED loaded /\ \A e \in Callers : pc'[e] = "restore" => pc[e] = "restore"
        BY <1>0, <2>3 DEF RestoreState, persistVars, TypeOK
      <4> QED
        BY <4>1 DEF LoadedStates
    <3>3. LateTargets' \subseteq LateTargets \cup Abstract!Successors
      BY <2>3, OvertakenAreAllowed DEF RestoreState
    <3>4. UNCHANGED SavedStates
      BY <2>3, SavedKept DEF RestoreState, persistVars
    <3>5. Abstract!Restore
      BY <2>3, <3>1, <3>2, <3>3, <3>4 DEF RestoreState, Abstract!Restore
    <3> QED
      BY <3>5
  <2>4. CASE RestoreHistory(c)
    <3>1. UNCHANGED SavedStates /\ UNCHANGED LateTargets
      BY <2>4, SavedKept, LateKept DEF RestoreHistory
    <3>2. UNCHANGED LoadedStates
      <4> DEFINE R == {e \in Callers : pc[e] = "restore"}
      <4>1. {e \in Callers : pc'[e] = "restore"} = R
        BY <1>0, <2>4 DEF RestoreHistory, TypeOK
      <4>2. \A e \in R : loaded'[e] = loaded[e]
        BY <1>0, <2>4 DEF RestoreHistory, TypeOK
      <4> HIDE DEF R
      <4>3. {loaded'[e] : e \in R} = {loaded[e] : e \in R}
        BY <4>2
      <4> QED
        BY <4>1, <4>3 DEF LoadedStates, R
    <3> QED
      BY <2>4, <3>1, <3>2 DEF RestoreHistory
  <2> QED
    BY <1>7, <2>1, <2>2, <2>3, <2>4, Zenon DEF Restore
<1>8. ASSUME NEW n \in inbox, Deliver(n)
      PROVE  UNCHANGED Abstract!vars
  BY <1>3, <1>8 DEF Deliver, persistVars
<1>9. ASSUME NEW s \in savers, AutoSave(s)
      PROVE  [Abstract!Next]_(Abstract!vars)
  <2>1. CASE CreateSnapshot(s)
    BY <1>3, <2>1 DEF CreateSnapshot
  <2>2. CASE SaveState(s) /\ disk' = s.snap
    <3>1. PICK d : s.snap = {d} /\ d.state \in entered
      BY <1>0, <2>2 DEF SaveState, OnlyEntered
    <3>2. SavedStates' = {d.state}
      BY <2>2, <3>1 DEF SavedStates
    <3>3. UNCHANGED LoadedStates /\ UNCHANGED LateTargets
      BY <2>2, LoadedKept, LateKept DEF SaveState, callVars
    <3>4. Abstract!Save
      BY <2>2, <3>1, <3>2, <3>3 DEF SaveState, Abstract!Save
    <3> QED
      BY <3>4
  <2>3. CASE SaveState(s) /\ UNCHANGED disk
    BY <1>3, <2>3 DEF SaveState
  <2>4. CASE SaveStatePanics(s)
    BY <2>4, RebootRefines DEF SaveStatePanics
  <2> QED
    BY <1>9, <2>1, <2>2, <2>3, <2>4 DEF AutoSave, SaveState
<1>10. CASE Restart
  BY <1>10, RebootRefines DEF Restart
<1>11. CASE UNCHANGED vars
  BY <1>3, <1>11 DEF vars, persistVars
<1> QED
  BY <1>1, <1>2, <1>4, <1>5, <1>6, <1>7, <1>8, <1>9, <1>10, <1>11, Zenon DEF Next

\* The machine implements ValidatedState, for every table and any number of
\* goroutines: through any overlap of calls, auto-saves, restores and crashes, a
\* state is entered only from a state it was allowed from when the call checked.
THEOREM ImplementsValidated == Spec => ImplementsValidatedState
<1>1. MachineInv /\ [Next]_vars => MachineInv'
  BY TypeNext, StoreIsAllowedNext, OnlyEnteredNext DEF MachineInv
<1>2. Init => Abstract!Init
  BY DEF Init, Abstract!Init, SavedStates, LoadedStates, LateTargets
<1>3. MachineInv /\ [Next]_vars => [Abstract!Next]_(Abstract!vars)
  BY StepRefines
<1> QED
  BY MachineInvInit, <1>1, <1>2, <1>3, PTL DEF Spec, ImplementsValidatedState, Abstract!Spec

OneCaller == \A c, d \in Callers : c = d

\* With one goroutine no call is ever overtaken, so that ValidatedState has no
\* late targets and the table is followed to the letter.
THEOREM OneCallerIsNeverLate ==
  ASSUME OneCaller
  PROVE  Spec => [](LateTargets = {})
<1>1. Init => TypeOK /\ overtaken = {}
  BY TypeInit DEF Init
<1>2. TypeOK /\ overtaken = {} /\ [Next]_vars => (TypeOK /\ overtaken = {})'
  <2> SUFFICES ASSUME TypeOK, overtaken = {}, [Next]_vars PROVE overtaken' = {}
    BY TypeNext
  <2>1. ASSUME NEW c \in Callers, Overtake(c) PROVE overtaken' = {}
    BY <2>1 DEF Overtake, OneCaller
  <2>2. ASSUME NEW c \in Callers, Transition(c) \/ Restore(c) PROVE overtaken' = {}
    BY <2>1, <2>2 DEF Transition, Check, StoreState, AddToHistory, NotifyTransition,
       Restore, LoadState, LoadStatePanics, RestoreState, RestoreHistory, Reboot
  <2>3. ASSUME NEW s \in savers, AutoSave(s) PROVE overtaken' = {}
    BY <2>3 DEF AutoSave, CreateSnapshot, SaveState, SaveStatePanics, Reboot, callVars
  <2>4. ASSUME UNCHANGED callVars \/ UNCHANGED overtaken PROVE overtaken' = {}
    BY <2>4 DEF callVars
  <2> QED
    BY <2>2, <2>3, <2>4 DEF Next, Begin, Subscribe, Unsubscribe, EnablePersistence,
       DisablePersistence, Deliver, Restart, Reboot, vars
<1>3. overtaken = {} => LateTargets = {}
  BY DEF LateTargets
<1> QED
  BY <1>1, <1>2, <1>3, PTL DEF Spec

------------------------------------------------------------------------------
\* A record that joins up with the history still does once the oldest is dropped,
\* and is the last one.
LEMMA DropOldestChains ==
  ASSUME NEW h \in Histories, NEW r \in Records,
         \A i \in 1..(Len(h) - 1) : h[i].to = h[i + 1].from,
         h # <<>> => h[Len(h)].to = r.from
  PROVE  LET k == DropOldest(Append(h, r))
         IN  /\ \A i \in 1..(Len(k) - 1) : k[i].to = k[i + 1].from
             /\ k # <<>> /\ k[Len(k)] = r
<1> DEFINE a == Append(h, r)
<1>1. /\ h \in Seq(Records) /\ Len(h) \in Nat /\ a \in Seq(Records) /\ Len(a) = Len(h) + 1
      /\ \A i \in 1..Len(h) : a[i] = h[i]
      /\ a[Len(h) + 1] = r
  BY DEF Histories
<1>2. \A i \in 1..(Len(a) - 1) : a[i].to = a[i + 1].from
  <2> SUFFICES ASSUME NEW i \in 1..Len(h) PROVE a[i].to = a[i + 1].from
    BY <1>1
  <2>1. CASE i = Len(h)
    <3>1. h # <<>>
      BY <1>1, <2>1
    <3> QED
      BY <1>1, <2>1, <3>1
  <2>2. CASE i < Len(h)
    <3>1. i \in 1..(Len(h) - 1) /\ i + 1 \in 1..Len(h)
      BY <1>1, <2>2
    <3> QED
      BY <1>1, <3>1
  <2> QED
    BY <1>1, <2>1, <2>2
<1>3. a # <<>> /\ a[Len(a)] = r
  BY <1>1
<1> HIDE DEF a
<1>4. CASE Len(a) > MaxHistorySize
  <2> DEFINE t == Tail(a)
  <2>1. Len(a) >= 2
    BY <1>1, <1>4, MachineAssumption
  <2>2. /\ t \in Seq(Records) /\ Len(t) = Len(a) - 1
        /\ \A i \in 1..Len(t) : t[i] = a[i + 1]
    BY <1>1, <1>3
  <2>3. DropOldest(a) = t
    BY <1>4 DEF DropOldest
  <2> HIDE DEF t
  <2>4. \A i \in 1..(Len(t) - 1) : t[i].to = t[i + 1].from
    <3> SUFFICES ASSUME NEW i \in 1..(Len(t) - 1) PROVE t[i].to = t[i + 1].from
      OBVIOUS
    <3>1. i \in 1..Len(t) /\ i + 1 \in 1..Len(t) /\ i + 1 \in 1..(Len(a) - 1)
      BY <1>1, <2>2
    <3> QED
      BY <1>2, <2>2, <3>1
  <2>5. t # <<>> /\ t[Len(t)] = r
    BY <1>1, <1>3, <2>1, <2>2
  <2> QED
    BY <2>3, <2>4, <2>5 DEF a
<1>5. CASE ~(Len(a) > MaxHistorySize)
  <2>1. DropOldest(a) = a
    BY <1>5 DEF DropOldest
  <2> QED
    BY <1>2, <1>3, <2>1 DEF a
<1> QED
  BY <1>4, <1>5

\* A step of c that neither stores nor records, when nobody else is in a call.
LEMMA ChainKept ==
  ASSUME Chained, NEW c \in Callers, \A d \in Callers \ {c} : pc'[d] = "idle",
         history' = history, state' = state, pc[c] # "record",
         pc'[c] \notin {"record", "load", "restore", "rewind"},
         pc'[c] # "idle" => call'[c].id # 0,
         pc'[c] \in {"check", "store"} => call'[c].from = state,
         \A d \in Callers \ {c} : pc[d] = "idle"
  PROVE  Chained'
BY DEF Chained

LEMMA ChainNext ==
  ASSUME TypeOK, ChainInv, [Next]_vars
  PROVE  ChainInv'
<1> SUFFICES ASSUME toggles' = 0, OneHasCalled' PROVE Chained'
  BY DEF ChainInv, Chained
<1>1. ASSUME NEW c \in Callers, EnablePersistence(c) \/ DisablePersistence(c) PROVE FALSE
  BY <1>1 DEF EnablePersistence, DisablePersistence, TypeOK
<1>2. ASSUME Reboot PROVE Chained'
  <2>1. history' = <<>> /\ \A c \in Callers : pc'[c] = "idle"
    BY <1>2 DEF Reboot
  <2> QED
    BY <2>1 DEF Chained
<1>3. ASSUME toggles' = toggles, UNCHANGED call PROVE Chained
  BY <1>3 DEF ChainInv, Chained, OneHasCalled
<1>4. ASSUME UNCHANGED <<state, history, pc, call, toggles>> PROVE Chained'
  BY <1>3, <1>4 DEF Chained
<1>5. ASSUME NEW s \in savers, CreateSnapshot(s) \/ SaveState(s) PROVE Chained'
  BY <1>4, <1>5 DEF CreateSnapshot, SaveState, callVars
<1>6. ASSUME NEW n \in inbox, Deliver(n) PROVE Chained'
  BY <1>4, <1>6 DEF Deliver, callVars, persistVars
<1>7. ASSUME NEW c \in Callers, NEW o \in Observers, Subscribe(c, o) \/ Unsubscribe(c, o) PROVE Chained'
  BY <1>4, <1>7 DEF Subscribe, Unsubscribe, vars, callVars, persistVars
<1>8. ASSUME UNCHANGED vars PROVE Chained'
  BY <1>4, <1>8 DEF vars, callVars, persistVars
<1>9. ASSUME NEW c \in Callers, NEW to \in States, Begin(c, to) PROVE Chained'
  <2>1. /\ toggles = 0 /\ UNCHANGED <<history, state>> /\ pc[c] = "idle"
        /\ pc'[c] = "check" /\ call'[c].from = state /\ call'[c].id = calls + 1
        /\ \A d \in Callers \ {c} : pc'[d] = pc[d] /\ call'[d] = call[d]
    BY <1>9 DEF Begin, TypeOK, persistVars
  <2>2. call'[c].id # 0
    BY <2>1 DEF TypeOK
  <2>3. \A d \in Callers \ {c} : call[d].id = 0
    BY <2>1, <2>2 DEF OneHasCalled
  <2>4. Chained
    BY <2>1, <2>3 DEF ChainInv, Chained, OneHasCalled
  <2>5. \A d \in Callers \ {c} : pc[d] = "idle"
    BY <2>3, <2>4 DEF Chained
  <2> QED
    BY <2>1, <2>2, <2>4, <2>5, ChainKept
<1>10. ASSUME NEW c \in Callers, Chained, OneHasCalled, pc[c] # "idle"
       PROVE  call[c].id # 0 /\ \A d \in Callers \ {c} : pc[d] = "idle"
  BY <1>10 DEF Chained, OneHasCalled
<1>11. ASSUME UNCHANGED call PROVE OneHasCalled
  BY <1>11 DEF OneHasCalled
<1>12. ASSUME NEW c \in Callers, Check(c) PROVE Chained'
  <2>1. /\ toggles' = toggles /\ UNCHANGED <<history, state, call>> /\ pc[c] = "check"
        /\ pc'[c] \in {"store", "idle"}
        /\ \A d \in Callers \ {c} : pc'[d] = pc[d]
    BY <1>12, Zenon DEF Check, TypeOK, persistVars
  <2>2. Chained /\ OneHasCalled
    BY <1>3, <1>11, <2>1
  <2>3. call[c].from = state
    BY <2>1, <2>2 DEF Chained
  <2>4. call[c].id # 0 /\ \A d \in Callers \ {c} : pc[d] = "idle"
    BY <1>10, <2>1, <2>2
  <2> QED
    BY <2>1, <2>2, <2>3, <2>4, ChainKept
<1>13. ASSUME NEW c \in Callers, StoreState(c) PROVE Chained'
  <2>1. /\ toggles' = toggles /\ UNCHANGED <<history, call>> /\ pc[c] = "store"
        /\ pc'[c] = "record" /\ state' = call[c].to
        /\ \A d \in Callers \ {c} : pc'[d] = pc[d]
    BY <1>13 DEF StoreState, TypeOK, persistVars
  <2>2. Chained /\ OneHasCalled
    BY <1>3, <1>11, <2>1
  <2>3. call[c].id # 0 /\ \A d \in Callers \ {c} : pc[d] = "idle"
    BY <1>10, <2>1, <2>2
  <2>4. call[c].from = state /\ \A d \in Callers : pc[d] # "record"
    BY <2>1, <2>2, <2>3 DEF Chained
  <2>5. history # <<>> => history[Len(history)].to = call[c].from
    BY <2>2, <2>4 DEF Chained
  <2>6. \A i \in 1..(Len(history) - 1) : history[i].to = history[i + 1].from
    BY <2>2 DEF Chained
  <2> QED
    BY <2>1, <2>3, <2>5, <2>6 DEF Chained
<1>14. ASSUME NEW c \in Callers, AddToHistory(c) PROVE Chained'
  <2> DEFINE r == [from |-> call[c].from, to |-> call[c].to]
  <2>1. /\ toggles' = toggles /\ UNCHANGED <<state, call>> /\ pc[c] = "record" /\ pc'[c] = "notify"
        /\ history' = DropOldest(Append(history, r))
        /\ \A d \in Callers \ {c} : pc'[d] = pc[d]
    BY <1>14 DEF AddToHistory, TypeOK, persistVars
  <2>2. r \in Records /\ history \in Histories /\ r.from = call[c].from /\ r.to = call[c].to
    BY DEF TypeOK, Calls, Records
  <2> HIDE DEF r
  <2>3. Chained /\ OneHasCalled
    BY <1>3, <1>11, <2>1
  <2>4. /\ call[c].to = state
        /\ history # <<>> => history[Len(history)].to = r.from
        /\ \A i \in 1..(Len(history) - 1) : history[i].to = history[i + 1].from
    BY <2>1, <2>2, <2>3 DEF Chained
  <2>5. call[c].id # 0 /\ \A d \in Callers \ {c} : pc[d] = "idle"
    BY <1>10, <2>1, <2>3
  <2>6. /\ \A i \in 1..(Len(history') - 1) : history'[i].to = history'[i + 1].from
        /\ history'[Len(history')] = r
    BY <2>1, <2>2, <2>4, DropOldestChains
  <2> QED
    BY <2>1, <2>2, <2>4, <2>5, <2>6 DEF Chained
<1>15. ASSUME NEW c \in Callers, NotifyTransition(c) PROVE Chained'
  <2>1. /\ toggles' = toggles /\ UNCHANGED <<history, state, call>>
        /\ pc[c] = "notify" /\ pc'[c] = "idle"
        /\ \A d \in Callers \ {c} : pc'[d] = pc[d]
    BY <1>15 DEF NotifyTransition, TypeOK
  <2>2. Chained /\ OneHasCalled
    BY <1>3, <1>11, <2>1
  <2>3. \A d \in Callers \ {c} : pc[d] = "idle"
    BY <1>10, <2>1, <2>2
  <2> QED
    BY <2>1, <2>2, <2>3, ChainKept
\* No snapshot is being restored, or a toggle has been counted.
<1>16. ASSUME NEW c \in Callers, LoadState(c) \/ RestoreState(c) \/ RestoreHistory(c) PROVE FALSE
  <2>1. UNCHANGED call /\ toggles' = toggles /\ pc[c] \in {"load", "restore", "rewind"}
    BY <1>16 DEF LoadState, RestoreState, RestoreHistory, persistVars
  <2> QED
    BY <1>3, <2>1 DEF Chained
<1>17. ASSUME NEW c \in Callers, Restore(c) PROVE Chained'
  BY <1>2, <1>16, <1>17 DEF Restore, LoadStatePanics
<1>18. ASSUME NEW s \in savers, AutoSave(s) PROVE Chained'
  BY <1>2, <1>5, <1>18 DEF AutoSave, SaveStatePanics
<1>19. ASSUME NEW c \in Callers, Transition(c) PROVE Chained'
  BY <1>12, <1>13, <1>14, <1>15, <1>19 DEF Transition
<1>20. CASE Restart
  BY <1>2, <1>20 DEF Restart
<1> QED
  BY <1>1, <1>6, <1>7, <1>8, <1>9, <1>17, <1>18, <1>19, <1>20 DEF Next

\* As long as one goroutine makes the calls, the recorded transitions join up
\* and end in the current state, for every table and every MaxHistorySize:
\* addToHistory drops only the oldest record, and a restart forgets the history
\* with the state.
THEOREM CallsChain == Spec => []HistoryIsChain
<1>1. Init => TypeOK /\ ChainInv
  BY TypeInit DEF Init, ChainInv, Chained
<1>2. TypeOK /\ ChainInv /\ [Next]_vars => (TypeOK /\ ChainInv)'
  BY TypeNext, ChainNext
<1>3. ChainInv => HistoryIsChain
  BY DEF ChainInv, Chained, HistoryIsChain
<1> QED
  BY <1>1, <1>2, <1>3, PTL DEF Spec
==================================================================================
