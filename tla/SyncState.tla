------------------------------ MODULE SyncState ------------------------------
(***************************************************************************)
(* The states of a sync operation and the transition table that            *)
(* NewSyncStateMachine installs (synckit/sync_state.go).                   *)
(***************************************************************************)

SyncStates == {"Idle", "Initializing", "Pushing", "Pulling",
               "ResolvingConflicts", "Completed", "Failed", "Cancelled"}

SyncIdle == "Idle"

IsTerminal(s) == s \in {"Completed", "Failed", "Cancelled"}

IsActive(s) == s \in {"Initializing", "Pushing", "Pulling", "ResolvingConflicts"}

CanAutoSync(s) == s = SyncIdle

SyncStateTransitionRules ==
  [Idle               |-> {"Initializing"},
   Initializing       |-> {"Pushing", "Pulling", "Failed", "Cancelled"},
   Pushing            |-> {"Pulling", "Completed", "Failed", "Cancelled"},
   Pulling            |-> {"Pushing", "ResolvingConflicts",
                           "Completed", "Failed", "Cancelled"},
   ResolvingConflicts |-> {"Completed", "Failed", "Cancelled"},
   Completed          |-> {"Idle"},
   Failed             |-> {"Idle"},
   Cancelled          |-> {"Idle"}]
==============================================================================
