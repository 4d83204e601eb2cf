--------------------------- MODULE ValidatedState ---------------------------
(***************************************************************************)
(* What a state machine of synckit/statemachine promises its users: the    *)
(* state changes along the transition table as it stood when the call was  *)
(* validated, a restore brings back what was on the disk when it looked,   *)
(* and only states the machine was in get there.  Locks, goroutines,       *)
(* snapshots in flight and history are not visible here.                   *)
(***************************************************************************)
CONSTANTS States,           \* the comparable type T
          InitialState,     \* StateMachineConfig.InitialState
          TransitionRules   \* StateMachineConfig.TransitionRules

VARIABLES state,    \* the current state
          entered,  \* every state the machine has been in so far
          saved,    \* the persisted states: {} before the first save
          loaded,   \* the states read from there and not restored yet
          late      \* the targets allowed from a state that is gone

vars == <<state, entered, saved, loaded, late>>

Init == /\ state = InitialState
        /\ entered = {InitialState}
        /\ saved = {}
        /\ loaded = {}
        /\ late = {}

Successors == IF state \in DOMAIN TransitionRules THEN TransitionRules[state] ELSE {}

\* A call stores the state it was allowed to enter, perhaps too late; the calls
\* it overtakes had been allowed from the state it leaves, or were late already.
Step == /\ state' \in Successors \cup late
        /\ entered' = entered \cup {state'}
        /\ late' \subseteq late \cup Successors
        /\ UNCHANGED <<saved, loaded>>

Save == /\ \E s \in entered : saved' = {s}
        /\ UNCHANGED <<state, entered, loaded, late>>

Load == /\ loaded' = loaded \cup saved
        /\ UNCHANGED <<state, entered, saved, late>>

Restore == /\ state' \in loaded
           /\ loaded' \subseteq loaded
           /\ late' \subseteq late \cup Successors
           /\ UNCHANGED <<entered, saved>>

Crash == /\ state' = InitialState
         /\ loaded' = {}
         /\ late' = {}
         /\ UNCHANGED <<entered, saved>>

Next == Step \/ Save \/ Load \/ Restore \/ Crash

Spec == Init /\ [][Next]_vars
==============================================================================
