------------------------------ MODULE StateTimeout ------------------------------
(* Timeouts of states (synckit/statemachine/timeout.go) on the state machine of  *)
(* machine.go: the application and the monitor goroutines of timeouts that have  *)
(* expired make transitions, each in the steps of TransitionWithContext; every   *)
(* transition starts an observer goroutine, which restarts the timeout for the   *)
(* state it then finds. Durations are left out: a timer may fire at any time.    *)
EXTENDS Naturals, Sequences, FiniteSets

CONSTANTS
  States, InitialState, TransitionRules,
  Callers,        \* goroutines of the application that make transitions
  Timed,          \* the states with a timeout at the start
  Actions,        \* the values of TimeoutConfig.TimeoutAction to explore
  TargetState,    \* TimeoutConfig.TargetState
  FailureStates,  \* the failure states that handleTimeoutFail finds in T, in its order
  MaxMonitors, MaxCalls, MaxChanges  \* bounds of the exploration

VARIABLES
  action,    \* TimeoutConfig.TimeoutAction
  state,
  run,       \* goroutine -> [pc, to], in TransitionWithContext or waiting for its timer
  timeouts,  \* the states with a timeout
  of,        \* monitor -> the state it was started for
  current,   \* the monitor whose CancelFunc is kept; 0 when there is none
  cancelled, \* the monitors whose context is cancelled
  inbox,     \* observer goroutines that have not run yet
  told,      \* the states onTimeout was called for since they were last entered
  calls, changes

vars == <<action, state, run, timeouts, of, current, cancelled, inbox, told, calls, changes>>

Monitors == 1..MaxMonitors
Started == {m \in Monitors : run[m].pc # "none"}

Contains(from, to) == from \in DOMAIN TransitionRules /\ to \in TransitionRules[from]

Init ==
  /\ action \in Actions
  /\ state = InitialState
  /\ run = [p \in Callers \cup Monitors |-> [pc |-> IF p \in Callers THEN "idle" ELSE "none", to |-> InitialState]]
  /\ timeouts = Timed
  /\ of = [m \in Monitors |-> InitialState]
  /\ current = 0 /\ cancelled = {} /\ inbox = 0 /\ told = {}
  /\ calls = 0 /\ changes = 0

--------------------------------------------------------------------------------
(* The timeout handler.                                                         *)

\* StartTimeout, under the handler's lock.
StartTimeout ==
  /\ cancelled' = cancelled \cup ({current} \ {0})
  /\ IF state \in timeouts
     THEN \E m \in Monitors :
            /\ m = Cardinality(Started) + 1
            /\ run' = [run EXCEPT ![m].pc = "wait"]
            /\ of' = [of EXCEPT ![m] = state]
            /\ current' = m
     ELSE current' = 0 /\ UNCHANGED <<run, of>>

\* Mutant of OnTransition: a timeout that is pending is left alone.
OnTransitionIfNone ==
  /\ inbox > 0 /\ inbox' = inbox - 1
  /\ IF current = 0 THEN StartTimeout ELSE UNCHANGED <<run, of, current, cancelled>>
  /\ UNCHANGED <<action, state, timeouts, told, calls, changes>>

\* TimeoutObserver.OnTransition, in a goroutine of its own.
OnTransition ==
  /\ inbox > 0 /\ inbox' = inbox - 1
  /\ StartTimeout
  /\ UNCHANGED <<action, state, timeouts, told, calls, changes>>

\* The application starts the timeout of the state the machine is in.
AppStarts ==
  /\ changes < MaxChanges /\ changes' = changes + 1
  /\ StartTimeout
  /\ UNCHANGED <<action, state, timeouts, inbox, told, calls>>

StopTimeout ==
  /\ changes < MaxChanges /\ changes' = changes + 1
  /\ cancelled' = cancelled \cup ({current} \ {0}) /\ current' = 0
  /\ UNCHANGED <<action, state, run, timeouts, of, inbox, told, calls>>

\* SetTimeout and RemoveTimeout; the timeout that runs is not touched.
SetTimeout(s) ==
  /\ changes < MaxChanges /\ changes' = changes + 1
  /\ timeouts' = timeouts \cup {s}
  /\ UNCHANGED <<action, state, run, of, current, cancelled, inbox, told, calls>>

RemoveTimeout(s) ==
  /\ changes < MaxChanges /\ changes' = changes + 1
  /\ timeouts' = timeouts \ {s}
  /\ UNCHANGED <<action, state, run, of, current, cancelled, inbox, told, calls>>

\* monitorTimeout: a cancelled context is seen, unless the timer has fired too
\* and the select takes that.
MonitorEnds(m) ==
  /\ run[m].pc = "wait" /\ m \in cancelled
  /\ run' = [run EXCEPT ![m].pc = "done"]
  /\ UNCHANGED <<action, state, timeouts, of, current, cancelled, inbox, told, calls, changes>>

\* The states that handleTimeoutFail may transition to.
Failures == {i \in DOMAIN FailureStates : Contains(state, FailureStates[i])}

\* handleTimeout: the callback, then the action, whatever the state is by now.
\* handleTimeoutFail looks for a state that can be entered first.
HandleTimeout(m) ==
  /\ run[m].pc = "wait"
  /\ told' = told \cup {of[m]}
  /\ run' = [run EXCEPT ![m] =
       CASE action = "transition" -> [pc |-> "check", to |-> TargetState]
         [] action = "reset"      -> [pc |-> "check", to |-> InitialState]
         [] action = "fail" /\ Failures # {} ->
              [pc |-> "check", to |-> FailureStates[CHOOSE i \in Failures : \A j \in Failures : i <= j]]
         [] OTHER -> [pc |-> "done", to |-> InitialState]]
  /\ UNCHANGED <<action, state, timeouts, of, current, cancelled, inbox, calls, changes>>

--------------------------------------------------------------------------------
(* TransitionWithContext, of the application and of an expired timeout.         *)

Begin(c, to) ==
  /\ run[c].pc = "idle" /\ calls < MaxCalls /\ calls' = calls + 1
  /\ run' = [run EXCEPT ![c] = [pc |-> "check", to |-> to]]
  /\ UNCHANGED <<action, state, timeouts, of, current, cancelled, inbox, told, changes>>

Ended(p) == IF p \in Callers THEN "idle" ELSE "done"

Check(p) ==
  /\ run[p].pc = "check"
  /\ run' = [run EXCEPT ![p].pc = IF Contains(state, run[p].to) THEN "store" ELSE Ended(p)]
  /\ UNCHANGED <<action, state, timeouts, of, current, cancelled, inbox, told, calls, changes>>

StoreState(p) ==
  /\ run[p].pc = "store"
  /\ state' = run[p].to
  /\ told' = told \ {run[p].to}
  /\ run' = [run EXCEPT ![p].pc = "notify"]
  /\ UNCHANGED <<action, timeouts, of, current, cancelled, inbox, calls, changes>>

NotifyTransition(p) ==
  /\ run[p].pc = "notify"
  /\ inbox' = inbox + 1
  /\ run' = [run EXCEPT ![p].pc = Ended(p)]
  /\ UNCHANGED <<action, state, timeouts, of, current, cancelled, told, calls, changes>>

Transition(p) == Check(p) \/ StoreState(p) \/ NotifyTransition(p)

Monitor(m) == MonitorEnds(m) \/ HandleTimeout(m) \/ Transition(m)

Next ==
  \/ \E c \in Callers : Transition(c) \/ \E to \in States : Begin(c, to)
  \/ \E m \in Monitors : Monitor(m)
  \/ OnTransition \/ AppStarts \/ StopTimeout
  \/ \E s \in States : SetTimeout(s) \/ RemoveTimeout(s)

Spec == Init /\ [][Next]_vars

\* Goroutines that can run do, and timers that are not stopped fire.
FairSpec ==
  /\ Spec
  /\ WF_vars(OnTransition)
  /\ \A c \in Callers : WF_vars(Transition(c))
  /\ \A m \in Monitors : WF_vars(Monitor(m))

--------------------------------------------------------------------------------
(* Properties.                                                                  *)

Settled == inbox = 0 /\ \A p \in Callers \cup Monitors : run[p].pc # "notify"

\* Whatever order transitions, expired timeouts and observer goroutines run in:
\* once every observer has run, a timeout that is still pending and was not
\* cancelled is the handler's own and belongs to the state the machine is in.
TimeoutFitsState ==
  Settled => \A m \in Monitors : (run[m].pc = "wait" /\ m \notin cancelled) =>
               m = current /\ of[m] = state

\* A machine that was brought into a state with a timeout does not stay in it
\* unnoticed: it leaves the state or onTimeout is called for it, unless the
\* application changes or stops its timeouts (or the monitors are used up).
StuckIsNoticed ==
  \A s \in Timed :
    (state = s /\ calls > 0 /\ changes = 0)
      ~> (state # s \/ s \in told \/ changes > 0 \/ Started = Monitors)
================================================================================
