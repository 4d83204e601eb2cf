-------------------------- MODULE TransportConnection --------------------------
(* The connection state of a stateful real-time manager                        *)
(* (synckit/stateful_realtime.go) on the transport state machine and its       *)
(* manager (statemachine/transport_states.go, transport_manager.go). The       *)
(* application enables, calls and closes; the health monitor and the        *)
(* reconnection goroutines it starts change the state on their own. A          *)
(* transition loads and validates the state, then stores the new one. The      *)
(* manager's OnTransition runs in a goroutine for every transition, so that    *)
(* two of them may run in the wrong order.                                     *)
EXTENDS Naturals, Sequences

CONSTANTS
  Reconnectors,  \* bound: reconnection goroutines at a time
  MaxPending,    \* bound: OnTransition goroutines that have not run
  MaxFlaps,      \* bound: changes of the connection
  MaxCalls       \* bound: calls of the application

ASSUME ConnectionAssumption == /\ {"app", "health"} \cap Reconnectors = {}
                               /\ {MaxPending, MaxFlaps, MaxCalls} \subseteq Nat

Actors == {"app", "health"} \cup Reconnectors

TransportStates ==
  {"disconnected", "connecting", "connected", "reconnecting", "failed", "shutting_down"}

\* NewTransportStateMachine
Rules ==
  [disconnected  |-> {"connecting", "shutting_down"},
   connecting    |-> {"connected", "failed", "disconnected", "shutting_down"},
   connected     |-> {"reconnecting", "disconnected", "failed", "shutting_down"},
   reconnecting  |-> {"connected", "failed", "disconnected", "shutting_down"},
   failed        |-> {"connecting", "shutting_down"},
   shutting_down |-> {}]

CanConnect(s) == s \in {"disconnected", "failed"}
CanReconnect(s) == s \in {"connected", "disconnected", "failed"}

VARIABLES
  state,      \* the machine's state
  actor,      \* where each actor is: [pc, to, ok, bad]
  pending,    \* the target states of the OnTransition goroutines that have not run
  hasError,   \* TransportStateManager.lastError # nil
  active,     \* realtimeSyncManager.notificationStop # nil
  link,       \* the notifier's connection
  flaps, calls

connectionVars == <<state, actor, pending, hasError, active, link, flaps, calls>>

Pcs == {"idle", "load", "store", "enable", "disable", "close", "spawn",
        "subscribe", "notifier", "wanted"}

ConnectionTypeOK ==
  /\ state \in TransportStates
  /\ actor \in [Actors -> [pc: Pcs, to: TransportStates, ok: Pcs, bad: Pcs]]
  /\ pending \in Seq(TransportStates) /\ Len(pending) <= MaxPending
  /\ {hasError, active, link} \subseteq BOOLEAN
  /\ flaps \in 0..MaxFlaps /\ calls \in 0..MaxCalls

At(pc) == [pc |-> pc, to |-> "disconnected", ok |-> "idle", bad |-> "idle"]

ConnectionInit ==
  /\ state = "disconnected"
  /\ actor = [a \in Actors |-> At("idle")]
  /\ pending = <<>>
  /\ hasError = FALSE /\ active = FALSE
  /\ link \in BOOLEAN
  /\ flaps = 0 /\ calls = 0

Goto(a, pc) == actor' = [actor EXCEPT ![a] = At(pc)]

\* Begin a transition; continue at ok when it succeeds and at bad when not.
Request(a, to, ok, bad) ==
  actor' = [actor EXCEPT ![a] = [pc |-> "load", to |-> to, ok |-> ok, bad |-> bad]]

(****************************************************************************)
(* TransitionTo...: the manager's guard, the machine's rules, the store.     *)
(****************************************************************************)
Permitted(from, to) ==
  /\ to \in Rules[from]
  /\ to = "connecting" => CanConnect(from)
  /\ to = "reconnecting" => CanReconnect(from)

Load(a) ==
  /\ actor[a].pc = "load"
  /\ IF Permitted(state, actor[a].to)
     THEN actor' = [actor EXCEPT ![a].pc = "store"]
     ELSE Goto(a, actor[a].bad)
  /\ UNCHANGED <<state, pending, hasError, active, link, flaps, calls>>

Store(a) ==
  /\ actor[a].pc = "store"
  /\ Len(pending) < MaxPending
  /\ state' = actor[a].to
  /\ pending' = Append(pending, actor[a].to)
  /\ Goto(a, actor[a].ok)
  /\ UNCHANGED <<hasError, active, link, flaps, calls>>

LastError(to) == CASE to = "failed" -> TRUE
                   [] to \in {"connecting", "connected", "disconnected"} -> FALSE
                   [] OTHER -> hasError

\* TransportStateManager.OnTransition, the i-th of those that are due
OnTransition(i) ==
  /\ pending' = SubSeq(pending, 1, i - 1) \o SubSeq(pending, i + 1, Len(pending))
  /\ hasError' = LastError(pending[i])
  /\ UNCHANGED <<state, actor, active, link, flaps, calls>>

(****************************************************************************)
(* Calls of the application.                                                 *)
(****************************************************************************)
EnhancedEnableRealtime ==
  /\ actor["app"].pc = "idle" /\ calls < MaxCalls
  /\ CanConnect(state)
  /\ calls' = calls + 1
  /\ Request("app", "connecting", "enable", "idle")
  /\ UNCHANGED <<state, pending, hasError, active, link, flaps>>

\* EnableRealtime returns an error when it is already active.
EnableRealtime ==
  /\ actor["app"].pc = "enable"
  /\ active' = TRUE
  /\ Request("app", IF active THEN "failed" ELSE "connected", "idle", "idle")
  /\ UNCHANGED <<state, pending, hasError, link, flaps, calls>>

\* A failed transition is logged, and the call goes on.
EnhancedDisableRealtime ==
  /\ actor["app"].pc = "idle" /\ calls < MaxCalls
  /\ calls' = calls + 1
  /\ Request("app", "shutting_down", "disable", "disable")
  /\ UNCHANGED <<state, pending, hasError, active, link, flaps>>

DisableRealtime ==
  /\ actor["app"].pc = "disable"
  /\ active' = FALSE
  /\ IF active THEN Request("app", "disconnected", "idle", "idle")
               ELSE Goto("app", "idle")
  /\ UNCHANGED <<state, pending, hasError, link, flaps, calls>>

EnhancedClose ==
  /\ actor["app"].pc = "idle" /\ calls < MaxCalls
  /\ calls' = calls + 1
  /\ IF state # "shutting_down"
     THEN Request("app", "shutting_down", "close", "close")
     ELSE Goto("app", "close")
  /\ UNCHANGED <<state, pending, hasError, active, link, flaps>>

\* The base Close: it ignores the error of DisableRealtime.
CloseBase ==
  /\ actor["app"].pc = "close"
  /\ active' = FALSE
  /\ Goto("app", "idle")
  /\ UNCHANGED <<state, pending, hasError, link, flaps, calls>>

LinkChanges ==
  /\ flaps < MaxFlaps /\ flaps' = flaps + 1
  /\ link' = ~link
  /\ UNCHANGED <<state, actor, pending, hasError, active, calls>>

(****************************************************************************)
(* MonitorTransportHealth and attemptReconnection.                           *)
(****************************************************************************)
\* Mutant of ReadState: it only looks for a lost connection.
ReadStateConnected ==
  /\ actor["health"].pc = "idle"
  /\ state = "connected" /\ Goto("health", "notifier")
  /\ UNCHANGED <<state, pending, hasError, active, link, flaps, calls>>

\* performHealthCheck reads the state; the rest goes by what it was.
ReadState ==
  /\ actor["health"].pc = "idle"
  /\ \/ state = "connected" /\ Goto("health", "notifier")
     \/ state \in {"disconnected", "failed"} /\ Goto("health", "wanted")
  /\ UNCHANGED <<state, pending, hasError, active, link, flaps, calls>>

\* It was connected: is the notifier?
AskNotifier ==
  /\ actor["health"].pc = "notifier"
  /\ IF link THEN Goto("health", "idle")
     ELSE Request("health", "reconnecting", "spawn", "idle")
  /\ UNCHANGED <<state, pending, hasError, active, link, flaps, calls>>

\* It was down: is the realtime sync active?
AskWanted ==
  /\ actor["health"].pc = "wanted"
  /\ Goto("health", IF active THEN "spawn" ELSE "idle")
  /\ UNCHANGED <<state, pending, hasError, active, link, flaps, calls>>

PerformHealthCheck == ReadState \/ AskNotifier \/ AskWanted

\* go attemptReconnection: it connects first when the state allows it
Spawn(r) ==
  /\ actor["health"].pc = "spawn" /\ actor[r].pc = "idle"
  /\ actor' = [actor EXCEPT
       !["health"] = At("idle"),
       ![r] = IF CanConnect(state)
              THEN [pc |-> "load", to |-> "connecting", ok |-> "subscribe", bad |-> "idle"]
              ELSE At("subscribe")]
  /\ UNCHANGED <<state, pending, hasError, active, link, flaps, calls>>

\* Mutant of Resubscribe: a failed attempt just returns.
ResubscribeOrReturn(r) ==
  /\ actor[r].pc = "subscribe"
  /\ IF link THEN Request(r, "connected", "idle", "idle") ELSE Goto(r, "idle")
  /\ UNCHANGED <<state, pending, hasError, active, link, flaps, calls>>

\* Unsubscribe and Subscribe, and the transition to their result
Resubscribe(r) ==
  /\ actor[r].pc = "subscribe"
  /\ Request(r, IF link THEN "connected" ELSE "failed", "idle", "idle")
  /\ UNCHANGED <<state, pending, hasError, active, link, flaps, calls>>

AppStep == EnableRealtime \/ DisableRealtime \/ CloseBase
ReconnectStep == \E r \in Reconnectors : Spawn(r) \/ Resubscribe(r)
Transition(a) == Load(a) \/ Store(a)

ConnectionNext ==
  \/ EnhancedEnableRealtime \/ EnhancedDisableRealtime \/ EnhancedClose \/ AppStep
  \/ LinkChanges
  \/ PerformHealthCheck \/ ReconnectStep
  \/ \E a \in Actors : Transition(a)
  \/ \E i \in DOMAIN pending : OnTransition(i)

ConnectionSpec == ConnectionInit /\ [][ConnectionNext]_connectionVars

\* Goroutines run, the monitor ticks, Subscribe returns; the application need
\* not call anything, but its calls return.
FairConnectionSpec ==
  /\ ConnectionSpec
  /\ WF_connectionVars(AppStep) /\ WF_connectionVars(PerformHealthCheck)
  /\ \A a \in Actors : WF_connectionVars(Transition(a))
  /\ \A r \in Reconnectors : WF_connectionVars(Resubscribe(r))
  /\ WF_connectionVars(\E r \in Reconnectors : Spawn(r))
  /\ WF_connectionVars(\E i \in DOMAIN pending : OnTransition(i))

(****************************************************************************)
(* Properties.                                                               *)
(****************************************************************************)
\* The states that the health check passes over always have somebody at work
\* who will leave them (performHealthCheck "Skip health checks for terminal or
\* transitioning states").
TransitioningIsOwned ==
  state \in {"connecting", "reconnecting"} =>
    \E a \in Actors : actor[a].pc \notin {"idle", "notifier", "wanted"}

\* The strengthening that makes TransitioningIsOwned inductive: somebody at work
\* is about to connect, or to store what the rules let follow, and whoever is about
\* to store a transitioning state goes on to connect.
Transitioning == {"connecting", "reconnecting"}
Connecting == {"enable", "spawn", "subscribe"}
Owner(a) ==
  \/ actor[a].pc \in Connecting
  \/ /\ actor[a].pc \in {"load", "store"}
     /\ actor[a].to \in {"connected", "failed", "disconnected", "shutting_down"}
OwnerInv ==
  /\ \A a \in Actors : (actor[a].pc \in {"load", "store"} /\ actor[a].to \in Transitioning)
                         => actor[a].ok \in Connecting
  /\ state \in Transitioning => \E a \in Actors : Owner(a)

\* While real-time is active and the connection stays up, the state becomes
\* connected, whatever happened before (MonitorTransportHealth "manages
\* reconnections").
Heals ==
  (active /\ link) ~> (state \in {"connected", "shutting_down"} \/ ~active \/ ~link)
================================================================================
