-------------------------------- MODULE Realtime --------------------------------
(* The real-time sync manager (synckit/realtime.go): the notification handler  *)
(* and the connection monitor that EnableRealtime starts, the fallback poller  *)
(* that either of them starts and stops, and DisableRealtime. A session is one *)
(* call of EnableRealtime: its context, its stop channel, its goroutines. The  *)
(* goroutines read the manager's current stop channel again in every loop.     *)
EXTENDS Naturals

CONSTANTS
  MaxSessions,    \* bound: calls of EnableRealtime
  MaxTickers,     \* bound: fallback tickers
  MaxFlaps,       \* bound: changes of the connection
  DisablePolling  \* RealtimeSyncOptions.DisablePolling

Sessions == 1..MaxSessions
Tickers == 1..MaxTickers

VARIABLES
  notificationStop,  \* 0, or the session whose stop channel it is
  ctxDone,           \* sessions whose context is cancelled
  fallbackTicker,    \* 0, or the ticker
  stopped,           \* tickers that have been stopped
  connected,         \* connectionStatus.Connected
  link,              \* the notifier's connection (IsConnected)
  handler, monitor,  \* goroutines of each session: [pc, stop], monitor also [up]
  poller,            \* goroutine of each ticker: [pc, ctx, stop, tick]
  sessions, flaps,
  panicked           \* a goroutine has dereferenced nil: the process is gone

vars == <<notificationStop, ctxDone, fallbackTicker, stopped, connected, link,
          handler, monitor, poller, sessions, flaps, panicked>>
pollVars == <<fallbackTicker, stopped, poller>>

NoPoller == [pc |-> "none", ctx |-> 0, stop |-> 0, tick |-> 0]

TypeOK ==
  /\ notificationStop \in 0..MaxSessions
  /\ ctxDone \subseteq Sessions
  /\ fallbackTicker \in 0..MaxTickers
  /\ stopped \subseteq Tickers
  /\ connected \in BOOLEAN /\ link \in BOOLEAN
  /\ handler \in [Sessions ->
       [pc: {"none", "loop", "check", "subscribe", "failed", "fallback", "again",
             "wait", "succeeded", "exit"}, stop: 0..MaxSessions]]
  /\ monitor \in [Sessions ->
       [pc: {"none", "loop", "wait", "compare", "switch", "exit"},
        stop: 0..MaxSessions, up: BOOLEAN]]
  /\ poller \in [Tickers ->
       [pc: {"none", "loop", "wait", "exit"}, ctx: 0..MaxSessions,
        stop: 0..MaxSessions, tick: 0..MaxTickers]]
  /\ sessions \in 0..MaxSessions /\ flaps \in 0..MaxFlaps
  /\ panicked \in BOOLEAN

Init ==
  /\ notificationStop = 0 /\ ctxDone = {}
  /\ fallbackTicker = 0 /\ stopped = {}
  /\ connected = FALSE /\ link \in BOOLEAN
  /\ handler = [s \in Sessions |-> [pc |-> "none", stop |-> 0]]
  /\ monitor = [s \in Sessions |-> [pc |-> "none", stop |-> 0, up |-> FALSE]]
  /\ poller = [k \in Tickers |-> NoPoller]
  /\ sessions = 0 /\ flaps = 0
  /\ panicked = FALSE

\* A stop channel is closed when DisableRealtime has replaced it.
Closed(stop) == stop # notificationStop

(****************************************************************************)
(* The fallback poller.                                                      *)
(****************************************************************************)
Unused == {k \in Tickers : poller[k].pc = "none"}
NewTicker == CHOOSE k \in Unused : \A j \in Unused : k <= j

\* startFallbackPolling(ctx), with the context of session s
StartFallbackPolling(s) ==
  IF fallbackTicker # 0 \/ DisablePolling
  THEN UNCHANGED pollVars
  ELSE /\ Unused # {}
       /\ fallbackTicker' = NewTicker
       /\ poller' = [poller EXCEPT ![NewTicker] = [NoPoller EXCEPT !.pc = "loop", !.ctx = s]]
       /\ UNCHANGED stopped

\* Mutant of StopFallbackPolling: the ticker is kept.
PauseFallbackPolling ==
  /\ stopped' = IF fallbackTicker = 0 THEN stopped ELSE stopped \cup {fallbackTicker}
  /\ UNCHANGED <<fallbackTicker, poller>>

\* stopFallbackPolling: the goroutine is not told; its ticker goes silent.
StopFallbackPolling ==
  /\ stopped' = IF fallbackTicker = 0 THEN stopped ELSE stopped \cup {fallbackTicker}
  /\ fallbackTicker' = 0
  /\ UNCHANGED poller

\* The head of the poller's loop reads the ticker's channel before it looks at
\* the stop channel; both may have become nil.
PollerLoops(k) ==
  /\ poller[k].pc = "loop"
  /\ IF fallbackTicker = 0
     THEN panicked' = TRUE /\ UNCHANGED <<poller, stopped>>
     ELSE /\ UNCHANGED panicked
          /\ IF notificationStop = 0
             THEN /\ poller' = [poller EXCEPT ![k].pc = "exit"]
                  /\ stopped' = stopped \cup {k}
             ELSE /\ poller' = [poller EXCEPT ![k].pc = "wait", ![k].stop = notificationStop,
                                              ![k].tick = fallbackTicker]
                  /\ UNCHANGED stopped
  /\ UNCHANGED <<notificationStop, ctxDone, fallbackTicker, connected, link, handler,
                 monitor, sessions, flaps>>

PollerExits(k) ==
  /\ poller[k].pc = "wait"
  /\ poller[k].ctx \in ctxDone \/ Closed(poller[k].stop)
  /\ poller' = [poller EXCEPT ![k].pc = "exit"]
  /\ stopped' = stopped \cup {k}
  /\ UNCHANGED <<notificationStop, ctxDone, fallbackTicker, connected, link, handler,
                 monitor, sessions, flaps, panicked>>

\* A tick: when the connection is down a sync is started, in either case the
\* loop goes on.
PollerTicks(k) ==
  /\ poller[k].pc = "wait" /\ poller[k].tick \notin stopped
  /\ poller' = [poller EXCEPT ![k].pc = "loop"]
  /\ UNCHANGED <<notificationStop, ctxDone, fallbackTicker, stopped, connected, link,
                 handler, monitor, sessions, flaps, panicked>>

(****************************************************************************)
(* Calls of the application.                                                 *)
(****************************************************************************)
\* EnableRealtime: an error when a stop channel exists.
EnableRealtime ==
  /\ notificationStop = 0 /\ sessions < MaxSessions
  /\ sessions' = sessions + 1
  /\ notificationStop' = sessions + 1
  /\ handler' = [handler EXCEPT ![sessions + 1].pc = "loop"]
  /\ monitor' = [monitor EXCEPT ![sessions + 1].pc = "loop"]
  /\ UNCHANGED <<ctxDone, pollVars, connected, link, flaps, panicked>>

\* DisableRealtime: closes the channel, stops the ticker and unsubscribes. Close
\* calls it first.
DisableRealtime ==
  /\ notificationStop # 0
  /\ notificationStop' = 0
  /\ StopFallbackPolling
  /\ UNCHANGED <<ctxDone, connected, link, handler, monitor, sessions, flaps, panicked>>

CancelContext(s) ==
  /\ handler[s].pc # "none" /\ s \notin ctxDone
  /\ ctxDone' = ctxDone \cup {s}
  /\ UNCHANGED <<notificationStop, pollVars, connected, link, handler, monitor,
                 sessions, flaps, panicked>>

\* The connection is established or lost.
LinkChanges ==
  /\ flaps < MaxFlaps /\ flaps' = flaps + 1
  /\ link' = ~link
  /\ UNCHANGED <<notificationStop, ctxDone, pollVars, connected, handler, monitor,
                 sessions, panicked>>

(****************************************************************************)
(* handleNotifications                                                       *)
(****************************************************************************)
Go(s, pc) == handler' = [handler EXCEPT ![s].pc = pc]

\* Mutant of ReadStop: without the check for nil; a nil channel never closes.
ReadStopUnchecked(s, next) ==
  handler' = [handler EXCEPT ![s].pc = next, ![s].stop = notificationStop]

\* Read the manager's stop channel; nil: the goroutine ends.
ReadStop(s, next) ==
  IF notificationStop = 0
  THEN Go(s, "exit")
  ELSE handler' = [handler EXCEPT ![s].pc = next, ![s].stop = notificationStop]

HandlerLoops(s) ==
  /\ handler[s].pc = "loop"
  /\ ReadStop(s, "check")
  /\ UNCHANGED <<notificationStop, ctxDone, pollVars, connected, link, monitor,
                 sessions, flaps, panicked>>

Stopping(s) == s \in ctxDone \/ Closed(handler[s].stop)

HandlerChecks(s) ==
  /\ handler[s].pc = "check"
  /\ Go(s, IF Stopping(s) THEN "exit" ELSE "subscribe")
  /\ UNCHANGED <<notificationStop, ctxDone, pollVars, connected, link, monitor,
                 sessions, flaps, panicked>>

\* A notification arrives while the handler is subscribed. It updates the status
\* and starts a sync in a goroutine of its own.
Notification(s) ==
  /\ handler[s].pc = "subscribe" /\ link
  /\ connected' = TRUE
  /\ UNCHANGED <<notificationStop, ctxDone, pollVars, link, handler, monitor,
                 sessions, flaps, panicked>>

\* Subscribe returns: an error when there is no connection.
SubscribeReturns(s) ==
  /\ handler[s].pc = "subscribe"
  /\ Go(s, IF link THEN "succeeded" ELSE "failed")
  /\ UNCHANGED <<notificationStop, ctxDone, pollVars, connected, link, monitor,
                 sessions, flaps, panicked>>

HandlerSucceeded(s) ==
  /\ handler[s].pc = "succeeded"
  /\ StopFallbackPolling
  /\ Go(s, "loop")
  /\ UNCHANGED <<notificationStop, ctxDone, connected, link, monitor, sessions, flaps,
                 panicked>>

HandlerFailed(s) ==
  /\ handler[s].pc = "failed"
  /\ connected' = FALSE
  /\ Go(s, "fallback")
  /\ UNCHANGED <<notificationStop, ctxDone, pollVars, link, monitor, sessions, flaps,
                 panicked>>

HandlerFallsBack(s) ==
  /\ handler[s].pc = "fallback"
  /\ StartFallbackPolling(s)
  /\ Go(s, "again")
  /\ UNCHANGED <<notificationStop, ctxDone, connected, link, monitor, sessions, flaps,
                 panicked>>

HandlerLooksAgain(s) ==
  /\ handler[s].pc = "again"
  /\ ReadStop(s, "wait")
  /\ UNCHANGED <<notificationStop, ctxDone, pollVars, connected, link, monitor,
                 sessions, flaps, panicked>>

\* The select with the backoff delay.
HandlerExits(s) ==
  /\ handler[s].pc = "wait" /\ Stopping(s)
  /\ Go(s, "exit")
  /\ UNCHANGED <<notificationStop, ctxDone, pollVars, connected, link, monitor,
                 sessions, flaps, panicked>>

HandlerRetries(s) ==
  /\ handler[s].pc = "wait"
  /\ Go(s, "loop")
  /\ UNCHANGED <<notificationStop, ctxDone, pollVars, connected, link, monitor,
                 sessions, flaps, panicked>>

(****************************************************************************)
(* monitorConnection                                                         *)
(****************************************************************************)
MonitorLoops(s) ==
  /\ monitor[s].pc = "loop"
  /\ monitor' = IF notificationStop = 0
                THEN [monitor EXCEPT ![s].pc = "exit"]
                ELSE [monitor EXCEPT ![s].pc = "wait", ![s].stop = notificationStop]
  /\ UNCHANGED <<notificationStop, ctxDone, pollVars, connected, link, handler,
                 sessions, flaps, panicked>>

MonitorExits(s) ==
  /\ monitor[s].pc = "wait"
  /\ s \in ctxDone \/ Closed(monitor[s].stop)
  /\ monitor' = [monitor EXCEPT ![s].pc = "exit"]
  /\ UNCHANGED <<notificationStop, ctxDone, pollVars, connected, link, handler,
                 sessions, flaps, panicked>>

MonitorTicks(s) ==
  /\ monitor[s].pc = "wait"
  /\ monitor' = [monitor EXCEPT ![s].pc = "compare", ![s].up = link]
  /\ UNCHANGED <<notificationStop, ctxDone, pollVars, connected, link, handler,
                 sessions, flaps, panicked>>

MonitorCompares(s) ==
  /\ monitor[s].pc = "compare"
  /\ IF connected = monitor[s].up
     THEN monitor' = [monitor EXCEPT ![s].pc = "loop"] /\ UNCHANGED connected
     ELSE monitor' = [monitor EXCEPT ![s].pc = "switch"] /\ connected' = monitor[s].up
  /\ UNCHANGED <<notificationStop, ctxDone, pollVars, link, handler, sessions, flaps,
                 panicked>>

MonitorSwitches(s) ==
  /\ monitor[s].pc = "switch"
  /\ IF monitor[s].up THEN StopFallbackPolling ELSE StartFallbackPolling(s)
  /\ monitor' = [monitor EXCEPT ![s].pc = "loop"]
  /\ UNCHANGED <<notificationStop, ctxDone, connected, link, handler, sessions, flaps,
                 panicked>>

HandlerStep(s) ==
  \/ HandlerLoops(s) \/ HandlerChecks(s) \/ SubscribeReturns(s)
  \/ HandlerSucceeded(s) \/ HandlerFailed(s) \/ HandlerFallsBack(s)
  \/ HandlerLooksAgain(s) \/ HandlerRetries(s)
MonitorStep(s) ==
  MonitorLoops(s) \/ MonitorTicks(s) \/ MonitorCompares(s) \/ MonitorSwitches(s)
PollerStep(k) == PollerLoops(k) \/ PollerTicks(k)

Next ==
  /\ ~panicked
  /\ \/ EnableRealtime \/ DisableRealtime \/ LinkChanges
     \/ \E s \in Sessions : CancelContext(s)
     \/ \E s \in Sessions : HandlerStep(s) \/ HandlerExits(s) \/ Notification(s)
     \/ \E s \in Sessions : MonitorStep(s) \/ MonitorExits(s)
     \/ \E k \in Tickers : PollerStep(k) \/ PollerExits(k)

Spec == Init /\ [][Next]_vars

\* Goroutines are scheduled, timers fire and Subscribe returns. A select with a
\* done context or closed channel and a tick picks one at random, hence the
\* strong fairness of the exits.
FairSpec ==
  /\ Spec
  /\ \A s \in Sessions : /\ WF_vars(~panicked /\ HandlerStep(s))
                         /\ WF_vars(~panicked /\ MonitorStep(s))
                         /\ SF_vars(~panicked /\ HandlerExits(s))
                         /\ SF_vars(~panicked /\ MonitorExits(s))
  /\ \A k \in Tickers : /\ WF_vars(~panicked /\ PollerStep(k))
                        /\ SF_vars(~panicked /\ PollerExits(k))

(****************************************************************************)
(* Properties.                                                               *)
(****************************************************************************)
Runs(pc) == pc \notin {"none", "exit"}
Active == notificationStop # 0 /\ notificationStop \notin ctxDone
Polling == \E k \in Tickers : Runs(poller[k].pc) /\ fallbackTicker # 0
                              /\ fallbackTicker \notin stopped

\* A ticker that the manager holds while real-time is active has a goroutine:
\* otherwise startFallbackPolling believes that polling runs, and nobody polls.
TickerHasPoller ==
  Active /\ fallbackTicker # 0 => \E k \in Tickers : Runs(poller[k].pc)

\* A goroutine of the poller never dereferences a nil ticker
\* ("FIXED: Check stop channel under lock to avoid race").
NoPanic == ~panicked

\* While real-time is active and the connection stays down, the manager polls
\* (RealtimeSyncOptions.FallbackInterval); while it stays up, polling ends (the
\* success branch of handleNotifications, monitorConnection).
PollingFollowsConnection ==
  /\ (Active /\ ~link) ~> (Polling \/ DisablePolling \/ link \/ ~Active \/ panicked)
  /\ (Active /\ link) ~> (fallbackTicker = 0 \/ ~link \/ ~Active \/ panicked)

\* After DisableRealtime all goroutines end, unless real-time is enabled again,
\* whose stop channel they would then wait for (DisableRealtime "stops real-time
\* notifications").
DisabledSessionsEnd ==
  (sessions > 0 /\ notificationStop = 0) ~>
    \/ panicked \/ notificationStop # 0
    \/ \A s \in Sessions : ~Runs(handler[s].pc) /\ ~Runs(monitor[s].pc)

================================================================================
