------------------------------ MODULE Supervisors -------------------------------
(* The background goroutines that keep a client synchronised, side by side: the  *)
(* auto-sync loops of the sync manager (AutoSync) and the health monitor of the  *)
(* stateful real-time manager with its reconnections (TransportConnection).      *)
EXTENDS TransportConnection

CONSTANTS Contexts, Handlers, User, MaxStarts, NoContext, MaxStartCalls

VARIABLES
  autoSyncCancel, managerClosed, ctxDone, cancelled, parent, loopPc, idle, healthy,
  subscribers, due, heard, starts, startCalls

autoVars == <<autoSyncCancel, managerClosed, ctxDone, cancelled, parent, loopPc, idle,
              healthy, subscribers, due, heard, starts, startCalls>>

Manager == INSTANCE AutoSync WITH
             MaxCalls <- MaxStartCalls, closed <- managerClosed, pc <- loopPc, calls <- startCalls

ASSUME AutoAssumption == User \notin Manager!Loops /\ {MaxStarts, MaxStartCalls} \subseteq Nat

\* AutoSync: at most one goroutine is live, it is the one that can be stopped, and
\* nothing else makes StartAutoSync pass.
OneLiveLoop == Manager!OneLiveLoop
\* AutoSync: a goroutine whose context is done ends.
StoppedLoopsExit == Manager!StoppedLoopsExit
\* AutoSync: after Close nothing goes on for ever.
ClosedComesToRest == Manager!ClosedComesToRest
================================================================================
