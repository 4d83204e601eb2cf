-------------------------------- MODULE MemChan --------------------------------
(* The in-memory channel transport and its hub (transport/memchan/memchan.go):   *)
(* Push stores events and offers them to the channels of the subscribers, whose  *)
(* goroutines batch them for their handlers, while contexts end and the          *)
(* transport is closed. Broadcasts of the hub run concurrently.                  *)
EXTENDS Naturals, Sequences, FiniteSets

CONSTANTS
  Transports,      \* the transports of the hub
  Subs,            \* the subscriptions that may be made
  OnTransport,     \* subscription -> its transport
  Capacity,        \* of a subscriber's channel
  Broadcasters,    \* goroutines that call Broadcast
  MaxEvents        \* bound of the exploration

VARIABLES
  events,   \* transport -> the versions stored for Pull
  subs,     \* transport -> its subscriptions
  closed,   \* the transports that are closed
  chan,     \* subscription -> the events in its channel
  open,     \* the subscriptions whose channel is not closed
  batch,    \* subscription -> the events of its batch
  sub,      \* subscription -> "none", "running", "ending" or "ended"
  done,     \* the subscriptions whose context has ended
  handled,  \* subscription -> what its handler was given
  cast,     \* broadcaster -> [pc, event, seen, left]
  hub,      \* the events of the hub
  pushed    \* the versions made so far

mcVars == <<events, subs, closed, chan, open, batch, sub, done, handled, cast, hub, pushed>>

NoCast == [pc |-> "idle", event |-> 0, seen |-> <<>>, left |-> {}]

Init ==
  /\ events = [t \in Transports |-> <<>>] /\ subs = [t \in Transports |-> {}] /\ closed = {}
  /\ chan = [s \in Subs |-> <<>>] /\ open = {} /\ batch = [s \in Subs |-> <<>>]
  /\ sub = [s \in Subs |-> "none"] /\ done = {} /\ handled = [s \in Subs |-> <<>>]
  /\ cast = [b \in Broadcasters |-> NoCast] /\ hub = <<>> /\ pushed = 0

--------------------------------------------------------------------------------
(* The transport, every operation under its lock.                               *)

\* Push of one event: stored, and offered to every channel that has room.
Push(t, e) ==
  /\ events' = [events EXCEPT ![t] = Append(@, e)]
  /\ chan' = [s \in Subs |-> IF s \in subs[t] /\ Len(chan[s]) < Capacity THEN Append(chan[s], e) ELSE chan[s]]

\* Push whose context ends at the first subscriber: the event is stored already.
PushCancelled(t, e) ==
  /\ subs[t] # {}
  /\ events' = [events EXCEPT ![t] = Append(@, e)] /\ UNCHANGED chan

\* Subscribe, which does not look at closed.
Subscribe(s) ==
  /\ sub[s] = "none" /\ sub' = [sub EXCEPT ![s] = "running"]
  /\ subs' = [subs EXCEPT ![OnTransport[s]] = @ \cup {s}]
  /\ open' = open \cup {s}
  /\ UNCHANGED <<events, closed, chan, batch, done, handled, cast, hub, pushed>>

Close(t) ==
  /\ t \notin closed /\ closed' = closed \cup {t}
  /\ open' = open \ subs[t]
  /\ events' = [events EXCEPT ![t] = <<>>] /\ subs' = [subs EXCEPT ![t] = {}]
  /\ UNCHANGED <<chan, batch, sub, done, handled, cast, hub, pushed>>

ClearEvents(t) ==
  /\ events[t] # <<>> /\ events' = [events EXCEPT ![t] = <<>>]
  /\ UNCHANGED <<subs, closed, chan, open, batch, sub, done, handled, cast, hub, pushed>>

--------------------------------------------------------------------------------
(* The goroutine of a subscription.                                             *)

ContextEnds(s) ==
  /\ sub[s] = "running" /\ s \notin done /\ done' = done \cup {s}
  /\ UNCHANGED <<events, subs, closed, chan, open, batch, sub, handled, cast, hub, pushed>>

\* The handler gets the batch; its error is only printed.
Flushed(s) ==
  /\ handled' = [handled EXCEPT ![s] = @ \o batch[s]]
  /\ batch' = [batch EXCEPT ![s] = <<>>]

TakeEvent(s) ==
  /\ sub[s] = "running" /\ chan[s] # <<>>
  /\ batch' = [batch EXCEPT ![s] = Append(@, Head(chan[s]))]
  /\ chan' = [chan EXCEPT ![s] = Tail(@)]
  /\ UNCHANGED <<events, subs, closed, open, sub, done, handled, cast, hub, pushed>>

Tick(s) ==
  /\ sub[s] = "running" /\ batch[s] # <<>>
  /\ Flushed(s)
  /\ UNCHANGED <<events, subs, closed, chan, open, sub, done, cast, hub, pushed>>

\* Mutant of ChannelClosed: the goroutine ends without its last batch.
ChannelClosedReturns(s) ==
  /\ sub[s] = "running" /\ s \notin open /\ chan[s] = <<>>
  /\ sub' = [sub EXCEPT ![s] = "ending"]
  /\ UNCHANGED <<events, subs, closed, chan, open, batch, done, handled, cast, hub, pushed>>

\* A closed channel is read until it is empty; then the last batch is handled.
ChannelClosed(s) ==
  /\ sub[s] = "running" /\ s \notin open /\ chan[s] = <<>>
  /\ Flushed(s)
  /\ sub' = [sub EXCEPT ![s] = "ending"]
  /\ UNCHANGED <<events, subs, closed, chan, open, done, cast, hub, pushed>>

\* The context has ended: the batch is handled, what is in the channel is not.
SeesContext(s) ==
  /\ sub[s] = "running" /\ s \in done
  /\ Flushed(s)
  /\ sub' = [sub EXCEPT ![s] = "ending"]
  /\ UNCHANGED <<events, subs, closed, chan, open, done, cast, hub, pushed>>

\* The deferred clean-up, under the lock: a channel that Close has taken off
\* the list is not closed again.
CleanUp(s) ==
  /\ sub[s] = "ending" /\ sub' = [sub EXCEPT ![s] = "ended"]
  /\ subs' = [subs EXCEPT ![OnTransport[s]] = @ \ {s}]
  /\ open' = IF s \in subs[OnTransport[s]] THEN open \ {s} ELSE open
  /\ UNCHANGED <<events, closed, chan, batch, done, handled, cast, hub, pushed>>

Goroutine(s) == TakeEvent(s) \/ Tick(s) \/ ChannelClosed(s) \/ SeesContext(s) \/ CleanUp(s)

--------------------------------------------------------------------------------
(* The hub.                                                                     *)

\* Broadcast holds only the read lock: its append to the hub's events may be
\* computed from a slice that another Broadcast is appending to ...
Broadcast(b) ==
  /\ cast[b].pc = "idle" /\ pushed < MaxEvents /\ pushed' = pushed + 1
  /\ cast' = [cast EXCEPT ![b] = [pc |-> "append", event |-> pushed + 1, seen |-> hub, left |-> Transports]]
  /\ UNCHANGED <<events, subs, closed, chan, open, batch, sub, done, handled, hub>>

\* ... and replaces what that one wrote.
AppendHub(b) ==
  /\ cast[b].pc = "append" /\ cast' = [cast EXCEPT ![b].pc = "push"]
  /\ hub' = Append(cast[b].seen, cast[b].event)
  /\ UNCHANGED <<events, subs, closed, chan, open, batch, sub, done, handled, pushed>>

\* The transports in any order, until a Push fails.
PushNext(b, t) ==
  /\ cast[b].pc = "push" /\ t \in cast[b].left /\ t \notin closed
  /\ \/ Push(t, cast[b].event)
        /\ cast' = [cast EXCEPT ![b] = IF @.left = {t} THEN NoCast ELSE [@ EXCEPT !.left = @ \ {t}]]
     \/ PushCancelled(t, cast[b].event) /\ cast' = [cast EXCEPT ![b] = NoCast]
  /\ UNCHANGED <<subs, closed, open, batch, sub, done, handled, hub, pushed>>

PushFails(b, t) ==
  /\ cast[b].pc = "push" /\ t \in cast[b].left \cap closed
  /\ cast' = [cast EXCEPT ![b] = NoCast]
  /\ UNCHANGED <<events, subs, closed, chan, open, batch, sub, done, handled, hub, pushed>>

Next ==
  \/ \E s \in Subs : Subscribe(s) \/ ContextEnds(s) \/ Goroutine(s)
  \/ \E t \in Transports : Close(t) \/ ClearEvents(t)
  \/ \E b \in Broadcasters : Broadcast(b) \/ AppendHub(b) \/ \E t \in Transports : PushNext(b, t) \/ PushFails(b, t)

Spec == Init /\ [][Next]_mcVars

\* The goroutine of a subscription runs; its ticker does not starve it.
FairSpec == Spec /\ \A s \in Subs : WF_mcVars(Goroutine(s))

--------------------------------------------------------------------------------
(* Properties.                                                                  *)

InSeq(e, q) == \E i \in DOMAIN q : q[i] = e

\* An event that a subscriber's channel accepted reaches its handler, also when
\* the transport is closed while the event is in the channel or in the batch,
\* unless the subscriber's own context ends.
AcceptedIsHandled ==
  \A s \in Subs, e \in 1..MaxEvents :
    InSeq(e, chan[s]) ~> (InSeq(e, handled[s]) \/ s \in done)
================================================================================
