------------------------------- MODULE PgListener -------------------------------
(* Notifications of the PostgreSQL store (storage/postgres/listener.go): one     *)
(* goroutine of the application subscribes, unsubscribes and closes; listen      *)
(* loops, one for every Start, take notifications from the pq listener; the      *)
(* connection breaks and comes back, and its callback subscribes again. The pq   *)
(* listener and the trigger that notifies are external.                          *)
EXTENDS Naturals, Sequences, FiniteSets

CONSTANTS
  Aggregates,
  Handlers,     \* the handlers the application may subscribe
  MaxLoops, MaxCalls, MaxBreaks, MaxRefusals, MaxEvents, MaxErrors  \* bounds

VARIABLES
  subscriptions,  \* channel -> the handlers, in the order they were added
  open,           \* the channels the pq listener keeps open over reconnections
  connected,
  resub,          \* what the reconnection callback has still to do: ask for the channels
                  \* with handlers, and the channels to Listen to
  call,           \* the application's call: [op, channel, pc]
  closed,         \* "no", "closing" (closed is set) or "closed"
  loops,          \* the listen loops that run
  notify,         \* notifications the pq listener holds: [id, channel]
  heard,          \* handler -> the notifications it was called with
  spent           \* how much of the bounds is used

pgVars == <<subscriptions, open, connected, resub, call, closed, loops, notify, heard, spent>>

Global == "events_global"
Channels == Aggregates \cup {Global}
NoCall == [op |-> "none", channel |-> Global, pc |-> "none"]
Spend(what, max) == spent[what] < max /\ spent' = [spent EXCEPT ![what] = @ + 1]

Init ==
  /\ subscriptions = [c \in Channels |-> <<>>]
  /\ open = {} /\ connected = TRUE /\ resub = {} /\ call = NoCall /\ closed = "no"
  /\ loops = 0 /\ notify = <<>> /\ heard = [h \in Handlers |-> {}]
  /\ spent = [calls |-> 0, breaks |-> 0, refusals |-> 0, events |-> 0, errors |-> 0]

--------------------------------------------------------------------------------
(* The pq listener. Listen refuses a channel that is open already and, with no   *)
(* connection, keeps the channel and waits for one.                              *)

Refused(c) == c \in open \/ closed = "closed"

\* The connection breaks: what is notified until it is back is lost.
Disconnect ==
  /\ connected /\ closed # "closed"
  /\ connected' = FALSE
  /\ Spend("breaks", MaxBreaks)
  /\ UNCHANGED <<subscriptions, open, resub, call, closed, loops, notify, heard>>

\* The open channels are listened to again, and eventCallback is called.
Reconnected ==
  /\ ~connected /\ closed # "closed"
  /\ connected' = TRUE
  /\ resub' = {"GetChannels"}
  /\ UNCHANGED <<subscriptions, open, call, closed, loops, notify, heard, spent>>

\* resubscribeAllChannels takes the channels with handlers.
GetChannels ==
  /\ "GetChannels" \in resub
  /\ resub' = {c \in Channels : subscriptions[c] # <<>>}
  /\ UNCHANGED <<subscriptions, open, connected, call, closed, loops, notify, heard, spent>>

\* One round of resubscribeAllChannels; an error is only logged.
ResubscribeAllChannels(c) ==
  /\ connected /\ c \in resub
  /\ resub' = resub \ {c}
  /\ open' = IF Refused(c) THEN open ELSE open \cup {c}
  /\ UNCHANGED <<subscriptions, connected, call, closed, loops, notify, heard, spent>>

\* The trigger of the events table notifies the stream and the global channel.
Insert(a) ==
  LET to == SelectSeq(<<a, Global>>, LAMBDA c : c \in open) IN
  /\ connected /\ closed = "no"
  /\ Spend("events", MaxEvents)
  /\ notify' = notify \o [i \in DOMAIN to |-> [id |-> spent.events, channel |-> to[i]]]
  /\ UNCHANGED <<subscriptions, open, connected, resub, call, closed, loops, heard>>

--------------------------------------------------------------------------------
(* Calls of the application.                                                    *)

\* RealtimeEventStore.SubscribeTo...: Start begins another listen loop; then the
\* handler is added (SubscribeToEventType wraps it in a filter).
Subscribe(c, h) ==
  /\ call = NoCall /\ closed = "no" /\ Spend("calls", MaxCalls)
  /\ loops < MaxLoops /\ loops' = loops + 1
  /\ subscriptions' = [subscriptions EXCEPT ![c] = Append(@, h)]
  /\ call' = [op |-> "subscribe", channel |-> c, pc |-> "listen"]
  /\ UNCHANGED <<open, connected, resub, closed, notify, heard>>

\* Listen with a connection; the server may refuse it.
Listen ==
  /\ call.pc = "listen" /\ (connected \/ Refused(call.channel))
  /\ \/ Refused(call.channel) /\ call' = [call EXCEPT !.pc = "undo"] /\ UNCHANGED <<open, spent>>
     \/ connected /\ Spend("refusals", MaxRefusals) /\ call' = [call EXCEPT !.pc = "undo"] /\ UNCHANGED open
     \/ ~Refused(call.channel) /\ open' = open \cup {call.channel} /\ call' = NoCall /\ UNCHANGED spent
  /\ UNCHANGED <<subscriptions, connected, resub, closed, loops, notify, heard>>

\* Listen without one: the channel is kept and the call waits.
ListenWaits ==
  /\ call.pc = "listen" /\ ~connected /\ ~Refused(call.channel)
  /\ open' = open \cup {call.channel}
  /\ call' = [call EXCEPT !.pc = "wait"]
  /\ UNCHANGED <<subscriptions, connected, resub, closed, loops, notify, heard, spent>>

ListenReturns ==
  /\ call.pc = "wait" /\ connected
  /\ call' = NoCall
  /\ UNCHANGED <<subscriptions, open, connected, resub, closed, loops, notify, heard, spent>>

\* Mutant of Undo: the handlers of a channel that could not be listened to stay.
UndoNothing ==
  /\ call.pc = "undo" /\ call' = NoCall
  /\ UNCHANGED <<subscriptions, open, connected, resub, closed, loops, notify, heard, spent>>

\* The error path of the subscription: all handlers of the channel are removed.
Undo ==
  /\ call.pc = "undo" /\ call' = NoCall
  /\ subscriptions' = [subscriptions EXCEPT ![call.channel] = <<>>]
  /\ UNCHANGED <<open, connected, resub, closed, loops, notify, heard, spent>>

\* UnsubscribeFromStream and UnsubscribeFromAll: the handlers go first ...
Unsubscribe(c) ==
  /\ call = NoCall /\ Spend("calls", MaxCalls)
  /\ subscriptions' = [subscriptions EXCEPT ![c] = <<>>]
  /\ call' = [op |-> "unsubscribe", channel |-> c, pc |-> "unlisten"]
  /\ UNCHANGED <<open, connected, resub, closed, loops, notify, heard>>

\* ... then the channel, if it is open.
Unlisten ==
  /\ call.pc = "unlisten" /\ call' = NoCall
  /\ open' = open \ {call.channel}
  /\ UNCHANGED <<subscriptions, connected, resub, closed, loops, notify, heard, spent>>

\* Close: the flag and done, then the pq listener.
Close ==
  /\ call = NoCall /\ closed = "no" /\ Spend("calls", MaxCalls)
  /\ closed' = "closing"
  /\ UNCHANGED <<subscriptions, open, connected, resub, call, loops, notify, heard>>

CloseListener ==
  /\ closed = "closing"
  /\ closed' = "closed" /\ connected' = FALSE /\ notify' = <<>>
  /\ UNCHANGED <<subscriptions, open, resub, call, loops, heard, spent>>

--------------------------------------------------------------------------------
(* The listen loops. They share the channel of the pq listener: whichever is    *)
(* free takes the next notification.                                            *)

\* HandleNotification: the handlers in order, until one returns an error.
HandleNotification(n, last) ==
  heard' = [h \in Handlers |->
    IF \E i \in 1..last : subscriptions[n.channel][i] = h THEN heard[h] \cup {n} ELSE heard[h]]

Receive ==
  /\ loops > 0 /\ notify # <<>>
  /\ notify' = Tail(notify)
  /\ LET n == Head(notify)
         all == Len(subscriptions[n.channel]) IN
     \/ HandleNotification(n, all) /\ UNCHANGED spent
     \/ \E last \in 1..all : HandleNotification(n, last) /\ Spend("errors", MaxErrors)
  /\ UNCHANGED <<subscriptions, open, connected, resub, call, closed, loops>>

\* The context of a loop ends, or done is closed.
LoopEnds ==
  /\ loops > 0 /\ loops' = loops - 1
  /\ UNCHANGED <<subscriptions, open, connected, resub, call, closed, notify, heard, spent>>

Next ==
  \/ Disconnect \/ Reconnected \/ GetChannels \/ \E c \in Channels : ResubscribeAllChannels(c)
  \/ \E a \in Aggregates : Insert(a)
  \/ \E c \in Channels : Unsubscribe(c) \/ \E h \in Handlers : Subscribe(c, h)
  \/ Listen \/ ListenWaits \/ ListenReturns \/ Undo \/ Unlisten \/ Close \/ CloseListener
  \/ Receive \/ LoopEnds

Spec == Init /\ [][Next]_pgVars

--------------------------------------------------------------------------------
(* Properties.                                                                  *)

\* No handler waits on a channel that nobody listens to: between the calls of
\* the application every channel with handlers is open, whatever subscription
\* was refused, made without a connection or overtaken by the callback of a
\* reconnection that subscribes again.
HandlersAreListenedFor ==
  (call = NoCall /\ closed = "no") => \A c \in Channels : subscriptions[c] # <<>> => c \in open
================================================================================
