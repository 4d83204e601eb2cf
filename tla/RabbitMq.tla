-------------------------------- MODULE RabbitMq --------------------------------
(* The RabbitMQ transport (transport/rabbitmq): a transport that connects,       *)
(* pushes, subscribes and closes, the goroutines of its subscriptions, and a     *)
(* broker with one durable queue, which is external. Connections are lost; the   *)
(* code does not reconnect by itself, but Connect may be called again, which     *)
(* gives the transport another channel and leaves the consumers of the last one. *)
EXTENDS Naturals, Sequences, FiniteSets
LOCAL INSTANCE SequencesExt

CONSTANTS
  Configs,      \* configurations to explore
  Events,       \* event -> [key, bad]: its routing key, a body that cannot be decoded
  Channels,     \* the AMQP channels that may be opened, 1..n
  Consumers,    \* the subscriptions that may be made, 1..n
  MaxPushes, MaxFaults  \* bounds

VARIABLES
  config,
  closed,      \* Transport.closed and closeCh
  channel,     \* the transport's channel; 0 is nil
  opened,      \* channel -> "new", "open" or "closed"
  ready,       \* the topology is declared: the queue exists and is bound
  push,        \* a Push under way: the events it has still to publish
  consumer,    \* consumer -> [pc, channel, msg]
  tag,         \* the consumer whose tag the transport keeps; 0 is ""
  queue,       \* messages of the queue: [id, event]
  unacked,     \* consumer -> messages delivered to it and not settled, in order
  published,   \* the messages the broker has put in the queue
  settled,     \* the messages that were acknowledged or refused for good
  handled,     \* the messages whose handler has returned without an error
  pushes, faults

rmqVars == <<config, closed, channel, opened, ready, push, consumer, tag, queue, unacked,
             published, settled, handled, pushes, faults>>

Broker == <<queue, unacked, published, settled, handled>>
Fault == faults < MaxFaults /\ faults' = faults + 1

\* Config.Validate: the defaults it fills in, and what it refuses.
Valid(c) == c.exchangeType \in {"", "topic", "direct", "fanout", "headers"} /\ c.prefetch >= 0
Validate(c) ==
  LET type == IF c.exchangeType = "" THEN "topic" ELSE c.exchangeType IN
  [exchangeType |-> type,
   prefetch |-> IF c.prefetch = 0 THEN 10 ELSE c.prefetch,
   bindings |-> CASE c.bindings # {} -> c.bindings
                  [] type = "topic" -> {"#"}
                  [] type \in {"direct", "fanout"} -> {""}
                  [] OTHER -> {}]

Idle == [pc |-> "none", channel |-> 0]

Init ==
  /\ config \in {Validate(c) : c \in {d \in Configs : Valid(d)}}
  /\ closed = FALSE /\ channel = 0 /\ opened = [c \in Channels |-> "new"] /\ ready = FALSE
  /\ push = <<>> /\ consumer = [k \in Consumers |-> Idle] /\ tag = 0
  /\ queue = <<>> /\ unacked = [k \in Consumers |-> <<>>]
  /\ published = {} /\ settled = {} /\ handled = {} /\ pushes = 0 /\ faults = 0

--------------------------------------------------------------------------------
(* The broker.                                                                  *)

Routed(e) ==
  \/ config.exchangeType = "fanout"
  \/ config.exchangeType = "topic" /\ "#" \in config.bindings
  \/ Events[e].key \in config.bindings

\* What a channel that closes had delivered goes back to the head of the queue.
Of(ch) == {k \in Consumers : consumer[k].channel = ch}
Returned(ch) == FlattenSeq([k \in Consumers |-> IF k \in Of(ch) THEN unacked[k] ELSE <<>>])
ChannelCloses(ch) ==
  /\ opened' = [opened EXCEPT ![ch] = "closed"]
  /\ queue' = Returned(ch) \o queue
  /\ unacked' = [k \in Consumers |-> IF k \in Of(ch) THEN <<>> ELSE unacked[k]]
  /\ UNCHANGED <<published, settled, handled>>

\* A delivery, up to the prefetch count.
Deliver(k) ==
  /\ consumer[k].channel # 0 /\ opened[consumer[k].channel] = "open"
  /\ queue # <<>> /\ Len(unacked[k]) < config.prefetch
  /\ unacked' = [unacked EXCEPT ![k] = Append(@, Head(queue))]
  /\ queue' = Tail(queue)
  /\ UNCHANGED <<config, closed, channel, opened, ready, push, consumer, tag, published, settled, handled, pushes, faults>>

ConnectionLost(ch) ==
  /\ opened[ch] = "open" /\ Fault
  /\ ChannelCloses(ch)
  /\ UNCHANGED <<config, closed, channel, ready, push, consumer, tag, pushes>>

--------------------------------------------------------------------------------
(* The transport. Connect and Close hold its lock, Push and Subscribe the read  *)
(* lock, so neither runs while a Push is under way.                             *)

\* Connect: dial, open a channel, declare the topology.
Connect(ch) ==
  /\ ~closed /\ push = <<>> /\ opened[ch] = "new" /\ \A c \in Channels : c < ch => opened[c] # "new"
  /\ opened' = [opened EXCEPT ![ch] = "open"] /\ channel' = ch /\ ready' = TRUE
  /\ UNCHANGED <<config, closed, push, consumer, tag, Broker, pushes, faults>>

\* The topology is refused: the transport keeps the channel it has closed.
ConnectFails(ch) ==
  /\ ~closed /\ push = <<>> /\ opened[ch] = "new" /\ Fault
  /\ opened' = [opened EXCEPT ![ch] = "closed"] /\ channel' = ch
  /\ UNCHANGED <<config, closed, ready, push, consumer, tag, Broker, pushes>>

Push(events) ==
  /\ push = <<>> /\ ~closed /\ channel # 0
  /\ pushes < MaxPushes /\ pushes' = pushes + 1
  /\ push' = events
  /\ UNCHANGED <<config, closed, channel, opened, ready, consumer, tag, Broker, faults>>

\* One publication of the loop. It returns before the broker has the message,
\* which a lost connection takes along.
Publish ==
  LET msg == [id |-> Cardinality(published) + 1, event |-> Head(push)] IN
  /\ push # <<>> /\ opened[channel] = "open" /\ push' = Tail(push)
  /\ \/ /\ ready /\ Routed(Head(push))
        /\ queue' = Append(queue, msg)
        /\ published' = published \cup {msg} /\ UNCHANGED faults
     \/ ready /\ ~Routed(Head(push)) /\ UNCHANGED <<queue, published, faults>>
     \/ Fault /\ UNCHANGED <<queue, published>>
  /\ UNCHANGED <<config, closed, channel, opened, ready, consumer, tag, unacked, settled, handled, pushes>>

\* A publication fails: the rest of the batch is not published.
PublishFails ==
  /\ push # <<>> /\ opened[channel] = "closed" /\ push' = <<>>
  /\ UNCHANGED <<config, closed, channel, opened, ready, consumer, tag, Broker, pushes, faults>>

\* Subscribe, with the context of the caller.
Subscribe(k) ==
  /\ push = <<>> /\ ~closed /\ channel # 0 /\ opened[channel] = "open"
  /\ consumer[k].pc = "none" /\ \A j \in Consumers : j < k => consumer[j].pc # "none"
  /\ consumer' = [consumer EXCEPT ![k] = [pc |-> "select", channel |-> channel]]
  /\ tag' = k
  /\ UNCHANGED <<config, closed, channel, opened, ready, push, Broker, pushes, faults>>

\* A second Subscribe within a second makes the same consumer tag, which the
\* broker answers by closing the channel.
SubscribeAgain ==
  /\ push = <<>> /\ ~closed /\ channel # 0 /\ opened[channel] = "open"
  /\ tag # 0 /\ consumer[tag].channel = channel /\ Fault
  /\ ChannelCloses(channel)
  /\ UNCHANGED <<config, closed, channel, ready, push, consumer, tag, pushes>>

Close ==
  /\ ~closed /\ push = <<>> /\ closed' = TRUE
  /\ IF channel # 0 /\ opened[channel] = "open" THEN ChannelCloses(channel) ELSE UNCHANGED <<opened, Broker>>
  /\ UNCHANGED <<config, channel, ready, push, consumer, tag, pushes, faults>>

--------------------------------------------------------------------------------
(* The goroutine of a subscription.                                             *)

\* Its context ends, closeCh is closed or the deliveries of its channel have
\* ended; what it was delivered stays with the broker's channel.
ConsumerStops(k) ==
  /\ consumer[k].pc = "select"
  /\ closed \/ opened[consumer[k].channel] = "closed" \/ faults < MaxFaults
  /\ faults' = IF closed \/ opened[consumer[k].channel] = "closed" THEN faults ELSE faults + 1
  /\ consumer' = [consumer EXCEPT ![k].pc = "stopped"]
  /\ UNCHANGED <<config, closed, channel, opened, ready, push, tag, Broker, pushes>>

\* A delivery is taken; its channel may close while it is processed.
Take(k) ==
  /\ consumer[k].pc = "select" /\ unacked[k] # <<>>
  /\ consumer' = [consumer EXCEPT ![k] = [pc |-> "process", channel |-> @.channel, msg |-> Head(unacked[k])]]
  /\ UNCHANGED <<config, closed, channel, opened, ready, push, tag, Broker, pushes, faults>>

\* Ack and Nack; an error, as on a closed channel, is ignored.
Settle(k, requeue) ==
  IF opened[consumer[k].channel] = "closed" THEN UNCHANGED <<queue, unacked, settled>>
  ELSE /\ unacked' = [unacked EXCEPT ![k] = Tail(@)]
       /\ queue' = IF requeue THEN <<Head(unacked[k])>> \o queue ELSE queue
       /\ settled' = IF requeue THEN settled ELSE settled \cup {consumer[k].msg}

\* Mutant of ProcessMessage: a message whose handler fails is not requeued.
ProcessMessageNoRequeue(k) ==
  /\ consumer[k].pc = "process"
  /\ consumer' = [consumer EXCEPT ![k] = [pc |-> "select", channel |-> @.channel]]
  /\ IF Events[consumer[k].msg.event].bad THEN Settle(k, FALSE) /\ UNCHANGED <<handled, faults>>
     ELSE \/ Settle(k, FALSE) /\ handled' = handled \cup {consumer[k].msg} /\ UNCHANGED faults
          \/ Settle(k, FALSE) /\ Fault /\ UNCHANGED handled
  /\ UNCHANGED <<config, closed, channel, opened, ready, push, tag, published, pushes>>

\* processMessage: a body that cannot be decoded is refused for good, one whose
\* handler fails is requeued, and one that was handled acknowledged.
ProcessMessage(k) ==
  /\ consumer[k].pc = "process"
  /\ consumer' = [consumer EXCEPT ![k] = [pc |-> "select", channel |-> @.channel]]
  /\ IF Events[consumer[k].msg.event].bad THEN Settle(k, FALSE) /\ UNCHANGED <<handled, faults>>
     ELSE \/ Settle(k, FALSE) /\ handled' = handled \cup {consumer[k].msg} /\ UNCHANGED faults
          \/ Settle(k, TRUE) /\ Fault /\ UNCHANGED handled
  /\ UNCHANGED <<config, closed, channel, opened, ready, push, tag, published, pushes>>

Next ==
  \/ \E ch \in Channels : Connect(ch) \/ ConnectFails(ch) \/ ConnectionLost(ch)
  \/ \E e, f \in DOMAIN Events : Push(<<e>>) \/ Push(<<e, f>>)
  \/ Publish \/ PublishFails \/ SubscribeAgain \/ Close
  \/ \E k \in Consumers : Subscribe(k) \/ Deliver(k) \/ ConsumerStops(k) \/ Take(k) \/ ProcessMessage(k)

Spec == Init /\ [][Next]_rmqVars

--------------------------------------------------------------------------------
(* Properties.                                                                  *)

Held(m, q) == \E i \in DOMAIN q : q[i] = m

\* No message is lost between broker and handler: every message that was put
\* in the queue is there, is delivered and not settled, or was settled, and a
\* message is settled only after its handler has accepted it or because it can
\* not be decoded. Lost connections, consumers that stop with messages in hand,
\* second connections and Close cost at most another delivery.
NothingIsLost ==
  \A m \in published :
    \/ Held(m, queue) \/ \E k \in Consumers : Held(m, unacked[k])
    \/ m \in settled /\ (m \in handled \/ Events[m.event].bad)
================================================================================
