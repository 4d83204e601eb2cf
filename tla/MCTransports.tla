------------------------------- MODULE MCTransports -------------------------------
(* What keeps a client connected: the auto-sync loops and the reconnections of  *)
(* the transport (Supervisors: AutoSync, TransportConnection), the in-memory    *)
(* transport (MemChan) and RabbitMQ (RabbitMq). A behaviour is one of any of    *)
(* them.                                                                        *)
EXTENDS Supervisors
CONSTANTS r1, r2, c1, h1, user, none

VARIABLES
  part,  \* which of them runs
  events, subs, closed, chan, open, batch, sub, done, handled, cast, hub, pushed,
  config, rmqClosed, channel, opened, ready, push, consumer, tag, queue, unacked, published,
  settled, consumed, pushes, rmqFaults

memVars == <<events, subs, closed, chan, open, batch, sub, done, handled, cast, hub, pushed>>
rabbitVars == <<config, rmqClosed, channel, opened, ready, push, consumer, tag, queue, unacked, published,
                settled, consumed, pushes, rmqFaults>>

Mem == INSTANCE MemChan WITH
  Transports <- {"t1", "t2"}, Subs <- {"s1"}, OnTransport <- [s1 |-> "t1"], Capacity <- 1,
  Broadcasters <- {"b1", "b2"}, MaxEvents <- 2

\* One configuration is filled in by Validate, one routes by key, one to everybody.
Rabbit == INSTANCE RabbitMq WITH
  Configs <- {[exchangeType |-> "", prefetch |-> 0, bindings |-> {}],
              [exchangeType |-> "direct", prefetch |-> 1, bindings |-> {"k"}],
              [exchangeType |-> "fanout", prefetch |-> 1, bindings |-> {}]},
  Events <- [e |-> [key |-> "k", bad |-> FALSE], f |-> [key |-> "l", bad |-> TRUE]],
  Channels <- 1..2, Consumers <- 1..2, MaxPushes <- 1, MaxFaults <- 2,
  closed <- rmqClosed, handled <- consumed, faults <- rmqFaults

PartInit ==
  /\ part \in {"connection", "auto", "memory", "rabbit"}
  /\ ConnectionInit /\ Manager!Init /\ Mem!Init /\ Rabbit!Init
  /\ part # "connection" => ~link
  /\ part # "rabbit" => config.exchangeType = "fanout"

PartNext ==
  /\ UNCHANGED part
  /\ \/ part = "connection" /\ ConnectionNext /\ UNCHANGED <<autoVars, memVars, rabbitVars>>
     \/ part = "auto" /\ Manager!Next /\ UNCHANGED <<connectionVars, memVars, rabbitVars>>
     \/ part = "memory" /\ Mem!Next /\ UNCHANGED <<connectionVars, autoVars, rabbitVars>>
     \/ part = "rabbit" /\ Rabbit!Next /\ UNCHANGED <<connectionVars, autoVars, memVars>>

\* The fairness of each part, for the behaviours of that part.
PartSpec ==
  /\ PartInit /\ [][PartNext]_<<part, connectionVars, autoVars, memVars, rabbitVars>>
  /\ WF_connectionVars(part = "connection" /\ AppStep)
  /\ WF_connectionVars(part = "connection" /\ PerformHealthCheck)
  /\ \A ac \in Actors : WF_connectionVars(part = "connection" /\ Transition(ac))
  /\ \A r \in Reconnectors : WF_connectionVars(part = "connection" /\ Resubscribe(r))
  /\ WF_connectionVars(part = "connection" /\ \E r \in Reconnectors : Spawn(r))
  /\ WF_connectionVars(part = "connection" /\ \E i \in DOMAIN pending : OnTransition(i))
  /\ \A l \in Manager!Loops : /\ SF_autoVars(part = "auto" /\ Manager!Exit(l))
                              /\ WF_autoVars(part = "auto" /\ Manager!LoopStep(l))
  /\ \A c \in Manager!Callers : WF_autoVars(part = "auto" /\ Manager!SyncStep(c))
  /\ \A h \in Handlers : WF_autoVars(part = "auto" /\ Manager!Deliver(h))
  /\ WF_memVars(part = "memory" /\ Mem!Goroutine("s1"))

\* MemChan: an event that a channel accepted reaches its handler.
AcceptedIsHandled == Mem!AcceptedIsHandled
\* RabbitMq: no message is lost between broker and handler.
NothingIsLost == part = "rabbit" => Rabbit!NothingIsLost
================================================================================
