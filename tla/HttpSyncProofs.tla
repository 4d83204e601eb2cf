----------------------------- MODULE HttpSyncProofs -----------------------------
(* Proofs about HttpSync, for any batches, other clients, limits and bounds:    *)
(* a batch that was answered is in the store unless a handler passed over       *)
(* events of it (Cuts), and a batch with a key is stored twice only when two    *)
(* handlers overlapped or the tracker had lost the key (Races).                 *)
EXTENDS HttpSync, TLAPS

USE ZenonT(3), SMTT(30)

\* What Append adds to the set of a sequence.
LEMMA AppendIs ==
  ASSUME NEW S, NEW s \in Seq(S), NEW x \in S
  PROVE  /\ Append(s, x) \in Seq(S)
         /\ Range(Append(s, x)) = Range(s) \cup {x}
         /\ IsInjective(s) /\ x \notin Range(s) => IsInjective(Append(s, x))
<1> DEFINE t == Append(s, x)
<1>1. /\ t \in Seq(S) /\ DOMAIN t = 1..(Len(s) + 1) /\ DOMAIN s = 1..Len(s)
      /\ Len(s) \in Nat /\ t[Len(s) + 1] = x
      /\ \A i \in 1..Len(s) : t[i] = s[i]
  OBVIOUS
<1> HIDE DEF t
<1>2. \A i \in DOMAIN t : i = Len(s) + 1 \/ i \in DOMAIN s
  BY <1>1
<1>3. Len(s) + 1 \in DOMAIN t /\ DOMAIN s \subseteq DOMAIN t
  BY <1>1
<1>4. Range(t) = Range(s) \cup {x}
  <2>1. ASSUME NEW y \in Range(t) PROVE y \in Range(s) \cup {x}
    BY <1>1, <1>2 DEF Range
  <2>2. ASSUME NEW y \in Range(s) \cup {x} PROVE y \in Range(t)
    BY <1>1, <1>3 DEF Range
  <2> QED
    BY <2>1, <2>2
<1>5. ASSUME IsInjective(s), x \notin Range(s) PROVE IsInjective(t)
  <2>1. ASSUME NEW i \in DOMAIN t, NEW j \in DOMAIN t, t[i] = t[j] PROVE i = j
    <3>1. \A h \in DOMAIN s : t[h] = s[h] /\ t[h] # x
      BY <1>1, <1>5 DEF Range
    <3> QED
      BY <2>1, <3>1, <1>1, <1>2, <1>5 DEF IsInjective
  <2> QED
    BY <2>1 DEF IsInjective
<1> QED
  BY <1>1, <1>4, <1>5 DEF t

(****************************************************************************)
(* Types.                                                                    *)
(****************************************************************************)
LEMMA AttemptIs ==
  /\ \A a \in Attempts : a[1] \in Pushes /\ a[2] \in 1..MaxAttempts /\ a = <<a[1], a[2]>>
  /\ \A p \in Pushes, n \in 1..MaxAttempts :
       <<p, n>> \in Attempts /\ <<p, n>>[1] = p /\ <<p, n>>[2] = n
BY DEF Attempts

\* The event a handler is at is one of its batch.
LEMMA EventIs ==
  ASSUME NEW a \in Attempts, NEW i \in Nat, i >= 1, i <= Len(Batch(a))
  PROVE  /\ i \in DOMAIN EventsOf[a[1]]
         /\ EventsOf[a[1]][i] \in Range(EventsOf[a[1]])
         /\ EventsOf[a[1]][i] \in Events
<1>1. a[1] \in Pushes /\ EventsOf[a[1]] \in Seq(Range(EventsOf[a[1]]))
  BY AttemptIs, UniqueNames
<1>2. i \in DOMAIN EventsOf[a[1]]
  BY <1>1 DEF Batch
<1> QED
  BY <1>1, <1>2 DEF Range, Events

LEMMA TypeInit == Init => TypeOK
<1> SUFFICES ASSUME Init PROVE TypeOK
  OBVIOUS
<1>1. <<>> \in Seq(Events)
  OBVIOUS
<1> QED
  BY <1>1, HttpAssumption DEF Init, TypeOK, NoRequest

Places == {"none", "sent", "store", "record", "reply", "gone"}
Requests == [Attempts -> [pc: Places, next: Nat]]

\* A handler's step to another place keeps the types.
LEMMA StepType ==
  ASSUME TypeOK, NEW a \in Attempts, NEW pc \in Places, Step(a, pc)
  PROVE  /\ request' \in Requests
         /\ request'[a] = [pc |-> pc, next |-> 1]
         /\ \A b \in Attempts \ {a} : request'[b] = request[b]
BY DEF TypeOK, Step, Requests, Places

\* So does its step to the next event.
LEMMA NextType ==
  ASSUME TypeOK, NEW a \in Attempts, request' = [request EXCEPT ![a].next = @ + 1]
  PROVE  request' \in Requests
<1>1. request[a].next + 1 \in Nat
  BY DEF TypeOK
<1> QED
  BY <1>1, Zenon DEF TypeOK, Requests, Places

\* Record leaves the key it records, and nothing that was not there.
LEMMA RecordType ==
  ASSUME TypeOK, NEW key \in Keys, Record(key)
  PROVE  /\ keys' \subseteq Keys /\ older' \subseteq KeyPairs
         /\ stale' \subseteq Keys /\ forgotten' \subseteq Keys
         /\ key \in keys' /\ keys' \subseteq keys \cup {key}
<1>1. keys \subseteq Keys /\ forgotten \subseteq Keys /\ stale \subseteq Keys /\ older \subseteq KeyPairs
  BY DEF TypeOK
<1>2. Kept \subseteq keys
  BY DEF Kept
<1>3. older' \subseteq KeyPairs
  BY <1>1, <1>2 DEF Record, Among, KeyPairs
<1> QED
  BY <1>1, <1>2, <1>3 DEF Record

\* Only the handler a moves.
Moves(a) == \A b \in Attempts \ {a} : request'[b] = request[b]

\* The attempt that a client sends is new, and the one it takes the reply of is
\* its last.
NewAttempt(p) == <<p, caller[p].attempt + 1>>
LastAttempt(p) == <<p, caller[p].attempt>>

LEMMA Sends ==
  ASSUME TypeOK, HandlerInv, NEW p \in Pushes, SendPush(p)
  PROVE  /\ caller[p].attempt + 1 \in 1..MaxAttempts
         /\ NewAttempt(p) \in Attempts /\ Moves(NewAttempt(p)) /\ request' \in Requests
         /\ request[NewAttempt(p)].pc = "none"
         /\ request'[NewAttempt(p)] = [pc |-> "sent", next |-> 1]
         /\ NewAttempt(p)[1] = p /\ NewAttempt(p)[2] = caller[p].attempt + 1
<1>1. CallerHolds(p) /\ caller[p].attempt \in Nat
  BY HttpAssumption DEF HandlerInv, TypeOK
<1>2. caller[p].attempt + 1 \in 1..MaxAttempts
  BY <1>1, HttpAssumption DEF SendPush, CallerHolds
<1>3. NewAttempt(p) \in Attempts /\ NewAttempt(p)[1] = p /\ NewAttempt(p)[2] = caller[p].attempt + 1
  BY <1>2, AttemptIs DEF NewAttempt
<1>4. request[NewAttempt(p)].pc = "none"
  BY <1>1, <1>3 DEF HandlerInv, HandlerHolds
<1>5. request' = [request EXCEPT ![NewAttempt(p)] = [pc |-> "sent", next |-> 1]]
  BY DEF SendPush, NewAttempt
<1> QED
  BY <1>2, <1>3, <1>4, <1>5 DEF TypeOK, Moves, Requests, Places

LEMMA Replies ==
  ASSUME TypeOK, HandlerInv, NEW p \in Pushes, ReceiveReply(p)
  PROVE  /\ LastAttempt(p) \in Attempts /\ LastAttempt(p)[1] = p /\ LastAttempt(p)[2] = caller[p].attempt
         /\ request' \in Requests /\ Moves(LastAttempt(p))
         /\ request[LastAttempt(p)].pc = "reply"
         /\ request'[LastAttempt(p)] = [pc |-> "gone", next |-> 1]
<1>1. caller[p].attempt \in 1..MaxAttempts
  BY HttpAssumption DEF HandlerInv, ReceiveReply, CallerHolds, TypeOK
<1>2. LastAttempt(p) \in Attempts /\ LastAttempt(p)[1] = p /\ LastAttempt(p)[2] = caller[p].attempt
  BY <1>1, AttemptIs DEF LastAttempt
<1>3. Step(LastAttempt(p), "gone") /\ request[LastAttempt(p)].pc = "reply"
  BY DEF ReceiveReply, LastAttempt
<1> QED
  BY <1>2, <1>3, StepType DEF Places, Moves

LEMMA TypeNext == TypeOK /\ HandlerInv /\ [Next]_vars => TypeOK'
<1> SUFFICES ASSUME TypeOK, HandlerInv, [Next]_vars PROVE TypeOK'
  OBVIOUS
<1> USE HttpAssumption
<1>1. ASSUME NEW p \in Pushes, ClientStep(p) \/ PushTimesOut(p) PROVE TypeOK'
  <2>1. CASE Ask(p)
    <3>1. caller' \in [Pushes -> [pc : {"version", "refused", "push", "waiting", "ok", "failed"},
                                  attempt : 0..MaxAttempts]]
      <4>1. PICK w \in {"push", "refused", "version"} : caller' = [caller EXCEPT ![p].pc = w]
        BY <2>1 DEF Ask, AskLatestVersion, VersionIsRefused, SyncAgain
      <4> QED
        BY <4>1 DEF TypeOK
    <3>2. UNCHANGED <<log, trackerVars, request, replica, troubles, ghosts>>
      BY <2>1 DEF Ask, AskLatestVersion, VersionIsRefused, SyncAgain
    <3> QED
      BY <3>1, <3>2 DEF TypeOK, trackerVars, ghosts
  <2>2. CASE SendPush(p)
    <3>1. caller[p].attempt + 1 \in 0..MaxAttempts
      BY <2>2, Sends
    <3>2. request' \in Requests
      BY <2>2, Sends
    <3> QED
      BY <2>2, <3>1, <3>2 DEF SendPush, TypeOK, Requests, Places, trackerVars, ghosts
  <2>3. CASE ReceiveReply(p)
    <3>1. request' \in Requests
      BY <2>3, Replies
    <3> QED
      BY <2>3, <3>1 DEF ReceiveReply, TypeOK, Requests, Places, trackerVars, ghosts
  <2>4. CASE PushTimesOut(p)
    BY <2>4 DEF PushTimesOut, TypeOK, trackerVars, ghosts
  <2> QED
    BY <1>1, <2>1, <2>2, <2>3, <2>4 DEF ClientStep
<1>2. ASSUME NEW a \in Attempts, ServerStep(a) \/ StoreFails(a) \/ StoreCancelled(a) \/ Lose(a)
      PROVE  TypeOK'
  <2>0. a[1] \in Pushes /\ a[1] \in Keys
    BY AttemptIs DEF Keys
  <2>1. request' \in Requests
    BY <1>2, StepType, NextType DEF ServerStep, ReceivePush, StoreNext, StoredAll, RecordKey,
                                   StoreFails, StoreCancelled, PassOver, Lose, Places
  <2>2. CASE StoreNext(a)
    <3>1. Event(a) \in Events
      BY <2>2, EventIs DEF StoreNext, HandlerInv, HandlerHolds, TypeOK, Event, Batch
    <3>2. log' \in Seq(Events)
      BY <3>1, <2>2, AppendIs DEF StoreNext, TypeOK
    <3> QED
      BY <3>2, <2>1, <2>2, Zenon DEF StoreNext, TypeOK, Requests, Places, trackerVars, ghosts
  <2>3. CASE StoreFails(a) \/ StoreCancelled(a)
    <3>1. troubles' \in 0..MaxTroubles
      BY <2>3 DEF StoreFails, StoreCancelled, Trouble, TypeOK
    <3> QED
      BY <2>0, <2>1, <2>3, <3>1 DEF StoreFails, StoreCancelled, PassOver, TypeOK, Requests, Places, trackerVars
  <2>4. CASE RecordKey(a)
    BY <2>0, <2>1, <2>4, RecordType DEF RecordKey, TypeOK, Requests, Places, config, ghosts
  <2>5. CASE ReceivePush(a) \/ StoredAll(a) \/ Lose(a)
    BY <2>0, <2>1, <2>5 DEF ReceivePush, StoredAll, Lose, TypeOK, Requests, Places, trackerVars, ghosts
  <2> QED
    BY <1>2, <2>2, <2>3, <2>4, <2>5 DEF ServerStep
<1>3. ASSUME NEW c \in Others, OtherPush(c) PROVE TypeOK'
  <2>1. c \in Keys /\ c \in Events
    BY DEF Keys, Events
  <2>2. log' \in Seq(Events)
    BY <1>3, <2>1, AppendIs DEF OtherPush, TypeOK
  <2> QED
    BY <2>1, <2>2, <1>3, RecordType DEF OtherPush, TypeOK, config, ghosts
<1>4. ASSUME NEW key \in Keys, Expire(key) PROVE TypeOK'
  <2>1. troubles' \in 0..MaxTroubles
    BY <1>4 DEF Expire, Trouble, TypeOK
  <2> QED
    BY <2>1, <1>4 DEF Expire, TypeOK, config, ghosts
<1>5. CASE Cleanup
  <2>1. keys' \subseteq Keys /\ older' \subseteq KeyPairs /\ stale' \subseteq Keys
    BY <1>5 DEF Cleanup, Among, TypeOK
  <2> QED
    BY <2>1, <1>5, Zenon DEF Cleanup, TypeOK, config, ghosts
<1>6. CASE Restart
  <2>1. request' \in [Attempts -> [pc: {"none", "sent", "store", "record", "reply", "gone"},
                                   next: Nat]]
    BY <1>6 DEF Restart, TypeOK
  <2> QED
    BY <2>1, <1>6 DEF Restart, Trouble, TypeOK, config, ghosts
<1>7. CASE Pull
  <2>1. log \in Seq(Events) /\ replica \in Seq(Events) /\ Len(replica) \in Nat /\ Len(log) \in Nat
    BY DEF TypeOK
  <2>2. MinOf(Len(log), Len(replica) + Limit) \in Nat /\ MinOf(Len(log), Len(replica) + Limit) <= Len(log)
    BY <2>1 DEF MinOf
  <2>3. Page(Len(replica)) \in Seq(Events)
    BY <2>1, <2>2 DEF Page
  <2>4. replica' \in Seq(Events)
    BY <2>1, <2>3, <1>7 DEF Pull
  <2> QED
    BY <2>4, <1>7 DEF Pull, TypeOK, trackerVars, ghosts
<1>8. CASE UNCHANGED vars
  BY <1>8 DEF vars, TypeOK
<1> QED
  BY <1>1, <1>2, <1>3, <1>4, <1>5, <1>6, <1>7, <1>8 DEF Next

(****************************************************************************)
(* What is answered was stored or passed over.                               *)
(****************************************************************************)
\* The store, the batches that were cut and those that failed only grow.
Grows == /\ Range(log) \subseteq Range(log') /\ cut \subseteq cut'
         /\ keyed' = keyed /\ failed \subseteq failed'

\* A handler that does not move keeps what it has behind it, and no client comes
\* back to an attempt it has given up.
LEMMA HandlerFrame ==
  ASSUME TypeOK, TypeOK', Grows, NEW a \in Attempts, HandlerHolds(a),
         request'[a] = request[a],
         caller[a[1]].attempt <= caller'[a[1]].attempt,
         request[a].pc # "none" /\ Waiting(a)' => Waiting(a)
  PROVE  HandlerHolds(a)'
<1>0. a[1] \in Pushes /\ a[2] \in 1..MaxAttempts
  BY AttemptIs
<1>1. request[a].pc # "none" /\ Passed(a) => Passed(a)'
  BY DEF Passed, Grows
<1>2. Stored(a[1]) => Stored(a[1])'
  BY DEF Stored, Grows
<1>3. request[a].pc # "none" => a[2] <= caller'[a[1]].attempt
  <2>1. caller[a[1]].attempt \in Nat /\ caller'[a[1]].attempt \in Nat /\ a[2] \in Nat
    BY <1>0, HttpAssumption DEF TypeOK
  <2> QED
    BY <2>1 DEF HandlerHolds
<1>4. request[a].pc = "store" =>
        /\ request[a].next >= 1
        /\ \/ \A i \in DOMAIN Batch(a) : i < request[a].next => Batch(a)[i] \in Range(log')
           \/ Passed(a)'
  BY <1>1 DEF HandlerHolds, Grows
<1>5. request[a].pc = "record" => a[1] \in keyed' /\ (Stored(a[1])' \/ a[1] \in cut')
  BY <1>2 DEF HandlerHolds, Grows
<1>6. request[a].pc = "reply" => Stored(a[1])' \/ Passed(a)'
  BY <1>1, <1>2 DEF HandlerHolds
<1>7. (Range(log))' = Range(log')
  BY DEF Range
<1> QED
  BY <1>3, <1>4, <1>5, <1>6, <1>7 DEF HandlerHolds, Batch

LEMMA CallerFrame ==
  ASSUME TypeOK, TypeOK', Grows, NEW p \in Pushes, CallerHolds(p),
         caller'[p] = caller[p], p \in keys' => p \in keys
  PROVE  CallerHolds(p)'
<1>1. Stored(p) => Stored(p)'
  BY DEF Stored, Grows
<1> QED
  BY <1>1 DEF CallerHolds, Grows

\* The store only grows.
LEMMA LogGrows ==
  ASSUME TypeOK, NEW e \in Events, log' = Append(log, e) \/ log' = log
  PROVE  Range(log) \subseteq Range(log')
<1>1. log \in Seq(Events)
  BY DEF TypeOK
<1>2. CASE log' = Append(log, e)
  BY <1>1, <1>2, AppendIs
<1> QED
  BY <1>2

LEMMA HandlerInit == Init => HandlerInv
<1> SUFFICES ASSUME Init PROVE HandlerInv
  OBVIOUS
<1>1. ASSUME NEW p \in Pushes PROVE CallerHolds(p)
  BY HttpAssumption DEF Init, CallerHolds, Range
<1>2. ASSUME NEW a \in Attempts PROVE HandlerHolds(a)
  BY DEF Init, HandlerHolds, NoRequest
<1> QED
  BY <1>1, <1>2 DEF HandlerInv

\* The client's steps.
LEMMA HandlerClient ==
  ASSUME TypeOK, TypeOK', HandlerInv, NEW p \in Pushes, ClientStep(p) \/ PushTimesOut(p)
  PROVE  HandlerInv'
<1> USE HttpAssumption
<1>0. CallerHolds(p)
  BY DEF HandlerInv
<1>1. Grows /\ UNCHANGED <<log, keyed, keys, cut, failed>>
  <2>1. UNCHANGED <<log, keyed, keys, cut, failed>>
    BY DEF ClientStep, Ask, AskLatestVersion, VersionIsRefused, SyncAgain, SendPush, ReceiveReply, PushTimesOut, trackerVars, ghosts
  <2> QED
    BY <2>1 DEF Grows
<1>2. ASSUME NEW q \in Pushes \ {p} PROVE caller'[q] = caller[q]
  BY Zenon DEF ClientStep, Ask, AskLatestVersion, VersionIsRefused, SyncAgain, SendPush, ReceiveReply, PushTimesOut, TypeOK
<1>3. ASSUME NEW q \in Pushes, q # p PROVE CallerHolds(q)'
  <2>1. CallerHolds(q) /\ caller'[q] = caller[q]
    BY <1>2, <1>3 DEF HandlerInv
  <2> QED
    BY <1>1, <2>1, CallerFrame
<1>4. caller[p].attempt <= caller'[p].attempt
  <2>1. /\ caller[p].attempt \in Nat
        /\ caller'[p].attempt = caller[p].attempt \/ caller'[p].attempt = caller[p].attempt + 1
    BY DEF ClientStep, Ask, AskLatestVersion, VersionIsRefused, SyncAgain, SendPush, ReceiveReply, PushTimesOut, TypeOK
  <2> QED
    BY <2>1
<1>5. ASSUME NEW a \in Attempts, request[a].pc # "none", Waiting(a)' PROVE Waiting(a)
  <2>0. a[1] \in Pushes /\ a[2] \in 1..MaxAttempts /\ HandlerHolds(a)
    BY AttemptIs DEF HandlerInv
  <2>1. CASE a[1] # p
    BY <2>0, <2>1, <1>2, <1>5 DEF Waiting
  <2>2. CASE a[1] = p
    <3>1. a[2] <= caller[p].attempt /\ caller[p].attempt \in Nat
      BY <2>0, <2>2, <1>5 DEF HandlerHolds, TypeOK
    <3>2. caller'[p].attempt # caller[p].attempt + 1
      BY <2>0, <2>2, <3>1, <1>5 DEF Waiting
    <3>3. caller'[p].pc = "waiting"
      BY <2>2, <1>5 DEF Waiting
    <3> QED
      BY <3>2, <3>3 DEF ClientStep, Ask, AskLatestVersion, VersionIsRefused, SyncAgain, SendPush, ReceiveReply, PushTimesOut, TypeOK
  <2> QED
    BY <2>1, <2>2
<1>6. ASSUME NEW a \in Attempts, request'[a] = request[a] PROVE HandlerHolds(a)'
  <2>1. a[1] \in Pushes /\ HandlerHolds(a)
    BY AttemptIs DEF HandlerInv
  <2>2. caller[a[1]].attempt <= caller'[a[1]].attempt
    <3>1. caller[a[1]].attempt \in Nat
      BY <2>1 DEF TypeOK
    <3> QED
      BY <2>1, <3>1, <1>2, <1>4
  <2> QED
    BY <1>1, <1>5, <1>6, <2>1, <2>2, HandlerFrame
<1>7. CASE Ask(p)
  <2>1. CallerHolds(p)'
    <3>1. /\ caller'[p].pc \in {"push", "refused", "version"}
          /\ caller'[p].attempt = caller[p].attempt
          /\ caller[p].pc \in {"version", "refused"} /\ UNCHANGED request
      BY <1>7 DEF Ask, AskLatestVersion, VersionIsRefused, SyncAgain, TypeOK
    <3> QED
      BY <1>0, <1>1, <3>1 DEF CallerHolds, Stored, Range
  <2>2. UNCHANGED request
    BY <1>7 DEF Ask, AskLatestVersion, VersionIsRefused, SyncAgain
  <2> QED
    BY <1>3, <1>6, <2>1, <2>2 DEF HandlerInv, Attempts
<1>8. CASE SendPush(p)
  <2> DEFINE n == caller[p].attempt + 1
  <2>0. PICK a \in Attempts : a = NewAttempt(p)
    BY <1>8, Sends
  <2>1. caller'[p] = [pc |-> "waiting", attempt |-> n]
    BY <1>8 DEF SendPush, TypeOK
  <2>2. /\ n \in 1..MaxAttempts /\ n >= 1 /\ a \in Attempts /\ a[1] = p /\ a[2] = n
        /\ Moves(a) /\ request'[a] = [pc |-> "sent", next |-> 1]
    BY <1>8, <2>0, Sends
  <2> HIDE DEF n
  <2>3. CallerHolds(p)'
    BY <1>0, <1>1, <2>1, <2>2 DEF CallerHolds, Stored, Range
  <2>4. HandlerHolds(a)'
    BY <2>1, <2>2 DEF HandlerHolds
  <2> QED
    BY <1>3, <1>6, <2>2, <2>3, <2>4 DEF HandlerInv, Moves
<1>9. CASE ReceiveReply(p)
  <2>0. PICK a \in Attempts : a = LastAttempt(p)
    BY <1>9, Replies
  <2>1. /\ caller[p].pc = "waiting" /\ caller'[p].pc = "ok" /\ caller'[p].attempt = caller[p].attempt
    BY <1>9 DEF ReceiveReply, TypeOK
  <2>2. /\ a \in Attempts /\ a[1] = p /\ a[2] = caller[p].attempt /\ request[a].pc = "reply"
        /\ Moves(a) /\ request'[a] = [pc |-> "gone", next |-> 1]
    BY <1>9, <2>0, Replies
  <2>3. HandlerHolds(a)
    BY <2>2 DEF HandlerInv
  <2>4. Stored(p) \/ (p \in cut /\ (p \in failed \/ p \in keyed))
    BY <2>1, <2>2, <2>3 DEF HandlerHolds, Passed, Waiting
  <2>5. CallerHolds(p)'
    BY <1>0, <1>1, <2>1, <2>4 DEF CallerHolds, Stored, Range
  <2>6. HandlerHolds(a)'
    BY <2>1, <2>2, <2>3 DEF HandlerHolds
  <2> QED
    BY <1>3, <1>6, <2>2, <2>5, <2>6 DEF HandlerInv, Moves
<1>10. CASE PushTimesOut(p)
  <2>1. CallerHolds(p)'
    <3>1. /\ caller[p].pc = "waiting" /\ caller'[p].attempt = caller[p].attempt
          /\ caller'[p].pc = IF caller[p].attempt < MaxAttempts THEN "push" ELSE "failed"
      BY <1>10 DEF PushTimesOut, TypeOK
    <3> QED
      BY <1>0, <1>1, <3>1 DEF CallerHolds, Stored, Range
  <2>2. UNCHANGED request
    BY <1>10 DEF PushTimesOut
  <2> QED
    BY <1>3, <1>6, <2>1, <2>2 DEF HandlerInv, Attempts
<1> QED
  BY <1>7, <1>8, <1>9, <1>10 DEF ClientStep

\* When clients stand still, only what a step changed has to be looked at.
LEMMA HandlerElsewhere ==
  ASSUME TypeOK, TypeOK', HandlerInv, Grows, caller' = caller
  PROVE  /\ \A b \in Attempts : request'[b] = request[b] => HandlerHolds(b)'
         /\ \A p \in Pushes : (p \in keys' => p \in keys) => CallerHolds(p)'
<1>1. ASSUME NEW b \in Attempts, request'[b] = request[b] PROVE HandlerHolds(b)'
  <2>1. HandlerHolds(b) /\ b[1] \in Pushes
    BY AttemptIs DEF HandlerInv
  <2>2. caller[b[1]].attempt <= caller'[b[1]].attempt
    BY <2>1, HttpAssumption DEF TypeOK
  <2>3. Waiting(b)' => Waiting(b)
    BY DEF Waiting
  <2> QED
    BY <1>1, <2>1, <2>2, <2>3, HandlerFrame
<1>2. ASSUME NEW p \in Pushes, p \in keys' => p \in keys PROVE CallerHolds(p)'
  <2>1. CallerHolds(p) /\ caller'[p] = caller[p]
    BY DEF HandlerInv
  <2> QED
    BY <1>2, <2>1, CallerFrame
<1> QED
  BY <1>1, <1>2

\* The handler's steps leave clients and other handlers alone.
LEMMA ServerMoves ==
  ASSUME TypeOK, NEW a \in Attempts, ServerStep(a) \/ StoreFails(a) \/ StoreCancelled(a) \/ Lose(a)
  PROVE  /\ Moves(a) /\ caller' = caller /\ keyed' = keyed /\ unique' = unique
         /\ overlapped \subseteq overlapped' /\ forgotten \subseteq forgotten'
<1>1. Moves(a)
  <2>1. request \in Requests
    BY DEF TypeOK, Requests, Places
  <2> QED
    BY <2>1 DEF Requests, ServerStep, ReceivePush, StoreNext, StoredAll, RecordKey, StoreFails,
                StoreCancelled, PassOver, Lose, Step, Moves
<1> QED
  BY <1>1 DEF ServerStep, ReceivePush, StoreNext, StoredAll, RecordKey, Record, StoreFails,
              StoreCancelled, PassOver, Lose, trackerVars, config, ghosts

\* What is known of the handler a when it moves.
Handling(a) ==
  /\ TypeOK /\ TypeOK' /\ HandlerInv /\ caller' = caller /\ Grows
  /\ a \in Attempts /\ request[a].pc # "none"

LEMMA HandlingFacts ==
  ASSUME NEW a, Handling(a)
  PROVE  /\ a[1] \in Pushes /\ HandlerHolds(a) /\ CallerHolds(a[1])
         /\ a[2] <= caller'[a[1]].attempt
         /\ (Stored(a[1]) => Stored(a[1])') /\ (Passed(a) => Passed(a)')
         /\ (Range(log))' = Range(log')
<1>1. a[1] \in Pushes /\ HandlerHolds(a) /\ CallerHolds(a[1])
  BY AttemptIs DEF Handling, HandlerInv
<1>2. a[2] <= caller'[a[1]].attempt
  BY <1>1 DEF HandlerHolds, Handling
<1>4. (Range(log))' = Range(log')
  BY DEF Range
<1>5. Stored(a[1]) => Stored(a[1])'
  BY <1>4 DEF Handling, Stored, Grows
<1>6. Passed(a) => Passed(a)'
  BY DEF Handling, Passed, Waiting, Grows
<1> QED
  BY <1>1, <1>2, <1>4, <1>5, <1>6

\* It has looked the key up.
LEMMA ReceivePushHolds ==
  ASSUME NEW a, Handling(a), ReceivePush(a)
  PROVE  HandlerHolds(a)'
<1>1. CASE a[1] \in keyed /\ Known(a[1])
  <2>1. request'[a] = [pc |-> "reply", next |-> 1]
    BY <1>1, StepType DEF Places, ReceivePush, Handling
  <2>2. Stored(a[1])' \/ (a[1] \in cut' /\ a[1] \in keyed')
    BY <1>1, HandlingFacts DEF CallerHolds, Known, Handling, Grows
  <2> QED
    BY <2>1, <2>2, HandlingFacts DEF HandlerHolds, Passed
<1>2. CASE ~(a[1] \in keyed /\ Known(a[1]))
  <2>1. request'[a] = [pc |-> "store", next |-> 1]
    BY <1>2, StepType DEF Places, ReceivePush, Handling
  <2>2. \A i \in DOMAIN Batch(a) : ~(i < 1)
    BY HandlingFacts, UniqueNames DEF Batch
  <2> QED
    BY <2>1, <2>2, HandlingFacts DEF HandlerHolds, Batch
<1> QED
  BY <1>1, <1>2

\* It has stored the next event, or found it there.
LEMMA StoreNextHolds ==
  ASSUME NEW a, Handling(a), StoreNext(a), Event(a) \in Range(log')
  PROVE  HandlerHolds(a)'
<1>1. /\ request[a].pc = "store" /\ request[a].next \in Nat /\ request[a].next >= 1
      /\ request'[a].pc = "store" /\ request'[a].next = request[a].next + 1
  BY HandlingFacts, Zenon DEF StoreNext, HandlerHolds, TypeOK, Handling
<1>2. ASSUME NEW i \in DOMAIN Batch(a), i < request'[a].next, i # request[a].next
      PROVE  i < request[a].next
  <2>1. i \in Nat
    BY HandlingFacts, UniqueNames DEF Batch
  <2> QED
    BY <1>1, <1>2, <2>1
<1>3. (\A i \in DOMAIN Batch(a) : i < request[a].next => Batch(a)[i] \in Range(log))
        => \A i \in DOMAIN Batch(a) : i < request'[a].next => Batch(a)[i] \in Range(log')
  BY <1>2 DEF Event, Handling, Grows
<1>4. request'[a].next >= 1
  BY <1>1
<1> QED
  BY <1>1, <1>3, <1>4, HandlingFacts DEF HandlerHolds, Batch

\* It has passed over an event.
LEMMA PassOverHolds ==
  ASSUME NEW a, Handling(a), PassOver(a), a[1] \in failed' \/ ~Waiting(a)
  PROVE  HandlerHolds(a)'
<1>1. request'[a].pc = "store" /\ request'[a].next >= 1
  BY HandlingFacts DEF PassOver, HandlerHolds, TypeOK, Handling
<1>2. Passed(a)'
  BY DEF PassOver, Passed, Waiting, Handling
<1> QED
  BY <1>1, <1>2, HandlingFacts DEF HandlerHolds

\* It is through with the batch.
LEMMA StoredAllHolds ==
  ASSUME NEW a, Handling(a), StoredAll(a)
  PROVE  HandlerHolds(a)'
<1>1. /\ request[a].pc = "store" /\ request[a].next \in Nat /\ request[a].next > Len(Batch(a))
      /\ request'[a] = [pc |-> IF a[1] \in keyed THEN "record" ELSE "reply", next |-> 1]
  BY StepType DEF Places, StoredAll, TypeOK, Handling
<1>2. ASSUME ~Passed(a) PROVE Stored(a[1])
  <2>1. \A i \in DOMAIN Batch(a) : i < request[a].next => Batch(a)[i] \in Range(log)
    BY <1>1, <1>2, HandlingFacts DEF HandlerHolds
  <2>2. \A i \in DOMAIN Batch(a) : i < request[a].next
    BY <1>1, HandlingFacts, UniqueNames DEF Batch
  <2> QED
    BY <2>1, <2>2 DEF Stored, Range, Batch
<1>3. Stored(a[1])' \/ Passed(a)'
  BY <1>2, HandlingFacts
<1> QED
  BY <1>1, <1>3, HandlingFacts DEF HandlerHolds, Passed, Handling, Grows

\* It has recorded the key.
LEMMA RecordKeyHolds ==
  ASSUME NEW a, Handling(a), RecordKey(a)
  PROVE  HandlerHolds(a)' /\ CallerHolds(a[1])'
<1>1. request[a].pc = "record" /\ request'[a] = [pc |-> "reply", next |-> 1]
  BY StepType DEF Places, RecordKey, Handling
<1>2. a[1] \in keyed' /\ (Stored(a[1])' \/ a[1] \in cut')
  BY <1>1, HandlingFacts DEF HandlerHolds, Handling, Grows
<1>3. HandlerHolds(a)'
  BY <1>1, <1>2, HandlingFacts DEF HandlerHolds, Passed
<1>4. CallerHolds(a[1])'
  BY <1>1, <1>2, HandlingFacts DEF CallerHolds, Handling, Grows
<1> QED
  BY <1>3, <1>4

\* The handler's steps.
LEMMA HandlerServer ==
  ASSUME TypeOK, TypeOK', HandlerInv, NEW a \in Attempts,
         ServerStep(a) \/ StoreFails(a) \/ StoreCancelled(a) \/ Lose(a)
  PROVE  HandlerInv'
<1>1. Moves(a) /\ caller' = caller /\ keyed' = keyed
  BY ServerMoves
<1>2. request[a].pc # "none"
  BY DEF ServerStep, ReceivePush, StoreNext, StoredAll, RecordKey,
         StoreFails, StoreCancelled, PassOver, Lose
<1>3. ASSUME Grows, HandlerHolds(a)', UNCHANGED keys PROVE HandlerInv'
  BY <1>1, <1>3, HandlerElsewhere DEF HandlerInv, Attempts, Moves
<1>4. ASSUME Grows PROVE Handling(a)
  BY <1>1, <1>2, <1>4 DEF Handling
<1>5. ASSUME UNCHANGED <<log, cut, failed>> PROVE Grows
  BY <1>1, <1>5 DEF Grows
<1>6. CASE ReceivePush(a)
  BY <1>3, <1>4, <1>5, <1>6, ReceivePushHolds DEF ReceivePush, trackerVars
<1>7. CASE StoreNext(a)
  <2>1. Event(a) \in Events /\ log \in Seq(Events)
    BY <1>7, EventIs DEF StoreNext, HandlerInv, HandlerHolds, TypeOK, Event, Batch
  <2>2. Range(log) \subseteq Range(log')
    BY <2>1, <1>7, LogGrows DEF StoreNext
  <2>3. Event(a) \in Range(log')
    BY <1>7, <2>1, <2>2, AppendIs DEF StoreNext, Accepts
  <2>4. Grows /\ UNCHANGED keys
    BY <1>1, <1>7, <2>2 DEF StoreNext, trackerVars, ghosts, Grows
  <2> QED
    BY <1>3, <1>4, <1>7, <2>3, <2>4, StoreNextHolds
<1>8. CASE StoreFails(a) \/ StoreCancelled(a)
  <2>1. PassOver(a) /\ failed \subseteq failed' /\ (a[1] \in failed' \/ ~Waiting(a))
    BY <1>8 DEF StoreFails, StoreCancelled
  <2>2. Grows /\ UNCHANGED keys
    BY <1>1, <2>1 DEF PassOver, Grows, trackerVars
  <2> QED
    BY <1>3, <1>4, <2>1, <2>2, PassOverHolds
<1>9. CASE StoredAll(a)
  BY <1>3, <1>4, <1>5, <1>9, StoredAllHolds DEF StoredAll, trackerVars, ghosts
<1>10. CASE RecordKey(a)
  <2>1. Grows
    BY <1>5, <1>10 DEF RecordKey, ghosts
  <2>2. keys' \subseteq keys \cup {a[1]}
    BY <1>10, AttemptIs, RecordType DEF RecordKey, Keys
  <2> QED
    BY <1>1, <1>4, <1>10, <2>1, <2>2, RecordKeyHolds, HandlerElsewhere DEF HandlerInv, Attempts, Moves
<1>11. CASE Lose(a)
  <2>1. request'[a] = [pc |-> "gone", next |-> 1] /\ Grows /\ UNCHANGED keys
    BY <1>5, <1>11, StepType DEF Places, Lose, trackerVars, ghosts
  <2>2. HandlerHolds(a)'
    BY <1>4, <2>1, HandlingFacts DEF HandlerHolds
  <2> QED
    BY <1>3, <2>1, <2>2
<1> QED
  BY <1>6, <1>7, <1>8, <1>9, <1>10, <1>11 DEF ServerStep

LEMMA HandlerNext == TypeOK /\ HandlerInv /\ [Next]_vars => HandlerInv'
<1> SUFFICES ASSUME TypeOK, HandlerInv, [Next]_vars PROVE HandlerInv'
  OBVIOUS
<1>0. TypeOK'
  BY TypeNext
<1>1. ASSUME Grows, caller' = caller, request' = request, keys' \cap Pushes \subseteq keys
      PROVE  HandlerInv'
  BY <1>0, <1>1, HandlerElsewhere DEF HandlerInv, Attempts
<1>2. ASSUME NEW c \in Others, OtherPush(c) PROVE HandlerInv'
  <2>1. c \in Keys /\ c \in Events /\ c \notin Pushes
    BY UniqueNames DEF Keys, Events
  <2>2. keys' \subseteq keys \cup {c}
    BY <1>2, <2>1, RecordType DEF OtherPush
  <2>3. Range(log) \subseteq Range(log')
    BY <1>2, <2>1, LogGrows DEF OtherPush
  <2>4. Grows
    BY <1>0, <1>2, <2>3 DEF OtherPush, config, ghosts, Grows
  <2> QED
    BY <1>1, <1>2, <2>1, <2>2, <2>4 DEF OtherPush
<1>3. ASSUME NEW key \in Keys, Expire(key) PROVE HandlerInv'
  BY <1>0, <1>1, <1>3 DEF Expire, Trouble, config, ghosts, Grows
<1>4. CASE Cleanup
  <2>1. keys' \subseteq keys
    BY <1>4 DEF Cleanup
  <2> QED
    BY <1>0, <1>1, <1>4, <2>1 DEF Cleanup, config, ghosts, Grows
<1>5. CASE Restart
  <2>1. Grows /\ caller' = caller
    BY <1>0, <1>5 DEF Restart, Trouble, config, ghosts, Grows
  <2>2. keys' = {}
    BY <1>5 DEF Restart
  <2>3. ASSUME NEW a \in Attempts PROVE HandlerHolds(a)'
    <3>1. HandlerHolds(a)
      BY DEF HandlerInv
    <3>2. CASE request[a].pc = "none"
      BY <1>0, <1>5, <2>1, <3>2, HandlerElsewhere DEF Restart
    <3>3. CASE request[a].pc # "none"
      <4>1. request'[a] = [pc |-> "gone", next |-> 1]
        BY <1>5, <3>3 DEF Restart
      <4> QED
        BY <2>1, <3>1, <3>3, <4>1 DEF HandlerHolds
    <3> QED
      BY <3>2, <3>3
  <2> QED
    BY <1>0, <2>1, <2>2, <2>3, HandlerElsewhere DEF HandlerInv, Attempts
<1>6. CASE Pull
  BY <1>0, <1>1, <1>6 DEF Pull, trackerVars, ghosts, Grows
<1>7. CASE UNCHANGED vars
  BY <1>0, <1>1, <1>7 DEF vars, Grows
<1> QED
  BY <1>0, <1>2, <1>3, <1>4, <1>5, <1>6, <1>7, HandlerClient, HandlerServer DEF Next

(****************************************************************************)
(* What has a key is stored once.                                            *)
(****************************************************************************)
\* No handler of the batch moves, and none enters or leaves the critical part.
Calm(p) == \A n \in 1..MaxAttempts :
             \/ request'[<<p, n>>] = request[<<p, n>>]
             \/ /\ request[<<p, n>>].pc \notin {"store", "record"}
                /\ request'[<<p, n>>].pc \notin {"store", "record"}

\* The store is as it was but for an event of somebody else.
Spared(p) == \/ log' = log
             \/ \E e \in Events : e \notin Range(EventsOf[p]) /\ log' = Append(log, e)

LEMMA OnceFrame ==
  ASSUME TypeOK, NEW p \in Pushes, StoredOnce(p), Calm(p), Spared(p),
         p \in keys' <=> p \in keys
  PROVE  StoredOnce(p)'
<1>1. InHandler(p)' = InHandler(p)
  BY DEF InHandler, Calm
<1>2. ASSUME NEW n \in InHandler(p) PROVE request'[<<p, n>>] = request[<<p, n>>]
  BY DEF InHandler, Calm
<1>3. /\ \A e \in Range(EventsOf[p]) : e \in (Range(log))' <=> e \in Range(log)
      /\ NoneTwice(p)'
  <2>1. CASE log' = log
    BY <2>1 DEF StoredOnce, NoneTwice, Range
  <2>2. ASSUME NEW e \in Events, e \notin Range(EventsOf[p]), log' = Append(log, e)
        PROVE  <1>3!:
    <3>1. log \in Seq(Events)
      BY DEF TypeOK
    <3>2. (Range(log))' = Range(log) \cup {e}
      BY <2>2, <3>1, AppendIs DEF Range
    <3>3. \A i \in DOMAIN log' : log'[i] \in Range(EventsOf[p]) => i \in DOMAIN log /\ log'[i] = log[i]
      BY <2>2, <3>1
    <3>4. NoneTwice(p)'
      BY <3>3 DEF StoredOnce, NoneTwice
    <3> QED
      BY <2>2, <3>2, <3>4
  <2> QED
    BY <2>1, <2>2 DEF Spared
<1>4. NoneStored(p) => NoneStored(p)'
  BY <1>3 DEF NoneStored
<1>5. ASSUME NEW n \in InHandler(p), NoneAhead(p, n) PROVE NoneAhead(p, n)'
  <2>1. \A i \in DOMAIN EventsOf[p] : EventsOf[p][i] \in Range(EventsOf[p])
    BY DEF Range
  <2> QED
    BY <1>2, <1>3, <1>5, <2>1 DEF NoneAhead
<1>6. OneInHandler(p) => OneInHandler(p)'
  BY <1>1 DEF OneInHandler
<1> QED
  BY <1>1, <1>3, <1>4, <1>5, <1>6 DEF StoredOnce

\* What is to be shown of a batch with a handler in the critical part.
LEMMA OnceAfter ==
  ASSUME NEW p \in Pushes, NEW m \in InHandler(p)', \A n \in InHandler(p)' : n = m,
         p \notin keys', NoneTwice(p)', NoneAhead(p, m)'
  PROVE  StoredOnce(p)'
BY DEF StoredOnce, OneInHandler

\* What every step but a restart keeps.
Steady == /\ keyed' = keyed /\ unique' = unique
        /\ overlapped \subseteq overlapped' /\ forgotten \subseteq forgotten'

\* What every step brings about that is not about one batch.
Orderly == stale' \subseteq forgotten' /\ (unique' => IsInjective(log'))

LEMMA OrderlyAfter ==
  ASSUME Orderly, \A p \in Pushes : Guarded(p)' => StoredOnce(p)'
  PROVE  DuplicateInv'
<1>1. IsInjective(log)' <=> IsInjective(log')
  BY DEF IsInjective
<1> QED
  BY <1>1 DEF Orderly, DuplicateInv

\* Guarded batches were guarded before.
LEMMA GuardedBefore ==
  ASSUME Steady, NEW p, Guarded(p)'
  PROVE  Guarded(p) /\ p \notin forgotten' /\ p \notin overlapped' /\ p \in keyed
BY DEF Steady, Guarded

\* A handler's step leaves the other batches' handlers alone.
LEMMA OthersCalm ==
  ASSUME NEW a \in Attempts, Moves(a), NEW p \in Pushes, p # a[1]
  PROVE  Calm(p)
BY AttemptIs DEF Moves, Calm

LEMMA DuplicateInit == Init => DuplicateInv
<1> SUFFICES ASSUME Init PROVE DuplicateInv
  OBVIOUS
<1>1. IsInjective(log) /\ stale \subseteq forgotten
  BY DEF Init, IsInjective
<1>2. ASSUME NEW p \in Pushes PROVE StoredOnce(p)
  <2>1. InHandler(p) = {}
    BY AttemptIs DEF Init, InHandler, NoRequest
  <2>2. Range(log) = {} /\ DOMAIN log = {}
    BY DEF Init, Range
  <2> QED
    BY <2>1, <2>2 DEF StoredOnce, OneInHandler, NoneStored, NoneTwice
<1> QED
  BY <1>1, <1>2 DEF DuplicateInv

\* Steps in which no handler enters, moves in or leaves the critical part.
LEMMA DuplicateCalm ==
  ASSUME TypeOK, DuplicateInv, Steady, Orderly,
         \A p \in Pushes : Guarded(p)' =>
            Calm(p) /\ Spared(p) /\ (p \in keys' <=> p \in keys)
  PROVE  DuplicateInv'
<1>1. ASSUME NEW p \in Pushes, Guarded(p)' PROVE StoredOnce(p)'
  <2>1. StoredOnce(p)
    BY <1>1, GuardedBefore DEF DuplicateInv
  <2> QED
    BY <1>1, <2>1, OnceFrame
<1> QED
  BY <1>1, OrderlyAfter

\* Of the other batches a handler's step may only forget keys.
Harmless(a) ==
  \A q \in Pushes : q # a[1] /\ q \notin forgotten' => Spared(q) /\ (q \in keys' <=> q \in keys)

\* What remains to be shown is of its own batch.
Keeps(a) == Guarded(a[1])' /\ StoredOnce(a[1]) => StoredOnce(a[1])'

LEMMA OneHandler ==
  ASSUME TypeOK, DuplicateInv, NEW a \in Attempts, Moves(a), Steady, Orderly, Harmless(a), Keeps(a)
  PROVE  DuplicateInv'
<1>1. ASSUME NEW q \in Pushes, Guarded(q)' PROVE StoredOnce(q)'
  <2>1. StoredOnce(q) /\ q \notin forgotten'
    BY <1>1, GuardedBefore DEF DuplicateInv
  <2>2. CASE q # a[1]
    BY <2>1, <2>2, OthersCalm, OnceFrame DEF Harmless
  <2> QED
    BY <1>1, <2>1, <2>2 DEF Keeps
<1> QED
  BY <1>1, OrderlyAfter

\* The other handlers of the batch stay where they are.
LEMMA SameBatch ==
  ASSUME NEW a \in Attempts, Moves(a)
  PROVE  /\ a[1] \in Pushes /\ a[2] \in 1..MaxAttempts /\ <<a[1], a[2]>> = a
         /\ \A n \in 1..MaxAttempts : n # a[2] => request'[<<a[1], n>>] = request[<<a[1], n>>]
BY AttemptIs DEF Moves

\* A handler that stays in the critical part is its only one there.
LEMMA StaysIn ==
  ASSUME NEW a \in Attempts, Moves(a), StoredOnce(a[1]),
         request[a].pc \in {"store", "record"}, request'[a].pc \in {"store", "record"}
  PROVE  a[2] \in InHandler(a[1])' /\ (\A n \in InHandler(a[1])' : n = a[2]) /\ a[1] \notin keys
<1>1. InHandler(a[1])' = InHandler(a[1]) /\ a[2] \in InHandler(a[1])
  BY SameBatch DEF InHandler
<1> QED
  BY <1>1 DEF StoredOnce, OneInHandler

\* The next event of the batch, if it is stored, is stored for the first time.
LEMMA StoresOnce ==
  ASSUME TypeOK, HandlerInv, NEW a \in Attempts, StoreNext(a), Moves(a), StoredOnce(a[1])
  PROVE  StoredOnce(a[1])'
<1> DEFINE p == a[1]
           e == Event(a)
           k == request[a].next
<1>0. p \in Pushes /\ a[2] \in 1..MaxAttempts /\ <<p, a[2]>> = a
  BY SameBatch
<1>1. /\ request[a].pc = "store" /\ k \in Nat /\ k >= 1 /\ k <= Len(Batch(a))
      /\ request'[a].pc = "store" /\ request'[a].next = k + 1 /\ keys' = keys
  BY DEF StoreNext, HandlerInv, HandlerHolds, TypeOK, trackerVars
<1>2. k \in DOMAIN EventsOf[p] /\ e = EventsOf[p][k] /\ e \in Events
  BY <1>1, EventIs DEF Event, Batch
<1>3. log \in Seq(Events) /\ log' = IF Accepts(e) THEN Append(log, e) ELSE log
  BY DEF TypeOK, StoreNext
<1> HIDE DEF e
<1>4. a[2] \in InHandler(p) /\ a[2] \in InHandler(p)' /\ (\A n \in InHandler(p)' : n = a[2]) /\ p \notin keys
  BY <1>0, <1>1, StaysIn, Zenon DEF InHandler
<1>5. \A i \in DOMAIN EventsOf[p] : i >= k => EventsOf[p][i] \notin Range(log)
  BY <1>0, <1>1, <1>4 DEF StoredOnce, NoneAhead
<1> HIDE DEF k
<1>6. e \notin Range(log) /\ log' = Append(log, e)
  BY <1>1, <1>2, <1>3, <1>5 DEF Accepts
<1>7. Range(log') = Range(log) \cup {e}
  BY <1>2, <1>3, <1>6, AppendIs
<1>8. ASSUME NEW i \in DOMAIN EventsOf[p], i >= request'[a].next
      PROVE  EventsOf[p][i] \notin (Range(log))'
  <2>0. (Range(log))' = Range(log')
    BY DEF Range
  <2>1. EventsOf[p] \in Seq(Range(EventsOf[p])) /\ IsInjective(EventsOf[p])
    BY <1>0, UniqueNames
  <2>2. i >= k /\ i # k
    BY <1>1, <1>8, <2>1
  <2> QED
    <3>1. EventsOf[p][i] # e
      BY <1>2, <2>1, <2>2 DEF IsInjective
    <3> QED
      BY <1>5, <1>7, <2>0, <2>2, <3>1
<1>9. NoneTwice(p)'
  <2>1. /\ \A i \in DOMAIN log' : i = Len(log) + 1 \/ (i \in DOMAIN log /\ log'[i] = log[i])
        /\ log'[Len(log) + 1] = e
    BY <1>2, <1>3, <1>6
  <2>2. \A i \in DOMAIN log : log[i] # e
    BY <1>6 DEF Range
  <2> QED
    BY <2>1, <2>2 DEF StoredOnce, NoneTwice
<1>10. NoneAhead(p, a[2])'
  BY <1>0, <1>8 DEF NoneAhead
<1> QED
  BY <1>0, <1>1, <1>4, <1>9, <1>10, OnceAfter

\* Going on without storing anything.
LEMMA GoesOn ==
  ASSUME NEW a \in Attempts, Moves(a), StoredOnce(a[1]), UNCHANGED <<log, keys>>,
         request[a].pc = "store", request'[a].pc \in {"store", "record"},
         request'[a].pc = "store" =>
           \A i \in DOMAIN EventsOf[a[1]] : i >= request'[a].next => i >= request[a].next
  PROVE  StoredOnce(a[1])'
<1>1. a[2] \in InHandler(a[1])' /\ (\A n \in InHandler(a[1])' : n = a[2]) /\ a[1] \notin keys'
  BY StaysIn
<1>2. a[2] \in InHandler(a[1])
  BY SameBatch DEF InHandler
<1>3. NoneTwice(a[1])' /\ (Range(log))' = Range(log)
  BY DEF StoredOnce, NoneTwice, Range
<1>4. NoneAhead(a[1], a[2])'
  <2>1. NoneAhead(a[1], a[2]) /\ <<a[1], a[2]>> = a
    BY <1>2, SameBatch DEF StoredOnce
  <2> QED
    BY <1>3, <2>1 DEF NoneAhead
<1> QED
  BY <1>1, <1>3, <1>4, SameBatch, OnceAfter

\* The handler that enters is the first, and nothing is stored yet.
LEMMA Enters ==
  ASSUME TypeOK, DuplicateInv, NEW a \in Attempts, Moves(a), ReceivePush(a), Guarded(a[1])',
         StoredOnce(a[1])
  PROVE  StoredOnce(a[1])'
<1> DEFINE p == a[1]
<1>0. p \in Pushes /\ a[2] \in 1..MaxAttempts /\ <<p, a[2]>> = a
  BY SameBatch
<1>1. /\ UNCHANGED <<log, keys>> /\ request[a].pc = "sent"
      /\ p \notin stale /\ p \notin overlapped' /\ p \in keyed
  BY DEF ReceivePush, trackerVars, Guarded, DuplicateInv
<1>2. CASE p \in keys
  <2>1. request'[a] = [pc |-> "reply", next |-> 1]
    BY <1>1, <1>2, StepType DEF Places, ReceivePush, Known
  <2>2. Calm(p)
    BY <1>1, <2>1, SameBatch DEF Calm
  <2> QED
    BY <1>0, <1>1, <2>2, OnceFrame DEF Spared
<1>3. CASE p \notin keys
  <2>1. /\ request'[a] = [pc |-> "store", next |-> 1]
        /\ overlapped' = IF InHandler(p) = {} THEN overlapped ELSE overlapped \cup {p}
    BY <1>3, StepType DEF Places, ReceivePush, Known
  <2>2. InHandler(p) = {}
    BY <1>1, <2>1
  <2>3. a[2] \in InHandler(p)' /\ \A n \in InHandler(p)' : n = a[2]
    BY <2>1, <2>2, SameBatch DEF InHandler
  <2>4. NoneStored(p) /\ NoneTwice(p)
    BY <1>3, <2>2 DEF StoredOnce
  <2>5. NoneAhead(p, a[2])'
    BY <1>1, <2>4 DEF NoneStored, NoneAhead, Range
  <2>6. NoneTwice(p)'
    BY <1>1, <2>4 DEF NoneTwice
  <2> QED
    BY <1>0, <1>1, <1>3, <2>3, <2>5, <2>6, OnceAfter
<1> QED
  BY <1>2, <1>3

\* The handler that leaves has recorded the key.
LEMMA Leaves ==
  ASSUME NEW a \in Attempts, Moves(a), StoredOnce(a[1]), log' = log, a[1] \in keys',
         request[a].pc = "record", request'[a].pc = "reply"
  PROVE  StoredOnce(a[1])'
<1>1. a[2] \in InHandler(a[1])
  BY SameBatch DEF InHandler
<1>2. InHandler(a[1])' = {}
  <2>1. \A n \in InHandler(a[1]) : n = a[2]
    BY <1>1 DEF StoredOnce, OneInHandler
  <2> QED
    BY <2>1, SameBatch DEF InHandler
<1>3. NoneTwice(a[1])'
  BY DEF StoredOnce, NoneTwice
<1> QED
  BY <1>2, <1>3 DEF StoredOnce, OneInHandler

\* A handler's steps in the critical part.
LEMMA DuplicateServer ==
  ASSUME TypeOK, HandlerInv, DuplicateInv, NEW a \in Attempts,
         ServerStep(a) \/ StoreFails(a) \/ StoreCancelled(a) \/ Lose(a)
  PROVE  DuplicateInv'
<1> DEFINE p == a[1]
<1>1. Moves(a) /\ Steady
  BY ServerMoves DEF Steady
<1>2. p \in Pushes /\ stale \subseteq forgotten /\ (unique => IsInjective(log))
  BY AttemptIs DEF DuplicateInv
<1>3. ASSUME Orderly, Harmless(a), Keeps(a) PROVE DuplicateInv'
  BY <1>1, <1>3, OneHandler
<1>4. ASSUME UNCHANGED <<log, keys, stale>>, Keeps(a) PROVE DuplicateInv'
  <2>1. Orderly
    BY <1>1, <1>2, <1>4 DEF Steady, Orderly
  <2>2. Harmless(a)
    BY <1>4 DEF Harmless, Spared
  <2> QED
    BY <1>3, <1>4, <2>1, <2>2
<1>5. CASE ReceivePush(a)
  <2>1. UNCHANGED <<log, keys, stale>>
    BY <1>5 DEF ReceivePush, trackerVars
  <2>2. Keeps(a)
    BY <1>1, <1>5, Enters DEF Keeps
  <2> QED
    BY <1>4, <2>1, <2>2
<1>6. CASE StoreNext(a)
  <2> DEFINE e == Event(a)
             i == request[a].next
  <2>1. i \in Nat /\ i >= 1 /\ i <= Len(Batch(a))
    BY <1>6 DEF StoreNext, HandlerInv, HandlerHolds, TypeOK
  <2>2. e \in Range(EventsOf[p]) /\ e \in Events
    <3> HIDE DEF i
    <3>1. EventsOf[p][i] \in Range(EventsOf[p]) /\ EventsOf[p][i] \in Events
      BY <2>1, EventIs
    <3> QED
      BY <3>1 DEF Event, Batch, i
  <2> HIDE DEF e
  <2>3. UNCHANGED <<keys, stale>> /\ log' = IF Accepts(e) THEN Append(log, e) ELSE log
    BY <1>6 DEF StoreNext, trackerVars, e
  <2>4. Orderly
    <3>1. log \in Seq(Events)
      BY DEF TypeOK
    <3>2. unique => IsInjective(log')
      BY <1>2, <2>2, <2>3, <3>1, AppendIs DEF Accepts
    <3> QED
      BY <1>1, <1>2, <2>3, <3>2 DEF Steady, Orderly
  <2>5. Harmless(a)
    <3>1. ASSUME NEW q \in Pushes, q # p PROVE e \notin Range(EventsOf[q])
      BY <1>2, <2>2, <3>1, UniqueNames, Zenon
    <3> QED
      BY <2>2, <2>3, <3>1 DEF Harmless, Spared
  <2>6. Keeps(a)
    BY <1>1, <1>6, StoresOnce DEF Keeps
  <2> QED
    BY <1>3, <2>4, <2>5, <2>6
<1>7. CASE StoreFails(a) \/ StoreCancelled(a)
  <2>1. PassOver(a)
    BY <1>7 DEF StoreFails, StoreCancelled
  <2>2. /\ request[a].pc = "store" /\ request[a].next \in Nat
        /\ request'[a].pc = "store" /\ request'[a].next = request[a].next + 1
    BY <2>1 DEF PassOver, TypeOK
  <2>3. UNCHANGED <<log, keys, stale>>
    BY <2>1 DEF PassOver, trackerVars
  <2>4. \A i \in DOMAIN EventsOf[p] : i >= request'[a].next => i >= request[a].next
    BY <1>2, <2>2, UniqueNames
  <2>5. Keeps(a)
    BY <1>1, <2>2, <2>3, <2>4, GoesOn DEF Keeps
  <2> QED
    BY <1>4, <2>3, <2>5
<1>8. CASE StoredAll(a)
  <2>1. request[a].pc = "store" /\ UNCHANGED <<log, keys, stale, keyed>>
    BY <1>8 DEF StoredAll, trackerVars
  <2>2. ASSUME Guarded(p)' PROVE request'[a] = [pc |-> "record", next |-> 1]
    BY <1>8, <2>1, <2>2, StepType DEF Places, StoredAll, Guarded
  <2>3. Keeps(a)
    BY <1>1, <2>1, <2>2, GoesOn DEF Keeps
  <2> QED
    BY <1>4, <2>1, <2>3
<1>9. CASE RecordKey(a)
  <2>1. /\ request[a].pc = "record" /\ UNCHANGED log /\ Record(p)
        /\ request'[a] = [pc |-> "reply", next |-> 1]
    BY <1>9, StepType DEF Places, RecordKey
  <2>2. p \in keys' /\ keys' \subseteq keys \cup {p}
    BY <1>2, <2>1, RecordType DEF Keys
  <2>3. stale' \subseteq forgotten' /\ keys \ keys' \subseteq forgotten'
    BY <1>2, <2>1 DEF Record
  <2>4. Orderly
    BY <1>1, <1>2, <2>1, <2>3 DEF Steady, Orderly
  <2>5. Harmless(a)
    BY <2>1, <2>2, <2>3 DEF Harmless, Spared
  <2>6. Keeps(a)
    BY <1>1, <2>1, <2>2, Leaves DEF Keeps
  <2> QED
    BY <1>3, <2>4, <2>5, <2>6
<1>10. CASE Lose(a)
  <2>1. /\ request[a].pc \in {"sent", "reply"} /\ UNCHANGED <<log, keys, stale>>
        /\ request'[a] = [pc |-> "gone", next |-> 1]
    BY <1>10, StepType DEF Places, Lose, trackerVars
  <2>2. Calm(p)
    BY <1>1, <2>1, SameBatch DEF Calm
  <2>3. Keeps(a)
    BY <1>2, <2>1, <2>2, OnceFrame DEF Keeps, Spared
  <2> QED
    BY <1>4, <2>1, <2>3
<1> QED
  BY <1>5, <1>6, <1>7, <1>8, <1>9, <1>10 DEF ServerStep

LEMMA DuplicateNext == TypeOK /\ HandlerInv /\ DuplicateInv /\ [Next]_vars => DuplicateInv'
<1> SUFFICES ASSUME TypeOK, HandlerInv, DuplicateInv, [Next]_vars PROVE DuplicateInv'
  OBVIOUS
<1> USE HttpAssumption
<1>0. stale \subseteq forgotten /\ (unique => IsInjective(log))
  BY DEF DuplicateInv
<1>1. ASSUME UNCHANGED <<keyed, unique, overlapped, keys, log>>, forgotten \subseteq forgotten',
             stale' \subseteq forgotten', \A p \in Pushes : Calm(p)
      PROVE  DuplicateInv'
  <2>1. Steady /\ Orderly
    BY <1>0, <1>1 DEF Steady, Orderly
  <2>2. \A p \in Pushes : Spared(p) /\ (p \in keys' <=> p \in keys)
    BY <1>1 DEF Spared
  <2> QED
    BY <1>1, <2>1, <2>2, DuplicateCalm
<1>2. ASSUME request' = request PROVE \A p \in Pushes : Calm(p)
  BY <1>2 DEF Calm
<1>3. ASSUME NEW p \in Pushes, ClientStep(p) \/ PushTimesOut(p) PROVE DuplicateInv'
  <2>1. UNCHANGED <<keyed, unique, overlapped, keys, log, forgotten, stale>>
    BY <1>3 DEF ClientStep, Ask, AskLatestVersion, VersionIsRefused, SyncAgain, SendPush, ReceiveReply, PushTimesOut, trackerVars, ghosts
  <2>2. \A q \in Pushes : Calm(q)
    <3>1. CASE Ask(p) \/ PushTimesOut(p)
      BY <1>2, <3>1 DEF Ask, AskLatestVersion, VersionIsRefused, SyncAgain, PushTimesOut
    <3>2. ASSUME NEW a \in Attempts, Moves(a), request[a].pc \notin {"store", "record"},
                 request'[a].pc \notin {"store", "record"}, NEW q \in Pushes
          PROVE  Calm(q)
      <4>1. CASE q # a[1]
        BY <3>2, <4>1, OthersCalm
      <4> QED
        BY <3>2, <4>1, SameBatch DEF Calm
    <3>3. CASE SendPush(p)
      BY <3>2, <3>3, Sends
    <3>4. CASE ReceiveReply(p)
      BY <3>2, <3>4, Replies
    <3> QED
      BY <1>3, <3>1, <3>3, <3>4 DEF ClientStep
  <2> QED
    BY <1>0, <1>1, <2>1, <2>2
<1>4. ASSUME NEW c \in Others, OtherPush(c) PROVE DuplicateInv'
  <2>1. c \in Keys /\ c \in Events /\ c \notin Pushes
    BY UniqueNames DEF Keys, Events
  <2>2. keys' \subseteq keys \cup {c}
    BY <1>4, <2>1, RecordType DEF OtherPush
  <2>3. /\ stale' \subseteq forgotten' /\ keys \ keys' \subseteq forgotten'
        /\ forgotten \subseteq forgotten' /\ UNCHANGED <<keyed, unique, overlapped, request>>
        /\ log' = Append(log, c) /\ c \notin Range(log)
    BY <1>0, <1>4 DEF OtherPush, Record, config, ghosts
  <2>4. Steady /\ Orderly
    <3>1. log \in Seq(Events)
      BY DEF TypeOK
    <3>2. unique => IsInjective(log')
      BY <1>0, <2>1, <2>3, <3>1, AppendIs
    <3> QED
      BY <2>3, <3>2 DEF Steady, Orderly
  <2>5. ASSUME NEW p \in Pushes, Guarded(p)'
        PROVE  Calm(p) /\ Spared(p) /\ (p \in keys' <=> p \in keys)
    <3>1. p \notin forgotten'
      BY <2>5 DEF Guarded
    <3>2. c \notin Range(EventsOf[p])
      BY UniqueNames
    <3>3. Spared(p)
      BY <2>1, <2>3, <3>2 DEF Spared
    <3> QED
      BY <1>2, <2>1, <2>2, <2>3, <3>1, <3>3
  <2> QED
    BY <2>4, <2>5, DuplicateCalm
<1>5. ASSUME NEW key \in Keys, Expire(key) PROVE DuplicateInv'
  BY <1>0, <1>1, <1>2, <1>5 DEF Expire, config, ghosts
<1>6. CASE Cleanup
  <2>1. keys' = keys \ stale
    BY <1>6 DEF Cleanup
  <2>2. UNCHANGED <<keyed, unique, overlapped, request, log, forgotten>> /\ stale' = {}
    BY <1>6 DEF Cleanup, config, ghosts
  <2>3. ASSUME NEW p \in Pushes, Guarded(p)'
        PROVE  Calm(p) /\ Spared(p) /\ (p \in keys' <=> p \in keys)
    <3>1. p \notin stale
      BY <1>0, <2>2, <2>3 DEF Guarded
    <3> QED
      BY <1>2, <2>1, <2>2, <3>1 DEF Spared
  <2>4. Steady /\ Orderly
    BY <1>0, <2>2 DEF Steady, Orderly
  <2> QED
    BY <2>3, <2>4, DuplicateCalm
<1>7. CASE Restart
  <2>1. forgotten' = Keys /\ stale' = {} /\ UNCHANGED <<unique, log>>
    BY <1>7 DEF Restart, config
  <2>2. \A p \in Pushes : ~Guarded(p)'
    BY <2>1 DEF Guarded, Keys
  <2>3. Orderly
    BY <1>0, <2>1 DEF Orderly
  <2> QED
    BY <2>2, <2>3, OrderlyAfter
<1>8. CASE Pull
  BY <1>0, <1>1, <1>2, <1>8 DEF Pull, trackerVars, ghosts
<1>9. CASE UNCHANGED vars
  BY <1>0, <1>1, <1>2, <1>9 DEF vars
<1> QED
  BY <1>3, <1>4, <1>5, <1>6, <1>7, <1>8, <1>9, DuplicateServer DEF Next

(****************************************************************************)
(* The theorems.                                                             *)
(****************************************************************************)
LEMMA HttpInv == Spec => [](TypeOK /\ HandlerInv /\ DuplicateInv)
<1>1. Init => TypeOK /\ HandlerInv /\ DuplicateInv
  BY TypeInit, HandlerInit, DuplicateInit
<1>2. TypeOK /\ HandlerInv /\ DuplicateInv /\ [Next]_vars => (TypeOK /\ HandlerInv /\ DuplicateInv)'
  BY TypeNext, HandlerNext, DuplicateNext
<1> QED
  BY <1>1, <1>2, PTL DEF Spec

\* Whatever is lost, late, repeated or restarted: a batch Push returned nil for
\* is in the store, unless a handler passed over events of it and either the
\* store failed or the key was recorded all the same (handlePush).
THEOREM Cuts == Spec => []OnlyCutsLose
<1>1. HandlerInv => OnlyCutsLose
  BY DEF HandlerInv, CallerHolds, Stored, OnlyCutsLose
<1> QED
  BY <1>1, HttpInv, PTL

\* A batch with an idempotency key, and any batch in a store with unique IDs, is
\* stored once as long as no two handlers of it overlap and the tracker has not
\* lost its key (IdempotencyTracker).
THEOREM Races == Spec => []OnlyRacesDuplicate
<1>1. TypeOK /\ DuplicateInv => OnlyRacesDuplicate
  <2>1. SUFFICES ASSUME TypeOK, DuplicateInv, NEW p \in Pushes, NEW e \in Range(EventsOf[p]),
                        p \notin overlapped, p \notin forgotten, p \in keyed \/ unique
                 PROVE  ~StoredAgain(e)
    BY DEF OnlyRacesDuplicate, TypeOK
  <2>2. CASE unique
    BY <2>1, <2>2 DEF DuplicateInv, IsInjective, StoredAgain
  <2>3. CASE p \in keyed
    <3>1. StoredOnce(p)
      BY <2>1, <2>3 DEF DuplicateInv, Guarded
    <3> QED
      BY <2>1, <3>1 DEF StoredOnce, NoneTwice, StoredAgain
  <2> QED
    BY <2>1, <2>2, <2>3
<1> QED
  BY <1>1, HttpInv, PTL
================================================================================
