------------------------- MODULE SyncManagerProofs -------------------------
(***************************************************************************)
(* Proofs about SyncManager, whatever fails and however often it is        *)
(* retried: with one writer and any number of readers, the replicas are    *)
(* prefixes of the writer's log (OneWayPrefixes).                          *)
(***************************************************************************)
EXTENDS SyncManager, Integers, FiniteSetTheorems, TLAPS

USE ZenonT(3), SMTT(30)

(***************************************************************************)
(* What the operators on sequences return, and Pick for an interval.       *)
(***************************************************************************)
\* What the operators on sequences return.
LEMMA SeqEmpty ==
  ASSUME NEW S
  PROVE  <<>> \in Seq(S) /\ Len(<<>>) = 0 /\ \A s \in Seq(S) : s # <<>> => Len(s) \in Nat \ {0}
OBVIOUS

LEMMA SeqElement ==
  ASSUME NEW S, NEW s \in Seq(S), NEW n \in 1..Len(s)
  PROVE  s[n] \in S
OBVIOUS

LEMMA SeqConcat ==
  ASSUME NEW S, NEW s \in Seq(S), NEW t \in Seq(S)
  PROVE  /\ s \o t \in Seq(S) /\ Len(s \o t) = Len(s) + Len(t)
         /\ \A i \in 1..Len(s) + Len(t) : (s \o t)[i] = IF i <= Len(s) THEN s[i] ELSE t[i - Len(s)]
OBVIOUS

LEMMA SeqSub ==
  ASSUME NEW S, NEW s, NEW m \in Int, NEW n \in Int, \A i \in m..n : s[i] \in S
  PROVE  /\ SubSeq(s, m, n) \in Seq(S)
         /\ Len(SubSeq(s, m, n)) = IF m <= n THEN n - m + 1 ELSE 0
         /\ \A i \in 1..(n - m + 1) : SubSeq(s, m, n)[i] = s[m + i - 1]
OBVIOUS

\* A function on 1..n is a sequence of length n.
LEMMA FunctionIsSeq ==
  ASSUME NEW S, NEW n \in Nat, NEW f \in [1..n -> S]
  PROVE  f \in Seq(S) /\ Len(f) = n /\ DOMAIN f = 1..n
OBVIOUS

\* An interval of positions.
LEMMA PickInterval ==
  ASSUME NEW s, NEW a \in Nat, NEW b \in Nat, a <= b
  PROVE  Pick(s, (a+1)..b) = [k \in 1..(b-a) |-> s[a+k]]
<1> DEFINE I == (a+1)..b
<1>0. a + 1 \in Int /\ b \in Int
  OBVIOUS
<1>1. Cardinality(I) = b - a
  <2>1. Cardinality(I) = IF a + 1 > b THEN 0 ELSE b - (a + 1) + 1
    BY <1>0, FS_Interval, Zenon
  <2> QED
    BY <2>1
<1>2. ASSUME NEW k \in 1..(b-a)
      PROVE  (CHOOSE i \in I : Cardinality({j \in I : j <= i}) = k) = a + k
  <2>1. \A i \in I : {j \in I : j <= i} = (a+1)..i
    OBVIOUS
  <2>2. ASSUME NEW i \in I PROVE Cardinality({j \in I : j <= i}) = i - a
    <3>1. Cardinality((a+1)..i) = i - a
      BY <1>0, FS_Interval
    <3> QED
      BY <2>1, <3>1, Zenon
  <2>3. a + k \in I /\ \A i \in I : Cardinality({j \in I : j <= i}) = k <=> i = a + k
    <3>1. \A i \in I : i - a = k <=> i = a + k
      OBVIOUS
    <3>2. a + k \in I
      OBVIOUS
    <3> HIDE DEF I
    <3> QED
      BY <2>2, <3>1, <3>2
  <2> HIDE DEF I
  <2> QED
    BY <2>3
<1> HIDE DEF I
<1>3. Pick(s, I) = [k \in 1..(b-a) |-> s[CHOOSE i \in I : Cardinality({j \in I : j <= i}) = k]]
  BY <1>1 DEF Pick
<1>4. Pick(s, I) = [k \in 1..(b-a) |-> s[a+k]]
  BY <1>2, <1>3, Zenon
<1> QED
  BY <1>4 DEF I

\* No position.
LEMMA PickNothing ==
  ASSUME NEW s
  PROVE  Pick(s, {}) = <<>>
<1>1. Cardinality({}) = 0
  BY FS_EmptySet
<1>2. Pick(s, {}) \in [1..0 -> {}]
  BY <1>1 DEF Pick
<1>3. Pick(s, {}) \in Seq({}) /\ Len(Pick(s, {})) = 0
  BY <1>2, FunctionIsSeq
<1> QED
  BY <1>3

\* The deployment the theorem is about: n0 is PushOnly and the only node where
\* the application stores events, the others are PullOnly, each manager is
\* driven by one goroutine that calls Sync, and there is no filter.
OneWay(n0) ==
  /\ n0 \in Nodes /\ Mode[n0] = "push"
  /\ \A n \in Nodes \ {n0} : Mode[n] = "pull" /\ Origin[n] = {}
  /\ \A v, w \in Workers : NodeOf[v] = NodeOf[w] => v = w
  /\ Operations \subseteq {"sync"}
  /\ Accepts = Events

(***************************************************************************)
(* The shape of the state, without the Boolean fields of a goroutine.      *)
(***************************************************************************)
WellFormed(r) ==
  /\ DOMAIN r = DOMAIN Idler
  /\ r.op = "sync" \/ (r.op = "none" /\ r.pc = "idle")
  /\ r.since \in Nat
  /\ r.evs \in Seq(Versioneds)
  /\ r.next \in Nat

Shape ==
  /\ local \in [Nodes -> Seq(Events)]
  /\ remote \in Seq(Versioneds)
  /\ DOMAIN wk = Workers
  /\ \A w \in Workers : WellFormed(wk[w])

\* A step of w leaves the other goroutines alone.
OthersKept(w) ==
  /\ DOMAIN wk' = Workers
  /\ \A v \in Workers \ {w} : wk'[v] = wk[v]

\* Where nothing is remembered about the logs.
QuietPcs(w) ==
  {"idle", "current", "init", "projections", "latest", "final", "toIdle", "return"}
    \cup (IF Mode[NodeOf[w]] = "push" THEN {"toPush", "pushVersion"}
                                      ELSE {"toPull", "pullVersion"})

\* A step that changes neither log and forgets or keeps what it remembers.
Quiet(w) ==
  /\ UNCHANGED <<local, remote>>
  /\ OthersKept(w)
  /\ WellFormed(wk'[w])
  /\ \/ wk'[w].pc \in QuietPcs(w)
     \/ /\ wk'[w].pc = wk[w].pc /\ wk'[w].since = wk[w].since
        /\ wk'[w].evs = wk[w].evs /\ wk'[w].next = wk[w].next

LEMMA IdlerWellFormed == WellFormed(Idler) /\ Idler.pc = "idle"
<1>1. <<>> \in Seq(Versioneds)
  BY SeqEmpty
<1> QED
  BY <1>1 DEF WellFormed, Idler

LEMMA QuietPreserves ==
  ASSUME Shape, OneWayInv, NEW w \in Workers, Quiet(w)
  PROVE  Shape' /\ OneWayInv'
<1>1. Shape'
  BY DEF Shape, Quiet, OthersKept
<1>2. ASSUME NEW v \in Workers
      PROVE  IF Mode[NodeOf[v]] = "push" THEN WriterHolds(wk[v], local[NodeOf[v]])'
                                         ELSE ReaderHolds(wk[v], local[NodeOf[v]])'
  <2>1. CASE v # w
    <3>1. wk'[v] = wk[v] /\ local' = local /\ remote' = remote
      BY <2>1 DEF Quiet, OthersKept
    <3>2. CASE Mode[NodeOf[v]] = "push"
      <4>1. WriterHolds(wk[v], local[NodeOf[v]])
        BY <3>2 DEF OneWayInv
      <4> QED
        BY <3>1, <3>2, <4>1 DEF WriterHolds
    <3>3. CASE Mode[NodeOf[v]] # "push"
      <4>1. ReaderHolds(wk[v], local[NodeOf[v]])
        BY <3>3 DEF OneWayInv
      <4> QED
        BY <3>1, <3>3, <4>1 DEF ReaderHolds
    <3> QED
      BY <3>2, <3>3
  <2>2. CASE v = w /\ wk'[w].pc \in QuietPcs(w)
    BY <2>2 DEF QuietPcs, WriterHolds, ReaderHolds
  <2>3. CASE v = w /\ wk'[w].pc \notin QuietPcs(w)
    <3>1. /\ wk'[w].pc = wk[w].pc /\ wk'[w].since = wk[w].since
          /\ wk'[w].evs = wk[w].evs /\ wk'[w].next = wk[w].next
          /\ local' = local /\ remote' = remote
      BY <2>3 DEF Quiet
    <3>2. CASE Mode[NodeOf[w]] = "push"
      <4>1. WriterHolds(wk[w], local[NodeOf[w]])
        BY <3>2 DEF OneWayInv
      <4> QED
        BY <2>3, <3>1, <3>2, <4>1 DEF WriterHolds
    <3>3. CASE Mode[NodeOf[w]] # "push"
      <4>1. ReaderHolds(wk[w], local[NodeOf[w]])
        BY <3>3 DEF OneWayInv
      <4> QED
        BY <2>3, <3>1, <3>3, <4>1 DEF ReaderHolds
    <3> QED
      BY <2>3, <3>2, <3>3
  <2> QED
    BY <2>1, <2>2, <2>3
<1> QED
  BY <1>1, <1>2 DEF OneWayInv, Quiet

\* A step that changes neither the logs nor the goroutines.
LEMMA KeptPreserves ==
  ASSUME Shape, OneWayInv, local' = local, remote' = remote, wk' = wk
  PROVE  Shape' /\ OneWayInv'
<1>1. CASE Workers = {}
  <2>1. Shape'
    BY DEF Shape
  <2> QED
    BY <1>1, <2>1 DEF OneWayInv
<1>2. ASSUME NEW w \in Workers PROVE Shape' /\ OneWayInv'
  <2>1. DOMAIN wk = Workers /\ WellFormed(wk[w])
    BY DEF Shape
  <2>2. OthersKept(w)
    BY <2>1 DEF OthersKept
  <2>3. Quiet(w)
    BY <2>1, <2>2 DEF Quiet
  <2> QED
    BY <2>3, QuietPreserves, Zenon
<1> QED
  BY <1>1, <1>2, Zenon

(***************************************************************************)
(* The quiet steps.                                                        *)
(***************************************************************************)
LEMMA ReturnsAreQuiet ==
  ASSUME Shape, NEW w \in Workers, NEW ok, wk[w].op = "sync",
         UNCHANGED <<local, remote>>, Mode[NodeOf[w]] \in {"push", "pull"},
         \/ Mode[NodeOf[w]] = "pull" /\ PullReturns(w, ok)
         \/ Mode[NodeOf[w]] = "push" /\ PushReturns(w, ok)
  PROVE  Quiet(w)
<1>1. CASE Mode[NodeOf[w]] = "pull" /\ PullReturns(w, ok)
  BY <1>1 DEF Shape, WellFormed, Quiet, OthersKept, QuietPcs, PullReturns, AfterPull, Idler
<1>2. CASE Mode[NodeOf[w]] = "push" /\ PushReturns(w, ok)
  BY <1>2 DEF Shape, WellFormed, Quiet, OthersKept, QuietPcs, PushReturns, Idler
<1> QED
  BY <1>1, <1>2

LEMMA ControlIsQuiet ==
  ASSUME Shape, OneWayInv, NEW n0, OneWay(n0), NEW w \in Workers,
         \/ TestIdle(w) \/ Validate(w) \/ Refused(w) \/ Transition(w)
         \/ RunProjections(w) \/ FinalVersion(w) \/ Return(w) \/ CancelContext(w)
         \/ \E op \in Operations : Start(w, op)
  PROVE  Quiet(w)
<1> USE DEF OthersKept, QuietPcs
<1>0. NodeOf[w] \in Nodes /\ Mode[NodeOf[w]] \in {"push", "pull"}
  BY ManagerAssumption DEF OneWay
<1>1. CASE TestIdle(w)
  <2>1. CASE CanAutoSync(state[NodeOf[w]])
    <3>1. wk' = [wk EXCEPT ![w].pc = "init"] /\ wk[w].pc = "current"
      BY <1>1, <2>1 DEF TestIdle, Go
    <3>2. UNCHANGED <<local, remote>>
      BY <1>1 DEF TestIdle
    <3> QED
      BY <3>1, <3>2 DEF Shape, WellFormed, Quiet, Idler
  <2>2. CASE ~CanAutoSync(state[NodeOf[w]])
    BY <1>1, <2>2, IdlerWellFormed DEF TestIdle, Shape, Quiet
  <2> QED
    BY <2>1, <2>2
<1>2. CASE Validate(w)
  BY <1>2 DEF Validate, Shape, WellFormed, Quiet, Idler
<1>3. CASE Refused(w)
  <2>1. wk[w].pc # "toResolve"
    BY <1>0 DEF OneWayInv, WriterHolds, ReaderHolds
  <2> QED
    <3>1. CASE wk[w].pc = "init" /\ wk' = [wk EXCEPT ![w] = Idler]
      BY <1>3, <3>1, IdlerWellFormed DEF Refused, Shape, Quiet
    <3>2. CASE wk' = [wk EXCEPT ![w].errs = TRUE, ![w].pc = "final"]
      BY <1>3, <3>2 DEF Refused, Shape, WellFormed, Quiet, Idler
    <3>3. CASE wk[w].pc = "final" /\ Go(w, "toIdle")
      BY <1>3, <3>3 DEF Refused, Go, Shape, WellFormed, Quiet, Idler
    <3>4. CASE wk[w].pc = "toIdle" /\ Go(w, "return")
      BY <1>3, <3>4 DEF Refused, Go, Shape, WellFormed, Quiet, Idler
    <3> QED
      BY <1>3, <2>1, <3>1, <3>2, <3>3, <3>4, Zenon DEF Refused
<1>4. CASE Transition(w)
  <2>1. wk[w].pc # "toResolve"
    BY <1>0 DEF OneWayInv, WriterHolds, ReaderHolds
  <2>2. Mode[NodeOf[w]] = "pull" => wk[w].pc # "toPush"
    BY <1>0 DEF OneWayInv, ReaderHolds
  <2>3. Mode[NodeOf[w]] = "push" => wk[w].pc # "toPull"
    BY <1>0 DEF OneWayInv, WriterHolds
  <2> QED
    BY <1>0, <1>4, <2>1, <2>2, <2>3 DEF Transition, AfterTransition, FirstPhase, Shape, WellFormed, Quiet, Idler, Sites
<1>5. CASE RunProjections(w)
  <2>1. CASE wk' = [wk EXCEPT ![w].pc = "latest"]
    BY <1>5, <2>1 DEF RunProjections, Shape, WellFormed, Quiet, Idler
  <2>2. CASE wk' = [wk EXCEPT ![w].errs = TRUE, ![w].pc = "latest"]
    BY <1>5, <2>2 DEF RunProjections, Shape, WellFormed, Quiet, Idler
  <2> QED
    BY <1>5, <2>1, <2>2, Zenon DEF RunProjections, Go
<1>6. CASE FinalVersion(w)
  <2>1. CASE wk' = [wk EXCEPT ![w].pc = "final"]
    BY <1>6, <2>1 DEF FinalVersion, Shape, WellFormed, Quiet, Idler
  <2>2. CASE wk' = [wk EXCEPT ![w].errs = TRUE, ![w].pc = "final"]
    BY <1>6, <2>2 DEF FinalVersion, Shape, WellFormed, Quiet, Idler
  <2> QED
    BY <1>6, <2>1, <2>2, Zenon DEF FinalVersion, Go
<1>7. CASE Return(w)
  BY <1>7, IdlerWellFormed DEF Return, Shape, WellFormed, Quiet, Idler
<1>8. CASE CancelContext(w)
  BY <1>8 DEF CancelContext, Shape, WellFormed, Quiet, Idler
<1>9. CASE \E op \in Operations : Start(w, op)
  <2>1. PICK op \in Operations : Start(w, op)
    BY <1>9
  <2>2. op = "sync"
    BY DEF OneWay
  <2>3. <<>> \in Seq(Versioneds)
    BY SeqEmpty
  <2> QED
    BY <2>1, <2>2, <2>3, Zenon DEF Start, Shape, WellFormed, Quiet, Idler
<1> QED
  BY <1>1, <1>2, <1>3, <1>4, <1>5, <1>6, <1>7, <1>8, <1>9

(***************************************************************************)
(* What has to be shown of a step of a reader, and of one of the writer.   *)
(***************************************************************************)
LEMMA ReaderFrame ==
  ASSUME Shape, OneWayInv, NEW n0, OneWay(n0), NEW w \in Workers, NEW n, n = NodeOf[w],
         Mode[n] = "pull", remote' = remote, local' \in [Nodes -> Seq(Events)],
         \A m \in Nodes \ {n} : local'[m] = local[m],
         Len(local'[n]) <= Len(remote),
         \A i \in 1..Len(local'[n]) : local'[n][i] = remote[i].ev,
         OthersKept(w), WellFormed(wk'[w]), ReaderHolds(wk[w], local[n])'
  PROVE  Shape' /\ OneWayInv'
<1>0. n \in Nodes
  BY ManagerAssumption
<1>1. Shape'
  BY DEF Shape, OthersKept
<1>2. ASSUME NEW v \in Workers
      PROVE  IF Mode[NodeOf[v]] = "push" THEN WriterHolds(wk[v], local[NodeOf[v]])'
                                         ELSE ReaderHolds(wk[v], local[NodeOf[v]])'
  <2>1. CASE v = w
    BY <2>1
  <2>2. CASE v # w
    <3>1. NodeOf[v] \in Nodes \ {n}
      BY <2>2, ManagerAssumption DEF OneWay
    <3>2. wk'[v] = wk[v] /\ local'[NodeOf[v]] = local[NodeOf[v]]
      BY <2>2, <3>1 DEF OthersKept
    <3>3. CASE Mode[NodeOf[v]] = "push"
      <4>1. WriterHolds(wk[v], local[NodeOf[v]])
        BY <3>3 DEF OneWayInv
      <4> QED
        BY <3>2, <3>3, <4>1 DEF WriterHolds
    <3>4. CASE Mode[NodeOf[v]] # "push"
      <4>1. ReaderHolds(wk[v], local[NodeOf[v]])
        BY <3>4, Zenon DEF OneWayInv
      <4> QED
        BY <3>2, <3>4, <4>1, Zenon DEF ReaderHolds
    <3> QED
      BY <3>3, <3>4
  <2> QED
    BY <2>1, <2>2
<1>3. ASSUME NEW m \in Nodes, Mode[m] = "push"
      PROVE  /\ Len(remote') <= Len(local'[m])
             /\ \A i \in 1..Len(remote') : remote'[i] = [ev |-> local'[m][i], ver |-> i]
  BY <1>3 DEF OneWayInv
<1>4. ASSUME NEW m \in Nodes, Mode[m] = "pull"
      PROVE  /\ Len(local'[m]) <= Len(remote')
             /\ \A i \in 1..Len(local'[m]) : local'[m][i] = remote'[i].ev
  <2>1. CASE m = n
    BY <2>1
  <2>2. CASE m # n
    BY <1>4, <2>2 DEF OneWayInv
  <2> QED
    BY <2>1, <2>2
<1> QED
  BY <1>1, <1>2, <1>3, <1>4 DEF OneWayInv

LEMMA WriterFrame ==
  ASSUME Shape, OneWayInv, NEW n0, OneWay(n0),
         local' \in [Nodes -> Seq(Events)], remote' \in Seq(Versioneds),
         \A m \in Nodes \ {n0} : local'[m] = local[m],
         Len(remote) <= Len(remote'), \A i \in 1..Len(remote) : remote'[i] = remote[i],
         Len(remote') <= Len(local'[n0]),
         \A i \in 1..Len(remote') : remote'[i] = [ev |-> local'[n0][i], ver |-> i],
         DOMAIN wk' = Workers,
         \A v \in Workers : NodeOf[v] # n0 => wk'[v] = wk[v],
         \A v \in Workers : NodeOf[v] = n0 => /\ WellFormed(wk'[v])
                                              /\ WriterHolds(wk[v], local[n0])'
  PROVE  Shape' /\ OneWayInv'
<1>0. n0 \in Nodes /\ Mode[n0] = "push" /\ \A m \in Nodes \ {n0} : Mode[m] = "pull"
  BY DEF OneWay
<1>1. Shape'
  BY Zenon DEF Shape
<1>2. ASSUME NEW v \in Workers
      PROVE  IF Mode[NodeOf[v]] = "push" THEN WriterHolds(wk[v], local[NodeOf[v]])'
                                         ELSE ReaderHolds(wk[v], local[NodeOf[v]])'
  <2>0. NodeOf[v] \in Nodes
    BY ManagerAssumption
  <2>1. CASE NodeOf[v] = n0
    BY <1>0, <2>1
  <2>2. CASE NodeOf[v] # n0
    <3>1. wk'[v] = wk[v] /\ local'[NodeOf[v]] = local[NodeOf[v]] /\ Mode[NodeOf[v]] = "pull"
      BY <1>0, <2>0, <2>2
    <3>2. ReaderHolds(wk[v], local[NodeOf[v]])
      BY <3>1 DEF OneWayInv
    <3>3. /\ Len(local[NodeOf[v]]) \in Nat /\ Len(remote) \in Nat /\ Len(remote') \in Nat
          /\ Len(wk[v].evs) \in Nat
      BY <2>0 DEF Shape, WellFormed
    <3>4. CASE wk[v].pc \in {"pullLoad", "pullStore"}
      <4> DEFINE r == wk[v]
                 L == Len(local[NodeOf[v]])
      <4>0. /\ L \in Nat /\ Len(r.evs) \in Nat /\ Len(remote) \in Nat /\ Len(remote') \in Nat
            /\ Len(remote) <= Len(remote')
        BY <3>3
      <4>1. /\ r.next \in 1..(Len(r.evs) + 1)
            /\ L + (Len(r.evs) + 1 - r.next) <= Len(remote)
            /\ \A k \in r.next..Len(r.evs) : r.evs[k].ev = remote[L + (k + 1 - r.next)].ev
        BY <3>2, <3>4 DEF ReaderHolds
      <4> HIDE DEF L, r
      <4>2. \A k \in r.next..Len(r.evs) : L + (k + 1 - r.next) \in 1..Len(remote)
        BY <4>0, <4>1, SMTT(20)
      <4>3. L + (Len(r.evs) + 1 - r.next) <= Len(remote')
        BY <4>0, <4>1
      <4>4. \A k \in r.next..Len(r.evs) : r.evs[k].ev = remote'[L + (k + 1 - r.next)].ev
        BY <4>1, <4>2, Zenon
      <4> QED
        BY <3>1, <3>2, <3>4, <4>1, <4>3, <4>4, SMTT(20) DEF ReaderHolds, L, r
    <3>5. CASE wk[v].pc \notin {"pullLoad", "pullStore"}
      BY <3>1, <3>2, <3>5, Zenon DEF ReaderHolds
    <3> QED
      BY <3>4, <3>5
  <2> QED
    BY <2>1, <2>2
<1>3. ASSUME NEW m \in Nodes, Mode[m] = "push"
      PROVE  /\ Len(remote') <= Len(local'[m])
             /\ \A i \in 1..Len(remote') : remote'[i] = [ev |-> local'[m][i], ver |-> i]
  BY <1>0, <1>3
<1>4. ASSUME NEW m \in Nodes, Mode[m] = "pull"
      PROVE  /\ Len(local'[m]) <= Len(remote')
             /\ \A i \in 1..Len(local'[m]) : local'[m][i] = remote'[i].ev
  <2>1. local'[m] = local[m]
    BY <1>0, <1>4
  <2>2. Len(local[m]) \in Nat /\ Len(remote) \in Nat /\ Len(remote') \in Nat
    BY DEF Shape
  <2>3. /\ Len(local[m]) <= Len(remote)
        /\ \A i \in 1..Len(local[m]) : local[m][i] = remote[i].ev
    BY <1>4 DEF OneWayInv
  <2>4. \A i \in 1..Len(local[m]) : i \in 1..Len(remote)
    BY <2>2, <2>3
  <2>5. Len(local[m]) <= Len(remote')
    BY <2>2, <2>3
  <2>6. \A i \in 1..Len(local[m]) : local[m][i] = remote'[i].ev
    BY <2>3, <2>4
  <2> QED
    BY <2>1, <2>5, <2>6
<1> QED
  BY <1>1, <1>2, <1>3, <1>4 DEF OneWayInv

(***************************************************************************)
(* The pull of a reader.                                                   *)
(***************************************************************************)
\* The versions at the transport are positions, so what follows a version is
\* a suffix.
LEMMA PullSinceIsSuffix ==
  ASSUME Shape, OneWayInv, NEW n0, OneWay(n0), NEW since \in 0..Len(remote)
  PROVE  /\ PullSince(since) \in Seq(Versioneds)
         /\ Len(PullSince(since)) = Len(remote) - since
         /\ \A k \in 1..(Len(remote) - since) : PullSince(since)[k] = remote[since + k]
<1>1. \A i \in 1..Len(remote) : remote[i].ver = i /\ remote[i] \in Versioneds
  <2>1. n0 \in Nodes /\ Mode[n0] = "push"
    BY DEF OneWay
  <2>2. \A i \in 1..Len(remote) : remote[i] = [ev |-> local[n0][i], ver |-> i]
    BY <2>1 DEF OneWayInv
  <2> TAKE i \in 1..Len(remote)
  <2>3. remote[i] = [ev |-> local[n0][i], ver |-> i] /\ remote[i] \in Versioneds
    BY <2>2 DEF Shape
  <2> QED
    BY <2>3
<1>2. {i \in DOMAIN remote : remote[i].ver > since /\ remote[i].ev \in Accepts} = (since + 1)..Len(remote)
  <2>1. DOMAIN remote = 1..Len(remote)
    BY DEF Shape
  <2>2. \A i \in 1..Len(remote) : remote[i].ev \in Accepts
    BY <1>1 DEF OneWay, Versioneds
  <2>3. Len(remote) \in Nat
    BY DEF Shape
  <2> QED
    BY <1>1, <2>1, <2>2, <2>3
<1>3. since \in Nat /\ Len(remote) \in Nat /\ since <= Len(remote)
  BY DEF Shape
<1>4. PullSince(since) = [k \in 1..(Len(remote) - since) |-> remote[since + k]]
  <2>1. ASSUME NEW last \in Nat, last = Len(remote)
        PROVE  Pick(remote, (since + 1)..last) = [k \in 1..(last - since) |-> remote[since + k]]
    BY <1>3, <2>1, PickInterval, SMTT(20)
  <2> QED
    BY <1>2, <1>3, <2>1, Zenon DEF PullSince
<1>5. PullSince(since) \in [1..(Len(remote) - since) -> Versioneds]
  <2>1. \A k \in 1..(Len(remote) - since) : remote[since + k] \in Versioneds
    BY <1>1, <1>3
  <2> QED
    BY <1>4, <2>1, Zenon
<1>6. Len(remote) - since \in Nat
  BY <1>3
<1>7. PullSince(since) \in Seq(Versioneds) /\ Len(PullSince(since)) = Len(remote) - since
  BY <1>5, <1>6, FunctionIsSeq
<1> QED
  BY <1>4, <1>7

\* Nothing was stored at the reader since it read its version, so there is
\* nothing to conflict with.
LEMMA NoConflict ==
  ASSUME Shape, NEW n \in Nodes, NEW evs \in Seq(Versioneds)
  PROVE  Conflicts(evs, Load(n, Len(local[n]))) = <<>>
<1>1. {i \in DOMAIN local[n] : i > Len(local[n])} = {}
  BY DEF Shape
<1>2. Load(n, Len(local[n])) = <<>>
  BY <1>1, PickNothing, Zenon DEF Load
<1>3. 1..(Len(evs) * Len(<<>>)) = {}
  OBVIOUS
<1> QED
  BY <1>2, <1>3, PickNothing, Zenon DEF Conflicts

LEMMA ReaderPulls ==
  ASSUME Shape, OneWayInv, NEW n0, OneWay(n0), NEW w \in Workers, NEW n, n = NodeOf[w],
         Mode[n] = "pull",
         \/ PullVersion(w) \/ PullFetch(w) \/ PullLoad(w) \/ PullStore(w) \/ PullStored(w)
  PROVE  Shape' /\ OneWayInv'
<1>0. /\ n \in Nodes
      /\ local \in [Nodes -> Seq(Events)] /\ remote \in Seq(Versioneds)
      /\ Len(local[n]) \in Nat /\ Len(remote) \in Nat
      /\ WellFormed(wk[w]) /\ DOMAIN wk = Workers
      /\ Len(local[n]) <= Len(remote)
      /\ \A i \in 1..Len(local[n]) : local[n][i] = remote[i].ev
  BY ManagerAssumption DEF Shape, OneWayInv
<1>1. wk[w].op = "sync" /\ ReaderHolds(wk[w], local[n])
  BY <1>0, Zenon DEF WellFormed, OneWayInv, PullVersion, PullFetch, PullLoad, PullStore, PullStored
<1>2. ASSUME NEW ok, PullReturns(w, ok), UNCHANGED <<local, remote>>
      PROVE  Shape' /\ OneWayInv'
  BY <1>1, <1>2, ReturnsAreQuiet, QuietPreserves, Zenon
<1>3. CASE PullVersion(w) /\ wk' = [wk EXCEPT ![w].since = Len(local[n]), ![w].pc = "pullFetch"]
  <2>1. OthersKept(w) /\ WellFormed(wk'[w]) /\ UNCHANGED <<local, remote>>
    BY <1>0, <1>3 DEF PullVersion, OthersKept, WellFormed, Idler
  <2>2. wk'[w].pc = "pullFetch" /\ wk'[w].since = Len(local[n])
    BY <1>0, <1>3 DEF WellFormed, Idler
  <2>3. ReaderHolds(wk[w], local[n])'
    BY <2>1, <2>2 DEF ReaderHolds
  <2> QED
    BY <1>0, <2>1, <2>3, ReaderFrame, Zenon
<1>4. CASE PullFetch(w) /\ wk' = [wk EXCEPT ![w].evs = PullSince(wk[w].since), ![w].next = 1,
                                            ![w].pc = "pullLoad"]
  <2>1. wk[w].since = Len(local[n]) /\ wk[w].since \in 0..Len(remote)
    BY <1>0, <1>1, <1>4 DEF PullFetch, ReaderHolds
  <2> DEFINE evs == PullSince(wk[w].since)
  <2>2. /\ evs \in Seq(Versioneds)
        /\ Len(evs) = Len(remote) - Len(local[n])
        /\ \A k \in 1..(Len(remote) - Len(local[n])) : evs[k] = remote[Len(local[n]) + k]
    BY <2>1, PullSinceIsSuffix, Zenon
  <2> HIDE DEF evs
  <2>3. OthersKept(w) /\ WellFormed(wk'[w]) /\ UNCHANGED <<local, remote>>
    BY <1>0, <1>4, <2>2 DEF PullFetch, OthersKept, WellFormed, Idler, evs
  <2>4. /\ wk'[w].pc = "pullLoad" /\ wk'[w].since = Len(local[n])
        /\ wk'[w].evs = evs /\ wk'[w].next = 1
    BY <1>0, <1>4, <2>1 DEF WellFormed, Idler, evs
  <2>5. /\ 1 \in 1..(Len(evs) + 1)
        /\ Len(local[n]) + (Len(evs) + 1 - 1) <= Len(remote)
        /\ \A k \in 1..Len(evs) : evs[k].ev = remote[Len(local[n]) + (k + 1 - 1)].ev
    BY <1>0, <2>2, SMTT(20)
  <2>6. ReaderHolds(wk[w], local[n])'
    BY <2>3, <2>4, <2>5 DEF ReaderHolds
  <2> QED
    BY <1>0, <2>3, <2>6, ReaderFrame
<1>5. CASE /\ PullLoad(w)
           /\ wk' = [wk EXCEPT ![w].mine = Load(n, wk[w].since),
                               ![w].pc = IF Conflicts(wk[w].evs, Load(n, wk[w].since)) = <<>>
                                           THEN "pullStore" ELSE "toResolve",
                               ![w].fetched = Unconflicted(wk[w].evs, Load(n, wk[w].since))]
  <2>1. wk[w].pc = "pullLoad" /\ UNCHANGED <<local, remote>>
    BY <1>5 DEF PullLoad
  <2>2. wk[w].since = Len(local[n])
    BY <1>1, <2>1, Zenon DEF ReaderHolds
  <2>3. Conflicts(wk[w].evs, Load(n, wk[w].since)) = <<>>
    BY <1>0, <2>2, NoConflict DEF WellFormed
  <2> DEFINE mine == Load(n, wk[w].since)
             kept == Unconflicted(wk[w].evs, mine)
  <2>4. wk' = [wk EXCEPT ![w].mine = mine, ![w].pc = "pullStore", ![w].fetched = kept]
    BY <1>5, <2>3
  <2> HIDE DEF mine, kept
  <2>5. OthersKept(w) /\ WellFormed(wk'[w])
    BY <1>0, <1>1, <2>4 DEF OthersKept, WellFormed, Idler
  <2>6. wk'[w].pc = "pullStore" /\ wk'[w].evs = wk[w].evs /\ wk'[w].next = wk[w].next
    BY <1>0, <2>4 DEF WellFormed, Idler
  <2>7. ReaderHolds(wk[w], local[n])'
    BY <1>1, <2>1, <2>6 DEF ReaderHolds
  <2> QED
    BY <1>0, <2>1, <2>5, <2>7, ReaderFrame, Zenon
<1>6. CASE /\ PullStore(w)
           /\ local' = [local EXCEPT ![n] = Append(@, wk[w].evs[wk[w].next].ev)]
           /\ wk' = [wk EXCEPT ![w].next = @ + 1]
  <2> DEFINE evs == wk[w].evs
             next == wk[w].next
             L == Len(local[n])
             log == Append(local[n], evs[next].ev)
  <2>1. /\ wk[w].pc = "pullStore" /\ next <= Len(evs) /\ remote' = remote
        /\ evs \in Seq(Versioneds) /\ Len(evs) \in Nat /\ next \in Nat /\ L \in Nat
    BY <1>0, <1>6, SMTT(20) DEF PullStore, WellFormed
  <2>2. /\ next \in 1..Len(evs)
        /\ L + (Len(evs) + 1 - next) <= Len(remote)
        /\ \A k \in next..Len(evs) : evs[k].ev = remote[L + (k + 1 - next)].ev
    <3>1. /\ next \in 1..(Len(evs) + 1)
          /\ L + (Len(evs) + 1 - next) <= Len(remote)
          /\ \A k \in next..Len(evs) : evs[k].ev = remote[L + (k + 1 - next)].ev
      BY <1>1, <2>1, Zenon DEF ReaderHolds
    <3> HIDE DEF evs, next, L
    <3>2. next \in 1..Len(evs)
      BY <2>1, <3>1
    <3> QED
      BY <3>1, <3>2, Zenon
  <2>3. evs[next] \in Versioneds /\ evs[next].ev \in Events
    <3>1. evs[next] \in Versioneds
      BY <2>1, <2>2, SeqElement
    <3> QED
      BY <3>1 DEF Versioneds
  <2>4. /\ log \in Seq(Events) /\ Len(log) = L + 1
        /\ \A i \in 1..L : log[i] = local[n][i]
        /\ log[L + 1] = evs[next].ev
    BY <1>0, <2>3, SMTT(20)
  <2>5. evs[next].ev = remote[L + 1].ev
    <3>0. next \in next..Len(evs)
      BY <2>1, <2>2
    <3>1. evs[next].ev = remote[L + (next + 1 - next)].ev
      BY <2>2, <3>0, Zenon
    <3>2. L + (next + 1 - next) = L + 1
      BY <2>1
    <3> QED
      BY <3>1, <3>2, Zenon
  <2>6. OthersKept(w) /\ WellFormed(wk'[w])
    BY <1>0, <1>1, <1>6 DEF OthersKept, WellFormed, Idler
  <2>7. wk'[w].pc = "pullStore" /\ wk'[w].evs = evs /\ wk'[w].next = next + 1
    BY <1>0, <1>6, <2>1 DEF WellFormed, Idler
  <2>8. /\ local' \in [Nodes -> Seq(Events)] /\ local'[n] = log
        /\ \A m \in Nodes \ {n} : local'[m] = local[m]
    BY <1>0, <1>6, <2>4, Zenon
  <2> HIDE DEF evs, next, L, log
  <2>9. /\ next + 1 \in 1..(Len(evs) + 1)
        /\ Len(log) + (Len(evs) + 1 - (next + 1)) <= Len(remote)
    BY <1>0, <2>1, <2>2, <2>4
  <2>10. ASSUME NEW k \in (next + 1)..Len(evs)
         PROVE  evs[k].ev = remote[Len(log) + (k + 1 - (next + 1))].ev
    <3>0. k \in next..Len(evs)
      BY <2>1
    <3>1. evs[k].ev = remote[L + (k + 1 - next)].ev
      BY <2>2, <3>0, Zenon
    <3>2. L + (k + 1 - next) = Len(log) + (k + 1 - (next + 1))
      BY <2>1, <2>4
    <3> QED
      BY <3>1, <3>2
  <2>11. ReaderHolds(wk[w], local[n])'
    BY <2>1, <2>7, <2>8, <2>9, <2>10 DEF ReaderHolds
  <2>12. Len(log) <= Len(remote)
    BY <1>0, <2>1, <2>2, <2>4, SMTT(20)
  <2>13. ASSUME NEW i \in 1..Len(log) PROVE log[i] = remote[i].ev
    <3>1. CASE i = L + 1
      BY <2>4, <2>5, <3>1
    <3>2. CASE i \in 1..L
      BY <1>0, <2>4, <3>2 DEF L
    <3> QED
      BY <2>1, <2>4, <3>1, <3>2
  <2> QED
    BY <2>1, <2>6, <2>8, <2>11, <2>12, <2>13, ReaderFrame, ZenonT(30)
<1>7. CASE PullVersion(w)
  BY <1>2, <1>3, <1>7, Zenon DEF PullVersion, LatestVersion
<1>8. CASE PullFetch(w)
  BY <1>2, <1>4, <1>8, Zenon DEF PullFetch
<1>9. CASE PullLoad(w)
  BY <1>2, <1>5, <1>9, Zenon DEF PullLoad
<1>10. CASE PullStore(w)
  BY <1>2, <1>6, <1>10, Zenon DEF PullStore
<1>11. CASE PullStored(w)
  BY <1>2, <1>11, Zenon DEF PullStored
<1> QED
  BY <1>7, <1>8, <1>9, <1>10, <1>11

(***************************************************************************)
(* The push of the writer.                                                 *)
(***************************************************************************)
LEMMA LatestIsLength ==
  ASSUME Shape, OneWayInv, NEW n0, OneWay(n0)
  PROVE  GetLatestVersion = Len(remote)
<1>0. Len(remote) \in Nat /\ DOMAIN remote = 1..Len(remote)
  BY DEF Shape
<1>1. ASSUME NEW i \in 1..Len(remote) PROVE remote[i].ver = i
  <2>1. n0 \in Nodes /\ Mode[n0] = "push"
    BY DEF OneWay
  <2>2. remote[i] = [ev |-> local[n0][i], ver |-> i]
    BY <2>1 DEF OneWayInv
  <2> QED
    BY <2>2
<1>2. CASE remote = <<>>
  BY <1>2 DEF GetLatestVersion
<1>3. CASE remote # <<>>
  <2>1. Len(remote) \in 1..Len(remote)
    BY <1>0, <1>3, SeqEmpty DEF Shape
  <2> DEFINE V == {remote[i].ver : i \in DOMAIN remote}
             Highest(v) == \A i \in DOMAIN remote : remote[i].ver <= v
  <2>2. V = 1..Len(remote)
    <3>1. \A i \in DOMAIN remote : remote[i].ver = i
      BY <1>0, <1>1
    <3>2. V = {i : i \in DOMAIN remote}
      BY <3>1
    <3> QED
      BY <1>0, <3>2
  <2>3. \A v \in V : Highest(v) <=> v = Len(remote)
    <3>1. \A i \in DOMAIN remote : remote[i].ver = i
      BY <1>0, <1>1
    <3>2. ASSUME NEW v \in V PROVE Highest(v) <=> \A i \in 1..Len(remote) : i <= v
      <4>1. ASSUME NEW i \in DOMAIN remote PROVE remote[i].ver <= v <=> i <= v
        BY <3>1
      <4> QED
        BY <1>0, <4>1
    <3>3. ASSUME NEW v \in 1..Len(remote)
          PROVE  (\A i \in 1..Len(remote) : i <= v) <=> v = Len(remote)
      <4>1. ASSUME NEW last \in Nat, v \in 1..last
            PROVE  (\A i \in 1..last : i <= v) <=> v = last
        <5>1. last \in 1..last
          BY <4>1
        <5> QED
          BY <4>1, <5>1
      <4> QED
        BY <1>0, <4>1, Zenon
    <3> HIDE DEF V, Highest
    <3> QED
      BY <2>2, <3>2, <3>3
  <2>4. Len(remote) \in V
    BY <2>1, <2>2
  <2>5. GetLatestVersion = CHOOSE v \in V : Highest(v)
    BY <1>3, Zenon DEF GetLatestVersion
  <2> HIDE DEF V, Highest
  <2> QED
    BY <2>3, <2>4, <2>5
<1> QED
  BY <1>2, <1>3

\* What is loaded for a push is the suffix of the log, under its positions.
LEMMA LoadIsSuffix ==
  ASSUME Shape, NEW n \in Nodes, NEW since \in Nat, since <= Len(local[n])
  PROVE  /\ Load(n, since) \in Seq(Versioneds)
         /\ Len(Load(n, since)) = Len(local[n]) - since
         /\ \A k \in 1..(Len(local[n]) - since) :
              Load(n, since)[k] = [ev |-> local[n][since + k], ver |-> since + k]
<1>0. /\ local[n] \in Seq(Events) /\ DOMAIN local[n] = 1..Len(local[n])
      /\ Len(local[n]) \in Nat
  BY DEF Shape
<1>1. {i \in DOMAIN local[n] : i > since} = (since + 1)..Len(local[n])
  BY <1>0
<1>2. ASSUME NEW last \in Nat, last = Len(local[n])
      PROVE  Pick(Versioned(n), (since + 1)..last)
               = [k \in 1..(last - since) |-> Versioned(n)[since + k]]
  <2>1. since <= last
    BY <1>2
  <2> DEFINE s == Versioned(n)
  <2> HIDE DEF s
  <2>2. Pick(s, (since + 1)..last) = [k \in 1..(last - since) |-> s[since + k]]
    BY <2>1, PickInterval
  <2> QED
    BY <2>2 DEF s
<1>3. Load(n, since) = [k \in 1..(Len(local[n]) - since) |-> Versioned(n)[since + k]]
  BY <1>0, <1>1, <1>2, Zenon DEF Load
<1>4. ASSUME NEW k \in 1..(Len(local[n]) - since)
      PROVE  /\ Load(n, since)[k] = [ev |-> local[n][since + k], ver |-> since + k]
             /\ Load(n, since)[k] \in Versioneds
  <2>1. since + k \in 1..Len(local[n]) /\ since + k \in Nat \ {0}
    BY <1>0
  <2>2. local[n][since + k] \in Events
    BY <1>0, <2>1, SeqElement
  <2>3. Versioned(n)[since + k] = [ev |-> local[n][since + k], ver |-> since + k]
    BY <1>0, <2>1 DEF Versioned
  <2>4. Load(n, since)[k] = [ev |-> local[n][since + k], ver |-> since + k]
    BY <1>3, <2>3
  <2> QED
    BY <2>1, <2>2, <2>4 DEF Versioneds
<1>5. Len(local[n]) - since \in Nat
  BY <1>0
<1>6. Load(n, since) \in [1..(Len(local[n]) - since) -> Versioneds]
  BY <1>3, <1>4, Zenon
<1>7. Load(n, since) \in Seq(Versioneds) /\ Len(Load(n, since)) = Len(local[n]) - since
  BY <1>5, <1>6, FunctionIsSeq
<1> QED
  BY <1>4, <1>7

\* Without a filter all of it is pushed.
LEMMA FilterKeepsAll ==
  ASSUME NEW n0, OneWay(n0), NEW evs \in Seq(Versioneds)
  PROVE  Pick(evs, {i \in DOMAIN evs : evs[i].ev \in Accepts}) = evs
<1>1. DOMAIN evs = 1..Len(evs) /\ Len(evs) \in Nat
  OBVIOUS
<1>2. \A i \in 1..Len(evs) : evs[i].ev \in Accepts
  <2> TAKE i \in 1..Len(evs)
  <2>1. evs[i] \in Versioneds
    BY SeqElement
  <2> QED
    BY <2>1 DEF Versioneds, OneWay
<1>3. {i \in DOMAIN evs : evs[i].ev \in Accepts} = (0 + 1)..Len(evs)
  BY <1>1, <1>2
<1>4. ASSUME NEW last \in Nat, NEW first \in Nat, first = 0
      PROVE  Pick(evs, (first + 1)..last) = [k \in 1..(last - first) |-> evs[first + k]]
  <2>1. first <= last
    BY <1>4
  <2> QED
    BY <2>1, PickInterval, SMTT(20)
<1>5. Pick(evs, (0 + 1)..Len(evs)) = [k \in 1..(Len(evs) - 0) |-> evs[0 + k]]
  BY <1>1, <1>4
<1>6. [k \in 1..(Len(evs) - 0) |-> evs[0 + k]] = [k \in 1..Len(evs) |-> evs[k]]
  BY <1>1
<1>7. [k \in 1..Len(evs) |-> evs[k]] = evs
  BY <1>1
<1> QED
  BY <1>3, <1>5, <1>6, <1>7, Zenon

\* What a writer in the middle of its batches remembers.
LEMMA HoldsOfBatches ==
  ASSUME NEW r, NEW log, WriterHolds(r, log), r.pc = "pushBatch"
  PROVE  /\ r.next \in 1..(Len(r.evs) + 1)
         /\ Len(remote) + (Len(r.evs) + 1 - r.next) <= Len(log)
         /\ \A k \in r.next..Len(r.evs) :
              r.evs[k] = [ev  |-> log[Len(remote) + (k + 1 - r.next)],
                          ver |-> Len(remote) + (k + 1 - r.next)]
  BY Zenon DEF WriterHolds

\* What every goroutine's record holds, and the lengths that follow.
LEMMA FieldsOfWorker ==
  ASSUME NEW r, WellFormed(r)
  PROVE  r.evs \in Seq(Versioneds) /\ Len(r.evs) \in Nat /\ r.next \in Nat /\ r.since \in Nat
<1>1. r.evs \in Seq(Versioneds) /\ r.next \in Nat /\ r.since \in Nat
  BY Zenon DEF WellFormed
<1> DEFINE evs == r.evs
<1>2. evs \in Seq(Versioneds)
  BY <1>1
<1> HIDE DEF evs
<1>3. Len(evs) \in Nat
  BY <1>2
<1> QED
  BY <1>1, <1>3, Zenon DEF evs

\* A batch is what follows the transport's log, so appending it extends the
\* prefix and leaves the rest of what was loaded in place.
LEMMA BatchExtends ==
  ASSUME Shape, OneWayInv, NEW n0, OneWay(n0), NEW w \in Workers, n0 = NodeOf[w],
         wk[w].pc = "pushBatch", wk[w].next <= Len(wk[w].evs),
         remote' = remote \o Batch(w)
  PROVE  /\ remote' \in Seq(Versioneds)
         /\ Len(remote) <= Len(remote') /\ \A i \in 1..Len(remote) : remote'[i] = remote[i]
         /\ Len(remote') <= Len(local[n0])
         /\ \A i \in 1..Len(remote') : remote'[i] = [ev |-> local[n0][i], ver |-> i]
         /\ Len(remote') = Len(remote) + (BatchEnd(w) + 1 - wk[w].next)
         /\ BatchEnd(w) \in Nat /\ BatchEnd(w) + 1 \in 1..(Len(wk[w].evs) + 1)
<1> DEFINE evs == wk[w].evs
           next == wk[w].next
           last == BatchEnd(w)
           R == Len(remote)
           longer == remote'
<1>1. /\ n0 \in Nodes /\ Mode[n0] = "push"
      /\ local[n0] \in Seq(Events) /\ remote \in Seq(Versioneds)
      /\ evs \in Seq(Versioneds) /\ Len(evs) \in Nat /\ next \in Nat /\ R \in Nat
      /\ Len(local[n0]) \in Nat /\ WriterHolds(wk[w], local[n0])
  <2>1. n0 \in Nodes /\ Mode[n0] = "push"
    BY Zenon DEF OneWay
  <2>2. local \in [Nodes -> Seq(Events)] /\ remote \in Seq(Versioneds) /\ WellFormed(wk[w])
    BY Zenon DEF Shape
  <2>3. evs \in Seq(Versioneds) /\ Len(evs) \in Nat /\ next \in Nat
    BY <2>2, FieldsOfWorker, Zenon
  <2>4. local[n0] \in Seq(Events) /\ Len(local[n0]) \in Nat /\ R \in Nat
    BY <2>1, <2>2
  <2>5. WriterHolds(wk[w], local[n0])
    BY <2>1, Zenon DEF OneWayInv
  <2> QED
    BY <2>1, <2>2, <2>3, <2>4, <2>5, Zenon
<1>2. /\ next \in 1..Len(evs)
      /\ R + (Len(evs) + 1 - next) <= Len(local[n0])
      /\ \A k \in next..Len(evs) :
           evs[k] = [ev |-> local[n0][R + (k + 1 - next)], ver |-> R + (k + 1 - next)]
  <2>1. /\ next \in 1..(Len(evs) + 1)
        /\ R + (Len(evs) + 1 - next) <= Len(local[n0])
        /\ \A k \in next..Len(evs) :
             evs[k] = [ev |-> local[n0][R + (k + 1 - next)], ver |-> R + (k + 1 - next)]
    BY <1>1, HoldsOfBatches, Zenon
  <2> HIDE DEF evs, next
  <2>2. next <= Len(evs)
    BY DEF evs, next
  <2>3. next \in 1..Len(evs)
    BY <1>1, <2>1, <2>2
  <2> QED
    BY <2>1, <2>3, Zenon
<1>3. last \in next..Len(evs)
  BY <1>1, <1>2, ManagerAssumption, SMTT(20) DEF BatchEnd
<1>4. /\ R <= Len(local[n0])
      /\ \A i \in 1..R : remote[i] = [ev |-> local[n0][i], ver |-> i]
  BY <1>1, Zenon DEF OneWayInv
<1>5. Batch(w) = SubSeq(evs, next, last) /\ longer = remote \o Batch(w)
  BY DEF Batch
<1> HIDE DEF evs, next, last, R, longer
<1>6. \A k \in next..last : k \in 1..Len(evs) /\ k \in next..Len(evs)
  BY <1>1, <1>2, <1>3
<1>7. \A k \in next..last : evs[k] \in Versioneds
  BY <1>1, <1>6, SeqElement
<1>8. /\ Batch(w) \in Seq(Versioneds)
      /\ Len(Batch(w)) = last + 1 - next
      /\ \A k \in 1..(last + 1 - next) : Batch(w)[k] = evs[next + k - 1]
  <2>1. next \in Int /\ last \in Int /\ next <= last
    BY <1>1, <1>3
  <2>2. /\ SubSeq(evs, next, last) \in Seq(Versioneds)
        /\ Len(SubSeq(evs, next, last)) = IF next <= last THEN last - next + 1 ELSE 0
        /\ \A k \in 1..(last - next + 1) : SubSeq(evs, next, last)[k] = evs[next + k - 1]
    BY <1>7, <2>1, SeqSub
  <2>3. last - next + 1 = last + 1 - next
    BY <2>1
  <2> QED
    BY <1>5, <2>1, <2>2, <2>3, Zenon
<1>9. /\ longer \in Seq(Versioneds)
      /\ Len(longer) = R + (last + 1 - next)
      /\ \A i \in 1..Len(longer) : longer[i] = IF i <= R THEN remote[i] ELSE Batch(w)[i - R]
  BY <1>1, <1>5, <1>8, SeqConcat, SMTT(20) DEF R
<1>10. R <= Len(longer) /\ Len(longer) <= Len(local[n0]) /\ last \in Nat /\ last + 1 \in 1..(Len(evs) + 1)
  <2>1. next <= last /\ last <= Len(evs) /\ last \in Nat /\ next >= 1
    BY <1>1, <1>2, <1>3
  <2>2. Len(longer) = R + (last + 1 - next) /\ R + (Len(evs) + 1 - next) <= Len(local[n0])
    BY <1>2, <1>9
  <2> QED
    BY <1>1, <2>1, <2>2
<1>11. ASSUME NEW i \in 1..R PROVE longer[i] = remote[i]
  BY <1>1, <1>9, <1>10, SMTT(20)
<1>12. ASSUME NEW i \in 1..Len(longer)
       PROVE  longer[i] = [ev |-> local[n0][i], ver |-> i]
  <2>0. i \in Nat
    BY <1>1
  <2>1. CASE i <= R
    <3>1. i \in 1..R
      BY <1>1, <2>1
    <3> QED
      BY <1>4, <1>11, <3>1
  <2>2. CASE ~(i <= R)
    <3> DEFINE k == next + (i - R) - 1
    <3>1. k \in next..last /\ i - R \in 1..(last + 1 - next) /\ R + (k + 1 - next) = i
      <4>1. next \in Nat /\ last \in Nat /\ R \in Nat /\ i <= R + (last + 1 - next)
        BY <1>1, <1>9, <1>10
      <4> QED
        BY <2>0, <2>2, <4>1
    <3>2. longer[i] = evs[k]
      BY <1>8, <1>9, <2>2, <3>1
    <3> HIDE DEF k
    <3>3. k \in next..Len(evs)
      BY <1>6, <3>1
    <3>4. evs[k] = [ev |-> local[n0][R + (k + 1 - next)], ver |-> R + (k + 1 - next)]
      BY <1>2, <3>3
    <3> QED
      BY <3>1, <3>2, <3>4
  <2> QED
    BY <2>1, <2>2
<1> QED
  BY <1>9, <1>10, <1>11, <1>12, Zenon DEF evs, next, last, R, longer

LEMMA WriterPushes ==
  ASSUME Shape, OneWayInv, NEW n0, OneWay(n0), NEW w \in Workers, n0 = NodeOf[w],
         PushVersion(w) \/ PushLoad(w) \/ PushBatch(w) \/ PushDone(w)
  PROVE  Shape' /\ OneWayInv'
<1>0. /\ n0 \in Nodes /\ Mode[n0] = "push"
      /\ local \in [Nodes -> Seq(Events)] /\ remote \in Seq(Versioneds)
      /\ Len(local[n0]) \in Nat /\ Len(remote) \in Nat
      /\ WellFormed(wk[w]) /\ DOMAIN wk = Workers
      /\ Len(remote) <= Len(local[n0])
      /\ \A i \in 1..Len(remote) : remote[i] = [ev |-> local[n0][i], ver |-> i]
  <2>1. n0 \in Nodes /\ Mode[n0] = "push"
    BY DEF OneWay
  <2>2. /\ local \in [Nodes -> Seq(Events)] /\ remote \in Seq(Versioneds)
        /\ WellFormed(wk[w]) /\ DOMAIN wk = Workers
    BY DEF Shape
  <2>3. Len(local[n0]) \in Nat /\ Len(remote) \in Nat
    BY <2>1, <2>2
  <2>4. /\ Len(remote) <= Len(local[n0])
        /\ \A i \in 1..Len(remote) : remote[i] = [ev |-> local[n0][i], ver |-> i]
    BY <2>1 DEF OneWayInv
  <2> QED
    BY <2>1, <2>2, <2>3, <2>4, Zenon
<1>1. wk[w].op = "sync" /\ WriterHolds(wk[w], local[n0])
  BY <1>0, Zenon DEF WellFormed, OneWayInv, PushVersion, PushLoad, PushBatch, PushDone
<1>2. ASSUME NEW ok, PushReturns(w, ok), UNCHANGED <<local, remote>>
      PROVE  Shape' /\ OneWayInv'
  BY <1>0, <1>1, <1>2, ReturnsAreQuiet, QuietPreserves, Zenon
<1>3. \A v \in Workers : NodeOf[v] = n0 => v = w
  BY SMTT(20) DEF OneWay
\* It is enough to look at w and at the two logs.
<1>4. ASSUME local' = local, remote' \in Seq(Versioneds),
             Len(remote) <= Len(remote'), \A i \in 1..Len(remote) : remote'[i] = remote[i],
             Len(remote') <= Len(local[n0]),
             \A i \in 1..Len(remote') : remote'[i] = [ev |-> local[n0][i], ver |-> i],
             OthersKept(w), WellFormed(wk'[w]), WriterHolds(wk[w], local[n0])'
      PROVE  Shape' /\ OneWayInv'
  <2>1. local' \in [Nodes -> Seq(Events)] /\ DOMAIN wk' = Workers
    BY <1>0, <1>4, Zenon DEF OthersKept
  <2>2. ASSUME NEW v \in Workers, NodeOf[v] # n0 PROVE wk'[v] = wk[v]
    <3>1. v \in Workers \ {w}
      BY <2>2
    <3> QED
      BY <1>4, <3>1, Zenon DEF OthersKept
  <2>3. \A v \in Workers : NodeOf[v] = n0 => WellFormed(wk'[v]) /\ WriterHolds(wk[v], local[n0])'
    BY <1>3, <1>4
  <2>4. /\ \A m \in Nodes \ {n0} : local'[m] = local[m]
        /\ Len(remote') <= Len(local'[n0])
        /\ \A i \in 1..Len(remote') : remote'[i] = [ev |-> local'[n0][i], ver |-> i]
    BY <1>4, Zenon
  <2> QED
    BY <1>4, <2>1, <2>2, <2>3, <2>4, WriterFrame, ZenonT(30)
\* When the logs stay as they are, at w alone.
<1>14. ASSUME local' = local, remote' = remote,
              OthersKept(w), WellFormed(wk'[w]), WriterHolds(wk[w], local[n0])'
       PROVE  Shape' /\ OneWayInv'
  <2>1. remote' \in Seq(Versioneds) /\ Len(remote) <= Len(remote') /\ Len(remote') <= Len(local[n0])
    BY <1>0, <1>14
  <2>2. \A i \in 1..Len(remote) : remote'[i] = remote[i]
    BY <1>14, Zenon
  <2>3. \A i \in 1..Len(remote') : remote'[i] = [ev |-> local[n0][i], ver |-> i]
    BY <1>0, <1>14, Zenon
  <2> QED
    BY <1>4, <1>14, <2>1, <2>2, <2>3, Zenon
<1>5. CASE /\ PushVersion(w)
           /\ wk' = [wk EXCEPT ![w].since = GetLatestVersion, ![w].pc = "pushLoad",
                               ![w].owed = RangeOf(local[NodeOf[w]]) \cap Accepts]
  <2>1. UNCHANGED <<local, remote>> /\ GetLatestVersion = Len(remote)
    BY <1>5, LatestIsLength DEF PushVersion
  <2> DEFINE owed == RangeOf(local[NodeOf[w]]) \cap Accepts
  <2>2. wk' = [wk EXCEPT ![w].since = Len(remote), ![w].pc = "pushLoad", ![w].owed = owed]
    BY <1>5, <2>1
  <2> HIDE DEF owed
  <2>3. OthersKept(w) /\ WellFormed(wk'[w])
    BY <1>0, <1>1, <2>2 DEF OthersKept, WellFormed, Idler
  <2>4. wk'[w].pc = "pushLoad" /\ wk'[w].since = Len(remote)
    BY <1>0, <2>2 DEF WellFormed, Idler
  <2>5. WriterHolds(wk[w], local[n0])'
    BY <2>1, <2>4 DEF WriterHolds
  <2> QED
    BY <1>14, <2>1, <2>3, <2>5, Zenon
<1>6. CASE /\ PushLoad(w)
           /\ wk' = [wk EXCEPT ![w].evs = Load(n0, wk[w].since), ![w].next = 1, ![w].pc = "pushBatch"]
  <2>1. UNCHANGED <<local, remote>> /\ wk[w].since = Len(remote)
    BY <1>1, <1>6, Zenon DEF PushLoad, WriterHolds
  <2> DEFINE evs == Load(n0, Len(remote))
  <2>2. /\ evs \in Seq(Versioneds)
        /\ Len(evs) = Len(local[n0]) - Len(remote)
        /\ \A k \in 1..(Len(local[n0]) - Len(remote)) :
             evs[k] = [ev |-> local[n0][Len(remote) + k], ver |-> Len(remote) + k]
    BY <1>0, LoadIsSuffix, Zenon
  <2>3. wk' = [wk EXCEPT ![w].evs = evs, ![w].next = 1, ![w].pc = "pushBatch"]
    BY <1>6, <2>1
  <2> HIDE DEF evs
  <2>4. OthersKept(w) /\ WellFormed(wk'[w])
    BY <1>0, <1>1, <2>2, <2>3 DEF OthersKept, WellFormed, Idler
  <2>5. wk'[w].pc = "pushBatch" /\ wk'[w].evs = evs /\ wk'[w].next = 1
    BY <1>0, <2>3 DEF WellFormed, Idler
  <2>6. 1 \in 1..(Len(evs) + 1) /\ Len(remote) + (Len(evs) + 1 - 1) <= Len(local[n0])
    BY <1>0, <2>2
  <2>7. ASSUME NEW k \in 1..Len(evs)
        PROVE  evs[k] = [ev |-> local[n0][Len(remote) + (k + 1 - 1)], ver |-> Len(remote) + (k + 1 - 1)]
    <3>1. Len(remote) + (k + 1 - 1) = Len(remote) + k /\ k \in 1..(Len(local[n0]) - Len(remote))
      BY <1>0, <2>2
    <3> QED
      BY <2>2, <3>1
  <2>8. WriterHolds(wk[w], local[n0])'
    BY <2>1, <2>5, <2>6, <2>7, SMTT(20) DEF WriterHolds
  <2> QED
    BY <1>14, <2>1, <2>4, <2>8, Zenon
<1>7. ASSUME PushBatch(w), remote' = remote \o Batch(w)
      PROVE  /\ local' = local
             /\ remote' \in Seq(Versioneds)
             /\ Len(remote) <= Len(remote') /\ \A i \in 1..Len(remote) : remote'[i] = remote[i]
             /\ Len(remote') <= Len(local[n0])
             /\ \A i \in 1..Len(remote') : remote'[i] = [ev |-> local[n0][i], ver |-> i]
             /\ Len(remote') = Len(remote) + (BatchEnd(w) + 1 - wk[w].next)
             /\ BatchEnd(w) \in Nat /\ BatchEnd(w) + 1 \in 1..(Len(wk[w].evs) + 1)
  <2>1. wk[w].pc = "pushBatch" /\ wk[w].next <= Len(wk[w].evs) /\ local' = local
    BY <1>7 DEF PushBatch
  <2> QED
    BY <1>7, <2>1, BatchExtends, Zenon
<1>8. CASE /\ PushBatch(w) /\ remote' = remote \o Batch(w)
           /\ wk' = [wk EXCEPT ![w].next = BatchEnd(w) + 1]
  <2> DEFINE evs == wk[w].evs
             next == wk[w].next
             then == BatchEnd(w) + 1
             R == Len(remote)
  <2>1. /\ wk[w].pc = "pushBatch" /\ evs \in Seq(Versioneds) /\ Len(evs) \in Nat /\ next \in Nat
        /\ then \in 1..(Len(evs) + 1) /\ then \in Nat
        /\ Len(remote') = R + (then - next) /\ R \in Nat
    <3>1. wk[w].pc = "pushBatch"
      BY <1>8 DEF PushBatch
    <3>2. evs \in Seq(Versioneds) /\ Len(evs) \in Nat /\ next \in Nat /\ R \in Nat
      BY <1>0, FieldsOfWorker, Zenon
    <3>3. then \in 1..(Len(evs) + 1) /\ Len(remote') = R + (then - next)
      <4>1. PushBatch(w) /\ remote' = remote \o Batch(w)
        BY <1>8
      <4>2. /\ Len(remote') = Len(remote) + (BatchEnd(w) + 1 - wk[w].next)
            /\ BatchEnd(w) \in Nat /\ BatchEnd(w) + 1 \in 1..(Len(wk[w].evs) + 1)
        BY <1>7, <4>1, Zenon
      <4>3. \A b, c \in Nat : b + 1 - c = (b + 1) - c
        OBVIOUS
      <4>4. BatchEnd(w) + 1 - wk[w].next = then - next
        BY <3>2, <4>2, <4>3, Zenon
      <4> QED
        BY <4>2, <4>4, Zenon
    <3>4. then \in Nat
      BY <3>2, <3>3
    <3> QED
      BY <3>1, <3>2, <3>3, <3>4
  <2>2. /\ next \in 1..(Len(evs) + 1)
        /\ R + (Len(evs) + 1 - next) <= Len(local[n0])
        /\ \A k \in next..Len(evs) :
             evs[k] = [ev |-> local[n0][R + (k + 1 - next)], ver |-> R + (k + 1 - next)]
    BY <1>1, <2>1, HoldsOfBatches, Zenon
  <2>3. OthersKept(w) /\ WellFormed(wk'[w])
    BY <1>0, <1>1, <1>8, <2>1 DEF OthersKept, WellFormed, Idler
  <2>4. wk'[w].pc = "pushBatch" /\ wk'[w].evs = evs /\ wk'[w].next = then
    BY <1>0, <1>8, <2>1 DEF WellFormed, Idler
  <2>5. R <= Len(remote')
    BY <1>7, <1>8
  <2> HIDE DEF evs, next, then, R
  <2>6. Len(remote') + (Len(evs) + 1 - then) <= Len(local[n0])
    BY <1>0, <2>1, <2>2, SMTT(20)
  <2>7. ASSUME NEW k \in then..Len(evs)
        PROVE  evs[k] = [ev |-> local[n0][Len(remote') + (k + 1 - then)],
                         ver |-> Len(remote') + (k + 1 - then)]
    <3>1. k \in next..Len(evs)
      BY <2>1, <2>5
    <3>2. R + (k + 1 - next) = Len(remote') + (k + 1 - then)
      BY <2>1
    <3>3. evs[k] = [ev |-> local[n0][R + (k + 1 - next)], ver |-> R + (k + 1 - next)]
      BY <2>2, <3>1, Zenon
    <3> QED
      BY <3>2, <3>3
  <2>8. local' = local
    BY <1>7, <1>8
  <2>9. WriterHolds(wk[w], local[n0])'
    BY <2>1, <2>4, <2>6, <2>7, <2>8, Zenon DEF WriterHolds
  <2> QED
    BY <1>4, <1>7, <1>8, <2>3, <2>9, Zenon
<1>9. CASE /\ PushBatch(w) /\ remote' = remote \o Batch(w)
           /\ PushReturns(w, FALSE)
  <2>1. OthersKept(w) /\ WellFormed(wk'[w]) /\ wk'[w].pc = "projections"
    BY <1>0, <1>1, <1>9 DEF PushReturns, OthersKept, WellFormed, Idler
  <2>2. WriterHolds(wk[w], local[n0])'
    BY <2>1, Zenon DEF WriterHolds
  <2> QED
    BY <1>4, <1>7, <1>9, <2>1, <2>2, Zenon
<1>10. CASE PushVersion(w)
  BY <1>2, <1>5, <1>10, Zenon DEF PushVersion
<1>11. CASE PushLoad(w)
  <2>1. wk[w].since = Len(remote)
    BY <1>1, <1>11, Zenon DEF PushLoad, WriterHolds
  <2> DEFINE evs == Load(NodeOf[w], wk[w].since)
  <2>2. evs \in Seq(Versioneds) /\ evs = Load(n0, wk[w].since)
    BY <1>0, <2>1, LoadIsSuffix, Zenon
  <2>3. Pick(evs, {i \in DOMAIN evs : evs[i].ev \in Accepts}) = evs
    BY <2>2, FilterKeepsAll, Zenon
  <2>4. \/ wk' = [wk EXCEPT ![w].evs = evs, ![w].next = 1, ![w].pc = "pushBatch"]
        \/ PushReturns(w, FALSE)
    BY <1>11, <2>3, Zenon DEF PushLoad
  <2>5. UNCHANGED <<local, remote>>
    BY <1>11, Zenon DEF PushLoad
  <2> QED
    BY <1>2, <1>6, <1>11, <2>2, <2>4, <2>5, Zenon
<1>12. CASE PushBatch(w)
  <2>1. local' = local
    BY <1>12 DEF PushBatch
  <2>2. CASE remote' = remote \o Batch(w) /\ wk' = [wk EXCEPT ![w].next = BatchEnd(w) + 1]
    BY <1>8, <1>12, <2>2
  <2>3. CASE PushReturns(w, FALSE) /\ UNCHANGED remote
    BY <1>2, <2>1, <2>3, Zenon
  <2>4. CASE PushReturns(w, FALSE) /\ remote' = remote \o Batch(w)
    BY <1>9, <1>12, <2>4
  <2> QED
    BY <1>12, <2>2, <2>3, <2>4, Zenon DEF PushBatch
<1>13. CASE PushDone(w)
  BY <1>2, <1>13, Zenon DEF PushDone
<1> QED
  BY <1>10, <1>11, <1>12, <1>13

(***************************************************************************)
(* The application stores an event at the writer.                          *)
(***************************************************************************)
LEMMA StoringPreserves ==
  ASSUME Shape, OneWayInv, NEW n0, OneWay(n0), NEW n \in Nodes, NEW e \in Events, AppStores(n, e)
  PROVE  Shape' /\ OneWayInv'
<1>1. n = n0 /\ n0 \in Nodes /\ Mode[n0] = "push"
  BY DEF OneWay, AppStores
<1> DEFINE L == Len(local[n0])
           log == Append(local[n0], e)
<1>2. /\ local \in [Nodes -> Seq(Events)] /\ local[n0] \in Seq(Events) /\ L \in Nat
      /\ remote \in Seq(Versioneds) /\ Len(remote) \in Nat
      /\ DOMAIN wk = Workers /\ \A v \in Workers : WellFormed(wk[v])
      /\ Len(remote) <= L
      /\ \A i \in 1..Len(remote) : remote[i] = [ev |-> local[n0][i], ver |-> i]
  BY <1>1, SMTT(20) DEF Shape, OneWayInv
<1>3. log \in Seq(Events) /\ Len(log) = L + 1 /\ \A i \in 1..L : log[i] = local[n0][i]
  BY <1>2, SMTT(20)
<1>4. /\ local' \in [Nodes -> Seq(Events)] /\ local'[n0] = log
      /\ \A m \in Nodes \ {n0} : local'[m] = local[m]
      /\ remote' = remote /\ wk' = wk
  BY <1>1, <1>2, <1>3, Zenon DEF AppStores
<1> HIDE DEF log
<1>5. Len(remote) <= Len(log)
  BY <1>2, <1>3
<1>6. ASSUME NEW i \in 1..Len(remote) PROVE remote[i] = [ev |-> log[i], ver |-> i]
  <2>1. i \in 1..L
    BY <1>2
  <2> QED
    BY <1>2, <1>3, <2>1, Zenon
<1>7. ASSUME NEW v \in Workers, NodeOf[v] = n0
      PROVE  WriterHolds(wk[v], local[n0])'
  <2> DEFINE r == wk[v]
             P(k) == Len(remote) + (k + 1 - r.next)
  <2>1. WriterHolds(r, local[n0])
    BY <1>1, <1>7 DEF OneWayInv
  <2>2. CASE r.pc = "pushBatch"
    <3>1. /\ r.next \in 1..(Len(r.evs) + 1) /\ Len(remote) + (Len(r.evs) + 1 - r.next) <= L
          /\ \A k \in r.next..Len(r.evs) : r.evs[k] = [ev |-> local[n0][P(k)], ver |-> P(k)]
      BY <2>1, <2>2, HoldsOfBatches, Zenon
    <3>2. Len(r.evs) \in Nat /\ r.next \in Nat
      BY <1>2, FieldsOfWorker, Zenon
    <3> HIDE DEF r, L
    <3>3. Len(remote) + (Len(r.evs) + 1 - r.next) <= Len(log)
      BY <1>2, <1>3, <3>1, <3>2, SMTT(20)
    <3>4. ASSUME NEW k \in r.next..Len(r.evs) PROVE r.evs[k] = [ev |-> log[P(k)], ver |-> P(k)]
      <4>1. P(k) \in 1..L
        <5>1. Len(remote) \in Nat /\ L \in Nat
          BY <1>2, Zenon
        <5>2. k \in Nat /\ r.next <= k /\ k <= Len(r.evs)
          BY <3>2
        <5> HIDE DEF P
        <5>3. P(k) = Len(remote) + (k + 1 - r.next)
          BY DEF P
        <5>4. P(k) \in Int /\ 1 <= P(k) /\ P(k) <= Len(remote) + (Len(r.evs) + 1 - r.next)
          BY <3>2, <5>1, <5>2, <5>3
        <5> QED
          BY <3>1, <3>2, <5>1, <5>4, SMTT(20)
      <4> QED
        BY <1>3, <3>1, <4>1, Zenon
    <3> QED
      BY <1>4, <2>1, <2>2, <3>1, <3>3, <3>4, Zenon DEF WriterHolds, r
  <2>3. CASE r.pc # "pushBatch"
    BY <1>4, <2>1, <2>3, Zenon DEF WriterHolds
  <2> QED
    BY <2>2, <2>3
<1>8. \A v \in Workers : NodeOf[v] = n0 => WellFormed(wk'[v]) /\ WriterHolds(wk[v], local[n0])'
  BY <1>2, <1>4, <1>7, Zenon
<1>9. /\ remote' \in Seq(Versioneds) /\ Len(remote) <= Len(remote')
      /\ \A i \in 1..Len(remote) : remote'[i] = remote[i]
      /\ DOMAIN wk' = Workers /\ \A v \in Workers : NodeOf[v] # n0 => wk'[v] = wk[v]
  <2>1. remote' \in Seq(Versioneds) /\ Len(remote) <= Len(remote')
    <3>1. remote' = remote /\ remote \in Seq(Versioneds) /\ Len(remote) \in Nat
      BY <1>2, <1>4, Zenon
    <3>2. Len(remote) <= Len(remote)
      BY <3>1
    <3> QED
      BY <3>1, <3>2, Zenon
  <2>2. /\ \A i \in 1..Len(remote) : remote'[i] = remote[i]
        /\ DOMAIN wk' = Workers /\ \A v \in Workers : NodeOf[v] # n0 => wk'[v] = wk[v]
    BY <1>2, <1>4, Zenon
  <2> QED
    BY <2>1, <2>2, Zenon
<1>10. /\ Len(remote') <= Len(local'[n0])
       /\ \A i \in 1..Len(remote') : remote'[i] = [ev |-> local'[n0][i], ver |-> i]
  BY <1>4, <1>5, <1>6
<1> QED
  BY <1>4, <1>8, <1>9, <1>10, WriterFrame, Zenon

(***************************************************************************)
(* The theorem.                                                            *)
(***************************************************************************)
LEMMA OneWayInit ==
  ASSUME Init PROVE Shape /\ OneWayInv
<1>1. <<>> \in Seq(Events) /\ <<>> \in Seq(Versioneds) /\ Len(<<>>) = 0
  BY SeqEmpty
<1>2. Shape
  BY <1>1, IdlerWellFormed DEF Init, Shape
<1>3. \A w \in Workers : wk[w].pc = "idle"
  BY IdlerWellFormed DEF Init
<1>4. \A n \in Nodes : local[n] = <<>>
  BY DEF Init
<1>5. remote = <<>>
  BY DEF Init
<1> QED
  BY <1>1, <1>2, <1>3, <1>4, <1>5, SMTT(20) DEF OneWayInv, WriterHolds, ReaderHolds

LEMMA OneWayNext ==
  ASSUME Shape, OneWayInv, NEW n0, OneWay(n0), [Next]_vars
  PROVE  Shape' /\ OneWayInv'
<1>1. CASE UNCHANGED vars
  <2>1. local' = local /\ remote' = remote /\ wk' = wk
    BY <1>1 DEF vars
  <2> QED
    BY <2>1, KeptPreserves, Zenon
<1>2. ASSUME NEW w \in Workers, Step(w)
      PROVE  Shape' /\ OneWayInv'
  <2>0. NodeOf[w] = n0 \/ Mode[NodeOf[w]] = "pull"
    BY ManagerAssumption DEF OneWay
  <2>1. CASE \/ TestIdle(w) \/ Validate(w) \/ Refused(w) \/ Transition(w)
             \/ RunProjections(w) \/ FinalVersion(w) \/ Return(w)
    BY <2>1, ControlIsQuiet, QuietPreserves
  <2>2. CASE PullVersion(w) \/ PullFetch(w) \/ PullLoad(w) \/ PullStore(w) \/ PullStored(w)
    <3>1. wk[w].pc \in {"pullVersion", "pullFetch", "pullLoad", "pullStore"}
      BY <2>2, Zenon DEF PullVersion, PullFetch, PullLoad, PullStore, PullStored
    <3>2. Mode[NodeOf[w]] = "push" => WriterHolds(wk[w], local[NodeOf[w]])
      BY DEF OneWayInv
    <3>3. Mode[NodeOf[w]] = "pull"
      BY <2>0, <3>1, <3>2, SMTT(20) DEF OneWay, WriterHolds
    <3> QED
      BY <2>2, <3>3, ReaderPulls
  <2>3. CASE PushVersion(w) \/ PushLoad(w) \/ PushBatch(w) \/ PushDone(w)
    <3>1. NodeOf[w] = n0
      BY <2>0, <2>3, Zenon DEF OneWayInv, ReaderHolds, PushVersion, PushLoad, PushBatch, PushDone
    <3> QED
      BY <2>3, <3>1, WriterPushes
  <2>4. CASE Resolve(w)
    BY <2>4, Zenon DEF Resolve, OneWayInv, WriterHolds, ReaderHolds
  <2> QED
    BY <1>2, <2>1, <2>2, <2>3, <2>4 DEF Step
<1>3. ASSUME NEW w \in Workers, CancelContext(w) \/ \E op \in Operations : Start(w, op)
      PROVE  Shape' /\ OneWayInv'
  BY <1>3, ControlIsQuiet, QuietPreserves
<1>4. ASSUME NEW n \in Nodes, CloseBegins(n) \/ CloseStep(n)
      PROVE  Shape' /\ OneWayInv'
  <2>1. local' = local /\ remote' = remote /\ wk' = wk
    BY <1>4 DEF CloseBegins, CloseStep
  <2> QED
    BY <2>1, KeptPreserves, Zenon
<1>5. ASSUME NEW n \in Nodes, NEW e \in Events, AppStores(n, e)
      PROVE  Shape' /\ OneWayInv'
  BY <1>5, StoringPreserves
<1> QED
  BY <1>1, <1>2, <1>3, <1>4, <1>5 DEF Next

LEMMA InvGivesPrefixes ==
  ASSUME Shape, OneWayInv, NEW n0, OneWay(n0) PROVE ReplicasArePrefixes
<1> SUFFICES ASSUME NEW n \in Nodes
             PROVE  /\ Mode[n] = "push" => IsPrefix(RemoteEvents, local[n])
                    /\ Mode[n] = "pull" => IsPrefix(local[n], RemoteEvents)
  BY DEF ReplicasArePrefixes
<1>1. Len(remote) \in Nat /\ Len(local[n]) \in Nat
  BY DEF Shape
<1>2. Len(RemoteEvents) = Len(remote) /\ \A i \in 1..Len(remote) : RemoteEvents[i] = remote[i].ev
  <2>1. RemoteEvents \in [1..Len(remote) -> {remote[i].ev : i \in 1..Len(remote)}]
    BY DEF RemoteEvents
  <2>2. Len(RemoteEvents) = Len(remote)
    BY <1>1, <2>1, FunctionIsSeq
  <2> QED
    BY <2>2 DEF RemoteEvents
<1>3. ASSUME Mode[n] = "push" PROVE IsPrefix(RemoteEvents, local[n])
  <2>1. Len(remote) <= Len(local[n])
    BY <1>3 DEF OneWayInv
  <2>2. ASSUME NEW i \in 1..Len(remote) PROVE RemoteEvents[i] = local[n][i]
    <3>1. remote[i] = [ev |-> local[n][i], ver |-> i]
      BY <1>3 DEF OneWayInv
    <3> QED
      BY <1>2, <3>1, SMTT(20)
  <2> QED
    BY <1>2, <2>1, <2>2 DEF IsPrefix
<1>4. ASSUME Mode[n] = "pull" PROVE IsPrefix(local[n], RemoteEvents)
  <2>1. Len(local[n]) <= Len(remote) /\ \A i \in 1..Len(local[n]) : local[n][i] = remote[i].ev
    BY <1>4 DEF OneWayInv
  <2>2. ASSUME NEW i \in 1..Len(local[n]) PROVE local[n][i] = RemoteEvents[i]
    <3>1. i \in 1..Len(remote)
      BY <1>1, <2>1
    <3> QED
      BY <1>2, <2>1, <3>1
  <2> QED
    BY <1>2, <2>1, <2>2 DEF IsPrefix
<1> QED
  BY <1>3, <1>4

\* Sync between one PushOnly manager and any number of PullOnly managers never
\* loses, duplicates or reorders an event, for every number of nodes, events,
\* faults and closes, and every batch size.
THEOREM OneWayPrefixes ==
  ASSUME NEW n0, OneWay(n0)
  PROVE  Spec => []ReplicasArePrefixes
<1>1. Init => Shape /\ OneWayInv
  BY OneWayInit
<1>2. Shape /\ OneWayInv /\ [Next]_vars => Shape' /\ OneWayInv'
  BY OneWayNext
<1>3. Shape /\ OneWayInv => ReplicasArePrefixes
  BY InvGivesPrefixes
<1> QED
  BY <1>1, <1>2, <1>3, PTL DEF Spec
============================================================================
