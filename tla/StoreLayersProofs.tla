---------------------------- MODULE StoreLayersProofs ----------------------------
(* Proofs about what is put on top of the event stores. Each theorem is of the    *)
(* component's own specification, for every value of its constants.               *)
EXTENDS StoreLayers, Sequences, FiniteSetTheorems, TLAPS

USE ZenonT(3), SMTT(30)

(*******************************************************************************)
(* Vector clocks tell causality, for any number of replicas, versions, merges  *)
(* and refusals (Causality). The idea: a clock together with the stamps it     *)
(* stands for is a view. A replica has a view, and so has every stamp; a view  *)
(* fits the stamps when its count for the maker of a stamp reaches the stamp's *)
(* exactly if the stamp is one of the view's (Fits). Merging and incrementing  *)
(* keep views fitting.                                                         *)
(*******************************************************************************)

\* Replicas have node IDs of their own, and none is the name under which Load
\* puts the store's sequence number into a clock.
DistinctNodes ==
  /\ \A r, s \in Replicas : NodeID[r] = NodeID[s] => r = s
  /\ \A r \in Replicas : NodeID[r] # Versioned!Sequence

\* VersionedStore's cardinality is the library's.
LEMMA SameCardinality == \A S : Versioned!Cardinality(S) = Cardinality(S)
BY DEF Versioned!Cardinality, Cardinality, Versioned!IsFiniteSet, IsFiniteSet

IsClock(c) == IsFiniteSet(DOMAIN c) /\ \A n \in DOMAIN c : c[n] \in Nat

Leq(c, d) == DOMAIN c \subseteq DOMAIN d /\ \A n : Versioned!GetClock(c, n) <= Versioned!GetClock(d, n)

IsSeq(s) == \E S : s \in Seq(S)

\* The count of clock c for the replica that made stamp v.
At(c, v) == Versioned!GetClock(c, NodeID[v.by])

\* A view, the clock c of the stamps ids, and a stamp v.
Fits(c, ids, v) ==
  /\ v.id \in ids <=> At(v.clock, v) <= At(c, v)
  /\ v.id \in ids => v.past \subseteq ids /\ Leq(v.clock, c)

\* No clock counts more for a replica than the replica itself.
Bounded(c) == \A r \in Replicas : Versioned!GetClock(c, NodeID[r]) <= Versioned!GetClock(clock[r], NodeID[r])

StampTypeInv ==
  /\ DOMAIN clock = Replicas /\ DOMAIN knows = Replicas
  /\ \A r \in Replicas : IsClock(clock[r])
  /\ IsFiniteSet(stamps)
  /\ \A v \in stamps : v.by \in Replicas /\ IsClock(v.clock) /\ NodeID[v.by] \in DOMAIN v.clock
  /\ IsSeq(stampedLog)

\* Stamps are numbered in the order in which they were made.
Numbered ==
  /\ \A v \in stamps : v.id \in 1..Cardinality(stamps) /\ \A i \in v.past : i \in 1..(v.id - 1)
  /\ \A v, w \in stamps : v.id = w.id => v = w
  /\ \A r \in Replicas : knows[r] \subseteq 1..Cardinality(stamps)

ViewsFit ==
  /\ \A r \in Replicas : Bounded(clock[r]) /\ \A v \in stamps : Fits(clock[r], knows[r], v)
  /\ \A w \in stamps : Bounded(w.clock) /\ \A v \in stamps : Fits(w.clock, w.past \cup {w.id}, v)

CausalInv == StampTypeInv /\ Numbered /\ ViewsFit

--------------------------------------------------------------------------------
(* Clocks.                                                                      *)

\* A clock counts in natural numbers, what it does not track as 0.
LEMMA GetClockType ==
  ASSUME NEW c, IsClock(c), NEW n
  PROVE  Versioned!GetClock(c, n) \in Nat
BY DEF IsClock, Versioned!GetClock

\* Leq is transitive on clocks.
LEMMA LeqTrans ==
  ASSUME NEW c, NEW d, NEW e, IsClock(c), IsClock(d), IsClock(e), Leq(c, d), Leq(d, e)
  PROVE  Leq(c, e)
<1>1. ASSUME NEW n PROVE Versioned!GetClock(c, n) <= Versioned!GetClock(e, n)
  <2>1. Versioned!GetClock(c, n) \in Nat /\ Versioned!GetClock(d, n) \in Nat /\ Versioned!GetClock(e, n) \in Nat BY GetClockType
  <2>2. Versioned!GetClock(c, n) <= Versioned!GetClock(d, n) /\ Versioned!GetClock(d, n) <= Versioned!GetClock(e, n) BY DEF Leq
  <2> QED BY <2>1, <2>2
<1> QED BY <1>1 DEF Leq

\* Merge is the least upper bound, or nothing when it is refused.
LEMMA MergeFacts ==
  ASSUME NEW c, NEW d, IsClock(c), IsClock(d)
  PROVE  /\ IsClock(Versioned!Merge(c, d))
         /\ Leq(c, Versioned!Merge(c, d))
         /\ Versioned!CanMerge(c, d) => Leq(d, Versioned!Merge(c, d))
         /\ Versioned!CanMerge(c, d) => \A n : Versioned!GetClock(Versioned!Merge(c, d), n) \in {Versioned!GetClock(c, n), Versioned!GetClock(d, n)}
         /\ ~Versioned!CanMerge(c, d) => Versioned!Merge(c, d) = c
<1>0. \A n : Versioned!GetClock(c, n) \in Nat /\ Versioned!GetClock(d, n) \in Nat BY GetClockType
<1>1. CASE Versioned!CanMerge(c, d)
  <2> DEFINE m == Versioned!Merge(c, d)
  <2>1. DOMAIN m = DOMAIN c \cup DOMAIN d BY <1>1 DEF Versioned!Merge
  <2>2. \A n \in DOMAIN c \cup DOMAIN d :
          m[n] = IF Versioned!GetClock(d, n) > Versioned!GetClock(c, n) THEN Versioned!GetClock(d, n) ELSE Versioned!GetClock(c, n)
    BY <1>1 DEF Versioned!Merge
  <2>3. \A n : Versioned!GetClock(m, n) = IF Versioned!GetClock(d, n) > Versioned!GetClock(c, n) THEN Versioned!GetClock(d, n) ELSE Versioned!GetClock(c, n)
    <3> TAKE n
    <3>1. CASE n \in DOMAIN m BY <3>1, <2>1, <2>2 DEF Versioned!GetClock
    <3>2. CASE n \notin DOMAIN m
      <4>1. Versioned!GetClock(c, n) = 0 /\ Versioned!GetClock(d, n) = 0 /\ Versioned!GetClock(m, n) = 0 BY <3>2, <2>1 DEF Versioned!GetClock
      <4> QED BY <4>1
    <3> QED BY <3>1, <3>2
  <2>4. IsFiniteSet(DOMAIN m) BY <2>1, FS_Union, Zenon DEF IsClock
  <2>5. IsClock(m) BY <2>4, <2>1, <2>2, <1>0 DEF IsClock
  <2>6. Leq(c, m) /\ Leq(d, m)
    <3> HIDE DEF m
    <3> QED BY <2>1, <2>3, <1>0 DEF Leq
  <2>7. \A n : Versioned!GetClock(m, n) \in {Versioned!GetClock(c, n), Versioned!GetClock(d, n)}
    <3> HIDE DEF m
    <3> QED BY <2>3
  <2> QED BY <2>5, <2>6, <2>7, <1>1
<1>2. CASE ~Versioned!CanMerge(c, d)
  <2>1. Versioned!Merge(c, d) = c BY <1>2 DEF Versioned!Merge
  <2> QED BY <1>2, <2>1, <1>0 DEF Leq
<1> QED BY <1>1, <1>2

\* Increment adds one for the node and leaves the others alone.
LEMMA IncrementFacts ==
  ASSUME NEW c, IsClock(c), NEW n, Versioned!CanIncrement(c, n)
  PROVE  /\ IsClock(Versioned!Increment(c, n))
         /\ Leq(c, Versioned!Increment(c, n))
         /\ n \in DOMAIN Versioned!Increment(c, n)
         /\ Versioned!GetClock(Versioned!Increment(c, n), n) = Versioned!GetClock(c, n) + 1
         /\ \A m : m # n => Versioned!GetClock(Versioned!Increment(c, n), m) = Versioned!GetClock(c, m)
<1> DEFINE i == Versioned!Increment(c, n)
<1>0. \A m : Versioned!GetClock(c, m) \in Nat BY GetClockType
<1>1. DOMAIN i = DOMAIN c \cup {n} BY DEF Versioned!Increment
<1>2. \A m \in DOMAIN c \cup {n} : i[m] = IF m = n THEN Versioned!GetClock(c, n) + 1 ELSE c[m] BY DEF Versioned!Increment
<1>3. Versioned!GetClock(i, n) = Versioned!GetClock(c, n) + 1 BY <1>1, <1>2 DEF Versioned!GetClock
<1>4. \A m : m # n => Versioned!GetClock(i, m) = Versioned!GetClock(c, m) BY <1>1, <1>2 DEF Versioned!GetClock
<1>5. IsFiniteSet(DOMAIN i) BY <1>1, FS_AddElement DEF IsClock
<1>6. IsClock(i) BY <1>5, <1>1, <1>2, <1>0 DEF IsClock
<1>7. Leq(c, i)
  <2> HIDE DEF i
  <2>1. ASSUME NEW m PROVE Versioned!GetClock(c, m) <= Versioned!GetClock(i, m)
    <3>1. CASE m = n BY <3>1, <1>0, <1>3
    <3>2. CASE m # n BY <3>2, <1>0, <1>4
    <3> QED BY <3>1, <3>2
  <2> QED BY <2>1, <1>1 DEF Leq
<1> QED BY <1>1, <1>3, <1>4, <1>6, <1>7

\* The clock of a sequence number counts for no replica.
LEMMA CursorClock ==
  ASSUME NEW seq \in Nat
  PROVE  /\ IsClock(Versioned!CursorToVectorClock(seq))
         /\ \A n : n # Versioned!Sequence => Versioned!GetClock(Versioned!CursorToVectorClock(seq), n) = 0
<1>1. DOMAIN Versioned!CursorToVectorClock(seq) = {Versioned!Sequence} BY DEF Versioned!CursorToVectorClock
<1>2. IsFiniteSet({Versioned!Sequence}) BY FS_Singleton
<1> QED BY <1>1, <1>2 DEF IsClock, Versioned!GetClock, Versioned!CursorToVectorClock

--------------------------------------------------------------------------------
(* Views.                                                                       *)

\* Two views that fit a stamp still do when they are merged.
LEMMA MergedFits ==
  ASSUME NEW c, NEW d, IsClock(c), IsClock(d), Versioned!CanMerge(c, d), NEW A, NEW B,
         NEW v, IsClock(v.clock), Fits(c, A, v), Fits(d, B, v)
  PROVE  Fits(Versioned!Merge(c, d), A \cup B, v)
<1> DEFINE m == Versioned!Merge(c, d)
<1>1. IsClock(m) /\ Leq(c, m) /\ Leq(d, m) /\ At(m, v) \in {At(c, v), At(d, v)}
  BY MergeFacts DEF At
<1> HIDE DEF m
<1>2. At(c, v) \in Nat /\ At(d, v) \in Nat /\ At(m, v) \in Nat /\ At(v.clock, v) \in Nat
  BY <1>1, GetClockType DEF At
<1>3. At(c, v) <= At(m, v) /\ At(d, v) <= At(m, v) BY <1>1 DEF Leq, At
<1>4. v.id \in A \cup B <=> At(v.clock, v) <= At(m, v) BY <1>1, <1>2, <1>3 DEF Fits
<1>5. ASSUME v.id \in A \cup B PROVE v.past \subseteq A \cup B /\ Leq(v.clock, m)
  <2>1. CASE v.id \in A BY <2>1, <1>1, LeqTrans DEF Fits
  <2>2. CASE v.id \in B BY <2>2, <1>1, LeqTrans DEF Fits
  <2> QED BY <1>5, <2>1, <2>2
<1> QED BY <1>4, <1>5 DEF Fits, m

\* A view still fits a stamp when its clock grows, but not for the stamp's maker.
LEMMA GrownFits ==
  ASSUME NEW c, NEW d, IsClock(c), IsClock(d), Leq(c, d), NEW A,
         NEW v, IsClock(v.clock), Fits(c, A, v), At(d, v) = At(c, v)
  PROVE  Fits(d, A, v)
BY LeqTrans DEF Fits

--------------------------------------------------------------------------------
(* The invariant.                                                               *)

\* Nobody has stamped anything.
LEMMA InitCausal == Versioned!Init => CausalInv
<1> SUFFICES ASSUME Versioned!Init PROVE CausalInv OBVIOUS
<1>1. IsClock(Versioned!NewVectorClock) BY FS_EmptySet DEF IsClock, Versioned!NewVectorClock
<1>2. StampTypeInv
  <2>1. <<>> \in Seq({}) OBVIOUS
  <2> QED BY <2>1, <1>1, FS_EmptySet DEF Versioned!Init, StampTypeInv, IsSeq
<1>3. Numbered BY DEF Versioned!Init, Numbered
<1>4. ViewsFit BY DEF Versioned!Init, ViewsFit, Bounded, Versioned!GetClock, Versioned!NewVectorClock
<1> QED BY <1>2, <1>3, <1>4 DEF CausalInv

\* A step in which the clock of one replica grows, but not for the replicas, and
\* nobody learns of a stamp.
LEMMA SequenceMerged ==
  ASSUME DistinctNodes, CausalInv, NEW r \in Replicas, NEW seq \in Nat,
         clock' = [clock EXCEPT ![r] = Versioned!Merge(@, Versioned!CursorToVectorClock(seq))],
         UNCHANGED <<knows, stamps>>, IsSeq(stampedLog')
  PROVE  CausalInv'
<1> DEFINE d == Versioned!CursorToVectorClock(seq)
           m == Versioned!Merge(clock[r], d)
<1>0. IsClock(clock[r]) /\ IsClock(d) /\ \A n : n # Versioned!Sequence => Versioned!GetClock(d, n) = 0
  BY CursorClock DEF CausalInv, StampTypeInv
<1>1. IsClock(m) /\ Leq(clock[r], m) BY <1>0, MergeFacts
<1>2. ASSUME NEW s \in Replicas PROVE Versioned!GetClock(m, NodeID[s]) = Versioned!GetClock(clock[r], NodeID[s])
  <2>1. Versioned!GetClock(m, NodeID[s]) \in {Versioned!GetClock(clock[r], NodeID[s]), Versioned!GetClock(d, NodeID[s])}
    BY <1>0, MergeFacts
  <2>2. Versioned!GetClock(d, NodeID[s]) = 0 BY <1>0 DEF DistinctNodes
  <2>3. Versioned!GetClock(clock[r], NodeID[s]) <= Versioned!GetClock(m, NodeID[s]) BY <1>1 DEF Leq
  <2>4. Versioned!GetClock(clock[r], NodeID[s]) \in Nat BY <1>0, GetClockType
  <2> HIDE DEF d, m
  <2> QED BY <2>1, <2>2, <2>3, <2>4
<1>3. DOMAIN clock' = Replicas /\ clock'[r] = m /\ \A s \in Replicas : s # r => clock'[s] = clock[s]
  BY DEF CausalInv, StampTypeInv
<1> HIDE DEF d, m
<1>4. StampTypeInv' BY <1>1, <1>3 DEF CausalInv, StampTypeInv
<1>5. Numbered' BY DEF CausalInv, Numbered
<1>6. ViewsFit'
  <2>1. ASSUME NEW s \in Replicas PROVE Bounded(clock[s])'
    BY <2>1, <1>2, <1>3 DEF CausalInv, ViewsFit, Bounded
  <2>2. ASSUME NEW s \in Replicas, NEW v \in stamps PROVE Fits(clock'[s], knows[s], v)
    <3>1. CASE s = r
      <4>1. Fits(clock[r], knows[r], v) /\ IsClock(v.clock) /\ v.by \in Replicas
        BY DEF CausalInv, ViewsFit, StampTypeInv
      <4>2. At(m, v) = At(clock[r], v) BY <4>1, <1>2 DEF At
      <4> QED BY <3>1, <4>1, <4>2, <1>0, <1>1, <1>3, GrownFits
    <3>2. CASE s # r BY <3>2, <1>3 DEF CausalInv, ViewsFit
    <3> QED BY <3>1, <3>2
  <2>3. ASSUME NEW w \in stamps PROVE Bounded(w.clock)'
    <3>1. Bounded(w.clock) BY Zenon DEF CausalInv, ViewsFit
    <3>2. \A s \in Replicas : Versioned!GetClock(clock'[s], NodeID[s]) = Versioned!GetClock(clock[s], NodeID[s]) BY <1>2, <1>3
    <3> QED BY <3>1, <3>2 DEF Bounded
  <2> QED BY <2>1, <2>2, <2>3 DEF CausalInv, ViewsFit, Fits
<1> QED BY <1>4, <1>5, <1>6 DEF CausalInv

\* UpdateFromVersion: the replica takes over the whole view of the stamp, or,
\* refused at the limit of nodes, nothing.
LEMMA UpdateCausal ==
  ASSUME DistinctNodes, CausalInv, NEW r \in Replicas, NEW w \in stamps, Versioned!UpdateFromVersion(r, w)
  PROVE  CausalInv'
<1> DEFINE m == Versioned!Merge(clock[r], w.clock)
           ids == IF Versioned!CanMerge(clock[r], w.clock) THEN knows[r] \cup w.past \cup {w.id} ELSE knows[r]
<1>0. IsClock(clock[r]) /\ IsClock(w.clock) BY DEF CausalInv, StampTypeInv
<1>1. IsClock(m) /\ Leq(clock[r], m) BY <1>0, MergeFacts
<1>2. /\ DOMAIN clock' = Replicas /\ clock'[r] = m /\ \A s \in Replicas : s # r => clock'[s] = clock[s]
      /\ DOMAIN knows' = Replicas /\ knows'[r] = ids /\ \A s \in Replicas : s # r => knows'[s] = knows[s]
      /\ stamps' = stamps /\ stampedLog' = stampedLog
  BY DEF CausalInv, StampTypeInv, Versioned!UpdateFromVersion
<1>3. StampTypeInv'
  <2> HIDE DEF m
  <2> QED BY <1>1, <1>2 DEF CausalInv, StampTypeInv
<1>4. Numbered'
  <2>1. ids \subseteq 1..Cardinality(stamps)
    <3>1. IsFiniteSet(stamps) BY DEF CausalInv, StampTypeInv
    <3>2. Cardinality(stamps) \in Nat BY <3>1, FS_CardinalityType
    <3>3. w.id \in 1..Cardinality(stamps) /\ knows[r] \subseteq 1..Cardinality(stamps) BY DEF CausalInv, Numbered
    <3>4. w.past \subseteq 1..Cardinality(stamps) BY <3>2, <3>3 DEF CausalInv, Numbered
    <3> QED BY <3>3, <3>4
  <2> HIDE DEF ids
  <2> QED BY <2>1, <1>2, Zenon DEF CausalInv, Numbered
<1>5. ASSUME NEW v \in stamps PROVE Fits(m, ids, v)
  <2>1. Fits(clock[r], knows[r], v) /\ Fits(w.clock, w.past \cup {w.id}, v) /\ IsClock(v.clock)
    BY DEF CausalInv, ViewsFit, StampTypeInv
  <2>2. CASE Versioned!CanMerge(clock[r], w.clock)
    <3>1. Fits(m, knows[r] \cup (w.past \cup {w.id}), v) BY <2>1, <2>2, <1>0, MergedFits
    <3>2. ids = knows[r] \cup (w.past \cup {w.id}) BY <2>2
    <3> QED BY <3>1, <3>2
  <2>3. CASE ~Versioned!CanMerge(clock[r], w.clock) BY <2>1, <2>3, <1>0, MergeFacts
  <2> QED BY <2>2, <2>3
<1>6. ASSUME NEW s \in Replicas
      PROVE  /\ Versioned!GetClock(m, NodeID[s]) <= Versioned!GetClock(clock'[s], NodeID[s])
             /\ Versioned!GetClock(clock[s], NodeID[s]) <= Versioned!GetClock(clock'[s], NodeID[s])
  <2> DEFINE k(c) == Versioned!GetClock(c, NodeID[s])
  <2>1. k(m) \in Nat /\ k(clock[r]) \in Nat /\ k(w.clock) \in Nat /\ k(clock[s]) \in Nat
    BY <1>0, <1>1, GetClockType DEF CausalInv, StampTypeInv
  <2>2. k(clock[r]) <= k(clock[s]) /\ k(w.clock) <= k(clock[s]) BY Zenon DEF CausalInv, ViewsFit, Bounded
  <2>3. k(m) \in {k(clock[r]), k(w.clock)}
    <3>1. CASE Versioned!CanMerge(clock[r], w.clock) BY <3>1, <1>0, MergeFacts
    <3>2. CASE ~Versioned!CanMerge(clock[r], w.clock) BY <3>2, <1>0, MergeFacts
    <3> QED BY <3>1, <3>2
  <2>4. k(m) <= k(clock[s]) /\ k(clock[s]) <= k(clock[s])
    <3> HIDE DEF k
    <3> QED BY <2>1, <2>2, <2>3
  <2>5. CASE s = r
    <3>1. k(clock[r]) <= k(m) BY <1>1 DEF Leq
    <3>2. k(m) <= k(m)
      <4> HIDE DEF k
      <4> QED BY <2>1
    <3> QED BY <2>5, <3>1, <3>2, <1>2
  <2>6. CASE s # r BY <2>6, <2>4, <1>2
  <2> QED BY <2>5, <2>6
<1> HIDE DEF m, ids
<1>7. ASSUME NEW c, IsClock(c), Bounded(c) PROVE Bounded(c)'
  <2> SUFFICES ASSUME NEW s \in Replicas PROVE Versioned!GetClock(c, NodeID[s]) <= Versioned!GetClock(clock'[s], NodeID[s])
    BY DEF Bounded
  <2>1. IsClock(clock'[s]) /\ IsClock(clock[s]) BY <1>3 DEF CausalInv, StampTypeInv
  <2>2. Versioned!GetClock(c, NodeID[s]) \in Nat /\ Versioned!GetClock(clock[s], NodeID[s]) \in Nat /\ Versioned!GetClock(clock'[s], NodeID[s]) \in Nat
    BY <2>1, <1>7, GetClockType
  <2>3. Versioned!GetClock(c, NodeID[s]) <= Versioned!GetClock(clock[s], NodeID[s]) BY <1>7 DEF Bounded
  <2> QED BY <2>2, <2>3, <1>6
<1>8. ASSUME NEW s \in Replicas PROVE Bounded(clock[s])'
  <2>1. CASE s = r BY <2>1, <1>2, <1>6 DEF Bounded
  <2>2. CASE s # r
    <3>1. IsClock(clock[s]) /\ Bounded(clock[s]) /\ clock'[s] = clock[s] BY <2>2, <1>2 DEF CausalInv, StampTypeInv, ViewsFit
    <3>2. ASSUME NEW q \in Replicas PROVE Versioned!GetClock(clock[s], NodeID[q]) <= Versioned!GetClock(clock'[q], NodeID[q])
      <4>1. Versioned!GetClock(clock[s], NodeID[q]) <= Versioned!GetClock(clock[q], NodeID[q]) BY <3>1 DEF Bounded
      <4>2. Versioned!GetClock(clock[q], NodeID[q]) <= Versioned!GetClock(clock'[q], NodeID[q]) BY <1>6
      <4>3. Versioned!GetClock(clock[s], NodeID[q]) \in Nat /\ Versioned!GetClock(clock[q], NodeID[q]) \in Nat /\ Versioned!GetClock(clock'[q], NodeID[q]) \in Nat
        BY <1>3, GetClockType DEF CausalInv, StampTypeInv
      <4> QED BY <4>1, <4>2, <4>3
    <3> QED BY <3>1, <3>2 DEF Bounded
  <2> QED BY <2>1, <2>2
<1>9. ASSUME NEW s \in Replicas, NEW v \in stamps PROVE Fits(clock'[s], knows'[s], v)
  <2>1. CASE s = r BY <2>1, <1>2, <1>5
  <2>2. CASE s # r BY <2>2, <1>2 DEF CausalInv, ViewsFit
  <2> QED BY <2>1, <2>2
<1>10. ASSUME NEW v \in stamps PROVE Bounded(v.clock)'
  <2>1. IsClock(v.clock) /\ Bounded(v.clock) BY Zenon DEF CausalInv, StampTypeInv, ViewsFit
  <2> QED BY <2>1, <1>7
<1>11. ViewsFit' BY <1>2, <1>8, <1>9, <1>10 DEF CausalInv, ViewsFit, Fits
<1> QED BY <1>3, <1>4, <1>11 DEF CausalInv

\* NextVersion: the new stamp has the view of its maker and its own number, and
\* counts for its maker what no view has counted before.
LEMMA StampCausal ==
  ASSUME DistinctNodes, CausalInv, NEW r \in Replicas, Versioned!NextVersion(r)
  PROVE  CausalInv'
<1> DEFINE N == Cardinality(stamps)
           next == Versioned!Increment(clock[r], NodeID[r])
           x == [id |-> N + 1, by |-> r, clock |-> next, past |-> knows[r]]
           Own(c) == Versioned!GetClock(c, NodeID[r])
<1>0. IsClock(clock[r]) /\ IsFiniteSet(stamps) BY DEF CausalInv, StampTypeInv
<1>1. /\ IsClock(next) /\ Leq(clock[r], next) /\ NodeID[r] \in DOMAIN next
      /\ Own(next) = Own(clock[r]) + 1
      /\ \A m : m # NodeID[r] => Versioned!GetClock(next, m) = Versioned!GetClock(clock[r], m)
  BY <1>0, IncrementFacts DEF Versioned!NextVersion
<1>2. /\ DOMAIN clock' = Replicas /\ clock'[r] = next /\ \A s \in Replicas : s # r => clock'[s] = clock[s]
      /\ DOMAIN knows' = Replicas /\ knows'[r] = knows[r] \cup {N + 1}
      /\ \A s \in Replicas : s # r => knows'[s] = knows[s]
      /\ stamps' = stamps \cup {x} /\ stampedLog' = stampedLog
  BY SameCardinality DEF CausalInv, StampTypeInv, Versioned!NextVersion
<1>3. N \in Nat /\ \A v \in stamps : v.id \in 1..N /\ \A s \in Replicas : knows[s] \subseteq 1..N
  BY <1>0, FS_CardinalityType DEF CausalInv, Numbered
<1>4. x \notin stamps BY <1>3
<1>5. IsFiniteSet(stamps') /\ Cardinality(stamps') = N + 1 BY <1>0, <1>2, <1>4, FS_AddElement, Zenon
<1>6. x.id = N + 1 /\ x.by = r /\ x.clock = next /\ x.past = knows[r] OBVIOUS
<1> HIDE DEF x, next, N
<1>7. StampTypeInv' BY <1>1, <1>2, <1>5, <1>6 DEF CausalInv, StampTypeInv
<1>8. Numbered'
  <2>1. ASSUME NEW v \in stamps' PROVE v.id \in 1..(N + 1) /\ \A i \in v.past : i \in 1..(v.id - 1)
    <3>1. CASE v \in stamps BY <3>1, <1>3 DEF CausalInv, Numbered
    <3>2. CASE v = x
      <4>1. knows[r] \subseteq 1..N BY DEF CausalInv, Numbered, N
      <4> QED BY <3>2, <4>1, <1>3, <1>6
    <3> QED BY <3>1, <3>2, <1>2
  <2>2. ASSUME NEW v \in stamps', NEW w \in stamps', v.id = w.id PROVE v = w
    <3>1. CASE v \in stamps /\ w \in stamps BY <3>1, <2>2 DEF CausalInv, Numbered
    <3>2. CASE v = x /\ w \in stamps BY <3>2, <2>2, <1>3, <1>6
    <3>3. CASE v \in stamps /\ w = x BY <3>3, <2>2, <1>3, <1>6
    <3> QED BY <3>1, <3>2, <3>3, <1>2
  <2>3. ASSUME NEW s \in Replicas PROVE knows'[s] \subseteq 1..(N + 1)
    <3>1. knows[s] \subseteq 1..N BY DEF CausalInv, Numbered, N
    <3>2. knows'[s] \subseteq knows[s] \cup {N + 1} BY <1>2
    <3> QED BY <3>1, <3>2, <1>3
  <2> QED BY <2>1, <2>2, <2>3, <1>5 DEF Numbered
<1>9. ASSUME NEW s \in Replicas
      PROVE  Versioned!GetClock(clock[s], NodeID[s]) <= Versioned!GetClock(clock'[s], NodeID[s])
  <2>1. IsClock(clock[s]) BY DEF CausalInv, StampTypeInv
  <2>2. Versioned!GetClock(clock[s], NodeID[s]) \in Nat BY <2>1, GetClockType
  <2> QED BY <2>2, <1>1, <1>2
<1>10. ASSUME NEW c, IsClock(c), Bounded(c) PROVE Bounded(c)'
  <2> SUFFICES ASSUME NEW s \in Replicas PROVE Versioned!GetClock(c, NodeID[s]) <= Versioned!GetClock(clock'[s], NodeID[s])
    BY DEF Bounded
  <2>1. IsClock(clock'[s]) /\ IsClock(clock[s]) BY <1>7 DEF CausalInv, StampTypeInv
  <2>2. Versioned!GetClock(c, NodeID[s]) \in Nat /\ Versioned!GetClock(clock[s], NodeID[s]) \in Nat /\ Versioned!GetClock(clock'[s], NodeID[s]) \in Nat
    BY <2>1, <1>10, GetClockType
  <2>3. Versioned!GetClock(c, NodeID[s]) <= Versioned!GetClock(clock[s], NodeID[s]) BY <1>10 DEF Bounded
  <2> QED BY <2>2, <2>3, <1>9
<1>11. ASSUME NEW s \in Replicas PROVE Versioned!GetClock(next, NodeID[s]) <= Versioned!GetClock(clock'[s], NodeID[s])
  <2>1. CASE s = r
    <3>1. Versioned!GetClock(next, NodeID[r]) \in Nat BY <1>1, GetClockType
    <3> QED BY <2>1, <3>1, <1>2
  <2>2. CASE s # r
    <3>1. NodeID[s] # NodeID[r] BY <2>2 DEF DistinctNodes
    <3>2. Versioned!GetClock(clock[r], NodeID[s]) <= Versioned!GetClock(clock[s], NodeID[s]) BY DEF CausalInv, ViewsFit, Bounded
    <3> QED BY <2>2, <3>1, <3>2, <1>1, <1>2
  <2> QED BY <2>1, <2>2
\* The new view fits the stamps there were ...
<1>12. ASSUME NEW v \in stamps PROVE Fits(next, knows[r] \cup {N + 1}, v)
  <2>1. Fits(clock[r], knows[r], v) /\ IsClock(v.clock) /\ v.by \in Replicas /\ Bounded(v.clock)
    BY Zenon DEF CausalInv, ViewsFit, StampTypeInv
  <2>2. v.id # N + 1 BY <1>3
  <2>3. CASE v.by = r
    <3>1. At(v.clock, v) <= At(clock[r], v) BY <2>1, <2>3 DEF Bounded, At
    <3>2. At(v.clock, v) \in Nat /\ At(clock[r], v) \in Nat BY <2>1, <1>0, GetClockType DEF At
    <3>3. At(next, v) = At(clock[r], v) + 1 BY <2>3, <1>1 DEF At
    <3>4. v.id \in knows[r] /\ v.past \subseteq knows[r] /\ Leq(v.clock, clock[r]) BY <2>1, <3>1 DEF Fits
    <3>5. Leq(v.clock, next) BY <3>4, <2>1, <1>0, <1>1, LeqTrans
    <3> QED BY <3>1, <3>2, <3>3, <3>4, <3>5 DEF Fits
  <2>4. CASE v.by # r
    <3>1. NodeID[v.by] # NodeID[r] BY <2>1, <2>4 DEF DistinctNodes
    <3>2. At(next, v) = At(clock[r], v) BY <3>1, <1>1 DEF At
    <3>3. Fits(next, knows[r], v) BY <2>1, <3>2, <1>0, <1>1, GrownFits
    <3> QED BY <3>3, <2>2 DEF Fits
  <2> QED BY <2>3, <2>4
\* ... the views there were do not have the new stamp ...
<1>13. ASSUME NEW c, IsClock(c), Bounded(c), NEW A, N + 1 \notin A PROVE Fits(c, A, x)
  <2>1. Own(c) \in Nat /\ Own(clock[r]) \in Nat BY <1>13, <1>0, GetClockType
  <2>2. Own(c) <= Own(clock[r]) BY <1>13 DEF Bounded
  <2>3. ~(At(x.clock, x) <= At(c, x)) BY <2>1, <2>2, <1>1, <1>6 DEF At
  <2> QED BY <2>3, <1>6, <1>13 DEF Fits
\* ... and the new one has it.
<1>14. Fits(next, knows[r] \cup {N + 1}, x)
  <2>1. \A n : Versioned!GetClock(next, n) \in Nat BY <1>1, GetClockType
  <2>2. Leq(next, next) BY <2>1 DEF Leq
  <2>3. At(next, x) <= At(next, x) BY <2>1 DEF At
  <2> QED BY <2>2, <2>3, <1>6 DEF Fits
<1>15. ASSUME NEW s \in Replicas PROVE Bounded(clock[s])' /\ \A v \in stamps' : Fits(clock'[s], knows'[s], v)
  <2>1. CASE s = r
    <3>1. \A v \in stamps' : Fits(clock'[s], knows'[s], v) BY <2>1, <1>2, <1>12, <1>14
    <3>2. Bounded(clock[s])'
      BY <2>1, <1>2, <1>11 DEF Bounded
    <3> QED BY <3>1, <3>2
  <2>2. CASE s # r
    <3>1. IsClock(clock[s]) /\ Bounded(clock[s]) /\ clock'[s] = clock[s] /\ knows'[s] = knows[s]
      BY <2>2, <1>2 DEF CausalInv, StampTypeInv, ViewsFit
    <3>2. N + 1 \notin knows[s]
      <4>1. knows[s] \subseteq 1..N BY DEF CausalInv, Numbered, N
      <4> QED BY <4>1, <1>3
    <3>3. \A v \in stamps : Fits(clock[s], knows[s], v) BY DEF CausalInv, ViewsFit
    <3>4. \A v \in stamps' : Fits(clock'[s], knows'[s], v) BY <3>1, <3>2, <3>3, <1>2, <1>13
    <3>5. Bounded(clock[s])'
      <4>1. ASSUME NEW q \in Replicas PROVE Versioned!GetClock(clock[s], NodeID[q]) <= Versioned!GetClock(clock'[q], NodeID[q])
        <5>1. Versioned!GetClock(clock[s], NodeID[q]) <= Versioned!GetClock(clock[q], NodeID[q]) BY <3>1 DEF Bounded
        <5>2. Versioned!GetClock(clock[s], NodeID[q]) \in Nat /\ Versioned!GetClock(clock[q], NodeID[q]) \in Nat /\ Versioned!GetClock(clock'[q], NodeID[q]) \in Nat
          BY <1>7, GetClockType DEF CausalInv, StampTypeInv
        <5> QED BY <5>1, <5>2, <1>9
      <4> QED BY <4>1, <3>1 DEF Bounded
    <3> QED BY <3>4, <3>5
  <2> QED BY <2>1, <2>2
<1>16. ASSUME NEW w \in stamps'
       PROVE  Bounded(w.clock)' /\ \A v \in stamps' : Fits(w.clock, w.past \cup {w.id}, v)
  <2>1. CASE w = x
    <3>1. Bounded(w.clock)' BY <2>1, <1>6, <1>11 DEF Bounded
    <3>2. \A v \in stamps' : Fits(w.clock, w.past \cup {w.id}, v) BY <2>1, <1>2, <1>6, <1>12, <1>14
    <3> QED BY <3>1, <3>2
  <2>2. CASE w \in stamps
    <3>1. IsClock(w.clock) /\ Bounded(w.clock) /\ \A v \in stamps : Fits(w.clock, w.past \cup {w.id}, v)
      BY <2>2 DEF CausalInv, StampTypeInv, ViewsFit
    <3>2. N + 1 \notin w.past \cup {w.id}
      <4>1. w.id \in 1..N /\ \A i \in w.past : i \in 1..(w.id - 1) BY <2>2 DEF CausalInv, Numbered, N
      <4> QED BY <4>1, <1>3
    <3>3. Fits(w.clock, w.past \cup {w.id}, x) BY <3>1, <3>2, <1>13
    <3> QED BY <3>1, <3>3, <1>2, <1>10
  <2> QED BY <2>1, <2>2, <1>2
<1>17. ViewsFit' BY <1>15, <1>16 DEF ViewsFit, Fits, At
<1> QED BY <1>7, <1>8, <1>17 DEF CausalInv

\* Every step preserves the invariant.
LEMMA NextCausal ==
  ASSUME DistinctNodes, CausalInv, [Versioned!Next]_(Versioned!vsVars)
  PROVE  CausalInv'
<1>0. IsSeq(stampedLog) BY DEF CausalInv, StampTypeInv
<1>1. ASSUME NEW r \in Replicas, Versioned!NextVersion(r) PROVE CausalInv' BY <1>1, StampCausal
<1>2. ASSUME NEW r \in Replicas, NEW v \in stamps, Versioned!UpdateFromVersion(r, v) PROVE CausalInv'
  BY <1>2, UpdateCausal
<1>3. ASSUME UNCHANGED <<clock, knows, stamps>>, IsSeq(stampedLog') PROVE CausalInv'
  BY <1>3, Zenon DEF CausalInv, StampTypeInv, Numbered, ViewsFit, Bounded
<1>4. ASSUME NEW r \in Replicas, NEW a \in StampedAggregates, Versioned!Store(r, a) PROVE CausalInv'
  BY <1>0, <1>3, <1>4 DEF Versioned!Store
<1>5. ASSUME NEW r \in Replicas, Versioned!Stored(r) PROVE CausalInv'
  <2>1. PICK S : stampedLog \in Seq(S) BY <1>0 DEF IsSeq
  <2>2. stampedLog' \in Seq(S \cup {pending[r]}) BY <1>5, <2>1 DEF Versioned!Stored
  <2> QED BY <1>3, <1>5, <2>2 DEF Versioned!Stored, IsSeq
<1>6. ASSUME NEW r \in Replicas, NEW versions \in SUBSET DOMAIN stampedLog, Versioned!Loaded(r, versions) PROVE CausalInv'
  <2>1. PICK S : stampedLog \in Seq(S) BY <1>0 DEF IsSeq
  <2>2. PICK v \in versions : clock' = [clock EXCEPT ![r] = Versioned!Merge(@, Versioned!CursorToVectorClock(v))]
    BY <1>6, Zenon DEF Versioned!Loaded
  <2>3. v \in Nat BY <2>1
  <2>4. IsSeq(stampedLog')
    <3>1. DOMAIN stampedLog = 1..Len(stampedLog) /\ Len(stampedLog) \in Nat BY <2>1
    <3>2. stampedLog' = [i \in 1..Len(stampedLog) |-> stampedLog'[i]] BY <3>1, <1>6 DEF Versioned!Loaded
    <3>3. stampedLog' \in [1..Len(stampedLog) -> {stampedLog'[i] : i \in 1..Len(stampedLog)}] BY <3>2
    <3>4. stampedLog' \in Seq({stampedLog'[i] : i \in 1..Len(stampedLog)}) BY <3>1, <3>3
    <3> QED BY <3>4 DEF IsSeq
  <2>5. UNCHANGED <<knows, stamps>> BY <1>6 DEF Versioned!Loaded
  <2> QED BY <2>2, <2>3, <2>4, <2>5, SequenceMerged, Zenon
<1>7. ASSUME NEW r \in Replicas, Versioned!NewVersionedStore(r) PROVE CausalInv'
  <2>1. Len(stampedLog) \in Nat BY <1>0 DEF IsSeq
  <2> QED BY <1>0, <1>7, <2>1, SequenceMerged, Zenon DEF Versioned!NewVersionedStore
<1>8. CASE UNCHANGED Versioned!vsVars BY <1>0, <1>3, <1>8 DEF Versioned!vsVars
<1> QED BY <1>1, <1>2, <1>4, <1>5, <1>6, <1>7, <1>8, Zenon DEF Versioned!Next, Versioned!Load, Versioned!LoadByAggregate

--------------------------------------------------------------------------------
(* What the invariant says of two stamps.                                       *)

\* Of two stamps that fit each other, clocks compare as the stamps know.
LEMMA StampsCompare ==
  ASSUME CausalInv, NEW v \in stamps, NEW w \in stamps
  PROVE  /\ Versioned!HappenedBefore(v.clock, w.clock) <=> v.id \in w.past
         /\ Versioned!IsEqual(v.clock, w.clock) => v = w
<1> DEFINE c == v.clock
           d == w.clock
<1>1. IsClock(c) /\ IsClock(d) BY DEF CausalInv, StampTypeInv
<1>2. \A n : Versioned!GetClock(c, n) \in Nat /\ Versioned!GetClock(d, n) \in Nat BY <1>1, GetClockType
<1>3. Fits(d, w.past \cup {w.id}, v) /\ Fits(c, v.past \cup {v.id}, w) BY Zenon DEF CausalInv, ViewsFit
<1>4. ~(v.id \in w.past /\ w.id \in v.past \cup {v.id})
  <2>1. IsFiniteSet(stamps) BY DEF CausalInv, StampTypeInv
  <2>2. Cardinality(stamps) \in Nat BY <2>1, FS_CardinalityType
  <2>3. v.id \in 1..Cardinality(stamps) /\ w.id \in 1..Cardinality(stamps) BY DEF CausalInv, Numbered
  <2>4. /\ v.id \in w.past => v.id \in 1..(w.id - 1)
        /\ w.id \in v.past => w.id \in 1..(v.id - 1)
    BY DEF CausalInv, Numbered
  <2> QED BY <2>2, <2>3, <2>4
<1>5. v.id = w.id => v = w BY DEF CausalInv, Numbered
<1>6. NodeID[v.by] \in DOMAIN c /\ NodeID[w.by] \in DOMAIN d BY DEF CausalInv, StampTypeInv
<1>7. ASSUME v.id \in w.past
      PROVE  Leq(c, d) /\ Versioned!GetClock(c, NodeID[w.by]) < Versioned!GetClock(d, NodeID[w.by])
  <2>1. ~(At(d, w) <= At(c, w)) BY <1>3, <1>4, <1>7 DEF Fits
  <2>2. Leq(c, d) BY <1>3, <1>7 DEF Fits
  <2> QED BY <2>1, <2>2, <1>2 DEF At
<1>8. Versioned!HappenedBefore(c, d) => v.id \in w.past
  <2> SUFFICES ASSUME Versioned!HappenedBefore(c, d) PROVE v.id \in w.past OBVIOUS
  <2> DEFINE nodes == DOMAIN c \cup DOMAIN d
             less == \E n \in nodes : Versioned!GetClock(c, n) < Versioned!GetClock(d, n)
             greater == \E n \in nodes : Versioned!GetClock(c, n) > Versioned!GetClock(d, n)
  <2>1. less /\ ~greater BY DEF Versioned!HappenedBefore, Versioned!Compare
  <2>2. At(c, v) <= At(d, v) BY <2>1, <1>2, <1>6 DEF At
  <2>3. v.id \in w.past \cup {w.id} BY <2>2, <1>3 DEF Fits
  <2>4. v.id # w.id
    <3>1. c # d BY <2>1, <1>2
    <3> QED BY <3>1, <1>5
  <2> QED BY <2>3, <2>4
<1>9. v.id \in w.past => Versioned!HappenedBefore(c, d)
  <2> SUFFICES ASSUME v.id \in w.past PROVE Versioned!HappenedBefore(c, d) OBVIOUS
  <2>1. \A n : Versioned!GetClock(c, n) <= Versioned!GetClock(d, n) BY <1>7 DEF Leq
  <2>2. ~\E n \in DOMAIN c \cup DOMAIN d : Versioned!GetClock(c, n) > Versioned!GetClock(d, n) BY <2>1, <1>2
  <2>3. \E n \in DOMAIN c \cup DOMAIN d : Versioned!GetClock(c, n) < Versioned!GetClock(d, n) BY <1>6, <1>7
  <2> QED BY <2>2, <2>3 DEF Versioned!HappenedBefore, Versioned!Compare
<1>10. Versioned!IsEqual(c, d) => v = w
  <2> SUFFICES ASSUME Versioned!IsEqual(c, d) PROVE v = w OBVIOUS
  <2>1. \A n \in DOMAIN c : Versioned!GetClock(d, n) = Versioned!GetClock(c, n) BY DEF Versioned!IsEqual, Versioned!GetClock
  <2>2. At(c, v) <= At(d, v) BY <2>1, <1>2, <1>6 DEF At
  <2>3. v.id \in w.past \cup {w.id} BY <2>2, <1>3 DEF Fits
  <2>4. ASSUME v.id \in w.past PROVE FALSE
    <3>1. DOMAIN c \subseteq DOMAIN d BY <1>7, <2>4 DEF Leq
    <3>2. DOMAIN c = DOMAIN d BY <3>1, <1>1, FS_Subset, SameCardinality DEF IsClock, Versioned!IsEqual
    <3>3. Versioned!GetClock(d, NodeID[w.by]) = Versioned!GetClock(c, NodeID[w.by]) BY <3>2, <2>1, <1>6
    <3> QED BY <3>3, <1>2, <1>7, <2>4
  <2> QED BY <2>3, <2>4, <1>5
<1> QED BY <1>8, <1>9, <1>10

\* Compare is antisymmetric.
LEMMA AfterIsBefore ==
  ASSUME NEW c, NEW d
  PROVE  Versioned!HappenedAfter(c, d) <=> Versioned!HappenedBefore(d, c)
<1> DEFINE less == \E n \in DOMAIN c \cup DOMAIN d : Versioned!GetClock(c, n) < Versioned!GetClock(d, n)
           more == \E n \in DOMAIN c \cup DOMAIN d : Versioned!GetClock(c, n) > Versioned!GetClock(d, n)
<1> QED BY DEF Versioned!HappenedAfter, Versioned!HappenedBefore, Versioned!Compare

\* Of any two stamps the clocks say what the stamps know.
LEMMA InvCausality == CausalInv => ClocksTellCausality
<1> SUFFICES ASSUME CausalInv, NEW v \in stamps, NEW w \in stamps
             PROVE  /\ Versioned!HappenedBefore(v.clock, w.clock) <=> v.id \in w.past
                    /\ Versioned!HappenedAfter(v.clock, w.clock) <=> w.id \in v.past
                    /\ v.id # w.id => (Versioned!IsConcurrentWith(v.clock, w.clock) <=> v.id \notin w.past /\ w.id \notin v.past)
                    /\ Versioned!IsEqual(v.clock, w.clock) => v = w
  BY DEF ClocksTellCausality, Versioned!ClocksTellCausality
<1>1. (Versioned!HappenedBefore(v.clock, w.clock) <=> v.id \in w.past) /\ (Versioned!IsEqual(v.clock, w.clock) => v = w)
  BY StampsCompare
<1>2. Versioned!HappenedAfter(v.clock, w.clock) <=> w.id \in v.past BY StampsCompare, AfterIsBefore
<1>3. Versioned!IsConcurrentWith(v.clock, w.clock)
        <=> ~Versioned!HappenedBefore(v.clock, w.clock) /\ ~Versioned!HappenedAfter(v.clock, w.clock) /\ ~Versioned!IsEqual(v.clock, w.clock)
  BY DEF Versioned!IsConcurrentWith, Versioned!HappenedBefore, Versioned!HappenedAfter, Versioned!Compare
<1> QED BY <1>1, <1>2, <1>3

\* The clocks of VectorClockManager tell causality, for every number of replicas
\* and versions and every limit on the nodes of a clock, when replicas have node
\* IDs of their own: of two versions from NextVersion, Compare puts one before the
\* other exactly when the maker of the later one had made or merged the earlier.
THEOREM Causality == DistinctNodes => (Versioned!Spec => []ClocksTellCausality)
<1> SUFFICES ASSUME DistinctNodes PROVE Versioned!Spec => []ClocksTellCausality OBVIOUS
<1>1. Versioned!Init => CausalInv BY InitCausal
<1>2. CausalInv /\ [Versioned!Next]_(Versioned!vsVars) => CausalInv' BY NextCausal
<1>3. CausalInv => ClocksTellCausality BY InvCausality
<1> QED BY <1>1, <1>2, <1>3, PTL DEF Versioned!Spec

(********************************************************************************)
(* No handler waits on a channel that nobody listens to, for any aggregates,    *)
(* handlers and bounds (Listened). Between the calls of the application that is *)
(* HandlersAreListenedFor; to be inductive it also has to say what holds inside *)
(* a call: only the channel that a subscription has yet to listen to, or to     *)
(* clear again, has handlers and is not open, and the channel of an             *)
(* unsubscription has none.                                                     *)
(********************************************************************************)

CallTypeOK ==
  /\ DOMAIN subscriptions = Listener!Channels
  /\ call \in [op : {"none", "subscribe", "unsubscribe"}, channel : Listener!Channels,
               pc : {"none", "listen", "wait", "undo", "unlisten"}]

ListenInv ==
  /\ CallTypeOK
  /\ call.pc = "unlisten" => subscriptions[call.channel] = <<>>
  /\ \A c \in Listener!Channels : subscriptions[c] # <<>> =>
       c \in open \/ (call.pc \in {"listen", "undo"} /\ call.channel = c)

\* The invariant holds of a listener without subscriptions.
LEMMA InitListen == Listener!Init => ListenInv
BY DEF Listener!Init, ListenInv, CallTypeOK, Listener!NoCall, Listener!Channels

\* Steps of the connection, the listen loops and Close touch neither the
\* handlers nor the application's call, and close no channel.
LEMMA QuietStep ==
  ASSUME ListenInv, UNCHANGED <<subscriptions, call>>, open \subseteq open'
  PROVE  ListenInv'
BY DEF ListenInv, CallTypeOK

\* The calls of the application preserve it: a subscription that is refused
\* clears its channel, an unsubscription clears it before it is closed.
LEMMA CallStep ==
  ASSUME ListenInv,
         \/ \E c \in Listener!Channels : Listener!Unsubscribe(c) \/ \E h \in Handlers : Listener!Subscribe(c, h)
         \/ Listener!Listen \/ Listener!ListenWaits \/ Listener!ListenReturns \/ Listener!Undo \/ Listener!Unlisten
  PROVE  ListenInv'
<1> USE DEF ListenInv, CallTypeOK, Listener!NoCall
<1>0. Listener!Global \in Listener!Channels BY DEF Listener!Channels
<1>1. ASSUME NEW c \in Listener!Channels, Listener!Unsubscribe(c) PROVE ListenInv'
  BY <1>1 DEF Listener!Unsubscribe
<1>2. ASSUME NEW c \in Listener!Channels, NEW h \in Handlers, Listener!Subscribe(c, h) PROVE ListenInv'
  BY <1>2 DEF Listener!Subscribe
<1>3. CASE Listener!Listen BY <1>0, <1>3 DEF Listener!Listen
<1>4. CASE Listener!ListenWaits BY <1>4 DEF Listener!ListenWaits
<1>5. CASE Listener!ListenReturns BY <1>0, <1>5 DEF Listener!ListenReturns
<1>6. CASE Listener!Undo BY <1>0, <1>6 DEF Listener!Undo
<1>7. CASE Listener!Unlisten BY <1>0, <1>7 DEF Listener!Unlisten
<1> QED BY <1>1, <1>2, <1>3, <1>4, <1>5, <1>6, <1>7

\* Every step preserves it.
LEMMA NextListen == ListenInv /\ [Listener!Next]_(Listener!pgVars) => ListenInv'
<1> SUFFICES ASSUME ListenInv, [Listener!Next]_(Listener!pgVars) PROVE ListenInv' OBVIOUS
<1>1. CASE UNCHANGED Listener!pgVars BY <1>1, QuietStep DEF Listener!pgVars
<1>2. CASE Listener!Disconnect BY <1>2, QuietStep DEF Listener!Disconnect
<1>3. CASE Listener!Reconnected \/ Listener!GetChannels
  BY <1>3, QuietStep DEF Listener!Reconnected, Listener!GetChannels
<1>4. ASSUME NEW c \in Listener!Channels, Listener!ResubscribeAllChannels(c) PROVE ListenInv'
  BY <1>4, QuietStep DEF Listener!ResubscribeAllChannels
<1>5. ASSUME NEW a \in PgAggregates, Listener!Insert(a) PROVE ListenInv'
  BY <1>5, QuietStep DEF Listener!Insert
<1>6. CASE Listener!Close BY <1>6, QuietStep DEF Listener!Close
<1>7. CASE Listener!CloseListener BY <1>7, QuietStep DEF Listener!CloseListener
<1>8. CASE Listener!Receive BY <1>8, QuietStep DEF Listener!Receive
<1>9. CASE Listener!LoopEnds BY <1>9, QuietStep DEF Listener!LoopEnds
<1> QED BY <1>1, <1>2, <1>3, <1>4, <1>5, <1>6, <1>7, <1>8, <1>9, CallStep DEF Listener!Next

\* Between the calls of the application, every channel with handlers is open:
\* SubscribeToStream, SubscribeToAll and the Unsubscribe calls of listener.go
\* against a connection that breaks, a server that refuses LISTEN and the
\* callback that subscribes again, for every number of each.
THEOREM Listened == Listener!Spec => []HandlersAreListenedFor
<1>1. ListenInv => HandlersAreListenedFor
  BY DEF ListenInv, HandlersAreListenedFor, Listener!HandlersAreListenedFor, Listener!NoCall
<1> QED BY <1>1, InitListen, NextListen, PTL DEF Listener!Spec
==================================================================================
