----------------------------- MODULE VersionedStore -----------------------------
(* Vector clocks (version/vector_clock.go), the manager that stamps versions     *)
(* with them and the store decorator that feeds it (version/store_decorator.go). *)
(* Replicas stamp versions, hand them to each other in any order, any number of  *)
(* times or never, and share one underlying store. A clock is a function from    *)
(* the node IDs it tracks.                                                       *)
EXTENDS Naturals, Sequences, FiniteSets

CONSTANTS
  Replicas, NodeID,  \* the replicas and their node IDs
  Storing,           \* the replicas that wrap the store
  MaxNodes,          \* the most nodes a clock may track
  Aggregates,
  MaxStamps, MaxEvents, MaxReopens  \* bounds of the exploration

VARIABLES
  clock,     \* replica -> the clock of its VectorClockManager
  knows,     \* replica -> the stamps it has made or merged, and those they had seen
  stamps,    \* the versions handed out: [id, by, clock, past]
  log,       \* the events of the underlying store, [agg, clock], by version
  pending,   \* replica -> the event of a Store that has read the latest version
  reopens

vsVars == <<clock, knows, stamps, log, pending, reopens>>

Sequence == "sequence"
NoEvent == [agg |-> "none", clock |-> <<>>]

--------------------------------------------------------------------------------
(* Vector clocks.                                                               *)

NewVectorClock == [n \in {} |-> 0]
IsZero(c) == DOMAIN c = {}

\* GetClock: a node that is not tracked counts as 0.
GetClock(c, n) == IF n \in DOMAIN c THEN c[n] ELSE 0

CanIncrement(c, n) == n # "" /\ (n \in DOMAIN c \/ Cardinality(DOMAIN c) < MaxNodes)

Increment(c, n) ==
  IF CanIncrement(c, n)
  THEN [m \in DOMAIN c \cup {n} |-> IF m = n THEN GetClock(c, n) + 1 ELSE c[m]]
  ELSE c

CanMerge(c, d) == Cardinality(DOMAIN c \cup DOMAIN d) <= MaxNodes

\* Mutant of Merge: the clock of the other side replaces the entries it has.
MergeOverwrites(c, d) ==
  IF CanMerge(c, d)
  THEN [n \in DOMAIN c \cup DOMAIN d |-> IF n \in DOMAIN d THEN d[n] ELSE c[n]]
  ELSE c

Merge(c, d) ==
  IF CanMerge(c, d)
  THEN [n \in DOMAIN c \cup DOMAIN d |->
         IF GetClock(d, n) > GetClock(c, n) THEN GetClock(d, n) ELSE GetClock(c, n)]
  ELSE c

\* -1, 0 and 1 are told apart as "before", "concurrent" (or equal) and "after".
Compare(c, d) ==
  LET nodes   == DOMAIN c \cup DOMAIN d
      less    == \E n \in nodes : GetClock(c, n) < GetClock(d, n)
      greater == \E n \in nodes : GetClock(c, n) > GetClock(d, n)
  IN CASE less /\ ~greater -> "before"
       [] greater /\ ~less -> "after"
       [] OTHER -> "concurrent"

IsEqual(c, d) ==
  /\ Cardinality(DOMAIN c) = Cardinality(DOMAIN d)
  /\ \A n \in DOMAIN c : GetClock(d, n) = c[n]

HappenedBefore(c, d) == Compare(c, d) = "before"
HappenedAfter(c, d) == Compare(c, d) = "after"
IsConcurrentWith(c, d) == Compare(c, d) = "concurrent" /\ ~IsEqual(c, d)

\* String and NewVectorClockFromString: a clock travels as a JSON object; one
\* with an empty node ID is refused on arrival.
Readable(c) == "" \notin DOMAIN c

--------------------------------------------------------------------------------
(* VectorClockManager.                                                          *)

Init ==
  /\ clock = [r \in Replicas |-> NewVectorClock]
  /\ knows = [r \in Replicas |-> {}]
  /\ stamps = {} /\ log = <<>> /\ reopens = 0
  /\ pending = [r \in Replicas |-> NoEvent]

\* NextVersion: nil, and nothing counted, when the node cannot be tracked.
NextVersion(r) ==
  LET id == Cardinality(stamps) + 1
      next == Increment(clock[r], NodeID[r]) IN
  /\ Cardinality(stamps) < MaxStamps
  /\ CanIncrement(clock[r], NodeID[r])
  /\ clock' = [clock EXCEPT ![r] = next]
  /\ knows' = [knows EXCEPT ![r] = @ \cup {id}]
  /\ stamps' = stamps \cup {[id |-> id, by |-> r, clock |-> next, past |-> knows[r]]}
  /\ UNCHANGED <<log, pending, reopens>>

\* UpdateFromVersion with a version that another replica stamped.
UpdateFromVersion(r, v) ==
  /\ ~IsZero(v.clock) /\ Readable(v.clock)
  /\ clock' = [clock EXCEPT ![r] = Merge(clock[r], v.clock)]
  /\ knows' = [knows EXCEPT ![r] = IF CanMerge(clock[r], v.clock) THEN @ \cup v.past \cup {v.id} ELSE @]
  /\ UNCHANGED <<stamps, log, pending, reopens>>

--------------------------------------------------------------------------------
(* VersionedStore.                                                              *)

CursorToVectorClock(seq) == [n \in {Sequence} |-> seq]

\* Store reads the latest version of the underlying store and marks the event
\* with the next one, in a clock of its own ...
Store(r, a) ==
  /\ pending[r] = NoEvent /\ Len(log) < MaxEvents
  /\ pending' = [pending EXCEPT ![r] =
       [agg |-> a, clock |-> Increment(CursorToVectorClock(Len(log) + 1), NodeID[r])]]
  /\ UNCHANGED <<clock, knows, stamps, log, reopens>>

\* ... and stores it; the underlying store numbers the event itself.
Stored(r) ==
  /\ pending[r] # NoEvent
  /\ log' = Append(log, pending[r])
  /\ pending' = [pending EXCEPT ![r] = NoEvent]
  /\ UNCHANGED <<clock, knows, stamps, reopens>>

\* Every event loaded gets its version as its clock, and the manager merges it;
\* a merge that is refused is only logged.
Loaded(r, versions) ==
  /\ log' = [v \in DOMAIN log |-> IF v \in versions THEN [log[v] EXCEPT !.clock = CursorToVectorClock(v)] ELSE log[v]]
  /\ \E v \in versions :
       /\ \A w \in versions : w <= v
       /\ clock' = [clock EXCEPT ![r] = Merge(@, CursorToVectorClock(v))]
  /\ UNCHANGED <<knows, stamps, pending, reopens>>

Load(r, since) == Loaded(r, {v \in DOMAIN log : v > since})
LoadByAggregate(r, a, since) == Loaded(r, {v \in DOMAIN log : v > since /\ log[v].agg = a})

\* NewVectorClockManagerFromVersion with the version the manager had, and
\* NewVersionedStore, which merges the latest version of the store.
NewVersionedStore(r) ==
  /\ reopens < MaxReopens /\ reopens' = reopens + 1
  /\ pending[r] = NoEvent
  /\ CanMerge(clock[r], CursorToVectorClock(Len(log)))
  /\ clock' = [clock EXCEPT ![r] = Merge(@, CursorToVectorClock(Len(log)))]
  /\ UNCHANGED <<knows, stamps, log, pending>>

Next ==
  \E r \in Replicas :
    \/ NextVersion(r)
    \/ \E v \in stamps : UpdateFromVersion(r, v)
    \/ /\ r \in Storing
       /\ \/ \E a \in Aggregates : Store(r, a)
          \/ Stored(r)
          \/ \E since \in 0..MaxEvents : Load(r, since) \/ \E a \in Aggregates : LoadByAggregate(r, a, since)
          \/ NewVersionedStore(r)

Spec == Init /\ [][Next]_vsVars

--------------------------------------------------------------------------------
(* Properties.                                                                  *)

\* Clocks tell causality: of two stamped versions one compares before the other
\* exactly when it was in what the stamping replica had made or merged, and two
\* are concurrent exactly when neither knew the other. It holds however versions
\* are delivered, when a merge or a new node is refused at MaxNodes, and
\* although Load adds the store's sequence number to the clocks of the manager.
ClocksTellCausality ==
  \A v, w \in stamps :
    /\ HappenedBefore(v.clock, w.clock) <=> v.id \in w.past
    /\ HappenedAfter(v.clock, w.clock) <=> w.id \in v.past
    /\ v.id # w.id => (IsConcurrentWith(v.clock, w.clock) <=> v.id \notin w.past /\ w.id \notin v.past)
    /\ IsEqual(v.clock, w.clock) => v = w
================================================================================
