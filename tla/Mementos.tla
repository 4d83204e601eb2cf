-------------------------------- MODULE Mementos --------------------------------
(* The audit trail of conflict resolution (synckit/memento.go): goroutines that  *)
(* call Resolve of an AuditableResolver, the in-memory caretaker that keeps the  *)
(* mementos, and the analysis of rollbacks. A memento's ID is the wall clock in  *)
(* nanoseconds, which may stand still between two calls and may be set back. The *)
(* caretaker's map has no lock: its calls are taken not to overlap.             *)
EXTENDS Naturals, Sequences, FiniteSets

CONSTANTS
  Callers,     \* goroutines that resolve conflicts, each for a user of its own
  Aggregates,  \* what they resolve conflicts of
  MaxTime, MaxResolutions, MaxDeletes  \* bounds of the exploration

VARIABLES
  mementos,  \* the caretaker's map: ID -> memento
  now,       \* the wall clock
  call,      \* per caller, [pc, aggregate, memento]
  history,   \* the resolutions that have returned, in order: [memento, saved]
  deleted    \* the IDs given to Delete

vars == <<mementos, now, call, history, deleted>>

None == "none"
NoMemento == [id |-> 0]
Quiet == [pc |-> "idle", aggregate |-> None, memento |-> NoMemento]

Init ==
  /\ mementos = [id \in {} |-> NoMemento]
  /\ now = 1
  /\ call = [g \in Callers |-> Quiet]
  /\ history = <<>> /\ deleted = {}

--------------------------------------------------------------------------------
(* The caretaker.                                                               *)

Put(m) == [id \in DOMAIN mementos \cup {m.id} |-> IF id = m.id THEN m ELSE mementos[id]]

\* matchesCriteria: an empty criterion matches everything.
MatchesCriteria(m, c) ==
  /\ c.aggregate \in {None, m.aggregate}
  /\ c.user \in {None, m.user}
  /\ c.from = 0 \/ m.id >= c.from
  /\ c.to = 0 \/ m.id <= c.to

Sized(S, n) == {T \in SUBSET S : Cardinality(T) = n}

\* What is left behind an offset, and what of it fits under a limit. Zero is no
\* offset and no limit, and one that is not below the length is ignored.
Behind(found, offset) ==
  IF offset > 0 /\ offset < Cardinality(found) THEN Sized(found, Cardinality(found) - offset) ELSE {found}
Under(rest, limit) ==
  IF limit > 0 /\ limit < Cardinality(rest) THEN Sized(rest, limit) ELSE {rest}

\* What List may return: the mementos come in the order of the map, which is any.
List(c) ==
  LET found == {mementos[id] : id \in {i \in DOMAIN mementos : MatchesCriteria(mementos[i], c)}}
  IN UNION {Under(rest, c.limit) : rest \in Behind(found, c.offset)}

GetAuditTrail(a) ==
  CHOOSE trail \in List([aggregate |-> a, user |-> None, from |-> 0, to |-> 0, offset |-> 0, limit |-> 0]) : TRUE

Delete(id) ==
  /\ id \in DOMAIN mementos /\ Cardinality(deleted) < MaxDeletes
  /\ mementos' = [i \in DOMAIN mementos \ {id} |-> mementos[i]]
  /\ deleted' = deleted \cup {id}
  /\ UNCHANGED <<now, call, history>>

CalculateComplexity(affected) ==
  IF affected = {} THEN "simple" ELSE IF Cardinality(affected) <= 3 THEN "moderate" ELSE "complex"

\* AnalyzeRollback of a memento that Get finds.
AnalyzeRollback(id) ==
  LET affected == {m \in GetAuditTrail(mementos[id].aggregate) : m.id > id}
  IN [affected |-> affected, complexity |-> CalculateComplexity(affected)]

--------------------------------------------------------------------------------
(* AuditableResolver.Resolve.                                                   *)

Begin(g, a) ==
  /\ call[g].pc = "idle"
  /\ Len(history) + Cardinality({h \in Callers : call[h].pc # "idle"}) < MaxResolutions
  /\ call' = [call EXCEPT ![g] = [pc |-> "resolve", aggregate |-> a, memento |-> NoMemento]]
  /\ UNCHANGED <<mementos, now, history, deleted>>

\* Mutant of Resolved: only a resolution that succeeded leaves a memento.
ResolvedAudited(g, outcome) ==
  /\ call[g].pc = "resolve"
  /\ LET m == [id |-> now, aggregate |-> call[g].aggregate, user |-> g, outcome |-> outcome]
     IN IF outcome = "error"
        THEN call' = [call EXCEPT ![g] = Quiet] /\ history' = Append(history, [memento |-> m, saved |-> TRUE])
        ELSE call' = [call EXCEPT ![g].pc = "save", ![g].memento = m] /\ UNCHANGED history
  /\ UNCHANGED <<mementos, now, deleted>>

\* The wrapped resolver returns a result with or without events, or an error.
\* The memento is made in every case; its after state is there with the events.
Resolved(g, outcome) ==
  /\ call[g].pc = "resolve"
  /\ call' = [call EXCEPT ![g].pc = "save",
                ![g].memento = [id |-> now, aggregate |-> call[g].aggregate, user |-> g, outcome |-> outcome]]
  /\ UNCHANGED <<mementos, now, history, deleted>>

\* Save, and Resolve returns. A memento whose data does not serialize is not
\* saved; the resolution does not fail for it.
Save(g, ok) ==
  /\ call[g].pc = "save"
  /\ mementos' = IF ok THEN Put(call[g].memento) ELSE mementos
  /\ history' = Append(history, [memento |-> call[g].memento, saved |-> ok])
  /\ call' = [call EXCEPT ![g] = Quiet]
  /\ UNCHANGED <<now, deleted>>

ClockMoves(t) ==
  /\ t # now /\ now' = t
  /\ UNCHANGED <<mementos, call, history, deleted>>

Next ==
  \/ \E g \in Callers :
       \/ \E a \in Aggregates : Begin(g, a)
       \/ \E outcome \in {"events", "no_events", "error"} : Resolved(g, outcome)
       \/ \E ok \in BOOLEAN : Save(g, ok)
  \/ \E id \in 1..MaxTime : Delete(id) \/ ClockMoves(id)

Spec == Init /\ [][Next]_vars

--------------------------------------------------------------------------------
(* Properties.                                                                  *)

\* The resolutions that should be on record: saved, not deleted, and no later
\* resolution was given the same ID.
OnRecord ==
  {i \in 1..Len(history) :
     /\ history[i].saved /\ history[i].memento.id \notin deleted
     /\ \A j \in (i + 1)..Len(history) :
          history[j].memento.id = history[i].memento.id => ~history[j].saved}

\* Every resolution that has returned, failed ones included, is in the audit
\* trail of its aggregate, and the rollback analysis of an earlier resolution
\* names it: one that is called simple has no later one on record (Resolve,
\* GetAuditTrail, AnalyzeRollback).
ResolutionsAreAudited ==
  \A i \in OnRecord :
    LET m == history[i].memento
        analysis == AnalyzeRollback(m.id)
    IN /\ m \in GetAuditTrail(m.aggregate)
       /\ \A j \in OnRecord :
            (history[j].memento.aggregate = m.aggregate /\ history[j].memento.id > m.id)
            => history[j].memento \in analysis.affected /\ analysis.complexity # "simple"
================================================================================
