----------------------------- MODULE MachinesProofs -----------------------------
(* Proofs about the two resolvers of conflicts (Machines) and about the           *)
(* goroutines that keep a client synchronised (Supervisors). Each theorem is of   *)
(* the component's own specification, for every value of its constants.           *)
EXTENDS Machines, Supervisors, TLAPS

USE ZenonT(3), SMTT(30)

(**********************************************************************************)
(* A StatefulDynamicResolver works on one conflict at a time and its notes are    *)
(* of that conflict, for any number of goroutines, calls and rules (OneConflict). *)
(* The mutex of the resolution machine is free during a resolution; it is the     *)
(* machine's table that keeps others out. The invariant therefore says which      *)
(* states of the machine a busy goroutine can find at each of its steps           *)
(* (StateFits) and that only one is busy (Alone); it compares the machine's notes *)
(* with the workflow's at each step (NotesFit).                                   *)
(**********************************************************************************)
\* The word for a mutex that is not held names no goroutine.
FreeIsNobody == Resolver!Free \notin Resolvers

ResolverStates == {"Idle", "Analyzing", "ApplyingRules", "Resolved", "ManualReview", "Escalated", "Failed"}
Decided == {"Resolved", "ManualReview", "Escalated", "Failed"}

Applying == {"begin", "begun", "rules", "matched", "apply"}
Ending == {"finish", "finished", "complete"}
Completed == {"metrics", "reset", "cleared"}
BusyAt == {"started"} \cup Applying \cup Ending \cup Completed
Places == {"idle", "panicked", "start"} \cup BusyAt

Results == {"none", "error", "resolved", "manual_review", "escalated"}
ResolverCalls == [pc : Places, conflict : Nat, rule : Nat, result : Results, to : ResolverStates]
Notes == [conflict : Nat, path : Seq(Nat), matched : Seq(Nat), failed : Seq(Nat)]
Workflows == [evaluated : Seq(Nat), matched : Seq(Nat), failed : Seq(Nat)]

Busy(g) == resolving[g].pc \in BusyAt

ResolverTypeInv ==
  /\ resolutions \in Nat
  /\ resolverState \in ResolverStates
  /\ resolving \in [Resolvers -> ResolverCalls]
  /\ record \in Notes
  /\ DOMAIN workflows \subseteq 1..resolutions
  /\ workflows \in [DOMAIN workflows -> Workflows]

\* The state a goroutine finds, and the one it is about to store.
StateFits(g) ==
  /\ Resolver!At(g, "started") => mu = g /\ resolverState = "Idle" /\ resolving[g].to = "Analyzing"
  /\ resolving[g].pc \in {"begin", "begun"} => resolverState = "Analyzing"
  /\ Resolver!At(g, "begun") => resolving[g].to = "ApplyingRules"
  /\ resolving[g].pc \in {"rules", "matched", "apply", "finish", "finished"} => resolverState = "ApplyingRules"
  /\ Resolver!At(g, "finished") => resolving[g].to \in Decided
  /\ resolving[g].pc \in {"complete"} \cup Completed => resolverState \in Decided
  /\ Resolver!At(g, "cleared") => resolving[g].to = "Idle"

\* The notes of machine and workflow: the same, or with a failed rule once more.
SameNotes(w) == w.evaluated = record.path /\ w.matched = record.matched /\ w.failed = <<>> /\ record.failed = <<>>
OneFailed(w) ==
  \E rule \in Nat :
    /\ w.failed = <<rule>> /\ record.failed = <<rule>>
    /\ w.evaluated = Append(record.path, rule)
    /\ w.matched = Append(record.matched, rule)

NotesFit(g) ==
  LET c == resolving[g].conflict IN
  /\ resolving[g].pc \in {"start", "started"} => c \in DOMAIN workflows /\ workflows[c] = Resolver!NewWorkflow
  /\ Resolver!Resolving(g) => record.conflict = c
  /\ resolving[g].pc \in Applying =>
       /\ c \in DOMAIN workflows
       /\ IF Resolver!At(g, "matched")
          THEN /\ workflows[c].evaluated = record.path
               /\ workflows[c].matched = Append(record.matched, resolving[g].rule)
               /\ workflows[c].failed = <<>> /\ record.failed = <<>>
          ELSE SameNotes(workflows[c])
  /\ resolving[g].pc \in Ending =>
       c \in DOMAIN workflows /\ (SameNotes(workflows[c]) \/ OneFailed(workflows[c]))
  /\ resolving[g].pc \in Completed => c \notin DOMAIN workflows

Alone == \A g, h \in Resolvers : Busy(g) /\ Busy(h) => g = h

\* Goroutines that have not ended work on conflicts of their own.
Present(g) == resolving[g].pc \in {"start"} \cup BusyAt
OwnConflicts ==
  /\ \A g \in Resolvers : Present(g) => resolving[g].conflict \in 1..resolutions
  /\ \A g, h \in Resolvers : Present(g) /\ Present(h) /\ resolving[g].conflict = resolving[h].conflict => g = h

ConflictInv ==
  /\ ResolverTypeInv /\ Alone /\ OwnConflicts
  /\ \A g \in Resolvers : StateFits(g) /\ NotesFit(g)

--------------------------------------------------------------------------------
\* One of the lists of the machine's notes is replaced by another.
LEMMA NoteAdded ==
  ASSUME NEW r \in Notes, NEW list \in Seq(Nat)
  PROVE  /\ LET n == [r EXCEPT !.path = list]
            IN n \in Notes /\ n.conflict = r.conflict /\ n.path = list /\ n.matched = r.matched /\ n.failed = r.failed
         /\ LET n == [r EXCEPT !.matched = list]
            IN n \in Notes /\ n.conflict = r.conflict /\ n.path = r.path /\ n.matched = list /\ n.failed = r.failed
         /\ LET n == [r EXCEPT !.failed = list]
            IN n \in Notes /\ n.conflict = r.conflict /\ n.path = r.path /\ n.matched = r.matched /\ n.failed = list
BY Zenon DEF Notes

\* A resolver that nobody has called yet.
LEMMA InitConflict == Resolver!Init => ConflictInv
<1> SUFFICES ASSUME Resolver!Init PROVE ConflictInv OBVIOUS
<1>1. \A g \in Resolvers : resolving[g] = Resolver!NoCall BY DEF Resolver!Init
<1>2. ResolverTypeInv
  <2>1. Resolver!NoCall \in ResolverCalls BY DEF Resolver!NoCall, ResolverCalls, Places, Results, ResolverStates
  <2>2. record \in Notes BY DEF Resolver!Init, Resolver!NoRecord, Notes
  <2>3. DOMAIN workflows = {} /\ workflows \in [DOMAIN workflows -> Workflows] BY DEF Resolver!Init
  <2> QED BY <2>1, <2>2, <2>3 DEF Resolver!Init, ResolverTypeInv, ResolverStates
<1> QED BY <1>1, <1>2 DEF ConflictInv, Alone, OwnConflicts, Busy, Present, BusyAt, Applying, Ending,
                          Completed, StateFits, NotesFit, Resolver!Resolving, Resolver!At, Resolver!NoCall

\* What a step of a busy goroutine has to show is about itself: no other one is
\* busy, and it touches no other's workflow.
LEMMA BusyStep ==
  ASSUME ConflictInv, NEW g \in Resolvers, Busy(g), NEW next \in ResolverCalls,
         resolving' = [resolving EXCEPT ![g] = next],
         next.conflict = resolving[g].conflict, next.pc # "start",
         UNCHANGED resolutions, resolverState' \in ResolverStates, record' \in Notes,
         DOMAIN workflows' \subseteq DOMAIN workflows,
         workflows' \in [DOMAIN workflows' -> Workflows],
         \A c \in DOMAIN workflows \ {resolving[g].conflict} : c \in DOMAIN workflows' /\ workflows'[c] = workflows[c],
         StateFits(g)', NotesFit(g)'
  PROVE  ConflictInv'
<1>1. \A h \in Resolvers \ {g} : resolving'[h] = resolving[h] /\ ~Busy(h) /\ ~Busy(h)'
  BY DEF ConflictInv, ResolverTypeInv, Alone, Busy
<1>2. ResolverTypeInv' BY DEF ConflictInv, ResolverTypeInv
<1>3. Alone' BY <1>1 DEF Alone
<1>4. OwnConflicts' BY <1>1 DEF ConflictInv, ResolverTypeInv, OwnConflicts, Present, Busy
<1>5. ASSUME NEW h \in Resolvers \ {g} PROVE StateFits(h)' /\ NotesFit(h)'
  <2>1. resolving[h].pc \in {"idle", "panicked", "start"} /\ resolving'[h] = resolving[h]
    BY <1>1, <1>5 DEF ConflictInv, ResolverTypeInv, ResolverCalls, Places, Busy
  <2>2. StateFits(h)' BY <2>1 DEF StateFits, Resolver!At, Completed
  <2>3. ASSUME resolving[h].pc = "start"
        PROVE  resolving[h].conflict \in DOMAIN workflows' /\ workflows'[resolving[h].conflict] = Resolver!NewWorkflow
    <3>1. resolving[h].conflict # resolving[g].conflict
      BY <2>3, <1>5 DEF ConflictInv, OwnConflicts, Present, Busy
    <3>2. resolving[h].conflict \in DOMAIN workflows /\ workflows[resolving[h].conflict] = Resolver!NewWorkflow
      BY <2>3, <1>5 DEF ConflictInv, NotesFit
    <3> QED BY <3>1, <3>2
  <2>4. NotesFit(h)'
    BY <2>1, <2>3 DEF NotesFit, Resolver!Resolving, Resolver!At, Applying, Ending, Completed
  <2> QED BY <2>2, <2>4
<1> QED BY <1>2, <1>3, <1>4, <1>5 DEF ConflictInv

\* StartWorkflow: the conflict and its workflow are new.
LEMMA StartWorkflowKeeps ==
  ASSUME ConflictInv, NEW g \in Resolvers, Resolver!StartWorkflow(g)
  PROVE  ConflictInv'
<1> DEFINE next == [Resolver!NoCall EXCEPT !.pc = "start", !.conflict = resolutions + 1]
<1>1. next \in ResolverCalls /\ next.pc = "start" /\ next.conflict = resolutions + 1
  <2>1. Resolver!NoCall \in ResolverCalls BY DEF Resolver!NoCall, ResolverCalls, Places, Results, ResolverStates
  <2>2. resolutions + 1 \in Nat BY DEF ConflictInv, ResolverTypeInv
  <2> QED BY <2>1, <2>2, Zenon DEF ResolverCalls, Places
<1>2. resolving' = [resolving EXCEPT ![g] = next] /\ resolving[g].pc = "idle" /\ resolutions' = resolutions + 1
  BY DEF Resolver!StartWorkflow, Resolver!At
<1>3. /\ DOMAIN workflows' = DOMAIN workflows \cup {resolutions + 1}
      /\ workflows'[resolutions + 1] = Resolver!NewWorkflow
      /\ \A c \in DOMAIN workflows : c # resolutions + 1 /\ workflows'[c] = workflows[c]
  BY DEF Resolver!StartWorkflow, ConflictInv, ResolverTypeInv
<1>4. UNCHANGED <<resolverState, mu, record>> BY DEF Resolver!StartWorkflow
<1> HIDE DEF next
<1>5. resolving'[g] = next /\ \A h \in Resolvers \ {g} : resolving'[h] = resolving[h]
  BY <1>2 DEF ConflictInv, ResolverTypeInv
<1>6. ResolverTypeInv'
  <2>1. Resolver!NewWorkflow \in Workflows BY DEF Resolver!NewWorkflow, Workflows
  <2>2. workflows' \in [DOMAIN workflows' -> Workflows]
    BY <1>3, <2>1 DEF ConflictInv, ResolverTypeInv, Resolver!StartWorkflow
  <2> QED BY <1>1, <1>2, <1>3, <1>4, <2>2 DEF ConflictInv, ResolverTypeInv
<1>7. Alone' BY <1>1, <1>5 DEF ConflictInv, Alone, Busy, BusyAt, Applying, Ending, Completed
<1>8. OwnConflicts'
  <2>1. resolutions \in Nat BY DEF ConflictInv, ResolverTypeInv
  <2> QED BY <1>1, <1>2, <1>5, <2>1 DEF ConflictInv, OwnConflicts, Present
<1>9. ASSUME NEW h \in Resolvers PROVE StateFits(h)' /\ NotesFit(h)'
  <2>1. CASE h = g
    BY <2>1, <1>1, <1>3, <1>5 DEF StateFits, NotesFit, Resolver!Resolving, Resolver!At, Applying, Ending, Completed
  <2>2. CASE h # g
    <3>1. StateFits(h) /\ NotesFit(h) /\ resolving'[h] = resolving[h] BY <2>2, <1>5 DEF ConflictInv
    <3>2. StateFits(h)' BY <3>1, <1>4 DEF StateFits, Resolver!At
    <3>3. Present(h) => resolving[h].conflict # resolutions + 1
      BY DEF ConflictInv, ResolverTypeInv, OwnConflicts
    <3>4. NotesFit(h)'
      BY <3>1, <3>3, <1>3, <1>4, Zenon
      DEF NotesFit, Resolver!Resolving, Resolver!At, SameNotes, OneFailed, Present, BusyAt, Applying, Ending, Completed
    <3> QED BY <3>2, <3>4
  <2> QED BY <2>1, <2>2
<1> QED BY <1>6, <1>7, <1>8, <1>9 DEF ConflictInv

\* StartResolution: a machine in Idle with a free mutex has no busy goroutine.
LEMMA StartResolutionKeeps ==
  ASSUME FreeIsNobody, ConflictInv, NEW g \in Resolvers, Resolver!StartResolution(g)
  PROVE  ConflictInv'
<1> DEFINE accepted == "Analyzing" \in Resolver!ResolutionRules[resolverState]
<1> USE DEF ConflictInv
<1>1. g \in Resolvers /\ resolving[g].pc = "start" /\ mu = Resolver!Free /\ resolving[g] \in ResolverCalls /\ resolverState \in ResolverStates
  BY DEF Resolver!StartResolution, Resolver!At, ResolverTypeInv
<1>2. accepted <=> resolverState = "Idle" BY <1>1 DEF Resolver!ResolutionRules, ResolverStates
<1>3. UNCHANGED <<resolverState, record, workflows, resolutions>> BY DEF Resolver!StartResolution
<1>4. /\ accepted => resolving' = [resolving EXCEPT ![g].pc = "started", ![g].to = "Analyzing"] /\ mu' = g
      /\ ~accepted => resolving' = [resolving EXCEPT ![g].pc = "idle"] /\ mu' = Resolver!Free
  BY DEF Resolver!StartResolution, Resolver!Ask, Resolver!Goto
<1>5. /\ resolving'[g].pc = IF accepted THEN "started" ELSE "idle"
      /\ accepted => resolving'[g].to = "Analyzing"
      /\ resolving'[g].conflict = resolving[g].conflict
      /\ resolving'[g] \in ResolverCalls
      /\ \A h \in Resolvers \ {g} : resolving'[h] = resolving[h]
  BY <1>1, <1>4 DEF ResolverTypeInv, ResolverCalls, Places, BusyAt, ResolverStates
<1>6. \A h \in Resolvers : ~Resolver!At(h, "started")
  BY <1>1 DEF FreeIsNobody, StateFits
<1>7. ASSUME accepted, NEW h \in Resolvers PROVE ~Busy(h)
  BY <1>2, <1>6, <1>7 DEF StateFits, Busy, BusyAt, Resolver!At, Applying, Ending, Completed, Decided
<1> HIDE DEF accepted
<1>8. ResolverTypeInv'
  <2>1. resolving' \in [Resolvers -> ResolverCalls] BY <1>4, <1>5 DEF ResolverTypeInv
  <2> QED BY <2>1, <1>3 DEF ResolverTypeInv
<1>9. Alone'
  BY <1>5, <1>7 DEF Alone, Busy, BusyAt, Applying, Ending, Completed
<1>10. OwnConflicts' BY <1>1, <1>3, <1>5 DEF OwnConflicts, Present, BusyAt, Applying, Ending, Completed
<1>11. ASSUME NEW h \in Resolvers PROVE StateFits(h)' /\ NotesFit(h)'
  <2>1. CASE h = g
    <3>1. StateFits(h)'
      BY <2>1, <1>2, <1>3, <1>4, <1>5 DEF StateFits, Resolver!At, Completed
    <3>2. NotesFit(h)'
      BY <2>1, <1>1, <1>3, <1>5 DEF NotesFit, Resolver!Resolving, Resolver!At, Applying, Ending, Completed
    <3> QED BY <3>1, <3>2
  <2>2. CASE h # g
    <3>1. StateFits(h) /\ NotesFit(h) /\ resolving'[h] = resolving[h] /\ ~Resolver!At(h, "started") BY <2>2, <1>5, <1>6
    <3>2. StateFits(h)' BY <3>1, <1>3 DEF StateFits, Resolver!At
    <3>3. NotesFit(h)' BY <3>1, <1>3, Zenon DEF NotesFit, Resolver!Resolving, Resolver!At, SameNotes, OneFailed
    <3> QED BY <3>2, <3>3
  <2> QED BY <2>1, <2>2
<1> QED BY <1>8, <1>9, <1>10, <1>11

\* Steps of a busy goroutine that touch neither the machine's notes nor the
\* workflows: what the notes say at its new place they said at the old one.
LEMMA QuietStep ==
  ASSUME ConflictInv, NEW g \in Resolvers, Busy(g), ~Resolver!At(g, "started"), NEW next \in ResolverCalls,
         resolving' = [resolving EXCEPT ![g] = next],
         next.conflict = resolving[g].conflict,
         UNCHANGED <<resolutions, record, workflows>>, resolverState' \in ResolverStates,
         StateFits(g)',
         \/ next.pc \in {"idle", "panicked"}
         \/ resolving[g].pc \in Applying \ {"matched"} /\ next.pc \in (Applying \ {"matched"}) \cup Ending
         \/ resolving[g].pc \in Ending /\ next.pc \in Ending
         \/ resolving[g].pc \in Completed /\ next.pc \in Completed
  PROVE  ConflictInv'
<1>1. resolving'[g] = next /\ NotesFit(g) BY DEF ConflictInv, ResolverTypeInv
<1>2. next.pc # "start" BY DEF Applying, Ending, Completed
<1>3. Resolver!Resolving(g) BY DEF Busy, BusyAt, Resolver!Resolving, Resolver!At, Applying, Ending, Completed
<1>4. NotesFit(g)'
  BY <1>1, <1>3, Zenon DEF NotesFit, Resolver!Resolving, Resolver!At, SameNotes, OneFailed, Applying, Ending, Completed
<1> QED BY <1>2, <1>4, BusyStep, Zenon DEF ConflictInv, ResolverTypeInv

\* ResolutionStarted: the notes begin anew, for this conflict.
LEMMA ResolutionStartedKeeps ==
  ASSUME ConflictInv, NEW g \in Resolvers, Resolver!ResolutionStarted(g)
  PROVE  ConflictInv'
<1> DEFINE next == [resolving[g] EXCEPT !.pc = "begin"]
<1>1. /\ resolving[g].pc = "started" /\ resolving[g] \in ResolverCalls /\ StateFits(g) /\ NotesFit(g)
      /\ resolving' = [resolving EXCEPT ![g] = next] /\ resolverState' = resolving[g].to /\ UNCHANGED <<workflows, resolutions>>
  BY DEF ConflictInv, ResolverTypeInv, Resolver!ResolutionStarted, Resolver!At, Resolver!Goto
<1>2. next \in ResolverCalls /\ next.pc = "begin" /\ next.conflict = resolving[g].conflict
  BY <1>1 DEF ResolverCalls, Places, BusyAt, Applying
<1>3. record' \in Notes /\ record'.conflict = resolving[g].conflict
      /\ record'.path = <<>> /\ record'.matched = <<>> /\ record'.failed = <<>>
  <2>1. /\ Resolver!NoRecord \in Notes
        /\ Resolver!NoRecord.path = <<>> /\ Resolver!NoRecord.matched = <<>> /\ Resolver!NoRecord.failed = <<>>
    BY DEF Resolver!NoRecord, Notes
  <2>2. resolving[g].conflict \in Nat BY <1>1 DEF ResolverCalls
  <2>3. record' = [Resolver!NoRecord EXCEPT !.conflict = resolving[g].conflict] BY DEF Resolver!ResolutionStarted
  <2> QED BY <2>1, <2>2, <2>3 DEF Notes
<1> HIDE DEF next
<1>4. resolving'[g] = next BY <1>1 DEF ConflictInv, ResolverTypeInv
<1>5. StateFits(g)' BY <1>1, <1>2, <1>4 DEF StateFits, Resolver!At, Completed
<1>6. NotesFit(g)'
  <2>1. resolving[g].conflict \in DOMAIN workflows /\ workflows[resolving[g].conflict] = Resolver!NewWorkflow
    BY <1>1 DEF NotesFit
  <2> QED BY <2>1, <1>1, <1>2, <1>3, <1>4
          DEF NotesFit, SameNotes, Resolver!NewWorkflow, Resolver!Resolving, Resolver!At, Applying, Ending, Completed
<1> QED BY <1>1, <1>2, <1>3, <1>5, <1>6, BusyStep, Zenon DEF ConflictInv, ResolverTypeInv, Busy, BusyAt, StateFits, Resolver!At, ResolverStates

\* BeginRuleApplication is never refused, and RulesBegin stores its state.
LEMMA BeginKeeps ==
  ASSUME ConflictInv, NEW g \in Resolvers, Resolver!BeginRuleApplication(g) \/ Resolver!RulesBegin(g)
  PROVE  ConflictInv'
<1> USE DEF ConflictInv, ResolverTypeInv
<1>1. resolving[g] \in ResolverCalls /\ StateFits(g) OBVIOUS
<1>2. CASE Resolver!BeginRuleApplication(g)
  <2> DEFINE next == [resolving[g] EXCEPT !.pc = "begun", !.to = "ApplyingRules"]
  <2>1. /\ resolving[g].pc = "begin" /\ resolverState = "Analyzing" /\ UNCHANGED <<resolverState, record, workflows, resolutions>>
    BY <1>1, <1>2 DEF Resolver!BeginRuleApplication, Resolver!At, StateFits
  <2>2. resolving' = [resolving EXCEPT ![g] = next]
    BY <1>2, <2>1, Zenon DEF Resolver!BeginRuleApplication, Resolver!Ask, Resolver!ResolutionRules
  <2>3. next \in ResolverCalls /\ next.pc = "begun" /\ next.to = "ApplyingRules" /\ next.conflict = resolving[g].conflict
    BY <1>1, Zenon DEF ResolverCalls, Places, BusyAt, Applying, ResolverStates
  <2> HIDE DEF next
  <2>4. StateFits(g)' BY <2>1, <2>2, <2>3 DEF StateFits, Resolver!At, Completed
  <2> QED BY <2>1, <2>2, <2>3, <2>4, QuietStep, Zenon DEF Busy, BusyAt, Resolver!At, Applying
<1>3. CASE Resolver!RulesBegin(g)
  <2> DEFINE next == [resolving[g] EXCEPT !.pc = "rules"]
  <2>1. /\ resolving[g].pc = "begun" /\ resolverState' = "ApplyingRules" /\ UNCHANGED <<record, workflows, resolutions>>
        /\ resolving' = [resolving EXCEPT ![g] = next]
    BY <1>1, <1>3 DEF Resolver!RulesBegin, Resolver!At, StateFits, Resolver!Goto
  <2>2. next \in ResolverCalls /\ next.pc = "rules" /\ next.conflict = resolving[g].conflict
    BY <1>1 DEF ResolverCalls, Places, BusyAt, Applying
  <2> HIDE DEF next
  <2>3. StateFits(g)' BY <2>1, <2>2 DEF StateFits, Resolver!At, Completed
  <2> QED BY <2>1, <2>2, <2>3, QuietStep, Zenon DEF Busy, BusyAt, Resolver!At, Applying, ResolverStates
<1> QED BY <1>2, <1>3

\* The end of the rules: a rule's resolver decides or panics, or the fallback.
LEMMA DecisionKeeps ==
  ASSUME ConflictInv, NEW g \in Resolvers, NEW result \in Resolver!Decisions \cup {"error"},
         \/ result \in Resolver!Decisions /\ Resolver!RuleResolves(g, result)
         \/ Resolver!Fallback(g, result)
         \/ Resolver!RulePanics(g)
  PROVE  ConflictInv'
<1> USE DEF ConflictInv, ResolverTypeInv
<1> DEFINE next == IF Resolver!RulePanics(g) THEN [resolving[g] EXCEPT !.pc = "panicked"]
                   ELSE [resolving[g] EXCEPT !.pc = "finish", !.result = result]
<1>1. /\ resolving[g] \in ResolverCalls /\ StateFits(g) /\ resolving[g].pc \in {"rules", "apply"}
      /\ UNCHANGED <<resolverState, record, workflows, resolutions>>
  BY DEF Resolver!RuleResolves, Resolver!Fallback, Resolver!RulePanics, Resolver!At
<1>2. resolving' = [resolving EXCEPT ![g] = next]
  BY Zenon DEF Resolver!RuleResolves, Resolver!Fallback, Resolver!RulePanics, Resolver!Ends, Resolver!Goto
<1>3. next \in ResolverCalls /\ next.pc \in {"panicked", "finish"} /\ next.conflict = resolving[g].conflict
  BY <1>1, Zenon DEF ResolverCalls, Places, BusyAt, Ending, Results, Resolver!Decisions
<1> HIDE DEF next
<1>4. StateFits(g)' BY <1>1, <1>2, <1>3 DEF StateFits, Resolver!At, Completed
<1> QED BY <1>1, <1>2, <1>3, <1>4, QuietStep, Zenon DEF Busy, BusyAt, Resolver!At, Applying, Ending

\* One rule is evaluated: machine and workflow append it, and a rule that
\* matches is in the workflow's notes before it is in the machine's.
LEMMA EvaluateKeeps ==
  ASSUME ConflictInv, NEW g \in Resolvers, NEW matched \in BOOLEAN, Resolver!EvaluateRule(g, matched)
  PROVE  ConflictInv'
<1> USE DEF ConflictInv, ResolverTypeInv
<1> DEFINE rule == resolving[g].rule
           c == resolving[g].conflict
           pc1 == IF matched THEN "matched" ELSE "rules"
           rule1 == IF matched THEN rule ELSE rule + 1
           next == [resolving[g] EXCEPT !.pc = pc1, !.rule = rule1]
<1>1. /\ resolving[g].pc = "rules" /\ resolving[g] \in ResolverCalls /\ StateFits(g) /\ NotesFit(g)
      /\ UNCHANGED <<resolverState, resolutions>> /\ resolving' = [resolving EXCEPT ![g] = next]
  BY Zenon DEF Resolver!EvaluateRule, Resolver!At
<1>2. rule \in Nat BY <1>1 DEF ResolverCalls
<1>3. /\ next \in ResolverCalls /\ next.pc = IF matched THEN "matched" ELSE "rules"
      /\ next.conflict = c /\ (matched => next.rule = rule)
  <2>1. pc1 \in Places /\ rule1 \in Nat BY <1>2 DEF Places, BusyAt, Applying
  <2> HIDE DEF pc1, rule1
  <2>2. next \in ResolverCalls /\ next.pc = pc1 /\ next.conflict = c /\ next.rule = rule1
    BY <1>1, <2>1, Zenon DEF ResolverCalls
  <2> QED BY <2>2 DEF pc1, rule1
<1>4. /\ record.conflict = c /\ c \in DOMAIN workflows /\ SameNotes(workflows[c])
  BY <1>1 DEF NotesFit, Resolver!Resolving, Resolver!At, Applying
<1>5. record' = [record EXCEPT !.path = Append(@, rule)] BY DEF Resolver!EvaluateRule
<1>6. workflows' = [workflows EXCEPT ![c] = Resolver!Evaluated(workflows[c], rule, matched, FALSE)]
  BY DEF Resolver!EvaluateRule
<1> HIDE DEF next, rule
<1>7. /\ record' \in Notes /\ record'.conflict = c /\ record'.path = Append(record.path, rule)
      /\ record'.matched = record.matched /\ record'.failed = record.failed
  <2>1. record \in Notes OBVIOUS
  <2>2. Append(record.path, rule) \in Seq(Nat) BY <1>2 DEF Notes
  <2> QED BY <1>4, <1>5, <2>1, <2>2, NoteAdded, Zenon
<1>8. workflows[c] \in Workflows BY <1>4
<1>9. /\ Resolver!Evaluated(workflows[c], rule, matched, FALSE) \in Workflows
      /\ DOMAIN workflows' = DOMAIN workflows
      /\ workflows'[c] = Resolver!Evaluated(workflows[c], rule, matched, FALSE)
  BY <1>2, <1>4, <1>6, <1>8 DEF Resolver!Evaluated, Workflows
<1>10. workflows' \in [DOMAIN workflows' -> Workflows] BY <1>6, <1>9, Zenon
<1>11. resolving'[g] = next BY <1>1
<1>12. StateFits(g)' BY <1>1, <1>3, <1>11 DEF StateFits, Resolver!At, Completed
<1>13. /\ workflows'[c].evaluated = record'.path
       /\ workflows'[c].failed = <<>> /\ record'.failed = <<>>
       /\ workflows'[c].matched = IF matched THEN Append(record'.matched, rule) ELSE record'.matched
  BY <1>4, <1>7, <1>9 DEF SameNotes, Resolver!Evaluated
<1>14. NotesFit(g)'
  BY <1>3, <1>4, <1>7, <1>9, <1>11, <1>13, Zenon
  DEF NotesFit, SameNotes, Resolver!Resolving, Resolver!At, Applying, Ending, Completed
<1>15. \A d \in DOMAIN workflows \ {c} : d \in DOMAIN workflows' /\ workflows'[d] = workflows[d]
  BY <1>6, <1>9, Zenon
<1>16. Busy(g) /\ next.pc # "start" BY <1>1, <1>3 DEF Busy, BusyAt, Applying
<1> QED BY <1>1, <1>3, <1>7, <1>9, <1>10, <1>12, <1>14, <1>15, <1>16, BusyStep, Zenon

\* The machine notes the rule that matched.
LEMMA MatchedKeeps ==
  ASSUME ConflictInv, NEW g \in Resolvers, Resolver!RecordRuleMatched(g)
  PROVE  ConflictInv'
<1> USE DEF ConflictInv, ResolverTypeInv
<1> DEFINE next == [resolving[g] EXCEPT !.pc = "apply"]
           c == resolving[g].conflict
<1>1. /\ resolving[g].pc = "matched" /\ resolving[g] \in ResolverCalls /\ StateFits(g) /\ NotesFit(g)
      /\ UNCHANGED <<resolverState, workflows, resolutions>> /\ resolving' = [resolving EXCEPT ![g] = next]
      /\ record' = [record EXCEPT !.matched = Append(@, resolving[g].rule)]
  BY DEF Resolver!RecordRuleMatched, Resolver!At, Resolver!Goto
<1>2. next \in ResolverCalls /\ next.pc = "apply" /\ next.conflict = c /\ resolving[g].rule \in Nat
  BY <1>1 DEF ResolverCalls, Places, BusyAt, Applying
<1>3. /\ record' \in Notes /\ record'.conflict = record.conflict /\ record'.path = record.path
      /\ record'.matched = Append(record.matched, resolving[g].rule) /\ record'.failed = record.failed
  <2>1. record \in Notes OBVIOUS
  <2>2. Append(record.matched, resolving[g].rule) \in Seq(Nat) BY <1>2 DEF Notes
  <2> QED BY <1>1, <2>1, <2>2, NoteAdded, Zenon
<1> HIDE DEF next
<1>4. resolving'[g] = next BY <1>1
<1>5. StateFits(g)' BY <1>1, <1>2, <1>4 DEF StateFits, Resolver!At, Completed
<1>6. NotesFit(g)'
  BY <1>1, <1>2, <1>3, <1>4 DEF NotesFit, SameNotes, Resolver!Resolving, Resolver!At, Applying, Ending, Completed
<1> QED BY <1>1, <1>2, <1>3, <1>5, <1>6, BusyStep, Zenon DEF Busy, BusyAt, Applying

\* A rule's resolver fails: its rule is appended to the trail once more.
LEMMA FailsKeeps ==
  ASSUME ConflictInv, NEW g \in Resolvers, Resolver!RuleFails(g)
  PROVE  ConflictInv'
<1> USE DEF ConflictInv, ResolverTypeInv
<1> DEFINE next == [resolving[g] EXCEPT !.pc = "finish", !.result = "error"]
           c == resolving[g].conflict
           rule == resolving[g].rule
<1>1. /\ resolving[g].pc = "apply" /\ resolving[g] \in ResolverCalls /\ StateFits(g) /\ NotesFit(g)
      /\ UNCHANGED <<resolverState, resolutions>> /\ resolving' = [resolving EXCEPT ![g] = next]
      /\ record' = [record EXCEPT !.failed = Append(@, rule)]
      /\ workflows' = [workflows EXCEPT ![c] = Resolver!Evaluated(workflows[c], rule, TRUE, TRUE)]
  BY Zenon DEF Resolver!RuleFails, Resolver!At, Resolver!Ends
<1>2. next \in ResolverCalls /\ next.pc = "finish" /\ next.conflict = c /\ rule \in Nat
  BY <1>1, Zenon DEF ResolverCalls, Places, BusyAt, Ending, Results
<1>3. /\ record' \in Notes /\ record'.conflict = record.conflict /\ record'.path = record.path
      /\ record'.matched = record.matched /\ record'.failed = Append(record.failed, rule)
  <2>1. record \in Notes OBVIOUS
  <2>2. Append(record.failed, rule) \in Seq(Nat) BY <1>2 DEF Notes
  <2> QED BY <1>1, <2>1, <2>2, NoteAdded, Zenon
<1>4. /\ record.conflict = c /\ c \in DOMAIN workflows /\ SameNotes(workflows[c])
  BY <1>1 DEF NotesFit, Resolver!Resolving, Resolver!At, Applying
<1> HIDE DEF next
<1>5. workflows[c] \in Workflows BY <1>4
<1>6. /\ Resolver!Evaluated(workflows[c], rule, TRUE, TRUE) \in Workflows
      /\ DOMAIN workflows' = DOMAIN workflows
      /\ workflows'[c] = Resolver!Evaluated(workflows[c], rule, TRUE, TRUE)
  BY <1>1, <1>2, <1>4, <1>5 DEF Resolver!Evaluated, Workflows
<1>7. workflows' \in [DOMAIN workflows' -> Workflows] BY <1>1, <1>6, Zenon
<1>8. resolving'[g] = next BY <1>1
<1>9. StateFits(g)' BY <1>1, <1>2, <1>8 DEF StateFits, Resolver!At, Completed
<1>10. /\ workflows'[c].failed = <<rule>> /\ record'.failed = <<rule>>
       /\ workflows'[c].evaluated = Append(record'.path, rule)
       /\ workflows'[c].matched = Append(record'.matched, rule)
  <2>1. Append(<<>>, rule) = <<rule>> BY <1>2
  <2> QED BY <2>1, <1>3, <1>4, <1>6 DEF SameNotes, Resolver!Evaluated
<1>11. NotesFit(g)'
  BY <1>2, <1>3, <1>4, <1>6, <1>8, <1>10, Zenon DEF NotesFit, OneFailed, Resolver!Resolving, Resolver!At, Applying, Ending, Completed
<1>12. \A d \in DOMAIN workflows \ {c} : d \in DOMAIN workflows' /\ workflows'[d] = workflows[d]
  BY <1>1, <1>6, Zenon
<1>13. Busy(g) /\ next.pc # "start" BY <1>1, <1>2 DEF Busy, BusyAt, Applying
<1> QED BY <1>1, <1>2, <1>3, <1>6, <1>7, <1>9, <1>11, <1>12, <1>13, BusyStep, Zenon

\* The machine takes the decision: from ApplyingRules the table leads to each.
LEMMA FinishKeeps ==
  ASSUME ConflictInv, NEW g \in Resolvers, Resolver!Finish(g) \/ Resolver!Finished(g)
  PROVE  ConflictInv'
<1> USE DEF ConflictInv, ResolverTypeInv
<1>1. resolving[g] \in ResolverCalls /\ StateFits(g) OBVIOUS
<1>2. CASE Resolver!Finish(g)
  <2> DEFINE to == Resolver!Target(resolving[g].result)
             next == [resolving[g] EXCEPT !.pc = "finished", !.to = to]
  <2>1. resolving[g].pc = "finish" /\ resolverState = "ApplyingRules" /\ UNCHANGED <<resolverState, record, workflows, resolutions>>
    BY <1>1, <1>2 DEF Resolver!Finish, Resolver!At, StateFits
  <2>2. to \in Decided BY DEF Resolver!Target, Decided
  <2>3. resolving' = [resolving EXCEPT ![g] = next]
    <3>1. to \in Resolver!ResolutionRules[resolverState] BY <2>1, <2>2 DEF Resolver!ResolutionRules, Decided
    <3> QED BY <1>2, <3>1, Zenon DEF Resolver!Finish, Resolver!Ask
  <2> HIDE DEF to
  <2>4. next \in ResolverCalls /\ next.pc = "finished" /\ next.to = to /\ next.conflict = resolving[g].conflict
    BY <1>1, <2>2, Zenon DEF ResolverCalls, Places, BusyAt, Ending, ResolverStates, Decided
  <2> HIDE DEF next
  <2>5. StateFits(g)' BY <2>1, <2>2, <2>3, <2>4 DEF StateFits, Resolver!At, Completed
  <2> QED BY <2>1, <2>3, <2>4, <2>5, QuietStep, Zenon DEF Busy, BusyAt, Resolver!At, Ending
<1>3. CASE Resolver!Finished(g)
  <2> DEFINE next == [resolving[g] EXCEPT !.pc = "complete"]
  <2>1. /\ resolving[g].pc = "finished" /\ resolverState' \in Decided /\ UNCHANGED <<record, workflows, resolutions>>
        /\ resolving' = [resolving EXCEPT ![g] = next]
    BY <1>1, <1>3 DEF Resolver!Finished, Resolver!At, StateFits, Resolver!Goto
  <2>2. next \in ResolverCalls /\ next.pc = "complete" /\ next.conflict = resolving[g].conflict
    BY <1>1 DEF ResolverCalls, Places, BusyAt, Ending
  <2> HIDE DEF next
  <2>3. StateFits(g)' BY <2>1, <2>2 DEF StateFits, Resolver!At, Completed
  <2> QED BY <2>1, <2>2, <2>3, QuietStep, Zenon DEF Busy, BusyAt, Resolver!At, Ending, ResolverStates, Decided
<1> QED BY <1>2, <1>3

\* CompleteWorkflow: the workflow leaves the manager.
LEMMA CompleteKeeps ==
  ASSUME ConflictInv, NEW g \in Resolvers, Resolver!CompleteWorkflow(g)
  PROVE  ConflictInv'
<1> USE DEF ConflictInv, ResolverTypeInv
<1> DEFINE next == [resolving[g] EXCEPT !.pc = "metrics"]
           c == resolving[g].conflict
<1>1. /\ resolving[g].pc = "complete" /\ resolving[g] \in ResolverCalls /\ StateFits(g) /\ NotesFit(g)
      /\ UNCHANGED <<resolverState, record, resolutions>> /\ resolving' = [resolving EXCEPT ![g] = next]
      /\ workflows' = [d \in DOMAIN workflows \ {c} |-> workflows[d]]
  BY DEF Resolver!CompleteWorkflow, Resolver!At, Resolver!Goto
<1>2. next \in ResolverCalls /\ next.pc = "metrics" /\ next.conflict = c
  BY <1>1 DEF ResolverCalls, Places, BusyAt, Completed
<1> HIDE DEF next
<1>3. resolving'[g] = next BY <1>1
<1>4. DOMAIN workflows' = DOMAIN workflows \ {c} /\ workflows' \in [DOMAIN workflows' -> Workflows] BY <1>1
<1>5. StateFits(g)' BY <1>1, <1>2, <1>3 DEF StateFits, Resolver!At, Completed
<1>6. NotesFit(g)'
  BY <1>1, <1>2, <1>3, <1>4 DEF NotesFit, Resolver!Resolving, Resolver!At, Applying, Ending, Completed
<1> QED BY <1>1, <1>2, <1>4, <1>5, <1>6, BusyStep, Zenon DEF Busy, BusyAt, Ending

\* The metrics and the deferred Reset, which is never refused.
LEMMA ResetKeeps ==
  ASSUME ConflictInv, NEW g \in Resolvers, Resolver!UpdatePerformanceMetrics(g) \/ Resolver!Reset(g) \/ Resolver!ResetDone(g)
  PROVE  ConflictInv'
<1> USE DEF ConflictInv, ResolverTypeInv
<1>1. resolving[g] \in ResolverCalls /\ StateFits(g) OBVIOUS
<1>2. CASE Resolver!UpdatePerformanceMetrics(g)
  <2> DEFINE next == [resolving[g] EXCEPT !.pc = "reset"]
  <2>1. /\ resolving[g].pc = "metrics" /\ UNCHANGED <<resolverState, record, workflows, resolutions>>
        /\ resolving' = [resolving EXCEPT ![g] = next]
    BY <1>2 DEF Resolver!UpdatePerformanceMetrics, Resolver!At, Resolver!Goto
  <2>2. next \in ResolverCalls /\ next.pc = "reset" /\ next.conflict = resolving[g].conflict
    BY <1>1 DEF ResolverCalls, Places, BusyAt, Completed
  <2> HIDE DEF next
  <2>3. StateFits(g)' BY <1>1, <2>1, <2>2 DEF StateFits, Resolver!At, Completed
  <2> QED BY <2>1, <2>2, <2>3, QuietStep, Zenon DEF Busy, BusyAt, Resolver!At, Completed
<1>3. CASE Resolver!Reset(g)
  <2> DEFINE next == [resolving[g] EXCEPT !.pc = "cleared", !.to = "Idle"]
  <2>1. resolving[g].pc = "reset" /\ resolverState \in Decided /\ UNCHANGED <<resolverState, record, workflows, resolutions>>
    BY <1>1, <1>3 DEF Resolver!Reset, Resolver!At, StateFits, Completed
  <2>2. resolving' = [resolving EXCEPT ![g] = next]
    <3>1. "Idle" \in Resolver!ResolutionRules[resolverState] BY <2>1 DEF Resolver!ResolutionRules, Decided
    <3> QED BY <1>3, <3>1, Zenon DEF Resolver!Reset, Resolver!Ask
  <2>3. next \in ResolverCalls /\ next.pc = "cleared" /\ next.to = "Idle" /\ next.conflict = resolving[g].conflict
    BY <1>1, Zenon DEF ResolverCalls, Places, BusyAt, Completed, ResolverStates
  <2> HIDE DEF next
  <2>4. StateFits(g)' BY <2>1, <2>2, <2>3 DEF StateFits, Resolver!At, Completed
  <2> QED BY <2>1, <2>2, <2>3, <2>4, QuietStep, Zenon DEF Busy, BusyAt, Resolver!At, Completed
<1>4. CASE Resolver!ResetDone(g)
  <2> DEFINE next == [resolving[g] EXCEPT !.pc = "idle"]
  <2>1. /\ resolving[g].pc = "cleared" /\ resolverState' = "Idle" /\ record' = Resolver!NoRecord /\ UNCHANGED <<workflows, resolutions>>
        /\ resolving' = [resolving EXCEPT ![g] = next]
    BY <1>1, <1>4 DEF Resolver!ResetDone, Resolver!At, StateFits, Resolver!Goto
  <2>2. next \in ResolverCalls /\ next.pc = "idle" /\ next.conflict = resolving[g].conflict
    BY <1>1 DEF ResolverCalls, Places
  <2>3. Resolver!NoRecord \in Notes BY DEF Resolver!NoRecord, Notes
  <2> HIDE DEF next
  <2>4. StateFits(g)' BY <2>1, <2>2 DEF StateFits, Resolver!At, Completed
  <2>5. NotesFit(g)'
    BY <2>1, <2>2 DEF NotesFit, Resolver!Resolving, Resolver!At, Applying, Ending, Completed
  <2> QED BY <2>1, <2>2, <2>3, <2>4, <2>5, BusyStep, Zenon DEF Busy, BusyAt, Completed, ResolverStates
<1> QED BY <1>2, <1>3, <1>4

\* Every step of every goroutine preserves the invariant.
LEMMA NextConflict == FreeIsNobody /\ ConflictInv /\ [Resolver!Next]_(Resolver!vars) => ConflictInv'
<1> SUFFICES ASSUME FreeIsNobody, ConflictInv, [Resolver!Next]_(Resolver!vars) PROVE ConflictInv' OBVIOUS
<1>1. CASE UNCHANGED Resolver!vars
  BY <1>1, ZenonT(30) DEF Resolver!vars, Resolver!outcome, ConflictInv, ResolverTypeInv, Alone, OwnConflicts, Present, Busy, StateFits, NotesFit,
              SameNotes, OneFailed, Resolver!Resolving, Resolver!At
<1>2. CASE Resolver!Next
  <2>1. PICK g \in Resolvers : Resolver!StartWorkflow(g) \/ Resolver!Step(g) BY <1>2 DEF Resolver!Next
  <2>2. ASSUME \/ \E decision \in Resolver!Decisions : Resolver!RuleResolves(g, decision)
               \/ \E result \in Resolver!Decisions \cup {"error"} : Resolver!Fallback(g, result)
               \/ Resolver!RulePanics(g)
        PROVE  ConflictInv'
    BY <2>2, DecisionKeeps
  <2> QED BY <2>1, <2>2, StartWorkflowKeeps, StartResolutionKeeps, ResolutionStartedKeeps, BeginKeeps,
             EvaluateKeeps, MatchedKeeps, FailsKeeps, FinishKeeps, CompleteKeeps, ResetKeeps DEF Resolver!Step
<1> QED BY <1>1, <1>2

\* What the invariant says of the notes: without the rule that failed, the
\* workflow's lists are the machine's.
LEMMA ConflictNotes == ConflictInv => NotesAreOfOneConflict
<1> SUFFICES ASSUME ConflictInv, NEW g \in Resolvers, Resolver!Resolving(g)
             PROVE  /\ \A h \in Resolvers \ {g} : ~Resolver!Resolving(h)
                    /\ record.conflict = resolving[g].conflict
                    /\ resolving[g].conflict \in DOMAIN workflows =>
                         LET w == workflows[resolving[g].conflict] IN
                         /\ Resolver!Without(w.evaluated, Len(record.failed)) = record.path
                         /\ w.failed = record.failed
                         /\ ~Resolver!At(g, "matched") => Resolver!Without(w.matched, Len(record.failed)) = record.matched
  BY DEF NotesAreOfOneConflict, Resolver!NotesAreOfOneConflict
<1>1. \A h \in Resolvers : Resolver!Resolving(h) => Busy(h)
  BY DEF Resolver!Resolving, Busy, BusyAt, Applying, Ending, Completed
<1>2. \A h \in Resolvers \ {g} : ~Resolver!Resolving(h) BY <1>1 DEF ConflictInv, Alone
<1>3. NotesFit(g) /\ record \in Notes BY DEF ConflictInv, ResolverTypeInv
<1>4. record.conflict = resolving[g].conflict BY <1>3 DEF NotesFit
<1>5. ASSUME resolving[g].conflict \in DOMAIN workflows
      PROVE  LET w == workflows[resolving[g].conflict] IN
             /\ Resolver!Without(w.evaluated, Len(record.failed)) = record.path
             /\ w.failed = record.failed
             /\ ~Resolver!At(g, "matched") => Resolver!Without(w.matched, Len(record.failed)) = record.matched
  <2> DEFINE w == workflows[resolving[g].conflict]
  <2>1. record.path \in Seq(Nat) /\ record.matched \in Seq(Nat) /\ w \in Workflows
    BY <1>3, <1>5 DEF Notes, ConflictInv, ResolverTypeInv
  <2>2. \A s \in Seq(Nat) : Resolver!Without(s, 0) = s /\ \A n \in Nat : Resolver!Without(Append(s, n), 1) = s
    <3>1. ASSUME NEW s \in Seq(Nat) PROVE Resolver!Without(s, 0) = s BY <3>1 DEF Resolver!Without
    <3>2. ASSUME NEW s \in Seq(Nat), NEW n \in Nat PROVE Resolver!Without(Append(s, n), 1) = s
      BY <3>2 DEF Resolver!Without
    <3> QED BY <3>1, <3>2
  <2>3. \A n \in Nat : Len(<<n>>) = 1 OBVIOUS
  <2>4. CASE SameNotes(w) BY <2>1, <2>2, <2>4 DEF SameNotes
  <2>5. CASE OneFailed(w) BY <2>1, <2>2, <2>3, <2>5 DEF OneFailed
  <2>6. CASE Resolver!At(g, "matched")
    BY <1>3, <1>5, <2>1, <2>2, <2>6 DEF NotesFit, Resolver!At, Applying
  <2> QED BY <1>3, <1>5, <2>4, <2>5, <2>6 DEF NotesFit, Resolver!Resolving, Resolver!At, Applying, Ending, Completed
<1> QED BY <1>2, <1>4, <1>5

\* One resolution at a time, with notes of one conflict, for any number of
\* goroutines that share a StatefulDynamicResolver, of calls and of rules, and
\* whatever rules decide, fail or panic: StartResolution and Reset hold the
\* machine's mutex only for themselves, Resolve does not hold it in between.
THEOREM OneConflict == FreeIsNobody => (Resolver!Spec => []NotesAreOfOneConflict)
<1> SUFFICES ASSUME FreeIsNobody PROVE Resolver!Spec => []NotesAreOfOneConflict OBVIOUS
<1>1. ConflictInv /\ [Resolver!Next]_(Resolver!vars) => ConflictInv' BY NextConflict
<1> QED BY <1>1, InitConflict, ConflictNotes, PTL DEF Resolver!Spec

(********************************************************************************)
(* An AuditableResolver keeps every resolution that has returned in the audit   *)
(* trail (Audited). The trail is asked for by List, which sizes a page of a set *)
(* of mementos: that the page is the whole set takes that the map is finite.    *)
(********************************************************************************)
Saved == [id : Nat, aggregate : AuditedAggregates, user : Auditors, outcome : {"events", "no_events", "error"}]
AuditCalls ==
  [pc : {"idle", "resolve", "save"}, aggregate : AuditedAggregates \cup {Audit!None}, memento : Saved \cup {Audit!NoMemento}]
Returned == [memento : Saved, saved : BOOLEAN]

\* A goroutine has a conflict until it returns, and a memento once it is to save it.
CallFits(g) ==
  /\ auditing[g].pc \in {"idle", "resolve", "save"}
  /\ auditing[g].pc = "resolve" => auditing[g].aggregate \in AuditedAggregates
  /\ auditing[g].pc = "save" => auditing[g].memento \in Saved

\* What is on record is in the caretaker's map under its ID.
AuditInv ==
  /\ now \in Nat
  /\ auditing \in [Auditors -> AuditCalls]
  /\ \A g \in Auditors : CallFits(g)
  /\ audited \in Seq(Returned)
  /\ \A i \in Audit!OnRecord : LET m == audited[i].memento IN m.id \in DOMAIN mementos /\ mementos[m.id] = m

\* Nothing has been resolved.
LEMMA AuditInit == Audit!Init => AuditInv
<1> SUFFICES ASSUME Audit!Init PROVE AuditInv OBVIOUS
<1>1. Audit!Quiet \in AuditCalls
  BY DEF Audit!Quiet, AuditCalls
<1>2. audited \in Seq(Returned) /\ Audit!OnRecord = {} BY DEF Audit!Init, Audit!OnRecord
<1>5. \A g \in Auditors : auditing[g].pc = "idle" BY DEF Audit!Init, Audit!Quiet
<1>6. now \in Nat /\ auditing \in [Auditors -> AuditCalls]
  BY <1>1 DEF Audit!Init
<1> QED BY <1>2, <1>5, <1>6 DEF AuditInv, CallFits

\* Save: the memento replaces one of the same ID, which then is not on record.
LEMMA SaveAudits ==
  ASSUME AuditInv, NEW g \in Auditors, NEW ok \in BOOLEAN, Audit!Save(g, ok)
  PROVE  AuditInv'
<1> DEFINE m == auditing[g].memento
           r == [memento |-> m, saved |-> ok]
           n == Len(audited)
<1> USE DEF AuditInv
<1>1. m \in Saved /\ auditing[g].pc = "save" BY DEF Audit!Save, CallFits
<1>2. r \in Returned /\ r.memento = m /\ r.saved = ok BY <1>1 DEF Returned
<1>3. audited' = Append(audited, r) /\ auditing' = [auditing EXCEPT ![g] = Audit!Quiet] /\ UNCHANGED <<now, deleted>>
  BY DEF Audit!Save
<1>4. mementos' = IF ok THEN Audit!Put(m) ELSE mementos BY DEF Audit!Save
<1> HIDE DEF r, m
<1>5. /\ audited' \in Seq(Returned) /\ Len(audited') = n + 1 /\ n \in Nat /\ audited'[n + 1] = r
      /\ \A i \in 1..n : audited'[i] = audited[i]
  BY <1>2, <1>3
<1>7. ASSUME NEW i \in Audit!OnRecord'
      PROVE  LET k == audited'[i].memento IN k.id \in DOMAIN mementos' /\ mementos'[k.id] = k
  <2>1. i \in 1..(n + 1) /\ audited'[i].saved /\ audited'[i].memento.id \notin deleted
        /\ \A j \in (i + 1)..(n + 1) : audited'[j].memento.id = audited'[i].memento.id => ~audited'[j].saved
    BY <1>3, <1>5, <1>7 DEF Audit!OnRecord
  <2>2. CASE i = n + 1
    <3>1. ok /\ audited'[i].memento = m BY <2>1, <2>2, <1>2, <1>5
    <3> QED BY <3>1, <1>4 DEF Audit!Put
  <2>3. CASE i \in 1..n
    <3>1. i \in Audit!OnRecord
      <4>1. audited[i].saved /\ audited[i].memento.id \notin deleted BY <2>1, <2>3, <1>5
      <4>2. ASSUME NEW j \in (i + 1)..n, audited[j].memento.id = audited[i].memento.id
            PROVE  ~audited[j].saved
        <5>1. j \in (i + 1)..(n + 1) /\ j \in 1..n BY <2>3, <1>5
        <5> QED BY <5>1, <4>2, <2>1, <2>3, <1>5
      <4> QED BY <4>1, <4>2, <2>3 DEF Audit!OnRecord
    <3>2. audited[i].memento.id \in DOMAIN mementos /\ mementos[audited[i].memento.id] = audited[i].memento
      BY <3>1
    <3>3. ok => audited[i].memento.id # m.id
      <4>1. n + 1 \in (i + 1)..(n + 1) BY <2>3, <1>5
      <4> QED BY <4>1, <2>1, <2>3, <1>2, <1>5, Zenon
    <3> QED BY <3>2, <3>3, <2>3, <1>4, <1>5 DEF Audit!Put
  <2> QED BY <2>1, <2>2, <2>3, <1>5
<1>8. /\ auditing' \in [Auditors -> AuditCalls]
      /\ \A h \in Auditors : CallFits(h)'
  <2>1. Audit!Quiet \in AuditCalls
        /\ Audit!Quiet.pc = "idle"
    BY DEF Audit!Quiet, AuditCalls
  <2> QED BY <2>1, <1>3 DEF CallFits
<1> QED BY <1>3, <1>5, <1>7, <1>8, Zenon

\* A memento that is deleted is off the record.
LEMMA DeleteAudits ==
  ASSUME AuditInv, NEW id, Audit!Delete(id)
  PROVE  AuditInv'
<1> USE DEF AuditInv
<1>1. /\ mementos' = [i \in DOMAIN mementos \ {id} |-> mementos[i]] /\ deleted' = deleted \cup {id}
      /\ UNCHANGED <<now, auditing, audited>>
  BY DEF Audit!Delete
<1>2. DOMAIN mementos' = DOMAIN mementos \ {id} BY <1>1
<1>4. \A i \in Audit!OnRecord' : i \in Audit!OnRecord /\ audited[i].memento.id # id BY <1>1 DEF Audit!OnRecord
<1>5. \A i \in Audit!OnRecord' : LET m == audited'[i].memento IN m.id \in DOMAIN mementos' /\ mementos'[m.id] = m
  BY <1>1, <1>2, <1>4
<1>6. \A g \in Auditors : CallFits(g)' BY <1>1 DEF CallFits
<1> QED BY <1>1, <1>5, <1>6, Zenon

\* The steps of a resolution before Save, and the clock.
LEMMA CallAudits ==
  ASSUME AuditInv, NEW g \in Auditors,
         \/ \E a \in AuditedAggregates : Audit!Begin(g, a)
         \/ \E outcome \in {"events", "no_events", "error"} : Audit!Resolved(g, outcome)
  PROVE  AuditInv'
<1> USE DEF AuditInv
<1>1. UNCHANGED <<mementos, now, audited, deleted>> BY Zenon DEF Audit!Begin, Audit!Resolved
<1>2. PICK next \in AuditCalls :
        /\ auditing' = [auditing EXCEPT ![g] = next]
        /\ next.pc \in {"resolve", "save"}
        /\ next.pc = "resolve" => next.aggregate \in AuditedAggregates
        /\ next.pc = "save" => next.memento \in Saved
  <2>1. ASSUME NEW a \in AuditedAggregates, Audit!Begin(g, a)
        PROVE  \E next \in AuditCalls :
                 /\ auditing' = [auditing EXCEPT ![g] = next] /\ next.pc = "resolve" /\ next.aggregate \in AuditedAggregates
    <3> DEFINE next == [pc |-> "resolve", aggregate |-> a, memento |-> Audit!NoMemento]
    <3>1. next \in AuditCalls /\ next.pc = "resolve" /\ next.aggregate = a BY DEF AuditCalls
    <3>2. auditing' = [auditing EXCEPT ![g] = next] BY <2>1 DEF Audit!Begin
    <3> QED BY <3>1, <3>2, Zenon
  <2>2. ASSUME NEW outcome \in {"events", "no_events", "error"}, Audit!Resolved(g, outcome)
        PROVE  \E next \in AuditCalls :
                 /\ auditing' = [auditing EXCEPT ![g] = next] /\ next.pc = "save" /\ next.memento \in Saved
    <3> DEFINE m == [id |-> now, aggregate |-> auditing[g].aggregate, user |-> g, outcome |-> outcome]
               next == [auditing[g] EXCEPT !.pc = "save", !.memento = m]
    <3>1. auditing[g] \in AuditCalls /\ auditing[g].aggregate \in AuditedAggregates BY <2>2 DEF Audit!Resolved, CallFits
    <3>2. m \in Saved BY <3>1 DEF Saved
    <3>3. auditing' = [auditing EXCEPT ![g] = next] BY <2>2, Zenon DEF Audit!Resolved
    <3> HIDE DEF m
    <3>4. next \in AuditCalls /\ next.pc = "save" /\ next.memento = m BY <3>1, <3>2, Zenon DEF AuditCalls
    <3> HIDE DEF next
    <3> QED BY <3>2, <3>3, <3>4, Zenon
  <2>3. CASE \E a \in AuditedAggregates : Audit!Begin(g, a) BY <2>1, <2>3
  <2>4. CASE \E outcome \in {"events", "no_events", "error"} : Audit!Resolved(g, outcome) BY <2>2, <2>4
  <2> QED BY <2>3, <2>4
<1>3. auditing' \in [Auditors -> AuditCalls] /\ auditing'[g] = next /\ \A h \in Auditors \ {g} : auditing'[h] = auditing[h]
  BY <1>2
<1>4. \A h \in Auditors : CallFits(h)' BY <1>2, <1>3 DEF CallFits
<1>5. Audit!OnRecord' = Audit!OnRecord BY <1>1 DEF Audit!OnRecord
<1> QED BY <1>1, <1>3, <1>4, <1>5

\* Every step of the goroutines, of a deletion and of the clock.
LEMMA AuditNext == AuditInv /\ [Audit!Next]_(Audit!vars) => AuditInv'
<1> SUFFICES ASSUME AuditInv, [Audit!Next]_(Audit!vars) PROVE AuditInv' OBVIOUS
<1>1. ASSUME UNCHANGED <<mementos, auditing, audited, deleted>>, now' \in Nat PROVE AuditInv'
  BY <1>1 DEF AuditInv, Audit!OnRecord, CallFits
<1>2. CASE UNCHANGED Audit!vars BY <1>1, <1>2 DEF Audit!vars, AuditInv
<1>3. ASSUME NEW id \in 1..MaxTime, Audit!ClockMoves(id) PROVE AuditInv'
  <2>1. id \in Nat OBVIOUS
  <2> QED BY <1>1, <1>3, <2>1 DEF Audit!ClockMoves
<1>4. CASE Audit!Next
  BY <1>3, <1>4, SaveAudits, DeleteAudits, CallAudits DEF Audit!Next
<1> QED BY <1>2, <1>4

\* Without criteria but an aggregate's, List has one answer: all its mementos.
LEMMA TrailIs ==
  ASSUME NEW a
  PROVE  Audit!GetAuditTrail(a)
           = {mementos[id] : id \in {i \in DOMAIN mementos : a \in {Audit!None, mementos[i].aggregate}}}
<1> DEFINE c == [aggregate |-> a, user |-> Audit!None, from |-> 0, to |-> 0, offset |-> 0, limit |-> 0]
           matching == {i \in DOMAIN mementos : a \in {Audit!None, mementos[i].aggregate}}
           found == {mementos[id] : id \in matching}
<1>1. \A m : Audit!MatchesCriteria(m, c) <=> a \in {Audit!None, m.aggregate} BY DEF Audit!MatchesCriteria
<1>2. {mementos[id] : id \in {i \in DOMAIN mementos : Audit!MatchesCriteria(mementos[i], c)}} = found BY <1>1
<1>3. c.offset = 0 /\ c.limit = 0 OBVIOUS
<1> HIDE DEF found, c
<1>4. Audit!Behind(found, 0) = {found} /\ Audit!Under(found, 0) = {found} BY DEF Audit!Behind, Audit!Under
<1>5. Audit!List(c) = {found} BY <1>2, <1>3, <1>4, Zenon DEF Audit!List
<1>6. Audit!GetAuditTrail(a) = found BY <1>5 DEF Audit!GetAuditTrail, c
<1> QED BY <1>6 DEF found

\* What the invariant says of the trail and of the rollback analysis.
LEMMA AuditShows == AuditInv => ResolutionsAreAudited
<1> SUFFICES ASSUME AuditInv, NEW i \in Audit!OnRecord
             PROVE  LET m == audited[i].memento
                        analysis == Audit!AnalyzeRollback(m.id)
                    IN /\ m \in Audit!GetAuditTrail(m.aggregate)
                       /\ \A j \in Audit!OnRecord :
                            (audited[j].memento.aggregate = m.aggregate /\ audited[j].memento.id > m.id)
                            => audited[j].memento \in analysis.affected /\ analysis.complexity # "simple"
  BY DEF ResolutionsAreAudited, Audit!ResolutionsAreAudited
<1> DEFINE m == audited[i].memento
           trail == Audit!GetAuditTrail(m.aggregate)
           affected == {k \in trail : k.id > m.id}
<1>1. \A j \in Audit!OnRecord : LET k == audited[j].memento IN k.id \in DOMAIN mementos /\ mementos[k.id] = k
  BY DEF AuditInv
<1>2. mementos[m.id] = m BY <1>1
<1>3. Audit!AnalyzeRollback(m.id) = [affected |-> affected, complexity |-> Audit!CalculateComplexity(affected)]
  BY <1>2 DEF Audit!AnalyzeRollback
<1>4. ASSUME NEW j \in Audit!OnRecord, audited[j].memento.aggregate = m.aggregate
      PROVE  audited[j].memento \in trail
  <2>1. trail = {mementos[id] : id \in {x \in DOMAIN mementos : m.aggregate \in {Audit!None, mementos[x].aggregate}}}
    BY TrailIs
  <2> QED BY <1>1, <1>4, <2>1
<1>5. m \in trail BY <1>4
<1>6. ASSUME NEW j \in Audit!OnRecord, audited[j].memento.aggregate = m.aggregate, audited[j].memento.id > m.id
      PROVE  audited[j].memento \in affected /\ Audit!CalculateComplexity(affected) # "simple"
  <2> HIDE DEF trail
  <2>1. audited[j].memento \in affected BY <1>4, <1>6
  <2> HIDE DEF affected
  <2> QED BY <2>1 DEF Audit!CalculateComplexity
<1> HIDE DEF affected
<1> QED BY <1>3, <1>5, <1>6

\* Every resolution that has returned is in the audit trail and rollback analyses
\* name it, for any goroutines, aggregates, clock readings and deletions, however
\* often the clock stands still or is set back (AuditableResolver.Resolve,
\* GetAuditTrail, AnalyzeRollback).
THEOREM Audited == Audit!Spec => []ResolutionsAreAudited
BY AuditInit, AuditNext, AuditShows, PTL DEF Audit!Spec

(********************************************************************************)
(* The transport, for any number of reconnection goroutines, calls, flaps and   *)
(* notifications that have not run: a transitioning state has somebody at work. *)
(********************************************************************************)

Shape ==
  /\ DOMAIN actor = Actors
  /\ \A a \in Actors : DOMAIN actor[a] = {"pc", "to", "ok", "bad"}

LEMMA AtFields ==
  ASSUME NEW p PROVE DOMAIN At(p) = {"pc", "to", "ok", "bad"} /\ At(p).pc = p /\ At(p).to = "disconnected"
BY DEF At

\* A step of one actor keeps the invariant when the state stays and the actor
\* does not stop owning it, and when the state it stores is its own or at rest.
LEMMA OneMoves ==
  ASSUME Shape, OwnerInv, NEW a \in Actors, NEW next, actor' = [actor EXCEPT ![a] = next],
         DOMAIN next = {"pc", "to", "ok", "bad"},
         (next.pc \in {"load", "store"} /\ next.to \in Transitioning) => next.ok \in Connecting,
         \/ /\ state' = state
            /\ \/ state \notin Transitioning \/ ~Owner(a)
               \/ next.pc \in Connecting
               \/ /\ next.pc \in {"load", "store"}
                  /\ next.to \in {"connected", "failed", "disconnected", "shutting_down"}
         \/ state' \notin Transitioning \/ next.pc \in Connecting
  PROVE  Shape' /\ OwnerInv'
<1>1. actor'[a] = next /\ \A b \in Actors : b # a => actor'[b] = actor[b]
  BY DEF Shape
<1>2. Shape'
  BY <1>1 DEF Shape
<1>3. ASSUME NEW b \in Actors, actor'[b].pc \in {"load", "store"}, actor'[b].to \in Transitioning
      PROVE  actor'[b].ok \in Connecting
  BY <1>1, <1>3 DEF OwnerInv
<1>4. ASSUME state' \in Transitioning PROVE \E b \in Actors : Owner(b)'
  <2>1. ASSUME Owner(a)' PROVE \E b \in Actors : Owner(b)'
    BY <2>1
  <2>2. ASSUME NEW b \in Actors, b # a, Owner(b) PROVE Owner(b)'
    BY <1>1, <2>2 DEF Owner
  <2>3. CASE ~Owner(a) /\ state' = state
    BY <1>4, <2>2, <2>3 DEF OwnerInv
  <2> QED
    BY <1>1, <1>4, <2>1, <2>3 DEF Owner
<1> QED
  BY <1>2, <1>3, <1>4 DEF OwnerInv

LEMMA Requests ==
  ASSUME Shape, OwnerInv, NEW a \in Actors, NEW to, NEW ok, NEW bad, Request(a, to, ok, bad), state' = state,
         to \in Transitioning => ok \in Connecting,
         \/ to \in {"connected", "failed", "disconnected", "shutting_down"}
         \/ ~Owner(a)
  PROVE  Shape' /\ OwnerInv'
<1> DEFINE next == [pc |-> "load", to |-> to, ok |-> ok, bad |-> bad]
<1>1. DOMAIN next = {"pc", "to", "ok", "bad"} /\ next.pc = "load" /\ next.to = to /\ next.ok = ok
  OBVIOUS
<1>2. actor' = [actor EXCEPT ![a] = next]
  BY DEF Request
<1> HIDE DEF next
<1> QED
  BY <1>1, <1>2, OneMoves, Zenon

LEMMA Gotos ==
  ASSUME Shape, OwnerInv, NEW a \in Actors, NEW p, Goto(a, p), state' = state, ~Owner(a),
         p \notin {"load", "store"}
  PROVE  Shape' /\ OwnerInv'
BY AtFields, OneMoves, Zenon DEF Goto

\* The transitions: what an owner asks for is permitted while the state is a
\* transitioning one.
LEMMA Transitions ==
  ASSUME Shape, OwnerInv, NEW a \in Actors, Transition(a)
  PROVE  Shape' /\ OwnerInv'
<1>1. CASE Load(a)
  <2>1. actor[a].pc = "load" /\ state' = state
    BY <1>1 DEF Load
  <2>2. CASE Permitted(state, actor[a].to)
    <3> DEFINE next == [actor[a] EXCEPT !.pc = "store"]
    <3>1. actor' = [actor EXCEPT ![a] = next]
      BY <1>1, <2>2 DEF Load, Shape
    <3>2. /\ DOMAIN next = {"pc", "to", "ok", "bad"} /\ next.pc = "store" /\ next.to = actor[a].to
          /\ next.ok = actor[a].ok
      BY DEF Shape
    <3> HIDE DEF next
    <3>3. next.to \in Transitioning => next.ok \in Connecting
      BY <2>1, <3>2 DEF OwnerInv
    <3>4. Owner(a) => next.to \in {"connected", "failed", "disconnected", "shutting_down"}
      BY <2>1, <3>2 DEF Owner, Connecting
    <3> QED
      BY <2>1, <3>1, <3>2, <3>3, <3>4, OneMoves, Zenon
  <2>3. CASE ~Permitted(state, actor[a].to)
    <3>1. state \notin Transitioning \/ ~Owner(a)
      BY <2>1, <2>3 DEF Owner, Permitted, Rules, Transitioning, Connecting
    <3>2. actor' = [actor EXCEPT ![a] = At(actor[a].bad)]
      BY <1>1, <2>3 DEF Load, Goto
    <3>3. At(actor[a].bad).to \notin Transitioning /\ DOMAIN At(actor[a].bad) = {"pc", "to", "ok", "bad"}
      BY AtFields DEF Transitioning
    <3> QED
      BY <2>1, <3>1, <3>2, <3>3, OneMoves, Zenon
  <2> QED
    BY <2>2, <2>3
<1>2. CASE Store(a)
  <2>1. actor[a].pc = "store" /\ state' = actor[a].to /\ actor' = [actor EXCEPT ![a] = At(actor[a].ok)]
    BY <1>2 DEF Store, Goto
  <2>2. state' \in Transitioning => actor[a].ok \in Connecting
    BY <2>1 DEF OwnerInv
  <2>3. /\ At(actor[a].ok).to \notin Transitioning /\ DOMAIN At(actor[a].ok) = {"pc", "to", "ok", "bad"}
        /\ At(actor[a].ok).pc = actor[a].ok
    BY AtFields DEF Transitioning
  <2> QED
    BY <2>1, <2>2, <2>3, OneMoves, Zenon
<1> QED
  BY <1>1, <1>2 DEF Transition

\* The application's calls.
LEMMA Calls ==
  ASSUME Shape, OwnerInv, EnhancedEnableRealtime \/ EnhancedDisableRealtime \/ EnhancedClose \/ AppStep
  PROVE  Shape' /\ OwnerInv'
<1>1. "app" \in Actors
  BY DEF Actors
<1>2. CASE EnhancedEnableRealtime
  <2>1. ~Owner("app") /\ "enable" \in Connecting
    BY <1>2 DEF EnhancedEnableRealtime, Owner, Connecting
  <2> QED
    BY <1>1, <1>2, <2>1, Requests DEF EnhancedEnableRealtime
<1>3. CASE EnableRealtime
  BY <1>1, <1>3, Requests DEF EnableRealtime, Transitioning
<1>4. CASE EnhancedDisableRealtime
  BY <1>1, <1>4, Requests DEF EnhancedDisableRealtime, Transitioning
<1>5. actor["app"].pc \in {"idle", "disable", "close"} => ~Owner("app")
  BY DEF Owner, Connecting
<1>6. CASE DisableRealtime
  BY <1>1, <1>5, <1>6, Requests, Gotos DEF DisableRealtime, Transitioning
<1>7. CASE EnhancedClose
  BY <1>1, <1>5, <1>7, Requests, Gotos DEF EnhancedClose, Transitioning
<1>8. CASE CloseBase
  BY <1>1, <1>5, <1>8, Gotos DEF CloseBase
<1> QED
  BY <1>2, <1>3, <1>4, <1>6, <1>7, <1>8 DEF AppStep

\* The health monitor hands what it started over to a reconnection goroutine,
\* which connects first only when the state is at rest.
LEMMA Reconnections ==
  ASSUME Shape, OwnerInv, PerformHealthCheck \/ ReconnectStep
  PROVE  Shape' /\ OwnerInv'
<1>1. CASE PerformHealthCheck
  <2>1. "health" \in Actors /\ ~Owner("health") /\ state' = state
    BY <1>1 DEF PerformHealthCheck, ReadState, AskNotifier, AskWanted, Actors, Owner, Connecting
  <2>2. CASE ReadState \/ AskWanted
    <3>1. \E pc \in {"notifier", "wanted", "spawn", "idle"} : Goto("health", pc)
      BY <2>2 DEF ReadState, AskWanted
    <3> QED
      BY <2>1, <3>1, Gotos
  <2>3. CASE AskNotifier
    <3>1. CASE link
      BY <2>1, <2>3, <3>1, Gotos DEF AskNotifier
    <3>2. CASE ~link
      <4>1. Request("health", "reconnecting", "spawn", "idle") /\ "spawn" \in Connecting
        BY <2>3, <3>2 DEF AskNotifier, Connecting
      <4>2. ~Owner("health") /\ state' = state
        BY <2>1
      <4> QED
        BY <2>1, <4>1, <4>2, Requests
    <3> QED
      BY <3>1, <3>2
  <2> QED
    BY <1>1, <2>2, <2>3 DEF PerformHealthCheck
<1>2. ASSUME NEW r \in Reconnectors, Resubscribe(r) PROVE Shape' /\ OwnerInv'
  BY <1>2, Requests DEF Resubscribe, Actors, Transitioning
<1>3. ASSUME NEW r \in Reconnectors, Spawn(r) PROVE Shape' /\ OwnerInv'
  <2> DEFINE next == IF CanConnect(state)
                     THEN [pc |-> "load", to |-> "connecting", ok |-> "subscribe", bad |-> "idle"]
                     ELSE At("subscribe")
  <2>1. r \in Actors /\ "health" \in Actors /\ r # "health" /\ state' = state
    BY <1>3, ConnectionAssumption DEF Spawn, Actors
  <2>2. /\ actor'["health"] = At("idle") /\ actor'[r] = next /\ DOMAIN actor' = Actors
        /\ \A b \in Actors : b \notin {"health", r} => actor'[b] = actor[b]
    BY <1>3, <2>1 DEF Spawn, Shape
  <2>3. DOMAIN next = {"pc", "to", "ok", "bad"}
    BY AtFields
  <2>4. next.pc \in {"load", "store"} => next.ok \in Connecting
    BY AtFields DEF Connecting
  <2>5. state \in Transitioning => next.pc \in Connecting
    BY AtFields DEF Transitioning, CanConnect, Connecting
  <2> HIDE DEF next
  <2>6. Shape'
    BY <2>1, <2>2, <2>3, AtFields DEF Shape
  <2>7. ASSUME NEW b \in Actors, actor'[b].pc \in {"load", "store"}, actor'[b].to \in Transitioning
        PROVE  actor'[b].ok \in Connecting
    BY <2>1, <2>2, <2>4, <2>7, AtFields DEF OwnerInv
  <2>8. state \in Transitioning => Owner(r)'
    BY <2>2, <2>5 DEF Owner
  <2> QED
    BY <2>1, <2>6, <2>7, <2>8 DEF OwnerInv
<1> QED
  BY <1>1, <1>2, <1>3 DEF ReconnectStep

\* The state that performHealthCheck passes over ("Skip health checks for terminal
\* or transitioning states") is never left behind: somebody is still at work on it,
\* however transitions that load and store in two steps overtake each other.
THEOREM Owned == ConnectionSpec => []TransitioningIsOwned
<1>1. ConnectionInit => Shape /\ OwnerInv
  <2> SUFFICES ASSUME ConnectionInit PROVE Shape /\ OwnerInv
    OBVIOUS
  <2>1. At("idle").pc \notin {"load", "store"}
    BY AtFields
  <2> QED
    BY <2>1, AtFields DEF ConnectionInit, Shape, OwnerInv, Transitioning
<1>2. Shape /\ OwnerInv /\ [ConnectionNext]_connectionVars => Shape' /\ OwnerInv'
  <2> SUFFICES ASSUME Shape, OwnerInv, [ConnectionNext]_connectionVars PROVE Shape' /\ OwnerInv'
    OBVIOUS
  <2>1. ASSUME UNCHANGED <<state, actor>> PROVE Shape' /\ OwnerInv'
    BY <2>1 DEF Shape, OwnerInv, Owner
  <2>2. CASE LinkChanges \/ UNCHANGED connectionVars
    BY <2>1, <2>2 DEF LinkChanges, connectionVars
  <2>3. ASSUME NEW i \in DOMAIN pending, OnTransition(i) PROVE Shape' /\ OwnerInv'
    BY <2>1, <2>3 DEF OnTransition
  <2> QED
    BY <2>2, <2>3, Transitions, Calls, Reconnections DEF ConnectionNext
<1>3. OwnerInv => TransitioningIsOwned
  BY DEF OwnerInv, TransitioningIsOwned, Owner, Transitioning, Connecting
<1> QED
  BY <1>1, <1>2, <1>3, PTL DEF ConnectionSpec

(********************************************************************************)
(* The auto-sync loops, for any number of contexts, handlers, starts and calls: *)
(* at most one goroutine is live, and it is the one that can be stopped.        *)
(********************************************************************************)

LoopShape == DOMAIN loopPc = Manager!Callers /\ DOMAIN parent = Manager!Loops

\* A step that starts no goroutine, takes no cancel function away without
\* cancelling nor cancels without taking it away, lets no goroutine come back and
\* ends only one that is done.
LEMMA NothingStarts ==
  ASSUME LoopShape, Manager!LoopInv, DOMAIN loopPc' = Manager!Callers, UNCHANGED <<starts, parent>>,
         cancelled \subseteq cancelled', ctxDone \subseteq ctxDone',
         autoSyncCancel' = autoSyncCancel \/ (autoSyncCancel' = 0 /\ autoSyncCancel \in cancelled' \cup {0}),
         cancelled' \subseteq cancelled \cup {autoSyncCancel},
         autoSyncCancel' # 0 => cancelled' = cancelled,
         \A l \in Manager!Loops : /\ Manager!Running(l)' => Manager!Running(l)
                                  /\ Manager!Running(l) => Manager!Running(l)' \/ Manager!Done(l)
                                  /\ loopPc[l] = "none" => loopPc'[l] = "none"
  PROVE  LoopShape' /\ Manager!LoopInv'
<1>1. LoopShape'
  BY DEF LoopShape
<1>2. starts' \in 0..MaxStarts /\ autoSyncCancel' \in 0..starts'
  BY DEF Manager!LoopInv
<1>3. \A l \in Manager!Loops : l > starts' => loopPc'[l] = "none"
  BY DEF Manager!LoopInv
<1>4. ASSUME NEW l \in Manager!Loops, Manager!Running(l)', autoSyncCancel' # l PROVE Manager!Done(l)'
  <2>1. CASE autoSyncCancel # l
    BY <1>4, <2>1 DEF Manager!LoopInv, Manager!Done
  <2>2. CASE autoSyncCancel = l
    <3>1. l # 0
      BY AutoAssumption DEF Manager!Loops
    <3> QED
      BY <1>4, <2>2, <3>1 DEF Manager!Done
  <2> QED
    BY <2>1, <2>2
<1>5. cancelled' \subseteq 0..starts'
  BY DEF Manager!LoopInv
<1>6. ASSUME autoSyncCancel' # 0
      PROVE  /\ autoSyncCancel' \notin cancelled'
             /\ Manager!Running(autoSyncCancel)' \/ parent'[autoSyncCancel'] \in ctxDone'
  <2>1. autoSyncCancel' = autoSyncCancel /\ cancelled' = cancelled /\ autoSyncCancel \notin cancelled
    BY <1>6 DEF Manager!LoopInv
  <2>2. autoSyncCancel \in Manager!Loops
    BY <1>6, <2>1, AutoAssumption DEF Manager!LoopInv, Manager!Loops
  <2>3. Manager!Running(autoSyncCancel) \/ parent[autoSyncCancel] \in ctxDone
    BY <1>6, <2>1 DEF Manager!LoopInv
  <2>4. CASE parent[autoSyncCancel] \in ctxDone
    BY <2>1, <2>4
  <2>5. CASE Manager!Running(autoSyncCancel) /\ ~Manager!Done(autoSyncCancel)
    <3>1. loopPc'[autoSyncCancel] \notin {"none", "exit"}
      BY <2>2, <2>5 DEF Manager!Running
    <3> QED
      BY <2>1, <3>1 DEF Manager!Running
  <2> QED
    BY <2>1, <2>3, <2>4, <2>5 DEF Manager!Done
<1> QED
  BY <1>1, <1>2, <1>3, <1>4, <1>5, <1>6 DEF Manager!LoopInv

\* The calls of the application.
LEMMA AppLoops ==
  ASSUME LoopShape, Manager!LoopInv,
         \/ \E ctx \in Contexts : Manager!StartAutoSync(ctx) \/ Manager!CancelContext(ctx)
         \/ Manager!StopAutoSync \/ Manager!Close \/ Manager!HealthChanges \/ \E h \in Handlers : Manager!Subscribe(h)
  PROVE  LoopShape' /\ Manager!LoopInv'
<1>1. ASSUME NEW ctx \in Contexts, Manager!StartAutoSync(ctx) PROVE LoopShape' /\ Manager!LoopInv'
  <2>1. CASE UNCHANGED <<autoSyncCancel, parent, loopPc, starts, cancelled, ctxDone>>
    BY <2>1, NothingStarts DEF LoopShape, Manager!Running
  <2>2. CASE ~(ctx \in ctxDone \/ autoSyncCancel # 0 \/ managerClosed)
    <3> DEFINE k == starts + 1
    <3>1. /\ autoSyncCancel = 0 /\ starts < MaxStarts /\ starts' = k /\ autoSyncCancel' = k
          /\ parent' = [parent EXCEPT ![k] = ctx] /\ loopPc' = [loopPc EXCEPT ![k] = "select"]
          /\ UNCHANGED <<cancelled, ctxDone>>
      BY <1>1, <2>2 DEF Manager!StartAutoSync, Manager!Set
    <3>2. k \in Manager!Loops /\ k \in Manager!Callers /\ starts \in Nat /\ MaxStarts \in Nat
      BY <3>1, AutoAssumption DEF Manager!LoopInv, Manager!Loops, Manager!Callers
    <3>3. \A l \in Manager!Loops : l # k => loopPc'[l] = loopPc[l] /\ parent'[l] = parent[l]
      BY <3>1, <3>2 DEF LoopShape, Manager!Callers
    <3>4. LoopShape'
      BY <3>1 DEF LoopShape
    <3>5. \A l \in Manager!Loops : l > k => loopPc'[l] = "none"
      BY <3>2, <3>3 DEF Manager!LoopInv, Manager!Loops
    <3>6. ASSUME NEW l \in Manager!Loops, Manager!Running(l)', autoSyncCancel' # l PROVE Manager!Done(l)'
      <4>1. l # k /\ loopPc'[l] = loopPc[l] /\ parent'[l] = parent[l]
        BY <3>1, <3>3, <3>6
      <4>2. Manager!Running(l) /\ autoSyncCancel # l
        BY <3>1, <3>6, <4>1, AutoAssumption DEF Manager!Running, Manager!Loops
      <4> QED
        BY <3>1, <4>1, <4>2 DEF Manager!LoopInv, Manager!Done
    <3>7. starts' \in 0..MaxStarts /\ autoSyncCancel' \in 0..starts'
      BY <3>1, <3>2
    <3>8. cancelled' \subseteq 0..starts' /\ autoSyncCancel' \notin cancelled'
      BY <3>1, <3>2 DEF Manager!LoopInv
    <3>9. Manager!Running(autoSyncCancel)'
      BY <3>1, <3>2 DEF Manager!Running, LoopShape
    <3> QED
      BY <3>1, <3>4, <3>5, <3>6, <3>7, <3>8, <3>9 DEF Manager!LoopInv
  <2> QED
    BY <1>1, <2>1, <2>2 DEF Manager!StartAutoSync
<1>2. ASSUME NEW ctx \in Contexts, Manager!CancelContext(ctx) PROVE LoopShape' /\ Manager!LoopInv'
  BY <1>2, NothingStarts DEF Manager!CancelContext, LoopShape, Manager!Running
<1>3. CASE Manager!StopAutoSync
  BY <1>3, NothingStarts DEF Manager!StopAutoSync, LoopShape, Manager!Running
<1>4. CASE Manager!Close
  BY <1>4, NothingStarts DEF Manager!Close, LoopShape, Manager!Running
<1>5. CASE Manager!HealthChanges
  BY <1>5, NothingStarts DEF Manager!HealthChanges, LoopShape, Manager!Running
<1>6. ASSUME NEW h \in Handlers, Manager!Subscribe(h) PROVE LoopShape' /\ Manager!LoopInv'
  BY <1>6, NothingStarts DEF Manager!Subscribe, LoopShape, Manager!Running
<1> QED
  BY <1>1, <1>2, <1>3, <1>4, <1>5, <1>6

\* One goroutine, or the user, moves on.
LEMMA MoveLoops ==
  ASSUME LoopShape, Manager!LoopInv, NEW c \in Manager!Callers, NEW p, Manager!Set(c, p), UNCHANGED Manager!appVars,
         loopPc[c] # "exit", p # "none" => loopPc[c] # "none" \/ c = User, p = "none" => c = User,
         p = "exit" => Manager!Done(c)
  PROVE  LoopShape' /\ Manager!LoopInv'
<1>1. /\ DOMAIN loopPc' = Manager!Callers /\ loopPc'[c] = p
      /\ \A d \in Manager!Callers : d # c => loopPc'[d] = loopPc[d]
  BY DEF Manager!Set, LoopShape
<1>2. ASSUME NEW l \in Manager!Loops
      PROVE  /\ Manager!Running(l)' => Manager!Running(l)
             /\ Manager!Running(l) => Manager!Running(l)' \/ Manager!Done(l)
             /\ loopPc[l] = "none" => loopPc'[l] = "none"
  BY <1>1, AutoAssumption DEF Manager!Running, Manager!Callers
<1> QED
  BY <1>1, <1>2, NothingStarts DEF Manager!appVars

LEMMA SyncLoops ==
  ASSUME LoopShape, Manager!LoopInv, NEW c \in Manager!Callers, Manager!SyncStep(c)
  PROVE  LoopShape' /\ Manager!LoopInv'
<1>1. (Manager!After(c) = "none" => c = User) /\ Manager!After(c) # "exit"
  BY DEF Manager!After
<1>2. loopPc[c] \in {"sync", "check", "enter", "store", "syncing"} /\ UNCHANGED Manager!appVars
  BY DEF Manager!SyncStep, Manager!SyncChecksClosed, Manager!SyncChecksState, Manager!SyncValidates,
         Manager!SyncEnters, Manager!SyncEnds
<1>3. \E p \in {Manager!After(c), "check", "enter", "store", "syncing"} : Manager!Set(c, p)
  BY DEF Manager!SyncStep, Manager!SyncChecksClosed, Manager!SyncChecksState, Manager!SyncValidates,
         Manager!SyncEnters, Manager!SyncEnds, Manager!Refuse
<1> QED
  BY <1>1, <1>2, <1>3, MoveLoops

LEMMA NextLoops ==
  ASSUME LoopShape, Manager!LoopInv, [Manager!Next]_(Manager!vars)
  PROVE  LoopShape' /\ Manager!LoopInv'
<1>1. ASSUME NEW l \in Manager!Loops, Manager!Exit(l) \/ Manager!LoopStep(l) PROVE LoopShape' /\ Manager!LoopInv'
  <2>1. l \in Manager!Callers /\ loopPc[l] \in {"select", "tick", "health"} /\ UNCHANGED Manager!appVars
    BY <1>1 DEF Manager!Exit, Manager!LoopStep, Manager!Tick, Manager!CheckState, Manager!CheckHealth, Manager!Callers
  <2>2. \E p \in {"exit", "tick", "health", "select", "sync"} :
          Manager!Set(l, p) /\ (p = "exit" => Manager!Done(l))
    BY <1>1 DEF Manager!Exit, Manager!LoopStep, Manager!Tick, Manager!CheckState, Manager!CheckHealth
  <2> QED
    BY <2>1, <2>2, MoveLoops
<1>2. CASE Manager!UserCallsSync
  <2>1. User \in Manager!Callers /\ loopPc[User] = "none" /\ Manager!Set(User, "sync") /\ UNCHANGED Manager!appVars
    BY <1>2 DEF Manager!UserCallsSync, Manager!Callers
  <2> QED
    BY <2>1, MoveLoops
<1>3. ASSUME UNCHANGED <<Manager!appVars, loopPc>> PROVE LoopShape' /\ Manager!LoopInv'
  BY <1>3, NothingStarts DEF Manager!appVars, LoopShape, Manager!Running
<1>4. ASSUME NEW h \in Handlers, Manager!Deliver(h) PROVE LoopShape' /\ Manager!LoopInv'
  BY <1>3, <1>4 DEF Manager!Deliver
<1>5. CASE UNCHANGED Manager!vars
  BY <1>3, <1>5 DEF Manager!vars, Manager!appVars
<1>6. ASSUME NEW c \in Manager!Callers, Manager!SyncMovesOn(c) PROVE LoopShape' /\ Manager!LoopInv'
  BY <1>3, <1>6 DEF Manager!SyncMovesOn
<1> QED
  BY <1>1, <1>2, <1>4, <1>5, <1>6, AppLoops, SyncLoops DEF Manager!Next

\* StartAutoSync "will not create duplicate goroutines": whatever the order of
\* starts, stops, cancelled contexts, Close and the steps of goroutines that were
\* told to end, one goroutine at most is live, and StopAutoSync and Close reach it.
THEOREM OneLive == Manager!Spec => []OneLiveLoop
<1>1. Manager!Init => LoopShape /\ Manager!LoopInv
  BY AutoAssumption DEF Manager!Init, LoopShape, Manager!LoopInv, Manager!Running, Manager!Loops, Manager!Callers
<1>2. LoopShape /\ Manager!LoopInv /\ [Manager!Next]_(Manager!vars) => LoopShape' /\ Manager!LoopInv'
  BY NextLoops
<1>3. Manager!LoopInv => OneLiveLoop
  BY DEF Manager!LoopInv, OneLiveLoop, Manager!OneLiveLoop, Manager!Live, Manager!Done
<1> QED
  BY <1>1, <1>2, <1>3, PTL DEF Manager!Spec
==================================================================================
