--------------------------- MODULE ResolutionWorkflow ---------------------------
(* Goroutines that call Resolve of one StatefulDynamicResolver                 *)
(* (synckit/stateful_resolver.go): the resolution state machine they share     *)
(* (statemachine/dcr_state.go), the workflow each of them opens in the         *)
(* workflow manager (statemachine/conflict_workflow.go), and the rules and the *)
(* fallback of the DynamicResolver. A conflict is the number of its call; the  *)
(* IDs of the code hold the time in nanoseconds and are taken to be different. *)
EXTENDS Naturals, Sequences

CONSTANTS
  Resolvers,  \* the calling goroutines
  NumRules,   \* the rules are 1..NumRules, in their order
  MaxCalls    \* bound on the calls of Resolve

VARIABLES
  state,      \* of the resolution state machine
  mu,         \* who holds the machine's mutex: 0 or a goroutine
  record,     \* the machine's notes: [conflict, path, matched, failed]
  workflows,  \* the workflow manager's map, by conflict
  call,       \* each goroutine: [pc, conflict, rule, result, to]
  trails,     \* the audit trails handed to OnWorkflowCompleted
  metrics,    \* the resolver's performance metrics
  fallback,   \* whether a fallback is configured
  calls

outcome == <<trails, metrics>>
vars == <<state, mu, record, workflows, call, trails, metrics, fallback, calls>>

Rules == 1..NumRules
Decisions == {"resolved", "manual_review", "escalated"}
Free == "free"

\* NewConflictResolutionStateMachine
ResolutionRules ==
  [Idle          |-> {"Analyzing"},
   Analyzing     |-> {"ApplyingRules", "Failed"},
   ApplyingRules |-> {"Resolved", "ManualReview", "Escalated", "Failed"},
   Resolved      |-> {"Idle"},
   ManualReview  |-> {"Resolved", "Escalated", "Failed", "Idle"},
   Escalated     |-> {"Resolved", "Failed", "Idle"},
   Failed        |-> {"Idle"}]

NoRecord == [conflict |-> 0, path |-> <<>>, matched |-> <<>>, failed |-> <<>>]
NewWorkflow == [evaluated |-> <<>>, matched |-> <<>>, failed |-> <<>>]
NoMetrics == [total |-> 0, failed |-> 0, manual |-> 0, escalated |-> 0, auto |-> 0,
              evaluated |-> 0, matched |-> 0]
NoCall == [pc |-> "idle", conflict |-> 0, rule |-> 1, result |-> "none", to |-> "Idle"]

Init ==
  /\ state = "Idle" /\ mu = Free /\ record = NoRecord
  /\ workflows = [c \in {} |-> NewWorkflow]
  /\ call = [g \in Resolvers |-> NoCall]
  /\ trails = <<>> /\ metrics = NoMetrics
  /\ fallback \in BOOLEAN
  /\ calls = 0

At(g, place) == call[g].pc = place
Goto(g, place) == call' = [call EXCEPT ![g].pc = place]
Ends(g, result) == call' = [call EXCEPT ![g].pc = "finish", ![g].result = result]

\* The first half of Transition: the state is loaded and the table looked up.
Ask(g, to, stored, refused) ==
  IF to \in ResolutionRules[state]
  THEN call' = [call EXCEPT ![g].pc = stored, ![g].to = to]
  ELSE Goto(g, refused)

\* Resolve: StartWorkflow
StartWorkflow(g) ==
  /\ At(g, "idle") /\ calls < MaxCalls
  /\ calls' = calls + 1
  /\ call' = [call EXCEPT ![g] = [NoCall EXCEPT !.pc = "start", !.conflict = calls + 1]]
  /\ workflows' = [c \in DOMAIN workflows \cup {calls + 1} |->
                     IF c = calls + 1 THEN NewWorkflow ELSE workflows[c]]
  /\ UNCHANGED <<state, mu, record, fallback, outcome>>

\* Mutant of StartResolution: the reset is deferred before the call, so that it
\* also runs when the call is refused.
StartResolutionDefersReset(g) ==
  /\ At(g, "start") /\ mu = Free
  /\ Ask(g, "Analyzing", "started", "reset")
  /\ mu' = IF "Analyzing" \in ResolutionRules[state] THEN g ELSE Free
  /\ UNCHANGED <<state, record, workflows, fallback, calls, outcome>>

\* StartResolution, under the mutex. A goroutine that is refused returns the
\* error at once and leaves its workflow in the manager.
StartResolution(g) ==
  /\ At(g, "start") /\ mu = Free
  /\ Ask(g, "Analyzing", "started", "idle")
  /\ mu' = IF "Analyzing" \in ResolutionRules[state] THEN g ELSE Free
  /\ UNCHANGED <<state, record, workflows, fallback, calls, outcome>>

ResolutionStarted(g) ==
  /\ At(g, "started")
  /\ state' = call[g].to
  /\ record' = [NoRecord EXCEPT !.conflict = call[g].conflict]
  /\ mu' = Free
  /\ Goto(g, "begin")
  /\ UNCHANGED <<workflows, fallback, calls, outcome>>

\* BeginRuleApplication, of resolveWithTracking; its error ends the resolution.
BeginRuleApplication(g) ==
  /\ At(g, "begin")
  /\ IF "ApplyingRules" \in ResolutionRules[state]
     THEN Ask(g, "ApplyingRules", "begun", "finish")
     ELSE Ends(g, "error")
  /\ UNCHANGED <<state, mu, record, workflows, fallback, calls, outcome>>

\* The second half of a Transition: the new state is stored.
RulesBegin(g) ==
  /\ At(g, "begun")
  /\ state' = call[g].to
  /\ Goto(g, "rules")
  /\ UNCHANGED <<mu, record, workflows, fallback, calls, outcome>>

\* RecordRuleEvaluation of the workflow
Evaluated(w, rule, matched, failed) ==
  [evaluated |-> Append(w.evaluated, rule),
   matched   |-> IF matched THEN Append(w.matched, rule) ELSE w.matched,
   failed    |-> IF failed THEN Append(w.failed, rule) ELSE w.failed]

\* One turn of the loop over the rules: RecordRuleEvaluation of the machine,
\* the matcher, RecordRuleEvaluation of the workflow.
EvaluateRule(g, matched) ==
  LET rule == call[g].rule IN
  /\ At(g, "rules") /\ rule \in Rules /\ mu = Free
  /\ record' = [record EXCEPT !.path = Append(@, rule)]
  /\ workflows' = [workflows EXCEPT ![call[g].conflict] = Evaluated(@, rule, matched, FALSE)]
  /\ call' = [call EXCEPT ![g].pc = IF matched THEN "matched" ELSE "rules",
                          ![g].rule = IF matched THEN rule ELSE rule + 1]
  /\ UNCHANGED <<state, mu, fallback, calls, outcome>>

RecordRuleMatched(g) ==
  /\ At(g, "matched") /\ mu = Free
  /\ record' = [record EXCEPT !.matched = Append(@, call[g].rule)]
  /\ Goto(g, "apply")
  /\ UNCHANGED <<state, mu, workflows, fallback, calls, outcome>>

\* The resolver of the rule that matched decides.
RuleResolves(g, decision) ==
  /\ At(g, "apply")
  /\ Ends(g, decision)
  /\ UNCHANGED <<state, mu, record, workflows, fallback, calls, outcome>>

\* It fails: the failure is recorded, in the workflow as a second evaluation.
RuleFails(g) ==
  /\ At(g, "apply") /\ mu = Free
  /\ record' = [record EXCEPT !.failed = Append(@, call[g].rule)]
  /\ workflows' = [workflows EXCEPT ![call[g].conflict] =
                     Evaluated(@, call[g].rule, TRUE, TRUE)]
  /\ Ends(g, "error")
  /\ UNCHANGED <<state, mu, fallback, calls, outcome>>

\* It panics and Resolve's caller recovers: nothing was deferred yet.
RulePanics(g) ==
  /\ At(g, "apply")
  /\ Goto(g, "panicked")
  /\ UNCHANGED <<state, mu, record, workflows, fallback, calls, outcome>>

\* No rule has matched.
Fallback(g, result) ==
  /\ At(g, "rules") /\ call[g].rule \notin Rules
  /\ ~fallback => result = "error"
  /\ Ends(g, result)
  /\ UNCHANGED <<state, mu, record, workflows, fallback, calls, outcome>>

Target(result) ==
  CASE result = "error"         -> "Failed"
    [] result = "manual_review" -> "ManualReview"
    [] result = "escalated"     -> "Escalated"
    [] OTHER                    -> "Resolved"

\* FailResolution, RequireManualReview, EscalateConflict or CompleteResolution,
\* whose error is dropped.
Finish(g) ==
  /\ At(g, "finish")
  /\ Ask(g, Target(call[g].result), "finished", "complete")
  /\ UNCHANGED <<state, mu, record, workflows, fallback, calls, outcome>>

Finished(g) ==
  /\ At(g, "finished")
  /\ state' = call[g].to
  /\ Goto(g, "complete")
  /\ UNCHANGED <<mu, record, workflows, fallback, calls, outcome>>

\* CompleteResolution of the workflow, unless there was an error, then
\* CompleteWorkflow of the manager, whose audit trail goes to the hook.
CompleteWorkflow(g) ==
  /\ At(g, "complete")
  /\ trails' = Append(trails, [decision |-> call[g].result, workflow |-> workflows[call[g].conflict]])
  /\ workflows' = [c \in DOMAIN workflows \ {call[g].conflict} |-> workflows[c]]
  /\ Goto(g, "metrics")
  /\ UNCHANGED <<state, mu, record, metrics, fallback, calls>>

\* Which of the counters a result belongs to.
Counter(result) ==
  CASE result = "error"         -> "failed"
    [] result = "manual_review" -> "manual"
    [] result = "escalated"     -> "escalated"
    [] OTHER                    -> "auto"

\* The tracker has counted the rules that did not match, and the rule that did
\* once its resolver has returned.
UpdatePerformanceMetrics(g) ==
  /\ At(g, "metrics")
  /\ LET result == call[g].result
     IN metrics' = [metrics EXCEPT
          !.total = @ + 1, ![Counter(result)] = @ + 1,
          !.evaluated = @ + call[g].rule - 1,
          !.matched = IF call[g].rule \in Rules /\ result # "error" THEN @ + 1 ELSE @]
  /\ Goto(g, "reset")
  /\ UNCHANGED <<state, mu, record, workflows, trails, fallback, calls>>

\* Mutant of Reset: a conflict that a person has to look at keeps its state.
ResetUnlessReview(g) ==
  /\ At(g, "reset") /\ mu = Free
  /\ IF state = "ManualReview" THEN Goto(g, "idle") ELSE Ask(g, "Idle", "cleared", "idle")
  /\ mu' = IF state # "ManualReview" /\ "Idle" \in ResolutionRules[state] THEN g ELSE Free
  /\ UNCHANGED <<state, record, workflows, fallback, calls, outcome>>

\* The deferred Reset, under the mutex; its error is only logged.
Reset(g) ==
  /\ At(g, "reset") /\ mu = Free
  /\ Ask(g, "Idle", "cleared", "idle")
  /\ mu' = IF "Idle" \in ResolutionRules[state] THEN g ELSE Free
  /\ UNCHANGED <<state, record, workflows, fallback, calls, outcome>>

ResetDone(g) ==
  /\ At(g, "cleared")
  /\ state' = call[g].to
  /\ record' = NoRecord
  /\ mu' = Free
  /\ Goto(g, "idle")
  /\ UNCHANGED <<workflows, fallback, calls, outcome>>

Step(g) ==
  \/ StartResolution(g) \/ ResolutionStarted(g) \/ BeginRuleApplication(g) \/ RulesBegin(g)
  \/ \E matched \in BOOLEAN : EvaluateRule(g, matched)
  \/ RecordRuleMatched(g) \/ RuleFails(g) \/ RulePanics(g)
  \/ \E decision \in Decisions : RuleResolves(g, decision)
  \/ \E result \in Decisions \cup {"error"} : Fallback(g, result)
  \/ Finish(g) \/ Finished(g) \/ CompleteWorkflow(g)
  \/ UpdatePerformanceMetrics(g) \/ Reset(g) \/ ResetDone(g)

Next == \E g \in Resolvers : StartWorkflow(g) \/ Step(g)

Spec == Init /\ [][Next]_vars

\* Every goroutine that can run goes on.
FairSpec == Spec /\ \A g \in Resolvers : WF_vars(Step(g))

--------------------------------------------------------------------------------
(****************************************************************************)
(* Properties.                                                               *)
(****************************************************************************)
\* g is resolving: the machine has taken its conflict and it has not reset it.
Resolving(g) == call[g].pc \in {"begin", "begun", "rules", "matched", "apply", "finish",
                                "finished", "complete", "metrics", "reset", "cleared"}

Without(s, n) == SubSeq(s, 1, Len(s) - n)

\* One resolution at a time, although the machine's mutex is not held during
\* one: while a goroutine is resolving, the machine's notes are of its conflict,
\* and the workflow's audit trail names the same rules. Only a rule that failed
\* is in the trail once more (StartResolution, Reset).
NotesAreOfOneConflict ==
  \A g \in Resolvers : Resolving(g) =>
    /\ \A h \in Resolvers \ {g} : ~Resolving(h)
    /\ record.conflict = call[g].conflict
    /\ call[g].conflict \in DOMAIN workflows =>
         LET w == workflows[call[g].conflict] IN
         /\ Without(w.evaluated, Len(record.failed)) = record.path
         /\ w.failed = record.failed
         /\ ~At(g, "matched") => Without(w.matched, Len(record.failed)) = record.matched

\* The resolver takes the next conflict again: after a resolution the machine
\* comes back to idle, whatever was decided, unless a rule has panicked (the
\* deferred Reset).
ResolverComesBack == state # "Idle" ~> (state = "Idle" \/ \E g \in Resolvers : At(g, "panicked"))
================================================================================
