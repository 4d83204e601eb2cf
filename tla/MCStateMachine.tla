--------------------------- MODULE MCStateMachine ---------------------------
(* State machines: StateMachine with the table of the sync operations, the    *)
(* timeouts on a machine's states (StateTimeout) and the machine of the       *)
(* conflict resolver with its workflows (ResolutionWorkflow); and what else   *)
(* conflicts are resolved by: groups of rules (RuleGroups), the rules of a     *)
(* configuration (ConfigLoader) and the resolver with an audit trail           *)
(* (Mementos). A behaviour is one of any of them.                              *)
EXTENDS StateMachine, Machines, SyncState

\* Enough of the table for a cycle, a branch and a dead end.
SmallStates == {"Idle", "Initializing", "Failed", "Cancelled"}
SmallRules == [s \in SmallStates \ {"Cancelled"} |->
                 SyncStateTransitionRules[s] \cap SmallStates]

CONSTANTS c1, c2, g1, g2, g3

VARIABLES
  part,  \* which of them runs
  action, timedState, run, timeouts, of, current, cancelled, due, told, timedCalls, changes,
  group, roots, config, loads, notices, announced, dynamic, built, composite, composed

timeoutVars == <<action, timedState, run, timeouts, of, current, cancelled, due, told, timedCalls, changes>>
groupVars == <<group, roots>>
configVars == <<config, loads, notices, announced, dynamic, built, composite, composed>>

Timeout == INSTANCE StateTimeout WITH
  States <- {"Idle", "Busy", "Wait", "error"}, InitialState <- "Idle",
  TransitionRules <- [Idle |-> {"Busy"}, Busy |-> {"Idle", "Wait", "error"}, Wait |-> {"Idle", "error"}],
  Callers <- {c1}, Timed <- {"Busy", "Wait"}, Actions <- {"transition", "fail", "reset", "callback"},
  TargetState <- "error", FailureStates <- <<"failed", "error">>,
  MaxMonitors <- 3, MaxCalls <- 3, MaxChanges <- 1,
  state <- timedState, inbox <- due, calls <- timedCalls

TypeIsT == [is |-> "EventTypeIs", of |-> "t"]
FieldIsAOrB == [is |-> "AnyFieldIn", of |-> {"a", "b"}]
\* AndMatcher(FieldIsAOrB, Or(Not(TypeIsT), nil))
FieldAndOtherType ==
  [is |-> "AndMatcher",
   specs |-> <<FieldIsAOrB, [is |-> "Or", a |-> [is |-> "Not", a |-> TypeIsT], b |-> [is |-> "nil"]]>>]

Ruled == INSTANCE RuleGroups WITH
  Groups <- {g1, g2, g3}, Fallback <- "review", MaxRules <- 2, MaxSubGroups <- 2, MaxRoots <- 2,
  Rules <- [r1 |-> [matcher |-> TypeIsT, resolver |-> "lww"],
            r2 |-> [matcher |-> FieldAndOtherType, resolver |-> "error"]],
  FallbackOf <- [g \in {g1, g2, g3} |-> IF g = g3 THEN "merge" ELSE "nil"],
  ConflictSet <- [eventType : {"t", "u"}, aggregateID : {"x"}, changed : {{}, {"a"}},
                  metadata : {[k |-> "v"], [l |-> "v"]}]

Entry(types, fields, strategy) ==
  [conditions |-> [eventTypes |-> types, fields |-> fields, aggregateIDs |-> <<>>], strategy |-> strategy]

GroupEntry(enabled, default, rules, subGroups) ==
  [enabled |-> enabled, fallback |-> default, rules |-> rules, subGroups |-> subGroups]

\* Groups nested three deep, switched off, with a fallback, with a rule that is not
\* valid and with one that cannot be built; configurations with and without them.
Loaded == INSTANCE ConfigLoader WITH
  RuleConfig <- [r1 |-> Entry(<<"t">>, <<"a">>, "lww"), r2 |-> Entry(<<>>, <<"a">>, "additive_merge"),
                 r3 |-> Entry(<<>>, <<>>, "manual"), r4 |-> Entry(<<"u">>, <<>>, "unknown"),
                 r5 |-> Entry(<<"u">>, <<>>, "")],
  GroupConfig <- [plain |-> GroupEntry("unset", "", <<"r1", "r2">>, <<>>),
                  off   |-> GroupEntry("false", "", <<"r3">>, <<"bud">>),
                  tree  |-> GroupEntry("true", "fww", <<"r1">>, <<"twig", "off">>),
                  twig  |-> GroupEntry("unset", "", <<"r2">>, <<"leaf">>),
                  leaf  |-> GroupEntry("unset", "", <<"r1">>, <<>>),
                  bud   |-> GroupEntry("unset", "", <<"r2">>, <<>>),
                  wrong |-> GroupEntry("unset", "", <<"r4">>, <<>>),
                  void  |-> GroupEntry("unset", "", <<"r5">>, <<>>)],
  Configs <- [flat    |-> [complete |-> TRUE, rules |-> <<"r2">>, groups |-> <<"plain", "leaf">>, defaultFallback |-> "manual"],
              nested  |-> [complete |-> TRUE, rules |-> <<>>, groups |-> <<"plain", "tree">>, defaultFallback |-> ""],
              wrong   |-> [complete |-> TRUE, rules |-> <<>>, groups |-> <<"wrong">>, defaultFallback |-> "lww"],
              lost    |-> [complete |-> TRUE, rules |-> <<>>, groups |-> <<"leaf">>, defaultFallback |-> "unknown"],
              twice   |-> [complete |-> TRUE, rules |-> <<"r1", "r1">>, groups |-> <<>>, defaultFallback |-> ""],
              void    |-> [complete |-> TRUE, rules |-> <<>>, groups |-> <<"void">>, defaultFallback |-> "lww"],
              unnamed |-> [complete |-> FALSE, rules |-> <<>>, groups |-> <<"plain">>, defaultFallback |-> "lww"]],
  ConflictSet <- [eventType : {"t", "u"}, aggregateID : {"x"}, changed : {{}, {"a"}}, metadata : {[k |-> "v"]}],
  MaxLoads <- 3, current <- config, told <- announced, resolver <- dynamic,
  group <- built, roots <- composite

PartInit ==
  /\ part \in {"machine", "callers", "timeout", "resolver", "groups", "config", "audit"}
  /\ Init /\ Timeout!Init /\ Resolver!Init /\ Ruled!Init /\ Loaded!Init /\ Audit!Init
  /\ part # "timeout" => action = "fail"
  /\ part # "resolver" => ~fallback

\* Every operation of a machine that one goroutine drives, and two goroutines
\* whose calls overlap, two transitions long, on a machine without observers.
PartNext ==
  /\ UNCHANGED part
  /\ \/ part \in {"machine", "callers"} /\ Next /\ UNCHANGED <<timeoutVars, resolverVars, groupVars, configVars, mementoVars>>
     \/ part = "timeout" /\ Timeout!Next /\ UNCHANGED <<vars, resolverVars, groupVars, configVars, mementoVars>>
     \/ part = "resolver" /\ Resolver!Next /\ UNCHANGED <<vars, timeoutVars, groupVars, configVars, mementoVars>>
     \/ part = "groups" /\ Ruled!Next /\ UNCHANGED <<vars, timeoutVars, resolverVars, configVars, mementoVars>>
     \/ part = "config" /\ Loaded!Next /\ UNCHANGED <<vars, timeoutVars, resolverVars, groupVars, mementoVars>>
     \/ part = "audit" /\ Audit!Next /\ UNCHANGED <<vars, timeoutVars, resolverVars, groupVars, configVars>>
  /\ part = "machine" => /\ pc'[c2] = "idle"
                         /\ pc[c1] # "idle" => /\ toggles' = toggles
                                               /\ Len(observers') <= Len(observers)
  /\ part = "callers" => observers' = <<>> /\ calls' <= 2

\* The fairness of StateTimeout and ResolutionWorkflow.
PartSpec ==
  /\ PartInit /\ [][PartNext]_<<part, vars, timeoutVars, resolverVars, groupVars, configVars, mementoVars>>
  /\ WF_timeoutVars(part = "timeout" /\ Timeout!OnTransition)
  /\ WF_timeoutVars(part = "timeout" /\ Timeout!Transition(c1))
  /\ \A m \in Timeout!Monitors : WF_timeoutVars(part = "timeout" /\ Timeout!Monitor(m))
  /\ \A g \in Resolvers : WF_resolverVars(part = "resolver" /\ Resolver!Step(g))

\* StateTimeout: a state with a timeout is left or its timeout is noticed.
StuckIsNoticed == Timeout!StuckIsNoticed
\* RuleGroups: groups of rules answer as the flattened rules do. ConfigLoader: so
\* do groups built from a configuration, and the two resolvers built from one
\* agree and were announced.
ResolvesAsFlattened ==
  /\ part = "groups" => Ruled!ResolvesAsFlattened
  /\ part = "config" => Loaded!BuiltAsFlattened /\ Loaded!ResolversAgree /\ Loaded!ResolversAreAnnounced
\* RuleGroups: a rule's name is qualified by its group's.
NamesAreQualified == part = "groups" => Ruled!NamesAreQualified
==============================================================================
