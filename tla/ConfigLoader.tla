------------------------------ MODULE ConfigLoader ------------------------------
(* Conflict resolution rules from configuration files (synckit/config.go). A     *)
(* loader with the BasicValidator takes configurations one after the other,      *)
(* while it runs; each one it accepts it tells its watcher, in a goroutine. From  *)
(* its current configuration it builds a DynamicResolver, which has the rules of  *)
(* the groups in one list, and a RuleGroup for each group, of which an            *)
(* application makes a CompositeResolver (RuleGroups). Rules and groups are       *)
(* identified by their names.                                                    *)
EXTENDS Naturals, SequencesExt

CONSTANTS
  RuleConfig,   \* rule -> [conditions : [eventTypes, fields, aggregateIDs], strategy]
  GroupConfig,  \* group -> [enabled, fallback, rules, subGroups]; enabled is "unset", "true" or "false"
  Configs,      \* configuration -> [complete, rules, groups, defaultFallback]
  ConflictSet,
  MaxLoads      \* how many configurations are loaded

VARIABLES
  current,    \* currentConfig, or Nil
  loads,      \* how many were accepted
  notices,    \* the goroutines that have yet to call OnConfigChanged: [old, new]
  told,       \* the changes the watcher was called with
  resolver,   \* the last DynamicResolver built: [of, rules, fallback]
  group,      \* the rule groups last built
  roots,      \* the groups of the CompositeResolver made of them
  composed    \* the configuration they were built from, or Nil

vars == <<current, loads, notices, told, resolver, group, roots, composed>>

Nil == "nil"

NoResolver == [of |-> Nil, rules |-> <<>>, fallback |-> Nil]

--------------------------------------------------------------------------------
(* Building rules and groups.                                                    *)

SpecsOf(kind, values) == [i \in DOMAIN values |-> [is |-> kind, of |-> values[i]]]

\* Every condition must hold; CustomMatch is not looked at.
buildMatcher(conditions) ==
  LET matchers == SpecsOf("EventTypeIs", conditions.eventTypes)
                  \o SpecsOf("FieldChanged", conditions.fields)
                  \o SpecsOf("AggregateIDMatches", conditions.aggregateIDs)
  IN CASE Len(matchers) = 0 -> [is |-> "AlwaysMatch"]
       [] Len(matchers) = 1 -> matchers[1]
       [] OTHER -> [is |-> "AndMatcher", specs |-> matchers]

\* The resolvers by the two names each of them has; no other name is known.
createResolverFromStrategy(strategy) ==
  CASE strategy \in {"last_write_wins", "lww"}  -> "LastWriteWins"
    [] strategy \in {"first_write_wins", "fww"} -> "FirstWriteWins"
    [] strategy \in {"additive_merge", "merge"} -> "AdditiveMerge"
    [] strategy \in {"manual_review", "manual"} -> "ManualReview"
    [] OTHER -> Nil

\* A rule whose strategy is unknown has no resolver: building it is an error.
\* Enabled and Priority are not looked at.
buildRule(r) ==
  [matcher  |-> buildMatcher(RuleConfig[r].conditions),
   resolver |-> createResolverFromStrategy(RuleConfig[r].strategy)]

Groups == DOMAIN GroupConfig

G == INSTANCE RuleGroups WITH
  Rules <- [r \in DOMAIN RuleConfig |-> buildRule(r)],
  FallbackOf <- [g \in Groups |-> createResolverFromStrategy(GroupConfig[g].fallback)],
  Fallback <- Nil, MaxRules <- 0, MaxSubGroups <- 0, MaxRoots <- 0

\* An unset fallback is none.
Known(fallback) == fallback = "" \/ createResolverFromStrategy(fallback) # Nil

AllBuilt(rules) == \A i \in DOMAIN rules : buildRule(rules[i]).resolver # Nil

\* buildRuleGroup(g) returns no error: the rules and subgroups of a disabled
\* group are built too, although it does not take them.
RECURSIVE Builds(_)
Builds(g) ==
  /\ Known(GroupConfig[g].fallback)
  /\ AllBuilt(GroupConfig[g].rules)
  /\ \A i \in DOMAIN GroupConfig[g].subGroups : Builds(GroupConfig[g].subGroups[i])

\* The groups gs with g built from its configuration: first its rules, then its
\* subgroups, each with its own subgroups before it is put under g.
RECURSIVE buildRuleGroup(_, _), WithSubGroups(_, _, _)
buildRuleGroup(gs, g) ==
  LET made == [gs EXCEPT ![g] = G!NewRuleGroup(g, GroupConfig[g].enabled # "false")]
      ruled == FoldLeft(LAMBDA acc, r : G!WithRuleAdded(acc, g, r), made, GroupConfig[g].rules)
  IN WithSubGroups(ruled, g, GroupConfig[g].subGroups)

WithSubGroups(gs, g, subGroups) ==
  IF subGroups = <<>> THEN gs
  ELSE LET h == Head(subGroups)
       IN WithSubGroups(G!WithSubGroupAdded(buildRuleGroup(gs, h), g, h), g, Tail(subGroups))

--------------------------------------------------------------------------------
(* Loading.                                                                      *)

NoDuplicates(s) == \A i, j \in DOMAIN s : s[i] = s[j] => i = j

validateRules(rules) ==
  /\ NoDuplicates(rules)
  /\ \A i \in DOMAIN rules : RuleConfig[rules[i]].strategy # ""

\* BasicValidator.Validate: a version and a name, and groups and rules with names
\* of their own. Neither subgroups nor the names of strategies are looked at.
Validate(config) ==
  /\ config.complete
  /\ NoDuplicates(config.groups)
  /\ \A i \in DOMAIN config.groups : validateRules(GroupConfig[config.groups[i]].rules)
  /\ validateRules(config.rules)

Init ==
  /\ current = Nil /\ loads = 0 /\ notices = <<>> /\ told = {}
  /\ resolver = NoResolver
  /\ group = [g \in Groups |-> G!NewRuleGroup(g, TRUE)] /\ roots = <<>> /\ composed = Nil

\* LoadFromBytes under the loader's lock, with what a transformer made of the
\* data. What cannot be read, parsed, transformed or validated changes nothing.
applyConfig(config) ==
  /\ loads < MaxLoads
  /\ Validate(Configs[config])
  /\ current' = config
  /\ loads' = loads + 1
  /\ notices' = Append(notices, [old |-> current, new |-> config])
  /\ UNCHANGED <<told, resolver, group, roots, composed>>

\* A watcher's goroutine: they are scheduled in any order.
OnConfigChanged(i) ==
  /\ told' = told \cup {notices[i]}
  /\ notices' = RemoveAt(notices, i)
  /\ UNCHANGED <<current, loads, resolver, group, roots, composed>>

\* The rules of the configuration, then those of each group, whether or not it is
\* enabled; subgroups and the fallbacks of groups are left out.
DynamicRules(config) ==
  LET names == config.rules
               \o FlattenSeq([i \in DOMAIN config.groups |-> GroupConfig[config.groups[i]].rules])
  IN [i \in DOMAIN names |-> buildRule(names[i])]

\* The configuration is read once, under the lock. An error leaves the
\* application with the resolver it had.
BuildDynamicResolver ==
  /\ current # Nil
  /\ LET config == Configs[current]
         rules == DynamicRules(config)
         fallback == createResolverFromStrategy(config.defaultFallback)
     IN /\ Known(config.defaultFallback)
        /\ G!Constructible(rules, fallback)
        /\ resolver' = [of |-> current, rules |-> rules, fallback |-> fallback]
  /\ UNCHANGED <<current, loads, notices, told, group, roots, composed>>

\* External: the application builds each group and adds it to a CompositeResolver.
Compose ==
  /\ current # Nil
  /\ LET groups == Configs[current].groups
     IN /\ \A i \in DOMAIN groups : Builds(groups[i])
        /\ group' = FoldLeft(LAMBDA gs, g : buildRuleGroup(gs, g), [h \in Groups |-> G!NewRuleGroup(h, TRUE)], groups)
        /\ roots' = groups
  /\ composed' = current
  /\ UNCHANGED <<current, loads, notices, told, resolver>>

Next ==
  \/ \E config \in DOMAIN Configs : applyConfig(config)
  \/ \E i \in DOMAIN notices : OnConfigChanged(i)
  \/ BuildDynamicResolver
  \/ Compose

Spec == Init /\ [][Next]_vars

--------------------------------------------------------------------------------
(* Properties.                                                                   *)

\* No group of the configuration uses what only the CompositeResolver heeds.
Plain(config) ==
  \A i \in DOMAIN config.groups :
    LET entry == GroupConfig[config.groups[i]]
    IN entry.enabled # "false" /\ entry.fallback = "" /\ entry.subGroups = <<>>

\* The two resolvers built from one configuration, at whichever moments between
\* loads, give every conflict the same answer where the groups are enabled and
\* have neither subgroups nor a fallback, the configuration's own rules coming
\* first (BuildDynamicResolver, buildRuleGroup).
ResolversAgree ==
  composed # Nil /\ resolver.of = composed =>
    LET config == Configs[composed]
        own(c) == [i \in DOMAIN config.rules |->
                     IF G!Matches(buildRule(config.rules[i]).matcher, c)
                     THEN buildRule(config.rules[i]).resolver ELSE "none"]
    IN Plain(config) =>
         \A c \in ConflictSet :
           G!DynamicResolve(resolver.rules, resolver.fallback, c)
             = G!FirstAnswer(<<G!FirstAnswer(own(c)), G!CompositeResolve(resolver.fallback, c)>>)

\* Every resolver in use is of a configuration the watcher was told of or is
\* about to be told of (applyConfig).
ResolversAreAnnounced ==
  \A config \in {current, composed, resolver.of} \ {Nil} :
    \E n \in told \cup Range(notices) : n.new = config

\* Groups built from a configuration resolve like the flat list of their rules,
\* and their rules are named after them (buildRuleGroup).
BuiltAsFlattened == G!ResolvesAsFlattened /\ G!NamesAreQualified
================================================================================
