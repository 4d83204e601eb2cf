------------------------------ MODULE RuleGroups ------------------------------
(* Conflict resolution rules: the matchers (synckit/spec.go), the groups they   *)
(* are organised in and the CompositeResolver over them (composite.go), and     *)
(* the DynamicResolver, which takes a flat list of rules (resolver.go). The     *)
(* application builds the groups by a sequence of calls, in any order, and      *)
(* switches them on and off; resolution is a function of what it has built. A   *)
(* name is the sequence of its dotted parts.                                    *)
EXTENDS Naturals, SequencesExt

CONSTANTS
  Groups,         \* the groups the application makes with NewRuleGroup
  Rules,          \* rule -> [matcher, resolver]: the rules it adds to them
  FallbackOf,     \* group -> its fallback resolver, or Nil
  Fallback,       \* the composite resolver's fallback, or Nil
  ConflictSet,      \* the conflicts that are resolved
  MaxRules, MaxSubGroups, MaxRoots  \* bounds on how much is added

VARIABLES
  group,  \* group -> [name, rules, subGroups, enabled]
  roots   \* the groups of the composite resolver, in order

vars == <<group, roots>>

Nil == "nil"

--------------------------------------------------------------------------------
(* Matchers. A conflict is [eventType, aggregateID, changed, metadata]; a nil    *)
(* map of metadata is the empty one.                                            *)

RECURSIVE Matches(_, _)
Matches(spec, c) ==
  CASE spec.is = "EventTypeIs"        -> c.eventType = spec.of
    [] spec.is = "AggregateIDMatches" -> c.aggregateID = spec.of
    [] spec.is = "FieldChanged"       -> spec.of \in c.changed
    [] spec.is = "AnyFieldIn"         -> spec.of \cap c.changed # {}
    [] spec.is = "MetadataEq"         -> spec.of.key \in DOMAIN c.metadata /\ c.metadata[spec.of.key] = spec.of.value
    [] spec.is = "AlwaysMatch"        -> TRUE
    [] spec.is = "And"  -> \A s \in {spec.a, spec.b} : s.is # Nil /\ Matches(s, c)
    [] spec.is = "Or"   -> \E s \in {spec.a, spec.b} : s.is # Nil /\ Matches(s, c)
    [] spec.is = "Not"  -> spec.a.is = Nil \/ ~Matches(spec.a, c)
    [] spec.is = "AndMatcher" -> \A i \in DOMAIN spec.specs : spec.specs[i].is # Nil /\ Matches(spec.specs[i], c)

And(x, y) == [is |-> "And", a |-> x, b |-> y]
Or(x, y) == [is |-> "Or", a |-> x, b |-> y]
Not(x) == [is |-> "Not", a |-> x]
AndMatcher(s) == [is |-> "AndMatcher", specs |-> s]

--------------------------------------------------------------------------------
(* The DynamicResolver over a list of rules and a fallback. What a resolver      *)
(* does with a conflict is its name, or an error.                               *)

\* WithRule with AlwaysMatch.
AlwaysRule(resolver) == [matcher |-> [is |-> "AlwaysMatch"], resolver |-> resolver]

\* NewDynamicResolver
Constructible(rules, fallback) ==
  /\ rules # <<>> \/ fallback # Nil
  /\ \A i \in DOMAIN rules : rules[i].matcher.is # Nil /\ rules[i].resolver # Nil

DynamicResolve(rules, fallback, c) ==
  LET matching == {i \in DOMAIN rules : rules[i].matcher.is # Nil /\ Matches(rules[i].matcher, c)}
      first == CHOOSE i \in matching : \A j \in matching : i <= j
  IN IF matching # {} THEN rules[first].resolver
     ELSE IF fallback # Nil THEN fallback ELSE "error"

--------------------------------------------------------------------------------
(* What a group does with a conflict.                                           *)

\* Mutant of Active: a disabled group still takes part.
Always(g) == TRUE

\* The guard of GetAllRules and of ResolveInGroup.
Active(g) == group[g].enabled

RECURSIVE GetAllRules(_)
GetAllRules(g) ==
  LET subs == group[g].subGroups
  IN IF ~Active(g) THEN <<>>
     ELSE group[g].rules \o FlattenSeq([i \in DOMAIN subs |-> GetAllRules(subs[i])])

\* The answer of the first that has one.
FirstAnswer(answers) ==
  LET some == {i \in DOMAIN answers : answers[i] # "none"}
  IN IF some = {} THEN "none" ELSE answers[CHOOSE i \in some : \A j \in some : i <= j]

\* The group's own rules, then its subgroups, the first that has an answer or an
\* error, then its fallback; "none" when it leaves the conflict to the others.
RECURSIVE ResolveInGroup(_, _)
ResolveInGroup(g, c) ==
  LET rules == group[g].rules
      subs == group[g].subGroups
      own == [i \in DOMAIN rules |-> IF Matches(Rules[rules[i].rule].matcher, c)
                                     THEN Rules[rules[i].rule].resolver ELSE "none"]
      fallback == IF FallbackOf[g] = Nil THEN "none" ELSE FallbackOf[g]
  IN IF ~Active(g) THEN "none"
     ELSE FirstAnswer(<<FirstAnswer(own),
                        FirstAnswer([i \in DOMAIN subs |-> ResolveInGroup(subs[i], c)]), fallback>>)

\* CompositeResolver.Resolve, of a resolver with the given fallback.
CompositeResolve(fallback, c) ==
  FirstAnswer(<<FirstAnswer([i \in DOMAIN roots |-> ResolveInGroup(roots[i], c)]),
                IF fallback = Nil THEN "error" ELSE fallback>>)

RECURSIVE GetStats(_)
GetStats(g) ==
  [enabled   |-> group[g].enabled,
   ruleCount |-> Len(group[g].rules),
   total     |-> Len(GetAllRules(g)),
   subGroups |-> [i \in DOMAIN group[g].subGroups |-> GetStats(group[g].subGroups[i])]]

--------------------------------------------------------------------------------
(* Building the groups.                                                         *)

NewRuleGroup(g, enabled) == [name |-> <<g>>, rules |-> <<>>, subGroups |-> <<>>, enabled |-> enabled]

Init ==
  /\ group = [g \in Groups |-> NewRuleGroup(g, TRUE)]
  /\ roots = <<>>

Added(field) == FoldSet(LAMBDA g, n : n + Len(group[g][field]), 0, Groups)

\* The groups gs once rule r is added to g, its name behind the group's. A
\* disabled group takes no rule and no subgroup.
WithRuleAdded(gs, g, r) ==
  IF ~gs[g].enabled THEN gs
  ELSE [gs EXCEPT ![g].rules = Append(@, [rule |-> r, name |-> gs[g].name \o <<r>>])]

\* The groups gs once h is put under g. Its name is put behind g's, and with it
\* the names of the rules it has so far; those of its own subgroups stay.
WithSubGroupAdded(gs, g, h) ==
  LET name == gs[g].name \o gs[h].name
      own(r) == IF IsStrictPrefix(gs[h].name, r.name)
                THEN SubSeq(r.name, Len(gs[h].name) + 1, Len(r.name)) ELSE r.name
      renamed == FoldLeft(LAMBDA acc, r : Append(acc, [r EXCEPT !.name = name \o own(r)]), <<>>, gs[h].rules)
  IN IF ~gs[g].enabled THEN gs
     ELSE [gs EXCEPT ![g].subGroups = Append(@, h), ![h].name = name, ![h].rules = renamed]

AddRule(g, r) ==
  /\ Added("rules") < MaxRules
  /\ group[g].enabled
  /\ group' = WithRuleAdded(group, g, r)
  /\ UNCHANGED roots

\* The groups reached from g.
RECURSIVE Reached(_)
Reached(g) == {g} \cup UNION {Reached(group[g].subGroups[i]) : i \in DOMAIN group[g].subGroups}

\* A group may be put under several groups, but under none that it contains:
\* resolution would not come to an end.
AddSubGroup(g, h) ==
  /\ Added("subGroups") < MaxSubGroups /\ g \notin Reached(h)
  /\ group[g].enabled
  /\ group' = WithSubGroupAdded(group, g, h)
  /\ UNCHANGED roots

Enable(g) == ~group[g].enabled /\ group' = [group EXCEPT ![g].enabled = TRUE] /\ UNCHANGED roots

Disable(g) == group[g].enabled /\ group' = [group EXCEPT ![g].enabled = FALSE] /\ UNCHANGED roots

\* CompositeResolver.AddGroup
AddGroup(g) ==
  /\ Len(roots) < MaxRoots
  /\ roots' = Append(roots, g)
  /\ UNCHANGED group

Next ==
  \E g \in Groups :
    \/ \E r \in DOMAIN Rules : AddRule(g, r)
    \/ \E h \in Groups \ {g} : AddSubGroup(g, h)
    \/ Enable(g) \/ Disable(g) \/ AddGroup(g)

Spec == Init /\ [][Next]_vars

--------------------------------------------------------------------------------
(* Properties.                                                                  *)

\* The rules of the groups in the order in which the code tries them, each
\* group's fallback as a last rule that matches everything.
RECURSIVE Flattened(_)
Flattened(g) ==
  LET rg == group[g]
      own == [i \in DOMAIN rg.rules |-> Rules[rg.rules[i].rule]]
      subs == FlattenSeq([i \in DOMAIN rg.subGroups |-> Flattened(rg.subGroups[i])])
  IN IF ~rg.enabled THEN <<>>
     ELSE own \o subs \o (IF FallbackOf[g] = Nil THEN <<>> ELSE <<AlwaysRule(FallbackOf[g])>>)

\* However the groups were put together and switched, the composite resolver
\* answers as a DynamicResolver does over its flattened rules, which are those
\* of GetAllRules wherever no group has a fallback; and the counts of GetStats
\* add up over the enabled groups (ResolveInGroup, GetAllRules).
ResolvesAsFlattened ==
  LET flat == FlattenSeq([i \in DOMAIN roots |-> Flattened(roots[i])])
  IN /\ Constructible(flat, Fallback) =>
          \A c \in ConflictSet : CompositeResolve(Fallback, c) = DynamicResolve(flat, Fallback, c)
     /\ \A g \in Groups :
          (\A h \in Reached(g) : FallbackOf[h] = Nil) =>
            Flattened(g) = [i \in DOMAIN GetAllRules(g) |-> Rules[GetAllRules(g)[i].rule]]
     /\ \A g \in Groups :
          LET stats == GetStats(g)
          IN stats.enabled => stats.total = stats.ruleCount
               + FoldSeq(LAMBDA s, n : n + s.total, 0, stats.subGroups)

\* A rule's name is its group's present name and the name it was added under, in
\* whichever order rules and subgroups were added and however often the group
\* was put under another (AddRule, AddSubGroup).
NamesAreQualified ==
  \A g \in Groups : \A i \in DOMAIN group[g].rules :
    group[g].rules[i].name = group[g].name \o <<group[g].rules[i].rule>>
================================================================================
