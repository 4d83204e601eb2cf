--------------------------------- MODULE Machines ---------------------------------
(* Two users of the resolution of conflicts, side by side: the resolver that runs   *)
(* on a state machine (ResolutionWorkflow) and the one that keeps an audit trail    *)
(* (Mementos).                                                                      *)
EXTENDS Naturals, Sequences, FiniteSets

CONSTANTS
  Resolvers, NumRules, MaxResolverCalls,
  Auditors, AuditedAggregates, MaxTime, MaxResolutions, MaxDeletes

VARIABLES
  resolverState, mu, record, workflows, resolving, trails, metrics, fallback, resolutions,
  mementos, now, auditing, audited, deleted

resolverVars == <<resolverState, mu, record, workflows, resolving, trails, metrics, fallback, resolutions>>
mementoVars == <<mementos, now, auditing, audited, deleted>>

Resolver == INSTANCE ResolutionWorkflow WITH
              MaxCalls <- MaxResolverCalls,
              state <- resolverState, call <- resolving, calls <- resolutions

Audit == INSTANCE Mementos WITH
           Callers <- Auditors, Aggregates <- AuditedAggregates,
           call <- auditing, history <- audited

\* ResolutionWorkflow: one resolution at a time, and its notes are of one conflict.
NotesAreOfOneConflict == Resolver!NotesAreOfOneConflict
\* ResolutionWorkflow: the resolver takes the next conflict again.
ResolverComesBack == Resolver!ResolverComesBack
\* Mementos: every resolution is in the audit trail, and rollback names it.
ResolutionsAreAudited == Audit!ResolutionsAreAudited
====================================================================================
