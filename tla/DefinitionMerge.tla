-------------------------- MODULE DefinitionMerge --------------------------
(***************************************************************************)
(* What a definition of a model consists of, and how two definitions of    *)
(* one model are brought together (definition_merge.go).                   *)
(***************************************************************************)
EXTENDS Naturals

CONSTANTS
  Sources,    \* the definition sources
  Authority,  \* Authority[o]: rank by authority priority, then source id
  Fields,     \* display name, shapes, modalities, context, prices, ...
  Values,     \* what may be said of a field
  Unset,      \* nothing is said of it
  Aliases     \* other names a model may have

\* CollectedModelEntry.  Badges are never set by a source.
Definitions ==
  [says    : [Fields -> Values \cup {Unset}],
   aliases : SUBSET Aliases,
   sources : SUBSET Sources]

\* Mutation: only the aliases of the better source are kept.
FilledDropsAliases(p, q) ==
  [says    |-> [f \in Fields |-> IF p.says[f] = Unset THEN q.says[f] ELSE p.says[f]],
   aliases |-> p.aliases,
   sources |-> p.sources \cup q.sources]

\* What p leaves open is taken from q; aliases and sources are united.
Filled(p, q) ==
  [says    |-> [f \in Fields |-> IF p.says[f] = Unset THEN q.says[f] ELSE p.says[f]],
   aliases |-> p.aliases \cup q.aliases,
   sources |-> p.sources \cup q.sources]

\* compareCollectedEntryAuthority: a definition is as good as its best source.
Outranks(q, p) == \E o \in q.sources : \A r \in p.sources : Authority[o] > Authority[r]

\* MergeCollectedEntries
MergeCollectedEntries(p, q) == IF Outranks(q, p) THEN Filled(q, p) ELSE Filled(p, q)

=============================================================================
