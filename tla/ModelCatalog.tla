---------------------------- MODULE ModelCatalog ----------------------------
(***************************************************************************)
(* What PostgresModelRegistry promises its callers: upserts and deletes    *)
(* that take effect one at a time, and with each of them, never without    *)
(* it, the domain event that tells of it.                                  *)
(***************************************************************************)
EXTENDS Naturals, Sequences

CONSTANTS
  Models,       \* <<vendor, model id>>: primary keys of the entries table
  Definitions,  \* contents of an entry: definition, badges, pricing, sources
  NoEntry       \* no row

VARIABLES
  entries,  \* entries[m]: the committed row of m
  events    \* events[m]: committed events of aggregate m, oldest first

Entries == [definition : Definitions, generation : Nat \ {0}]

Event(mutation, d, g) == [type |-> mutation, definition |-> d, version |-> g]

\* The events table tells the fate of each model from its first row on.
Init ==
  /\ entries = [m \in Models |-> NoEntry]
  /\ events = [m \in Models |-> <<>>]

\* nextGeneration: 1 for a new row.
NextGeneration(old) == IF old = NoEntry THEN 1 ELSE old.generation + 1

Upsert(m, d) ==
  LET g == NextGeneration(entries[m])
      mutation == IF entries[m] = NoEntry THEN "created" ELSE "updated"
  IN  /\ entries' = [entries EXCEPT ![m] = [definition |-> d, generation |-> g]]
      /\ events' = [events EXCEPT ![m] = Append(@, Event(mutation, d, g))]

Delete(m) ==
  LET old == entries[m]
  IN  /\ old # NoEntry
      /\ entries' = [entries EXCEPT ![m] = NoEntry]
      /\ events' = [events EXCEPT ![m] =
                      Append(@, Event("deleted", old.definition, old.generation))]

Next == \E m \in Models : Delete(m) \/ \E d \in Definitions : Upsert(m, d)

Spec == Init /\ [][Next]_<<entries, events>>

=============================================================================
