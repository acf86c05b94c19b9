--------------------------- MODULE ModelRegistry ---------------------------
(***************************************************************************)
(* PostgresModelRegistry's writes: the transactions of                     *)
(* UpsertManagedDefinition and DeleteManagedDefinition over the tables     *)
(* platform_model_registry_entries, _aliases and _observations and the     *)
(* domain event outbox, at read committed.  Several callers (overlapping   *)
(* syncs of one or more replicas) write the same models.                   *)
(*                                                                         *)
(* Aliases and observations are a function of what is upserted, are        *)
(* replaced in the same transaction and go with their entry, so they are   *)
(* part of the definition here.                                            *)
(***************************************************************************)
EXTENDS Naturals, Sequences

CONSTANTS
  Models, Definitions, NoEntry,  \* as in ModelCatalog
  Txs,       \* database transactions that may be open at the same time
  NoModel,   \* target of a transaction that is not open
  Removal,   \* what a delete asks for, next to the Definitions
  MaxEvents  \* bound: no transaction starts on a model with so many events

VARIABLES
  entries, events,  \* the committed tables, as in ModelCatalog
  phase,    \* phase[t]: where transaction t stands
  target,   \* target[t]: the model it is about
  wanted,   \* wanted[t]: the definition to store, or Removal
  found     \* found[t]: the row its "select ... for update" returned

txVars == <<phase, target, wanted, found>>
vars == <<entries, events, txVars>>

Catalog == INSTANCE ModelCatalog

ASSUME RegistryAssumption ==
  /\ NoModel \notin Models
  /\ Removal \notin Definitions
  /\ NoEntry \notin Catalog!Entries
  /\ MaxEvents \in Nat

Events == [type : {"created", "updated", "deleted"},
           definition : Definitions, version : Nat \ {0}]

TypeOK ==
  /\ entries \in [Models -> Catalog!Entries \cup {NoEntry}]
  /\ events \in [Models -> Seq(Events)]
  /\ phase \in [Txs -> {"idle", "selecting", "selected", "written"}]
  /\ target \in [Txs -> Models \cup {NoModel}]
  /\ wanted \in [Txs -> Definitions \cup {Removal}]
  /\ found \in [Txs -> Catalog!Entries \cup {NoEntry}]
  /\ \A t \in Txs : phase[t] # "idle" => target[t] \in Models

Init ==
  /\ Catalog!Init
  /\ phase = [t \in Txs |-> "idle"]
  /\ target = [t \in Txs |-> NoModel]
  /\ wanted = [t \in Txs |-> Removal]
  /\ found = [t \in Txs |-> NoEntry]

\* t has locked a row of m that exists, or inserted one: others wait for it.
Holds(t, m) ==
  /\ target[t] = m
  /\ \/ phase[t] = "selected" /\ found[t] # NoEntry
     \/ phase[t] = "written"

Free(m) == \A t \in Txs : ~ Holds(t, m)

-----------------------------------------------------------------------------
\* Begin, and the "select ... for update" of nextGeneration or of the delete
\* starts.  It sees the row, if there is one, and waits for its lock ...
BeginWaiting(t, m, d) ==
  /\ phase[t] = "idle"
  /\ Len(events[m]) < MaxEvents
  /\ entries[m] # NoEntry
  /\ phase' = [phase EXCEPT ![t] = "selecting"]
  /\ target' = [target EXCEPT ![t] = m]
  /\ wanted' = [wanted EXCEPT ![t] = d]
  /\ UNCHANGED <<entries, events, found>>

\* ... or returns no rows: an upsert goes on, and a delete is done.  A row
\* somebody has inserted and not committed is not seen.
BeginMissing(t, m, d) ==
  /\ phase[t] = "idle"
  /\ Len(events[m]) < MaxEvents
  /\ entries[m] = NoEntry
  /\ d # Removal
  /\ phase' = [phase EXCEPT ![t] = "selected"]
  /\ target' = [target EXCEPT ![t] = m]
  /\ wanted' = [wanted EXCEPT ![t] = d]
  /\ found' = [found EXCEPT ![t] = NoEntry]
  /\ UNCHANGED <<entries, events>>

\* Mutation: a plain select, which locks nothing and waits for nobody.
LockReadOnly(t) ==
  /\ phase[t] = "selecting"
  /\ phase' = [phase EXCEPT ![t] = "selected"]
  /\ found' = [found EXCEPT ![t] = entries[target[t]]]
  /\ UNCHANGED <<entries, events, target, wanted>>

\* The lock is granted; the row is read again in its newest version.
Lock(t) ==
  /\ phase[t] = "selecting"
  /\ Free(target[t])
  /\ phase' = [phase EXCEPT ![t] = "selected"]
  /\ found' = [found EXCEPT ![t] = entries[target[t]]]
  /\ UNCHANGED <<entries, events, target, wanted>>

\* Update of the locked row, or delete: aliases, observations, the entry
\* and the event are written, nothing of it visible to others.
Write(t) ==
  /\ phase[t] = "selected"
  /\ found[t] # NoEntry
  /\ phase' = [phase EXCEPT ![t] = "written"]
  /\ UNCHANGED <<entries, events, target, wanted, found>>

\* Mutation: an insert that overwrites what is there.
InsertOver(t) ==
  /\ phase[t] = "selected"
  /\ found[t] = NoEntry
  /\ Free(target[t])
  /\ phase' = [phase EXCEPT ![t] = "written"]
  /\ UNCHANGED <<entries, events, target, wanted, found>>

\* Insert of a new row.  The primary key makes it wait for whoever writes
\* the same model, and fail (see Rollback) if a row is there by then.
Insert(t) ==
  /\ phase[t] = "selected"
  /\ found[t] = NoEntry
  /\ Free(target[t])
  /\ entries[target[t]] = NoEntry
  /\ phase' = [phase EXCEPT ![t] = "written"]
  /\ UNCHANGED <<entries, events, target, wanted, found>>

\* Transactions other than t that wait for the row of m: when it is deleted
\* their select returns no rows, even if somebody inserts it again.  A
\* delete is then done.
Waiting(t, m) == {u \in Txs \ {t} : phase[u] = "selecting" /\ target[u] = m}

Closed(T) ==
  /\ target' = [u \in Txs |-> IF u \in T THEN NoModel ELSE target[u]]
  /\ wanted' = [u \in Txs |-> IF u \in T THEN Removal ELSE wanted[u]]
  /\ found' = [u \in Txs |-> IF u \in T THEN NoEntry ELSE found[u]]

CommitDelete(t) ==
  LET m == target[t]
      losers == Waiting(t, m)
      done == {t} \cup {u \in losers : wanted[u] = Removal}
  IN  /\ phase[t] = "written"
      /\ wanted[t] = Removal
      /\ entries' = [entries EXCEPT ![m] = NoEntry]
      /\ events' = [events EXCEPT ![m] =
           Append(@, Catalog!Event("deleted", found[t].definition, found[t].generation))]
      /\ phase' = [u \in Txs |-> IF u \in done THEN "idle"
                                 ELSE IF u \in losers THEN "selected" ELSE phase[u]]
      /\ Closed(done)

\* Generation and mutation come from the row that was found.
CommitUpsert(t) ==
  LET m == target[t]
      d == wanted[t]
      g == Catalog!NextGeneration(found[t])
      mutation == IF found[t] = NoEntry THEN "created" ELSE "updated"
  IN  /\ phase[t] = "written"
      /\ d # Removal
      /\ entries' = [entries EXCEPT ![m] = [definition |-> d, generation |-> g]]
      /\ events' = [events EXCEPT ![m] = Append(@, Catalog!Event(mutation, d, g))]
      /\ phase' = [phase EXCEPT ![t] = "idle"]
      /\ Closed({t})

\* Mutation: the event is enqueued outside the transaction.
RollbackKeepsEvent(t) ==
  LET m == target[t]
      d == wanted[t]
      g == Catalog!NextGeneration(found[t])
  IN  /\ phase[t] = "written"
      /\ d # Removal
      /\ events' = [events EXCEPT ![m] = Append(@, Catalog!Event("updated", d, g))]
      /\ phase' = [phase EXCEPT ![t] = "idle"]
      /\ Closed({t})
      /\ UNCHANGED entries

\* A statement fails (a duplicate key among them), the context is cancelled
\* or the process dies: nothing of t remains.
Rollback(t) ==
  /\ phase[t] # "idle"
  /\ phase' = [phase EXCEPT ![t] = "idle"]
  /\ Closed({t})
  /\ UNCHANGED <<entries, events>>

-----------------------------------------------------------------------------
TxStep(t) ==
  \/ Lock(t) \/ Write(t) \/ Insert(t) \/ CommitUpsert(t) \/ CommitDelete(t) \/ Rollback(t)

Next ==
  \E t \in Txs :
    \/ TxStep(t)
    \/ \E m \in Models, d \in Definitions \cup {Removal} :
         BeginWaiting(t, m, d) \/ BeginMissing(t, m, d)

Spec == Init /\ [][Next]_vars

-----------------------------------------------------------------------------
\* The events of a model tell one coherent life, however transactions
\* overlap: it is created at version 1, each update adds one, the deletion
\* repeats the version and the definition it deletes, and only then it can
\* be created again.
LifeIsCoherent ==
  \A m \in Models : \A i \in DOMAIN events[m] :
    LET e == events[m][i]
    IN  IF i = 1 \/ events[m][i - 1].type = "deleted"
        THEN e.type = "created" /\ e.version = 1
        ELSE LET before == events[m][i - 1]
             IN  \/ e.type = "updated" /\ e.version = before.version + 1
                 \/ e.type = "deleted" /\ e.version = before.version
                                       /\ e.definition = before.definition

\* The last event of a model tells its row: whoever follows the events
\* knows the table.
LastEventIsRow ==
  \A m \in Models :
    IF events[m] = <<>>
    THEN entries[m] = NoEntry
    ELSE LET e == events[m][Len(events[m])]
         IN  entries[m] = IF e.type = "deleted"
                          THEN NoEntry
                          ELSE [definition |-> e.definition, generation |-> e.version]

\* Writers can be thought of as acting one at a time.
KeepsPromise == Catalog!Spec

=============================================================================
