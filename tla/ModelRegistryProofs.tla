------------------------ MODULE ModelRegistryProofs ------------------------
(***************************************************************************)
(* Every transaction that commits does one step of ModelCatalog, and the   *)
(* events of a model tell one coherent life that ends in its row.          *)
(***************************************************************************)
EXTENDS ModelRegistry, TLAPS

-----------------------------------------------------------------------------
(* The inductive invariant: what a transaction found is still there when   *)
(* it commits.                                                             *)

OneHolder ==
  \A t, u \in Txs, m \in Models : Holds(t, m) /\ Holds(u, m) => t = u

\* Of a row it holds, or of the row it has inserted, t knows the past.
FoundIsRow ==
  \A t \in Txs :
    phase[t] = "written" \/ (phase[t] = "selected" /\ found[t] # NoEntry)
      => found[t] = entries[target[t]]

\* Waiting for a row means that it exists.
WaitedForExists ==
  \A t \in Txs : phase[t] = "selecting" => entries[target[t]] # NoEntry

\* A delete never gets past a missing row.
RemovalFoundRow ==
  \A t \in Txs :
    phase[t] \in {"selected", "written"} /\ wanted[t] = Removal => found[t] # NoEntry

\* Before its select has returned, a transaction has found nothing.
NothingFoundYet ==
  \A t \in Txs : phase[t] \in {"idle", "selecting"} => found[t] = NoEntry

IInv ==
  TypeOK /\ OneHolder /\ FoundIsRow /\ WaitedForExists /\ RemovalFoundRow /\ NothingFoundYet

\* An entry is not mistaken for no entry.
LEMMA EntryIsNotNoEntry ==
  \A d \in Definitions, g \in Nat \ {0} : [definition |-> d, generation |-> g] # NoEntry
BY RegistryAssumption DEF Catalog!Entries

LEMMA InitInv == Init => IInv
<1> SUFFICES ASSUME Init PROVE IInv
  OBVIOUS
<1>1. TypeOK
  BY DEF Init, Catalog!Init, TypeOK, Catalog!Entries, Events
<1>2. OneHolder /\ FoundIsRow /\ WaitedForExists /\ RemovalFoundRow /\ NothingFoundYet
  BY DEF Init, OneHolder, FoundIsRow, WaitedForExists, RemovalFoundRow, NothingFoundYet, Holds
<1> QED BY <1>1, <1>2 DEF IInv

LEMMA TypeInductive == TypeOK /\ RemovalFoundRow /\ [Next]_vars => TypeOK'
<1> SUFFICES ASSUME TypeOK, RemovalFoundRow, [Next]_vars PROVE TypeOK'
  OBVIOUS
<1> USE DEF TypeOK
<1>1. ASSUME NEW t \in Txs, NEW m \in Models, NEW d \in Definitions \cup {Removal},
             BeginWaiting(t, m, d) \/ BeginMissing(t, m, d)
      PROVE  TypeOK'
  <2>1. CASE BeginWaiting(t, m, d)
    BY <2>1 DEF BeginWaiting
  <2>2. CASE BeginMissing(t, m, d)
    BY <2>2 DEF BeginMissing
  <2> QED BY <1>1, <2>1, <2>2
<1>2. ASSUME NEW t \in Txs, Lock(t) PROVE TypeOK'
  <2>1. phase[t] # "idle" /\ target[t] \in Models
    BY <1>2 DEF Lock
  <2> QED BY <1>2, <2>1 DEF Lock
<1>3. ASSUME NEW t \in Txs, Write(t) \/ Insert(t) PROVE TypeOK'
  BY <1>3 DEF Write, Insert
<1>4. ASSUME NEW t \in Txs, CommitUpsert(t) PROVE TypeOK'
  <2> DEFINE m == target[t]
             d == wanted[t]
             g == Catalog!NextGeneration(found[t])
             e == Catalog!Event(IF found[t] = NoEntry THEN "created" ELSE "updated", d, g)
  <2>1. m \in Models /\ d \in Definitions
    BY <1>4 DEF CommitUpsert
  <2>2. g \in Nat \ {0}
    BY DEF Catalog!NextGeneration, Catalog!Entries
  <2>3. e \in Events
    BY <2>1, <2>2 DEF Catalog!Event, Events
  <2>4. [definition |-> d, generation |-> g] \in Catalog!Entries
    BY <2>1, <2>2 DEF Catalog!Entries
  <2>5. /\ entries' = [entries EXCEPT ![m] = [definition |-> d, generation |-> g]]
        /\ events' = [events EXCEPT ![m] = Append(@, e)]
    BY <1>4 DEF CommitUpsert
  <2> HIDE DEF e, g, d
  <2>6. events' \in [Models -> Seq(Events)]
    BY <2>1, <2>3, <2>5
  <2>7. entries' \in [Models -> Catalog!Entries \cup {NoEntry}]
    BY <2>4, <2>5
  <2> QED BY <1>4, <2>6, <2>7 DEF CommitUpsert, Closed
<1>5. ASSUME NEW t \in Txs, CommitDelete(t) PROVE TypeOK'
  <2> DEFINE m == target[t]
             losers == Waiting(t, m)
             done == {t} \cup {u \in losers : wanted[u] = Removal}
  <2>1. m \in Models
    BY <1>5 DEF CommitDelete
  <2> DEFINE e == Catalog!Event("deleted", found[t].definition, found[t].generation)
  <2>a. found[t] \in Catalog!Entries
    BY <1>5 DEF CommitDelete, RemovalFoundRow
  <2>b. e \in Events
    BY <2>a DEF Catalog!Event, Events, Catalog!Entries
  <2>c. events' = [events EXCEPT ![m] = Append(@, e)]
    BY <1>5 DEF CommitDelete
  <2> HIDE DEF e
  <2>2. events' \in [Models -> Seq(Events)]
    BY <2>1, <2>b, <2>c
  <2>3. entries' \in [Models -> Catalog!Entries \cup {NoEntry}]
    BY <1>5 DEF CommitDelete
  <2>4. phase' = [u \in Txs |-> IF u \in done THEN "idle"
                                ELSE IF u \in losers THEN "selected" ELSE phase[u]]
    BY <1>5 DEF CommitDelete
  <2>5. Closed(done)
    BY <1>5 DEF CommitDelete
  <2>6. losers \subseteq {u \in Txs : phase[u] = "selecting"}
    BY DEF Waiting
  <2> HIDE DEF done, losers
  <2> QED BY <2>2, <2>3, <2>4, <2>5, <2>6 DEF Closed
<1>6. ASSUME NEW t \in Txs, Rollback(t) PROVE TypeOK'
  BY <1>6 DEF Rollback, Closed
<1>7. CASE UNCHANGED vars
  BY <1>7 DEF vars, txVars
<1> QED BY <1>1, <1>2, <1>3, <1>4, <1>5, <1>6, <1>7 DEF Next, TxStep

\* Statements and rollbacks leave the committed tables alone; what a commit
\* does to them is a step of ModelCatalog.
LEMMA StepIsCatalogStep ==
  IInv /\ [Next]_vars => [Catalog!Next]_<<entries, events>>
<1> SUFFICES ASSUME IInv, [Next]_vars PROVE [Catalog!Next]_<<entries, events>>
  OBVIOUS
<1> USE DEF IInv
<1>1. ASSUME NEW t \in Txs, CommitUpsert(t) PROVE Catalog!Next
  <2>0. phase[t] = "written" /\ wanted[t] # Removal
    BY <1>1 DEF CommitUpsert
  <2>a. target[t] \in Models /\ wanted[t] \in Definitions
    BY <2>0 DEF TypeOK
  <2>b. found[t] = entries[target[t]]
    BY <2>0 DEF FoundIsRow
  <2>1. target[t] \in Models /\ wanted[t] \in Definitions /\ found[t] = entries[target[t]]
    BY <2>a, <2>b
  <2> DEFINE m == target[t]
             d == wanted[t]
             g == Catalog!NextGeneration(entries[m])
             mutation == IF entries[m] = NoEntry THEN "created" ELSE "updated"
             e == Catalog!Event(mutation, d, g)
  <2>2. /\ entries' = [entries EXCEPT ![m] = [definition |-> d, generation |-> g]]
        /\ events' = [events EXCEPT ![m] = Append(@, e)]
    BY <1>1, <2>1 DEF CommitUpsert
  <2>3. Catalog!Upsert(m, d)
    BY <2>2 DEF Catalog!Upsert
  <2> QED BY <2>1, <2>3 DEF Catalog!Next
<1>2. ASSUME NEW t \in Txs, CommitDelete(t) PROVE Catalog!Next
  <2>0. phase[t] = "written" /\ wanted[t] = Removal
    BY <1>2 DEF CommitDelete
  <2>a. target[t] \in Models
    BY <2>0 DEF TypeOK
  <2>b. found[t] = entries[target[t]] /\ found[t] # NoEntry
    BY <2>0 DEF FoundIsRow, RemovalFoundRow
  <2>1. target[t] \in Models /\ found[t] = entries[target[t]] /\ found[t] # NoEntry
    BY <2>a, <2>b
  <2>2. Catalog!Delete(target[t])
    BY <1>2, <2>1 DEF CommitDelete, Catalog!Delete
  <2> QED BY <2>1, <2>2 DEF Catalog!Next
<1>3. ASSUME NEW t \in Txs, NEW m \in Models, NEW d \in Definitions \cup {Removal},
             BeginWaiting(t, m, d) \/ BeginMissing(t, m, d)
      PROVE  UNCHANGED <<entries, events>>
  BY <1>3 DEF BeginWaiting, BeginMissing
<1>4. ASSUME NEW t \in Txs, Lock(t) \/ Write(t) \/ Insert(t) \/ Rollback(t)
      PROVE  UNCHANGED <<entries, events>>
  BY <1>4 DEF Lock, Write, Insert, Rollback
<1>5. CASE UNCHANGED vars
  BY <1>5 DEF vars
<1>6. CASE Next
  <2>1. PICK t \in Txs :
          \/ TxStep(t)
          \/ \E m \in Models, d \in Definitions \cup {Removal} :
               BeginWaiting(t, m, d) \/ BeginMissing(t, m, d)
    BY <1>6 DEF Next
  <2> QED BY <2>1, <1>1, <1>2, <1>3, <1>4 DEF TxStep
<1> QED BY <1>5, <1>6

\* No statement but the holder's own commit touches a row.
LEMMA StepInv == IInv /\ [Next]_vars => IInv'
<1> SUFFICES ASSUME IInv, [Next]_vars PROVE IInv'
  OBVIOUS
<1> USE DEF IInv
<1>t. TypeOK'
  BY TypeInductive
<1>1. ASSUME NEW t \in Txs, NEW m \in Models, NEW d \in Definitions \cup {Removal},
             BeginWaiting(t, m, d)
      PROVE  IInv'
  <2>1. /\ t \in Txs /\ phase[t] = "idle" /\ entries[m] # NoEntry
        /\ phase' = [phase EXCEPT ![t] = "selecting"]
        /\ target' = [target EXCEPT ![t] = m]
        /\ wanted' = [wanted EXCEPT ![t] = d]
        /\ found' = found /\ entries' = entries
    BY <1>1 DEF BeginWaiting
  <2>2. OneHolder'
    BY <2>1 DEF TypeOK, OneHolder, Holds
  <2>3. FoundIsRow'
    BY <2>1 DEF TypeOK, FoundIsRow
  <2>4. WaitedForExists'
    BY <2>1 DEF TypeOK, WaitedForExists
  <2>5. RemovalFoundRow'
    BY <2>1 DEF TypeOK, RemovalFoundRow
  <2>6. NothingFoundYet'
    BY <2>1 DEF TypeOK, NothingFoundYet
  <2> QED BY <1>t, <2>2, <2>3, <2>4, <2>5, <2>6
<1>2. ASSUME NEW t \in Txs, NEW m \in Models, NEW d \in Definitions \cup {Removal},
             BeginMissing(t, m, d)
      PROVE  IInv'
  <2>1. /\ phase[t] = "idle" /\ d # Removal
        /\ phase' = [phase EXCEPT ![t] = "selected"]
        /\ target' = [target EXCEPT ![t] = m]
        /\ wanted' = [wanted EXCEPT ![t] = d]
        /\ found' = [found EXCEPT ![t] = NoEntry]
        /\ entries' = entries
    BY <1>2 DEF BeginMissing
  <2>2. OneHolder'
    BY <2>1 DEF TypeOK, OneHolder, Holds
  <2>3. FoundIsRow'
    BY <2>1 DEF TypeOK, FoundIsRow
  <2>4. WaitedForExists'
    BY <2>1 DEF TypeOK, WaitedForExists
  <2>5. RemovalFoundRow'
    BY <2>1 DEF TypeOK, RemovalFoundRow
  <2>6. NothingFoundYet'
    BY <2>1 DEF TypeOK, NothingFoundYet
  <2> QED BY <1>t, <2>2, <2>3, <2>4, <2>5, <2>6
<1>3. ASSUME NEW t \in Txs, Lock(t) PROVE IInv'
  <2>1. /\ phase[t] = "selecting" /\ Free(target[t])
        /\ phase' = [phase EXCEPT ![t] = "selected"]
        /\ found' = [found EXCEPT ![t] = entries[target[t]]]
        /\ target' = target /\ wanted' = wanted /\ entries' = entries
    BY <1>3 DEF Lock
  <2>2. OneHolder'
    BY <2>1 DEF TypeOK, OneHolder, Holds, Free
  <2>3. FoundIsRow'
    BY <2>1 DEF TypeOK, FoundIsRow
  <2>4. WaitedForExists'
    BY <2>1 DEF TypeOK, WaitedForExists
  <2>5. RemovalFoundRow'
    BY <2>1 DEF TypeOK, RemovalFoundRow, WaitedForExists
  <2>6. NothingFoundYet'
    BY <2>1 DEF TypeOK, NothingFoundYet
  <2> QED BY <1>t, <2>2, <2>3, <2>4, <2>5, <2>6
<1>4. ASSUME NEW t \in Txs, Write(t) PROVE IInv'
  BY <1>4, <1>t DEF Write, TypeOK, OneHolder, Holds, FoundIsRow, WaitedForExists, RemovalFoundRow,
                    NothingFoundYet
<1>5. ASSUME NEW t \in Txs, Insert(t) PROVE IInv'
  BY <1>5, <1>t DEF Insert, TypeOK, OneHolder, Holds, Free, FoundIsRow, WaitedForExists,
                    RemovalFoundRow, NothingFoundYet
<1>6. ASSUME NEW t \in Txs, CommitUpsert(t) PROVE IInv'
  <2> DEFINE m == target[t]
             new == [definition |-> wanted[t],
                     generation |-> Catalog!NextGeneration(found[t])]
  <2>1. /\ phase[t] = "written" /\ m \in Models /\ wanted[t] \in Definitions
        /\ entries' = [entries EXCEPT ![m] = new]
        /\ phase' = [phase EXCEPT ![t] = "idle"]
        /\ Closed({t})
    BY <1>6 DEF CommitUpsert, TypeOK
  <2>2. new # NoEntry
    <3>1. Catalog!NextGeneration(found[t]) \in Nat \ {0}
      BY DEF Catalog!NextGeneration, Catalog!Entries, TypeOK
    <3> QED BY <2>1, <3>1, EntryIsNotNoEntry
  <2>3. \A u \in Txs \ {t} : ~ Holds(u, m)
    BY <2>1 DEF OneHolder, Holds
  <2> HIDE DEF m, new
  <2>4. OneHolder'
    BY <2>1 DEF TypeOK, OneHolder, Holds, Closed
  <2>5. FoundIsRow'
    BY <2>1, <2>3 DEF TypeOK, FoundIsRow, Holds, Closed
  <2>6. WaitedForExists'
    BY <2>1, <2>2 DEF TypeOK, WaitedForExists, Closed
  <2>7. RemovalFoundRow'
    BY <2>1 DEF TypeOK, RemovalFoundRow, Closed
  <2>8. NothingFoundYet'
    BY <2>1 DEF TypeOK, NothingFoundYet, Closed
  <2> QED BY <1>t, <2>4, <2>5, <2>6, <2>7, <2>8
<1>7. ASSUME NEW t \in Txs, CommitDelete(t) PROVE IInv'
  <2> DEFINE m == target[t]
             losers == Waiting(t, m)
             done == {t} \cup {u \in losers : wanted[u] = Removal}
  <2>1. /\ phase[t] = "written" /\ m \in Models
        /\ entries' = [entries EXCEPT ![m] = NoEntry]
        /\ phase' = [u \in Txs |-> IF u \in done THEN "idle"
                                   ELSE IF u \in losers THEN "selected" ELSE phase[u]]
        /\ Closed(done)
    BY <1>7 DEF CommitDelete, TypeOK
  <2>2. \A u \in Txs \ {t} : ~ Holds(u, m)
    BY <2>1 DEF OneHolder, Holds
  <2>3. \A u \in Txs : u \in losers \ done =>
          phase[u] = "selecting" /\ target[u] = m /\ wanted[u] # Removal
    BY DEF Waiting
  <2>4. \A u \in Txs : u \notin losers \cup done => u # t /\ (phase[u] = "selecting" => target[u] # m)
    BY DEF Waiting
  <2>5. done \subseteq Txs
    BY DEF Waiting
  <2> HIDE DEF m, losers, done
  <2>6. /\ \A u \in Txs : u \in done => phase'[u] = "idle"
        /\ \A u \in Txs : u \notin done =>
              /\ target'[u] = target[u] /\ wanted'[u] = wanted[u] /\ found'[u] = found[u]
              /\ phase'[u] = IF u \in losers THEN "selected" ELSE phase[u]
    BY <2>1 DEF Closed, TypeOK
  <2>7. \A u \in Txs : u \in done => found'[u] = NoEntry
    BY <2>1 DEF Closed
  <2>8. OneHolder'
    <3> SUFFICES ASSUME NEW u \in Txs, NEW w \in Txs, NEW n \in Models,
                        Holds(u, n)', Holds(w, n)'
                 PROVE  u = w
      BY DEF OneHolder
    <3>1. \A x \in Txs : Holds(x, n)' => Holds(x, n)
      BY <2>3, <2>6, <2>7 DEF Holds, NothingFoundYet
    <3> QED BY <3>1 DEF OneHolder
  <2>9. FoundIsRow'
    <3> SUFFICES ASSUME NEW u \in Txs,
                        \/ phase'[u] = "written"
                        \/ phase'[u] = "selected" /\ found'[u] # NoEntry
                 PROVE  found'[u] = entries'[target'[u]]
      BY DEF FoundIsRow
    <3>1. u \notin done /\ u \notin losers
      BY <2>3, <2>6, <2>7 DEF NothingFoundYet
    <3>2. Holds(u, target[u]) /\ found[u] = entries[target[u]]
      BY <2>6, <3>1 DEF Holds, FoundIsRow
    <3>3. target[u] # m /\ target[u] \in Models
      BY <2>2, <2>4, <2>6, <3>1, <3>2 DEF TypeOK, Holds
    <3> QED BY <2>1, <2>6, <3>1, <3>2, <3>3 DEF TypeOK
  <2>10. WaitedForExists'
    <3> SUFFICES ASSUME NEW u \in Txs, phase'[u] = "selecting"
                 PROVE  entries'[target'[u]] # NoEntry
      BY DEF WaitedForExists
    <3>1. u \notin done /\ u \notin losers /\ phase[u] = "selecting"
      BY <2>6
    <3>2. target[u] # m /\ target[u] \in Models
      BY <2>4, <3>1 DEF TypeOK
    <3> QED BY <2>1, <2>6, <3>1, <3>2 DEF TypeOK, WaitedForExists
  <2>11. RemovalFoundRow'
    <3> SUFFICES ASSUME NEW u \in Txs, phase'[u] \in {"selected", "written"},
                        wanted'[u] = Removal
                 PROVE  found'[u] # NoEntry
      BY DEF RemovalFoundRow
    <3>1. u \notin done /\ u \notin losers
      BY <2>3, <2>6
    <3> QED BY <2>6, <3>1 DEF RemovalFoundRow
  <2>12. NothingFoundYet'
    BY <2>6, <2>7 DEF NothingFoundYet
  <2> QED BY <1>t, <2>8, <2>9, <2>10, <2>11, <2>12
<1>8. ASSUME NEW t \in Txs, Rollback(t) PROVE IInv'
  BY <1>8, <1>t DEF Rollback, Closed, TypeOK, OneHolder, Holds, FoundIsRow, WaitedForExists,
                    RemovalFoundRow, NothingFoundYet
<1>9. CASE UNCHANGED vars
  BY <1>9, <1>t DEF vars, txVars, OneHolder, Holds, FoundIsRow, WaitedForExists, RemovalFoundRow,
                    NothingFoundYet
<1> QED BY <1>1, <1>2, <1>3, <1>4, <1>5, <1>6, <1>7, <1>8, <1>9 DEF Next, TxStep

\* TypeOK holds: rows and events are well-formed, and an open transaction
\* has a model to write.
THEOREM TypeCorrect == Spec => []TypeOK
<1>1. Init => IInv
  BY InitInv
<1>2. IInv /\ [Next]_vars => IInv'
  BY StepInv
<1>3. IInv => TypeOK
  BY DEF IInv
<1> QED BY <1>1, <1>2, <1>3, PTL DEF Spec

\* KeepsPromise holds: concurrent transactions write the registry as if one
\* came after the other, each with its event.
THEOREM RegistryImplementsCatalog == Spec => KeepsPromise
<1>1. Init => IInv /\ Catalog!Init
  BY InitInv DEF Init
<1>2. IInv /\ [Next]_vars => IInv' /\ [Catalog!Next]_<<entries, events>>
  BY StepInv, StepIsCatalogStep
<1> QED BY <1>1, <1>2, PTL DEF Spec, KeepsPromise, Catalog!Spec

-----------------------------------------------------------------------------
(* What the events tell, from what ModelCatalog does.                      *)

\* An event and the one before it on the same model fit together.
Follows(before, e) ==
  IF before.type = "deleted"
  THEN e.type = "created" /\ e.version = 1
  ELSE \/ e.type = "updated" /\ e.version = before.version + 1
       \/ /\ e.type = "deleted"
          /\ e.version = before.version
          /\ e.definition = before.definition

RowAfter(e) ==
  IF e.type = "deleted"
  THEN NoEntry
  ELSE [definition |-> e.definition, generation |-> e.version]

\* The event of a catalog step fits the last event before it, if that one
\* told of the row, and tells of the new row.
LEMMA CatalogEventFits ==
  ASSUME NEW m \in Models, TypeOK, LastEventIsRow, [Catalog!Next]_<<entries, events>>,
         events'[m] # events[m]
  PROVE  \E e \in Events :
           /\ events'[m] = Append(events[m], e)
           /\ entries'[m] = RowAfter(e)
           /\ IF events[m] = <<>> THEN e.type = "created" /\ e.version = 1
                                  ELSE Follows(events[m][Len(events[m])], e)
<1>1. PICK n \in Models : Catalog!Delete(n) \/ \E d \in Definitions : Catalog!Upsert(n, d)
  BY DEF Catalog!Next
<1>2. n = m
  BY <1>1 DEF TypeOK, Catalog!Delete, Catalog!Upsert
<1> DEFINE old == entries[m]
           last == events[m][Len(events[m])]
<1>3. old = IF events[m] = <<>> THEN NoEntry ELSE RowAfter(last)
  BY DEF LastEventIsRow, RowAfter
<1>4. events[m] # <<>> => last \in Events
  BY DEF TypeOK
<1>5. old = NoEntry <=> events[m] = <<>> \/ last.type = "deleted"
  BY <1>3, <1>4, EntryIsNotNoEntry DEF RowAfter, Events
<1>6. old # NoEntry => /\ old.definition = last.definition
                       /\ old.generation = last.version
                       /\ old \in Catalog!Entries
  BY <1>3, <1>5 DEF RowAfter, TypeOK
<1>7. CASE \E d \in Definitions : Catalog!Upsert(m, d)
  <2> PICK d \in Definitions : Catalog!Upsert(m, d)
    BY <1>7
  <2> DEFINE g == Catalog!NextGeneration(old)
             mutation == IF old = NoEntry THEN "created" ELSE "updated"
             e == Catalog!Event(mutation, d, g)
  <2>1. g \in Nat \ {0}
    BY <1>6 DEF Catalog!NextGeneration, Catalog!Entries
  <2>2. e \in Events
    BY <2>1 DEF Events, Catalog!Event
  <2>3. events'[m] = Append(events[m], e) /\ entries'[m] = [definition |-> d, generation |-> g]
    BY DEF Catalog!Upsert, TypeOK
  <2>4. e.definition = d /\ e.version = g /\ e.type = mutation
    BY DEF Catalog!Event
  <2>5. entries'[m] = RowAfter(e)
    BY <2>3, <2>4 DEF RowAfter
  <2>6. IF events[m] = <<>> THEN e.type = "created" /\ e.version = 1 ELSE Follows(last, e)
    BY <1>5, <1>6, <2>4 DEF Follows, Catalog!NextGeneration
  <2> QED BY <2>2, <2>3, <2>5, <2>6
<1>8. CASE Catalog!Delete(m)
  <2> DEFINE e == Catalog!Event("deleted", old.definition, old.generation)
  <2>1. /\ old # NoEntry /\ entries'[m] = NoEntry
        /\ events'[m] = Append(events[m], e)
    BY <1>8 DEF Catalog!Delete, TypeOK
  <2>2. e \in Events
    BY <1>6, <2>1 DEF Events, Catalog!Event, Catalog!Entries
  <2>3. entries'[m] = RowAfter(e)
    BY <2>1 DEF RowAfter, Catalog!Event
  <2>4. events[m] # <<>> /\ Follows(last, e)
    BY <1>5, <1>6, <2>1 DEF Follows, Catalog!Event
  <2> QED BY <2>1, <2>2, <2>3, <2>4
<1> QED BY <1>1, <1>2, <1>7, <1>8

\* The tables of a model whose events do not change do not change.
LEMMA NoEventNoChange ==
  ASSUME NEW m \in Models, TypeOK, [Catalog!Next]_<<entries, events>>,
         events'[m] = events[m]
  PROVE  entries'[m] = entries[m]
<1>1. CASE UNCHANGED <<entries, events>>
  BY <1>1
<1>2. ASSUME NEW n \in Models, NEW d \in Definitions, Catalog!Upsert(n, d)
      PROVE  entries'[m] = entries[m]
  <2>1. n # m
    BY <1>2 DEF Catalog!Upsert, TypeOK
  <2> QED BY <1>2, <2>1 DEF Catalog!Upsert, TypeOK
<1>3. ASSUME NEW n \in Models, Catalog!Delete(n) PROVE entries'[m] = entries[m]
  <2>1. n # m
    BY <1>3 DEF Catalog!Delete, TypeOK
  <2> QED BY <1>3, <2>1 DEF Catalog!Delete, TypeOK
<1> QED BY <1>1, <1>2, <1>3 DEF Catalog!Next

LEMMA LifeInductive ==
  ASSUME TypeOK, TypeOK', LifeIsCoherent, LastEventIsRow, [Catalog!Next]_<<entries, events>>
  PROVE  LifeIsCoherent' /\ LastEventIsRow'
<1>1. ASSUME NEW m \in Models, events'[m] = events[m]
      PROVE  entries'[m] = entries[m]
  BY <1>1, NoEventNoChange
<1>2. ASSUME NEW m \in Models, events'[m] # events[m]
      PROVE  \E e \in Events :
               /\ events'[m] = Append(events[m], e)
               /\ entries'[m] = RowAfter(e)
               /\ IF events[m] = <<>> THEN e.type = "created" /\ e.version = 1
                                      ELSE Follows(events[m][Len(events[m])], e)
  BY <1>2, CatalogEventFits
<1>3. LastEventIsRow'
  <2> SUFFICES ASSUME NEW m \in Models
               PROVE  IF events'[m] = <<>>
                      THEN entries'[m] = NoEntry
                      ELSE entries'[m] = RowAfter(events'[m][Len(events'[m])])
    BY DEF LastEventIsRow, RowAfter
  <2>1. CASE events'[m] = events[m]
    BY <1>1, <2>1 DEF LastEventIsRow, RowAfter
  <2>2. CASE events'[m] # events[m]
    <3>1. PICK e \in Events : events'[m] = Append(events[m], e) /\ entries'[m] = RowAfter(e)
      BY <1>2, <2>2
    <3>a. events[m] \in Seq(Events)
      BY DEF TypeOK
    <3>2. events'[m] # <<>> /\ events'[m][Len(events'[m])] = e
      BY <3>1, <3>a
    <3> QED BY <3>1, <3>2
  <2> QED BY <2>1, <2>2
<1>4. LifeIsCoherent'
  <2> SUFFICES ASSUME NEW m \in Models, NEW i \in DOMAIN events'[m]
               PROVE  IF i = 1 THEN events'[m][i].type = "created" /\ events'[m][i].version = 1
                      ELSE Follows(events'[m][i - 1], events'[m][i])
    BY DEF LifeIsCoherent, Follows
  <2>0. \A j \in DOMAIN events[m] :
          IF j = 1 THEN events[m][j].type = "created" /\ events[m][j].version = 1
          ELSE Follows(events[m][j - 1], events[m][j])
    BY DEF LifeIsCoherent, Follows
  <2>1. CASE events'[m] = events[m]
    BY <2>0, <2>1
  <2>2. CASE events'[m] # events[m]
    <3>1. PICK e \in Events :
            /\ events'[m] = Append(events[m], e)
            /\ IF events[m] = <<>> THEN e.type = "created" /\ e.version = 1
                                   ELSE Follows(events[m][Len(events[m])], e)
      BY <1>2, <2>2
    <3>2. /\ events[m] \in Seq(Events)
          /\ DOMAIN events[m] = 1 .. Len(events[m])
          /\ DOMAIN events'[m] = 1 .. Len(events[m]) + 1
          /\ Len(events[m]) \in Nat
          /\ events[m] = <<>> <=> Len(events[m]) = 0
      BY <3>1 DEF TypeOK
    <3>3. \A j \in 1 .. Len(events[m]) : events'[m][j] = events[m][j]
      BY <3>1, <3>2
    <3>4. events'[m][Len(events[m]) + 1] = e
      BY <3>1, <3>2
    <3>5. CASE i \in 1 .. Len(events[m])
      <4>1. i # 1 => i - 1 \in 1 .. Len(events[m])
        BY <3>2, <3>5
      <4> QED BY <2>0, <3>2, <3>3, <3>5, <4>1
    <3>6. CASE i = Len(events[m]) + 1 /\ i = 1
      BY <3>1, <3>2, <3>4, <3>6
    <3>7. CASE i = Len(events[m]) + 1 /\ i # 1
      <4>1. i - 1 = Len(events[m]) /\ i - 1 \in 1 .. Len(events[m])
        BY <3>2, <3>7
      <4>2. events'[m][i - 1] = events[m][Len(events[m])]
        BY <3>3, <4>1
      <4> QED BY <3>1, <3>2, <3>4, <3>7, <4>2
    <3> QED BY <3>2, <3>5, <3>6, <3>7
  <2> QED BY <2>1, <2>2
<1> QED BY <1>3, <1>4

\* Together with the invariant of the transactions.
LEMMA LifeInvariant == Spec => [](LifeIsCoherent /\ LastEventIsRow)
<1>1. Init => IInv /\ LifeIsCoherent /\ LastEventIsRow
  <2>1. Init => LifeIsCoherent /\ LastEventIsRow
    BY DEF Init, Catalog!Init, LifeIsCoherent, LastEventIsRow
  <2> QED BY <2>1, InitInv
<1>2. IInv /\ LifeIsCoherent /\ LastEventIsRow /\ [Next]_vars
        => IInv' /\ LifeIsCoherent' /\ LastEventIsRow'
  <2> SUFFICES ASSUME IInv, LifeIsCoherent, LastEventIsRow, [Next]_vars
               PROVE  IInv' /\ LifeIsCoherent' /\ LastEventIsRow'
    OBVIOUS
  <2>1. IInv'
    BY StepInv
  <2>2. [Catalog!Next]_<<entries, events>>
    BY StepIsCatalogStep
  <2>3. TypeOK /\ TypeOK'
    BY <2>1 DEF IInv
  <2>4. LifeIsCoherent' /\ LastEventIsRow'
    BY <2>2, <2>3, LifeInductive
  <2> QED BY <2>1, <2>4
<1> QED BY <1>1, <1>2, PTL DEF Spec

\* LifeIsCoherent holds: no overlap of transactions skips or repeats a
\* version, or creates or deletes a model twice in a row.
THEOREM LifeStaysCoherent == Spec => []LifeIsCoherent
<1>1. LifeIsCoherent /\ LastEventIsRow => LifeIsCoherent
  OBVIOUS
<1> QED BY <1>1, LifeInvariant, PTL

\* LastEventIsRow holds: the events never run ahead of the table nor behind.
THEOREM EventsTellTheTable == Spec => []LastEventIsRow
<1>1. LifeIsCoherent /\ LastEventIsRow => LastEventIsRow
  OBVIOUS
<1> QED BY <1>1, LifeInvariant, PTL

=============================================================================
