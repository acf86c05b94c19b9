-------------------------- MODULE ModelSyncProofs --------------------------
(***************************************************************************)
(* A model of a managed vendor is removed only by a sync that heard of the *)
(* vendor and not of the model; what is written of a model is what the     *)
(* best source that answered said; and what the collectors make of the     *)
(* catalogs is all that is published and may be said.                      *)
(***************************************************************************)
EXTENDS ModelSync, SourceCatalogs, FiniteSetTheorems, SequenceTheorems, WellFoundedInduction, TLAPS

\* Sources whose answers are in the snapshot.
Heard(s) ==
  IF phase[s] = "merging" THEN Sources \ todo[s]
  ELSE IF phase[s] \in {"upserting", "deleting"} THEN Sources ELSE {}

\* The snapshot has a model when one of them speaks of it.
SnapshotIsHeard ==
  \A s \in Syncs, m \in Models :
    snapshot[s][m] # NoDefinition <=> \E o \in Heard(s) : answer[s][o][m] # NoDefinition

\* A sync upserts what its snapshot names.
UpsertsCollected ==
  \A s \in Syncs : phase[s] = "upserting" => todo[s] \subseteq Collected(snapshot[s])

\* A sync deletes what its snapshot does not name, of vendors it names or
\* that nobody manages.
DeletesStale ==
  \A s \in Syncs : phase[s] = "deleting" =>
    \A m \in todo[s] : m \notin Collected(snapshot[s]) /\ ~ ShouldKeep(snapshot[s], m[1])

IInv == TypeOK /\ SnapshotIsHeard /\ UpsertsCollected /\ DeletesStale

\* Two definitions brought together, in whatever order, are a definition.
LEMMA FilledIsDefinition ==
  ASSUME NEW c \in Definitions, NEW d \in Definitions
  PROVE  Filled(c, d) \in Definitions
<1>1. [f \in Fields |-> IF c.says[f] = Unset THEN d.says[f] ELSE c.says[f]]
        \in [Fields -> Values \cup {Unset}]
  BY DEF Definitions
<1>2. c.aliases \cup d.aliases \in SUBSET Aliases /\ c.sources \cup d.sources \in SUBSET Sources
  BY DEF Definitions
<1> QED BY <1>1, <1>2 DEF Filled, Definitions

LEMMA MergeIsDefinition ==
  ASSUME NEW p \in Definitions, NEW q \in Definitions
  PROVE  MergeCollectedEntries(p, q) \in Definitions
BY FilledIsDefinition DEF MergeCollectedEntries

\* What is merged may be said, and has what either side has.
LEMMA MergedIsSaid ==
  ASSUME NEW f \in Sayable, NEW g \in Sayable
  PROVE  /\ Merged(f, g) \in Sayable
         /\ \A m \in Models : Merged(f, g)[m] # NoDefinition
                            <=> f[m] # NoDefinition \/ g[m] # NoDefinition
<1> DEFINE h == Merged(f, g)
<1>1. ASSUME NEW m \in Models
      PROVE  /\ h[m] \in Definitions \cup {NoDefinition}
             /\ h[m] # NoDefinition <=> f[m] # NoDefinition \/ g[m] # NoDefinition
             /\ m[1] \notin Managed => h[m] = NoDefinition
  <2>1. f[m] \in Definitions \cup {NoDefinition} /\ g[m] \in Definitions \cup {NoDefinition}
    BY DEF Sayable, Offers
  <2>2. h[m] = IF f[m] = NoDefinition THEN g[m] ELSE IF g[m] = NoDefinition THEN f[m]
               ELSE MergeCollectedEntries(f[m], g[m])
    BY DEF Merged
  <2> HIDE DEF h
  <2>3. m[1] \notin Managed => f[m] = NoDefinition /\ g[m] = NoDefinition
    BY DEF Sayable
  <2>4. CASE f[m] = NoDefinition \/ g[m] = NoDefinition
    BY <2>1, <2>2, <2>3, <2>4
  <2>5. CASE f[m] # NoDefinition /\ g[m] # NoDefinition
    <3>1. h[m] \in Definitions
      BY <2>1, <2>2, <2>5, MergeIsDefinition
    <3> QED BY <3>1, <2>3, <2>5, ModelSyncAssumption
  <2> QED BY <2>4, <2>5
<1>2. h = [m \in Models |-> h[m]]
  BY DEF Merged
<1> HIDE DEF h
<1>3. h \in Sayable
  BY <1>1, <1>2 DEF Sayable, Offers
<1> QED BY <1>1, <1>3 DEF h

LEMMA NothingIsSayable == Nothing \in Sayable
BY DEF Nothing, Sayable, Offers

LEMMA InitInv == Init => IInv
<1> SUFFICES ASSUME Init PROVE IInv
  OBVIOUS
<1>1. /\ answer \in [Syncs -> [Sources -> Sayable]]
      /\ snapshot \in [Syncs -> Sayable]
  BY NothingIsSayable DEF Init, NoAnswers
<1>2. /\ DOMAIN offers = Sources
      /\ \A o \in Sources : offers[o].told \cup offers[o].cut \subseteq SayableBy(o)
  BY ModelSyncAssumption DEF Init
<1>3. registry \in Offers
  BY ModelSyncAssumption DEF Init
<1>4. TypeOK
  BY <1>1, <1>2, <1>3, ModelSyncAssumption DEF Init, TypeOK
<1>5. SnapshotIsHeard
  BY DEF Init, SnapshotIsHeard, Heard, Nothing
<1> QED BY <1>4, <1>5 DEF Init, IInv, UpsertsCollected, DeletesStale

\* The catalogs and failures of a next state.
LEMMA ReleaseType ==
  ASSUME TypeOK, NEW o \in Sources, Release(o)
  PROVE  TypeOK'
<1>1. PICK c \in Catalogs[o] : offers' = [offers EXCEPT ![o] = c]
  BY DEF Release
<1>2. c.told \cup c.cut \subseteq SayableBy(o)
  BY ModelSyncAssumption
<1>3. /\ DOMAIN offers' = Sources
      /\ \A p \in Sources : offers'[p].told \cup offers'[p].cut \subseteq SayableBy(p)
  <2>1. DOMAIN offers = Sources
    BY DEF TypeOK
  <2>2. \A p \in Sources : offers'[p] = IF p = o THEN c ELSE offers[p]
    BY <1>1, <2>1
  <2>3. DOMAIN offers' = Sources
    BY <1>1, <2>1
  <2>4. \A p \in Sources : offers[p].told \cup offers[p].cut \subseteq SayableBy(p)
    BY DEF TypeOK
  <2> QED BY <1>2, <2>2, <2>3, <2>4
<1>4. releases' \in 0 .. MaxReleases
  BY ModelSyncAssumption DEF Release, TypeOK
<1> QED BY <1>3, <1>4 DEF TypeOK, Release, syncVars

LEMMA TypeInductive == TypeOK /\ [Next]_vars => TypeOK'
<1> SUFFICES ASSUME TypeOK, [Next]_vars PROVE TypeOK'
  OBVIOUS
<1>1. ASSUME NEW o \in Sources, Release(o) PROVE TypeOK'
  BY <1>1, ReleaseType
<1> USE DEF TypeOK
<1>2. ASSUME NEW s \in Syncs, Done(s)
      PROVE  /\ phase' \in [Syncs -> {"idle", "collecting", "merging", "upserting", "deleting"}]
             /\ answer' \in [Syncs -> [Sources -> Sayable]]
             /\ snapshot' \in [Syncs -> Sayable]
             /\ todo' \in [Syncs -> SUBSET (Sources \cup Models)]
             /\ listed' \in [Syncs -> SUBSET Models]
             /\ \A t \in Syncs :
                  todo'[t] \subseteq IF phase'[t] \in {"collecting", "merging"} THEN Sources ELSE Models
  <2>1. NoAnswers \in [Sources -> Sayable] /\ Nothing \in Sayable
    BY NothingIsSayable DEF NoAnswers
  <2> QED BY <1>2, <2>1 DEF Done
<1>3. ASSUME NEW s \in Syncs, Start(s) \/ BeginMerge(s) PROVE TypeOK'
  BY <1>3 DEF Start, BeginMerge, worldVars
<1>4. ASSUME NEW s \in Syncs, NEW o \in Sources, Collect(s, o) \/ CollectError(s, o) PROVE TypeOK'
  <2>1. PICK f \in offers[o].told \cup offers[o].cut : answer' = [answer EXCEPT ![s][o] = f]
    BY <1>4 DEF Collect, CollectError
  <2>2. f \in Sayable
    BY DEF SayableBy
  <2>3. answer' \in [Syncs -> [Sources -> Sayable]]
    BY <2>1, <2>2
  <2>4. failures' \in 0 .. MaxFailures
    BY <1>4, ModelSyncAssumption DEF Collect, CollectError, Fail
  <2>5. /\ UNCHANGED <<worldVars, registry, phase, snapshot, listed>>
        /\ phase[s] = "collecting" /\ todo' = [todo EXCEPT ![s] = todo[s] \ {o}]
    BY <1>4 DEF Collect, CollectError
  <2>6. /\ todo' \in [Syncs -> SUBSET (Sources \cup Models)]
        /\ \A r \in Syncs :
             todo'[r] \subseteq IF phase'[r] \in {"collecting", "merging"} THEN Sources ELSE Models
    BY <2>5
  <2> QED BY <2>3, <2>4, <2>5, <2>6 DEF worldVars
<1>5. ASSUME NEW s \in Syncs, NEW o \in Sources, Merge(s, o) PROVE TypeOK'
  <2>1. snapshot' = [snapshot EXCEPT ![s] = Merged(snapshot[s], answer[s][o])]
    BY <1>5 DEF Merge
  <2>2. snapshot[s] \in Sayable /\ answer[s][o] \in Sayable
    OBVIOUS
  <2>3. snapshot' \in [Syncs -> Sayable]
    BY <2>1, <2>2, MergedIsSaid
  <2> QED BY <1>5, <2>3 DEF Merge, worldVars
<1>6. ASSUME NEW s \in Syncs, List(s) PROVE TypeOK'
  <2>1. Collected(snapshot[s]) \subseteq Models
    BY DEF Collected
  <2> QED BY <1>6, <2>1 DEF List, worldVars
<1>7. ASSUME NEW s \in Syncs, BeginDelete(s) PROVE TypeOK'
  <2>1. Stale(s) \subseteq Models
    BY DEF Stale
  <2> QED BY <1>7, <2>1 DEF BeginDelete, worldVars
<1>8. ASSUME NEW s \in Syncs, NEW m \in Models, Upsert(s, m) \/ Delete(s, m) PROVE TypeOK'
  <2>1. snapshot[s][m] \in Definitions \cup {NoDefinition}
    BY DEF Sayable, Offers
  <2>2. registry' \in Offers
    BY <1>8, <2>1 DEF Upsert, Delete, Offers
  <2> QED BY <1>8, <2>2 DEF Upsert, Delete, worldVars
<1>9. ASSUME NEW s \in Syncs, Finish(s) PROVE TypeOK'
  BY <1>2, <1>9 DEF Finish, worldVars
<1>10. ASSUME NEW s \in Syncs, NEW m \in Models, StoreError(s, m) PROVE TypeOK'
  <2>1. snapshot[s][m] \in Definitions \cup {NoDefinition}
    BY DEF Sayable, Offers
  <2>2. registry' \in Offers
    BY <1>10, <2>1 DEF StoreError, Offers
  <2>3. failures' \in 0 .. MaxFailures
    BY <1>10, ModelSyncAssumption DEF StoreError, Fail
  <2> QED BY <1>2, <1>10, <2>2, <2>3 DEF StoreError, worldVars
<1>11. ASSUME NEW s \in Syncs, Stop(s) PROVE TypeOK'
  <2>1. failures' \in 0 .. MaxFailures
    BY <1>11, ModelSyncAssumption DEF Stop, Fail
  <2> QED BY <1>2, <1>11, <2>1 DEF Stop, worldVars
<1>12. CASE UNCHANGED vars
  BY <1>12 DEF vars, worldVars, syncVars
<1> QED BY <1>1, <1>3, <1>4, <1>5, <1>6, <1>7, <1>8, <1>9, <1>10, <1>11, <1>12
        DEF Next, WorkStep, FailStep

\* The other conjuncts are kept by what the step does to one sync.
LEMMA StepInv == IInv /\ [Next]_vars => IInv'
<1> SUFFICES ASSUME IInv, [Next]_vars PROVE IInv'
  OBVIOUS
<1>0. TypeOK /\ TypeOK'
  BY TypeInductive DEF IInv
<1> DEFINE Says(s, H) == \A m \in Models :
             snapshot[s][m] # NoDefinition <=> \E o \in H : answer[s][o][m] # NoDefinition
<1> DEFINE Works(s) == /\ phase[s] = "upserting" => todo[s] \subseteq Collected(snapshot[s])
                       /\ phase[s] = "deleting" =>
                            \A m \in todo[s] : /\ m \notin Collected(snapshot[s])
                                               /\ ~ ShouldKeep(snapshot[s], m[1])
<1> DEFINE Good(s) == Says(s, Heard(s)) /\ Works(s)
<1> DEFINE Kept(s) == UNCHANGED <<phase[s], answer[s], snapshot[s], todo[s]>>
<1>1. \A s \in Syncs : Good(s)
  BY DEF IInv, SnapshotIsHeard, UpsertsCollected, DeletesStale
<1>2. ASSUME NEW s \in Syncs, Kept(s) PROVE Good(s)'
  <2>1. Good(s)
    BY <1>1
  <2>2. Heard(s)' = Heard(s)
    BY <1>2 DEF Heard
  <2> QED BY <2>1, <2>2, <1>2
<1>3. ASSUME NEW t \in Syncs, \A s \in Syncs \ {t} : Kept(s), Good(t)'
      PROVE  \A s \in Syncs : Good(s)'
  BY <1>2, <1>3
<1> SUFFICES \A s \in Syncs : Good(s)'
  BY <1>0 DEF IInv, SnapshotIsHeard, UpsertsCollected, DeletesStale
<1>4. ASSUME UNCHANGED syncVars PROVE \A s \in Syncs : Good(s)'
  <2> SUFFICES ASSUME NEW s \in Syncs PROVE Kept(s)
    BY <1>2
  <2> QED BY <1>4 DEF syncVars
<1>5. ASSUME NEW t \in Syncs, Done(t) PROVE \A s \in Syncs : Good(s)'
  <2>1. phase'[t] = "idle" /\ snapshot'[t] = Nothing
    BY <1>0, <1>5 DEF Done, TypeOK
  <2>2. Heard(t)' = {}
    BY <2>1 DEF Heard
  <2>3. Good(t)'
    BY <2>1, <2>2 DEF Nothing
  <2>4. \A s \in Syncs \ {t} : Kept(s)
    BY <1>0, <1>5 DEF Done, TypeOK
  <2> HIDE DEF Good, Kept
  <2> QED BY <1>3, <2>3, <2>4
<1>6. ASSUME NEW t \in Syncs, Start(t) PROVE \A s \in Syncs : Good(s)'
  <2>1. phase[t] = "idle" /\ phase'[t] = "collecting" /\ snapshot'[t] = snapshot[t]
    BY <1>0, <1>6 DEF Start, TypeOK
  <2>2. Heard(t) = {} /\ Heard(t)' = {}
    BY <2>1 DEF Heard
  <2>3. Good(t)'
    BY <1>1, <2>1, <2>2
  <2>4. \A s \in Syncs \ {t} : Kept(s)
    BY <1>0, <1>6 DEF Start, TypeOK
  <2> HIDE DEF Good, Kept
  <2> QED BY <1>3, <2>3, <2>4
<1>7. ASSUME NEW t \in Syncs, NEW o \in Sources, Collect(t, o) \/ CollectError(t, o)
      PROVE  \A s \in Syncs : Good(s)'
  <2>0. PICK f : answer' = [answer EXCEPT ![t][o] = f]
    BY <1>7 DEF Collect, CollectError
  <2>1. phase[t] = "collecting" /\ phase'[t] = "collecting" /\ snapshot'[t] = snapshot[t]
    BY <1>0, <1>7 DEF Collect, CollectError, TypeOK
  <2>2. Heard(t) = {} /\ Heard(t)' = {}
    BY <2>1 DEF Heard
  <2>3. Good(t)'
    BY <1>1, <2>1, <2>2
  <2>4. \A s \in Syncs \ {t} : answer'[s] = answer[s]
    BY <1>0, <2>0 DEF TypeOK
  <2>5. \A s \in Syncs \ {t} : Kept(s)
    BY <1>0, <1>7, <2>4 DEF Collect, CollectError, TypeOK
  <2> HIDE DEF Good, Kept
  <2> QED BY <1>3, <2>3, <2>5
<1>8. ASSUME NEW t \in Syncs, BeginMerge(t) PROVE \A s \in Syncs : Good(s)'
  <2>1. /\ phase[t] = "collecting" /\ phase'[t] = "merging" /\ snapshot'[t] = snapshot[t]
        /\ todo'[t] = Sources
    BY <1>0, <1>8 DEF BeginMerge, TypeOK
  <2>2. Heard(t) = {} /\ Heard(t)' = {}
    BY <2>1 DEF Heard
  <2>3. Good(t)'
    BY <1>1, <2>1, <2>2
  <2>4. \A s \in Syncs \ {t} : Kept(s)
    BY <1>0, <1>8 DEF BeginMerge, TypeOK
  <2> HIDE DEF Good, Kept
  <2> QED BY <1>3, <2>3, <2>4
<1>9. ASSUME NEW t \in Syncs, NEW o \in Sources, Merge(t, o) PROVE \A s \in Syncs : Good(s)'
  <2>1. /\ phase[t] = "merging" /\ phase' = phase /\ answer' = answer
        /\ snapshot'[t] = Merged(snapshot[t], answer[t][o])
        /\ todo'[t] = todo[t] \ {o}
        /\ o \in todo[t] /\ todo[t] \subseteq Sources
    BY <1>0, <1>9 DEF Merge, TypeOK
  <2>2. Heard(t)' = Heard(t) \cup {o}
    BY <2>1 DEF Heard
  <2>3. \A m \in Models : snapshot'[t][m] # NoDefinition
                        <=> snapshot[t][m] # NoDefinition \/ answer[t][o][m] # NoDefinition
    <3>1. snapshot[t] \in Sayable /\ answer[t][o] \in Sayable
      BY <1>0 DEF TypeOK
    <3> QED BY <2>1, <3>1, MergedIsSaid
  <2>4. Says(t, Heard(t))
    BY <1>1
  <2>5. Says(t, Heard(t))'
    BY <2>1, <2>2, <2>3, <2>4
  <2>6. phase'[t] \notin {"upserting", "deleting"}
    BY <2>1
  <2>7. Good(t)'
    BY <2>5, <2>6
  <2>8. \A s \in Syncs \ {t} : Kept(s)
    BY <1>0, <1>9 DEF Merge, TypeOK
  <2> HIDE DEF Good, Kept
  <2> QED BY <1>3, <2>7, <2>8
<1>10. ASSUME NEW t \in Syncs, List(t) PROVE \A s \in Syncs : Good(s)'
  <2>1. /\ phase[t] = "merging" /\ todo[t] = {} /\ phase'[t] = "upserting"
        /\ todo'[t] = Collected(snapshot[t]) /\ answer' = answer /\ snapshot' = snapshot
    BY <1>0, <1>10 DEF List, TypeOK
  <2>2. Heard(t) = Sources /\ Heard(t)' = Sources
    BY <2>1 DEF Heard
  <2>3. Good(t)'
    BY <1>1, <2>1, <2>2
  <2>4. \A s \in Syncs \ {t} : Kept(s)
    BY <1>0, <1>10 DEF List, TypeOK
  <2> HIDE DEF Good, Kept
  <2> QED BY <1>3, <2>3, <2>4
<1>11. ASSUME NEW t \in Syncs, BeginDelete(t) PROVE \A s \in Syncs : Good(s)'
  <2>1. /\ phase[t] = "upserting" /\ phase'[t] = "deleting"
        /\ todo'[t] = Stale(t) /\ answer' = answer /\ snapshot' = snapshot
    BY <1>0, <1>11 DEF BeginDelete, TypeOK
  <2>2. Heard(t) = Sources /\ Heard(t)' = Sources
    BY <2>1 DEF Heard
  <2>3. Works(t)'
    BY <2>1 DEF Stale
  <2>4. Good(t)'
    BY <1>1, <2>1, <2>2, <2>3
  <2>5. \A s \in Syncs \ {t} : Kept(s)
    BY <1>0, <1>11 DEF BeginDelete, TypeOK
  <2> HIDE DEF Good, Kept
  <2> QED BY <1>3, <2>4, <2>5
<1>12. ASSUME NEW t \in Syncs, NEW m \in Models, Upsert(t, m) \/ Delete(t, m)
       PROVE  \A s \in Syncs : Good(s)'
  <2>1. /\ phase' = phase /\ phase[t] \in {"upserting", "deleting"}
        /\ answer' = answer /\ snapshot' = snapshot /\ todo'[t] = todo[t] \ {m}
    BY <1>0, <1>12 DEF Upsert, Delete, TypeOK
  <2>2. Heard(t) = Sources /\ Heard(t)' = Sources
    BY <2>1 DEF Heard
  <2>3. Good(t)'
    BY <1>1, <2>1, <2>2
  <2>4. \A s \in Syncs \ {t} : Kept(s)
    BY <1>0, <1>12 DEF Upsert, Delete, TypeOK
  <2> HIDE DEF Good, Kept
  <2> QED BY <1>3, <2>3, <2>4
<1> HIDE DEF Good, Kept
<1>13. ASSUME NEW o \in Sources, Release(o) PROVE \A s \in Syncs : Good(s)'
  BY <1>4, <1>13 DEF Release
<1>14. ASSUME NEW t \in Syncs, NEW m \in Models, StoreError(t, m)
       PROVE  \A s \in Syncs : Good(s)'
  BY <1>5, <1>14 DEF StoreError
<1>15. ASSUME NEW t \in Syncs, Finish(t) \/ Stop(t)
       PROVE  \A s \in Syncs : Good(s)'
  BY <1>5, <1>15 DEF Finish, Stop
<1>16. CASE UNCHANGED vars
  BY <1>4, <1>16 DEF vars
<1> QED BY <1>6, <1>7, <1>8, <1>9, <1>10, <1>11, <1>12, <1>13, <1>14, <1>15, <1>16
        DEF Next, WorkStep, FailStep

\* The sync's state is well-formed for all models, sources and any number
\* of overlapping calls; in particular what is merged is a definition.
THEOREM TypeCorrect == Spec => []TypeOK
<1>1. Init => TypeOK
  BY InitInv DEF IInv
<1>2. TypeOK /\ [Next]_vars => TypeOK'
  BY TypeInductive
<1> QED BY <1>1, <1>2, PTL DEF Spec

\* A model of a managed vendor whose row goes away goes by a sync that was
\* told of other models of the vendor and of this one by nobody.
LEMMA StepExplained ==
  ASSUME IInv, Next, NEW m \in Models, m[1] \in Managed,
         registry[m] # NoDefinition, registry'[m] = NoDefinition
  PROVE  \E s \in Syncs :
            /\ phase[s] = "deleting"
            /\ \A o \in Sources : answer[s][o][m] = NoDefinition
            /\ \E o \in Sources, n \in Models : n[1] = m[1] /\ answer[s][o][n] # NoDefinition
<1> USE DEF IInv
<1>1. registry' # registry
  OBVIOUS
<1>2. PICK s \in Syncs, n \in Models : Upsert(s, n) \/ Delete(s, n) \/ StoreError(s, n)
  BY <1>1 DEF Next, WorkStep, FailStep, Release, Start, BeginMerge, Merge, List, BeginDelete,
              Finish, Collect, CollectError, Stop
<1>3. registry' = [registry EXCEPT ![n] = IF phase[s] = "deleting" THEN NoDefinition
                                          ELSE snapshot[s][n]]
      /\ n \in todo[s] /\ phase[s] \in {"upserting", "deleting"}
  BY <1>1, <1>2 DEF Upsert, Delete, StoreError, IsNext
<1>4. n = m
  BY <1>3 DEF TypeOK, Offers
<1>5. phase[s] = "deleting"
  <2> SUFFICES ASSUME phase[s] = "upserting" PROVE FALSE
    BY <1>3
  <2>1. m \in Collected(snapshot[s])
    BY <1>3, <1>4 DEF UpsertsCollected
  <2>2. registry'[m] = snapshot[s][m]
    BY <1>3, <1>4 DEF TypeOK, Offers
  <2> QED BY <2>1, <2>2 DEF Collected
<1>6. m \notin Collected(snapshot[s]) /\ ~ ShouldKeep(snapshot[s], m[1])
  BY <1>3, <1>4, <1>5 DEF DeletesStale
<1>7. \A n1 \in Models :
        snapshot[s][n1] # NoDefinition <=> \E o \in Sources : answer[s][o][n1] # NoDefinition
  BY <1>5 DEF SnapshotIsHeard, Heard
<1>8. \A o \in Sources : answer[s][o][m] = NoDefinition
  BY <1>6, <1>7 DEF Collected
<1>9. PICK k \in Collected(snapshot[s]) : k[1] = m[1]
  BY <1>6 DEF ShouldKeep, CollectedVendors
<1>10. k \in Models /\ \E o \in Sources : answer[s][o][k] # NoDefinition
  BY <1>7, <1>9 DEF Collected
<1> QED BY <1>5, <1>8, <1>9, <1>10

\* Neither an outage of a vendor, nor a crash, nor overlapping syncs, of any
\* number, take away a model of a managed vendor: only the vendor's word does.
THEOREM RemovalNeedsReason == Spec => RemovalIsExplained
<1> DEFINE Explained ==
      \A m \in Models :
        /\ m[1] \in Managed
        /\ registry[m] # NoDefinition
        /\ registry'[m] = NoDefinition
        => \E s \in Syncs :
             /\ phase[s] = "deleting"
             /\ \A o \in Sources : answer[s][o][m] = NoDefinition
             /\ \E o \in Sources, n \in Models : n[1] = m[1] /\ answer[s][o][n] # NoDefinition
<1>1. IInv /\ [Next]_vars => [Explained]_vars
  <2> SUFFICES ASSUME IInv, Next PROVE Explained
    OBVIOUS
  <2> QED BY StepExplained
<1>2. Spec => []IInv
  BY InitInv, StepInv, PTL DEF Spec
<1>3. RemovalIsExplained <=> [][Explained]_vars
  BY DEF RemovalIsExplained
<1> HIDE DEF Explained
<1> QED BY <1>1, <1>2, <1>3, PTL DEF Spec

-----------------------------------------------------------------------------
(***************************************************************************)
(* What is merged is the truth of what was told.  Merging goes from the    *)
(* best source to the least, so what has been merged outranks what comes,  *)
(* and a source only fills what all before it left open.                   *)
(***************************************************************************)
Speaking(t, m, H) == {o \in H : t[o][m] # NoDefinition}

\* Those of them that say something of field f.
SayingOf(t, m, f, H) == {o \in Speaking(t, m, H) : t[o][m].says[f] # Unset}

BestOf(S, b) == b \in S /\ \A o \in S : Authority[o] <= Authority[b]

\* d is what the sources in H tell of m.
IsTold(d, t, m, H) ==
  IF Speaking(t, m, H) = {} THEN d = NoDefinition
  ELSE /\ d \in Definitions
       /\ d.sources = Speaking(t, m, H)
       /\ d.aliases = UNION {t[o][m].aliases : o \in Speaking(t, m, H)}
       /\ \A f \in Fields :
            IF SayingOf(t, m, f, H) = {} THEN d.says[f] = Unset
            ELSE \E b \in Sources : BestOf(SayingOf(t, m, f, H), b) /\ d.says[f] = t[b][m].says[f]

Tells(t) == \A o \in Sources : t[o] \in SayableBy(o)

AnswersAreOwn == \A s \in Syncs : Tells(answer[s])

BestFirst ==
  \A s \in Syncs : phase[s] = "merging" =>
    \A o \in Heard(s), p \in todo[s] : Authority[p] < Authority[o]

SnapshotIsTold ==
  \A s \in Syncs, m \in Models : IsTold(snapshot[s][m], answer[s], m, Heard(s))

TruthInv == AnswersAreOwn /\ BestFirst /\ SnapshotIsTold

\* A definition of a source, and what it says of a field.
LEMMA TellingType ==
  ASSUME NEW t, Tells(t), NEW o \in Sources, NEW m \in Models, t[o][m] # NoDefinition
  PROVE  t[o][m] \in Definitions /\ t[o][m].sources = {o}
BY DEF Tells, SayableBy, Sayable, Offers

\* One more source, worse than those heard so far.
LEMMA FilledIsTold ==
  ASSUME NEW t, Tells(t), NEW m \in Models, NEW H \in SUBSET Sources,
         NEW o \in Sources \ H, \A p \in H : Authority[o] < Authority[p],
         t[o][m] # NoDefinition, Speaking(t, m, H) # {},
         NEW d, IsTold(d, t, m, H)
  PROVE  IsTold(Filled(d, t[o][m]), t, m, H \cup {o})
<1> DEFINE q == t[o][m]
           e == Filled(d, q)
           S == Speaking(t, m, H)
<1>1. q \in Definitions /\ q.sources = {o}
  BY TellingType
<1>2. /\ d \in Definitions
      /\ d.sources = S
      /\ d.aliases = UNION {t[p][m].aliases : p \in S}
      /\ \A f \in Fields :
            IF SayingOf(t, m, f, H) = {} THEN d.says[f] = Unset
            ELSE \E b \in Sources : BestOf(SayingOf(t, m, f, H), b) /\ d.says[f] = t[b][m].says[f]
  BY DEF IsTold
<1>3. Speaking(t, m, H \cup {o}) = S \cup {o}
  BY DEF Speaking
<1>4. /\ e.sources = d.sources \cup q.sources
      /\ e.aliases = d.aliases \cup q.aliases
      /\ \A f \in Fields : e.says[f] = IF d.says[f] = Unset THEN q.says[f] ELSE d.says[f]
  BY DEF Filled
<1>5. e \in Definitions
  BY <1>1, <1>2, FilledIsDefinition
<1>6. UNION {t[p][m].aliases : p \in S \cup {o}}
        = (UNION {t[p][m].aliases : p \in S}) \cup q.aliases
  BY Zenon
<1>7. ASSUME NEW f \in Fields
      PROVE  LET T == SayingOf(t, m, f, H \cup {o})
             IN  IF T = {} THEN e.says[f] = Unset
                 ELSE \E b \in Sources : BestOf(T, b) /\ e.says[f] = t[b][m].says[f]
  <2> DEFINE T == SayingOf(t, m, f, H \cup {o})
             U == SayingOf(t, m, f, H)
  <2>1. T = IF q.says[f] = Unset THEN U ELSE U \cup {o}
    BY DEF SayingOf, Speaking
  <2>2. U \subseteq H /\ \A p \in U : t[p][m].says[f] # Unset
    BY DEF SayingOf, Speaking
  <2>3. e.says[f] = IF d.says[f] = Unset THEN q.says[f] ELSE d.says[f]
    BY <1>4
  <2>4. Authority \in [Sources -> Nat]
    BY ModelSyncAssumption
  <2>5. IF U = {} THEN d.says[f] = Unset
        ELSE \E b \in Sources : BestOf(U, b) /\ d.says[f] = t[b][m].says[f]
    BY <1>2
  <2> HIDE DEF T, U, e
  <2>6. CASE U = {}
    <3>1. e.says[f] = q.says[f]
      BY <2>3, <2>5, <2>6
    <3>2. CASE q.says[f] = Unset
      BY <2>1, <2>6, <3>1, <3>2 DEF T
    <3>3. CASE q.says[f] # Unset
      <4>1. T = {o}
        BY <2>1, <2>6, <3>3
      <4>2. BestOf(T, o)
        BY <2>4, <4>1 DEF BestOf
      <4> QED BY <3>1, <4>1, <4>2 DEF T
    <3> QED BY <3>2, <3>3
  <2>7. CASE U # {}
    <3>1. PICK b \in Sources : BestOf(U, b) /\ d.says[f] = t[b][m].says[f]
      BY <2>5, <2>7
    <3>2. d.says[f] # Unset /\ e.says[f] = t[b][m].says[f]
      BY <2>2, <2>3, <3>1 DEF BestOf
    <3>3. Authority[o] < Authority[b]
      BY <2>2, <3>1 DEF BestOf
    <3>4. BestOf(T, b)
      <4>1. \A p \in T : p = o \/ p \in U
        BY <2>1
      <4>2. b \in T
        BY <2>1, <3>1 DEF BestOf
      <4>3. Authority[o] <= Authority[b]
        BY <2>4, <3>3
      <4> QED BY <3>1, <4>1, <4>2, <4>3 DEF BestOf
    <3> QED BY <3>2, <3>4 DEF T, BestOf
  <2> QED BY <2>6, <2>7 DEF T
<1>8. Speaking(t, m, H \cup {o}) # {}
  BY <1>3
<1>9. e.sources = Speaking(t, m, H \cup {o})
  BY <1>1, <1>2, <1>3, <1>4
<1>10. e.aliases = UNION {t[p][m].aliases : p \in Speaking(t, m, H \cup {o})}
  BY <1>2, <1>3, <1>4, <1>6
<1> HIDE DEF e
<1>11. IsTold(e, t, m, H \cup {o})
  BY <1>5, <1>7, <1>8, <1>9, <1>10 DEF IsTold
<1> QED BY <1>11 DEF e

\* The first source that speaks of a model.
LEMMA FirstIsTold ==
  ASSUME NEW t, Tells(t), NEW m \in Models, NEW H \in SUBSET Sources,
         NEW o \in Sources \ H, t[o][m] # NoDefinition, Speaking(t, m, H) = {}
  PROVE  IsTold(t[o][m], t, m, H \cup {o})
<1>1. t[o][m] \in Definitions /\ t[o][m].sources = {o}
  BY TellingType
<1>2. Speaking(t, m, H \cup {o}) = {o}
  BY DEF Speaking
<1>3. ASSUME NEW f \in Fields
      PROVE  LET T == SayingOf(t, m, f, H \cup {o})
             IN  IF T = {} THEN t[o][m].says[f] = Unset
                 ELSE \E b \in Sources : BestOf(T, b) /\ t[o][m].says[f] = t[b][m].says[f]
  <2>1. SayingOf(t, m, f, H \cup {o}) = IF t[o][m].says[f] = Unset THEN {} ELSE {o}
    BY <1>2 DEF SayingOf
  <2>2. BestOf({o}, o)
    BY ModelSyncAssumption DEF BestOf
  <2> QED BY <2>1, <2>2
<1>4. t[o][m].aliases = UNION {t[p][m].aliases : p \in {o}}
  OBVIOUS
<1> QED BY <1>1, <1>2, <1>3, <1>4 DEF IsTold

\* Merging an answer into the snapshot of better ones: those speak first.
LEMMA MergedIsTold ==
  ASSUME NEW t, Tells(t), NEW H \in SUBSET Sources,
         NEW o \in Sources \ H, \A p \in H : Authority[o] < Authority[p],
         NEW f \in Sayable, \A m \in Models : IsTold(f[m], t, m, H)
  PROVE  \A m \in Models : IsTold(Merged(f, t[o])[m], t, m, H \cup {o})
<1> SUFFICES ASSUME NEW m \in Models PROVE IsTold(Merged(f, t[o])[m], t, m, H \cup {o})
  OBVIOUS
<1>1. Merged(f, t[o])[m] = IF f[m] = NoDefinition THEN t[o][m]
                           ELSE IF t[o][m] = NoDefinition THEN f[m]
                           ELSE MergeCollectedEntries(f[m], t[o][m])
  BY DEF Merged
<1>2. IsTold(f[m], t, m, H)
  OBVIOUS
<1>3. f[m] = NoDefinition <=> Speaking(t, m, H) = {}
  BY <1>2, ModelSyncAssumption DEF IsTold
<1>4. CASE t[o][m] = NoDefinition
  <2>1. Speaking(t, m, H \cup {o}) = Speaking(t, m, H)
    BY <1>4 DEF Speaking
  <2>2. \A g \in Fields : SayingOf(t, m, g, H \cup {o}) = SayingOf(t, m, g, H)
    BY <2>1 DEF SayingOf
  <2>3. Merged(f, t[o])[m] = f[m]
    BY <1>1, <1>4
  <2> QED BY <1>2, <2>1, <2>2, <2>3 DEF IsTold
<1>5. CASE t[o][m] # NoDefinition /\ f[m] = NoDefinition
  BY <1>1, <1>3, <1>5, FirstIsTold
<1>6. CASE t[o][m] # NoDefinition /\ f[m] # NoDefinition
  <2>1. t[o][m].sources = {o}
    BY <1>6, TellingType
  <2>2. PICK p \in Speaking(t, m, H) : TRUE
    BY <1>3, <1>6
  <2>3. f[m].sources = Speaking(t, m, H)
    BY <1>2, <2>2 DEF IsTold
  <2>4. p \in H
    BY <2>2 DEF Speaking
  <2>5. ~ (Authority[o] > Authority[p])
    <3>1. Authority[o] \in Nat /\ Authority[p] \in Nat /\ Authority[o] < Authority[p]
      BY <2>4, ModelSyncAssumption
    <3> QED BY <3>1
  <2>6. ~ Outranks(t[o][m], f[m])
    BY <2>1, <2>2, <2>3, <2>5 DEF Outranks
  <2>7. Merged(f, t[o])[m] = Filled(f[m], t[o][m])
    BY <1>1, <1>6, <2>6 DEF MergeCollectedEntries
  <2>8. Speaking(t, m, H) # {}
    BY <1>3, <1>6
  <2>9. IsTold(Filled(f[m], t[o][m]), t, m, H \cup {o})
    BY <1>2, <1>6, <2>8, FilledIsTold
  <2> QED BY <2>7, <2>9
<1> QED BY <1>4, <1>5, <1>6

\* There is one truth.
LEMMA ToldIsTruth ==
  ASSUME NEW t, Tells(t), NEW m \in Models, NEW d, IsTold(d, t, m, Sources)
  PROVE  d = Truth(t, m)
<1> DEFINE O == {o \in Sources : t[o][m] # NoDefinition}
           Say(f) == {o \in O : t[o][m].says[f] # Unset}
           Best(S) == CHOOSE o \in S : \A p \in S : Authority[p] <= Authority[o]
           D == [says    |-> [f \in Fields |-> IF Say(f) = {} THEN Unset
                                               ELSE t[Best(Say(f))][m].says[f]],
                 aliases |-> UNION {t[o][m].aliases : o \in O},
                 sources |-> UNION {t[o][m].sources : o \in O}]
<1>1. O = Speaking(t, m, Sources)
  BY DEF Speaking
<1>2. \A f \in Fields : Say(f) = SayingOf(t, m, f, Sources)
  BY DEF SayingOf, Speaking
<1>3. Truth(t, m) = IF O = {} THEN NoDefinition ELSE D
  BY DEF Truth
<1>4. ASSUME O # {} PROVE d = D
  <2>1. /\ d \in Definitions
        /\ d.sources = O
        /\ d.aliases = UNION {t[o][m].aliases : o \in O}
        /\ \A f \in Fields :
             IF Say(f) = {} THEN d.says[f] = Unset
             ELSE \E b \in Sources : BestOf(Say(f), b) /\ d.says[f] = t[b][m].says[f]
    BY <1>1, <1>2, <1>4 DEF IsTold
  <2>2. d.says = D.says
    <3>1. d.says \in [Fields -> Values \cup {Unset}]
      BY <2>1 DEF Definitions
    <3>2. ASSUME NEW f \in Fields
          PROVE  d.says[f] = IF Say(f) = {} THEN Unset ELSE t[Best(Say(f))][m].says[f]
      <4>1. CASE Say(f) = {}
        BY <2>1, <4>1
      <4>2. CASE Say(f) # {}
        <5>1. PICK b \in Sources : BestOf(Say(f), b) /\ d.says[f] = t[b][m].says[f]
          BY <2>1, <4>2
        <5>2. ASSUME NEW c \in Say(f), \A p \in Say(f) : Authority[p] <= Authority[c] PROVE c = b
          <6>1. /\ b \in Sources /\ c \in Sources
                /\ Authority[b] <= Authority[c] /\ Authority[c] <= Authority[b]
            BY <5>1, <5>2 DEF BestOf
          <6>2. Authority[b] = Authority[c]
            <7>1. Authority[b] \in Nat /\ Authority[c] \in Nat
              BY <6>1, ModelSyncAssumption
            <7> QED BY <6>1, <7>1
          <6> QED BY <6>1, <6>2, ModelSyncAssumption
        <5>3. b \in Say(f) /\ \A p \in Say(f) : Authority[p] <= Authority[b]
          BY <5>1 DEF BestOf
        <5> HIDE DEF Say
        <5>4. Best(Say(f)) = b
          BY <5>2, <5>3
        <5> QED BY <4>2, <5>1, <5>4
      <4> QED BY <4>1, <4>2
    <3> HIDE DEF Say, Best
    <3>3. d.says = [f \in Fields |-> IF Say(f) = {} THEN Unset ELSE t[Best(Say(f))][m].says[f]]
      BY <3>1, <3>2
    <3> QED BY <3>3
  <2>3. d.sources = UNION {t[o][m].sources : o \in O}
    <3>1. \A o \in O : t[o][m].sources = {o}
      BY TellingType
    <3>2. UNION {t[o][m].sources : o \in O} = UNION {{o} : o \in O}
      <4> DEFINE A(o) == t[o][m].sources
      <4>1. \A o \in O : A(o) = {o}
        BY <3>1
      <4> HIDE DEF A, O
      <4>2. UNION {A(o) : o \in O} = UNION {{o} : o \in O}
        BY <4>1
      <4> QED BY <4>2 DEF A
    <3>3. UNION {{o} : o \in O} = O
      <4> HIDE DEF O
      <4> QED OBVIOUS
    <3> HIDE DEF O
    <3> QED BY <2>1, <3>2, <3>3
  <2>4. d = [says |-> d.says, aliases |-> d.aliases, sources |-> d.sources]
    BY <2>1 DEF Definitions
  <2> HIDE DEF Say, Best, O
  <2> QED BY <2>1, <2>2, <2>3, <2>4
<1>5. CASE O = {}
  BY <1>1, <1>3, <1>5 DEF IsTold
<1>6. CASE O # {}
  BY <1>3, <1>4, <1>6
<1> QED BY <1>5, <1>6

\* How one sync moves.
Keeps(s) == UNCHANGED <<phase[s], answer[s], snapshot[s], todo[s]>>

Hears(s) ==
  /\ phase'[s] = "collecting"
  /\ snapshot'[s] = snapshot[s]
  /\ \E o \in Sources : \E f \in SayableBy(o) : answer'[s] = [answer[s] EXCEPT ![o] = f]
  /\ phase[s] = "collecting"

Rests(s) ==
  /\ phase'[s] = "idle"
  /\ snapshot'[s] = Nothing
  /\ answer'[s] = NoAnswers

Begins(s) ==
  /\ <<phase[s], phase'[s]>> \in {<<"idle", "collecting">>, <<"collecting", "merging">>}
  /\ phase'[s] = "merging" => todo'[s] = Sources
  /\ UNCHANGED <<answer[s], snapshot[s]>>

Works(s) ==
  /\ phase'[s] \in {"upserting", "deleting"}
  /\ phase[s] \in {"upserting", "deleting"} \/ (phase[s] = "merging" /\ todo[s] = {})
  /\ UNCHANGED <<answer[s], snapshot[s]>>

Merges(s) ==
  \E o \in todo[s] :
    /\ \A p \in todo[s] : Authority[p] <= Authority[o]
    /\ snapshot'[s] = Merged(snapshot[s], answer[s][o])
    /\ todo'[s] = todo[s] \ {o}
    /\ phase[s] = "merging"
    /\ UNCHANGED <<phase[s], answer[s]>>

LEMMA SyncMoves ==
  ASSUME TypeOK, [Next]_vars, NEW s \in Syncs
  PROVE  Keeps(s) \/ Hears(s) \/ Rests(s) \/ Begins(s) \/ Works(s) \/ Merges(s)
<1> USE DEF TypeOK
<1>1. ASSUME NEW r \in Syncs, Done(r) PROVE Keeps(s) \/ Rests(s)
  BY <1>1 DEF Done, Keeps, Rests
<1>2. ASSUME UNCHANGED syncVars PROVE Keeps(s)
  BY <1>2 DEF syncVars, Keeps
<1>3. ASSUME NEW r \in Syncs, Start(r) \/ BeginMerge(r) PROVE Keeps(s) \/ Begins(s)
  BY <1>3 DEF Start, BeginMerge, Keeps, Begins
<1>4. ASSUME NEW r \in Syncs, NEW o \in Sources, Collect(r, o) \/ CollectError(r, o)
      PROVE  Keeps(s) \/ Hears(s)
  <2>1. PICK f \in offers[o].told \cup offers[o].cut : answer' = [answer EXCEPT ![r][o] = f]
    BY <1>4 DEF Collect, CollectError
  <2>2. f \in SayableBy(o)
    OBVIOUS
  <2>3. UNCHANGED <<phase, snapshot>> /\ phase[r] = "collecting" /\ todo' = [todo EXCEPT ![r] = @ \ {o}]
    BY <1>4 DEF Collect, CollectError
  <2>4. CASE r = s
    <3>1. answer'[s] = [answer[s] EXCEPT ![o] = f]
      BY <2>1, <2>4
    <3> QED BY <2>2, <2>3, <2>4, <3>1 DEF Hears
  <2>5. CASE r # s
    BY <2>1, <2>3, <2>5 DEF Keeps
  <2> QED BY <2>4, <2>5
<1>5. ASSUME NEW r \in Syncs, NEW o \in Sources, Merge(r, o) PROVE Keeps(s) \/ Merges(s)
  BY <1>5 DEF Merge, Keeps, Merges
<1>6. ASSUME NEW r \in Syncs, List(r) \/ BeginDelete(r) PROVE Keeps(s) \/ Works(s)
  BY <1>6 DEF List, BeginDelete, Keeps, Works
<1>7. ASSUME NEW r \in Syncs, NEW m \in Models, Upsert(r, m) \/ Delete(r, m)
      PROVE  Keeps(s) \/ Works(s)
  <2>1. /\ UNCHANGED <<phase, answer, snapshot>> /\ todo' = [todo EXCEPT ![r] = @ \ {m}]
        /\ phase[r] \in {"upserting", "deleting"}
    BY <1>7 DEF Upsert, Delete
  <2>2. CASE r = s
    BY <2>1, <2>2 DEF Works
  <2>3. CASE r # s
    <3>1. todo'[s] = todo[s]
      BY <2>1, <2>3
    <3> QED BY <2>1, <3>1 DEF Keeps
  <2> QED BY <2>2, <2>3
<1>8. ASSUME NEW r \in Syncs, NEW m \in Models, StoreError(r, m) PROVE Keeps(s) \/ Rests(s)
  BY <1>1, <1>8 DEF StoreError
<1>9. ASSUME NEW r \in Syncs, Finish(r) \/ Stop(r) PROVE Keeps(s) \/ Rests(s)
  BY <1>1, <1>9 DEF Finish, Stop
<1>10. ASSUME NEW o \in Sources, Release(o) PROVE Keeps(s)
  BY <1>2, <1>10 DEF Release
<1>11. CASE UNCHANGED vars
  BY <1>2, <1>11 DEF vars
<1> QED BY <1>3, <1>4, <1>5, <1>6, <1>7, <1>8, <1>9, <1>10, <1>11 DEF Next, WorkStep, FailStep

\* Nobody is heard before the merging, and then nothing is in the snapshot.
LEMMA UnheardIsTold ==
  ASSUME NEW d, NEW t, NEW m \in Models
  PROVE  IsTold(d, t, m, {}) <=> d = NoDefinition
BY DEF IsTold, Speaking

LEMMA NothingIsOwn == Tells(NoAnswers)
BY NothingIsSayable DEF Tells, NoAnswers, SayableBy, Nothing

LEMMA TruthInit == Init => TruthInv
<1> SUFFICES ASSUME Init PROVE TruthInv
  OBVIOUS
<1>1. AnswersAreOwn
  BY NothingIsOwn DEF Init, AnswersAreOwn
<1>2. BestFirst
  BY DEF Init, BestFirst
<1>3. \A s \in Syncs : Heard(s) = {} /\ \A m \in Models : snapshot[s][m] = NoDefinition
  BY DEF Init, Heard, Nothing
<1>4. SnapshotIsTold
  BY <1>3, UnheardIsTold DEF SnapshotIsTold
<1> QED BY <1>1, <1>2, <1>4 DEF TruthInv

LEMMA TruthStep == TypeOK /\ TruthInv /\ [Next]_vars => TruthInv'
<1> SUFFICES ASSUME TypeOK, TruthInv, [Next]_vars PROVE TruthInv'
  OBVIOUS
<1> DEFINE First(s) == phase[s] = "merging" =>
                         \A o \in Heard(s), p \in todo[s] : Authority[p] < Authority[o]
           Told(s) == \A m \in Models : IsTold(snapshot[s][m], answer[s], m, Heard(s))
           Good(s) == Tells(answer[s]) /\ First(s) /\ Told(s)
<1>1. \A s \in Syncs : Good(s)
  BY DEF TruthInv, AnswersAreOwn, BestFirst, SnapshotIsTold
<1> SUFFICES ASSUME NEW s \in Syncs PROVE Good(s)'
  BY DEF TruthInv, AnswersAreOwn, BestFirst, SnapshotIsTold
<1>2. Tells(answer[s]) /\ First(s) /\ Told(s)
  BY <1>1
<1>3. /\ phase[s] \in {"collecting", "merging"} => todo[s] \subseteq Sources
      /\ answer[s] \in [Sources -> Sayable]
      /\ snapshot[s] \in Sayable
  BY DEF TypeOK
<1>4. CASE Keeps(s)
  <2>1. Heard(s)' = Heard(s)
    BY <1>4 DEF Keeps, Heard
  <2> QED BY <1>2, <1>4, <2>1 DEF Keeps
<1>5. CASE Hears(s)
  <2>1. PICK o \in Sources : \E f \in SayableBy(o) : answer'[s] = [answer[s] EXCEPT ![o] = f]
    BY <1>5 DEF Hears
  <2>2. Tells(answer[s])'
    BY <1>2, <1>3, <2>1 DEF Tells
  <2>3. Heard(s) = {} /\ Heard(s)' = {} /\ snapshot'[s] = snapshot[s] /\ phase'[s] # "merging"
    BY <1>5 DEF Hears, Heard
  <2>4. \A m \in Models : snapshot'[s][m] = NoDefinition
    BY <1>2, <2>3, UnheardIsTold
  <2>5. Told(s)'
    BY <2>3, <2>4, UnheardIsTold
  <2> QED BY <2>2, <2>3, <2>5
<1>6. CASE Rests(s)
  <2>1. Heard(s)' = {} /\ phase'[s] # "merging"
    BY <1>6 DEF Rests, Heard
  <2>2. Tells(answer[s])'
    BY <1>6, NothingIsOwn DEF Rests, Tells, NoAnswers
  <2>3. \A m \in Models : snapshot'[s][m] = NoDefinition
    BY <1>6 DEF Rests, Nothing
  <2>4. Told(s)'
    BY <2>1, <2>3, UnheardIsTold
  <2> QED BY <2>1, <2>2, <2>4
<1>7. CASE Begins(s)
  <2>1. Heard(s) = {} /\ Heard(s)' = {} /\ UNCHANGED <<answer[s], snapshot[s]>>
    BY <1>7 DEF Begins, Heard
  <2>2. Tells(answer[s])'
    BY <1>2, <2>1
  <2>3. First(s)'
    BY <2>1
  <2>4. Told(s)'
    BY <1>2, <2>1
  <2> QED BY <2>2, <2>3, <2>4
<1>8. CASE Works(s)
  <2>1. Heard(s) = Sources /\ Heard(s)' = Sources /\ UNCHANGED <<answer[s], snapshot[s]>>
    BY <1>8 DEF Works, Heard
  <2>2. phase'[s] # "merging"
    BY <1>8 DEF Works
  <2> QED BY <1>2, <2>1, <2>2
<1>9. CASE Merges(s)
  <2> DEFINE H == Sources \ todo[s]
  <2>1. PICK o \in todo[s] :
           /\ \A p \in todo[s] : Authority[p] <= Authority[o]
           /\ snapshot'[s] = Merged(snapshot[s], answer[s][o])
           /\ todo'[s] = todo[s] \ {o}
           /\ phase[s] = "merging"
           /\ UNCHANGED <<phase[s], answer[s]>>
    BY <1>9 DEF Merges
  <2>2. todo[s] \subseteq Sources /\ o \in Sources \ H
    BY <1>3, <2>1
  <2>3. Heard(s) = H /\ Heard(s)' = H \cup {o}
    BY <2>1, <2>2 DEF Heard
  <2>4. \A p \in H : Authority[o] < Authority[p]
    BY <1>2, <2>1, <2>3
  <2>5. \A p \in todo'[s] : Authority[p] < Authority[o]
    <3> SUFFICES ASSUME NEW p \in todo[s] \ {o} PROVE Authority[p] < Authority[o]
      BY <2>1
    <3>1. /\ Authority[p] \in Nat /\ Authority[o] \in Nat
          /\ Authority[p] # Authority[o] /\ Authority[p] <= Authority[o]
      BY <2>1, <2>2, ModelSyncAssumption
    <3> QED BY <3>1
  <2>6. First(s)'
    <3> SUFFICES ASSUME NEW q \in H \cup {o}, NEW p \in todo'[s] PROVE Authority[p] < Authority[q]
      BY <2>3
    <3>1. CASE q = o
      BY <2>5, <3>1
    <3>2. CASE q \in H
      <4>1. p \in todo[s]
        BY <2>1
      <4> QED BY <1>2, <2>1, <2>3, <3>2, <4>1
    <3> QED BY <3>1, <3>2
  <2>7. \A m \in Models : IsTold(snapshot[s][m], answer[s], m, H)
    BY <1>2, <2>3
  <2> HIDE DEF H
  <2>8. \A m \in Models : IsTold(Merged(snapshot[s], answer[s][o])[m], answer[s], m, H \cup {o})
    <3>1. H \in SUBSET Sources
      BY DEF H
    <3> QED BY <1>2, <1>3, <2>2, <2>4, <2>7, <3>1, MergedIsTold
  <2>9. Told(s)'
    BY <2>1, <2>3, <2>8
  <2> QED BY <1>2, <2>1, <2>6, <2>9
<1> QED BY <1>4, <1>5, <1>6, <1>7, <1>8, <1>9, SyncMoves

\* Of any number of sources that answer in any order, some of them cut
\* short, and of any number of overlapping syncs: what a sync writes of a
\* model is what it was told of it, each field by the best source that says
\* anything of it, the names and sources of all.
THEOREM WritesTellTruth == Spec => WritesAreTold
<1> DEFINE AreTold ==
      \A m \in Models :
        registry'[m] # registry[m] /\ registry'[m] # NoDefinition
        => \E s \in Syncs : phase[s] = "upserting" /\ registry'[m] = Truth(answer[s], m)
<1>1. TypeOK /\ TruthInv /\ [Next]_vars => [AreTold]_vars
  <2> SUFFICES ASSUME TypeOK, TruthInv, Next, NEW m \in Models,
                      registry'[m] # registry[m], registry'[m] # NoDefinition
               PROVE  \E s \in Syncs : phase[s] = "upserting" /\ registry'[m] = Truth(answer[s], m)
    OBVIOUS
  <2>1. PICK s \in Syncs, n \in Models : Upsert(s, n) \/ Delete(s, n) \/ StoreError(s, n)
    BY DEF Next, WorkStep, FailStep, Release, Start, BeginMerge, Merge, List, BeginDelete,
           Finish, Collect, CollectError, Stop
  <2>2. /\ phase[s] \in {"upserting", "deleting"}
        /\ registry' = [registry EXCEPT ![n] = IF phase[s] = "deleting" THEN NoDefinition
                                              ELSE snapshot[s][n]]
    BY <2>1 DEF Upsert, Delete, StoreError
  <2>3. n = m /\ phase[s] = "upserting" /\ registry'[m] = snapshot[s][m]
    BY <2>2 DEF TypeOK, Offers
  <2>4. IsTold(snapshot[s][m], answer[s], m, Sources) /\ Tells(answer[s])
    BY <2>3 DEF TruthInv, SnapshotIsTold, AnswersAreOwn, Heard
  <2> QED BY <2>3, <2>4, ToldIsTruth
<1>2. Spec => [](TypeOK /\ TruthInv)
  <2>1. Init => TypeOK /\ TruthInv
    BY InitInv, TruthInit DEF IInv
  <2>2. TypeOK /\ TruthInv /\ [Next]_vars => (TypeOK /\ TruthInv)'
    BY TypeInductive, TruthStep
  <2> QED BY <2>1, <2>2, PTL DEF Spec
<1>3. WritesAreTold <=> [][AreTold]_vars
  BY DEF WritesAreTold
<1> HIDE DEF AreTold
<1> QED BY <1>1, <1>2, <1>3, PTL DEF Spec

-----------------------------------------------------------------------------
(***************************************************************************)
(* What the collectors make of the catalogs.  Items, and pages, are taken  *)
(* one by one; what is true before the first and stays true with each one  *)
(* more is true after the last, as no number of items is the least for     *)
(* which it is not.                                                        *)
(***************************************************************************)
LEMMA CountingUp ==
  ASSUME NEW N \in Nat, NEW T, 0 \in T, \A n \in 1 .. N : n - 1 \in T => n \in T
  PROVE  \A n \in 0 .. N : n \in T
<1> DEFINE R == {ss \in Nat \X Nat : ss[1] < ss[2]}
           B == {n \in 0 .. N : n \notin T}
<1>1. IsWellFoundedOn(R, Nat)
  BY NatLessThanWellFounded DEF OpToRel
<1>2. SUFFICES ASSUME B # {} PROVE FALSE
  OBVIOUS
<1>3. PICK n \in B : \A k \in B : ~ (<<k, n>> \in R)
  <2>1. B \in SUBSET Nat
    OBVIOUS
  <2> HIDE DEF R, B
  <2> QED BY <1>1, <1>2, <2>1, WFMin
<1>4. n \in 1 .. N /\ n \notin T
  BY <1>3
<1>5. n - 1 \in B
  BY <1>4
<1>6. <<n - 1, n>> \in R
  BY <1>4
<1> QED BY <1>3, <1>5, <1>6

\* g starts at x, and rule F[n] takes it from n - 1 to n; the rules keep to X.
Follows(g, F, x, N) == g[0] = x /\ \A n \in 1 .. N : g[n] = F[n][g[n - 1]]
KeepTo(X, F, N) == \A n \in 1 .. N : \A y \in X : F[n][y] \in X

\* A recursion over 0 .. N has a solution.
LEMMA RecursionHasSolution ==
  ASSUME NEW N \in Nat, NEW X, NEW x \in X, NEW F, KeepTo(X, F, N)
  PROVE  \E g \in [0 .. N -> X] : Follows(g, F, x, N)
<1> USE DEF KeepTo, Follows
<1> DEFINE Solves(g, m) == Follows(g, F, x, m)
           T == {m \in 0 .. N : \E g \in [0 .. m -> X] : Solves(g, m)}
<1>1. 0 \in T
  <2> DEFINE h == [n \in 0 .. 0 |-> x]
  <2>1. h \in [0 .. 0 -> X] /\ Solves(h, 0)
    OBVIOUS
  <2>2. 0 \in 0 .. N
    OBVIOUS
  <2> HIDE DEF h
  <2>3. \E g \in [0 .. 0 -> X] : Solves(g, 0)
    BY <2>1
  <2> QED BY <2>2, <2>3
<1>2. ASSUME NEW m \in 1 .. N, m - 1 \in T PROVE m \in T
  <2>1. PICK g \in [0 .. m - 1 -> X] : Solves(g, m - 1)
    BY <1>2
  <2> DEFINE h == [n \in 0 .. m |-> IF n = m THEN F[m][g[m - 1]] ELSE g[n]]
  <2>2. F[m][g[m - 1]] \in X
    BY <1>2
  <2>3. h \in [0 .. m -> X]
    BY <2>1, <2>2
  <2>4. h[0] = x
    BY <1>2, <2>1
  <2>5. ASSUME NEW n \in 1 .. m PROVE h[n] = F[n][h[n - 1]]
    <3>1. h[n - 1] = g[n - 1]
      BY <1>2
    <3>2. h[n] = F[n][g[n - 1]]
      BY <1>2, <2>1
    <3> QED BY <3>1, <3>2
  <2> HIDE DEF h
  <2>6. Solves(h, m)
    BY <2>4, <2>5
  <2>7. \E f \in [0 .. m -> X] : Solves(f, m)
    BY <2>3, <2>6
  <2>8. m \in 0 .. N
    OBVIOUS
  <2> QED BY <2>7, <2>8
<1>3. \A m \in 1 .. N : m - 1 \in T => m \in T
  BY <1>2
<1> HIDE DEF T
<1>4. \A m \in 0 .. N : m \in T
  BY <1>1, <1>3, CountingUp
<1>5. N \in T
  BY <1>4
<1> QED BY <1>5 DEF T

\* Pages put together.
LEMMA FlattenIsSeq ==
  ASSUME NEW S, NEW list \in Seq(Seq(S))
  PROVE  FlattenSeq(list) \in Seq(S)
<1> DEFINE N == Len(list)
           Rule(f) == f = [i \in 1 .. N |-> IF i = 1 THEN list[i] ELSE f[i - 1] \o list[i]]
<1>1. N \in Nat /\ \A i \in 1 .. N : list[i] \in Seq(S)
  OBVIOUS
<1>2. CASE N = 0
  <2>1. list = <<>> /\ FlattenSeq(list) = list
    BY <1>2 DEF FlattenSeq
  <2> QED BY <2>1, EmptySeq
<1>3. CASE N # 0
  <2> HIDE DEF N
  <2> DEFINE F == [n \in 1 .. N |-> [s \in Seq(S) |-> s \o list[n]]]
  <2>1. F \in [1 .. N -> [Seq(S) -> Seq(S)]]
    <3>1. \A n \in 1 .. N : \A s \in Seq(S) : s \o list[n] \in Seq(S)
      BY <1>1, ConcatProperties
    <3> QED BY <3>1
  <2>2. <<>> \in Seq(S)
    BY EmptySeq
  <2> HIDE DEF F
  <2>3. PICK g \in [0 .. N -> Seq(S)] : Follows(g, F, <<>>, N)
    <3>1. KeepTo(Seq(S), F, N)
      BY <2>1 DEF KeepTo
    <3> QED BY <1>1, <2>2, <3>1, RecursionHasSolution
  <2>4. \A n \in 1 .. N : g[n - 1] \in Seq(S) /\ g[n] = g[n - 1] \o list[n]
    <3>1. \A n \in 1 .. N : n - 1 \in 0 .. N
      BY <1>1
    <3> QED BY <2>3, <3>1 DEF F, Follows
  <2> DEFINE h == [i \in 1 .. N |-> g[i]]
  <2>5. Rule(h)
    <3>1. ASSUME NEW i \in 1 .. N
          PROVE  h[i] = IF i = 1 THEN list[i] ELSE h[i - 1] \o list[i]
      <4>1. CASE i = 1
        <5>1. g[1] = g[0] \o list[1]
          <6>1. i - 1 = 0
            BY <4>1
          <6>2. g[i] = g[i - 1] \o list[i]
            BY <2>4
          <6> QED BY <4>1, <6>1, <6>2
        <5>2. g[1] = list[1]
          BY <5>1, <1>1, <2>3, <4>1, ConcatEmptySeq DEF Follows
        <5> QED BY <4>1, <5>2
      <4>2. CASE i # 1
        <5>1. i - 1 \in 1 .. N
          BY <1>1, <4>2
        <5>2. g[i] = g[i - 1] \o list[i]
          BY <2>4
        <5>3. h[i] = g[i] /\ h[i - 1] = g[i - 1]
          BY <5>1
        <5> QED BY <4>2, <5>2, <5>3
      <4> QED BY <4>1, <4>2
    <3>2. h = [i \in 1 .. N |-> IF i = 1 THEN list[i] ELSE h[i - 1] \o list[i]]
      <4> DEFINE H == [i \in 1 .. N |-> IF i = 1 THEN list[i] ELSE h[i - 1] \o list[i]]
      <4>1. \A i \in 1 .. N : h[i] = H[i]
        BY <3>1
      <4>2. DOMAIN h = 1 .. N /\ DOMAIN H = 1 .. N /\ h = [i \in 1 .. N |-> h[i]] /\ H = [i \in 1 .. N |-> H[i]]
        OBVIOUS
      <4> HIDE DEF h, H
      <4>3. h = H
        BY <4>1, <4>2
      <4> QED BY <4>3 DEF H
    <3> HIDE DEF h
    <3> QED BY <3>2
  <2>6. PICK k : k = CHOOSE f : Rule(f)
    OBVIOUS
  <2>7. Rule(k)
    <3> HIDE DEF Rule, h
    <3>1. \E f : Rule(f)
      BY <2>5
    <3>2. Rule(CHOOSE f : Rule(f))
      BY <3>1
    <3> QED BY <2>6, <3>2
  <2>8. FlattenSeq(list) = k[N]
    BY <1>3, <2>6, Zenon DEF FlattenSeq, N
  <2>9. \A i \in 1 .. N : k[i] = IF i = 1 THEN list[i] ELSE k[i - 1] \o list[i]
    BY <2>7, Zenon
  <2> DEFINE T == {i \in Nat : i \in 1 .. N => k[i] \in Seq(S)}
  <2>10. 0 \in T
    BY <1>1
  <2>11. ASSUME NEW i \in 1 .. N, i - 1 \in T PROVE i \in T
    <3>1. CASE i = 1
      <4>1. k[i] \in Seq(S)
        BY <1>1, <2>9, <3>1
      <4> QED BY <4>1, <1>1
    <3>2. CASE i # 1
      <4>1. k[i - 1] \in Seq(S) /\ list[i] \in Seq(S)
        BY <1>1, <2>11, <3>2
      <4>2. k[i] = k[i - 1] \o list[i]
        BY <2>9, <3>2
      <4>3. k[i] \in Seq(S)
        BY <4>1, <4>2, ConcatProperties
      <4> QED BY <1>1, <4>3
    <3> QED BY <3>1, <3>2
  <2>12. \A i \in 1 .. N : i - 1 \in T => i \in T
    BY <2>11
  <2> HIDE DEF T
  <2>13. \A i \in 0 .. N : i \in T
    BY <1>1, <2>10, <2>12, CountingUp
  <2>14. N \in T
    BY <1>1, <2>13
  <2> QED BY <1>1, <1>3, <2>8, <2>14 DEF T
<1> QED BY <1>2, <1>3

\* Item i of o's catalog is about model m.
IsOf(o, i, m) == Usable(o, i) /\ ModelOf(o, i) = m

\* Names an item gives to its model.
NamesOf(o, i) == {Slug(i.name)} \cup SlugAlias(o, i)

\* No candidate for m, or one.
CandidateSets(o, m, I) ==
  {C \in SUBSET [lead : {i \in I : IsOf(o, i, m)}, entry : {d \in Definitions : d.sources = {o}}] :
     \A c, d \in C : c = d}

\* One more item is read.
Taken(o, m, i, C) ==
  IF ~ Usable(o, i) \/ ModelOf(o, i) # m THEN C
  ELSE IF C = {} THEN {[lead |-> i, entry |-> Definition(o, i)]}
  ELSE IF o \in Routers THEN {MergeRouted(o, c, i) : c \in C}
  ELSE C

\* Every candidate of C bears these names.
Bears(C, m, names) == C # {} /\ \A c \in C : names \subseteq {m[2]} \cup c.entry.aliases

\* k[n] is what comes of the first n items.
Reads(k, o, items, m) ==
  /\ k[0] = {}
  /\ \A n \in 1 .. Len(items) : k[n] = Taken(o, m, items[n], k[n - 1])
  /\ MergeItems(o, items, m) = k[Len(items)]

LEMMA ItemIsDefinition ==
  ASSUME NEW o \in Sources, NEW I, AreItems(I), NEW i \in I
  PROVE  /\ Definition(o, i) \in Definitions
         /\ Definition(o, i).sources = {o}
         /\ NamesOf(o, i) \subseteq {ModelOf(o, i)[2]} \cup Definition(o, i).aliases
<1> DEFINE C == Canonical(Slug(i.name))
<1>1. i.says \in [Fields -> Values \cup {Unset}] /\ AliasesOf(i.name) \cup ({i.slug.name} \ {C}) \subseteq Aliases
  BY DEF AreItems
<1>2. SlugAlias(o, i) \subseteq {i.slug.name} \ {C}
  BY DEF SlugAlias
<1>3. AliasesOf(i.name) = {Slug(i.name)} \ {C} /\ ModelOf(o, i)[2] = C
  BY DEF AliasesOf, ModelOf
<1> HIDE DEF C
<1>4. AliasesOf(i.name) \cup SlugAlias(o, i) \in SUBSET Aliases /\ {o} \in SUBSET Sources
  BY <1>1, <1>2
<1>5. NamesOf(o, i) \subseteq {C} \cup (AliasesOf(i.name) \cup SlugAlias(o, i))
  BY <1>3 DEF NamesOf
<1> QED BY <1>1, <1>3, <1>4, <1>5 DEF Definition, Definitions

\* What is read stays a candidate and keeps its names, and is given those of
\* the items that are merged into it.
LEMMA TakenIsCandidate ==
  ASSUME NEW o \in Sources, NEW I, AreItems(I), NEW i \in I, NEW m, NEW C \in CandidateSets(o, m, I)
  PROVE  /\ Taken(o, m, i, C) \in CandidateSets(o, m, I)
         /\ Taken(o, m, i, C) # {} <=> C # {} \/ IsOf(o, i, m)
         /\ \A names : Bears(C, m, names) => Bears(Taken(o, m, i, C), m, names)
         /\ IsOf(o, i, m) /\ (C = {} \/ o \in Routers) => Bears(Taken(o, m, i, C), m, NamesOf(o, i))
<1> DEFINE D == Definition(o, i)
<1>1. D \in Definitions /\ D.sources = {o} /\ NamesOf(o, i) \subseteq {ModelOf(o, i)[2]} \cup D.aliases
  BY ItemIsDefinition
<1> HIDE DEF D
<1>2. CASE ~ IsOf(o, i, m)
  BY <1>2 DEF IsOf, Taken
<1>3. CASE IsOf(o, i, m) /\ C = {}
  <2>1. Taken(o, m, i, C) = {[lead |-> i, entry |-> D]}
    BY <1>3 DEF IsOf, Taken, D
  <2>2. ModelOf(o, i) = m
    BY <1>3 DEF IsOf
  <2>3. IsOf(o, i, m) /\ D \in {d \in Definitions : d.sources = {o}}
    BY <1>1, <1>3
  <2>4. Taken(o, m, i, C) \in CandidateSets(o, m, I)
    BY <2>1, <2>3 DEF CandidateSets
  <2>5. Bears(Taken(o, m, i, C), m, NamesOf(o, i))
    BY <1>1, <2>1, <2>2 DEF Bears
  <2>6. \A names : ~ Bears(C, m, names)
    BY <1>3 DEF Bears
  <2> QED BY <1>3, <2>1, <2>4, <2>5, <2>6
<1>4. CASE IsOf(o, i, m) /\ C # {} /\ o \notin Routers
  BY <1>4 DEF IsOf, Taken
<1>5. CASE IsOf(o, i, m) /\ C # {} /\ o \in Routers
  <2>1. PICK c \in C : C = {c}
    BY <1>5 DEF CandidateSets
  <2> DEFINE r == MergeRouted(o, c, i)
  <2>2. Taken(o, m, i, C) = {r}
    <3>1. Taken(o, m, i, C) = {MergeRouted(o, e, i) : e \in C}
      BY <1>5 DEF IsOf, Taken
    <3> QED BY <2>1, <3>1
  <2>3. /\ c.lead \in I /\ IsOf(o, c.lead, m)
        /\ c.entry \in Definitions /\ c.entry.sources = {o}
    BY <2>1 DEF CandidateSets
  <2>4. \/ r = [lead |-> i, entry |-> Filled(D, c.entry)]
        \/ r = [lead |-> c.lead, entry |-> Filled(c.entry, D)]
    BY DEF MergeRouted, D
  <2> HIDE DEF r
  <2>5. ASSUME NEW p \in Definitions, NEW q \in Definitions, p.sources = {o}, q.sources = {o}
        PROVE  /\ Filled(p, q) \in Definitions /\ Filled(p, q).sources = {o}
               /\ Filled(p, q).aliases = p.aliases \cup q.aliases
    BY <2>5, FilledIsDefinition DEF Filled
  <2>6. r.lead \in I /\ IsOf(o, r.lead, m)
    BY <1>5, <2>3, <2>4
  <2>7. /\ r.entry \in Definitions /\ r.entry.sources = {o}
        /\ r.entry.aliases = D.aliases \cup c.entry.aliases
    BY <1>1, <2>3, <2>4, <2>5
  <2>8. r = [lead |-> r.lead, entry |-> r.entry]
    BY <2>4
  <2>9. Taken(o, m, i, C) \in CandidateSets(o, m, I)
    BY <2>2, <2>6, <2>7, <2>8 DEF CandidateSets
  <2>10. \A names : Bears(C, m, names) => Bears(Taken(o, m, i, C), m, names)
    BY <2>1, <2>2, <2>7 DEF Bears
  <2>11. ModelOf(o, i) = m
    BY <1>5 DEF IsOf
  <2>12. Bears(Taken(o, m, i, C), m, NamesOf(o, i))
    BY <1>1, <2>2, <2>7, <2>11 DEF Bears
  <2> QED BY <1>5, <2>2, <2>9, <2>10, <2>12
<1> QED BY <1>2, <1>3, <1>4, <1>5

\* MergeItems takes item after item.
LEMMA ItemsOneByOne ==
  ASSUME NEW o \in Sources, NEW I, AreItems(I), NEW items \in Seq(I), NEW m
  PROVE  \E k \in [0 .. Len(items) -> CandidateSets(o, m, I)] : Reads(k, o, items, m)
<1> DEFINE N == Len(items)
           X == CandidateSets(o, m, I)
           Rule(f) == f = [n \in 0 .. N |->
                             IF n = 0 THEN {}
                             ELSE IF ~ Usable(o, items[n]) \/ ModelOf(o, items[n]) # m THEN f[n - 1]
                             ELSE IF f[n - 1] = {} THEN {[lead |-> items[n], entry |-> Definition(o, items[n])]}
                             ELSE IF o \in Routers THEN {MergeRouted(o, c, items[n]) : c \in f[n - 1]}
                             ELSE f[n - 1]]
           Steps(f) == f = [n \in 0 .. N |-> IF n = 0 THEN {} ELSE Taken(o, m, items[n], f[n - 1])]
           F == [n \in 1 .. N |-> [C \in X |-> Taken(o, m, items[n], C)]]
<1>1. N \in Nat /\ \A n \in 1 .. N : items[n] \in I
  OBVIOUS
<1>2. MergeItems(o, items, m) = (CHOOSE f : Rule(f))[N]
  BY Zenon DEF MergeItems
<1>3. \A f : Rule(f) <=> Steps(f)
  BY DEF Taken
<1>4. {} \in X
  BY DEF CandidateSets
<1>5. \A n \in 1 .. N : \A C \in X : Taken(o, m, items[n], C) \in X
  BY <1>1, TakenIsCandidate
<1> HIDE DEF N, X, Rule
<1>6. KeepTo(X, F, N)
  BY <1>5 DEF KeepTo
<1>7. PICK g \in [0 .. N -> X] : Follows(g, F, {}, N)
  BY <1>1, <1>4, <1>6, RecursionHasSolution
<1>8. \A n \in 1 .. N : n - 1 \in 0 .. N /\ n \in 0 .. N
  BY <1>1
<1>9. g[0] = {} /\ \A n \in 1 .. N : g[n] = Taken(o, m, items[n], g[n - 1])
  BY <1>7, <1>8 DEF Follows
<1>10. Steps(g)
  <2> DEFINE G == [n \in 0 .. N |-> IF n = 0 THEN {} ELSE Taken(o, m, items[n], g[n - 1])]
  <2>1. \A n \in 0 .. N : n = 0 \/ n \in 1 .. N
    BY <1>1
  <2>2. \A n \in 0 .. N : g[n] = G[n]
    BY <1>9, <2>1
  <2>3. DOMAIN G = 0 .. N /\ G = [n \in 0 .. N |-> G[n]]
    OBVIOUS
  <2> HIDE DEF G
  <2>4. g = G
    BY <2>2, <2>3
  <2> QED BY <2>4 DEF G
<1>11. PICK k : k = CHOOSE f : Rule(f)
  OBVIOUS
<1>12. Steps(k)
  <2>1. Rule(g)
    BY <1>3, <1>10
  <2>2. Rule(CHOOSE f : Rule(f))
    BY <2>1
  <2> QED BY <1>3, <1>11, <2>2
<1>13. /\ DOMAIN k = 0 .. N /\ k = [n \in 0 .. N |-> k[n]] /\ k[0] = {}
       /\ \A n \in 1 .. N : k[n] = Taken(o, m, items[n], k[n - 1])
  <2>1. 0 \in 0 .. N /\ \A n \in 1 .. N : n \in 0 .. N /\ n # 0
    BY <1>1
  <2> QED BY <1>12, <2>1
<1> DEFINE T == {n \in Nat : n \in 0 .. N => k[n] \in X}
<1>14. 0 \in T
  BY <1>4, <1>13
<1>15. \A n \in 1 .. N : n - 1 \in T => n \in T
  <2>1. ASSUME NEW n \in 1 .. N, n - 1 \in T PROVE n \in T
    <3>1. k[n - 1] \in X
      BY <1>8, <2>1
    <3>2. k[n] \in X
      BY <1>5, <1>13, <3>1
    <3> QED BY <1>1, <3>2
  <2> HIDE DEF T
  <2> QED BY <2>1
<1> HIDE DEF T
<1>16. \A n \in 0 .. N : n \in T
  BY <1>1, <1>14, <1>15, CountingUp
<1>17. k \in [0 .. N -> X]
  <2>1. \A n \in 0 .. N : k[n] \in X
    BY <1>16 DEF T
  <2> QED BY <1>13, <2>1
<1>18. MergeItems(o, items, m) = k[N]
  BY <1>2, <1>11
<1> QED BY <1>13, <1>17, <1>18 DEF N, X, Reads

LEMMA DefaultedIsDefinition ==
  ASSUME Default \in Values \cup {Unset}, NEW d \in Definitions
  PROVE  /\ WithDefaults(d) \in Definitions
         /\ WithDefaults(d).aliases = d.aliases /\ WithDefaults(d).sources = d.sources
BY DEF WithDefaults, Definitions

\* What a collector makes of items in any order may be said by its source.
LEMMA NormalizedIsSayable ==
  ASSUME Managed = ManagedVendors, NoVendor \notin ManagedVendors,
         Default \in Values \cup {Unset},
         NEW o \in Sources, NEW I, AreItems(I), NEW items \in Seq(I)
  PROVE  Normalized(o, items, Models, NoDefinition) \in SayableBy(o)
<1> DEFINE f == Normalized(o, items, Models, NoDefinition)
<1>1. ASSUME NEW m \in Models, f[m] # NoDefinition
      PROVE  f[m] \in Definitions /\ f[m].sources = {o} /\ m[1] \in Managed
  <2> DEFINE C == MergeItems(o, items, m)
  <2>1. f[m] = IF C = {} THEN NoDefinition ELSE WithDefaults((CHOOSE c \in C : TRUE).entry)
    BY DEF Normalized
  <2>2. C \in CandidateSets(o, m, I)
    <3>1. Len(items) \in 0 .. Len(items)
      OBVIOUS
    <3> QED BY <3>1, ItemsOneByOne DEF Reads
  <2> HIDE DEF f, C
  <2>3. PICK c \in C : f[m] = WithDefaults(c.entry)
    BY <1>1, <2>1
  <2>4. /\ c.lead \in I /\ IsOf(o, c.lead, m)
        /\ c.entry \in Definitions /\ c.entry.sources = {o}
    BY <2>2, <2>3 DEF CandidateSets
  <2>5. f[m] \in Definitions /\ f[m].sources = {o}
    BY <2>3, <2>4, DefaultedIsDefinition
  <2>6. VendorOf(o, c.lead) \in ManagedVendors
    BY <2>4 DEF IsOf, Usable, VendorOf, ResolveVendor
  <2>7. m[1] = VendorOf(o, c.lead)
    BY <2>4 DEF IsOf, ModelOf
  <2> QED BY <2>5, <2>6, <2>7
<1>2. DOMAIN f = Models /\ f = [m \in Models |-> f[m]]
  BY DEF Normalized
<1> HIDE DEF f
<1>3. f \in Offers
  BY <1>1, <1>2 DEF Offers
<1> QED BY <1>1, <1>3 DEF SayableBy, Sayable, f

\* Whatever a source publishes, in whichever order its pages arrive and
\* whichever of them fail, what its collector makes of it is what a sync takes
\* for granted: well-formed definitions of managed vendors' models, with no
\* other source to their name (normalize.go and vendorSupportDefinitionCandidate
\* against what SyncNow merges).
THEOREM CatalogsAreSayable ==
  ASSUME Managed = ManagedVendors, NoVendor \notin ManagedVendors,
         Default \in Values \cup {Unset},
         NEW o \in Sources, NEW I, AreItems(I),
         NEW pages, \A a \in DOMAIN pages : pages[a] \in Seq(I), IsFiniteSet(DOMAIN pages)
  PROVE  ToldOf(o, pages, Models, NoDefinition) \cup CutShort(o, pages, Models, NoDefinition)
           \subseteq SayableBy(o)
<1>1. ASSUME NEW authors \in SUBSET DOMAIN pages, NEW items \in PageOrders(pages, authors)
      PROVE  Normalized(o, items, Models, NoDefinition) \in SayableBy(o)
  <2>1. PICK order \in SetToSeqs(authors) :
          items = FlattenSeq([i \in DOMAIN order |-> pages[order[i]]])
    BY DEF PageOrders
  <2>2. order \in [1 .. Cardinality(authors) -> authors]
    BY <2>1 DEF SetToSeqs
  <2>3. Cardinality(authors) \in Nat
    BY FS_Subset, FS_CardinalityType
  <2> DEFINE list == [i \in DOMAIN order |-> pages[order[i]]]
  <2>4. list \in Seq(Seq(I))
    <3>1. list = [i \in 1 .. Cardinality(authors) |-> pages[order[i]]]
      BY <2>2
    <3>2. \A i \in 1 .. Cardinality(authors) : pages[order[i]] \in Seq(I)
      BY <2>2
    <3> QED BY <2>3, <3>1, <3>2
  <2>5. items \in Seq(I)
    BY <2>1, <2>4, FlattenIsSeq
  <2> QED BY <2>5, NormalizedIsSayable
<1>2. Asked(o, pages) \in SUBSET DOMAIN pages
  BY DEF Asked
<1> QED BY <1>1, <1>2 DEF ToldOf, CutShort

\* No model a source publishes is lost on the way and no other appears, and
\* its entry bears every name it is published under: the canonical slugs and
\* release names of every item of a router, those of the first item otherwise
\* (MergeItems, BuildExternalAliases; "aliases are united" in mergeDefinitions).
THEOREM PublishedIsTold ==
  ASSUME NoDefinition \notin Definitions, Default \in Values \cup {Unset},
         NEW o \in Sources, NEW I, AreItems(I), NEW items \in Seq(I), NEW m \in Models
  PROVE  LET d  == Normalized(o, items, Models, NoDefinition)[m]
             at == {n \in DOMAIN items : IsOf(o, items[n], m)}
         IN  /\ d # NoDefinition <=> at # {}
             /\ \A n \in at : o \in Routers \/ (\A j \in at : n <= j)
                                => NamesOf(o, items[n]) \subseteq {m[2]} \cup d.aliases
<1> DEFINE N == Len(items)
           d == Normalized(o, items, Models, NoDefinition)[m]
           at == {n \in DOMAIN items : IsOf(o, items[n], m)}
           C == MergeItems(o, items, m)
<1>1. N \in Nat /\ DOMAIN items = 1 .. N /\ \A n \in 1 .. N : items[n] \in I
  OBVIOUS
<1>2. PICK k \in [0 .. N -> CandidateSets(o, m, I)] : Reads(k, o, items, m)
  BY ItemsOneByOne
<1>3. d = IF C = {} THEN NoDefinition ELSE WithDefaults((CHOOSE c \in C : TRUE).entry)
  BY DEF Normalized
<1> HIDE DEF N, d, C
<1>4. \A n \in 1 .. N :
        /\ items[n] \in I /\ n - 1 \in 0 .. N /\ n \in 0 .. N
        /\ k[n - 1] \in CandidateSets(o, m, I) /\ k[n] = Taken(o, m, items[n], k[n - 1])
  BY <1>1, <1>2 DEF Reads, N
<1>5. k[0] = {} /\ C = k[N] /\ C \in CandidateSets(o, m, I)
  BY <1>1, <1>2 DEF Reads, N, C
<1>6. C # {} => \E c \in C : c.entry \in Definitions /\ d = WithDefaults(c.entry)
  BY <1>3, <1>5 DEF CandidateSets
<1>7. /\ d # NoDefinition <=> C # {}
      /\ \A names : Bears(C, m, names) => names \subseteq {m[2]} \cup d.aliases
  BY <1>3, <1>6, DefaultedIsDefinition DEF Bears
\* A candidate is there from the first item that is of m on.
<1> DEFINE Found == {n \in 0 .. N : k[n] # {} <=> \E j \in at : j <= n}
<1>8. 0 \in Found
  BY <1>1, <1>5
<1>9. \A n \in 1 .. N : n - 1 \in Found => n \in Found
  <2>1. ASSUME NEW n \in 1 .. N, n - 1 \in Found PROVE n \in Found
    <3>1. k[n] # {} <=> k[n - 1] # {} \/ n \in at
      <4>1. k[n] # {} <=> k[n - 1] # {} \/ IsOf(o, items[n], m)
        BY <1>4, TakenIsCandidate
      <4> QED BY <1>1, <4>1
    <3>2. (\E j \in at : j <= n) <=> (\E j \in at : j <= n - 1) \/ n \in at
      BY <1>1
    <3> QED BY <1>4, <2>1, <3>1, <3>2
  <2> QED BY <2>1
<1>10. \A n \in 0 .. N : n \in Found
  <2> HIDE DEF Found
  <2> QED BY <1>1, <1>8, <1>9, CountingUp
<1>11. C # {} <=> at # {}
  BY <1>1, <1>5, <1>10
\* What it is called once, it is called to the end.
<1>12. ASSUME NEW n \in at, o \in Routers \/ (\A j \in at : n <= j)
       PROVE  NamesOf(o, items[n]) \subseteq {m[2]} \cup d.aliases
  <2> DEFINE names == NamesOf(o, items[n])
             Kept == {j \in 0 .. N : n <= j => Bears(k[j], m, names)}
  <2>1. n \in 1 .. N /\ IsOf(o, items[n], m)
    BY <1>1
  <2>2. Bears(k[n], m, names)
    <3>1. k[n - 1] = {} \/ o \in Routers
      BY <1>1, <1>4, <1>10, <1>12, <2>1
    <3> QED BY <1>4, <2>1, <3>1, TakenIsCandidate
  <2> HIDE DEF names
  <2>3. 0 \in Kept
    BY <1>1, <2>1
  <2>4. \A j \in 1 .. N : j - 1 \in Kept => j \in Kept
    <3>1. ASSUME NEW j \in 1 .. N, j - 1 \in Kept, n <= j PROVE Bears(k[j], m, names)
      <4>1. CASE n = j
        BY <2>2, <4>1
      <4>2. CASE n # j
        <5>1. Bears(k[j - 1], m, names)
          BY <1>1, <2>1, <3>1, <4>2
        <5> QED BY <1>4, <5>1, TakenIsCandidate
      <4> QED BY <4>1, <4>2
    <3> QED BY <1>4, <3>1
  <2>5. \A j \in 0 .. N : j \in Kept
    <3> HIDE DEF Kept
    <3> QED BY <1>1, <2>3, <2>4, CountingUp
  <2>6. Bears(C, m, names)
    BY <1>1, <1>5, <2>1, <2>5
  <2> QED BY <1>7, <2>6 DEF names
<1> HIDE DEF at
<1>13. /\ d # NoDefinition <=> at # {}
       /\ \A n \in at : o \in Routers \/ (\A j \in at : n <= j)
                          => NamesOf(o, items[n]) \subseteq {m[2]} \cup d.aliases
  BY <1>7, <1>11, <1>12
<1> QED BY <1>13 DEF d, at

=============================================================================
