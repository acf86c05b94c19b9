------------------------------ MODULE ModelSync ------------------------------
(***************************************************************************)
(* The model definition sync: DefinitionSyncReconciler.SyncNow, which asks *)
(* every definition source at once, merges what they answer into one       *)
(* snapshot and brings the model registry in line with it, one             *)
(* transaction per model.  The schedule's workflow, the manual workflow    *)
(* and the gRPC call do not exclude each other, so several syncs may run.  *)
(*                                                                         *)
(* An upsert or delete is one step here, which ModelRegistry shows it is;  *)
(* generations and events are left to that module.                         *)
(***************************************************************************)
EXTENDS DefinitionMerge, FiniteSets

CONSTANTS
  Models,       \* <<vendor, model id>>, offered now, once or never
  Place,        \* Place[m]: where m comes in key order
  Managed,      \* vendors registered and not a preset source of models
  Catalogs,     \* Catalogs[o]: what source o may publish; a record of what
                \* its collector may make of it all, told, and of a part, cut
  Leftovers,    \* registry contents earlier syncs may have left
  NoDefinition, \* the model is not offered, or there is no row
  Syncs,        \* sync calls that may run at the same time
  MaxReleases,  \* bound: changes of what the sources offer
  MaxFailures   \* bound: failed answers, transactions and calls

Offers == [Models -> Definitions \cup {NoDefinition}]

Nothing == [m \in Models |-> NoDefinition]
NoAnswers == [o \in Sources |-> Nothing]

\* Sources speak of managed vendors only: others do not resolve.
Sayable == {f \in Offers : \A m \in Models : m[1] \notin Managed => f[m] = NoDefinition}

\* What source o may say: its definitions are its own.
SayableBy(o) ==
  {f \in Sayable : \A m \in Models : f[m] # NoDefinition => f[m].sources = {o}}

ASSUME ModelSyncAssumption ==
  /\ Place \in [Models -> Nat]
  /\ Authority \in [Sources -> Nat]
  /\ \A o, p \in Sources : Authority[o] = Authority[p] => o = p
  /\ \A o \in Sources : \A c \in Catalogs[o] : c.told \cup c.cut \subseteq SayableBy(o)
  /\ Leftovers \subseteq Offers
  /\ NoDefinition \notin Definitions
  /\ MaxReleases \in Nat
  /\ MaxFailures \in Nat

VARIABLES
  offers,    \* offers[o]: the catalog of source o now
  releases,  \* how often one changed
  failures,  \* how often something failed
  registry,  \* registry[m]: the entry of m
  phase,     \* phase[s]: where sync s stands
  answer,    \* answer[s][o]: what the collector of source o told s
  snapshot,  \* snapshot[s]: the answers merged so far
  todo,      \* todo[s]: sources to hear or to merge, or models to upsert or delete
  listed     \* listed[s]: models the registry had when s listed it

worldVars == <<offers, releases>>
syncVars == <<phase, answer, snapshot, todo, listed>>
vars == <<worldVars, failures, registry, syncVars>>

TypeOK ==
  /\ DOMAIN offers = Sources
  /\ \A o \in Sources : offers[o].told \cup offers[o].cut \subseteq SayableBy(o)
  /\ releases \in 0 .. MaxReleases
  /\ failures \in 0 .. MaxFailures
  /\ registry \in Offers
  /\ phase \in [Syncs -> {"idle", "collecting", "merging", "upserting", "deleting"}]
  /\ answer \in [Syncs -> [Sources -> Sayable]]
  /\ snapshot \in [Syncs -> Sayable]
  /\ todo \in [Syncs -> SUBSET (Sources \cup Models)]
  /\ listed \in [Syncs -> SUBSET Models]
  /\ \A s \in Syncs :
       todo[s] \subseteq IF phase[s] \in {"collecting", "merging"} THEN Sources ELSE Models

\* Whatever earlier syncs left, of vendors still managed or not.
Init ==
  /\ offers \in {f \in [Sources -> UNION {Catalogs[o] : o \in Sources}] :
                   \A o \in Sources : f[o] \in Catalogs[o]}
  /\ releases = 0
  /\ failures = 0
  /\ registry \in Leftovers
  /\ phase = [s \in Syncs |-> "idle"]
  /\ answer = [s \in Syncs |-> NoAnswers]
  /\ snapshot = [s \in Syncs |-> Nothing]
  /\ todo = [s \in Syncs |-> {}]
  /\ listed = [s \in Syncs |-> {}]

-----------------------------------------------------------------------------
(* The merged snapshot.                                                    *)

Collected(f) == {m \in Models : f[m] # NoDefinition}

CollectedVendors(f) == {m[1] : m \in Collected(f)}

\* Mutation: a model two sources offer is as the one merged last has it.
MergedLastWins(f, g) == [m \in Models |-> IF g[m] = NoDefinition THEN f[m] ELSE g[m]]

\* mergeCollectedDefinitionsSnapshot, for answers that are valid
Merged(f, g) ==
  [m \in Models |-> IF f[m] = NoDefinition THEN g[m]
                    ELSE IF g[m] = NoDefinition THEN f[m]
                    ELSE MergeCollectedEntries(f[m], g[m])]

\* Mutation: an outage of all sources of a vendor does not keep its models.
KeepNone(f, vendor) == FALSE

\* shouldKeepManagedDefinition
ShouldKeep(f, vendor) == vendor \in Managed /\ vendor \notin CollectedVendors(f)

-----------------------------------------------------------------------------
\* Source o publishes another catalog.
Release(o) ==
  /\ releases < MaxReleases
  /\ \E c \in Catalogs[o] \ {offers[o]} : offers' = [offers EXCEPT ![o] = c]
  /\ releases' = releases + 1
  /\ UNCHANGED <<failures, registry, syncVars>>

\* A call ends, whatever way.
Done(s) ==
  /\ phase' = [phase EXCEPT ![s] = "idle"]
  /\ answer' = [answer EXCEPT ![s] = NoAnswers]
  /\ snapshot' = [snapshot EXCEPT ![s] = Nothing]
  /\ todo' = [todo EXCEPT ![s] = {}]
  /\ listed' = [listed EXCEPT ![s] = {}]

\* Without a managed vendor no source is asked.
Start(s) ==
  /\ phase[s] = "idle"
  /\ phase' = [phase EXCEPT ![s] = "collecting"]
  /\ todo' = [todo EXCEPT ![s] = IF Managed = {} THEN {} ELSE Sources]
  /\ UNCHANGED <<worldVars, failures, registry, answer, snapshot, listed>>

\* The collectors answer in any order.
Collect(s, o) ==
  /\ phase[s] = "collecting"
  /\ o \in todo[s]
  /\ \E f \in offers[o].told : answer' = [answer EXCEPT ![s][o] = f]
  /\ todo' = [todo EXCEPT ![s] = @ \ {o}]
  /\ UNCHANGED <<worldVars, failures, registry, phase, snapshot, listed>>

\* Something fails, for the bound.
Fail ==
  /\ failures < MaxFailures
  /\ failures' = failures + 1

\* An error or a timeout is logged and otherwise like an empty answer, or
\* a part of one from a source that is asked author by author.
CollectError(s, o) ==
  /\ Fail
  /\ phase[s] = "collecting"
  /\ o \in todo[s]
  /\ \E f \in offers[o].cut : answer' = [answer EXCEPT ![s][o] = f]
  /\ todo' = [todo EXCEPT ![s] = @ \ {o}]
  /\ UNCHANGED <<worldVars, registry, phase, snapshot, listed>>

\* All have answered, or none was asked.
BeginMerge(s) ==
  /\ phase[s] = "collecting"
  /\ todo[s] = {}
  /\ phase' = [phase EXCEPT ![s] = "merging"]
  /\ todo' = [todo EXCEPT ![s] = Sources]
  /\ UNCHANGED <<worldVars, failures, registry, answer, snapshot, listed>>

\* Sorted by authority, not by who answered first.
Merge(s, o) ==
  /\ phase[s] = "merging"
  /\ o \in todo[s]
  /\ \A p \in todo[s] : Authority[p] <= Authority[o]
  /\ snapshot' = [snapshot EXCEPT ![s] = Merged(@, answer[s][o])]
  /\ todo' = [todo EXCEPT ![s] = @ \ {o}]
  /\ UNCHANGED <<worldVars, failures, registry, phase, answer, listed>>

\* The registry is listed only now, after the sources have answered.
List(s) ==
  /\ phase[s] = "merging"
  /\ todo[s] = {}
  /\ phase' = [phase EXCEPT ![s] = "upserting"]
  /\ listed' = [listed EXCEPT ![s] = {m \in Models : registry[m] # NoDefinition}]
  /\ todo' = [todo EXCEPT ![s] = Collected(snapshot[s])]
  /\ UNCHANGED <<worldVars, failures, registry, answer, snapshot>>

\* Both loops go through the models in key order.
IsNext(s, m) == m \in todo[s] /\ \A n \in todo[s] : Place[m] <= Place[n]

\* Every collected model is upserted, changed or not, one transaction each.
Upsert(s, m) ==
  /\ phase[s] = "upserting"
  /\ IsNext(s, m)
  /\ registry' = [registry EXCEPT ![m] = snapshot[s][m]]
  /\ todo' = [todo EXCEPT ![s] = @ \ {m}]
  /\ UNCHANGED <<worldVars, failures, phase, answer, snapshot, listed>>

\* Listed models to delete.
Stale(s) == {m \in listed[s] \ Collected(snapshot[s]) : ~ ShouldKeep(snapshot[s], m[1])}

BeginDelete(s) ==
  /\ phase[s] = "upserting"
  /\ todo[s] = {}
  /\ phase' = [phase EXCEPT ![s] = "deleting"]
  /\ todo' = [todo EXCEPT ![s] = Stale(s)]
  /\ UNCHANGED <<worldVars, failures, registry, answer, snapshot, listed>>

\* Deleting a row that is gone already is no error.
Delete(s, m) ==
  /\ phase[s] = "deleting"
  /\ IsNext(s, m)
  /\ registry' = [registry EXCEPT ![m] = NoDefinition]
  /\ todo' = [todo EXCEPT ![s] = @ \ {m}]
  /\ UNCHANGED <<worldVars, failures, phase, answer, snapshot, listed>>

Finish(s) ==
  /\ phase[s] = "deleting"
  /\ todo[s] = {}
  /\ Done(s)
  /\ UNCHANGED <<worldVars, failures, registry>>

\* The first failing transaction ends the sync; it may have committed.
StoreError(s, m) ==
  /\ Fail
  /\ phase[s] \in {"upserting", "deleting"}
  /\ IsNext(s, m)
  /\ registry' \in {registry,
       [registry EXCEPT ![m] = IF phase[s] = "deleting" THEN NoDefinition
                               ELSE snapshot[s][m]]}
  /\ Done(s)
  /\ UNCHANGED worldVars

\* The vendors or the listing cannot be read, the activity times out, or
\* the process dies between two transactions.
Stop(s) ==
  /\ Fail
  /\ phase[s] # "idle"
  /\ Done(s)
  /\ UNCHANGED <<worldVars, registry>>

-----------------------------------------------------------------------------
WorkStep(s) ==
  \/ Start(s) \/ BeginMerge(s) \/ List(s) \/ BeginDelete(s) \/ Finish(s)
  \/ \E o \in Sources : Collect(s, o) \/ Merge(s, o)
  \/ \E m \in Models : Upsert(s, m) \/ Delete(s, m)

FailStep(s) ==
  \/ Stop(s)
  \/ \E o \in Sources : CollectError(s, o)
  \/ \E m \in Models : StoreError(s, m)

Next ==
  \/ \E o \in Sources : Release(o)
  \/ \E s \in Syncs : WorkStep(s) \/ FailStep(s)

Spec == Init /\ [][Next]_vars

\* The schedule keeps starting syncs, and every call in one returns.
Fairness == \A s \in Syncs : WF_vars(WorkStep(s) \/ FailStep(s))

FairSpec == Spec /\ Fairness

-----------------------------------------------------------------------------
\* A model of a managed vendor goes away only by a sync that was told of
\* other models of that vendor and of this one by nobody: neither an outage
\* of the vendor's sources, nor a crash, nor an overlap takes it away.
RemovalIsExplained ==
  [][\A m \in Models :
       /\ m[1] \in Managed
       /\ registry[m] # NoDefinition
       /\ registry'[m] = NoDefinition
       => \E s \in Syncs :
            /\ phase[s] = "deleting"
            /\ \A o \in Sources : answer[s][o][m] = NoDefinition
            /\ \E o \in Sources, n \in Models : n[1] = m[1] /\ answer[s][o][n] # NoDefinition]_vars

\* What the collectors of all sources may make of the catalogs.
Tellings ==
  {t \in [Sources -> UNION {offers[o].told : o \in Sources}] :
     \A o \in Sources : t[o] \in offers[o].told}

\* A telling of m as a whole: every field from the best source that says
\* anything of it, names and sources from all.
Truth(t, m) ==
  LET O == {o \in Sources : t[o][m] # NoDefinition}
      Say(f) == {o \in O : t[o][m].says[f] # Unset}
      Best(S) == CHOOSE o \in S : \A p \in S : Authority[p] <= Authority[o]
  IN  IF O = {} THEN NoDefinition
      ELSE [says    |-> [f \in Fields |-> IF Say(f) = {} THEN Unset
                                         ELSE t[Best(Say(f))][m].says[f]],
            aliases |-> UNION {t[o][m].aliases : o \in O},
            sources |-> UNION {t[o][m].sources : o \in O}]

\* What a sync writes of a model is, field by field, what the best of the
\* sources that answered it said of it, whoever answered first and whatever
\* another sync is told meanwhile.
WritesAreTold ==
  [][\A m \in Models :
       registry'[m] # registry[m] /\ registry'[m] # NoDefinition
       => \E s \in Syncs : phase[s] = "upserting" /\ registry'[m] = Truth(answer[s], m)]_vars

\* Models of other vendors are gone, and those of a managed vendor some
\* source speaks of are as the sources have them.
Agrees ==
  \A m \in Models :
    /\ m[1] \notin Managed => registry[m] = NoDefinition
    /\ (\E t \in Tellings, n \in Models : n[1] = m[1] /\ Truth(t, n) # NoDefinition)
         => \E t \in Tellings : registry[m] = Truth(t, m)

\* The registry comes to agree with the sources when they stop changing and
\* calls stop failing, whatever half-finished and overlapping syncs left.
RegistryCatchesUp == <>[]Agrees

=============================================================================
