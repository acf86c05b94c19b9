------------------------ MODULE ServiceStartupProofs ------------------------
(***************************************************************************)
(* Proofs about ServiceStartup, for any number of instances, releases,     *)
(* schema steps and sets.                                                  *)
(***************************************************************************)
EXTENDS ServiceStartup, SchemaMigrations, TLAPS

(***************************************************************************)
(* The inductive invariant.  An open migration sees all that is committed, *)
(* because it alone may commit (the lock), and what it sees is as whole as *)
(* the committed schema; whoever has come past its migration finds every   *)
(* version its release knows.  A loop's position tells which sets have     *)
(* been applied, and, of a set every loop is past, that one of them was    *)
(* the last to apply it.                                                   *)
(***************************************************************************)
DraftsAreWhole ==
  \A i \in Instances : stage[i] = "migrating" => Whole(draft[i].tables, draft[i].applied)

\* The versions of the first n steps.
VersionsUpTo(n) == {Steps[k].version : k \in 1 .. n}

DraftsAdvance ==
  \A i \in Instances :
    stage[i] = "migrating" =>
      \A k \in DOMAIN Steps : k < next[i] => Steps[k].version \in draft[i].applied

Past(i) == stage[i] \notin {"down", "locking", "migrating"}

PastIsMigrated ==
  \A i \in Instances :
    Past(i) => \A k \in DOMAIN Steps : k <= Known[release[i]] => Steps[k].version \in applied

RunsDeployed == \A i \in Instances : stage[i] # "down" => release[i] \in Deployed[i]

LoopsApply ==
  \A i \in Supports : \A n \in DOMAIN AccessSets :
    n < cursor[i]["access"] => egress[AccessSets[n]] # 0

LastIsRunning ==
  \A k \in Loops : \A n \in DOMAIN SetsOf(k) :
    /\ Supports # {}
    /\ \A i \in Supports : n < cursor[i][k]
    => \E i \in Supports : egress[SetsOf(k)[n]] = release[i]

StartupInv ==
  /\ TypeOK
  /\ RunsDeployed
  /\ SchemaIsWhole
  /\ DraftsAreWhole
  /\ MigrationsExclude
  /\ DraftsAdvance
  /\ PastIsMigrated
  /\ ScheduleOfRunningRelease
  /\ LoopsApply
  /\ LastIsRunning
  /\ RulesFindTheirProxy

-----------------------------------------------------------------------------
LEMMA StepsType ==
  /\ Len(Steps) \in Nat
  /\ DOMAIN Steps = 1 .. Len(Steps)
  /\ \A k \in DOMAIN Steps : Steps[k] \in [version : Nat, needs : SUBSET STRING,
                                           creates : SUBSET STRING, drops : SUBSET STRING]
<1> DEFINE R == [version : Nat, needs : SUBSET STRING,
                 creates : SUBSET STRING, drops : SUBSET STRING]
<1>1. Steps \in Seq(R)
  BY StepsAssumption, Zenon
<1> HIDE DEF R
<1>2. Len(Steps) \in Nat /\ DOMAIN Steps = 1 .. Len(Steps) /\ \A k \in DOMAIN Steps : Steps[k] \in R
  BY <1>1
<1> QED BY <1>2, Zenon DEF R

LEMMA SetsType ==
  ASSUME NEW k \in Loops
  PROVE  /\ Len(SetsOf(k)) \in Nat
         /\ DOMAIN SetsOf(k) = 1 .. Len(SetsOf(k))
         /\ Range(SetsOf(k)) \subseteq Sets
         /\ \A n \in DOMAIN SetsOf(k) : SetsOf(k)[n] \in Range(SetsOf(k))
<1>1. SetsOf(k) \in {AccessSets, TelemetrySets}
  BY DEF SetsOf
<1>2. SetsOf(k) \in Seq(Range(SetsOf(k)))
  BY <1>1, SetsAssumption
<1>3. Range(SetsOf(k)) \subseteq Sets
  BY <1>1 DEF Sets
<1>4. ASSUME NEW R, NEW s \in Seq(R)
      PROVE  Len(s) \in Nat /\ DOMAIN s = 1 .. Len(s) /\ \A n \in DOMAIN s : s[n] \in R
  OBVIOUS
<1> QED BY <1>2, <1>3, <1>4, Zenon

LEMMA DueIsStep ==
  ASSUME TypeOK, RunsDeployed, NEW i \in Instances, StepDue(i)
  PROVE  /\ next[i] \in DOMAIN Steps
         /\ stage[i] = "migrating"
         /\ release[i] \in Releases
         /\ Known[release[i]] \in Nat
<1>1. stage[i] = "migrating" /\ next[i] <= Known[release[i]] /\ next[i] \in Nat \ {0}
  BY DEF StepDue, TypeOK
<1>2. release[i] \in Releases
  BY <1>1, StartupAssumption DEF RunsDeployed
<1>3. Known[release[i]] \in Nat /\ Known[release[i]] <= Len(Steps)
  BY <1>2, StartupAssumption
<1> QED BY <1>1, <1>2, <1>3, StepsType

\* Running one more step keeps a schema whole.
LEMMA StepKeepsWhole ==
  ASSUME NEW T, NEW V, Whole(T, V), NEW n \in DOMAIN Steps
  PROVE  Whole((T \ Steps[n].drops) \cup Steps[n].creates, V \cup {Steps[n].version})
<1> DEFINE U == (T \ Steps[n].drops) \cup Steps[n].creates
           W == V \cup {Steps[n].version}
<1> SUFFICES ASSUME NEW m \in DOMAIN Steps
             PROVE  IF Steps[m].version \in W
                    THEN Steps[m].creates \subseteq U /\ Steps[m].drops \cap U = {}
                    ELSE Steps[m].creates \cap U = {}
  BY DEF Whole
<1>1. /\ Steps[m].creates \cap Steps[n].drops = {}
      /\ Steps[n].creates \cap Steps[m].drops = {}
      /\ Steps[n].creates \cap Steps[n].drops = {}
      /\ m # n => Steps[m].creates \cap Steps[n].creates = {}
      /\ m # n => Steps[m].version # Steps[n].version
  BY StepsAssumption
<1>2. IF Steps[m].version \in V
      THEN Steps[m].creates \subseteq T /\ Steps[m].drops \cap T = {}
      ELSE Steps[m].creates \cap T = {}
  BY DEF Whole
<1>3. CASE m = n
  BY <1>1, <1>2, <1>3
<1>4. CASE m # n
  BY <1>1, <1>2, <1>4
<1> QED BY <1>3, <1>4

\* So is what earlier releases left.
LEMMA SchemaAfterIsWhole ==
  ASSUME NEW n \in 0 .. Len(Steps), NEW T, T \subseteq Legacy
  PROVE  Whole(SchemaAfter(T, n).tables, SchemaAfter(T, n).applied)
<1> DEFINE U == (T \ UNION {Steps[k].drops : k \in 1 .. n})
                   \cup UNION {Steps[k].creates : k \in 1 .. n}
           W == VersionsUpTo(n)
<1>1. SchemaAfter(T, n).tables = U /\ SchemaAfter(T, n).applied = W
  BY DEF SchemaAfter, Schema, VersionsUpTo
<1>2. SUFFICES Whole(U, W)
  BY <1>1
<1> SUFFICES ASSUME NEW m \in DOMAIN Steps
             PROVE  IF Steps[m].version \in W
                    THEN Steps[m].creates \subseteq U /\ Steps[m].drops \cap U = {}
                    ELSE Steps[m].creates \cap U = {}
  BY DEF Whole
<1>3. \A k \in 1 .. n : k \in DOMAIN Steps
  BY StepsType
<1>4. Steps[m].version \in W <=> m \in 1 .. n
  BY <1>3, StepsAssumption DEF VersionsUpTo
<1>5. \A k \in 1 .. n : Steps[k].creates \cap Steps[m].drops = {}
                        /\ (k # m => Steps[m].creates \cap Steps[k].creates = {})
  BY <1>3, StepsAssumption
<1>6. Steps[m].creates \cap T = {}
  BY StepsAssumption
<1>7. CASE m \in 1 .. n
  BY <1>4, <1>5, <1>7
<1>8. CASE m \notin 1 .. n
  BY <1>4, <1>5, <1>6, <1>8
<1> QED BY <1>7, <1>8

-----------------------------------------------------------------------------
LEMMA TypeInit == Init => TypeOK /\ RunsDeployed
<1> SUFFICES ASSUME Init PROVE TypeOK /\ RunsDeployed
  OBVIOUS
<1>1. PICK n \in 0 .. Len(Steps), T \in {{}, Legacy} :
        tables = SchemaAfter(T, n).tables /\ applied = SchemaAfter(T, n).applied
  BY DEF Init
<1>2. \A k \in 1 .. n : k \in DOMAIN Steps
  BY StepsType
<1>3. \A k \in 1 .. n : Steps[k].creates \subseteq Tables /\ Steps[k].version \in Versions
  BY <1>2 DEF Tables, Versions
<1>6. T \subseteq Tables
  BY DEF Tables
<1>7. /\ tables = (T \ UNION {Steps[k].drops : k \in 1 .. n})
                     \cup UNION {Steps[k].creates : k \in 1 .. n}
       /\ applied = {Steps[k].version : k \in 1 .. n}
  BY <1>1 DEF SchemaAfter, Schema
<1>8. tables \in SUBSET Tables /\ applied \in SUBSET Versions
  BY <1>3, <1>6, <1>7
<1>4. draft \in [Instances -> [tables : SUBSET Tables, applied : SUBSET Versions]]
  BY DEF Init, NoDraft, Schema
<1>5. /\ cursor \in [Supports -> [Loops -> Nat]]
      /\ \A i \in Supports, k \in Loops : cursor[i][k] = 0
  BY DEF Init
<1> QED BY <1>8, <1>4, <1>5, StartupAssumption DEF Init, TypeOK, RunsDeployed, Stages, Instances

\* One lemma for each group of actions; the rest of Next only starts or ends
\* an instance.
LEMMA TypeDatabase ==
  ASSUME TypeOK, RunsDeployed, NEW i \in Instances,
         Lock(i) \/ SkipStep(i) \/ RunStep(i) \/ CommitMigration(i)
  PROVE  TypeOK' /\ RunsDeployed'
<1> USE StartupAssumption DEF egressVars
<1>1. CASE Lock(i)
  <2>1. draft' \in [Instances -> [tables : SUBSET Tables, applied : SUBSET Versions]]
    BY <1>1 DEF Lock, TypeOK, Schema
  <2>2. /\ stage' \in [Instances -> Stages]
        /\ \A j \in Instances : lockOwner' = j <=> stage'[j] = "migrating"
    BY <1>1 DEF Lock, TypeOK, Stages
  <2>3. /\ \A j \in Instances : stage'[j] = "serving" <=> stage[j] = "serving"
        /\ \A j \in Instances : stage'[j] = "down" <=> stage[j] = "down"
    BY <1>1 DEF Lock, TypeOK, Stages
  <2> QED BY <1>1, <2>1, <2>2, <2>3 DEF Lock, TypeOK, RunsDeployed, Instances
<1>2. CASE SkipStep(i)
  BY <1>2 DEF SkipStep, TypeOK, RunsDeployed, databaseVars
<1>3. CASE RunStep(i)
  <2> DEFINE step == Steps[next[i]]
             d == Schema((draft[i].tables \ step.drops) \cup step.creates,
                         draft[i].applied \cup {step.version})
  <2>1. next[i] \in DOMAIN Steps
    BY <1>3, DueIsStep DEF RunStep
  <2>2. d \in [tables : SUBSET Tables, applied : SUBSET Versions]
    BY <2>1 DEF TypeOK, Tables, Versions, Schema
  <2>3. draft' = [draft EXCEPT ![i] = d]
    BY <1>3 DEF RunStep
  <2> HIDE DEF d
  <2>4. draft' \in [Instances -> [tables : SUBSET Tables, applied : SUBSET Versions]]
    BY <2>2, <2>3 DEF TypeOK
  <2>5. next' \in [Instances -> Nat \ {0}]
    BY <1>3 DEF RunStep, TypeOK
  <2> QED BY <1>3, <2>4, <2>5 DEF RunStep, TypeOK, RunsDeployed, databaseVars
<1>4. CASE CommitMigration(i)
  <2>1. draft[i] \in [tables : SUBSET Tables, applied : SUBSET Versions]
    BY DEF TypeOK
  <2>2. tables' \in SUBSET Tables /\ applied' \in SUBSET Versions
    BY <1>4, <2>1 DEF CommitMigration
  <2>3. draft' \in [Instances -> [tables : SUBSET Tables, applied : SUBSET Versions]]
    BY <1>4 DEF CommitMigration, TypeOK, NoDraft, Schema
  <2>4. lockOwner = i
    BY <1>4 DEF CommitMigration, TypeOK
  <2>5. /\ stage' \in [Instances -> Stages]
        /\ lockOwner' \in Instances \cup {NoInstance}
        /\ \A j \in Instances : lockOwner' = j <=> stage'[j] = "migrating"
        /\ \A j \in Instances : stage'[j] = "serving" <=> stage[j] = "serving"
        /\ \A j \in Instances : stage'[j] = "down" <=> stage[j] = "down"
    BY <1>4, <2>4 DEF CommitMigration, TypeOK, Stages
  <2> QED BY <1>4, <2>2, <2>3, <2>5 DEF CommitMigration, TypeOK, RunsDeployed, Instances
<1> QED BY <1>1, <1>2, <1>3, <1>4

LEMMA TypeTemporal ==
  ASSUME TypeOK, RunsDeployed, NEW i \in Instances,
         CreateSchedule(i) \/ FindSchedule(i) \/ UpdateSchedule(i)
  PROVE  TypeOK' /\ RunsDeployed'
<1> USE StartupAssumption DEF egressVars, databaseVars
<1>1. /\ stage[i] \in {"migrated", "updating"}
      /\ \E g \in {"updating", "scheduled"} : stage' = [stage EXCEPT ![i] = g]
      /\ UNCHANGED <<databaseVars, release, next, draft, egressVars>>
  BY DEF CreateSchedule, FindSchedule, UpdateSchedule
<1>2. release[i] \in Releases
  BY <1>1 DEF TypeOK, RunsDeployed
<1>3. schedule' \in [Schedules -> Releases \cup {0}]
  BY <1>2 DEF TypeOK, CreateSchedule, FindSchedule, UpdateSchedule, ScheduleOf, Schedules
<1>4. /\ stage' \in [Instances -> Stages]
      /\ \A j \in Instances : stage'[j] = "migrating" <=> stage[j] = "migrating"
      /\ \A j \in Instances : stage'[j] = "serving" <=> stage[j] = "serving"
      /\ \A j \in Instances : stage'[j] = "down" <=> stage[j] = "down"
  BY <1>1 DEF TypeOK, Stages
<1> QED BY <1>1, <1>3, <1>4 DEF TypeOK, RunsDeployed, Instances

LEMMA TypeServe ==
  ASSUME TypeOK, RunsDeployed, NEW i \in Instances, Serve(i) \/ Exit(i)
  PROVE  TypeOK' /\ RunsDeployed'
<1> USE StartupAssumption DEF databaseVars
<1>1. CASE Serve(i)
  <2>1. /\ stage' \in [Instances -> Stages]
        /\ \A j \in Instances : stage'[j] = "migrating" <=> stage[j] = "migrating"
        /\ \A j \in Instances \ {i} : stage'[j] = stage[j]
        /\ stage'[i] = "serving" /\ stage[i] # "down"
    BY <1>1 DEF Serve, TypeOK, Stages
  <2>2. CASE i \in Supports
    <3>1. cursor' = [cursor EXCEPT ![i] = [k \in Loops |-> 1]]
      BY <1>1, <2>2 DEF Serve
    <3>2. /\ cursor' \in [Supports -> [Loops -> Nat]]
          /\ \A j \in Supports \ {i} : cursor'[j] = cursor[j]
          /\ \A k \in Loops : cursor'[i][k] = 1
      BY <2>2, <3>1 DEF TypeOK
    <3>3. \A k \in Loops : 1 \in 1 .. Len(SetsOf(k)) + 1
      BY SetsType
    <3> QED BY <1>1, <2>1, <3>2, <3>3 DEF Serve, TypeOK, RunsDeployed, Instances
  <2>3. CASE i \notin Supports
    BY <1>1, <2>1, <2>3 DEF Serve, TypeOK, RunsDeployed, Instances
  <2> QED BY <2>2, <2>3
<1>2. CASE Exit(i)
  <2>1. /\ stage' \in [Instances -> Stages]
        /\ release' \in [Instances -> Releases \cup {0}]
        /\ next' \in [Instances -> Nat \ {0}]
        /\ \A j \in Instances \ {i} : stage'[j] = stage[j] /\ release'[j] = release[j]
        /\ stage'[i] = "down"
    BY <1>2 DEF Exit, TypeOK, Stages
  <2>2. draft' \in [Instances -> [tables : SUBSET Tables, applied : SUBSET Versions]]
    BY <1>2 DEF Exit, TypeOK, NoDraft, Schema
  <2>3. /\ lockOwner' \in Instances \cup {NoInstance}
        /\ \A j \in Instances : lockOwner' = j <=> stage'[j] = "migrating"
    BY <1>2, <2>1 DEF Exit, TypeOK
  <2>4. /\ cursor' \in [Supports -> [Loops -> Nat]]
        /\ \A j \in Supports \ {i} : cursor'[j] = cursor[j]
        /\ i \in Supports => \A k \in Loops : cursor'[i][k] = 0
    BY <1>2 DEF Exit, TypeOK
  <2> QED BY <1>2, <2>1, <2>2, <2>3, <2>4 DEF Exit, TypeOK, RunsDeployed, Instances
<1> QED BY <1>1, <1>2

LEMMA SyncMoves ==
  ASSUME TypeOK, NEW i \in Supports, NEW k \in Loops, NEW a \in Range(SetsOf(k)),
         SyncStep(i, k, a)
  PROVE  /\ stage[i] = "serving"
         /\ cursor[i][k] \in DOMAIN SetsOf(k)
         /\ SetsOf(k)[cursor[i][k]] = a
         /\ UNCHANGED <<databaseVars, instanceVars, schedule>>
         /\ cursor' \in [Supports -> [Loops -> Nat]]
         /\ \A j \in Supports, l \in Loops : j # i \/ l # k => cursor'[j][l] = cursor[j][l]
         /\ \/ /\ cursor'[i][k] = 1
               /\ egress' = egress \/ egress' = [egress EXCEPT ![a] = release[i]]
            \/ /\ cursor'[i][k] = cursor[i][k] + 1
               /\ egress' = [egress EXCEPT ![a] = release[i]]
<1>1. /\ stage[i] = "serving"
      /\ cursor[i][k] \in DOMAIN SetsOf(k)
      /\ SetsOf(k)[cursor[i][k]] = a
      /\ UNCHANGED <<databaseVars, instanceVars, schedule>>
  BY DEF SyncStep, ApplySet, ApplyUnanswered, ApplyFails, Applies
<1>2. \/ /\ cursor' = [cursor EXCEPT ![i][k] = 1]
         /\ egress' = egress \/ egress' = [egress EXCEPT ![a] = release[i]]
      \/ /\ cursor' = [cursor EXCEPT ![i][k] = @ + 1]
         /\ egress' = [egress EXCEPT ![a] = release[i]]
  BY DEF SyncStep, ApplySet, ApplyUnanswered, ApplyFails
<1>3. cursor \in [Supports -> [Loops -> Nat]]
  BY DEF TypeOK
<1> QED BY <1>1, <1>2, <1>3

LEMMA TypeStep == TypeOK /\ RunsDeployed /\ [Next]_vars => TypeOK' /\ RunsDeployed'
<1> SUFFICES ASSUME TypeOK, RunsDeployed, [Next]_vars PROVE TypeOK' /\ RunsDeployed'
  OBVIOUS
<1>1. CASE UNCHANGED vars
  BY <1>1 DEF vars, databaseVars, instanceVars, egressVars, TypeOK, RunsDeployed
<1>2. ASSUME NEW i \in Instances, NEW r \in Deployed[i], Begin(i, r)
      PROVE  TypeOK' /\ RunsDeployed'
  <2>1. r \in Releases
    BY StartupAssumption
  <2>2. /\ stage' \in [Instances -> Stages]
        /\ release' \in [Instances -> Releases \cup {0}]
        /\ \A j \in Instances \ {i} : stage'[j] = stage[j] /\ release'[j] = release[j]
        /\ stage'[i] = "locking" /\ stage[i] = "down" /\ release'[i] = r
    BY <1>2, <2>1 DEF Begin, TypeOK, Stages
  <2> QED BY <1>2, <2>2, StartupAssumption
          DEF Begin, TypeOK, RunsDeployed, databaseVars, egressVars, Instances
<1>3. ASSUME NEW i \in Supports, NEW k \in Loops, NEW a \in Range(SetsOf(k)), SyncStep(i, k, a)
      PROVE  TypeOK' /\ RunsDeployed'
  <2>1. release[i] \in Releases
    BY <1>3, SyncMoves, StartupAssumption DEF TypeOK, RunsDeployed, Instances
  <2>2. egress' \in [Sets -> Releases \cup {0}]
    <3>1. a \in Sets
      BY SetsType
    <3>2. egress' = egress \/ egress' = [egress EXCEPT ![a] = release[i]]
      BY <1>3, SyncMoves
    <3> QED BY <2>1, <3>1, <3>2 DEF TypeOK
  <2>3. cursor[i][k] \in 1 .. Len(SetsOf(k)) /\ Len(SetsOf(k)) \in Nat
    BY <1>3, SyncMoves, SetsType
  <2>4. cursor'[i][k] \in 1 .. Len(SetsOf(k)) + 1
    BY <1>3, <2>3, SyncMoves
  <2>5. \A j \in Supports, l \in Loops :
          IF stage[j] = "serving" THEN cursor'[j][l] \in 1 .. Len(SetsOf(l)) + 1
                                  ELSE cursor'[j][l] = 0
    <3>1. /\ stage' = stage /\ stage[i] = "serving"
          /\ \A j \in Supports, l \in Loops : j # i \/ l # k => cursor'[j][l] = cursor[j][l]
      BY <1>3, SyncMoves DEF instanceVars
    <3>2. \A j \in Supports, l \in Loops :
            IF stage[j] = "serving" THEN cursor[j][l] \in 1 .. Len(SetsOf(l)) + 1
                                    ELSE cursor[j][l] = 0
      BY DEF TypeOK
    <3>3. SUFFICES ASSUME NEW j \in Supports, NEW l \in Loops
                   PROVE  IF stage[j] = "serving" THEN cursor'[j][l] \in 1 .. Len(SetsOf(l)) + 1
                                                  ELSE cursor'[j][l] = 0
      OBVIOUS
    <3>4. CASE j = i /\ l = k
      BY <2>4, <3>1, <3>4
    <3>5. CASE j # i \/ l # k
      BY <3>1, <3>2, <3>5
    <3> QED BY <3>4, <3>5
  <2> QED BY <1>3, <2>2, <2>5, SyncMoves DEF TypeOK, RunsDeployed, databaseVars, instanceVars
<1> QED
  BY <1>1, <1>2, <1>3, TypeDatabase, TypeTemporal, TypeServe DEF Next, Boot

-----------------------------------------------------------------------------
\* The database part of the invariant.
SchemaInv == SchemaIsWhole /\ DraftsAreWhole /\ MigrationsExclude /\ DraftsAdvance /\ PastIsMigrated

LEMMA SchemaInit == Init => SchemaInv
<1> SUFFICES ASSUME Init PROVE SchemaInv
  OBVIOUS
<1>1. PICK n \in 0 .. Len(Steps), T \in {{}, Legacy} :
        tables = SchemaAfter(T, n).tables /\ applied = SchemaAfter(T, n).applied
  BY DEF Init
<1>2. T \subseteq Legacy
  OBVIOUS
<1>3. SchemaIsWhole
  BY <1>1, <1>2, SchemaAfterIsWhole DEF SchemaIsWhole
<1>4. \A i \in Instances : stage[i] = "down"
  BY DEF Init
<1> QED
  BY <1>3, <1>4
  DEF SchemaInv, DraftsAreWhole, MigrationsExclude, DraftsAdvance, PastIsMigrated, Past

\* Steps that leave the schema, every release and every migration alone.
SchemaUntouched ==
  /\ UNCHANGED <<tables, applied, draft, next>>
  /\ \A i \in Instances :
       /\ stage'[i] = "migrating" => stage[i] = "migrating"
       /\ Past(i)' => Past(i) /\ release'[i] = release[i]

LEMMA UntouchedKeepsSchema ==
  ASSUME SchemaInv, SchemaUntouched PROVE SchemaInv'
<1>1. SchemaIsWhole' /\ DraftsAreWhole'
  BY DEF SchemaUntouched, SchemaInv, SchemaIsWhole, DraftsAreWhole, Whole
<1>2. MigrationsExclude' /\ DraftsAdvance'
  BY DEF SchemaUntouched, SchemaInv, MigrationsExclude, DraftsAdvance
<1>3. PastIsMigrated'
  BY DEF SchemaUntouched, SchemaInv, PastIsMigrated
<1> QED BY <1>1, <1>2, <1>3 DEF SchemaInv

LEMMA LockKeepsSchema ==
  ASSUME TypeOK, SchemaInv, NEW i \in Instances, Lock(i) PROVE SchemaInv'
<1>1. /\ tables' = tables /\ applied' = applied /\ release' = release
      /\ \A j \in Instances \ {i} : stage'[j] = stage[j] /\ draft'[j] = draft[j] /\ next'[j] = next[j]
      /\ stage'[i] = "migrating" /\ next'[i] = 1
      /\ draft'[i].tables = tables /\ draft'[i].applied = applied
  BY DEF Lock, TypeOK, Schema
<1>2. SchemaIsWhole' /\ Whole(tables, applied)
  BY <1>1 DEF SchemaInv, SchemaIsWhole, Whole
<1>3. DraftsAreWhole'
  <2>1. SUFFICES ASSUME NEW j \in Instances, stage'[j] = "migrating"
                 PROVE  Whole(draft'[j].tables, draft'[j].applied)
    BY DEF DraftsAreWhole, Whole
  <2>2. CASE j = i
    BY <1>1, <1>2, <2>2
  <2>3. CASE j # i
    BY <1>1, <2>1, <2>3 DEF SchemaInv, DraftsAreWhole
  <2> QED BY <2>2, <2>3
<1>4. MigrationsExclude'
  BY <1>1 DEF SchemaInv, MigrationsExclude
<1>5. DraftsAdvance'
  BY <1>1, StepsType DEF SchemaInv, DraftsAdvance
<1>6. PastIsMigrated'
  BY <1>1 DEF SchemaInv, PastIsMigrated, Past
<1> QED BY <1>2, <1>3, <1>4, <1>5, <1>6 DEF SchemaInv

LEMMA SkipKeepsSchema ==
  ASSUME TypeOK, SchemaInv, NEW i \in Instances, SkipStep(i) PROVE SchemaInv'
<1>1. /\ UNCHANGED <<tables, applied, release, stage, draft>>
      /\ \A j \in Instances \ {i} : next'[j] = next[j]
      /\ next'[i] = next[i] + 1 /\ next[i] \in Nat
      /\ Steps[next[i]].version \in draft[i].applied
  BY DEF SkipStep, TypeOK, databaseVars
<1>2. SchemaIsWhole' /\ DraftsAreWhole' /\ MigrationsExclude' /\ PastIsMigrated'
  BY <1>1 DEF SchemaInv, SchemaIsWhole, DraftsAreWhole, Whole, MigrationsExclude, PastIsMigrated, Past
<1>3. DraftsAdvance'
  <2>1. SUFFICES ASSUME NEW j \in Instances, stage[j] = "migrating",
                        NEW k \in DOMAIN Steps, k < next'[j]
                 PROVE  Steps[k].version \in draft[j].applied
    BY <1>1 DEF DraftsAdvance
  <2>2. k < next[j] => Steps[k].version \in draft[j].applied
    BY <2>1 DEF SchemaInv, DraftsAdvance
  <2>3. j = i /\ ~ (k < next[j]) => k = next[i]
    BY <1>1, <2>1, StepsType
  <2> QED BY <1>1, <2>1, <2>2, <2>3
<1> QED BY <1>2, <1>3 DEF SchemaInv

LEMMA RunKeepsSchema ==
  ASSUME TypeOK, RunsDeployed, SchemaInv, NEW i \in Instances, RunStep(i) PROVE SchemaInv'
<1> DEFINE step == Steps[next[i]]
           T == (draft[i].tables \ step.drops) \cup step.creates
           V == draft[i].applied \cup {step.version}
<1>1. next[i] \in DOMAIN Steps /\ stage[i] = "migrating"
  BY DueIsStep DEF RunStep
<1>2. /\ UNCHANGED <<tables, applied, release, stage>>
      /\ \A j \in Instances \ {i} : next'[j] = next[j] /\ draft'[j] = draft[j]
      /\ next'[i] = next[i] + 1 /\ next[i] \in Nat
      /\ draft'[i].tables = T /\ draft'[i].applied = V
  BY DEF RunStep, TypeOK, databaseVars, Schema
<1>3. Whole(T, V)
  <2>1. Whole(draft[i].tables, draft[i].applied)
    BY <1>1 DEF SchemaInv, DraftsAreWhole
  <2> QED BY <1>1, <2>1, StepKeepsWhole
<1>4. DraftsAreWhole'
  <2>1. SUFFICES ASSUME NEW j \in Instances, stage[j] = "migrating"
                 PROVE  Whole(draft'[j].tables, draft'[j].applied)
    BY <1>2 DEF DraftsAreWhole, Whole
  <2>2. CASE j = i
    BY <1>2, <1>3, <2>2
  <2>3. CASE j # i
    BY <1>2, <2>1, <2>3 DEF SchemaInv, DraftsAreWhole
  <2> QED BY <2>2, <2>3
<1>5. SchemaIsWhole' /\ PastIsMigrated'
  BY <1>2 DEF SchemaInv, SchemaIsWhole, Whole, PastIsMigrated, Past
<1>6. MigrationsExclude'
  BY <1>1, <1>2 DEF SchemaInv, MigrationsExclude
<1>7. DraftsAdvance'
  <2>1. SUFFICES ASSUME NEW j \in Instances, stage[j] = "migrating",
                        NEW k \in DOMAIN Steps, k < next'[j]
                 PROVE  Steps[k].version \in draft'[j].applied
    BY <1>2 DEF DraftsAdvance
  <2>2. k < next[j] => Steps[k].version \in draft[j].applied
    BY <2>1 DEF SchemaInv, DraftsAdvance
  <2>3. j = i /\ ~ (k < next[j]) => k = next[i]
    BY <1>2, <2>1, StepsType
  <2>4. CASE j = i
    BY <1>2, <2>2, <2>3, <2>4
  <2>5. CASE j # i
    BY <1>2, <2>1, <2>2, <2>5
  <2> QED BY <2>4, <2>5
<1> QED BY <1>4, <1>5, <1>6, <1>7 DEF SchemaInv

LEMMA CommitKeepsSchema ==
  ASSUME TypeOK, RunsDeployed, SchemaInv, NEW i \in Instances, CommitMigration(i) PROVE SchemaInv'
<1>1. /\ tables' = draft[i].tables /\ applied' = draft[i].applied
      /\ stage[i] = "migrating" /\ stage'[i] = "migrated"
      /\ release' = release
      /\ \A j \in Instances \ {i} : stage'[j] = stage[j] /\ stage[j] # "migrating"
      /\ next[i] > Known[release[i]]
  BY DEF CommitMigration, TypeOK
<1>2. SchemaIsWhole'
  BY <1>1 DEF SchemaInv, DraftsAreWhole, SchemaIsWhole, Whole
<1>3. DraftsAreWhole' /\ MigrationsExclude' /\ DraftsAdvance'
  BY <1>1 DEF DraftsAreWhole, MigrationsExclude, DraftsAdvance
<1>4. PastIsMigrated'
  <2>1. SUFFICES ASSUME NEW j \in Instances, Past(j)', NEW k \in DOMAIN Steps,
                        k <= Known[release[j]]
                 PROVE  Steps[k].version \in applied'
    BY <1>1 DEF PastIsMigrated
  <2>2. applied \subseteq draft[i].applied
    BY <1>1 DEF SchemaInv, MigrationsExclude
  <2>3. CASE j = i
    <3>1. next[i] \in Nat /\ Known[release[i]] \in Nat /\ k \in Nat
      <4>1. release[i] \in Releases
        BY <1>1, StartupAssumption DEF RunsDeployed
      <4>2. Known[release[i]] \in Nat
        BY <4>1, StartupAssumption
      <4>3. k \in Nat
        BY StepsType
      <4> QED BY <4>2, <4>3 DEF TypeOK
    <3>2. k < next[i]
      BY <1>1, <2>1, <2>3, <3>1
    <3> QED BY <1>1, <3>2 DEF SchemaInv, DraftsAdvance
  <2>4. CASE j # i
    <3>1. Past(j)
      BY <1>1, <2>1, <2>4 DEF Past
    <3> QED BY <1>1, <2>1, <2>2, <3>1 DEF SchemaInv, PastIsMigrated
  <2> QED BY <2>3, <2>4
<1> QED BY <1>2, <1>3, <1>4 DEF SchemaInv

LEMMA ExitKeepsSchema ==
  ASSUME TypeOK, SchemaInv, NEW i \in Instances, Exit(i) PROVE SchemaInv'
<1>1. /\ UNCHANGED <<tables, applied>>
      /\ stage'[i] = "down"
      /\ \A j \in Instances \ {i} : /\ stage'[j] = stage[j] /\ release'[j] = release[j]
                                     /\ next'[j] = next[j] /\ draft'[j] = draft[j]
  BY DEF Exit, TypeOK
<1>2. SchemaIsWhole' /\ DraftsAreWhole'
  BY <1>1 DEF SchemaInv, SchemaIsWhole, DraftsAreWhole, Whole
<1>3. MigrationsExclude' /\ DraftsAdvance' /\ PastIsMigrated'
  BY <1>1 DEF SchemaInv, MigrationsExclude, DraftsAdvance, PastIsMigrated, Past
<1> QED BY <1>2, <1>3 DEF SchemaInv

LEMMA SchemaStep == TypeOK /\ RunsDeployed /\ SchemaInv /\ [Next]_vars => SchemaInv'
<1> SUFFICES ASSUME TypeOK, RunsDeployed, SchemaInv, [Next]_vars PROVE SchemaInv'
  OBVIOUS
<1>1. CASE UNCHANGED vars
  <2>1. SchemaUntouched
    BY <1>1 DEF vars, databaseVars, instanceVars, SchemaUntouched, Past
  <2> QED BY <2>1, UntouchedKeepsSchema
<1>2. ASSUME NEW i \in Instances, NEW r \in Deployed[i], Begin(i, r) PROVE SchemaInv'
  <2>1. SchemaUntouched
    BY <1>2 DEF Begin, databaseVars, SchemaUntouched, Past, TypeOK
  <2> QED BY <2>1, UntouchedKeepsSchema
<1>3. ASSUME NEW i \in Instances,
             CreateSchedule(i) \/ FindSchedule(i) \/ UpdateSchedule(i) \/ Serve(i)
      PROVE  SchemaInv'
  <2>1. /\ UNCHANGED <<tables, applied, release, next, draft>>
        /\ \E g \in {"updating", "scheduled", "serving"} : stage' = [stage EXCEPT ![i] = g]
        /\ Past(i)
    BY <1>3 DEF CreateSchedule, FindSchedule, UpdateSchedule, Serve, databaseVars, Past
  <2>2. SchemaUntouched
    BY <2>1 DEF SchemaUntouched, Past, TypeOK
  <2> QED BY <2>2, UntouchedKeepsSchema
<1>4. ASSUME NEW i \in Supports, NEW k \in Loops, NEW a \in Range(SetsOf(k)), SyncStep(i, k, a)
      PROVE  SchemaInv'
  <2>1. SchemaUntouched
    BY <1>4, SyncMoves DEF databaseVars, instanceVars, SchemaUntouched, Past
  <2> QED BY <2>1, UntouchedKeepsSchema
<1> QED
  BY <1>1, <1>2, <1>3, <1>4, LockKeepsSchema, SkipKeepsSchema, RunKeepsSchema,
     CommitKeepsSchema, ExitKeepsSchema
  DEF Next, Boot

\* Whoever is past its migration finds the tables of its release.
LEMMA MigratedFindsTables == TypeOK /\ RunsDeployed /\ SchemaInv => ServingFindsTables
<1> SUFFICES ASSUME TypeOK, RunsDeployed, SchemaInv, NEW i \in Instances, Past(i)
             PROVE  Required(i) \subseteq tables
  BY DEF ServingFindsTables, Past
<1>1. release[i] \in Deployed[i] /\ release[i] \in Releases
  BY StartupAssumption DEF RunsDeployed, Past
<1>2. \A n \in 1 .. Known[release[i]] : n \in DOMAIN Steps /\ n <= Known[release[i]]
  <2>1. Known[release[i]] \in Nat /\ Known[release[i]] <= Len(Steps)
    BY <1>1, StartupAssumption
  <2> QED BY <2>1, StepsType
<1>3. \A n \in 1 .. Known[release[i]] : Steps[n].version \in applied
  BY <1>2 DEF SchemaInv, PastIsMigrated
<1>4. \A n \in 1 .. Known[release[i]] : Steps[n].creates \subseteq tables
  BY <1>2, <1>3 DEF SchemaInv, SchemaIsWhole, Whole
<1>5. Required(i) \subseteq UNION {Steps[n].creates : n \in 1 .. Known[release[i]]}
  BY <1>1, NeedsAssumption
<1> QED BY <1>4, <1>5

-----------------------------------------------------------------------------
\* Steps that move no instance in or out of having seen to its schedule.
LEMMA ScheduleStep ==
  TypeOK /\ ScheduleOfRunningRelease /\ [Next]_vars => ScheduleOfRunningRelease'
<1> SUFFICES ASSUME TypeOK, ScheduleOfRunningRelease, [Next]_vars,
                    NEW c \in Schedules,
                    {i \in Scheduling : ScheduleOf(i) = c} # {},
                    \A i \in {j \in Scheduling : ScheduleOf(j) = c} :
                      stage'[i] \in {"scheduled", "serving"}
             PROVE  \E i \in {j \in Scheduling : ScheduleOf(j) = c} : schedule'[c] = release'[i]
  BY DEF ScheduleOfRunningRelease
<1> DEFINE Owners == {i \in Scheduling : ScheduleOf(i) = c}
<1> HIDE DEF Owners
<1>1. Owners # {} /\ Owners \subseteq Instances
  BY DEF Owners, Scheduling, Instances
<1>2. \A i \in Owners : stage'[i] \in {"scheduled", "serving"}
  BY DEF Owners
<1>3. SUFFICES \E i \in Owners : schedule'[c] = release'[i]
  BY DEF Owners
<1>4. (\A i \in Owners : stage[i] \in {"scheduled", "serving"})
        => \E i \in Owners : schedule[c] = release[i]
  BY <1>1 DEF ScheduleOfRunningRelease, Owners
<1>5. ASSUME schedule' = schedule,
             \A i \in Owners : /\ release'[i] = release[i]
                               /\ stage'[i] \in {"scheduled", "serving"}
                                    => stage[i] \in {"scheduled", "serving"}
      PROVE  \E i \in Owners : schedule'[c] = release'[i]
  BY <1>2, <1>4, <1>5
<1>6. CASE UNCHANGED vars
  BY <1>5, <1>6 DEF vars, instanceVars
<1>7. ASSUME NEW i \in Instances, NEW r \in Deployed[i], Begin(i, r)
      PROVE  \E j \in Owners : schedule'[c] = release'[j]
  BY <1>1, <1>2, <1>5, <1>7 DEF Begin, TypeOK
<1>8. ASSUME NEW i \in Instances, Lock(i) \/ SkipStep(i) \/ RunStep(i) \/ CommitMigration(i)
      PROVE  \E j \in Owners : schedule'[c] = release'[j]
  <2>1. /\ schedule' = schedule /\ release' = release
        /\ stage' = stage \/ \E g \in {"migrating", "migrated"} : stage' = [stage EXCEPT ![i] = g]
    BY <1>8 DEF Lock, SkipStep, RunStep, CommitMigration
  <2>2. \A j \in Owners : stage'[j] \in {"scheduled", "serving"} => stage'[j] = stage[j]
    BY <1>1, <2>1 DEF TypeOK
  <2> QED BY <1>5, <2>1, <2>2
<1>9. ASSUME NEW i \in Instances, CreateSchedule(i) \/ UpdateSchedule(i)
      PROVE  \E j \in Owners : schedule'[c] = release'[j]
  <2>1. /\ release' = release
        /\ \A j \in Instances \ {i} : stage'[j] = stage[j]
        /\ schedule' = [schedule EXCEPT ![ScheduleOf(i)] = release[i]]
        /\ stage[i] \notin {"scheduled", "serving"}
    BY <1>9 DEF CreateSchedule, UpdateSchedule, TypeOK
  <2>2. CASE i \in Owners
    <3>1. schedule'[c] = release[i]
      BY <2>1, <2>2 DEF Owners, TypeOK
    <3> QED BY <2>1, <2>2, <3>1
  <2>3. CASE i \notin Owners
    <3>1. ScheduleOf(i) # c
      <4>1. i \in Scheduling
        BY <1>9 DEF CreateSchedule, UpdateSchedule
      <4> QED BY <2>3, <4>1 DEF Owners
    <3>2. schedule'[c] = schedule[c]
      BY <2>1, <3>1 DEF TypeOK
    <3> QED BY <1>1, <1>2, <1>4, <2>1, <2>3, <3>2
  <2> QED BY <2>2, <2>3
<1>10. ASSUME NEW i \in Instances, FindSchedule(i) \/ Serve(i)
       PROVE  \E j \in Owners : schedule'[c] = release'[j]
  <2>1. /\ schedule' = schedule /\ release' = release
        /\ \/ stage' = [stage EXCEPT ![i] = "updating"]
           \/ /\ stage' = [stage EXCEPT ![i] = "serving"]
              /\ stage[i] = "scheduled" \/ i \in Runtimes
    BY <1>10 DEF FindSchedule, Serve
  <2>2. Owners \cap Runtimes = {}
    BY StartupAssumption DEF Owners
  <2>3. \A j \in Owners : stage'[j] \in {"scheduled", "serving"}
                            => stage[j] \in {"scheduled", "serving"}
    BY <1>1, <2>1, <2>2 DEF TypeOK
  <2> QED BY <1>5, <2>1, <2>3
<1>11. ASSUME NEW i \in Instances, Exit(i)
       PROVE  \E j \in Owners : schedule'[c] = release'[j]
  <2>1. /\ schedule' = schedule
        /\ stage'[i] = "down"
        /\ \A j \in Instances \ {i} : stage'[j] = stage[j] /\ release'[j] = release[j]
    BY <1>11 DEF Exit, TypeOK
  <2>2. i \notin Owners
    BY <1>2, <2>1
  <2> QED BY <1>1, <1>5, <2>1, <2>2
<1>12. ASSUME NEW i \in Supports, NEW k \in Loops, NEW a \in Range(SetsOf(k)), SyncStep(i, k, a)
       PROVE  \E j \in Owners : schedule'[c] = release'[j]
  BY <1>5, <1>12, SyncMoves DEF instanceVars
<1> QED
  BY <1>6, <1>7, <1>8, <1>9, <1>10, <1>11, <1>12 DEF Next, Boot

-----------------------------------------------------------------------------
\* The egress part of the invariant.
LoopsInv == LoopsApply /\ LastIsRunning /\ RulesFindTheirProxy

LEMMA LoopsInit == Init => LoopsInv
<1> SUFFICES ASSUME Init PROVE LoopsInv
  OBVIOUS
<1>1. /\ \A i \in Supports, k \in Loops : cursor[i][k] = 0
      /\ \A a \in Sets : egress[a] = 0
  BY DEF Init
<1>2. \A k \in Loops : \A n \in DOMAIN SetsOf(k) : n \in Nat /\ ~ (n < 0)
  BY SetsType
<1>3. /\ "access" \in Loops /\ SetsOf("access") = AccessSets
      /\ \A n \in DOMAIN AccessSets : AccessSets[n] \in Sets
  BY SetsType DEF Loops, SetsOf
<1>4. LoopsApply /\ RulesFindTheirProxy
  BY <1>1, <1>2, <1>3 DEF LoopsApply, RulesFindTheirProxy
<1>5. LastIsRunning
  BY <1>1, <1>2 DEF LastIsRunning
<1> QED BY <1>4, <1>5 DEF LoopsInv

\* Steps that apply nothing: loops stay where they are, start over or end.
LoopsUntouched ==
  /\ egress' = egress
  /\ \A i \in Supports :
       \/ /\ \A k \in Loops : cursor'[i][k] = cursor[i][k]
          /\ stage[i] = "serving" => release'[i] = release[i]
       \/ \A k \in Loops : cursor'[i][k] \in {0, 1}

LEMMA UntouchedKeepsLoops ==
  ASSUME TypeOK, LoopsInv, LoopsUntouched PROVE LoopsInv'
<1>1. /\ \A k \in Loops : DOMAIN SetsOf(k) = 1 .. Len(SetsOf(k)) /\ Len(SetsOf(k)) \in Nat
      /\ "access" \in Loops /\ SetsOf("access") = AccessSets
  BY SetsType DEF Loops, SetsOf
<1>2. LoopsApply'
  BY <1>1 DEF LoopsInv, LoopsApply, LoopsUntouched
<1>3. RulesFindTheirProxy'
  BY DEF LoopsInv, RulesFindTheirProxy, LoopsUntouched
<1>4. LastIsRunning'
  <2>1. SUFFICES ASSUME NEW k \in Loops, NEW n \in DOMAIN SetsOf(k), Supports # {},
                        \A i \in Supports : n < cursor'[i][k]
                 PROVE  \E i \in Supports : egress[SetsOf(k)[n]] = release'[i]
    BY DEF LastIsRunning, LoopsUntouched
  <2>2. n \in Nat /\ n >= 1
    BY <1>1
  <2>3. \A i \in Supports : /\ cursor'[i][k] = cursor[i][k]
                            /\ stage[i] = "serving" => release'[i] = release[i]
    <3>1. SUFFICES ASSUME NEW i \in Supports
                   PROVE  /\ cursor'[i][k] = cursor[i][k]
                          /\ stage[i] = "serving" => release'[i] = release[i]
      OBVIOUS
    <3>2. ~ \A l \in Loops : cursor'[i][l] \in {0, 1}
      BY <2>1, <2>2
    <3> QED BY <3>2 DEF LoopsUntouched
  <2>4. \A i \in Supports : stage[i] = "serving"
    <3>1. \A i \in Supports : stage[i] # "serving" => cursor[i][k] = 0
      BY DEF TypeOK
    <3>2. \A i \in Supports : n < cursor[i][k]
      BY <2>1, <2>3
    <3> QED BY <2>2, <3>1, <3>2
  <2>5. \E i \in Supports : egress[SetsOf(k)[n]] = release[i]
    BY <2>1, <2>3 DEF LoopsInv, LastIsRunning
  <2> QED BY <2>3, <2>4, <2>5
<1> QED BY <1>2, <1>3, <1>4 DEF LoopsInv

LEMMA SyncKeepsLoops ==
  ASSUME TypeOK, RunsDeployed, LoopsInv,
         NEW i \in Supports, NEW k \in Loops, NEW a \in Range(SetsOf(k)), SyncStep(i, k, a)
  PROVE  LoopsInv'
<1> DEFINE at == cursor[i][k]
<1>1. /\ at \in DOMAIN SetsOf(k) /\ SetsOf(k)[at] = a
      /\ stage[i] = "serving" /\ release' = release
      /\ \A j \in Supports, l \in Loops : j # i \/ l # k => cursor'[j][l] = cursor[j][l]
      /\ \/ /\ cursor'[i][k] = 1
            /\ egress' = egress \/ egress' = [egress EXCEPT ![a] = release[i]]
         \/ /\ cursor'[i][k] = at + 1
            /\ egress' = [egress EXCEPT ![a] = release[i]]
  BY SyncMoves DEF instanceVars
<1>2. /\ \A l \in Loops : DOMAIN SetsOf(l) = 1 .. Len(SetsOf(l)) /\ Len(SetsOf(l)) \in Nat
      /\ \A l \in Loops : \A n \in DOMAIN SetsOf(l) : SetsOf(l)[n] \in Sets
      /\ "access" \in Loops /\ SetsOf("access") = AccessSets
      /\ a \in Sets
  BY SetsType DEF Loops, SetsOf
<1>3. release[i] # 0
  BY <1>1, StartupAssumption DEF RunsDeployed, Instances
<1>4. \A b \in Sets : egress'[b] = egress[b] \/ egress'[b] = release[i]
  BY <1>1, <1>2 DEF TypeOK
<1>5. \A b \in Sets : egress[b] # 0 => egress'[b] # 0
  BY <1>3, <1>4
<1> DEFINE moved == cursor'[i][k] = at + 1
<1>6. moved => egress'[a] = release[i]
  <2>1. at \in Nat /\ at >= 1
    BY <1>1, <1>2
  <2> QED BY <1>1, <1>2, <2>1 DEF TypeOK
<1>7. LoopsApply'
  <2>1. SUFFICES ASSUME NEW j \in Supports, NEW n \in DOMAIN AccessSets, n < cursor'[j]["access"]
                 PROVE  egress'[AccessSets[n]] # 0
    BY DEF LoopsApply
  <2>2. n \in Nat /\ n >= 1 /\ AccessSets[n] \in Sets
    BY <1>2
  <2>3. CASE n < cursor[j]["access"]
    BY <1>5, <2>2, <2>3 DEF LoopsInv, LoopsApply
  <2>4. CASE ~ (n < cursor[j]["access"])
    <3>1. j = i /\ k = "access"
      BY <1>1, <1>2, <2>1, <2>4
    <3>2. n = at /\ moved
      BY <1>1, <1>2, <2>1, <2>2, <2>4, <3>1
    <3> QED BY <1>1, <1>2, <1>3, <1>6, <3>1, <3>2
  <2> QED BY <2>3, <2>4
<1>8. RulesFindTheirProxy'
  <2>1. SUFFICES ASSUME NEW n \in DOMAIN AccessSets, NEW m \in DOMAIN AccessSets,
                        m < n, egress'[AccessSets[n]] # 0
                 PROVE  egress'[AccessSets[m]] # 0
    BY DEF RulesFindTheirProxy
  <2>2. AccessSets[m] \in Sets /\ AccessSets[n] \in Sets /\ m \in Nat /\ n \in Nat
    BY <1>2
  <2>3. CASE egress[AccessSets[n]] # 0
    BY <1>5, <2>1, <2>2, <2>3 DEF LoopsInv, RulesFindTheirProxy
  <2>4. CASE egress[AccessSets[n]] = 0
    <3>1. AccessSets[n] = a
      BY <1>1, <2>1, <2>2, <2>4 DEF TypeOK
    <3>2. k = "access"
      <4>1. AccessSets[n] \in Range(AccessSets)
        BY SetsType DEF Loops, SetsOf
      <4> QED BY <3>1, <4>1, SetsAssumption DEF Loops, SetsOf
    <3>3. at = n
      BY <1>1, <1>2, <3>1, <3>2, SetsAssumption
    <3>4. m < cursor[i]["access"]
      BY <2>1, <3>2, <3>3
    <3> QED BY <1>5, <2>2, <3>4 DEF LoopsInv, LoopsApply
  <2> QED BY <2>3, <2>4
<1>9. LastIsRunning'
  <2>1. SUFFICES ASSUME NEW l \in Loops, NEW n \in DOMAIN SetsOf(l), Supports # {},
                        \A j \in Supports : n < cursor'[j][l]
                 PROVE  \E j \in Supports : egress'[SetsOf(l)[n]] = release[j]
    BY <1>1 DEF LastIsRunning
  <2>2. n \in Nat /\ n >= 1 /\ SetsOf(l)[n] \in Sets
    BY <1>2
  <2>3. CASE egress'[SetsOf(l)[n]] = release[i]
    BY <2>3
  <2>4. CASE egress'[SetsOf(l)[n]] # release[i]
    <3>1. egress'[SetsOf(l)[n]] = egress[SetsOf(l)[n]]
      BY <1>4, <2>2, <2>4
    <3>2. l = k => n < at
      <4>1. at \in Nat /\ at >= 1
        BY <1>1, <1>2
      <4>2. l = k => n # at \/ ~ moved
        BY <1>1, <1>6, <2>4
      <4> QED BY <1>1, <2>1, <2>2, <4>1, <4>2
    <3>3. \A j \in Supports : n < cursor[j][l]
      BY <1>1, <2>1, <3>2
    <3> QED BY <2>1, <3>1, <3>3 DEF LoopsInv, LastIsRunning
  <2> QED BY <2>3, <2>4
<1> QED BY <1>7, <1>8, <1>9 DEF LoopsInv

LEMMA LoopsStep == TypeOK /\ RunsDeployed /\ LoopsInv /\ [Next]_vars => LoopsInv'
<1> SUFFICES ASSUME TypeOK, RunsDeployed, LoopsInv, [Next]_vars PROVE LoopsInv'
  OBVIOUS
<1>1. CASE UNCHANGED vars
  <2>1. LoopsUntouched
    BY <1>1 DEF vars, instanceVars, egressVars, LoopsUntouched
  <2> QED BY <2>1, UntouchedKeepsLoops
<1>2. ASSUME NEW i \in Instances, NEW r \in Deployed[i], Begin(i, r) PROVE LoopsInv'
  <2>1. LoopsUntouched
    BY <1>2 DEF Begin, egressVars, LoopsUntouched, TypeOK, Instances
  <2> QED BY <2>1, UntouchedKeepsLoops
<1>3. ASSUME NEW i \in Instances,
             \/ Lock(i) \/ SkipStep(i) \/ RunStep(i) \/ CommitMigration(i)
             \/ CreateSchedule(i) \/ FindSchedule(i) \/ UpdateSchedule(i)
      PROVE  LoopsInv'
  <2>1. UNCHANGED <<release, egressVars>>
    BY <1>3 DEF Lock, SkipStep, RunStep, CommitMigration, CreateSchedule, FindSchedule,
                UpdateSchedule
  <2>2. LoopsUntouched
    BY <2>1 DEF egressVars, LoopsUntouched
  <2> QED BY <2>2, UntouchedKeepsLoops
<1>4. ASSUME NEW i \in Instances, Serve(i) \/ Exit(i) PROVE LoopsInv'
  <2>1. /\ egress' = egress
        /\ \A j \in Instances \ {i} : release'[j] = release[j]
        /\ \E n \in {0, 1} : cursor' = IF i \in Supports
                                       THEN [cursor EXCEPT ![i] = [k \in Loops |-> n]]
                                       ELSE cursor
    BY <1>4 DEF Serve, Exit, TypeOK
  <2>2. /\ \A j \in Supports \ {i} : cursor'[j] = cursor[j]
        /\ i \in Supports => \A k \in Loops : cursor'[i][k] \in {0, 1}
    BY <2>1 DEF TypeOK
  <2>3. LoopsUntouched
    BY <2>1, <2>2 DEF LoopsUntouched, Instances
  <2> QED BY <2>3, UntouchedKeepsLoops
<1>5. ASSUME NEW i \in Supports, NEW k \in Loops, NEW a \in Range(SetsOf(k)), SyncStep(i, k, a)
      PROVE  LoopsInv'
  BY <1>5, SyncKeepsLoops
<1> QED
  BY <1>1, <1>2, <1>3, <1>4, <1>5 DEF Next, Boot

-----------------------------------------------------------------------------
LEMMA StartupInvariant == Spec => []StartupInv
<1> DEFINE Inv == TypeOK /\ RunsDeployed /\ SchemaInv /\ ScheduleOfRunningRelease /\ LoopsInv
<1>1. Init => Inv
  <2>1. Init => ScheduleOfRunningRelease
    <3>1. Init => \A i \in Scheduling : stage[i] = "down"
      BY DEF Init, Scheduling, Instances
    <3> QED BY <3>1 DEF ScheduleOfRunningRelease
  <2> QED BY <2>1, TypeInit, SchemaInit, LoopsInit
<1>2. Inv /\ [Next]_vars => Inv'
  BY TypeStep, SchemaStep, ScheduleStep, LoopsStep
<1>3. Inv => StartupInv
  BY DEF StartupInv, SchemaInv, LoopsInv
<1> QED BY <1>1, <1>2, <1>3, PTL DEF Spec

(***************************************************************************)
(* The types, and the lock: who holds it migrates, and nobody else.        *)
(***************************************************************************)
THEOREM TypeCorrect == Spec => []TypeOK
<1>1. StartupInv => TypeOK
  BY DEF StartupInv
<1> QED BY <1>1, StartupInvariant, PTL

(***************************************************************************)
(* The recorded versions tell the schema (migrate.go), in every            *)
(* interleaving of starts and crashes, for any list of steps in which no   *)
(* step drops or creates what another creates.                             *)
(***************************************************************************)
THEOREM SchemaStaysWhole == Spec => []SchemaIsWhole
<1>1. StartupInv => SchemaIsWhole
  BY DEF StartupInv
<1> QED BY <1>1, StartupInvariant, PTL

(***************************************************************************)
(* Migrations exclude each other: no insert of a version meets a key that  *)
(* was committed meanwhile (migrate.go, pg_advisory_xact_lock).            *)
(***************************************************************************)
THEOREM MigrationsDoExclude == Spec => []MigrationsExclude
<1>1. StartupInv => MigrationsExclude
  BY DEF StartupInv
<1> QED BY <1>1, StartupInvariant, PTL

(***************************************************************************)
(* A list of steps is in order if each needs only what earlier steps make. *)
(* It is no assumption of the model, which is about any list; the list of  *)
(* migrations.go is in order.                                              *)
(***************************************************************************)
InOrder(list) ==
  \A n \in DOMAIN list : list[n].needs \subseteq UNION {list[m].creates : m \in 1 .. n - 1}

\* What its steps need, its third (V3) and ninth (V12) make.
LEMMA MigrationsInOrder == InOrder(Migrations)
<1> DEFINE L == Migrations
<1>1. /\ DOMAIN L = 1 .. 14
      /\ \A n \in DOMAIN L : n \notin {5, 10, 11, 12, 13} => L[n].needs = {}
      /\ L[3].creates = {"sessions", "chats", "agent_session_actions",
                         "domain_outbox", "domain_consumer_events"}
      /\ L[9].creates = {"model_registry_entries", "model_registry_observations",
                         "model_registry_source_status"}
      /\ L[5].needs \subseteq L[3].creates
      /\ \A n \in {10, 11, 12, 13} : L[n].needs \subseteq L[9].creates
  BY DEF Migrations, Step, V1, V2, V3, V4, V7, V9, V10, V11, V12, V13, V14, V15, V16, V17
<1> HIDE DEF L
<1>2. SUFFICES ASSUME NEW n \in DOMAIN L
               PROVE  L[n].needs \subseteq UNION {L[m].creates : m \in 1 .. n - 1}
  BY DEF InOrder, L
<1>3. CASE n = 5
  BY <1>1, <1>3
<1>4. CASE n \in {10, 11, 12, 13}
  <2>1. 9 \in 1 .. n - 1 /\ L[n].needs \subseteq L[9].creates
    BY <1>1, <1>4
  <2> QED BY <2>1
<1>5. CASE n \notin {5, 10, 11, 12, 13}
  BY <1>1, <1>5
<1> QED BY <1>3, <1>4, <1>5

(***************************************************************************)
(* With a list in order, a step finds the tables it needs, in the database *)
(* that any earlier release left, and whoever migrated, crashed or waited  *)
(* before (Migrate): the steps before it are all recorded, and a recorded  *)
(* step's tables are there.                                                *)
(***************************************************************************)
THEOREM StepsFindTables == InOrder(Steps) => (Spec => []StepsFindTheirTables)
<1> SUFFICES ASSUME InOrder(Steps) PROVE Spec => []StepsFindTheirTables
  OBVIOUS
<1>1. StartupInv => StepsFindTheirTables
  <2> SUFFICES ASSUME StartupInv, NEW i \in Instances, StepDue(i)
               PROVE  Steps[next[i]].needs \subseteq draft[i].tables
    BY DEF StepsFindTheirTables
  <2> DEFINE n == next[i]
  <2>1. n \in DOMAIN Steps /\ n \in Nat /\ stage[i] = "migrating"
    BY DueIsStep, StepsType DEF StartupInv
  <2>2. \A m \in 1 .. n - 1 : m \in DOMAIN Steps /\ m < n
    BY <2>1, StepsType
  <2>3. \A m \in 1 .. n - 1 : Steps[m].version \in draft[i].applied
    BY <2>1, <2>2 DEF StartupInv, DraftsAdvance
  <2>4. \A m \in 1 .. n - 1 : Steps[m].creates \subseteq draft[i].tables
    BY <2>1, <2>2, <2>3 DEF StartupInv, DraftsAreWhole, Whole
  <2> QED BY <2>1, <2>4 DEF InOrder
<1> QED BY <1>1, StartupInvariant, PTL

(***************************************************************************)
(* A service that has opened the database finds its tables (bootstrap.go), *)
(* whatever releases start beside it.                                      *)
(***************************************************************************)
THEOREM ServersFindTables == Spec => []ServingFindsTables
<1>1. StartupInv => ServingFindsTables
  BY MigratedFindsTables DEF StartupInv, SchemaInv
<1> QED BY <1>1, StartupInvariant, PTL

(***************************************************************************)
(* Racing starts leave the schedule of a release that runs                 *)
(* (EnsureIntervalSchedule).                                               *)
(***************************************************************************)
THEOREM SchedulesRun == Spec => []ScheduleOfRunningRelease
<1>1. StartupInv => ScheduleOfRunningRelease
  BY DEF StartupInv
<1> QED BY <1>1, StartupInvariant, PTL

(***************************************************************************)
(* When every loop is through, each set is that of a release that runs     *)
(* (external_access_sync.go, runtime_telemetry_sync.go), ...               *)
(***************************************************************************)
THEOREM SetsRun == Spec => []SetOfRunningRelease
<1>1. StartupInv => SetOfRunningRelease
  <2> SUFFICES ASSUME StartupInv, NEW k \in Loops, NEW a \in Range(SetsOf(k)), Supports # {},
                      \A i \in Supports : cursor[i][k] = Len(SetsOf(k)) + 1
               PROVE  \E i \in Supports : egress[a] = release[i]
    BY DEF SetOfRunningRelease
  <2>1. PICK n \in DOMAIN SetsOf(k) : SetsOf(k)[n] = a
    BY DEF Range
  <2>2. \A i \in Supports : n < cursor[i][k]
    BY SetsType
  <2> QED BY <2>1, <2>2 DEF StartupInv, LastIsRunning
<1> QED BY <1>1, StartupInvariant, PTL

(***************************************************************************)
(* ... and an access set is never there without those before it, whose     *)
(* proxies its rules name.                                                 *)
(***************************************************************************)
THEOREM ProxiesComeFirst == Spec => []RulesFindTheirProxy
<1>1. StartupInv => RulesFindTheirProxy
  BY DEF StartupInv
<1> QED BY <1>1, StartupInvariant, PTL

=============================================================================
