--------------------------- MODULE ServiceStartup ---------------------------
(***************************************************************************)
(* How the platform services start, side by side and over again: main() of *)
(* platform-support-service, platform-model-service and                    *)
(* platform-cli-runtime-service up to where they serve, and the support    *)
(* service's two loops that hand access sets and telemetry profiles to the *)
(* egress service.  What starts is one instance of a release; a rollout    *)
(* or rollback is a start with another release.                            *)
(*                                                                         *)
(* Shared: the Postgres schema, migrated in one transaction under an       *)
(* advisory lock; the Temporal schedules, by id; the egress service's      *)
(* sets, by id.  Each call to Temporal or to the egress service takes      *)
(* effect at once or not at all.                                           *)
(***************************************************************************)
EXTENDS Naturals, Sequences, Functions

CONSTANTS
  Supports, ModelServers, Runtimes,  \* instances of the three services
  NoInstance,       \* owner of the advisory lock when it is free
  Steps,            \* the schema steps, see SchemaMigrations
  Legacy,           \* tables of releases that are gone
  Releases,         \* releases, as numbers
  Deployed,         \* Deployed[i]: the releases instance i may be started as
  Known,            \* Known[r]: how many of Steps release r brings
  SupportNeeds, ModelNeeds, RuntimeNeeds,  \* tables the services read and write
  AccessSets,       \* StartupExternalAccessSets, in order
  TelemetrySets,    \* the telemetry profile set; <<>> if there are no profiles
  Refused           \* sets the egress service never accepts

Instances == Supports \cup ModelServers \cup Runtimes
Scheduling == Supports \cup ModelServers
Schedules == {"cli-runtime-version-sync", "model-maintenance"}
ScheduleOf(i) == IF i \in Supports THEN "cli-runtime-version-sync" ELSE "model-maintenance"
Required(i) == IF i \in Supports THEN SupportNeeds
               ELSE IF i \in ModelServers THEN ModelNeeds ELSE RuntimeNeeds
Loops == {"access", "telemetry"}
SetsOf(k) == IF k = "access" THEN AccessSets ELSE TelemetrySets
Sets == Range(AccessSets) \cup Range(TelemetrySets)

ASSUME StartupAssumption ==
  /\ NoInstance \notin Instances
  /\ Supports \cap ModelServers = {}
  /\ Scheduling \cap Runtimes = {}
  /\ Releases \subseteq Nat \ {0}
  /\ Deployed \in [Instances -> SUBSET Releases]
  /\ Known \in [Releases -> Nat]
  /\ \A r \in Releases : Known[r] <= Len(Steps)

\* A release brings the tables its services need.
ASSUME NeedsAssumption ==
  \A i \in Instances : \A r \in Deployed[i] :
    Required(i) \subseteq UNION {Steps[n].creates : n \in 1 .. Known[r]}

\* Sets have ids of their own.
ASSUME SetsAssumption ==
  /\ AccessSets \in Seq(Range(AccessSets))
  /\ TelemetrySets \in Seq(Range(TelemetrySets))
  /\ Range(AccessSets) \cap Range(TelemetrySets) = {}
  /\ \A m, n \in DOMAIN AccessSets : m # n => AccessSets[m] # AccessSets[n]

\* Every version and every table is one step's; none drops what another makes.
ASSUME StepsAssumption ==
  /\ Steps \in Seq([version : Nat, needs : SUBSET STRING,
                     creates : SUBSET STRING, drops : SUBSET STRING])
  /\ \A m, n \in DOMAIN Steps :
       /\ m # n => Steps[m].version # Steps[n].version
       /\ m # n => Steps[m].creates \cap Steps[n].creates = {}
       /\ Steps[m].creates \cap (Steps[n].drops \cup Legacy) = {}

VARIABLES
  tables, applied,  \* the committed schema and the recorded versions
  lockOwner,        \* holder of the advisory lock
  stage, release,   \* stage[i]: how far i has come; release[i]: what it runs, or 0
  next,             \* next[i]: the step Migrate looks at
  draft,            \* draft[i]: the schema as i's open transaction sees it
  schedule,         \* schedule[c]: the release whose schedule c has, or 0
  cursor,           \* cursor[i][k]: the set loop k of i applies; 0: not running
  egress            \* egress[a]: the release whose set a is applied, or 0

databaseVars == <<tables, applied, lockOwner>>
instanceVars == <<stage, release, next, draft>>
egressVars == <<cursor, egress>>
vars == <<databaseVars, instanceVars, schedule, egressVars>>

Stages == {"down", "locking", "migrating", "migrated", "updating", "scheduled", "serving"}
Versions == {Steps[n].version : n \in DOMAIN Steps}
Tables == Legacy \cup UNION {Steps[n].creates : n \in DOMAIN Steps}
Schema(T, V) == [tables |-> T, applied |-> V]
NoDraft == Schema({}, {})

TypeOK ==
  /\ tables \in SUBSET Tables
  /\ applied \in SUBSET Versions
  /\ lockOwner \in Instances \cup {NoInstance}
  /\ stage \in [Instances -> Stages]
  /\ release \in [Instances -> Releases \cup {0}]
  /\ next \in [Instances -> Nat \ {0}]
  /\ draft \in [Instances -> [tables : SUBSET Tables, applied : SUBSET Versions]]
  /\ schedule \in [Schedules -> Releases \cup {0}]
  /\ cursor \in [Supports -> [Loops -> Nat]]
  /\ egress \in [Sets -> Releases \cup {0}]
  /\ \A i \in Instances : lockOwner = i <=> stage[i] = "migrating"
  /\ \A i \in Supports, k \in Loops :
       IF stage[i] = "serving" THEN cursor[i][k] \in 1 .. Len(SetsOf(k)) + 1
                               ELSE cursor[i][k] = 0

\* What the first n steps leave of the tables T.
SchemaAfter(T, n) ==
  Schema((T \ UNION {Steps[k].drops : k \in 1 .. n})
           \cup UNION {Steps[k].creates : k \in 1 .. n},
         {Steps[k].version : k \in 1 .. n})

\* The database is empty, or as some earlier release left it.
Init ==
  /\ \E n \in 0 .. Len(Steps), T \in {{}, Legacy} :
       /\ \E r \in Releases : n <= Known[r]
       /\ tables = SchemaAfter(T, n).tables
       /\ applied = SchemaAfter(T, n).applied
  /\ lockOwner = NoInstance
  /\ stage = [i \in Instances |-> "down"]
  /\ release = [i \in Instances |-> 0]
  /\ next = [i \in Instances |-> 1]
  /\ draft = [i \in Instances |-> NoDraft]
  /\ schedule = [c \in Schedules |-> 0]
  /\ cursor = [i \in Supports |-> [k \in Loops |-> 0]]
  /\ egress = [a \in Sets |-> 0]

-----------------------------------------------------------------------------
(* OpenPostgres: Connect, then Migrate.                                    *)

\* A process starts, reaches the database and opens its transaction.
Begin(i, r) ==
  /\ stage[i] = "down"
  /\ stage' = [stage EXCEPT ![i] = "locking"]
  /\ release' = [release EXCEPT ![i] = r]
  /\ UNCHANGED <<databaseVars, next, draft, schedule, egressVars>>

\* Mutation: who does not get the lock leaves the migration to its holder.
LockOrSkip(i) ==
  /\ stage[i] = "locking"
  /\ IF lockOwner = NoInstance
     THEN /\ lockOwner' = i
          /\ stage' = [stage EXCEPT ![i] = "migrating"]
          /\ draft' = [draft EXCEPT ![i] = Schema(tables, applied)]
     ELSE /\ stage' = [stage EXCEPT ![i] = "migrated"]
          /\ UNCHANGED <<lockOwner, draft>>
  /\ UNCHANGED <<tables, applied, release, next, schedule, egressVars>>

\* Mutation: nobody waits.
LockNothing(i) ==
  /\ stage[i] = "locking"
  /\ stage' = [stage EXCEPT ![i] = "migrating"]
  /\ draft' = [draft EXCEPT ![i] = Schema(tables, applied)]
  /\ UNCHANGED <<databaseVars, release, next, schedule, egressVars>>

\* pg_advisory_xact_lock returns; statements now see what is committed.
Lock(i) ==
  /\ stage[i] = "locking"
  /\ lockOwner = NoInstance
  /\ lockOwner' = i
  /\ stage' = [stage EXCEPT ![i] = "migrating"]
  /\ next' = [next EXCEPT ![i] = 1]
  /\ draft' = [draft EXCEPT ![i] = Schema(tables, applied)]
  /\ UNCHANGED <<tables, applied, release, schedule, egressVars>>

StepDue(i) == stage[i] = "migrating" /\ next[i] <= Known[release[i]]

\* A recorded version is skipped ...
SkipStep(i) ==
  /\ StepDue(i)
  /\ Steps[next[i]].version \in draft[i].applied
  /\ next' = [next EXCEPT ![i] = @ + 1]
  /\ UNCHANGED <<databaseVars, stage, release, draft, schedule, egressVars>>

\* Mutation: statements outside the transaction, which only records.
RunStepAtOnce(i) ==
  LET step == Steps[next[i]]
  IN  /\ StepDue(i)
      /\ step.version \notin draft[i].applied
      /\ step.needs \subseteq tables
      /\ tables' = (tables \ step.drops) \cup step.creates
      /\ draft' = [draft EXCEPT ![i] =
           Schema(tables', draft[i].applied \cup {step.version})]
      /\ next' = [next EXCEPT ![i] = @ + 1]
      /\ UNCHANGED <<applied, lockOwner, stage, release, schedule, egressVars>>

\* ... any other step runs and is recorded, in the transaction.  It fails,
\* and the process exits, if a table it needs is not there.
RunStep(i) ==
  LET step == Steps[next[i]]
  IN  /\ StepDue(i)
      /\ step.version \notin draft[i].applied
      /\ step.needs \subseteq draft[i].tables
      /\ draft' = [draft EXCEPT ![i] =
           Schema((@.tables \ step.drops) \cup step.creates, @.applied \cup {step.version})]
      /\ next' = [next EXCEPT ![i] = @ + 1]
      /\ UNCHANGED <<databaseVars, stage, release, schedule, egressVars>>

\* The commit frees the lock.
CommitMigration(i) ==
  /\ stage[i] = "migrating"
  /\ next[i] > Known[release[i]]
  /\ tables' = draft[i].tables
  /\ applied' = draft[i].applied
  /\ lockOwner' = NoInstance
  /\ stage' = [stage EXCEPT ![i] = "migrated"]
  /\ next' = [next EXCEPT ![i] = 1]
  /\ draft' = [draft EXCEPT ![i] = NoDraft]
  /\ UNCHANGED <<release, schedule, egressVars>>

-----------------------------------------------------------------------------
(* temporalruntime.Start: EnsureIntervalSchedule, then the worker.         *)

\* Create succeeds ...
CreateSchedule(i) ==
  /\ stage[i] = "migrated"
  /\ i \in Scheduling
  /\ schedule[ScheduleOf(i)] = 0
  /\ schedule' = [schedule EXCEPT ![ScheduleOf(i)] = release[i]]
  /\ stage' = [stage EXCEPT ![i] = "scheduled"]
  /\ UNCHANGED <<databaseVars, release, next, draft, egressVars>>

\* Mutation: a schedule that is there is left as it is.
KeepSchedule(i) ==
  /\ stage[i] = "migrated"
  /\ i \in Scheduling
  /\ schedule[ScheduleOf(i)] # 0
  /\ stage' = [stage EXCEPT ![i] = "scheduled"]
  /\ UNCHANGED <<databaseVars, release, next, draft, schedule, egressVars>>

\* ... or says that the schedule is already running ...
FindSchedule(i) ==
  /\ stage[i] = "migrated"
  /\ i \in Scheduling
  /\ schedule[ScheduleOf(i)] # 0
  /\ stage' = [stage EXCEPT ![i] = "updating"]
  /\ UNCHANGED <<databaseVars, release, next, draft, schedule, egressVars>>

\* ... which Update then replaces, whoever wrote it.
UpdateSchedule(i) ==
  /\ stage[i] = "updating"
  /\ i \in Scheduling
  /\ schedule' = [schedule EXCEPT ![ScheduleOf(i)] = release[i]]
  /\ stage' = [stage EXCEPT ![i] = "scheduled"]
  /\ UNCHANGED <<databaseVars, release, next, draft, egressVars>>

\* Listeners, health and the loops of the support service.
Serve(i) ==
  /\ \/ stage[i] = "scheduled"
     \/ stage[i] = "migrated" /\ i \in Runtimes
  /\ stage' = [stage EXCEPT ![i] = "serving"]
  /\ cursor' = IF i \in Supports
               THEN [cursor EXCEPT ![i] = [k \in Loops |-> 1]]
               ELSE cursor
  /\ UNCHANGED <<databaseVars, release, next, draft, schedule, egress>>

-----------------------------------------------------------------------------
(* syncStartupExternalAccessSets and syncStartupRuntimeTelemetryProfiles:  *)
(* each sends its sets in order, and starts over when one fails.           *)

Applies(i, k, a) ==
  /\ stage[i] = "serving"
  /\ cursor[i][k] \in DOMAIN SetsOf(k)
  /\ SetsOf(k)[cursor[i][k]] = a

ApplySet(i, k, a) ==
  /\ Applies(i, k, a)
  /\ a \notin Refused
  /\ egress' = [egress EXCEPT ![a] = release[i]]
  /\ cursor' = [cursor EXCEPT ![i][k] = @ + 1]
  /\ UNCHANGED <<databaseVars, instanceVars, schedule>>

\* The call takes effect, and its answer is lost.
ApplyUnanswered(i, k, a) ==
  /\ Applies(i, k, a)
  /\ a \notin Refused
  /\ egress' = [egress EXCEPT ![a] = release[i]]
  /\ cursor' = [cursor EXCEPT ![i][k] = 1]
  /\ UNCHANGED <<databaseVars, instanceVars, schedule>>

\* Mutation: the round goes on after an error.
ApplyPasses(i, k, a) ==
  /\ Applies(i, k, a)
  /\ cursor' = [cursor EXCEPT ![i][k] = @ + 1]
  /\ UNCHANGED <<databaseVars, instanceVars, schedule, egress>>

\* Mutation: one attempt.
ApplyGivesUp(i, k, a) ==
  /\ Applies(i, k, a)
  /\ cursor' = [cursor EXCEPT ![i][k] = Len(SetsOf(k)) + 1]
  /\ UNCHANGED <<databaseVars, instanceVars, schedule, egress>>

\* The call fails: after retryInterval the round starts again.
ApplyFails(i, k, a) ==
  /\ Applies(i, k, a)
  /\ cursor' = [cursor EXCEPT ![i][k] = 1]
  /\ UNCHANGED <<databaseVars, instanceVars, schedule, egress>>

-----------------------------------------------------------------------------
\* Mutation: a session lock on a pooled connection, which outlives the
\* transaction that is rolled back.
ExitKeepsLock(i) ==
  /\ stage[i] # "down"
  /\ stage' = [stage EXCEPT ![i] = "down"]
  /\ release' = [release EXCEPT ![i] = 0]
  /\ next' = [next EXCEPT ![i] = 1]
  /\ draft' = [draft EXCEPT ![i] = NoDraft]
  /\ cursor' = IF i \in Supports
               THEN [cursor EXCEPT ![i] = [k \in Loops |-> 0]]
               ELSE cursor
  /\ UNCHANGED <<databaseVars, schedule, egress>>

\* A call above fails and must() exits, the process crashes, or a signal
\* ends it: Postgres rolls back its transaction and frees its lock, and the
\* loops end with their context.
Exit(i) ==
  /\ stage[i] # "down"
  /\ stage' = [stage EXCEPT ![i] = "down"]
  /\ release' = [release EXCEPT ![i] = 0]
  /\ next' = [next EXCEPT ![i] = 1]
  /\ lockOwner' = IF lockOwner = i THEN NoInstance ELSE lockOwner
  /\ draft' = [draft EXCEPT ![i] = NoDraft]
  /\ cursor' = IF i \in Supports
               THEN [cursor EXCEPT ![i] = [k \in Loops |-> 0]]
               ELSE cursor
  /\ UNCHANGED <<tables, applied, schedule, egress>>

Boot(i) ==
  \/ SkipStep(i) \/ RunStep(i) \/ CommitMigration(i)
  \/ CreateSchedule(i) \/ FindSchedule(i) \/ UpdateSchedule(i) \/ Serve(i)

SyncStep(i, k, a) ==
  ApplySet(i, k, a) \/ ApplyUnanswered(i, k, a) \/ ApplyFails(i, k, a)

Next ==
  \/ \E i \in Instances :
       Lock(i) \/ Boot(i) \/ Exit(i) \/ \E r \in Deployed[i] : Begin(i, r)
  \/ \E i \in Supports, k \in Loops : \E a \in Range(SetsOf(k)) : SyncStep(i, k, a)

\* Advisory locks are granted in the order they were asked for; a started
\* process goes on; the egress service accepts a set that is offered to it
\* again and again, unless it refuses it always.
Fairness ==
  /\ \A i \in Instances : SF_vars(Lock(i)) /\ WF_vars(Boot(i))
  /\ \A i \in Supports, k \in Loops : \A a \in Range(SetsOf(k)) \ Refused :
       SF_vars(ApplySet(i, k, a))

Spec == Init /\ [][Next]_vars /\ Fairness

-----------------------------------------------------------------------------
\* The recorded versions tell the schema, whatever migrates and dies: what a
\* recorded step creates is there and what it drops is gone, and nothing is
\* there of a step that is not recorded.
Whole(T, V) ==
  \A n \in DOMAIN Steps :
    IF Steps[n].version \in V
    THEN Steps[n].creates \subseteq T /\ Steps[n].drops \cap T = {}
    ELSE Steps[n].creates \cap T = {}

SchemaIsWhole == Whole(tables, applied)

\* Migrations exclude each other: while one is open, no other commits a
\* version it has not seen, so recording a version never fails on its key.
MigrationsExclude ==
  \A i \in Instances : stage[i] = "migrating" => applied \subseteq draft[i].applied

\* The list is in an order that works for every database an earlier release
\* left behind: a step finds the tables it needs.
StepsFindTheirTables ==
  \A i \in Instances :
    StepDue(i) /\ Steps[next[i]].version \notin draft[i].applied =>
      Steps[next[i]].needs \subseteq draft[i].tables

\* A service that has opened the database finds its tables there, while
\* other releases migrate, too.
ServingFindsTables ==
  \A i \in Instances :
    stage[i] \notin {"down", "locking", "migrating"} => Required(i) \subseteq tables

\* When every instance that keeps a schedule has seen to it, the schedule is
\* that of a release that runs: racing starts do not leave one that nobody
\* runs any more.
ScheduleOfRunningRelease ==
  \A c \in Schedules :
    LET Owners == {i \in Scheduling : ScheduleOf(i) = c}
    IN  /\ Owners # {}
        /\ \A i \in Owners : stage[i] \in {"scheduled", "serving"}
        => \E i \in Owners : schedule[c] = release[i]

\* The same of a set, when every support instance is through with its list.
SetOfRunningRelease ==
  \A k \in Loops : \A a \in Range(SetsOf(k)) :
    /\ Supports # {}
    /\ \A i \in Supports : cursor[i][k] = Len(SetsOf(k)) + 1
    => \E i \in Supports : egress[a] = release[i]

\* The rules of a later access set name the proxy of an earlier one: a set
\* is there only if those before it are.
RulesFindTheirProxy ==
  \A n, m \in DOMAIN AccessSets :
    m < n /\ egress[AccessSets[n]] # 0 => egress[AccessSets[m]] # 0

\* Who waits for the lock comes to serve or exits.
StartupEnds ==
  \A i \in Instances : stage[i] = "locking" ~> stage[i] \in {"serving", "down"}

\* Sets with no refused set before them in their list are applied, however
\* often calls fail, and whatever becomes of the other list.
AcceptedSetsArrive ==
  \A i \in Supports, k \in Loops : \A n \in DOMAIN SetsOf(k) :
    (\A m \in 1 .. n : SetsOf(k)[m] \notin Refused) =>
      (stage[i] = "serving" ~> egress[SetsOf(k)[n]] # 0 \/ stage[i] = "down")

=============================================================================
