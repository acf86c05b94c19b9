# Formal models of the platform catalog

TLA+ specifications of the services in `packages/platform-k8s` (abbreviated
`PK` below), TLC configurations that check them on small instances, and TLAPS
proofs for every value of the constants. `PROJECT.json` maps each definition
to the source lines it stands for, and lists runs, mutants, hazards, findings
and theorems.

    tlc -workers 2 -config MCOutboxSafety.cfg MCOutbox
    tlc -workers 2 -config MCBus.cfg EventBus
    tlapm EventBusProofs.tla

## 1. The system

Three binaries share one Postgres database, one NATS JetStream stream, one
Temporal server and one Kubernetes namespace.

| binary | what it runs |
|---|---|
| `cmd/platform-model-service` | model gRPC server, model sync worker, an outbox publisher |
| `cmd/platform-support-service` | reference-data gRPC server, CLI sync and image build workers, an outbox publisher, the image build event consumer, two startup loops |
| `cmd/platform-cli-runtime-service` | CLI runtime gRPC server, HTTP trigger for the CLI sync |

### Components

| component (under `PK/internal`) | state | operations | what is hard | what makes it correct |
|---|---|---|---|---|
| outbox, `platform/domainevents/outbox.go`, `publisher.go` | table `platform_domain_outbox`; cached connection | Enqueue, EnqueueTx, Claim, PublishPending, MarkPublished, MarkFailed, Close | several publishers, overlapping claims, lost replies, crashes, dedup window | nothing lost, nothing phantom, duplicates only past the window, every committed event published |
| consumer, `platform/domainevents/consumer.go` | table `platform_domain_consumer_events`; broker's delivery state | Run, handle, processed, markProcessed | redelivery, crash between effect and record, replicas sharing a durable | acked only if recorded, recorded only if handled, given up only after MaxDeliver attempts that failed or got lost |
| CLI version sync, `cliruntimeservice/cliversions`, `cliruntime/service.go` | table `platform_cli_version_snapshots` | SyncCLIVersions: Load, resolve sources, fetch, Save, deleteStale, plan, dispatch | overlapping syncs, a failure at any statement, stale reads | builds requested for saved versions, snapshots not lost, table catches up |
| image build, `cliruntime/image_build_job*.go`, `temporal_*.go` | Temporal workflows, Jobs, registry tags | HandleDomainEvent, RunImageBuild, wait, prune | check-then-create of jobs, retries that meet an old Job, retention | a completed build has its image, the newest tag survives, every workflow ends |
| image lookup, `cliruntime/registry_lookup.go`, `server.go` | none | latest available tag, image record | reads tags while Jobs push and prune by another order | what was built is found; answers do not go back |
| model registry, `modelservice/models/store` | entries, aliases, observations tables | Upsert, Delete, List, Resolve, pagination | generations, event in the same transaction, concurrent writers; reads of several statements | every committed change has its event; a listing misses nothing; a stable name resolves |
| model sync, `modelservice/models/sync` | none of its own | collect, merge, apply | sources failing independently, concurrent syncs | definitions survive an outage of their source; the registry catches up |
| sources, merge and names, `modelservice/models/source`, `models/*.go`, `modelidentity` | none | normalise, canonicalise, merge, rank sources | several items, authors and sources speak of one model | each field from the best source that says it; every published name finds its model |
| bootstrap, `platform/state` | schema, `platform_schema_migrations` | Migrate | several services and releases at startup, crashes | steps and record agree, services find their tables |
| schedules, `platform/temporalruntime` | Temporal schedule | create or update | the same | schedule of a release that runs |
| startup syncs, `supportservice/*_sync.go` | none | apply access sets, telemetry profiles | retry loops, refused sets | everything accepted arrives, rules after their proxy |
| support reference data, `supportservice`, `platform/vendors`, `platform/clidefinitions` | embedded YAML | list, get, capabilities | - | resolution picks the declared entry |
| credential policy, `supportservice/credentialpolicy` | static tables | authorise material reads | - | nothing granted that no rule names |
| HTTP triggers, `platform/triggerhttp` | in-flight call | start a sync | overlaps the schedule | - |
| discovery, outbound HTTP, telemetry, `api/v1alpha1` | none | I/O, parsing, generated code | - | - |

### Interactions

```
 sources --> model sync --> model store --EnqueueTx--+
                                                     +--> outbox table --> publishers --> JetStream
              schedule, HTTP triggers                |                     (one per         stream
                        |                            |                      service)           |
 npm / Homebrew --> CLI sync ----------Enqueue-------+                                         v
                                                                                       durable consumer
 lookups --> registry tags <-- Kubernetes Job <-- Temporal workflow <-- HandleDomainEvent -----+
```

The outbox table is the only thing producers share with publishers, the stream
the only thing publishers share with the consumer, the registry's tags the
only thing builds share with lookups. At startup the services share the
schema, the schedules and the egress service's sets.

## 2. Plan

1. **Event bus** (done): `Outbox`, `EventConsumer`, their composition
   `EventBus`, the abstract `EventDelivery`; safety proofs.
2. **CLI version sync** (done): `CLIVersionSync` with proofs.
3. **Image build and lookup** (done): `ImageBuild` with Temporal attempts, the
   job runner's list-then-create, Jobs kept for a day, tag retention, with
   proofs; `RuntimeImageLookup` beside it. Left: the composition of version
   sync, outbox and build, for a version that is released again while its old
   request id is still in the outbox (the one hazard without a property).
4. **Model registry and model sync** (done): `ModelRegistry` (transactions,
   generations, events, concurrent writers) refining `ModelCatalog`;
   `ModelQueries`, the reads of that catalog; `ModelSync` on top of it, with
   `DefinitionMerge` and `SourceCatalogs` for what sources say; proofs of all
   of them.
5. **Startup** (done): `ServiceStartup` over the schema steps of
   `SchemaMigrations`, with proofs.
6. **Left to model**: capability resolution and credential policy, decisions
   over static tables; the HTTP triggers' own handling of calls.
7. **Proofs** (done): every invariant and action property of the passing
   runs. Left: a property of a version released again (3) and its proof; with
   the composition, that the parts' invariants hold in it.

No module uses RECURSIVE operators. What has to go through a sequence item by
item (`LatestAvailableTag`, `MergeItems`) is a recursive function, which the
proofs can expand; rows are put in order by counting (`InOrder`).

## 3. Modules

### Outbox

State: `row`, `createdAt` and `clock` are the table; `phase`, `batch`,
`current`, `conn` are a publisher's program counter, claimed records, record
in hand and cached connection; `stream`, `window`, `expiries` are the
JetStream stream and its deduplication.

| action | code |
|---|---|
| BeginEnqueue, CommitEnqueue, RollbackEnqueue | `EnqueueTx` in a producer's transaction; `Enqueue` is the first two in a row |
| ClaimRows, ClaimCommit, ClaimError | `Claim`: one statement, its locks last until it ends |
| Connect, ConnectError | `jetStream`, `ensureStream` |
| Publish, PublishError | `PublishMsg`; an error may hide a stored message; `MarkFailed` |
| MarkPublished, MarkPublishedError | the update, and the early return from the batch |
| LoseConnection | the NATS client closes for good; the handle stays cached |
| RestartPublisher | crash or `Close`, and a new process |
| LeaveWindow | the stream's `Duplicates` window passes (external) |

Two details carry weight. `now()` is the *start* of the inserting transaction,
so a late commit can enter the order ahead of rows already claimed.
`RETURNING` promises no order, so a claimed batch is a set and any member may
be published next; order between events is promised nowhere, and their only
handler needs none.

Abstractions: an event id stands for the row with subject and payload;
enqueuing an id that is already there is `on conflict do nothing`, a stutter;
a transaction enqueues one event, so `created_at` is unique and the tie-break
on `event_id` does not matter; an empty claim and `MarkFailed` change nothing
the model keeps; `MarkPublished` waiting for a row lock commutes with the end
of the claim that holds it.

### EventConsumer

`floor`, `delivered`, `outstanding`, `settled` are the broker's view of one
durable consumer, `inbox`, `step`, `job`, `running` the loops of its replicas,
`processed` the idempotency table. `handled`, `interrupted` and `failed` are
history: effects per event, events whose effect was not recorded at once,
attempts that ended in an error or a crash or got lost on their way. No action
reads them.

| action | code |
|---|---|
| Deliver, AckTimeout, Expire | the broker, from the consumer and stream configuration (external) |
| LoseDelivery | a delivery on the wire when the connection of `connect` breaks: it is made again by itself and `Next` reports nothing, or the process is gone |
| Terminate, CheckError, AlreadyProcessed, StartHandler | `handle` up to the handler call, one early return each |
| HandlerReturns, HandlerError, MarkProcessed, MarkError | the rest of `handle` |
| RunReturns | `Run` returns on an error of `Next`; nothing restarts it |
| RestartConsumer | the process dies anywhere in `handle`; the new one may fail to start its loop |
| Arrive | a producer (replaced by the outbox in `EventBus`) |

Acks, naks and terms ignore their errors in the code, so each may be lost; so
may a delivery, and the broker has counted it. What a client has buffered
survives a reconnect, hence only a loop that ends drops it. A handler error
may hide an effect (starting a Temporal workflow can time out and succeed), and
so may an error of the insert.

### EventBus and EventDelivery

`EventBus` extends `Outbox` and instantiates `EventConsumer` on its stream.
`EventDelivery` is the promise: accepted, relayed, effected and recorded
events, each a growing set, each only from the one before. The refinement
reads them off the tables (`accepted` are committed rows, `relayed` rows
marked published, `effected` events handled at least once, `recorded` the
idempotency table).

### CLIVersionSync

Statement by statement: `Load`, `Fetch`/`FetchError` per CLI, `NothingNew`
(the states are equal) or `BeginSave`, `Put` per row, `ListStale`,
`DeleteStale` per row, `Plan`, `DispatchImageBuild`/`DispatchError` per
request, `Finish`; `PutError`, `CleanError` and `Crash` anywhere between. Go
map iteration and the list of requests become sets: every order is allowed.
`Init` allows any rows earlier syncs may have left. `Configured` are the
registered CLIs whose source `ResolveSource` accepts; a CLI whose source has
lost its package name is an error of the sync and at once not configured, so
its snapshot goes, unlike that of a failed fetch. A service without a planner
is `Images = {}`. `ListedImages` is what `ListCLIRuntimeRecords` shows of the
table. `lost` is history: requests whose sync stopped after saving their
version.

### ImageBuild and RuntimeImageLookup

Per request: the latest workflow run (`run`, `runs`, `attempt`) and where its
activity stands (`step`); the `job` as its status tells it, and its pod
(`pods`, `pod`, `doomed`, the temporary file of the prune script). The
registry is `tags`, with `created`, the creation time of each image.
`overlapped` and `misjudged` are history: repositories on which two Jobs
worked at once, or with a tag that could not be inspected.

| action | code |
|---|---|
| StartRun | `HandleDomainEvent`, `DispatchImageBuild`: USE_EXISTING while a run is open |
| ListJobs, BuildInProgress | `activeBuildExists` |
| GetJob, CreateJob, CreateError | look the Job up by name, create it; a failed call may have created it |
| Complete, JobFailed | `wait`; a failed Job stays, and the next attempt meets it again |
| AttemptError | any other error, the hour of `wait`, a dead worker |
| StartPod, PodFails, Deadline, RemoveJob | Kubernetes, from the job spec: two pods, an hour, removal after a day |
| BuildAndPush | the init container |
| ListTags, InspectTags, DeleteTag, JobSucceeds | the prune script |

Abstractions. A request names its workflow, its Job and its tag, since all
three are derived from the request id or the version; hash prefixes of ten
digits do not collide. Creation times are distinct; an image built from cache
again keeps its time. The prune script runs under `sh -e` without `pipefail`:
an error of `regctl tag ls` is hidden by the pipe and counts as an empty list,
a failing deletion ends the script (`PodFails`). The output of `regctl image
inspect --format` is taken to be one word, as the script's `awk '{print $2}'`
expects; were it to hold spaces, every deletion of an inspected tag would
fail, which `PodFails` also covers. A timed-out attempt whose worker is still
alive is not modelled besides its retry: a call that it still has in flight is
`CreateError` with the Job created.

`RuntimeImageLookup` adds no variable: a lookup of a repository reads its tags
once and changes nothing, so `Answers` is the set of what a lookup may say in
a state, over every order in which the registry may list (`TagLists`).
`IsLaterTag` compares versions if both are semantic ones and strings
otherwise, as the code does. Retention goes by creation time, the lookup by
version; `CompletedIsServed` and `AnswersGoForward` say how far the two agree.

### ModelRegistry, ModelCatalog and ModelQueries

`ModelCatalog` is the promise: upserts and deletions of a model take effect
one at a time, each with its event. `ModelRegistry` gets there with the
transactions of the code at read committed: `entries` and `events` are what is
committed, `phase`, `target`, `wanted`, `found` an open transaction.

| action | code |
|---|---|
| BeginWaiting, Lock | `select ... for update` of a row that exists; it waits, and sees the newest version |
| BeginMissing | the same without a row: nothing is locked |
| Write, Insert | the statements after it; an insert waits for a competing one and fails if that commits |
| CommitUpsert, CommitDelete | commit, with the outbox row of `EnqueueTx` |
| Rollback | any error, duplicate keys among them, or a crash |

What is delicate is what PostgreSQL does with those who wait for a row that is
deleted: their select returns no rows, so a deletion ends and an upsert
becomes an insert (`CommitDelete`). Aliases and observations are computed from
what is upserted, replaced in the same transaction and deleted with the entry,
so they are part of the definition. The order of `events` is the commit order;
the outbox claims by the start of the transaction and keeps no order anyway.

`ModelQueries` extends `ModelCatalog` with a client and its calls, which is
sound because `ModelRegistry` implements the catalog and each statement of a
reader sees one committed state. Readers write nothing, so one stands for all.

| action | code |
|---|---|
| StartList, ReadPage, ReturnPage, ListError | `List`: the rows of a page and one more, then their sources, two statements; the client follows the token, with another page size each time if it likes |
| StartResolve, ResolveInVendor | `ResolveModelRef` with a vendor, by `getRegistryEntry` |
| ResolveById, ResolveByAlias, ResolveError | without: two statements |
| Forget | the client starts anew |
| Change | a commit of some writer |

`since` is history: the states of the table since the client asked first.
Filters are records of the clauses of the predicate. A category filter fails
as soon as a matching row has a category, and a lifecycle filter excludes
nothing, since its key is not the stored one (section 6). Which texts contain
a word is given by `Containing`.

### ModelSync, DefinitionMerge and SourceCatalogs

`SyncNow`: `Start`, one `Collect` or `CollectError` per source, `BeginMerge`,
a `Merge` per source in order of authority, `List`, an `Upsert` per collected
model, `BeginDelete`, a `Delete` per stale model, `Finish`; `StoreError` and
`Stop` end it early. A source that fails is an empty or incomplete answer: the
collectors log and go on, and the author by author source returns what it has.
An upsert or deletion is one step, which is what `ModelRegistry` is shown to
implement; generations and events stay there.

`DefinitionMerge` is what a definition consists of and how two of them become
one: `Filled` takes the fields one leaves open from the other and unites names
and sources; the better one is the one with the source of highest authority.

`SourceCatalogs` computes what a collector tells a sync (`told`) or tells when
it is cut short (`cut`) from the items of a catalog: owners to vendors
(`ResolveVendor`, with aliases two vendors claim), names down to a canonical
form by one release suffix (`Canonical`), the rest kept as aliases, items that
are not text models or are previews skipped, several items of one model
brought together (`MergeItems`, by canonical slug and route at a router, the
first one elsewhere), pages of authors in any order, and the defaults that are
filled in before anything is merged. A hub is asked for the authors that may
stand for a managed vendor, its id, the capitalised id and its registered
aliases (`AuthorCandidates`); the pages of other authors are never read. `ModelSync` takes the results as
`Catalogs`; `MCModelSync` computes them, and TLC evaluates
`ModelSyncAssumption` on them. That whatever is published satisfies it, for
items as `AreItems` has them, is proved.

### ServiceStartup and SchemaMigrations

`main()` of the three services up to where they serve, and the support
service's two loops. An instance starts as a release (`Begin`), a rollout or
rollback is a start with another one; `tables` and `applied` are the committed
schema, `draft` an open migration's view of it, `lockOwner` the advisory lock,
`schedule` and `egress` the release that wrote a schedule or set last.

| action | code |
|---|---|
| Begin, Lock | `OpenPostgres`, `Migrate`: the transaction and `pg_advisory_xact_lock` |
| SkipStep, RunStep, CommitMigration | the loop over the steps: recorded ones are skipped, others run and are recorded in the same transaction |
| CreateSchedule, FindSchedule, UpdateSchedule | `EnsureIntervalSchedule`: create, and update what is already there |
| Serve | listeners and loops |
| ApplySet, ApplyUnanswered, ApplyFails | one call of `syncStartupExternalAccessSets` or `syncStartupRuntimeTelemetryProfiles`; after an error the round starts again |
| Exit | `must`, a crash or a signal: the transaction rolls back |

`SchemaMigrations` has every step of `migrations.go` as the tables it needs,
creates and drops. Columns, indexes and the rewriting of rows are left out. A
call to Temporal or to the egress service takes effect at once or not at all.
`Init` starts from the empty database and from what any earlier release may
have left, tables of releases before these steps included.

### Mutation operators

Definitions under a comment `Mutation:` are what a plausible mistake would
turn a definition after them into (a dropped guard, a missing reset, a swapped
order). Nothing uses them; each property of a passing run is violated when its
mutant takes the original's place, which shows that the property says
something about that code.

## 4. Runs

| run | instance | shows |
|---|---|---|
| outbox_safety | 2 events, 2 publishers, batch 1, 3 transactions, 1 expiry | no event lost, none phantom, duplicates explained, finished for good |
| consumer_safety | 2 events, 2 messages, 2 replicas, 2 attempts | no early ack, no empty record, given up only when every attempt failed or got lost |
| bus | 2 events, one of them unpublishable, 1 publisher, batch 2, 1 consumer, 2 attempts | refinement of `EventDelivery`; nothing falls between the parts; repeats explained; a committed event is processed, abandoned or expired in the end |
| sync | 2 CLIs (one whose source lost its name), 2 versions, 2 syncs, 1 release | no interleaving drops a build request or deletes a snapshot it has seen; the table catches up |
| sync_race | 2 configured CLIs, 2 syncs | a violation: section 6 |
| build | 2 requests, 1 repository, keep 1, 2 attempts, 2 pods, 2 creation times, tags 9.0.0 and 10.0.0 | a completed build has its image and lookups tell it, or it was displaced; the newest image is kept; answers go forward; every run ends |
| build_race | 2 requests, 2 repositories | a violation: section 6 |
| registry | 1 model, 2 definitions, 3 transactions, no start after 5 events | refinement of `ModelCatalog`, coherent events that tell the table |
| queries | 3 models of 2 vendors, 2 of one id, 2 definitions, 3 page sizes, 4 filters | a listing misses and repeats nothing, a search finds a model by its names, a name that keeps its meaning resolves to it |
| model_sync | 3 models of 2 vendors (1 managed), 2 sources, 2 syncs, 1 release, 2 failures | models of a managed vendor go only on its word; what is written is what the best source that answered said; the registry comes to agree with the sources field by field; published names are found |
| startup | 2 support and 1 model instance, 2 releases, 14 schema steps, 3 sets | migrations exclude each other, services find their tables, schedules and sets are those of a release that runs, rules come after their proxy |
| startup_live | 1 support and 1 CLI runtime instance, 4 sets, one always refused | a start that waits for the lock ends; accepted sets arrive |

Type invariants. Where `TypeOK` is proved for all values of the constants
(section 5), which is everywhere, the runs spend no time on it; TLC checks
that of `EventConsumer`.

Bounds: `MaxClock` caps transactions, `MaxExpiries` dedup expiries per event,
`MaxMessages` stream positions, `MaxReleases` upstream changes, `MaxEvents`
and `MaxChanges` those of the model table; all of them sit in guards. Three
transactions for two events leave room for a rollback and a second try. One
expiry gives the one duplicate that overlapping claims or lost replies can
cause. Two attempts separate the last attempt from one that is not. Two syncs
suffice for a stale read and a write in between; one CLI that is not
configured makes deletion happen. Batch 1 makes the two publishers claim in
turn over the same rows. In the bus run, batch 2 makes the unpublishable row
share a batch with the one that matters; a batch of one would starve
everything behind the unpublishable row: that is a mutant of that run, and the
reason the property speaks of fewer than `BatchSize` such rows. Symmetry is
used in the two runs without liveness that profit (publishers, replicas: no
property names one) and for the registry's transactions.

In the build runs `MaxRuns` caps the workflow runs per request and `MaxPushes`
the images with a new creation time. Two requests with `Keep` 1 make retention
delete; two attempts let the second meet the first one's Job, still running,
failed or removed; two pods separate the last from one that is not. A second
run per request adds nothing an attempt does not do, and the safety properties
are proved for any number of runs. The two tags are chosen so that the higher
version is the smaller string, and either may be built last. Tags without a
semantic version are in the model, but not in the instance, which so is one of
those `VersionsAreOrdered` (section 5) speaks of.

In the registry run one model is enough, since transactions of different
models touch nothing in common; three transactions are one that deletes, one
that waits for it and one that inserts in between. `MaxEvents` 5 is a life
with an update, a second creation and an update of that.

In the queries run two vendors share a model id, and one definition has
another model's id among its aliases, so that names are ids, aliases, both or
ambiguous from one statement to the next. `DefaultSize` 1 and `MaxSize` 2 put
the boundaries of 50 and 100 within reach, `Sizes` has one below, one at and
one beyond them, and three models make up to three pages. Three changes while
the client asks let a row come, go and come again between two pages. The
filters are none, a vendor and a source, a category, and a search for a word
that is one model's id, an alias of others and part of a display name.
`AnswerWasRight` is stated for at most one change during a call without a
vendor: with two, an id that comes and an alias that goes between the two
statements make a right "not found" impossible to find in any one state.

In the model_sync run `MaxFailures` counts failed answers, transactions and
calls: two allow an outage and a sync that stops halfway. Its catalogs are
computed by `SourceCatalogs`. The hub is asked author by author: two authors,
v1's capitalised id and its nickname, publish the old model under two release
names, a preview and a stranger's model are in between, and a third author has
a page nobody asks for; the router
offers the old model twice, under a route and a canonical slug. v3, a preset
source of models, claims v1's id as an alias; v2 is registered no more.
`MCInit` fixes the registry (old models, from times when the hub said more of
them) and the first catalogs, a choice that keeps the run small; what is
proved holds from every start `Init` allows.

In the startup runs the steps are all those of the code. Two releases are the
one before the last step and this one, and support instances start as either;
the database is empty or as any step left it. Two support instances race for
one schedule and the same sets. The access sets are a proxy and the rules that
name it, which startup_live follows with a set that is always refused.

Deadlock checking is off in the build runs and the registry run only: once the
build events are handled and their Jobs removed the system rests, and so does
the registry when `MaxEvents` is reached. Elsewhere publishers and processes
can always restart, a client can always give up, a sync can always start
again.

Fairness. Outbox: the ticker calls `PublishPending` forever, and database and
broker calls tried again and again succeed in the end, hence strong fairness
on the successful steps; each publish attempt ends (client timeout), hence
weak fairness on its disjunction. Nothing is assumed of `MarkPublishedError`,
`LoseConnection` or restarts; the property itself asks that some publisher is
not left with a closed connection for ever. Consumer: timers fire, of
deliveries made again and again to a loop that keeps asking one arrives (but
there are `MaxDeliver` only, and all may be lost), `handle` always returns; no
call has to succeed. The property asks that some loop is running again and
again, because the code does not restart one. Sync: the schedule starts a sync
again, and every call in it returns, successfully or not; that failures stop
is the antecedent of `TableCatchesUp`. Image build: Temporal schedules the
next attempt, and an attempt ends, since its calls return and waiting is
limited to an hour; of Kubernetes nothing is assumed. Model sync: as the
version sync; failures stop because `MaxFailures` bounds them. Startup:
PostgreSQL grants an advisory lock in the order of requests, hence strong
fairness on `Lock`; a started process goes on until it exits, hence weak
fairness on its steps; the egress service accepts a set that is offered again
and again, unless it refuses it always, hence strong fairness on `ApplySet`.
No process has to stay alive, none has to start, and the properties end with
one that exits.

## 5. Proofs

All for arbitrary constants, under the named assumptions of the modules
(`OutboxAssumption`, `ConsumerAssumption`, `BusAssumption`, `SyncAssumption`,
`BuildAssumption`, `LookupAssumption`, `RegistryAssumption`,
`QueryAssumption`, `ModelSyncAssumption`, `StartupAssumption`,
`NeedsAssumption`, `SetsAssumption`, `StepsAssumption`): finite sets of events
and loops, sizes that are naturals, which constants are subsets of or differ
from which, that rows have distinct ranks and sources distinct authority
(their ids break ties), that a source speaks of managed vendors only and names
itself as the source, that a release brings the tables its services need, and
that no schema step drops what another creates. TLC evaluates each on the real
schema steps and catalogs of the instances.

* **EventConsumerProofs**: `TypeOK`, `SettledIsProcessed`,
  `ProcessedIsHandled` and `AbandonedAfterFailures`, for any number of
  replicas. The invariant (`ConsumerInv`) adds that every delivery in a buffer
  or in hand names a stored, decodable message, and that a message being
  marked has been handled. For `AbandonedAfterFailures` attempts are counted
  (`AttemptsInv`): each delivery of a message that is not settled has failed or
  was lost on its way (both are counted in `failed`), waits in one buffer or is in one loop's hands, so that `delivered` is
  `failed` plus the cardinalities of two finite sets. A message nobody holds
  has failed or got lost as often as it was delivered; an acknowledged one is on
  record.
  `RepeatInv` (an event that was not interrupted took effect once at most, and is
  then on record or being marked) holds for one loop and serves the composition.
* **EventBusProofs**, the outbox first: `TypeOK`, `PublishedIsStored`,
  `StoredIsCommitted`, `DuplicatesAreExplained`, and the action property
  `FinishedForGood`. None of them is inductive. The invariant (`OutboxInv`)
  adds: a record in hand has been stored (from `Publish` on, and a store is
  for ever); a claimed record is of a committed row (rows never go back); an
  id in the window is stored. The copies of an event number at most its
  expiries plus one if its id is in the window, at most its expiries
  otherwise (`CopiesInv`), counted by cardinality lemmas about appending.
  `FinishedForGood` follows step by step: only a claim leads to a publication,
  and only unpublished rows are claimed.
  Then the composition: the parts' invariants hold in it (`BusInv`), and
  `BusSpec => KeepsPromise`: each step of either side is a step of
  `EventDelivery` or a stutter. An effect is allowed because what is stored
  was committed, a record because what is marked was handled.
  `NothingFallsBetween` rests on the attempts and on the stream's bound: a
  message is told from all others by its event and the number of earlier
  copies, so by the pigeonhole principle deduplication keeps the stream within
  `StreamBound`, and no message is stored that the consumer has no place for.
  `RepeatIsExplained` is `RepeatInv` of the one loop.
* **CLIVersionSyncProofs**: `TypeOK`, `SavedIsRequested` and
  `SeenSnapshotIsKept`. The invariant says that the version each *sync* is
  about to write is covered (requested, lost, or at stake in some sync), that
  every loaded version is covered, that an unchanged version is the loaded
  one, and that covered requests only grow, which is what makes the stale
  writes of another sync harmless here. `SeenSnapshotIsKept` has an invariant
  of its own: what a sync loaded of a configured CLI stays in `next`, and it
  only deletes what is not in `next`.
* **ImageBuildProofs**: `TypeOK`, `CompletedIsAvailable` and `NewestIsKept`,
  for any number of requests and any retention. The invariant says that
  whoever reports an image (a completed run, a succeeded Job, a pod past the
  push) has pushed it; that every pushed image is in the registry or
  *displaced*, with `Keep` newer ones in its repository; that what a prune
  script is about to delete is displaced; and that two Jobs at work on one
  repository are noted. The last is needed because a push by the second Job
  could renew a tag the first is about to delete. Displacement is stable since
  newer images only become more. For `NewestIsKept` the list of an undisturbed
  prune script stays true of the registry, and each tag it selects has a newer
  one it keeps.
  The lookup: `CompletedIsServed` and `AnswersGoForward`, under the hypothesis
  `VersionsAreOrdered`, that the tags of one repository are distinct semantic
  versions. Without it `compareCLITags` is no order (section 6), and
  which tag a lookup tells depends on how the registry lists them. With it the pass over the tags keeps the highest version, in
  whatever order the registry lists them (`LatestIsHighest`: there is no least
  number of tags after which it has not), and a completed build's image or
  what displaced it is among them. `AnswersGoForward` holds since nothing but
  retention takes an answer back.
* **ModelRegistryProofs**: `TypeOK`, `LifeIsCoherent`, `LastEventIsRow`, and
  that `ModelRegistry` implements `ModelCatalog`, for any number of
  transactions. The invariant says that no two transactions hold the same row,
  that whoever holds an existing row has found the committed one, and that an
  uncommitted insert is of a model without a row; so at commit `found` is what
  the catalog has, and the commit is the catalog's step.
* **ModelQueriesProofs**: `ListingIsExact`, `SearchFindsName`,
  `StableNameResolves` and `AnswerWasRight`, for any table, filters, page
  sizes and number of changes. `InOrder` is shown to be a strictly sorted
  sequence of all the rows (the n-th row is the one that n rows do not exceed,
  and counting them is a bijection), so a page is a gapless start of what lies
  beyond the token, and not empty unless nothing does. `HistoryInv` says that
  the present table is in `since`, and that two tables that are all of it
  differ in one row; `ListedInv` that what is listed is strictly in order,
  matched in some of those tables, and has all that matched in every one of
  them up to the token; `PageInv` the same of a page whose sources are still
  to be read; `AnswerInv` that an answer is what the name meant in one table
  of `since`, or what the aliases of one table say when another did not have
  the id.
* **ModelSyncProofs**: `TypeOK`, `RemovalIsExplained` and `WritesAreTold`,
  for any number of overlapping syncs and any catalogs. The invariant says
  that the snapshot has a model if and only if one of the answers merged so
  far speaks of it (merging neither drops nor invents one, and yields a
  definition), that a sync upserts only what its snapshot names, and that it
  deletes only what the snapshot does not name and need not keep. `TruthInv`,
  for `WritesAreTold`, says what the snapshot's definition is: each field from
  the best of the sources merged so far that says it, names and sources of all
  of them. Since answers are merged best first, each source's definition is
  outranked by what is there, so what is missing is taken from it and nothing
  is taken back; after the last source that is `Truth` of the answers.
  The last part is about `SourceCatalogs`. `CatalogsAreSayable` proves of
  every catalog, in whichever order its pages arrive and whichever fail, what
  `ModelSyncAssumption` supposes, and TLC evaluates its hypotheses on the
  instance (`CatalogsAreRead`). `PublishedIsTold` says that a collector tells
  exactly the models that usable items come down to, and that a definition
  bears every name a router's items, or the first item of another source, give
  to the model. The second half is why `NamesResolve` excepts other items.
* **ServiceStartupProofs**: `TypeOK`, `SchemaIsWhole`, `MigrationsExclude`,
  `ServingFindsTables`, `ScheduleOfRunningRelease`, `SetOfRunningRelease` and
  `RulesFindTheirProxy`, for any instances, releases, steps and sets. The
  invariant says that only the holder of the lock migrates, that an open
  migration sees all that is committed and that what it sees is whole and has
  every step it is past; that whoever is past its migration finds every
  version its release knows, whatever older release migrates after it; and
  that of a set every loop is past, an instance that still runs was the last
  to apply it. The last two are what makes a restart harmless: an instance
  that exits is no longer past anything. `StepsFindTheirTables` holds of any
  list of steps in which each finds its tables among those the steps before it
  leave (`InOrder`), which `MigrationsInOrder` shows of the code's list. This
  is stronger than that one complete run succeeds: a database an earlier
  release left may lack any later step.

Only model-checked: liveness, that is `CommittedIsProcessed`, `TableCatchesUp`,
`RunsEnd`, `RegistryCatchesUp`, `NamesResolve`, `StartupEnds` and
`AcceptedSetsArrive`, as the prover has no `ENABLED` and no fairness reasoning
here. The library's induction theorems take an operator as a parameter, which
no prover here instantiates. Where a proof goes along a sequence
(`LatestAvailableTag`, `MergeItems`, `FlattenSeq`) it counts up to its length
by the least counterexample in a well-founded set instead (`CountingUp`,
`LeastNatural`); what such a proof needs of the recursion, that its function
exists, is a lemma of its own (`RecursionHasSolution`, `LatestIsPass`).

## 6. Findings

`sync_race`: `TestSyncerSyncAllKeepsPreviousSnapshotOnFetchFailure` in
`cliversions/syncer_test.go` states that a failed fetch keeps the previous
snapshot. With one sync at a time it does: a sync deletes nothing that it has
loaded (`SeenSnapshotIsKept`). With two, sync A loads an empty table, sync B
saves the first version of a CLI, A's fetch of that CLI fails while another
CLI's succeeds, and A's `deleteStale` removes the row that B saved, because it
is not in what A loaded. The schedule skips overlaps with itself, but the HTTP
triggers call the service directly. A later sync repairs the table
(`TableCatchesUp`) and the outbox id keeps the build from being requested
twice.

`build_race`: `ErrBuildInProgress` refuses a build while another is active,
but the list and the create are separate calls: two activities list, both find
nothing, both create. If the two builds are of one repository, one's prune
script may then delete a tag the other has just pushed again, which is why
`CompletedIsAvailable` excepts such repositories.

Seen while modelling and not stated as findings, because no document promises
otherwise:

* *Outbox and sync.* `BatchSize` unpublishable rows starve the outbox; a
  closed NATS connection is never replaced; a consumer whose `Run` returned
  stays stopped; a delivery lost at a reconnect costs one of the eight attempts,
  so that fewer handler failures than eight may end in the event being given
  up; a sync that fails between saving and dispatching loses its
  builds until the next version; a CLI whose source lost its package name
  loses its snapshot.
* *Image build.* A tag that cannot be inspected counts as created in the year
  1, so one failing call to the registry makes the newest image the first to
  go (`misjudged`); `compareCLITags` is no order where tags with and without a
  semantic version meet; one repository that cannot be listed fails the lookup
  of all.
* *Model sync.* A vendor of whom one source still speaks loses the models that
  only a failing source knows of, until that source is back
  (`RemovalIsExplained` says exactly this and no more). Defaults are put in
  before two sources are merged, so a source of authority that says nothing of
  a defaulted field hides what another says of it. A hosted source that offers
  a model under two release names keeps the alias of the first only
  (`NamesResolve` excepts it). Category and life cycle are set by no source.
* *Model store.* `getRegistryEntry` (`postgres_management.go:74`) compares a
  wrapped error with `==`, so a missing row is no not-found error, and a name
  that is an alias within a vendor is not resolved by `ResolveModelRef` with
  that vendor. The category filter (`query_list.go:153`) casts the stored name
  of an enum to an integer and fails on the first row that has one; the life
  cycle filter (`query_list.go:160`) looks under `lifecycleStatus`, but
  `lifecycle_status` is stored. `store_write.go:42` writes
  `nullif(source_model_id, '')` into a column that is not null. The sources of
  a page are read after its rows, so an item may show one version's definition
  with another's sources. Nothing writes the table of model cards.
* *Startup.* An instance of an older release that starts last puts its
  schedule back over a newer one, and updating it also resumes a paused
  schedule. `main` returns as soon as a signal arrives and does not wait for
  the calls that `GracefulStop` lets finish.

## 7. Not modelled

* HTTP triggers: they start syncs, which the overlapping syncs stand for;
  their own request handling is left.
* Support reference data, capability resolution and credential policy: pure
  lookups in static tables; nothing changes state (plan, 6).
* HTTP clients, payload decoding and paging of sources, request building,
  generated code, error mapping of the gRPC servers, telemetry: I/O without
  state of their own. Which field of a payload says what is left to the items
  of the catalogs.
* `GetModelCard`: it reads a table nothing in the services writes. The table
  is nonetheless among those the model service must find (`ModelTables`).
  Organizations: no service opens their store.
* The ModelScope owner guesses are in `SourceCatalogs` (`Guessed`), but no
  source of the instance guesses; badges and display order are left out.
* `MarkFailed`'s text and the attempts counter: nothing reads them. Order
  between events: the code promises none, and the models allow every order.
* Columns and rewritten rows of the schema steps.
