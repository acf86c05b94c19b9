--------------------------- MODULE CLIVersionSync ---------------------------
(***************************************************************************)
(* The CLI version sync: Service.SyncCLIVersions over Syncer.Sync, the     *)
(* snapshot table platform_cli_version_snapshots and the image build       *)
(* requests it puts into the domain event outbox.  A sync is started by    *)
(* the hourly Temporal schedule and by the HTTP triggers of two services,  *)
(* with no lock between them, so several may run at once.                  *)
(*                                                                         *)
(* A snapshot is its version: updated_at changes only when the version     *)
(* does.  A request is named by its RequestID, <<cli, version, target>>,   *)
(* which is also the outbox key: asking twice is asking once.              *)
(***************************************************************************)
EXTENDS Naturals, FiniteSets

CONSTANTS
  CLIs,         \* CLI ids, past and present
  Registered,   \* CLIs of the static registry
  Source,       \* Source[c]: the kind of version source c is registered with
  Versions,     \* versions a source may report
  NoVersion,    \* no row
  Images,       \* <<cli, build target>> of every registered container image
  Syncs,        \* sync calls that may run at the same time
  MaxReleases   \* bound: changes of the upstream versions

ASSUME SyncAssumption ==
  /\ Registered \subseteq CLIs
  /\ NoVersion \notin Versions
  /\ \A i \in Images : i[1] \in CLIs
  /\ MaxReleases \in Nat

\* ResolveSource: a CLI without a source, or with one whose package or cask
\* has no name or whose kind is unknown, counts as not configured.
Configured == {c \in Registered : Source[c] \in {"npm_dist_tag", "homebrew_cask"}}

VARIABLES
  upstream,   \* upstream[c]: what the source of c would answer now
  releases,   \* how often that changed
  snapshot,   \* snapshot[c]: the row of c
  requests,   \* build requests in the outbox
  phase,      \* phase[s]: where sync s stands
  base,       \* base[s]: the state it loaded (current)
  next,       \* next[s]: the state it is building and saving
  todo,       \* todo[s]: CLIs left to fetch, put or delete
  changes,    \* changes[s]: CLIs whose version it found changed
  unsent,     \* unsent[s]: requests left to dispatch
  lost        \* requests whose sync failed after saving the version (history)

worldVars == <<upstream, releases>>
syncVars == <<phase, base, next, todo, changes, unsent>>
vars == <<worldVars, snapshot, requests, syncVars, lost>>

Snapshots == [CLIs -> Versions \cup {NoVersion}]

\* RequestsForChanges: one request per image of a changed CLI.
Requests(state, C) == {<<i[1], state[i[1]], i[2]>> : i \in {j \in Images : j[1] \in C}}

\* The images that ListCLIRuntimeRecords shows with the rows: those planned
\* for each version, whether they have been built or not.
ListedImages == Requests(snapshot, {c \in CLIs : snapshot[c] # NoVersion})

RequestIDs == {<<i[1], v, i[2]>> : i \in Images, v \in Versions}

TypeOK ==
  /\ upstream \in [CLIs -> Versions]
  /\ releases \in 0 .. MaxReleases
  /\ snapshot \in Snapshots
  /\ requests \in SUBSET RequestIDs
  /\ phase \in [Syncs -> {"idle", "fetching", "saving", "cleaning", "dispatching"}]
  /\ base \in [Syncs -> Snapshots]
  /\ next \in [Syncs -> Snapshots]
  /\ todo \in [Syncs -> SUBSET CLIs]
  /\ changes \in [Syncs -> SUBSET CLIs]
  /\ unsent \in [Syncs -> SUBSET RequestIDs]
  /\ lost \in SUBSET RequestIDs

NoSnapshots == [c \in CLIs |-> NoVersion]

\* Rows of earlier syncs, of CLIs still registered or not, with the requests
\* that went with them.
Init ==
  /\ upstream \in [CLIs -> Versions]
  /\ releases = 0
  /\ snapshot \in Snapshots
  /\ requests = ListedImages
  /\ phase = [s \in Syncs |-> "idle"]
  /\ base = [s \in Syncs |-> NoSnapshots]
  /\ next = [s \in Syncs |-> NoSnapshots]
  /\ todo = [s \in Syncs |-> {}]
  /\ changes = [s \in Syncs |-> {}]
  /\ unsent = [s \in Syncs |-> {}]
  /\ lost = {}

-----------------------------------------------------------------------------
\* The source of c publishes v (or takes a release back).
Release(c, v) ==
  /\ releases < MaxReleases
  /\ v # upstream[c]
  /\ upstream' = [upstream EXCEPT ![c] = v]
  /\ releases' = releases + 1
  /\ UNCHANGED <<snapshot, requests, syncVars, lost>>

\* A call ends, whatever way.
Done(s) ==
  /\ phase' = [phase EXCEPT ![s] = "idle"]
  /\ base' = [base EXCEPT ![s] = NoSnapshots]
  /\ next' = [next EXCEPT ![s] = NoSnapshots]
  /\ todo' = [todo EXCEPT ![s] = {}]
  /\ changes' = [changes EXCEPT ![s] = {}]
  /\ unsent' = [unsent EXCEPT ![s] = {}]

\* What Sync starts from: the loaded rows, but those of CLIs that are not
\* configured, which it takes out before it saves.
Starting(state) == [c \in CLIs |-> IF c \in Configured THEN state[c] ELSE NoVersion]

\* Load reads every row in one query.
Load(s) ==
  /\ phase[s] = "idle"
  /\ phase' = [phase EXCEPT ![s] = "fetching"]
  /\ base' = [base EXCEPT ![s] = snapshot]
  /\ next' = [next EXCEPT ![s] = Starting(snapshot)]
  /\ todo' = [todo EXCEPT ![s] = Configured]
  /\ UNCHANGED <<worldVars, snapshot, requests, changes, unsent, lost>>

\* Mutation: a first version is not reported as a change.
FetchSilentFirst(s, c) ==
  /\ phase[s] = "fetching"
  /\ c \in todo[s]
  /\ todo' = [todo EXCEPT ![s] = @ \ {c}]
  /\ next' = [next EXCEPT ![s][c] = upstream[c]]
  /\ changes' = [changes EXCEPT ![s] =
                   IF base[s][c] \in {NoVersion, upstream[c]} THEN @ ELSE @ \cup {c}]
  /\ UNCHANGED <<worldVars, snapshot, requests, phase, base, unsent, lost>>

\* The source of c answers; an unchanged version keeps the loaded snapshot.
Fetch(s, c) ==
  /\ phase[s] = "fetching"
  /\ c \in todo[s]
  /\ todo' = [todo EXCEPT ![s] = @ \ {c}]
  /\ next' = [next EXCEPT ![s][c] = upstream[c]]
  /\ changes' = [changes EXCEPT ![s] = IF upstream[c] = base[s][c] THEN @ ELSE @ \cup {c}]
  /\ UNCHANGED <<worldVars, snapshot, requests, phase, base, unsent, lost>>

\* Mutation: a failed fetch takes the CLI out of next.
FetchErrorForgets(s, c) ==
  /\ phase[s] = "fetching"
  /\ c \in todo[s]
  /\ todo' = [todo EXCEPT ![s] = @ \ {c}]
  /\ next' = [next EXCEPT ![s][c] = NoVersion]
  /\ UNCHANGED <<worldVars, snapshot, requests, phase, base, changes, unsent, lost>>

\* It does not: the error is kept for the end, and so is the old snapshot.
FetchError(s, c) ==
  /\ phase[s] = "fetching"
  /\ c \in todo[s]
  /\ todo' = [todo EXCEPT ![s] = @ \ {c}]
  /\ UNCHANGED <<worldVars, snapshot, requests, phase, base, next, changes, unsent, lost>>

\* Mutation: nothing is saved unless some version changed.
NothingNewIgnoresStale(s) ==
  /\ phase[s] = "fetching"
  /\ todo[s] = {}
  /\ changes[s] = {}
  /\ Done(s)
  /\ UNCHANGED <<worldVars, snapshot, requests, lost>>

\* reflect.DeepEqual(current, next): nothing to save, and no changes.
NothingNew(s) ==
  /\ phase[s] = "fetching"
  /\ todo[s] = {}
  /\ next[s] = base[s]
  /\ Done(s)
  /\ UNCHANGED <<worldVars, snapshot, requests, lost>>

\* Save writes every snapshot of next, changed or not, one statement each,
\* in map order and outside any transaction ...
BeginSave(s) ==
  /\ phase[s] = "fetching"
  /\ todo[s] = {}
  /\ next[s] # base[s]
  /\ phase' = [phase EXCEPT ![s] = "saving"]
  /\ todo' = [todo EXCEPT ![s] = {c \in CLIs : next[s][c] # NoVersion}]
  /\ UNCHANGED <<worldVars, snapshot, requests, base, next, changes, unsent, lost>>

Put(s, c) ==
  /\ phase[s] = "saving"
  /\ c \in todo[s]
  /\ snapshot' = [snapshot EXCEPT ![c] = next[s][c]]
  /\ todo' = [todo EXCEPT ![s] = @ \ {c}]
  /\ UNCHANGED <<worldVars, requests, phase, base, next, changes, unsent, lost>>

\* ... then lists the table and deletes every row that is not in next.
ListStale(s) ==
  /\ phase[s] = "saving"
  /\ todo[s] = {}
  /\ phase' = [phase EXCEPT ![s] = "cleaning"]
  /\ todo' = [todo EXCEPT ![s] =
                {c \in CLIs : snapshot[c] # NoVersion /\ next[s][c] = NoVersion}]
  /\ UNCHANGED <<worldVars, snapshot, requests, base, next, changes, unsent, lost>>

DeleteStale(s, c) ==
  /\ phase[s] = "cleaning"
  /\ c \in todo[s]
  /\ snapshot' = [snapshot EXCEPT ![c] = NoVersion]
  /\ todo' = [todo EXCEPT ![s] = @ \ {c}]
  /\ UNCHANGED <<worldVars, requests, phase, base, next, changes, unsent, lost>>

\* Changes sync s has written and not yet turned into requests.
Written(s) ==
  CASE phase[s] = "saving" -> changes[s] \ todo[s]
    [] phase[s] = "cleaning" -> changes[s]
    [] OTHER -> {}

\* Requests that get lost when s stops here.
AtStake(s) == Requests(next[s], Written(s)) \cup unsent[s]

\* A statement of Save fails (it may have taken effect): Sync returns
\* nil, err, and with the result go the changes.
PutError(s, c) ==
  /\ phase[s] = "saving"
  /\ c \in todo[s]
  /\ \/ /\ snapshot' = snapshot
        /\ lost' = lost \cup AtStake(s)
     \/ /\ snapshot' = [snapshot EXCEPT ![c] = next[s][c]]
        /\ lost' = lost \cup Requests(next[s], (Written(s) \cup {c}) \cap changes[s])
  /\ Done(s)
  /\ UNCHANGED <<worldVars, requests>>

CleanError(s) ==
  /\ \/ phase[s] = "saving" /\ todo[s] = {} /\ snapshot' = snapshot
     \/ /\ phase[s] = "cleaning"
        /\ \E c \in todo[s] :
             snapshot' \in {snapshot, [snapshot EXCEPT ![c] = NoVersion]}
  /\ lost' = lost \cup AtStake(s)
  /\ Done(s)
  /\ UNCHANGED <<worldVars, requests>>

\* Sync returns, and the planner turns its changes into requests.
Plan(s) ==
  /\ phase[s] = "cleaning"
  /\ todo[s] = {}
  /\ phase' = [phase EXCEPT ![s] = "dispatching"]
  /\ unsent' = [unsent EXCEPT ![s] = Requests(next[s], changes[s])]
  /\ UNCHANGED <<worldVars, snapshot, requests, base, next, todo, changes, lost>>

\* Enqueue, with "on conflict do nothing".
DispatchImageBuild(s, r) ==
  /\ phase[s] = "dispatching"
  /\ r \in unsent[s]
  /\ requests' = requests \cup {r}
  /\ unsent' = [unsent EXCEPT ![s] = @ \ {r}]
  /\ UNCHANGED <<worldVars, snapshot, phase, base, next, todo, changes, lost>>

\* Enqueue fails; the loop goes on with the other requests.
DispatchError(s, r) ==
  /\ phase[s] = "dispatching"
  /\ r \in unsent[s]
  /\ requests' \in {requests, requests \cup {r}}
  /\ lost' = lost \cup {r}
  /\ unsent' = [unsent EXCEPT ![s] = @ \ {r}]
  /\ UNCHANGED <<worldVars, snapshot, phase, base, next, todo, changes>>

Finish(s) ==
  /\ phase[s] = "dispatching"
  /\ unsent[s] = {}
  /\ Done(s)
  /\ UNCHANGED <<worldVars, snapshot, requests, lost>>

\* The process dies between two statements; Temporal or the next hour
\* starts over with Load.
Crash(s) ==
  /\ phase[s] # "idle"
  /\ lost' = lost \cup AtStake(s)
  /\ Done(s)
  /\ UNCHANGED <<worldVars, snapshot, requests>>

-----------------------------------------------------------------------------
WorkStep(s) ==
  \/ Load(s) \/ NothingNew(s) \/ BeginSave(s) \/ ListStale(s) \/ Plan(s) \/ Finish(s)
  \/ \E c \in CLIs : Fetch(s, c) \/ Put(s, c) \/ DeleteStale(s, c)
  \/ \E r \in RequestIDs : DispatchImageBuild(s, r)

FailStep(s) ==
  \/ CleanError(s) \/ Crash(s)
  \/ \E c \in CLIs : FetchError(s, c) \/ PutError(s, c)
  \/ \E r \in RequestIDs : DispatchError(s, r)

Next ==
  \/ \E c \in CLIs, v \in Versions : Release(c, v)
  \/ \E s \in Syncs : WorkStep(s) \/ FailStep(s)

Spec == Init /\ [][Next]_vars

\* The schedule keeps starting syncs, and every call in one returns.
Fairness == \A s \in Syncs : WF_vars(WorkStep(s) \/ FailStep(s))

FairSpec == Spec /\ Fairness

-----------------------------------------------------------------------------
\* ListCLIRuntimeRecords lists no image that nobody asked to build: a version
\* in the table has its builds requested, or its sync is still on the way to
\* request them, or that sync failed after saving it.  No interleaving of
\* syncs drops a request by itself.
SavedIsRequested ==
  ListedImages \subseteq requests \cup lost \cup UNION {AtStake(s) : s \in Syncs}

\* A configured CLI loses its snapshot only to a sync that saw none when it
\* loaded the table: a failed fetch, a save that stops half way or a crash
\* takes away nothing the sync knows of.
SeenSnapshotIsKept ==
  [][\A c \in Configured :
       snapshot[c] # NoVersion /\ snapshot'[c] = NoVersion =>
         \E s \in Syncs : phase[s] = "cleaning" /\ base[s][c] = NoVersion]_vars

\* A configured CLI keeps its snapshot whatever fails, another sync's
\* fetch included.
SnapshotIsKept ==
  [][\A c \in Configured : snapshot[c] # NoVersion => snapshot'[c] # NoVersion]_vars

\* Once calls stop failing the table comes to agree with the sources, and
\* rows of CLIs that are not configured disappear, whatever half-finished
\* saves left behind and however syncs overlap.
TableCatchesUp ==
  <>[][\E s \in Syncs : WorkStep(s)]_vars =>
    /\ \A c \in Configured : <>[](snapshot[c] = upstream[c])
    /\ \A c \in CLIs \ Configured : <>[](snapshot[c] = NoVersion)

=============================================================================
