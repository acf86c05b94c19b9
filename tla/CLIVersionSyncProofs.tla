------------------------ MODULE CLIVersionSyncProofs ------------------------
(***************************************************************************)
(* Proofs about CLIVersionSync, for any number of CLIs, images and         *)
(* overlapping syncs.                                                      *)
(***************************************************************************)
EXTENDS CLIVersionSync, TLAPS

(***************************************************************************)
(* The inductive invariant.  A request is covered when it is in the        *)
(* outbox, lost with a failed sync, or carried by a running one; covered   *)
(* requests stay covered.  SavedIsRequested needs more than the table,     *)
(* because a sync writes back what it loaded long ago: that was covered    *)
(* then (LoadedIsCovered), and everything else it writes is a change of    *)
(* its own (UnchangedIsLoaded).                                            *)
(***************************************************************************)
Covered == requests \cup lost \cup UNION {AtStake(s) : s \in Syncs}

CoveredState(state, c) ==
  \A i \in Images :
    i[1] = c /\ state[c] # NoVersion => <<c, state[c], i[2]>> \in Covered

SnapshotIsCovered == \A c \in CLIs : CoveredState(snapshot, c)

LoadedIsCovered == \A s \in Syncs, c \in CLIs : CoveredState(base[s], c)

UnchangedIsLoaded ==
  \A s \in Syncs, c \in CLIs :
    c \in changes[s] \/ next[s][c] \in {NoVersion, base[s][c]}

ChangesHaveVersions == \A s \in Syncs : \A c \in changes[s] : next[s][c] \in Versions

IdleIsClean == \A s \in Syncs : phase[s] = "idle" => changes[s] = {}

UnsentIsDispatched == \A s \in Syncs : phase[s] # "dispatching" => unsent[s] = {}

SyncInv ==
  /\ TypeOK
  /\ ChangesHaveVersions
  /\ IdleIsClean
  /\ UnsentIsDispatched
  /\ UnchangedIsLoaded
  /\ LoadedIsCovered
  /\ SnapshotIsCovered

-----------------------------------------------------------------------------
LEMMA ConfiguredAreCLIs == Configured \subseteq CLIs
BY SyncAssumption DEF Configured

LEMMA RequestsType ==
  ASSUME NEW state, NEW C, \A c \in C : state[c] \in Versions
  PROVE  Requests(state, C) \in SUBSET RequestIDs
BY DEF Requests, RequestIDs

LEMMA RequestsMonotonic ==
  ASSUME NEW state, NEW C, NEW D, C \subseteq D
  PROVE  Requests(state, C) \subseteq Requests(state, D)
BY DEF Requests

LEMMA WrittenIsChanged ==
  ASSUME NEW s \in Syncs PROVE Written(s) \subseteq changes[s]
BY DEF Written

LEMMA AtStakeType ==
  ASSUME TypeOK, ChangesHaveVersions, NEW s \in Syncs
  PROVE  AtStake(s) \in SUBSET RequestIDs
<1>1. Requests(next[s], Written(s)) \in SUBSET RequestIDs
  BY WrittenIsChanged, RequestsType DEF ChangesHaveVersions
<1> QED BY <1>1 DEF AtStake, TypeOK

LEMMA TypeInit == Init => TypeOK
<1> SUFFICES ASSUME Init PROVE TypeOK
  OBVIOUS
<1>1. requests \in SUBSET RequestIDs
  <2>1. \A c \in {d \in CLIs : snapshot[d] # NoVersion} : snapshot[c] \in Versions
    BY DEF Init, Snapshots
  <2> QED BY <2>1, RequestsType DEF Init, ListedImages
<1>2. NoSnapshots \in Snapshots
  BY DEF NoSnapshots, Snapshots
<1> QED BY <1>1, <1>2, SyncAssumption DEF Init, TypeOK

LEMMA DoneType ==
  ASSUME TypeOK, NEW s \in Syncs, Done(s)
  PROVE  /\ phase' \in [Syncs -> {"idle", "fetching", "saving", "cleaning", "dispatching"}]
         /\ base' \in [Syncs -> Snapshots]
         /\ next' \in [Syncs -> Snapshots]
         /\ todo' \in [Syncs -> SUBSET CLIs]
         /\ changes' \in [Syncs -> SUBSET CLIs]
         /\ unsent' \in [Syncs -> SUBSET RequestIDs]
<1>1. NoSnapshots \in Snapshots
  BY DEF NoSnapshots, Snapshots
<1> QED BY <1>1 DEF Done, TypeOK

LEMMA TypeStep == TypeOK /\ ChangesHaveVersions /\ [Next]_vars => TypeOK'
<1> SUFFICES ASSUME TypeOK, ChangesHaveVersions, [Next]_vars PROVE TypeOK'
  OBVIOUS
<1> USE SyncAssumption, ConfiguredAreCLIs DEF worldVars, syncVars
<1>1. CASE UNCHANGED vars
  BY <1>1 DEF vars, TypeOK
<1>2. ASSUME NEW c \in CLIs, NEW v \in Versions, Release(c, v) PROVE TypeOK'
  BY <1>2 DEF Release, TypeOK
<1>3. ASSUME NEW s \in Syncs, WorkStep(s) PROVE TypeOK'
  <2>1. CASE Load(s)
    <3>1. Starting(snapshot) \in Snapshots
      BY DEF TypeOK, Snapshots, Starting
    <3> QED BY <2>1, <3>1 DEF Load, TypeOK
  <2>2. CASE NothingNew(s) \/ Finish(s)
    BY <2>2, DoneType DEF NothingNew, Finish, TypeOK
  <2>3. CASE BeginSave(s) \/ ListStale(s)
    BY <2>3 DEF BeginSave, ListStale, TypeOK
  <2>4. CASE Plan(s)
    <3>1. Requests(next[s], changes[s]) \in SUBSET RequestIDs
      BY RequestsType DEF ChangesHaveVersions
    <3> QED BY <2>4, <3>1 DEF Plan, TypeOK
  <2>5. ASSUME NEW c \in CLIs, Fetch(s, c) PROVE TypeOK'
    <3>1. next' \in [Syncs -> Snapshots]
      BY <2>5 DEF Fetch, TypeOK, Snapshots
    <3>2. changes' \in [Syncs -> SUBSET CLIs] /\ todo' \in [Syncs -> SUBSET CLIs]
      BY <2>5 DEF Fetch, TypeOK
    <3> QED BY <2>5, <3>1, <3>2 DEF Fetch, TypeOK
  <2>6. ASSUME NEW c \in CLIs, Put(s, c) \/ DeleteStale(s, c) PROVE TypeOK'
    <3>1. snapshot' \in Snapshots
      <4>1. snapshot' \in {[snapshot EXCEPT ![c] = v] : v \in {next[s][c], NoVersion}}
        BY <2>6 DEF Put, DeleteStale
      <4>2. next[s][c] \in Versions \cup {NoVersion}
        BY DEF TypeOK, Snapshots
      <4> QED BY <4>1, <4>2 DEF TypeOK, Snapshots
    <3>2. todo' \in [Syncs -> SUBSET CLIs]
      BY <2>6 DEF Put, DeleteStale, TypeOK
    <3> QED BY <2>6, <3>1, <3>2 DEF Put, DeleteStale, TypeOK
  <2>7. ASSUME NEW r \in RequestIDs, DispatchImageBuild(s, r) PROVE TypeOK'
    BY <2>7 DEF DispatchImageBuild, TypeOK
  <2> QED BY <1>3, <2>1, <2>2, <2>3, <2>4, <2>5, <2>6, <2>7 DEF WorkStep
<1>4. ASSUME NEW s \in Syncs, FailStep(s) PROVE TypeOK'
  <2>1. lost \cup AtStake(s) \in SUBSET RequestIDs
    BY AtStakeType DEF TypeOK
  <2>2. ASSUME NEW c \in CLIs, PutError(s, c) PROVE TypeOK'
    <3>1. snapshot' \in Snapshots
      BY <2>2 DEF PutError, TypeOK, Snapshots
    <3>2. Requests(next[s], (Written(s) \cup {c}) \cap changes[s]) \in SUBSET RequestIDs
      BY RequestsType DEF ChangesHaveVersions
    <3>3. lost' \in SUBSET RequestIDs
      BY <2>1, <2>2, <3>2 DEF PutError, TypeOK
    <3> QED BY <2>2, <3>1, <3>3, DoneType DEF PutError, TypeOK
  <2>3. CASE CleanError(s)
    <3>1. snapshot' \in Snapshots
      BY <2>3 DEF CleanError, TypeOK, Snapshots
    <3> QED BY <2>1, <2>3, <3>1, DoneType DEF CleanError, TypeOK
  <2>4. CASE Crash(s)
    BY <2>1, <2>4, DoneType DEF Crash, TypeOK
  <2>5. ASSUME NEW c \in CLIs, FetchError(s, c) PROVE TypeOK'
    BY <2>5 DEF FetchError, TypeOK
  <2>6. ASSUME NEW r \in RequestIDs, DispatchError(s, r) PROVE TypeOK'
    BY <2>6 DEF DispatchError, TypeOK
  <2> QED BY <1>4, <2>2, <2>3, <2>4, <2>5, <2>6 DEF FailStep
<1> QED BY <1>1, <1>2, <1>3, <1>4 DEF Next

-----------------------------------------------------------------------------
\* What a step of s carries stays in some place; other syncs carry on.
LEMMA OthersKeep ==
  ASSUME TypeOK, NEW s \in Syncs, WorkStep(s) \/ FailStep(s),
         NEW b \in Syncs, b # s
  PROVE  AtStake(b)' = AtStake(b)
<1>1. /\ phase'[b] = phase[b] /\ next'[b] = next[b] /\ todo'[b] = todo[b]
      /\ changes'[b] = changes[b] /\ unsent'[b] = unsent[b]
  BY DEF WorkStep, FailStep, Load, NothingNew, BeginSave, ListStale, Plan, Finish, Fetch,
         Put, DeleteStale, DispatchImageBuild, CleanError, Crash, FetchError, PutError,
         DispatchError, Done, TypeOK, Snapshots
<1> QED BY <1>1 DEF AtStake, Written

LEMMA OwnKeeps ==
  ASSUME TypeOK, UnsentIsDispatched, NEW s \in Syncs, WorkStep(s) \/ FailStep(s)
  PROVE  /\ AtStake(s) \subseteq AtStake(s)' \cup requests' \cup lost'
         /\ requests \subseteq requests'
         /\ lost \subseteq lost'
<1> USE DEF TypeOK, UnsentIsDispatched, AtStake
<1>1. CASE Load(s) \/ NothingNew(s) \/ Finish(s)
  <2>1. Written(s) = {} /\ unsent[s] = {}
    BY <1>1 DEF Load, NothingNew, Finish, Written
  <2>2. Requests(next[s], Written(s)) = {}
    BY <2>1 DEF Requests
  <2> QED BY <1>1, <2>1, <2>2 DEF Load, NothingNew, Finish
<1>2. CASE BeginSave(s) \/ \E c \in CLIs : Fetch(s, c) \/ FetchError(s, c)
  <2>1. Written(s) = {} /\ unsent[s] = {}
    BY <1>2 DEF BeginSave, Fetch, FetchError, Written
  <2>2. Requests(next[s], Written(s)) = {}
    BY <2>1 DEF Requests
  <2> QED BY <1>2, <2>1, <2>2 DEF BeginSave, Fetch, FetchError
<1>3. CASE ListStale(s) \/ \E c \in CLIs : Put(s, c) \/ DeleteStale(s, c)
  <2>1. /\ next'[s] = next[s] /\ unsent' = unsent
        /\ requests' = requests /\ lost' = lost
    BY <1>3 DEF ListStale, Put, DeleteStale
  <2>2. Written(s) \subseteq Written(s)'
    BY <1>3 DEF ListStale, Put, DeleteStale, Written
  <2>3. Requests(next[s], Written(s)) \subseteq Requests(next[s], Written(s)')
    BY <2>2, RequestsMonotonic
  <2> QED BY <2>1, <2>3
<1>4. CASE Plan(s)
  <2>1. Written(s) = changes[s] /\ unsent[s] = {}
    BY <1>4 DEF Plan, Written
  <2>2. unsent'[s] = Requests(next[s], changes[s])
    BY <1>4 DEF Plan
  <2> QED BY <1>4, <2>1, <2>2 DEF Plan
<1>5. ASSUME NEW r \in RequestIDs, DispatchImageBuild(s, r) \/ DispatchError(s, r)
      PROVE  /\ AtStake(s) \subseteq AtStake(s)' \cup requests' \cup lost'
             /\ requests \subseteq requests'
             /\ lost \subseteq lost'
  <2>1. Written(s) = {} /\ unsent'[s] = unsent[s] \ {r}
    BY <1>5 DEF DispatchImageBuild, DispatchError, Written
  <2>2. Requests(next[s], Written(s)) = {}
    BY <2>1 DEF Requests
  <2>3. CASE DispatchImageBuild(s, r)
    BY <2>1, <2>2, <2>3 DEF DispatchImageBuild
  <2>4. CASE DispatchError(s, r)
    BY <2>1, <2>2, <2>4 DEF DispatchError
  <2> QED BY <1>5, <2>3, <2>4
<1>6. CASE CleanError(s) \/ Crash(s)
  BY <1>6 DEF CleanError, Crash
<1>7. ASSUME NEW c \in CLIs, PutError(s, c)
      PROVE  /\ AtStake(s) \subseteq lost'
             /\ requests \subseteq requests'
             /\ lost \subseteq lost'
  <2>1. unsent[s] = {} /\ Written(s) \subseteq (Written(s) \cup {c}) \cap changes[s]
    BY <1>7, WrittenIsChanged DEF PutError
  <2>2. Requests(next[s], Written(s))
          \subseteq Requests(next[s], (Written(s) \cup {c}) \cap changes[s])
    BY <2>1, RequestsMonotonic
  <2> QED BY <1>7, <2>1, <2>2 DEF PutError
<1> QED BY <1>1, <1>2, <1>3, <1>4, <1>5, <1>6, <1>7 DEF WorkStep, FailStep

LEMMA CoveredStays ==
  ASSUME TypeOK, UnsentIsDispatched, [Next]_vars
  PROVE  Covered \subseteq Covered'
<1>1. ASSUME NEW s \in Syncs, WorkStep(s) \/ FailStep(s) PROVE Covered \subseteq Covered'
  <2>1. requests \cup lost \subseteq Covered'
    BY <1>1, OwnKeeps DEF Covered
  <2>2. ASSUME NEW b \in Syncs PROVE AtStake(b) \subseteq Covered'
    <3>1. CASE b = s
      BY <1>1, <3>1, OwnKeeps DEF Covered
    <3>2. CASE b # s
      BY <1>1, <3>2, OthersKeep DEF Covered
    <3> QED BY <3>1, <3>2
  <2> QED BY <2>1, <2>2 DEF Covered
<1>2. CASE UNCHANGED <<requests, syncVars, lost>>
  <2>1. \A s \in Syncs : AtStake(s)' = AtStake(s)
    BY <1>2 DEF AtStake, Written, syncVars
  <2> QED BY <1>2, <2>1 DEF Covered
<1> QED BY <1>1, <1>2 DEF Next, Release, vars

-----------------------------------------------------------------------------
(* What the syncs hold among themselves.                                   *)

LEMMA LocalStep ==
  ASSUME SyncInv, TypeOK', [Next]_vars
  PROVE  ChangesHaveVersions' /\ IdleIsClean' /\ UnsentIsDispatched' /\ UnchangedIsLoaded'
<1> USE DEF SyncInv
<1> DEFINE Local(s) == /\ \A c \in changes[s] : next[s][c] \in Versions
                       /\ phase[s] = "idle" => changes[s] = {}
                       /\ phase[s] # "dispatching" => unsent[s] = {}
                       /\ \A c \in CLIs :
                            c \in changes[s] \/ next[s][c] \in {NoVersion, base[s][c]}
<1>1. \A s \in Syncs : Local(s)
  BY DEF ChangesHaveVersions, IdleIsClean, UnsentIsDispatched, UnchangedIsLoaded
<1>2. ASSUME NEW s \in Syncs,
             /\ phase'[s] = phase[s] /\ base'[s] = base[s] /\ next'[s] = next[s]
             /\ changes'[s] = changes[s] /\ unsent'[s] = unsent[s]
      PROVE  Local(s)'
  BY <1>1, <1>2
<1>3. ASSUME NEW s \in Syncs, Done(s) PROVE Local(s)'
  BY <1>3 DEF Done, NoSnapshots, TypeOK
<1>4. ASSUME NEW s \in Syncs, WorkStep(s) \/ FailStep(s) PROVE Local(s)'
  <2>1. CASE Load(s)
    <3>1. /\ phase'[s] = "fetching" /\ changes'[s] = {} /\ unsent'[s] = {}
          /\ base'[s] = snapshot
          /\ next'[s] = Starting(snapshot)
      BY <1>1, <2>1 DEF Load, TypeOK
    <3> QED BY <3>1 DEF Starting
  <2>2. CASE NothingNew(s) \/ Finish(s) \/ CleanError(s) \/ Crash(s)
             \/ \E c \in CLIs : PutError(s, c)
    BY <1>3, <2>2 DEF NothingNew, Finish, CleanError, Crash, PutError
  <2>3. CASE BeginSave(s) \/ ListStale(s) \/ Plan(s)
    BY <1>1, <2>3 DEF BeginSave, ListStale, Plan, TypeOK
  <2>4. ASSUME NEW c \in CLIs, Fetch(s, c) PROVE Local(s)'
    <3>1. /\ phase'[s] = "fetching" /\ unsent'[s] = {}
          /\ base'[s] = base[s]
          /\ next'[s] = [next[s] EXCEPT ![c] = upstream[c]]
          /\ changes'[s] = IF upstream[c] = base[s][c] THEN changes[s] ELSE changes[s] \cup {c}
      BY <1>1, <2>4 DEF Fetch, TypeOK
    <3>2. next[s] \in [CLIs -> Versions \cup {NoVersion}] /\ upstream[c] \in Versions
      BY DEF TypeOK, Snapshots
    <3>3. changes[s] \subseteq CLIs
      BY DEF TypeOK
    <3>4. \A d \in CLIs : next'[s][d] = IF d = c THEN upstream[c] ELSE next[s][d]
      BY <3>1, <3>2
    <3>5. \A d \in changes'[s] : next'[s][d] \in Versions
      BY <1>1, <3>1, <3>2, <3>3, <3>4
    <3>6. \A d \in CLIs : d \in changes'[s] \/ next'[s][d] \in {NoVersion, base'[s][d]}
      BY <1>1, <3>1, <3>4
    <3> QED BY <3>1, <3>5, <3>6
  <2>5. CASE \E c \in CLIs : Put(s, c) \/ DeleteStale(s, c) \/ FetchError(s, c)
    BY <1>2, <2>5 DEF Put, DeleteStale, FetchError
  <2>6. CASE \E r \in RequestIDs : DispatchImageBuild(s, r) \/ DispatchError(s, r)
    BY <1>1, <2>6 DEF DispatchImageBuild, DispatchError, TypeOK
  <2> QED BY <1>4, <2>1, <2>2, <2>3, <2>4, <2>5, <2>6 DEF WorkStep, FailStep
<1>5. ASSUME NEW s \in Syncs, NEW b \in Syncs, b # s, WorkStep(s) \/ FailStep(s)
      PROVE  Local(b)'
  <2>1. /\ phase'[b] = phase[b] /\ base'[b] = base[b] /\ next'[b] = next[b]
        /\ changes'[b] = changes[b] /\ unsent'[b] = unsent[b]
    BY <1>5 DEF WorkStep, FailStep, Load, NothingNew, BeginSave, ListStale, Plan, Finish,
         Fetch, Put, DeleteStale, DispatchImageBuild, CleanError, Crash, FetchError,
         PutError, DispatchError, Done, TypeOK
  <2> QED BY <1>2, <2>1
<1>6. ASSUME UNCHANGED syncVars, NEW s \in Syncs PROVE Local(s)'
  BY <1>1, <1>6 DEF syncVars
<1>7. \A s \in Syncs : Local(s)'
  BY <1>4, <1>5, <1>6 DEF Next, Release, vars
<1> QED
  BY <1>7 DEF ChangesHaveVersions, IdleIsClean, UnsentIsDispatched, UnchangedIsLoaded

-----------------------------------------------------------------------------
(* What is in the table, or was when a sync loaded it.                     *)

LEMMA LoadedStep ==
  ASSUME SyncInv, [Next]_vars
  PROVE  LoadedIsCovered'
<1> SUFFICES ASSUME NEW s \in Syncs, NEW c \in CLIs, NEW i \in Images,
                    i[1] = c, base'[s][c] # NoVersion
             PROVE  <<c, base'[s][c], i[2]>> \in Covered'
  BY DEF LoadedIsCovered, CoveredState
<1> USE DEF SyncInv
<1>1. base'[s] \in {base[s], snapshot, NoSnapshots}
  <2>1. CASE UNCHANGED base
    BY <2>1
  <2>2. ASSUME NEW b \in Syncs, Load(b) \/ Done(b) PROVE base'[s] \in {base[s], snapshot, NoSnapshots}
    BY <2>2 DEF Load, Done, TypeOK
  <2> QED
    BY <2>1, <2>2 DEF Next, vars, syncVars, Release, WorkStep, FailStep, NothingNew,
         BeginSave, ListStale, Plan, Finish, Fetch, Put, DeleteStale, DispatchImageBuild,
         CleanError, Crash, FetchError, PutError, DispatchError
<1>2. base'[s] # NoSnapshots
  BY DEF NoSnapshots
<1>3. CoveredState(base[s], c) /\ CoveredState(snapshot, c)
  BY DEF LoadedIsCovered, SnapshotIsCovered
<1> QED BY <1>1, <1>2, <1>3, CoveredStays DEF CoveredState

LEMMA SnapshotStep ==
  ASSUME SyncInv, [Next]_vars
  PROVE  SnapshotIsCovered'
<1> SUFFICES ASSUME NEW c \in CLIs, NEW i \in Images, i[1] = c, snapshot'[c] # NoVersion
             PROVE  <<c, snapshot'[c], i[2]>> \in Covered'
  BY DEF SnapshotIsCovered, CoveredState
<1> USE DEF SyncInv
<1>1. CASE snapshot'[c] = snapshot[c]
  BY <1>1, CoveredStays DEF SnapshotIsCovered, CoveredState
<1>2. ASSUME NEW s \in Syncs, Put(s, c) \/ PutError(s, c), snapshot'[c] = next[s][c]
      PROVE  <<c, snapshot'[c], i[2]>> \in Covered'
  <2>1. CASE c \notin changes[s]
    <3>1. snapshot'[c] = base[s][c]
      BY <1>2, <2>1 DEF UnchangedIsLoaded
    <3> QED BY <3>1, CoveredStays DEF LoadedIsCovered, CoveredState
  <2>2. CASE c \in changes[s] /\ Put(s, c)
    <3>1. c \in Written(s)' /\ next'[s] = next[s]
      BY <2>2 DEF Put, Written, TypeOK
    <3>2. <<c, next[s][c], i[2]>> \in Requests(next[s], Written(s)')
      BY <3>1 DEF Requests
    <3>3. <<c, next[s][c], i[2]>> \in AtStake(s)'
      BY <3>1, <3>2 DEF AtStake
    <3> QED BY <1>2, <3>3 DEF Covered
  <2>3. CASE c \in changes[s] /\ PutError(s, c)
    <3>1. <<c, next[s][c], i[2]>> \in Requests(next[s], (Written(s) \cup {c}) \cap changes[s])
      BY <2>3 DEF Requests
    <3>2. CASE snapshot' = snapshot
      BY <3>2, <1>1
    <3>3. CASE lost' = lost \cup Requests(next[s], (Written(s) \cup {c}) \cap changes[s])
      BY <1>2, <3>1, <3>3 DEF Covered
    <3> QED BY <2>3, <3>2, <3>3 DEF PutError
  <2> QED BY <1>2, <2>1, <2>2, <2>3
<1>3. \/ snapshot'[c] \in {snapshot[c], NoVersion}
      \/ \E s \in Syncs : (Put(s, c) \/ PutError(s, c)) /\ snapshot'[c] = next[s][c]
  <2>1. CASE UNCHANGED snapshot
    BY <2>1
  <2>2. ASSUME NEW s \in Syncs, NEW d \in CLIs, Put(s, d) \/ PutError(s, d)
        PROVE  \/ snapshot'[c] \in {snapshot[c], NoVersion}
               \/ (Put(s, c) \/ PutError(s, c)) /\ snapshot'[c] = next[s][c]
    <3>1. snapshot' \in {snapshot, [snapshot EXCEPT ![d] = next[s][d]]}
      BY <2>2 DEF Put, PutError
    <3>2. CASE d = c
      BY <2>2, <3>1, <3>2 DEF TypeOK, Snapshots
    <3>3. CASE d # c
      BY <3>1, <3>3 DEF TypeOK, Snapshots
    <3> QED BY <3>2, <3>3
  <2>3. ASSUME NEW s \in Syncs, CleanError(s) \/ \E d \in CLIs : DeleteStale(s, d)
        PROVE  snapshot'[c] \in {snapshot[c], NoVersion}
    <3>1. snapshot' = snapshot \/ \E d \in todo[s] : snapshot' = [snapshot EXCEPT ![d] = NoVersion]
      BY <2>3 DEF CleanError, DeleteStale
    <3> QED BY <3>1 DEF TypeOK, Snapshots
  <2> QED
    BY <2>1, <2>2, <2>3 DEF Next, vars, Release, WorkStep, FailStep, Load, NothingNew,
         BeginSave, ListStale, Plan, Finish, Fetch, DispatchImageBuild, Crash,
         FetchError, DispatchError
<1> QED BY <1>1, <1>2, <1>3

-----------------------------------------------------------------------------
LEMMA InvInit == Init => SyncInv
<1> SUFFICES ASSUME Init PROVE SyncInv
  OBVIOUS
<1>1. SnapshotIsCovered
  <2> SUFFICES ASSUME NEW c \in CLIs, NEW i \in Images, i[1] = c, snapshot[c] # NoVersion
               PROVE  <<c, snapshot[c], i[2]>> \in requests
    BY DEF SnapshotIsCovered, CoveredState, Covered
  <2> QED BY DEF Init, ListedImages, Requests
<1>2. LoadedIsCovered /\ UnchangedIsLoaded
  BY DEF Init, NoSnapshots, LoadedIsCovered, CoveredState, UnchangedIsLoaded
<1> QED
  BY <1>1, <1>2, TypeInit DEF Init, SyncInv, ChangesHaveVersions, IdleIsClean, UnsentIsDispatched

LEMMA InvStep == SyncInv /\ [Next]_vars => SyncInv'
BY TypeStep, LocalStep, LoadedStep, SnapshotStep DEF SyncInv

\* The inductive invariant holds however many syncs overlap and fail.
THEOREM InvCorrect == Spec => []SyncInv
BY InvInit, InvStep, PTL DEF Spec

\* The tables and the program variables stay within their types.
THEOREM TypeCorrect == Spec => []TypeOK
BY InvCorrect, PTL DEF SyncInv

LEMMA InvImplies == SyncInv => SavedIsRequested
BY SyncAssumption
   DEF SyncInv, SnapshotIsCovered, CoveredState, Covered, SavedIsRequested, ListedImages, Requests

\* However many syncs overlap, a saved version has its image builds in the
\* outbox, or on their way there, or lost with a sync that failed.
THEOREM NoForgottenBuild == Spec => []SavedIsRequested
BY InvCorrect, InvImplies, PTL

-----------------------------------------------------------------------------
(* What a sync loaded it does not delete: next keeps every configured CLI  *)
(* of base, and only CLIs that are not in next are deleted.                *)

Keeps(s) ==
  /\ phase[s] \in {"fetching", "saving", "cleaning"} =>
       \A c \in Configured : base[s][c] # NoVersion => next[s][c] # NoVersion
  /\ phase[s] = "saving" => \A c \in todo[s] : next[s][c] # NoVersion
  /\ phase[s] = "cleaning" => \A c \in todo[s] : next[s][c] = NoVersion

KeepInv == TypeOK /\ \A s \in Syncs : Keeps(s)

LEMMA KeepsStep ==
  ASSUME TypeOK, NEW s \in Syncs, Keeps(s), WorkStep(s) \/ FailStep(s)
  PROVE  Keeps(s)'
<1> USE SyncAssumption, ConfiguredAreCLIs DEF TypeOK, Keeps
<1>1. CASE \/ NothingNew(s) \/ Finish(s) \/ CleanError(s) \/ Crash(s)
           \/ \E c \in CLIs : PutError(s, c)
  <2>1. phase'[s] = "idle"
    BY <1>1 DEF NothingNew, Finish, CleanError, Crash, PutError, Done
  <2> QED
    BY <2>1
<1>2. CASE Load(s)
  <2>1. /\ phase'[s] = "fetching"
        /\ base'[s] = snapshot
        /\ next'[s] = Starting(snapshot)
    BY <1>2 DEF Load
  <2> QED
    BY <2>1 DEF Starting
<1>3. CASE BeginSave(s)
  <2>1. /\ phase[s] = "fetching" /\ phase'[s] = "saving"
        /\ base' = base /\ next' = next
        /\ todo'[s] = {c \in CLIs : next[s][c] # NoVersion}
    BY <1>3 DEF BeginSave
  <2> QED
    BY <2>1
<1>4. CASE ListStale(s)
  <2>1. /\ phase[s] = "saving" /\ phase'[s] = "cleaning"
        /\ base' = base /\ next' = next
        /\ todo'[s] = {c \in CLIs : snapshot[c] # NoVersion /\ next[s][c] = NoVersion}
    BY <1>4 DEF ListStale
  <2> QED
    BY <2>1
<1>5. CASE Plan(s) \/ \E r \in RequestIDs : DispatchImageBuild(s, r) \/ DispatchError(s, r)
  <2>1. phase'[s] = "dispatching"
    BY <1>5 DEF Plan, DispatchImageBuild, DispatchError
  <2> QED
    BY <2>1
<1>6. CASE \E c \in CLIs : Put(s, c) \/ DeleteStale(s, c) \/ FetchError(s, c)
  <2>1. /\ phase' = phase /\ base' = base /\ next' = next
        /\ todo'[s] \subseteq todo[s]
    BY <1>6 DEF Put, DeleteStale, FetchError
  <2> QED
    BY <2>1
<1>7. ASSUME NEW c \in CLIs, Fetch(s, c) PROVE Keeps(s)'
  <2>1. /\ phase[s] = "fetching" /\ phase'[s] = "fetching"
        /\ base'[s] = base[s]
        /\ next'[s] = [next[s] EXCEPT ![c] = upstream[c]]
    BY <1>7 DEF Fetch
  <2>2. next[s] \in [CLIs -> Versions \cup {NoVersion}] /\ upstream[c] # NoVersion
    BY DEF Snapshots
  <2>3. \A d \in CLIs : next[s][d] # NoVersion => next'[s][d] # NoVersion
    BY <2>1, <2>2
  <2> QED
    BY <2>1, <2>3
<1> QED
  BY <1>1, <1>2, <1>3, <1>4, <1>5, <1>6, <1>7 DEF WorkStep, FailStep

LEMMA KeepInvStep ==
  ASSUME KeepInv, TypeOK', [Next]_vars
  PROVE  KeepInv'
<1>1. ASSUME NEW s \in Syncs, UNCHANGED <<phase, base, next, todo>> PROVE Keeps(s)'
  BY <1>1 DEF KeepInv, Keeps
<1>2. ASSUME NEW s \in Syncs, NEW b \in Syncs, WorkStep(s) \/ FailStep(s) PROVE Keeps(b)'
  <2>1. CASE b = s
    BY <1>2, <2>1, KeepsStep DEF KeepInv
  <2>2. CASE b # s
    <3>1. /\ phase'[b] = phase[b] /\ base'[b] = base[b]
          /\ next'[b] = next[b] /\ todo'[b] = todo[b]
      BY <1>2, <2>2 DEF WorkStep, FailStep, Load, NothingNew, BeginSave, ListStale, Plan,
         Finish, Fetch, Put, DeleteStale, DispatchImageBuild, CleanError, Crash, FetchError,
         PutError, DispatchError, Done, KeepInv, TypeOK
    <3> QED
      BY <3>1 DEF KeepInv, Keeps
  <2> QED
    BY <2>1, <2>2
<1> QED
  BY <1>1, <1>2 DEF KeepInv, Next, Release, vars, syncVars

LEMMA DeletionStep ==
  ASSUME KeepInv, [Next]_vars, NEW c \in Configured,
         snapshot[c] # NoVersion, snapshot'[c] = NoVersion
  PROVE  \E s \in Syncs : phase[s] = "cleaning" /\ base[s][c] = NoVersion
<1> USE SyncAssumption, ConfiguredAreCLIs DEF KeepInv
<1>1. PICK s \in Syncs : WorkStep(s) \/ FailStep(s)
  BY DEF Next, Release, vars
<1>2. ASSUME NEW d \in CLIs, Put(s, d) \/ PutError(s, d) PROVE FALSE
  <2>1. phase[s] = "saving" /\ d \in todo[s]
    BY <1>2 DEF Put, PutError
  <2>2. next[s][d] # NoVersion
    BY <2>1 DEF Keeps
  <2>3. snapshot' \in {snapshot, [snapshot EXCEPT ![d] = next[s][d]]}
    BY <1>2 DEF Put, PutError
  <2> QED
    BY <2>2, <2>3 DEF TypeOK, Snapshots
<1>3. phase[s] = "cleaning" /\ c \in todo[s]
  <2>1. CASE CleanError(s)
    BY <2>1 DEF CleanError, TypeOK, Snapshots
  <2>2. ASSUME NEW d \in CLIs, DeleteStale(s, d) PROVE phase[s] = "cleaning" /\ c \in todo[s]
    BY <2>2 DEF DeleteStale, TypeOK, Snapshots
  <2> QED
    BY <1>1, <1>2, <2>1, <2>2 DEF WorkStep, FailStep, Load, NothingNew, BeginSave,
       ListStale, Plan, Finish, Fetch, DispatchImageBuild, Crash, FetchError, DispatchError
<1>4. next[s][c] = NoVersion
  BY <1>3 DEF Keeps
<1> QED
  BY <1>3, <1>4 DEF Keeps

\* However many syncs overlap and whatever fails, a configured CLI loses
\* its snapshot only to a sync that had not seen it when it loaded.
THEOREM SeenIsKept == Spec => SeenSnapshotIsKept
<1>1. Init => KeepInv
  BY TypeInit DEF Init, KeepInv, Keeps
<1>2. KeepInv /\ TypeOK' /\ [Next]_vars => KeepInv'
  BY KeepInvStep
<1>3. KeepInv /\ [Next]_vars =>
        [\A c \in Configured :
           snapshot[c] # NoVersion /\ snapshot'[c] = NoVersion =>
             \E s \in Syncs : phase[s] = "cleaning" /\ base[s][c] = NoVersion]_vars
  BY DeletionStep
<1> QED
  BY <1>1, <1>2, <1>3, TypeCorrect, PTL DEF Spec, SeenSnapshotIsKept

=============================================================================
