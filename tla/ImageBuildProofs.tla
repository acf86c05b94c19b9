-------------------------- MODULE ImageBuildProofs --------------------------
(***************************************************************************)
(* Proofs about ImageBuild and RuntimeImageLookup: the type invariant,     *)
(* that a completed build has its image in the registry or has been        *)
(* displaced by newer ones, and what lookups tell while Jobs push and      *)
(* prune.                                                                  *)
(***************************************************************************)
EXTENDS RuntimeImageLookup, FiniteSetTheorems, WellFoundedInduction, TLAPS

-----------------------------------------------------------------------------
(* The inductive invariant.                                                *)

\* Retention may remove the image of r.
Displaced == {r \in Requests : Cardinality(Newer(r)) >= Keep}

\* Repositories whose Jobs have always been alone and whose tags could
\* always be inspected.
Undisturbed == Repos \ (overlapped \cup misjudged)

\* A run that goes on has begun as many attempts as its step says.
AttemptsInBounds ==
  \A r \in Requests :
    /\ step[r] = "backoff" => attempt[r] < MaxAttempts
    /\ step[r] \in {"listed", "absent", "waiting"} => attempt[r] > 0

\* Creation times come from the clock.
CreatedInTime == \A r \in Requests : created[r] <= clock

\* Whoever says that an image exists is right: it has been pushed.
PushedIsCreated ==
  \A r \in Requests :
    \/ run[r] = "completed" \/ job[r] = "succeeded"
    \/ pod[r] \in {"listing", "inspecting", "deleting"}
    => created[r] > 0

\* Two Jobs at work on one repository are remembered.
OverlapIsNoted ==
  \A r, q \in Requests :
    r # q /\ RepoOf[r] = RepoOf[q] /\ job[r] = "active" /\ job[q] = "active"
      => RepoOf[r] \in overlapped

\* The prune script only looks at its own repository.
DoomedIsLocal == \A r \in Requests : \A t \in doomed[r] : RepoOf[t] = RepoOf[r]

\* What it is going to delete may be deleted.
DoomedIsDisplaced ==
  \A r \in Requests :
    pod[r] = "deleting" /\ RepoOf[r] \in Undisturbed => doomed[r] \subseteq Displaced

\* Every image that was pushed is in the registry or may be missing.
PushedIsAvailable ==
  \A r \in Requests :
    created[r] > 0 /\ RepoOf[r] \in Undisturbed => r \in tags \cup Displaced

BuildInv ==
  /\ TypeOK
  /\ AttemptsInBounds
  /\ CreatedInTime
  /\ PushedIsCreated
  /\ OverlapIsNoted
  /\ DoomedIsLocal
  /\ DoomedIsDisplaced
  /\ PushedIsAvailable

-----------------------------------------------------------------------------
(* Newer images only become more.                                          *)

LEMMA NewerIsFinite ==
  ASSUME NEW r \in Requests
  PROVE  IsFiniteSet(Newer(r)) /\ Cardinality(Newer(r)) \in Nat
<1>1. Newer(r) \subseteq Requests
  BY DEF Newer
<1>2. IsFiniteSet(Newer(r))
  BY <1>1, FS_Subset, BuildAssumption DEF BuildAssumption
<1> QED
  BY <1>2, FS_CardinalityType

LEMMA EnoughNewer ==
  ASSUME NEW r \in Requests, NEW S \in SUBSET Newer(r), Cardinality(S) >= Keep
  PROVE  r \in Displaced
<1>1. IsFiniteSet(Newer(r)) /\ Cardinality(Newer(r)) \in Nat
  BY NewerIsFinite
<1>2. Cardinality(S) <= Cardinality(Newer(r)) /\ Cardinality(S) \in Nat
  BY <1>1, FS_Subset, FS_CardinalityType
<1> QED
  BY <1>1, <1>2, BuildAssumption DEF Displaced, BuildAssumption

LEMMA DisplacedStays ==
  ASSUME NEW r \in Requests, r \in Displaced, Newer(r) \subseteq Newer(r)'
  PROVE  r \in Displaced'
<1>1. Newer(r)' \subseteq Requests
  BY DEF Newer
<1>2. IsFiniteSet(Newer(r)')
  BY <1>1, FS_Subset, BuildAssumption DEF BuildAssumption
<1>3. /\ Cardinality(Newer(r)') \in Nat
      /\ Cardinality(Newer(r)) \in Nat
      /\ Cardinality(Newer(r)) <= Cardinality(Newer(r)')
  BY <1>2, FS_Subset, FS_CardinalityType
<1> QED
  BY <1>3, BuildAssumption DEF Displaced, BuildAssumption

\* A step that pushes nothing displaces what was displaced before.
LEMMA QuietStep ==
  ASSUME UNCHANGED created
  PROVE  Displaced' = Displaced
  BY DEF Displaced, Newer

\* A push of r gives it an image; others stay displaced.
LEMMA PushStep ==
  ASSUME TypeOK, CreatedInTime, NEW r \in Requests, PushImage(r)
  PROVE  /\ created' \in [Requests -> 0 .. MaxPushes]
         /\ clock' \in 0 .. MaxPushes
         /\ tags' = tags \cup {r}
         /\ CreatedInTime'
         /\ created'[r] > 0
         /\ \A q \in Requests \ {r} : created'[q] = created[q]
         /\ Displaced \ {r} \subseteq Displaced'
<1>1. CASE created[r] # 0 /\ UNCHANGED <<created, clock>>
  <2>1. Displaced' = Displaced
    BY <1>1, QuietStep
  <2> QED
    BY <1>1, <2>1 DEF TypeOK, PushImage, CreatedInTime
<1>2. CASE /\ clock < MaxPushes
           /\ clock' = clock + 1
           /\ created' = [created EXCEPT ![r] = clock + 1]
  <2>1. /\ clock \in Nat /\ MaxPushes \in Nat
        /\ created \in [Requests -> 0 .. MaxPushes]
    BY BuildAssumption DEF TypeOK, BuildAssumption
  <2>2. /\ created'[r] = clock + 1
        /\ \A q \in Requests \ {r} : created'[q] = created[q]
    BY <1>2, <2>1
  <2>3. ASSUME NEW q \in Requests \ {r}, q \in Displaced
        PROVE  q \in Displaced'
    <3>1. created'[q] = created[q] /\ created[q] <= clock /\ created[q] \in Nat
      BY <2>1, <2>2 DEF CreatedInTime
    <3>2. ASSUME NEW t \in Requests, RepoOf[t] = RepoOf[q], created[q] < created[t]
          PROVE  created'[q] < created'[t]
      <4>1. CASE t = r
        BY <2>1, <2>2, <3>1, <4>1
      <4>2. CASE t # r
        BY <2>2, <3>1, <3>2, <4>2
      <4> QED
        BY <4>1, <4>2
    <3>3. Newer(q) \subseteq Newer(q)'
      BY <3>2 DEF Newer
    <3> QED
      BY <2>3, <3>3, DisplacedStays
  <2>4. CreatedInTime'
    BY <1>2, <2>1, <2>2 DEF CreatedInTime
  <2>5. created' \in [Requests -> 0 .. MaxPushes] /\ clock' \in 0 .. MaxPushes
    BY <1>2, <2>1
  <2>6. tags' = tags \cup {r}
    BY DEF PushImage
  <2>7. created'[r] > 0
    BY <2>1, <2>2
  <2>8. Displaced \ {r} \subseteq Displaced'
    BY <2>3 DEF Displaced
  <2> QED
    BY <2>2, <2>4, <2>5, <2>6, <2>7, <2>8
<1> QED
  BY <1>1, <1>2 DEF PushImage

-----------------------------------------------------------------------------
(* Type correctness.                                                       *)

LEMMA TypeInit == Init => TypeOK
  BY BuildAssumption DEF BuildAssumption, Init, TypeOK

\* What a step of the workflow of r may do to the workflow state.
WorkflowSteps(r) ==
  /\ run' \in [Requests -> {"none", "open", "completed", "failed"}]
  /\ runs' \in [Requests -> 0 .. MaxRuns]
  /\ attempt' \in [Requests -> 0 .. MaxAttempts]
  /\ step' \in [Requests -> {"off", "backoff", "listed", "absent", "waiting"}]
  /\ \A q \in Requests : step'[q] # "off" <=> run'[q] = "open"
  /\ \A q \in Requests :
       run'[q] = "completed" => run[q] = "completed" \/ job[q] = "succeeded"
  /\ AttemptsInBounds'

LEMMA FailsType ==
  ASSUME TypeOK, AttemptsInBounds, NEW r \in Requests, NEW n \in 1 .. MaxAttempts,
         run[r] = "open", AttemptFails(r, n)
  PROVE  WorkflowSteps(r)
<1> USE DEF TypeOK, WorkflowSteps, AttemptsInBounds
<1>1. /\ runs' = runs
      /\ attempt' = [attempt EXCEPT ![r] = n]
      /\ n \in Nat /\ n > 0 /\ n <= MaxAttempts /\ MaxAttempts \in Nat
  BY BuildAssumption DEF BuildAssumption, AttemptFails
<1>2. CASE /\ n < MaxAttempts
           /\ step' = [step EXCEPT ![r] = "backoff"]
           /\ run' = run
           /\ run[r] = "open"
  BY <1>1, <1>2
<1>3. CASE /\ step' = [step EXCEPT ![r] = "off"]
           /\ run' = [run EXCEPT ![r] = "failed"]
  BY <1>1, <1>3
<1> QED
  BY <1>2, <1>3 DEF AttemptFails

LEMMA NewJobType ==
  ASSUME TypeOK, NEW r \in Requests, NewJob(r)
  PROVE  /\ job' \in [Requests -> {"none", "active", "succeeded", "failed"}]
         /\ pods' \in [Requests -> 0 .. MaxPods]
         /\ overlapped' \in SUBSET Repos
         /\ \A q \in Requests : job[q] = "active" => job'[q] = "active"
         /\ \A q \in Requests : job'[q] = "succeeded" => job[q] = "succeeded"
         /\ \A q \in Requests : job'[q] = "active" => q = r \/ job[q] = "active"
         /\ overlapped \subseteq overlapped'
  BY BuildAssumption DEF BuildAssumption, NewJob, TypeOK, Repos

\* An attempt in progress belongs to an open run.
LEMMA InProgress ==
  ASSUME TypeOK, AttemptsInBounds, NEW r \in Requests
  PROVE  /\ step[r] = "backoff" => run[r] = "open" /\ attempt[r] + 1 \in 1 .. MaxAttempts
         /\ step[r] \in {"listed", "absent", "waiting"} =>
              run[r] = "open" /\ attempt[r] \in 1 .. MaxAttempts
  BY BuildAssumption DEF BuildAssumption, TypeOK, AttemptsInBounds

\* The steps of a workflow that leave Kubernetes and the registry alone.
LEMMA WorkflowOnly ==
  ASSUME TypeOK, AttemptsInBounds, NEW r \in Requests,
         \/ StartRun(r) \/ ListJobs(r) \/ BuildInProgress(r) \/ GetJob(r)
         \/ Complete(r) \/ JobFailed(r) \/ AttemptError(r)
  PROVE  WorkflowSteps(r) /\ UNCHANGED <<job, podVars, registryVars, historyVars>>
<1>0. MaxAttempts \in Nat \ {0} /\ MaxRuns \in Nat
  BY BuildAssumption DEF BuildAssumption
<1>1. CASE StartRun(r)
  BY <1>0, <1>1 DEF TypeOK, AttemptsInBounds, WorkflowSteps, StartRun
<1>2. CASE ListJobs(r)
  BY <1>0, <1>2, InProgress DEF TypeOK, AttemptsInBounds, WorkflowSteps, ListJobs
<1>3. CASE BuildInProgress(r)
  BY <1>3, InProgress, FailsType DEF BuildInProgress
<1>4. CASE GetJob(r)
  BY <1>0, <1>4 DEF TypeOK, AttemptsInBounds, WorkflowSteps, GetJob
<1>5. CASE Complete(r)
  BY <1>0, <1>5 DEF TypeOK, AttemptsInBounds, WorkflowSteps, Complete
<1>6. CASE JobFailed(r)
  BY <1>6, InProgress, FailsType DEF JobFailed
<1>7. CASE AttemptError(r)
  BY <1>7, InProgress, FailsType DEF AttemptError
<1> QED
  BY <1>1, <1>2, <1>3, <1>4, <1>5, <1>6, <1>7

LEMMA CreateSteps ==
  ASSUME TypeOK, AttemptsInBounds, NEW r \in Requests, CreateJob(r) \/ CreateError(r)
  PROVE  /\ WorkflowSteps(r)
         /\ NewJob(r) \/ UNCHANGED <<job, pods, overlapped>>
         /\ UNCHANGED <<pod, doomed, registryVars, misjudged>>
<1>1. CASE CreateJob(r)
  <2>1. WorkflowSteps(r)
    BY <1>1 DEF TypeOK, AttemptsInBounds, WorkflowSteps, CreateJob
  <2> QED
    BY <1>1, <2>1 DEF CreateJob
<1>2. CASE CreateError(r)
  BY <1>2, InProgress, FailsType DEF CreateError
<1> QED
  BY <1>1, <1>2

-----------------------------------------------------------------------------
(* The inductive step, by kind of action.                                  *)

LEMMA WorkflowKeepsInv ==
  ASSUME BuildInv, NEW r \in Requests, WorkflowSteps(r),
         UNCHANGED <<job, podVars, registryVars, historyVars>>
  PROVE  BuildInv'
<1> USE DEF podVars, registryVars, historyVars
<1>1. TypeOK' /\ AttemptsInBounds'
  BY DEF BuildInv, TypeOK, WorkflowSteps
<1>2. CreatedInTime' /\ OverlapIsNoted' /\ DoomedIsLocal'
  BY DEF BuildInv, CreatedInTime, OverlapIsNoted, DoomedIsLocal
<1>3. PushedIsCreated'
  BY DEF BuildInv, PushedIsCreated, WorkflowSteps
<1>4. Displaced' = Displaced /\ Undisturbed' = Undisturbed
  BY QuietStep DEF Undisturbed
<1>5. DoomedIsDisplaced' /\ PushedIsAvailable'
  BY <1>4 DEF BuildInv, DoomedIsDisplaced, PushedIsAvailable
<1> QED
  BY <1>1, <1>2, <1>3, <1>5 DEF BuildInv

LEMMA CreateKeepsInv ==
  ASSUME BuildInv, NEW r \in Requests, WorkflowSteps(r), NewJob(r),
         UNCHANGED <<pod, doomed, registryVars, misjudged>>
  PROVE  BuildInv'
<1> USE DEF registryVars
<1>0. TypeOK
  BY DEF BuildInv
<1>1. TypeOK' /\ AttemptsInBounds'
  BY <1>0, NewJobType DEF TypeOK, WorkflowSteps
<1>2. CreatedInTime' /\ DoomedIsLocal'
  BY DEF BuildInv, CreatedInTime, DoomedIsLocal
<1>3. PushedIsCreated'
  BY <1>0, NewJobType DEF BuildInv, PushedIsCreated, WorkflowSteps
<1>4. OverlapIsNoted'
  <2> SUFFICES ASSUME NEW p \in Requests, NEW q \in Requests,
                      p # q, RepoOf[p] = RepoOf[q],
                      job'[p] = "active", job'[q] = "active"
               PROVE  RepoOf[p] \in overlapped'
    BY DEF OverlapIsNoted
  <2>1. CASE job[p] = "active" /\ job[q] = "active"
    BY <1>0, <2>1, NewJobType DEF BuildInv, OverlapIsNoted
  <2>2. CASE ~(job[p] = "active" /\ job[q] = "active")
    <3>1. job[r] = "none" /\ (p = r \/ q = r) /\ (job[p] = "active" \/ job[q] = "active")
      BY <1>0, <2>2, NewJobType DEF NewJob
    <3>2. RepoOf[r] \in overlapped'
      BY <3>1 DEF NewJob
    <3> QED
      BY <3>1, <3>2
  <2> QED
    BY <2>1, <2>2
<1>5. Displaced' = Displaced /\ Undisturbed' \subseteq Undisturbed
  BY <1>0, QuietStep, NewJobType DEF Undisturbed
<1>6. DoomedIsDisplaced' /\ PushedIsAvailable'
  BY <1>5 DEF BuildInv, DoomedIsDisplaced, PushedIsAvailable
<1> QED
  BY <1>1, <1>2, <1>3, <1>4, <1>6 DEF BuildInv

\* Steps of a pod or of Kubernetes that push nothing.
LEMMA QuietKeepsInv ==
  ASSUME BuildInv, TypeOK', PushedIsCreated', DoomedIsLocal', DoomedIsDisplaced',
         UNCHANGED <<workflowVars, created, clock, overlapped>>,
         misjudged \subseteq misjudged',
         \A q \in Requests : job'[q] = "active" => job[q] = "active",
         \A q \in tags \ tags' : RepoOf[q] \in Undisturbed => q \in Displaced
  PROVE  BuildInv'
<1> USE DEF workflowVars
<1>1. AttemptsInBounds' /\ CreatedInTime' /\ OverlapIsNoted'
  BY DEF BuildInv, AttemptsInBounds, CreatedInTime, OverlapIsNoted
<1>2. Displaced' = Displaced /\ Undisturbed' \subseteq Undisturbed
  BY QuietStep DEF Undisturbed
<1>3. PushedIsAvailable'
  BY <1>2 DEF BuildInv, PushedIsAvailable
<1> QED
  BY <1>1, <1>3 DEF BuildInv

\* A step that takes the pod of r nowhere near deletion.
LEMMA DoomedUntouched ==
  ASSUME BuildInv, NEW r \in Requests, UNCHANGED <<created, overlapped, misjudged>>,
         \A q \in Requests \ {r} : pod'[q] = pod[q] /\ doomed'[q] = doomed[q],
         doomed'[r] \subseteq doomed[r],
         pod'[r] = "deleting" => pod[r] = "deleting"
  PROVE  DoomedIsLocal' /\ DoomedIsDisplaced'
<1>1. Displaced' = Displaced /\ Undisturbed' = Undisturbed
  BY QuietStep DEF Undisturbed
<1>2. DoomedIsLocal'
  BY DEF BuildInv, DoomedIsLocal
<1>3. \A q \in Requests : /\ doomed'[q] \subseteq doomed[q]
                           /\ pod'[q] = "deleting" => pod[q] = "deleting"
  OBVIOUS
<1>4. DoomedIsDisplaced'
  BY <1>1, <1>3 DEF BuildInv, DoomedIsDisplaced
<1> QED
  BY <1>2, <1>4

\* Pods that start, end or are given up.
LEMMA PodKeepsInv ==
  ASSUME BuildInv, NEW r \in Requests,
         \/ StartPod(r) \/ JobSucceeds(r) \/ Deadline(r) \/ RemoveJob(r)
         \/ pod[r] # "none" /\ UNCHANGED registryVars /\ PodOver(r)
  PROVE  BuildInv'
<1> USE DEF podVars, registryVars, historyVars, workflowVars
<1>0. TypeOK /\ PushedIsCreated /\ MaxPods \in Nat
  BY BuildAssumption DEF BuildInv, BuildAssumption
<1>1. CASE StartPod(r)
  <2>1. TypeOK' /\ PushedIsCreated'
    BY <1>0, <1>1 DEF TypeOK, PushedIsCreated, StartPod
  <2>2. DoomedIsLocal' /\ DoomedIsDisplaced'
    BY <1>0, <1>1, DoomedUntouched DEF TypeOK, StartPod
  <2> QED
    BY <1>1, <2>1, <2>2, QuietKeepsInv DEF StartPod
<1>2. CASE JobSucceeds(r)
  <2>1. TypeOK' /\ PushedIsCreated'
    BY <1>0, <1>2 DEF TypeOK, PushedIsCreated, JobSucceeds
  <2>2. DoomedIsLocal' /\ DoomedIsDisplaced'
    BY <1>0, <1>2, DoomedUntouched DEF TypeOK, JobSucceeds
  <2>3. \A q \in Requests : job'[q] = "active" => job[q] = "active"
    BY <1>0, <1>2 DEF TypeOK, JobSucceeds
  <2> QED
    BY <1>2, <2>1, <2>2, <2>3, QuietKeepsInv DEF JobSucceeds
<1>3. CASE Deadline(r)
  <2>1. TypeOK' /\ PushedIsCreated'
    BY <1>0, <1>3 DEF TypeOK, PushedIsCreated, Deadline
  <2>2. DoomedIsLocal' /\ DoomedIsDisplaced'
    BY <1>0, <1>3, DoomedUntouched DEF TypeOK, Deadline
  <2>3. \A q \in Requests : job'[q] = "active" => job[q] = "active"
    BY <1>0, <1>3 DEF TypeOK, Deadline
  <2> QED
    BY <1>3, <2>1, <2>2, <2>3, QuietKeepsInv DEF Deadline
<1>4. CASE RemoveJob(r)
  <2>1. TypeOK' /\ PushedIsCreated'
    BY <1>0, <1>4 DEF TypeOK, PushedIsCreated, RemoveJob
  <2>2. DoomedIsLocal' /\ DoomedIsDisplaced'
    BY <1>0, <1>4, DoomedUntouched DEF TypeOK, RemoveJob
  <2>3. \A q \in Requests : job'[q] = "active" => job[q] = "active"
    BY <1>0, <1>4 DEF TypeOK, RemoveJob
  <2> QED
    BY <1>4, <2>1, <2>2, <2>3, QuietKeepsInv DEF RemoveJob
<1>5. CASE pod[r] # "none" /\ UNCHANGED registryVars /\ PodOver(r)
  <2>1. TypeOK' /\ PushedIsCreated'
    BY <1>0, <1>5 DEF TypeOK, PushedIsCreated, PodOver
  <2>2. DoomedIsLocal' /\ DoomedIsDisplaced'
    BY <1>0, <1>5, DoomedUntouched DEF TypeOK, PodOver
  <2>3. \A q \in Requests : job'[q] = "active" => job[q] = "active"
    BY <1>0, <1>5 DEF TypeOK, PodOver
  <2> QED
    BY <1>5, <2>1, <2>2, <2>3, QuietKeepsInv DEF PodOver
<1> QED
  BY <1>1, <1>2, <1>3, <1>4, <1>5

\* The prune script reads the list of tags.
LEMMA ListKeepsInv ==
  ASSUME BuildInv, NEW r \in Requests, ListTags(r)
  PROVE  BuildInv'
<1> USE DEF podVars, registryVars, historyVars, workflowVars
<1>0. TypeOK /\ PushedIsCreated
  BY DEF BuildInv
<1>1. PICK L \in SUBSET Requests :
        /\ doomed' = [doomed EXCEPT ![r] = L]
        /\ \A t \in L : RepoOf[t] = RepoOf[r]
  <2>1. {t \in tags : RepoOf[t] = RepoOf[r]} \in SUBSET Requests
    BY <1>0 DEF TypeOK
  <2>2. PICK failed \in BOOLEAN :
          doomed' = [doomed EXCEPT ![r] =
                       IF failed THEN {} ELSE {t \in tags : RepoOf[t] = RepoOf[r]}]
    BY DEF ListTags
  <2> DEFINE L == IF failed THEN {} ELSE {t \in tags : RepoOf[t] = RepoOf[r]}
  <2>3. L \in SUBSET Requests /\ \A t \in L : RepoOf[t] = RepoOf[r]
    BY <2>1
  <2>4. doomed' = [doomed EXCEPT ![r] = L]
    BY <2>2
  <2> HIDE DEF L
  <2> QED
    BY <2>3, <2>4
<1>2. TypeOK' /\ PushedIsCreated'
  BY <1>0, <1>1 DEF TypeOK, PushedIsCreated, ListTags
<1>3. DoomedIsLocal'
  BY <1>0, <1>1 DEF TypeOK, BuildInv, DoomedIsLocal
<1>4. Displaced' = Displaced /\ Undisturbed' = Undisturbed
  BY QuietStep DEF ListTags, Undisturbed
<1>5. DoomedIsDisplaced'
  <2>1. /\ pod'[r] = "inspecting"
        /\ \A q \in Requests \ {r} : pod'[q] = pod[q] /\ doomed'[q] = doomed[q]
    BY <1>0, <1>1 DEF TypeOK, ListTags
  <2> QED
    BY <1>4, <2>1 DEF BuildInv, DoomedIsDisplaced
<1> QED
  BY <1>2, <1>3, <1>5, QuietKeepsInv DEF ListTags

\* What the prune script selects has been displaced by what it keeps.
LEMMA InspectKeepsInv ==
  ASSUME BuildInv, NEW r \in Requests, InspectTags(r)
  PROVE  BuildInv'
<1> USE DEF podVars, registryVars, historyVars, workflowVars
<1>0. TypeOK /\ PushedIsCreated /\ DoomedIsLocal
  BY DEF BuildInv
<1>1. PICK F \in SUBSET doomed[r], D \in SUBSET doomed[r] :
        /\ IsOldest(D, doomed[r], F)
        /\ doomed' = [doomed EXCEPT ![r] = D]
        /\ misjudged' = misjudged \cup {RepoOf[t] : t \in F}
  BY DEF InspectTags
<1>2. doomed[r] \subseteq Requests /\ doomed'[r] = D
  BY <1>0, <1>1 DEF TypeOK
<1>3. misjudged' \subseteq Repos /\ misjudged \subseteq misjudged'
  BY <1>0, <1>1, <1>2 DEF TypeOK, Repos
<1>4. TypeOK' /\ PushedIsCreated'
  <2>1. doomed' \in [Requests -> SUBSET Requests]
    BY <1>0, <1>1, <1>2 DEF TypeOK
  <2> QED
    BY <1>0, <1>3, <2>1 DEF TypeOK, PushedIsCreated, InspectTags
<1>5. DoomedIsLocal'
  BY <1>0, <1>1, <1>2 DEF TypeOK, DoomedIsLocal
<1>6. Displaced' = Displaced /\ Undisturbed' \subseteq Undisturbed
  BY <1>3, QuietStep DEF InspectTags, Undisturbed
<1>7. ASSUME RepoOf[r] \in Undisturbed', NEW d \in D
      PROVE  d \in Displaced
  <2>1. F = {}
    <3>1. ASSUME NEW f \in F PROVE FALSE
      <4>1. RepoOf[f] = RepoOf[r]
        BY <1>0 DEF DoomedIsLocal
      <4>2. RepoOf[r] \in misjudged'
        BY <1>1, <4>1
      <4> QED
        BY <1>7, <4>2 DEF Undisturbed
    <3> QED
      BY <3>1
  <2>2. Cardinality(doomed[r] \ D) = Keep
    BY <1>1, <1>7 DEF IsOldest
  <2>3. doomed[r] \ D \in SUBSET Newer(d)
    BY <1>0, <1>1, <1>2, <1>7, <2>1 DEF IsOldest, Newer, DoomedIsLocal
  <2> QED
    BY <1>2, <2>2, <2>3, EnoughNewer, BuildAssumption DEF BuildAssumption
<1>8. DoomedIsDisplaced'
  <2>1. \A q \in Requests \ {r} : pod'[q] = pod[q] /\ doomed'[q] = doomed[q]
    BY <1>0, <1>1 DEF TypeOK, InspectTags
  <2>2. RepoOf[r] \in Undisturbed' => doomed'[r] \subseteq Displaced
    BY <1>2, <1>7
  <2> QED
    BY <1>6, <2>1, <2>2 DEF BuildInv, DoomedIsDisplaced
<1> QED
  BY <1>3, <1>4, <1>5, <1>8, QuietKeepsInv DEF InspectTags

\* Only displaced images are deleted.
LEMMA DeleteKeepsInv ==
  ASSUME BuildInv, NEW r \in Requests, NEW t \in Requests, DeleteTag(r, t)
  PROVE  BuildInv'
<1> USE DEF podVars, registryVars, historyVars, workflowVars
<1>0. TypeOK /\ PushedIsCreated
  BY DEF BuildInv
<1>1. TypeOK' /\ PushedIsCreated'
  BY <1>0 DEF TypeOK, PushedIsCreated, DeleteTag
<1>2. DoomedIsLocal' /\ DoomedIsDisplaced'
  BY <1>0, DoomedUntouched DEF TypeOK, DeleteTag
<1>3. \A q \in tags \ tags' : RepoOf[q] \in Undisturbed => q \in Displaced
  BY DEF DeleteTag, BuildInv, DoomedIsLocal, DoomedIsDisplaced
<1> QED
  BY <1>1, <1>2, <1>3, QuietKeepsInv DEF DeleteTag

\* A push by the pod of r, which then goes on to the prune script or ends.
LEMMA PushKeepsInv ==
  ASSUME BuildInv, NEW r \in Requests, pod[r] = "building", PushImage(r), TypeOK',
         UNCHANGED <<workflowVars, historyVars>>,
         pod'[r] \in {"listing", "none"}, doomed'[r] \subseteq doomed[r],
         \A q \in Requests \ {r} : pod'[q] = pod[q] /\ doomed'[q] = doomed[q],
         \A q \in Requests : job'[q] \in {"active", "succeeded"} => job'[q] = job[q]
  PROVE  BuildInv'
<1> USE DEF workflowVars, historyVars
<1>0. TypeOK /\ CreatedInTime /\ job[r] = "active"
  BY DEF BuildInv, TypeOK
<1>1. /\ CreatedInTime'
      /\ tags' = tags \cup {r}
      /\ created'[r] > 0
      /\ \A q \in Requests \ {r} : created'[q] = created[q]
      /\ Displaced \ {r} \subseteq Displaced'
  BY <1>0, PushStep
<1>2. AttemptsInBounds'
  BY DEF BuildInv, AttemptsInBounds
<1>3. PushedIsCreated'
  BY <1>1 DEF BuildInv, PushedIsCreated
<1>4. OverlapIsNoted'
  BY DEF BuildInv, OverlapIsNoted
<1>5. DoomedIsLocal'
  <2>1. \A q \in Requests : doomed'[q] \subseteq doomed[q]
    OBVIOUS
  <2> QED
    BY <2>1 DEF BuildInv, DoomedIsLocal
<1>6. Undisturbed' = Undisturbed
  BY DEF Undisturbed
<1>7. DoomedIsDisplaced'
  <2> SUFFICES ASSUME NEW q \in Requests, pod'[q] = "deleting",
                      RepoOf[q] \in Undisturbed, NEW t \in doomed'[q]
               PROVE  t \in Displaced'
    BY <1>6 DEF DoomedIsDisplaced
  <2>1. q # r /\ pod[q] = "deleting" /\ t \in doomed[q]
    OBVIOUS
  <2>2. job[q] = "active"
    BY <1>0, <2>1 DEF TypeOK
  <2>3. RepoOf[q] # RepoOf[r]
    BY <1>0, <2>1, <2>2 DEF BuildInv, OverlapIsNoted, Undisturbed
  <2>4. t # r
    BY <2>1, <2>3 DEF BuildInv, DoomedIsLocal
  <2>5. t \in Displaced
    BY <2>1 DEF BuildInv, DoomedIsDisplaced
  <2> QED
    BY <1>1, <2>4, <2>5
<1>8. PushedIsAvailable'
  <2>1. ASSUME NEW q \in Requests \ {r}, created'[q] > 0, RepoOf[q] \in Undisturbed
        PROVE  q \in tags' \cup Displaced'
    BY <1>1, <2>1 DEF BuildInv, PushedIsAvailable
  <2> QED
    BY <1>1, <1>6, <2>1 DEF PushedIsAvailable
<1> QED
  BY <1>1, <1>2, <1>3, <1>4, <1>5, <1>7, <1>8 DEF BuildInv

LEMMA PushingKeepsInv ==
  ASSUME BuildInv, NEW r \in Requests,
         \/ BuildAndPush(r)
         \/ pod[r] = "building" /\ PushImage(r) /\ PodOver(r)
  PROVE  BuildInv'
<1> USE DEF podVars, registryVars, historyVars, workflowVars
<1>0. TypeOK /\ CreatedInTime
  BY DEF BuildInv
<1>1. CASE BuildAndPush(r)
  <2>1. /\ created' \in [Requests -> 0 .. MaxPushes]
        /\ clock' \in 0 .. MaxPushes
        /\ tags' = tags \cup {r}
    BY <1>0, <1>1, PushStep DEF BuildAndPush
  <2>2. TypeOK'
    BY <1>0, <1>1, <2>1 DEF TypeOK, BuildAndPush
  <2>3. /\ pod'[r] = "listing"
        /\ \A q \in Requests \ {r} : pod'[q] = pod[q]
    BY <1>0, <1>1 DEF TypeOK, BuildAndPush
  <2> QED
    BY <1>1, <2>2, <2>3, PushKeepsInv DEF BuildAndPush
<1>2. CASE pod[r] = "building" /\ PushImage(r) /\ PodOver(r)
  <2>1. /\ created' \in [Requests -> 0 .. MaxPushes]
        /\ clock' \in 0 .. MaxPushes
        /\ tags' = tags \cup {r}
    BY <1>0, <1>2, PushStep
  <2>2. TypeOK'
    BY <1>0, <1>2, <2>1 DEF TypeOK, PodOver
  <2>3. /\ pod'[r] = "none"
        /\ doomed'[r] = {}
        /\ \A q \in Requests \ {r} : pod'[q] = pod[q] /\ doomed'[q] = doomed[q]
        /\ \A q \in Requests : job'[q] \in {"active", "succeeded"} => job'[q] = job[q]
    BY <1>0, <1>2 DEF TypeOK, PodOver
  <2> QED
    BY <1>2, <2>2, <2>3, PushKeepsInv DEF PodOver
<1> QED
  BY <1>1, <1>2

LEMMA NextKeepsInv == BuildInv /\ [Next]_vars => BuildInv'
<1> SUFFICES ASSUME BuildInv, [Next]_vars PROVE BuildInv'
  OBVIOUS
<1>0. TypeOK /\ AttemptsInBounds
  BY DEF BuildInv
<1>1. CASE UNCHANGED vars
  <2>1. UNCHANGED <<job, podVars, registryVars, historyVars>>
    BY <1>1 DEF vars
  <2>2. Displaced' = Displaced /\ Undisturbed' = Undisturbed
    BY <2>1, QuietStep DEF registryVars, historyVars, Undisturbed
  <2>3. (DoomedIsDisplaced /\ PushedIsAvailable)'
    BY <2>1, <2>2 DEF BuildInv, DoomedIsDisplaced, PushedIsAvailable, podVars, registryVars
  <2> QED
    BY <1>1, <2>3 DEF BuildInv, TypeOK, AttemptsInBounds, CreatedInTime, PushedIsCreated,
       OverlapIsNoted, DoomedIsLocal, vars, workflowVars, podVars, registryVars, historyVars
<1>2. ASSUME NEW r \in Requests,
             \/ StartRun(r) \/ ListJobs(r) \/ BuildInProgress(r) \/ GetJob(r)
             \/ Complete(r) \/ JobFailed(r) \/ AttemptError(r)
      PROVE  BuildInv'
  BY <1>0, <1>2, WorkflowOnly, WorkflowKeepsInv
<1>3. ASSUME NEW r \in Requests, CreateJob(r) \/ CreateError(r)
      PROVE  BuildInv'
  <2>1. /\ WorkflowSteps(r)
        /\ NewJob(r) \/ UNCHANGED <<job, pods, overlapped>>
        /\ UNCHANGED <<pod, doomed, registryVars, misjudged>>
    BY <1>0, <1>3, CreateSteps
  <2>2. CASE NewJob(r)
    BY <2>1, <2>2, CreateKeepsInv
  <2>3. CASE UNCHANGED <<job, pods, overlapped>>
    BY <2>1, <2>3, WorkflowKeepsInv DEF podVars, historyVars
  <2> QED
    BY <2>1, <2>2, <2>3
<1>4. ASSUME NEW r \in Requests, JobStep(r)
      PROVE  BuildInv'
  <2>1. CASE \/ StartPod(r) \/ JobSucceeds(r) \/ Deadline(r) \/ RemoveJob(r)
             \/ pod[r] # "none" /\ UNCHANGED registryVars /\ PodOver(r)
    BY <2>1, PodKeepsInv
  <2>2. CASE \/ BuildAndPush(r)
             \/ pod[r] = "building" /\ PushImage(r) /\ PodOver(r)
    BY <2>2, PushingKeepsInv
  <2>3. CASE ListTags(r)
    BY <2>3, ListKeepsInv
  <2>4. CASE InspectTags(r)
    BY <2>4, InspectKeepsInv
  <2>5. CASE \E t \in Requests : DeleteTag(r, t)
    BY <2>5, DeleteKeepsInv
  <2> QED
    BY <1>4, <2>1, <2>2, <2>3, <2>4, <2>5 DEF JobStep, PodFails
<1> QED
  BY <1>1, <1>2, <1>3, <1>4 DEF Next, AttemptStep

-----------------------------------------------------------------------------
(* The theorems.                                                           *)

\* BuildInv is an inductive invariant of the image builds.
THEOREM InvCorrect == Spec => []BuildInv
<1>1. Init => BuildInv
  BY TypeInit DEF Init, BuildInv, AttemptsInBounds, CreatedInTime, PushedIsCreated,
     OverlapIsNoted, DoomedIsLocal, DoomedIsDisplaced, PushedIsAvailable
<1>2. BuildInv /\ [Next]_vars => BuildInv'
  BY NextKeepsInv
<1> QED
  BY <1>1, <1>2, PTL DEF Spec

\* Workflows, Jobs, pods and tags keep their types, an attempt is in
\* progress exactly while a run is open, and only an active Job has a pod.
THEOREM TypeCorrect == Spec => []TypeOK
<1>1. BuildInv => TypeOK
  BY DEF BuildInv
<1> QED
  BY <1>1, InvCorrect, PTL

\* A build reported as completed has pushed its image, and the image is in
\* the registry or Keep newer ones of its repository have been pushed,
\* unless two Jobs overlapped there or a tag could not be inspected.
THEOREM CompletedBuildIsAvailable == Spec => []CompletedIsAvailable
<1>1. BuildInv => CompletedIsAvailable
  <2> SUFFICES ASSUME BuildInv, NEW r \in Requests, run[r] = "completed"
               PROVE  /\ created[r] > 0
                      /\ RepoOf[r] \notin overlapped \cup misjudged =>
                           r \in tags \/ Cardinality(Newer(r)) >= Keep
    BY DEF CompletedIsAvailable
  <2>1. created[r] > 0
    BY DEF BuildInv, PushedIsCreated
  <2> QED
    BY <2>1 DEF BuildInv, PushedIsAvailable, Undisturbed, Displaced, Repos
<1> QED
  BY <1>1, InvCorrect, PTL

-----------------------------------------------------------------------------
(* Retention keeps the newest.  While a repository is undisturbed its only *)
(* prune script works on a list that stays true: the listed tags are in    *)
(* the registry, and each selected one has a newer one that is kept.       *)

ListedIsThere ==
  \A r \in Requests :
    pod[r] = "inspecting" /\ RepoOf[r] \in Undisturbed => doomed[r] \subseteq tags

Outlived(r) == {t \in Requests : Newer(t) \cap (tags \ doomed[r]) # {}}

DoomedIsOutlived ==
  \A r \in Requests :
    pod[r] = "deleting" /\ RepoOf[r] \in Undisturbed => doomed[r] \subseteq Outlived(r)

RetentionInv == BuildInv /\ ListedIsThere /\ DoomedIsOutlived

\* A pod that is past its push in an undisturbed repository is alone there.
LEMMA PodIsAlone ==
  ASSUME BuildInv, NEW r \in Requests, NEW q \in Requests \ {r},
         pod[r] # "none", pod[q] # "none", RepoOf[q] = RepoOf[r]
  PROVE  RepoOf[r] \notin Undisturbed
  BY DEF BuildInv, TypeOK, OverlapIsNoted, Undisturbed

\* Steps that change neither the registry nor the temporary file of a pod
\* that goes on.
LEMMA ListsUntouched ==
  ASSUME RetentionInv, BuildInv', UNCHANGED registryVars,
         overlapped \subseteq overlapped', misjudged \subseteq misjudged',
         \A q \in Requests :
           pod'[q] \in {"inspecting", "deleting"} =>
             pod'[q] = pod[q] /\ doomed'[q] = doomed[q]
  PROVE  RetentionInv'
<1>1. Undisturbed' \subseteq Undisturbed /\ tags' = tags
  BY DEF Undisturbed, registryVars
<1>2. \A q \in Requests : Newer(q)' = Newer(q)
  BY DEF Newer, registryVars
<1>3. ListedIsThere'
  BY <1>1 DEF RetentionInv, ListedIsThere
<1>4. DoomedIsOutlived'
  <2> SUFFICES ASSUME NEW q \in Requests, pod'[q] = "deleting",
                      RepoOf[q] \in Undisturbed', NEW t \in doomed'[q]
               PROVE  t \in Requests /\ Newer(t)' \cap (tags' \ doomed'[q]) # {}
    BY DEF DoomedIsOutlived, Outlived
  <2>1. t \in Outlived(q) /\ doomed'[q] = doomed[q]
    BY <1>1 DEF RetentionInv, DoomedIsOutlived
  <2> QED
    BY <1>1, <1>2, <2>1 DEF Outlived
<1> QED
  BY <1>3, <1>4 DEF RetentionInv

\* A push disturbs only lists of its own repository, and there is no other.
LEMMA PushKeepsLists ==
  ASSUME RetentionInv, BuildInv', NEW r \in Requests, pod[r] = "building", PushImage(r),
         UNCHANGED historyVars, pod'[r] \in {"listing", "none"},
         \A q \in Requests \ {r} : pod'[q] = pod[q] /\ doomed'[q] = doomed[q]
  PROVE  RetentionInv'
<1>0. BuildInv /\ TypeOK /\ CreatedInTime
  BY DEF RetentionInv, BuildInv
<1>1. tags' = tags \cup {r} /\ \A q \in Requests \ {r} : created'[q] = created[q]
  BY <1>0, PushStep
<1>2. Undisturbed' = Undisturbed
  BY DEF Undisturbed, historyVars
<1>3. ListedIsThere'
  BY <1>1, <1>2 DEF RetentionInv, ListedIsThere
<1>4. DoomedIsOutlived'
  <2> SUFFICES ASSUME NEW q \in Requests, pod'[q] = "deleting",
                      RepoOf[q] \in Undisturbed, NEW t \in doomed'[q]
               PROVE  t \in Requests /\ Newer(t)' \cap (tags' \ doomed'[q]) # {}
    BY <1>2 DEF DoomedIsOutlived, Outlived
  <2>1. q # r /\ pod[q] = "deleting" /\ doomed'[q] = doomed[q] /\ t \in doomed[q]
    OBVIOUS
  <2>2. RepoOf[r] # RepoOf[q]
    BY <1>0, <2>1, PodIsAlone
  <2>3. t \in Outlived(q) /\ RepoOf[t] = RepoOf[q]
    BY <1>0, <2>1 DEF RetentionInv, DoomedIsOutlived, BuildInv, DoomedIsLocal
  <2>4. PICK u \in Newer(t) : u \in tags \ doomed[q]
    BY <2>3 DEF Outlived
  <2>5. u \in Newer(t)'
    BY <1>1, <2>2, <2>3, <2>4 DEF Newer, Outlived
  <2> QED
    BY <1>1, <2>1, <2>3, <2>4, <2>5 DEF Outlived
<1> QED
  BY <1>3, <1>4 DEF RetentionInv

LEMMA ListKeepsLists ==
  ASSUME RetentionInv, BuildInv', NEW r \in Requests, ListTags(r)
  PROVE  RetentionInv'
<1> USE DEF registryVars, historyVars
<1>0. TypeOK
  BY DEF RetentionInv, BuildInv
<1>1. /\ pod'[r] = "inspecting"
      /\ doomed'[r] \subseteq tags
      /\ \A q \in Requests \ {r} : pod'[q] = pod[q] /\ doomed'[q] = doomed[q]
      /\ tags' = tags /\ created' = created
  <2>1. PICK failed \in BOOLEAN :
          doomed' = [doomed EXCEPT ![r] =
                       IF failed THEN {} ELSE {t \in tags : RepoOf[t] = RepoOf[r]}]
    BY DEF ListTags
  <2>2. (IF failed THEN {} ELSE {t \in tags : RepoOf[t] = RepoOf[r]}) \subseteq tags
    OBVIOUS
  <2> QED
    BY <1>0, <2>1, <2>2 DEF TypeOK, ListTags
<1>2. Undisturbed' = Undisturbed
  BY DEF ListTags, Undisturbed
<1>3. ListedIsThere'
  BY <1>1, <1>2 DEF RetentionInv, ListedIsThere
<1>4. \A q \in Requests : Newer(q)' = Newer(q)
  BY <1>1 DEF Newer
<1>5. DoomedIsOutlived'
  <2> SUFFICES ASSUME NEW q \in Requests, pod'[q] = "deleting",
                      RepoOf[q] \in Undisturbed, NEW t \in doomed'[q]
               PROVE  t \in Requests /\ Newer(t)' \cap (tags' \ doomed'[q]) # {}
    BY <1>2 DEF DoomedIsOutlived, Outlived
  <2>1. q # r /\ pod[q] = "deleting" /\ doomed'[q] = doomed[q]
    BY <1>1
  <2>2. t \in Outlived(q)
    BY <2>1 DEF RetentionInv, DoomedIsOutlived
  <2> QED
    BY <1>1, <1>4, <2>1, <2>2 DEF Outlived
<1> QED
  BY <1>3, <1>5 DEF RetentionInv

LEMMA InspectKeepsLists ==
  ASSUME RetentionInv, BuildInv', NEW r \in Requests, InspectTags(r)
  PROVE  RetentionInv'
<1> USE DEF registryVars, historyVars
<1>0. BuildInv /\ TypeOK /\ DoomedIsLocal
  BY DEF RetentionInv, BuildInv
<1>1. PICK F \in SUBSET doomed[r], D \in SUBSET doomed[r] :
        /\ IsOldest(D, doomed[r], F)
        /\ doomed' = [doomed EXCEPT ![r] = D]
        /\ misjudged' = misjudged \cup {RepoOf[t] : t \in F}
  BY DEF InspectTags
<1>2. /\ pod'[r] = "deleting" /\ doomed'[r] = D /\ D \subseteq Requests
      /\ \A q \in Requests \ {r} : pod'[q] = pod[q] /\ doomed'[q] = doomed[q]
      /\ tags' = tags /\ created' = created
  BY <1>0, <1>1 DEF TypeOK, InspectTags
<1>3. Undisturbed' \subseteq Undisturbed
  BY <1>1 DEF InspectTags, Undisturbed
<1>4. ListedIsThere'
  BY <1>2, <1>3 DEF RetentionInv, ListedIsThere
<1>5. \A q \in Requests : Newer(q)' = Newer(q)
  BY <1>2 DEF Newer
<1>6. ASSUME RepoOf[r] \in Undisturbed', NEW d \in D
      PROVE  Newer(d) \cap (tags \ D) # {}
  <2>1. F = {}
    <3>1. ASSUME NEW f \in F PROVE FALSE
      <4>1. RepoOf[f] = RepoOf[r]
        BY <1>0 DEF DoomedIsLocal
      <4>2. RepoOf[r] \in misjudged'
        BY <1>1, <4>1
      <4> QED
        BY <1>6, <4>2 DEF Undisturbed
    <3> QED
      BY <3>1
  <2>2. Cardinality(doomed[r] \ D) = Keep /\ Keep # 0
    BY <1>1, <1>6, BuildAssumption DEF IsOldest, BuildAssumption
  <2>3. PICK u \in doomed[r] : u \notin D
    <3>1. doomed[r] \ D # {}
      BY <2>2, FS_EmptySet
    <3> QED
      BY <3>1
  <2>4. u \in tags /\ u \in Requests
    BY <1>0, <1>3, <1>6 DEF RetentionInv, ListedIsThere, InspectTags, TypeOK
  <2>5. u \in Newer(d)
    BY <1>0, <1>1, <1>2, <1>6, <2>1, <2>3, <2>4 DEF IsOldest, Newer, DoomedIsLocal
  <2> QED
    BY <2>3, <2>4, <2>5
<1>7. DoomedIsOutlived'
  <2> SUFFICES ASSUME NEW q \in Requests, pod'[q] = "deleting",
                      RepoOf[q] \in Undisturbed', NEW t \in doomed'[q]
               PROVE  t \in Requests /\ Newer(t)' \cap (tags' \ doomed'[q]) # {}
    BY DEF DoomedIsOutlived, Outlived
  <2>1. CASE q = r
    BY <1>2, <1>5, <1>6, <2>1
  <2>2. CASE q # r
    <3>1. t \in Outlived(q) /\ doomed'[q] = doomed[q]
      BY <1>2, <1>3, <2>2 DEF RetentionInv, DoomedIsOutlived
    <3> QED
      BY <1>2, <1>5, <3>1 DEF Outlived
  <2> QED
    BY <2>1, <2>2
<1> QED
  BY <1>4, <1>7 DEF RetentionInv

LEMMA DeleteKeepsLists ==
  ASSUME RetentionInv, BuildInv', NEW r \in Requests, NEW d \in Requests, DeleteTag(r, d)
  PROVE  RetentionInv'
<1> USE DEF registryVars, historyVars
<1>0. BuildInv /\ TypeOK /\ DoomedIsLocal
  BY DEF RetentionInv, BuildInv
<1>1. /\ pod' = pod /\ created' = created
      /\ pod[r] = "deleting" /\ d \in doomed[r] /\ RepoOf[d] = RepoOf[r]
      /\ tags' = tags \ {d}
      /\ doomed'[r] = doomed[r] \ {d}
      /\ \A q \in Requests \ {r} : doomed'[q] = doomed[q]
  BY <1>0 DEF TypeOK, DeleteTag, DoomedIsLocal
<1>2. Undisturbed' = Undisturbed /\ \A q \in Requests : Newer(q)' = Newer(q)
  BY <1>1 DEF Undisturbed, Newer, DeleteTag
<1>3. ASSUME NEW q \in Requests, q # r, pod[q] # "none", RepoOf[q] \in Undisturbed
      PROVE  RepoOf[q] # RepoOf[d]
  BY <1>0, <1>1, <1>3, PodIsAlone
<1>4. ListedIsThere'
  <2> SUFFICES ASSUME NEW q \in Requests, pod[q] = "inspecting",
                      RepoOf[q] \in Undisturbed, NEW t \in doomed'[q]
               PROVE  t \in tags'
    BY <1>1, <1>2 DEF ListedIsThere
  <2>1. q # r /\ t \in doomed[q]
    BY <1>1
  <2>2. t \in tags /\ RepoOf[t] = RepoOf[q]
    BY <1>0, <2>1 DEF RetentionInv, ListedIsThere, DoomedIsLocal
  <2> QED
    BY <1>1, <1>3, <2>1, <2>2
<1>5. DoomedIsOutlived'
  <2> SUFFICES ASSUME NEW q \in Requests, pod[q] = "deleting",
                      RepoOf[q] \in Undisturbed, NEW t \in doomed'[q]
               PROVE  t \in Requests /\ Newer(t) \cap (tags' \ doomed'[q]) # {}
    <3>1. \A q \in Requests : doomed'[q] \subseteq Requests
      BY <1>0, <1>1 DEF TypeOK
    <3> QED
      BY <1>1, <1>2, <3>1 DEF DoomedIsOutlived, Outlived
  <2>1. t \in doomed[q] /\ t \in Outlived(q) /\ RepoOf[t] = RepoOf[q]
    BY <1>0, <1>1 DEF RetentionInv, DoomedIsOutlived, DoomedIsLocal
  <2>2. PICK u \in Newer(t) : u \in tags \ doomed[q]
    BY <2>1 DEF Outlived
  <2>3. u # d
    BY <1>1, <1>3, <2>1, <2>2 DEF Newer
  <2> QED
    BY <1>1, <2>1, <2>2, <2>3 DEF Outlived
<1> QED
  BY <1>4, <1>5 DEF RetentionInv

LEMMA RetentionStep == RetentionInv /\ [Next]_vars => RetentionInv'
<1> SUFFICES ASSUME RetentionInv, [Next]_vars PROVE RetentionInv'
  OBVIOUS
<1> USE DEF workflowVars, podVars, registryVars, historyVars
<1>0. BuildInv /\ BuildInv' /\ TypeOK
  BY NextKeepsInv DEF RetentionInv, BuildInv
<1>1. CASE UNCHANGED vars
  BY <1>0, <1>1, ListsUntouched DEF vars
<1>2. ASSUME NEW r \in Requests, StartRun(r) \/ AttemptStep(r) PROVE RetentionInv'
  <2>1. CASE CreateJob(r) \/ CreateError(r)
    <3>1. overlapped \subseteq overlapped' /\ UNCHANGED <<pod, doomed, registryVars, misjudged>>
      BY <2>1 DEF CreateJob, CreateError, NewJob
    <3> QED
      BY <1>0, <3>1, ListsUntouched
  <2>2. CASE ~(CreateJob(r) \/ CreateError(r))
    <3>1. UNCHANGED <<podVars, registryVars, historyVars>>
      BY <1>2, <2>2 DEF AttemptStep, StartRun, ListJobs, BuildInProgress, GetJob,
         Complete, JobFailed, AttemptError
    <3> QED
      BY <1>0, <3>1, ListsUntouched
  <2> QED
    BY <2>1, <2>2
<1>3. ASSUME NEW r \in Requests,
             \/ StartPod(r) \/ JobSucceeds(r) \/ Deadline(r) \/ RemoveJob(r)
             \/ UNCHANGED registryVars /\ PodOver(r)
      PROVE  RetentionInv'
  <2>1. /\ UNCHANGED <<registryVars, historyVars>>
        /\ \A q \in Requests :
             pod'[q] \in {"inspecting", "deleting"} =>
               pod'[q] = pod[q] /\ doomed'[q] = doomed[q]
    BY <1>0, <1>3 DEF TypeOK, StartPod, JobSucceeds, Deadline, RemoveJob, PodOver
  <2> QED
    BY <1>0, <2>1, ListsUntouched
<1>4. ASSUME NEW r \in Requests,
             \/ BuildAndPush(r)
             \/ pod[r] = "building" /\ PushImage(r) /\ PodOver(r)
      PROVE  RetentionInv'
  <2>1. /\ pod[r] = "building" /\ PushImage(r) /\ UNCHANGED historyVars
        /\ pod'[r] \in {"listing", "none"}
        /\ \A q \in Requests \ {r} : pod'[q] = pod[q] /\ doomed'[q] = doomed[q]
    BY <1>0, <1>4 DEF TypeOK, BuildAndPush, PodOver
  <2> QED
    BY <1>0, <2>1, PushKeepsLists
<1>5. ASSUME NEW r \in Requests, JobStep(r) PROVE RetentionInv'
  BY <1>0, <1>3, <1>4, <1>5, ListKeepsLists, InspectKeepsLists, DeleteKeepsLists
     DEF JobStep, PodFails
<1> QED
  BY <1>1, <1>2, <1>5 DEF Next

\* Only a prune script deletes, and only what has been outlived.
LEMMA DeletionIsRetention ==
  ASSUME RetentionInv, [Next]_vars, NEW t \in tags \ tags'
  PROVE  Newer(t) \cap tags # {} \/ RepoOf[t] \in overlapped \cup misjudged
<1> USE DEF workflowVars, podVars, registryVars, historyVars
<1>1. PICK r \in Requests, d \in Requests : DeleteTag(r, d)
  BY DEF Next, vars, StartRun, AttemptStep, ListJobs, BuildInProgress, GetJob, CreateJob,
     CreateError, Complete, JobFailed, AttemptError, JobStep, StartPod, BuildAndPush,
     PodFails, PushImage, PodOver, ListTags, InspectTags, JobSucceeds, Deadline, RemoveJob
<1>2. t = d /\ pod[r] = "deleting" /\ d \in doomed[r]
  BY <1>1 DEF DeleteTag
<1>3. RepoOf[t] = RepoOf[r] /\ RepoOf[t] \in Repos
  BY <1>2 DEF RetentionInv, BuildInv, DoomedIsLocal, Repos
<1>4. CASE RepoOf[r] \in Undisturbed
  BY <1>2, <1>4 DEF RetentionInv, DoomedIsOutlived, Outlived
<1> QED
  BY <1>3, <1>4 DEF Undisturbed

\* Retention never takes the newest image of a repository whose Jobs were
\* alone and whose tags could be inspected.
THEOREM NewestIsNotDeleted == Spec => NewestIsKept
<1>1. Init => RetentionInv
  <2>1. Init => BuildInv
    BY TypeInit DEF Init, BuildInv, AttemptsInBounds, CreatedInTime, PushedIsCreated,
       OverlapIsNoted, DoomedIsLocal, DoomedIsDisplaced, PushedIsAvailable
  <2> QED
    BY <2>1 DEF Init, RetentionInv, ListedIsThere, DoomedIsOutlived
<1>2. RetentionInv /\ [Next]_vars => RetentionInv'
  BY RetentionStep
<1>3. RetentionInv /\ [Next]_vars =>
        [\A r \in tags \ tags' :
           Newer(r) \cap tags # {} \/ RepoOf[r] \in overlapped \cup misjudged]_vars
  BY DeletionIsRetention
<1> QED
  BY <1>1, <1>2, <1>3, PTL DEF Spec, NewestIsKept

-----------------------------------------------------------------------------
(* The lookup.  LatestAvailableTag is a recursive function: that there is  *)
(* one, and what it holds after n tags, is shown at the least n for which  *)
(* it is not so.                                                           *)

LEMMA LeastNatural ==
  ASSUME NEW T \in SUBSET Nat, T # {}
  PROVE  \E n \in T : \A m \in T : n <= m
<1> DEFINE R == {ss \in Nat \X Nat : ss[1] < ss[2]}
<1>1. IsWellFoundedOn(R, Nat)
  BY NatLessThanWellFounded DEF OpToRel
<1> HIDE DEF R
<1>2. PICK n \in T : \A m \in T : ~ (<<m, n>> \in R)
  BY <1>1, WFMin
<1>3. ASSUME NEW m \in T PROVE n <= m
  <2>1. ~ (<<m, n>> \in R)
    BY <1>2
  <2> QED
    BY <2>1 DEF R
<1> QED
  BY <1>2, <1>3

NextTag(list, g, n) ==
  IF g[n - 1] = NoImage \/ IsLaterTag(list[n], g[n - 1]) THEN list[n] ELSE g[n - 1]

\* g is what the pass over the first m tags keeps, tag by tag.
IsPass(list, g, m) == g[0] = NoImage /\ \A n \in 1 .. m : g[n] = NextTag(list, g, n)

\* The recursion of LatestAvailableTag has a solution.
LEMMA LatestIsPass ==
  ASSUME NEW list \in Seq(Requests)
  PROVE  \E g : IsPass(list, g, Len(list)) /\ LatestAvailableTag(list) = g[Len(list)]
<1> DEFINE N == Len(list)
           X == Requests \cup {NoImage}
           T == {m \in 0 .. N : ~ \E g \in [0 .. m -> X] : IsPass(list, g, m)}
<1>1. N \in Nat /\ \A n \in 1 .. N : list[n] \in Requests
  OBVIOUS
<1> HIDE DEF N
<1>2. T = {}
  <2>1. SUFFICES ASSUME T # {} PROVE FALSE
    OBVIOUS
  <2>2. PICK m \in T : \A k \in T : m <= k
    <3>1. T \in SUBSET Nat
      BY <1>1
    <3> HIDE DEF T
    <3> QED
      BY <2>1, <3>1, LeastNatural
  <2>3. m \in 0 .. N /\ ~ \E g \in [0 .. m -> X] : IsPass(list, g, m)
    BY <2>2
  <2>4. m # 0
    <3>1. [n \in 0 .. 0 |-> NoImage] \in [0 .. 0 -> X]
      OBVIOUS
    <3>2. IsPass(list, [n \in 0 .. 0 |-> NoImage], 0)
      BY DEF IsPass
    <3> QED
      BY <2>3, <3>1, <3>2
  <2>5. PICK g \in [0 .. m - 1 -> X] : IsPass(list, g, m - 1)
    BY <1>1, <2>2, <2>3, <2>4
  <2> DEFINE h == [n \in 0 .. m |-> IF n = m THEN NextTag(list, g, m) ELSE g[n]]
  <2>6. NextTag(list, g, m) \in X
    BY <1>1, <2>3, <2>4 DEF NextTag
  <2>7. h \in [0 .. m -> X]
    BY <1>1, <2>3, <2>6
  <2>8. h[0] = NoImage
    BY <1>1, <2>3, <2>4, <2>5 DEF IsPass
  <2>9. ASSUME NEW n \in 1 .. m PROVE h[n] = NextTag(list, h, n)
    <3>1. h[n - 1] = g[n - 1]
      BY <1>1, <2>3
    <3>2. h[n] = NextTag(list, g, n)
      BY <1>1, <2>3, <2>5 DEF IsPass
    <3> QED
      BY <3>1, <3>2 DEF NextTag
  <2> HIDE DEF h
  <2>10. IsPass(list, h, m)
    BY <2>8, <2>9 DEF IsPass
  <2> QED
    BY <2>3, <2>7, <2>10
<1>3. PICK g \in [0 .. N -> X] : IsPass(list, g, N)
  BY <1>1, <1>2
<1> DEFINE Solves(f) == f = [n \in 0 .. N |-> IF n = 0 THEN NoImage ELSE NextTag(list, f, n)]
<1>4. Solves(g)
  BY <1>1, <1>3 DEF IsPass
<1>5. PICK k : k = CHOOSE f : Solves(f)
  OBVIOUS
<1>6. Solves(k)
  BY <1>4, <1>5
<1>7. LatestAvailableTag(list) = k[N]
  BY <1>5 DEF LatestAvailableTag, NextTag, N
<1>8. \A n \in 0 .. N : k[n] = IF n = 0 THEN NoImage ELSE NextTag(list, k, n)
  BY <1>6, Zenon
<1>9. IsPass(list, k, N)
  BY <1>1, <1>8 DEF IsPass
<1> QED
  BY <1>7, <1>9 DEF N

\* Versions of one repository can be told apart, and all are semantic ones.
VersionsAreOrdered ==
  \A r, q \in Requests :
    RepoOf[r] = RepoOf[q] /\ r # q =>
      Semver[r] \in Nat /\ Semver[q] \in Nat /\ Semver[r] # Semver[q]

IsUpTo(r, image) == r = image \/ IsHigher(image, r)

\* Then the pass keeps the highest version of the list, in whatever order
\* the registry returns it.
LEMMA LatestIsHighest ==
  ASSUME VersionsAreOrdered, NEW p, NEW S \in SUBSET {r \in Requests : RepoOf[r] = p},
         NEW list \in Seq(S), list # <<>>
  PROVE  /\ LatestAvailableTag(list) \in S
         /\ \A i \in 1 .. Len(list) : IsUpTo(list[i], LatestAvailableTag(list))
<1> DEFINE N == Len(list)
<1>1. N \in Nat \ {0} /\ \A n \in 1 .. N : list[n] \in S
  OBVIOUS
<1>2. list \in Seq(Requests)
  OBVIOUS
<1>3. PICK g : IsPass(list, g, N) /\ LatestAvailableTag(list) = g[N]
  BY <1>2, LatestIsPass
<1> HIDE DEF N
<1> DEFINE Highest(n) == g[n] \in S /\ \A i \in 1 .. n : IsUpTo(list[i], g[n])
           T == {n \in 1 .. N : ~ Highest(n)}
<1>4. NoImage \notin S
  BY LookupAssumption
<1>5. ASSUME NEW r \in S, NEW q \in S, r # q
      PROVE  IF IsLaterTag(r, q) THEN IsHigher(r, q) ELSE IsHigher(q, r)
  <2>1. Semver[r] \in Nat /\ Semver[q] \in Nat /\ Semver[r] # Semver[q]
    BY <1>5 DEF VersionsAreOrdered
  <2>2. BothSemver(r, q)
    BY <2>1, LookupAssumption DEF BothSemver
  <2> QED
    BY <1>4, <2>1, <2>2 DEF IsLaterTag, IsHigher
<1>6. ASSUME NEW r \in S, NEW q \in S, NEW t \in S, IsUpTo(r, q), IsHigher(t, q)
      PROVE  IsUpTo(r, t)
  <2>1. CASE r # t
    <3>1. r # q => Semver[r] \in Nat /\ Semver[q] \in Nat
      BY DEF VersionsAreOrdered
    <3>2. Semver[t] \in Nat /\ Semver[r] \in Nat
      BY <2>1 DEF VersionsAreOrdered
    <3> QED
      BY <1>6, <3>1, <3>2 DEF IsUpTo, IsHigher
  <2> QED
    BY <2>1 DEF IsUpTo
<1>7. ASSUME NEW m \in 1 .. N, m = 1 \/ Highest(m - 1) PROVE Highest(m)
  <2>1. g[m] = NextTag(list, g, m) /\ list[m] \in S
    BY <1>1, <1>3 DEF IsPass
  <2>2. CASE m = 1
    <3>1. g[m] = list[m]
      BY <1>3, <2>1, <2>2 DEF IsPass, NextTag
    <3> QED
      BY <2>1, <2>2, <3>1 DEF IsUpTo
  <2>3. CASE m # 1
    <3>1. g[m - 1] \in S /\ \A i \in 1 .. m - 1 : IsUpTo(list[i], g[m - 1])
      BY <1>7, <2>3
    <3>2. \A i \in 1 .. m : i = m \/ i \in 1 .. m - 1
      BY <1>1
    <3>3. \A i \in 1 .. m - 1 : list[i] \in S
      BY <1>1
    <3>4. CASE g[m] = g[m - 1]
      <4>1. IsUpTo(list[m], g[m])
        BY <1>4, <1>5, <2>1, <3>1, <3>4 DEF IsUpTo, NextTag
      <4> QED
        BY <3>1, <3>2, <3>4, <4>1
    <3>5. CASE g[m] # g[m - 1]
      <4>1. g[m] = list[m] /\ IsHigher(list[m], g[m - 1])
        BY <1>4, <1>5, <2>1, <3>1, <3>5 DEF NextTag
      <4>2. \A i \in 1 .. m - 1 : IsUpTo(list[i], g[m])
        BY <1>6, <2>1, <3>1, <3>3, <4>1
      <4> QED
        BY <2>1, <3>2, <4>1, <4>2 DEF IsUpTo
    <3> QED
      BY <3>4, <3>5
  <2> QED
    BY <2>2, <2>3
<1>8. T = {}
  <2>1. SUFFICES ASSUME T # {} PROVE FALSE
    OBVIOUS
  <2>2. PICK m \in T : \A k \in T : m <= k
    <3>1. T \in SUBSET Nat
      BY <1>1
    <3> HIDE DEF T
    <3> QED
      BY <2>1, <3>1, LeastNatural
  <2> HIDE DEF Highest
  <2>3. m \in 1 .. N /\ ~ Highest(m)
    BY <2>2
  <2>4. m # 1 => m - 1 \in 1 .. N /\ m - 1 \notin T
    BY <1>1, <2>2, <2>3
  <2> QED
    BY <1>7, <2>3, <2>4
<1>9. Highest(N)
  BY <1>1, <1>8
<1> QED
  BY <1>3, <1>9 DEF N

\* So every answer is the highest version of those in the repository.
LEMMA AnswerIsHighest ==
  ASSUME VersionsAreOrdered, NEW p, NEW S \in SUBSET {r \in Requests : RepoOf[r] = p},
         NEW list \in SetToSeqs(S)
  PROVE  IF S = {} THEN LatestAvailableTag(list) = NoImage
         ELSE /\ LatestAvailableTag(list) \in S
              /\ \A r \in S : IsUpTo(r, LatestAvailableTag(list))
<1> DEFINE N == Cardinality(S)
<1>1. IsFiniteSet(S) /\ N \in Nat
  BY FS_Subset, FS_CardinalityType, BuildAssumption
<1>2. list \in [1 .. N -> S] /\ \A i, j \in 1 .. N : i # j => list[i] # list[j]
  BY DEF SetToSeqs
<1>3. N = 0 <=> S = {}
  BY <1>1, FS_EmptySet
<1>4. \A r \in S : \E i \in 1 .. N : list[i] = r
  <2>1. list \in Injection(1 .. N, S)
    BY <1>2 DEF Injection, IsInjective
  <2>2. Cardinality(1 .. N) = N
    BY <1>1, FS_Interval
  <2>3. list \in Surjection(1 .. N, S)
    BY <1>1, <2>1, <2>2, FS_Injection
  <2> QED
    BY <2>3 DEF Surjection
<1> HIDE DEF N
<1>5. list \in Seq(S) /\ Len(list) = N
  BY <1>1, <1>2
<1>6. CASE S = {}
  <2>1. list \in Seq(Requests) /\ Len(list) = 0
    BY <1>3, <1>5, <1>6
  <2> QED
    BY <1>6, <2>1, LatestIsPass DEF IsPass
<1>7. CASE S # {}
  <2>1. list # <<>>
    BY <1>1, <1>3, <1>5, <1>7
  <2>2. /\ LatestAvailableTag(list) \in S
        /\ \A i \in 1 .. N : IsUpTo(list[i], LatestAvailableTag(list))
    BY <1>5, <2>1, LatestIsHighest
  <2> QED
    BY <1>4, <1>7, <2>2
<1> QED
  BY <1>6, <1>7

\* With ordered versions, a lookup after a build that completed tells its
\* image or one of a higher version, in whatever order the registry lists
\* the tags, until Keep newer images have been pushed: the two components
\* meet, for retention goes by creation time and the lookup by version.
THEOREM CompletedIsTold == VersionsAreOrdered => (Spec => []CompletedIsServed)
<1> SUFFICES ASSUME VersionsAreOrdered PROVE Spec => []CompletedIsServed
  OBVIOUS
<1>1. BuildInv => CompletedIsServed
  <2> SUFFICES ASSUME BuildInv, NEW r \in Requests, run[r] = "completed", ~ MayBeGone(r),
                      NEW image \in Answers(RepoOf[r])
               PROVE  IsUpTo(r, image)
    BY DEF CompletedIsServed, IsUpTo
  <2> DEFINE S == {t \in tags : RepoOf[t] = RepoOf[r]}
  <2>1. S \in SUBSET {q \in Requests : RepoOf[q] = RepoOf[r]}
    BY DEF BuildInv, TypeOK
  <2>2. r \in S
    <3>1. created[r] > 0 /\ r \notin Displaced /\ RepoOf[r] \in Undisturbed
      BY DEF BuildInv, PushedIsCreated, MayBeGone, Displaced, Undisturbed, Repos
    <3> QED
      BY <3>1 DEF BuildInv, PushedIsAvailable
  <2>3. PICK list \in SetToSeqs(S) : image = LatestAvailableTag(list)
    BY DEF Answers, TagLists
  <2> HIDE DEF S
  <2> QED
    BY <2>1, <2>2, <2>3, AnswerIsHighest
<1> QED
  BY <1>1, InvCorrect, PTL

\* Only an image that Keep newer ones have followed is taken away.
LEMMA TakenIsDisplaced ==
  ASSUME BuildInv, [Next]_vars, NEW t \in tags \ tags'
  PROVE  MayBeGone(t)
<1> USE DEF workflowVars, podVars, registryVars, historyVars
<1>1. PICK r \in Requests, d \in Requests : DeleteTag(r, d)
  BY DEF Next, vars, StartRun, AttemptStep, ListJobs, BuildInProgress, GetJob, CreateJob,
     CreateError, Complete, JobFailed, AttemptError, JobStep, StartPod, BuildAndPush,
     PodFails, PushImage, PodOver, ListTags, InspectTags, JobSucceeds, Deadline, RemoveJob
<1>2. t = d /\ pod[r] = "deleting" /\ d \in doomed[r]
  BY <1>1 DEF DeleteTag
<1>3. RepoOf[t] = RepoOf[r] /\ RepoOf[t] \in Repos
  BY <1>2 DEF BuildInv, DoomedIsLocal, Repos
<1>4. CASE RepoOf[r] \in Undisturbed
  BY <1>2, <1>4 DEF BuildInv, DoomedIsDisplaced, Displaced, MayBeGone
<1> QED
  BY <1>3, <1>4 DEF Undisturbed, MayBeGone

\* From one lookup to the next, answers go to higher versions only: nothing
\* but retention takes one back, and that only when Keep newer images have
\* been pushed.
THEOREM AnswersAdvance == VersionsAreOrdered => (Spec => AnswersGoForward)
<1> SUFFICES ASSUME VersionsAreOrdered PROVE Spec => AnswersGoForward
  OBVIOUS
<1> DEFINE Forward == \A p \in Repos : \A old \in Answers(p) \ {NoImage}, new \in Answers(p)' :
                        new = old \/ IsHigher(new, old) \/ MayBeGone(old)
<1>1. BuildInv /\ [Next]_vars => Forward
  <2> SUFFICES ASSUME BuildInv, [Next]_vars, NEW p \in Repos,
                      NEW old \in Answers(p), old # NoImage, NEW new \in Answers(p)'
               PROVE  IsUpTo(old, new) \/ MayBeGone(old)
    BY DEF IsUpTo
  <2>1. PICK S : S = {t \in tags : RepoOf[t] = p}
    OBVIOUS
  <2>2. PICK S2 : S2 = {t \in tags' : RepoOf[t] = p}
    OBVIOUS
  <2>3. tags \in SUBSET Requests /\ tags' \in SUBSET Requests
    BY NextKeepsInv DEF BuildInv, TypeOK
  <2>4. PICK list \in SetToSeqs(S) : old = LatestAvailableTag(list)
    BY <2>1 DEF Answers, TagLists
  <2>5. PICK list2 \in SetToSeqs(S2) : new = LatestAvailableTag(list2)
    BY <2>2 DEF Answers, TagLists
  <2>6. /\ S \in SUBSET {r \in Requests : RepoOf[r] = p}
        /\ S2 \in SUBSET {r \in Requests : RepoOf[r] = p}
    BY <2>1, <2>2, <2>3
  <2>7. old \in S
    BY <2>4, <2>6, AnswerIsHighest
  <2>8. CASE old \in S2
    BY <2>5, <2>6, <2>8, AnswerIsHighest
  <2>9. CASE old \notin S2
    <3>1. old \in tags \ tags'
      BY <2>1, <2>2, <2>7, <2>9
    <3> QED
      BY <3>1, TakenIsDisplaced
  <2> QED
    BY <2>8, <2>9
<1> QED
  BY <1>1, InvCorrect, PTL DEF Spec, AnswersGoForward

=============================================================================
