----------------------------- MODULE ImageBuild -----------------------------
(***************************************************************************)
(* Building CLI runtime images: the Temporal workflow started for a build  *)
(* request, the activity attempts that run ImageBuildJobRunner, the        *)
(* Kubernetes Jobs these create, the two containers of a Job's pod (build  *)
(* and push, then prune old tags) and the tags in the registry.            *)
(*                                                                         *)
(* A request is one CLI version for one image repository.  It names its    *)
(* workflow, its Job and its tag: workflow id and Job name are functions   *)
(* of the RequestID, the tag of the version.                               *)
(***************************************************************************)
EXTENDS Naturals, FiniteSets

CONSTANTS
  Requests,     \* image build requests, by RequestID
  RepoOf,       \* RepoOf[r]: the image repository of r
  MaxAttempts,  \* attempts of the activity (12 in the code)
  MaxPods,      \* pods of a Job: BackoffLimit + 1 (2)
  Keep,         \* RETENTION_KEEP_TAGS (2)
  MaxRuns,      \* bound: workflow runs per request
  MaxPushes     \* bound: images pushed with a creation time of their own

ASSUME BuildAssumption ==
  /\ IsFiniteSet(Requests)
  /\ MaxAttempts \in Nat \ {0}
  /\ MaxPods \in Nat \ {0}
  /\ Keep \in Nat \ {0}
  /\ MaxRuns \in Nat
  /\ MaxPushes \in Nat

VARIABLES
  run,         \* run[r]: the latest run of the workflow of r
  runs,        \* runs[r]: how many there were
  attempt,     \* attempt[r]: attempts begun in this run
  step,        \* step[r]: where runImageBuildInternal stands
  job,         \* job[r]: the Job of r as its status tells it
  pods,        \* pods[r]: pods this Job has started
  pod,         \* pod[r]: what its pod is doing
  doomed,      \* doomed[r]: tags the prune script has in its temporary file
  tags,        \* tags in the registry, by request
  created,     \* created[r]: creation time of the image last pushed for r
  clock,       \* the last creation time
  overlapped,  \* repositories two Jobs have worked on at once (history)
  misjudged    \* repositories with a tag that could not be inspected (history)

workflowVars == <<run, runs, attempt, step>>
podVars == <<pods, pod, doomed>>
registryVars == <<tags, created, clock>>
historyVars == <<overlapped, misjudged>>
vars == <<workflowVars, job, podVars, registryVars, historyVars>>

Repos == {RepoOf[r] : r \in Requests}

TypeOK ==
  /\ run \in [Requests -> {"none", "open", "completed", "failed"}]
  /\ runs \in [Requests -> 0 .. MaxRuns]
  /\ attempt \in [Requests -> 0 .. MaxAttempts]
  /\ step \in [Requests -> {"off", "backoff", "listed", "absent", "waiting"}]
  /\ job \in [Requests -> {"none", "active", "succeeded", "failed"}]
  /\ pods \in [Requests -> 0 .. MaxPods]
  /\ pod \in [Requests -> {"none", "building", "listing", "inspecting", "deleting"}]
  /\ doomed \in [Requests -> SUBSET Requests]
  /\ tags \in SUBSET Requests
  /\ created \in [Requests -> 0 .. MaxPushes]
  /\ clock \in 0 .. MaxPushes
  /\ overlapped \in SUBSET Repos
  /\ misjudged \in SUBSET Repos
  /\ \A r \in Requests : step[r] # "off" <=> run[r] = "open"
  /\ \A r \in Requests : pod[r] # "none" => job[r] = "active"

Init ==
  /\ run = [r \in Requests |-> "none"]
  /\ runs = [r \in Requests |-> 0]
  /\ attempt = [r \in Requests |-> 0]
  /\ step = [r \in Requests |-> "off"]
  /\ job = [r \in Requests |-> "none"]
  /\ pods = [r \in Requests |-> 0]
  /\ pod = [r \in Requests |-> "none"]
  /\ doomed = [r \in Requests |-> {}]
  /\ tags = {}
  /\ created = [r \in Requests |-> 0]
  /\ clock = 0
  /\ overlapped = {}
  /\ misjudged = {}

-----------------------------------------------------------------------------
(* The workflow.                                                           *)

\* HandleDomainEvent: a run is started unless one is open (USE_EXISTING);
\* an event that is delivered again after the run closed starts another.
StartRun(r) ==
  /\ run[r] # "open"
  /\ runs[r] < MaxRuns
  /\ run' = [run EXCEPT ![r] = "open"]
  /\ runs' = [runs EXCEPT ![r] = @ + 1]
  /\ attempt' = [attempt EXCEPT ![r] = 0]
  /\ step' = [step EXCEPT ![r] = "backoff"]
  /\ UNCHANGED <<job, podVars, registryVars, historyVars>>

\* Mutation: no limit on the attempts.
AttemptFailsForever(r, n) ==
  /\ step' = [step EXCEPT ![r] = "backoff"]
  /\ attempt' = [attempt EXCEPT ![r] = 0]
  /\ UNCHANGED <<run, runs>>

\* The n-th attempt of r ends in an error: retry, or fail the run.
AttemptFails(r, n) ==
  /\ attempt' = [attempt EXCEPT ![r] = n]
  /\ \/ n < MaxAttempts /\ step' = [step EXCEPT ![r] = "backoff"] /\ run' = run
     \/ n = MaxAttempts /\ step' = [step EXCEPT ![r] = "off"]
                        /\ run' = [run EXCEPT ![r] = "failed"]
  /\ UNCHANGED <<runs>>

\* activeBuildExists, on the list of Jobs.
OtherActive(r) == \E q \in Requests \ {r} : job[q] = "active"

\* An attempt begins and sees no other build ...
ListJobs(r) ==
  /\ step[r] = "backoff"
  /\ ~OtherActive(r)
  /\ attempt' = [attempt EXCEPT ![r] = @ + 1]
  /\ step' = [step EXCEPT ![r] = "listed"]
  /\ UNCHANGED <<run, runs, job, podVars, registryVars, historyVars>>

\* ... or sees one and returns ErrBuildInProgress.
BuildInProgress(r) ==
  /\ step[r] = "backoff"
  /\ OtherActive(r)
  /\ AttemptFails(r, attempt[r] + 1)
  /\ UNCHANGED <<job, podVars, registryVars, historyVars>>

\* The Job of r is looked up: an existing one, whatever its state, is the
\* one to wait for.
GetJob(r) ==
  /\ step[r] = "listed"
  /\ step' = [step EXCEPT ![r] = IF job[r] = "none" THEN "absent" ELSE "waiting"]
  /\ UNCHANGED <<run, runs, attempt, job, podVars, registryVars, historyVars>>

\* The API server takes the new Job; an existing one stays what it is.
NewJob(r) ==
  IF job[r] # "none"
    THEN UNCHANGED <<job, pods, overlapped>>
    ELSE /\ job' = [job EXCEPT ![r] = "active"]
         /\ pods' = [pods EXCEPT ![r] = 0]
         /\ overlapped' = overlapped \cup
              ({RepoOf[r]} \cap {RepoOf[q] : q \in {s \in Requests : job[s] = "active"}})

CreateJob(r) ==
  /\ step[r] = "absent"
  /\ NewJob(r)
  /\ step' = [step EXCEPT ![r] = "waiting"]
  /\ UNCHANGED <<run, runs, attempt, pod, doomed, registryVars, misjudged>>

\* The call fails, and the Job may exist all the same.
CreateError(r) ==
  /\ step[r] = "absent"
  /\ NewJob(r) \/ UNCHANGED <<job, pods, overlapped>>
  /\ AttemptFails(r, attempt[r])
  /\ UNCHANGED <<pod, doomed, registryVars, misjudged>>

\* wait sees the Job succeeded.
Complete(r) ==
  /\ step[r] = "waiting"
  /\ job[r] = "succeeded"
  /\ run' = [run EXCEPT ![r] = "completed"]
  /\ step' = [step EXCEPT ![r] = "off"]
  /\ UNCHANGED <<runs, attempt, job, podVars, registryVars, historyVars>>

\* wait sees it failed, or does not find it any more.  The Job stays, so
\* the next attempt will see the same.
JobFailed(r) ==
  /\ step[r] = "waiting"
  /\ job[r] \in {"failed", "none"}
  /\ AttemptFails(r, attempt[r])
  /\ UNCHANGED <<job, podVars, registryVars, historyVars>>

\* Any API call fails, there is no Dockerfile, the hour of waiting is over,
\* or the worker dies and Temporal times the attempt out.
AttemptError(r) ==
  /\ \/ step[r] = "backoff" /\ AttemptFails(r, attempt[r] + 1)
     \/ step[r] \in {"listed", "absent", "waiting"} /\ AttemptFails(r, attempt[r])
  /\ UNCHANGED <<job, podVars, registryVars, historyVars>>

-----------------------------------------------------------------------------
(* Kubernetes and the pod's containers.                                    *)

StartPod(r) ==
  /\ job[r] = "active"
  /\ pod[r] = "none"
  /\ pods[r] < MaxPods
  /\ pods' = [pods EXCEPT ![r] = @ + 1]
  /\ pod' = [pod EXCEPT ![r] = "building"]
  /\ UNCHANGED <<workflowVars, job, doomed, registryVars, historyVars>>

\* buildctl pushes the image.  Built from the cache it keeps the creation
\* time of the image it repeats.
PushImage(r) ==
  /\ tags' = tags \cup {r}
  /\ \/ created[r] # 0 /\ UNCHANGED <<created, clock>>
     \/ /\ clock < MaxPushes
        /\ clock' = clock + 1
        /\ created' = [created EXCEPT ![r] = clock + 1]

BuildAndPush(r) ==
  /\ pod[r] = "building"
  /\ PushImage(r)
  /\ pod' = [pod EXCEPT ![r] = "listing"]
  /\ UNCHANGED <<workflowVars, job, pods, doomed, historyVars>>

\* The pod is over without success; with it perhaps the Job.
PodOver(r) ==
  /\ pod' = [pod EXCEPT ![r] = "none"]
  /\ doomed' = [doomed EXCEPT ![r] = {}]
  /\ job' = IF pods[r] < MaxPods THEN job ELSE [job EXCEPT ![r] = "failed"]
  /\ UNCHANGED <<workflowVars, pods, historyVars>>

\* A container fails or the pod is lost, at any point; the push may just
\* have happened.
PodFails(r) ==
  /\ pod[r] # "none"
  /\ \/ UNCHANGED registryVars
     \/ pod[r] = "building" /\ PushImage(r)
  /\ PodOver(r)

\* The prune script lists the tags of its repository; a list that fails
\* counts as empty, because the pipe hides the error.
ListTags(r) ==
  /\ pod[r] = "listing"
  /\ pod' = [pod EXCEPT ![r] = "inspecting"]
  /\ \E failed \in BOOLEAN :
       doomed' = [doomed EXCEPT ![r] =
                    IF failed THEN {} ELSE {t \in tags : RepoOf[t] = RepoOf[r]}]
  /\ UNCHANGED <<workflowVars, job, pods, registryVars, historyVars>>

\* Mutation: the list is sorted the other way round.
IsNewest(D, L, F) ==
  /\ D \subseteq L
  /\ IF Cardinality(L) <= Keep THEN D = {} ELSE Cardinality(L \ D) = Keep
  /\ \A d \in D, t \in L \ D : t \in F \/ (d \notin F /\ created[t] < created[d])

\* D is what "sort | awk" leaves of the list L for deletion when the tags of
\* F could not be inspected and count as created in the year 1.
IsOldest(D, L, F) ==
  /\ D \subseteq L
  /\ IF Cardinality(L) <= Keep THEN D = {} ELSE Cardinality(L \ D) = Keep
  /\ \A d \in D, t \in L \ D : d \in F \/ (t \notin F /\ created[d] < created[t])

InspectTags(r) ==
  /\ pod[r] = "inspecting"
  /\ pod' = [pod EXCEPT ![r] = "deleting"]
  /\ \E F \in SUBSET doomed[r], D \in SUBSET doomed[r] :
       /\ IsOldest(D, doomed[r], F)
       /\ doomed' = [doomed EXCEPT ![r] = D]
       /\ misjudged' = misjudged \cup {RepoOf[t] : t \in F}
  /\ UNCHANGED <<workflowVars, job, pods, registryVars, overlapped>>

DeleteTag(r, t) ==
  /\ pod[r] = "deleting"
  /\ t \in doomed[r]
  /\ tags' = tags \ {t}
  /\ doomed' = [doomed EXCEPT ![r] = @ \ {t}]
  /\ UNCHANGED <<workflowVars, job, pods, pod, created, clock, historyVars>>

\* The last container exits with 0.
JobSucceeds(r) ==
  /\ pod[r] = "deleting"
  /\ doomed[r] = {}
  /\ pod' = [pod EXCEPT ![r] = "none"]
  /\ job' = [job EXCEPT ![r] = "succeeded"]
  /\ UNCHANGED <<workflowVars, pods, doomed, registryVars, historyVars>>

\* ActiveDeadlineSeconds have passed.
Deadline(r) ==
  /\ job[r] = "active"
  /\ job' = [job EXCEPT ![r] = "failed"]
  /\ pod' = [pod EXCEPT ![r] = "none"]
  /\ doomed' = [doomed EXCEPT ![r] = {}]
  /\ UNCHANGED <<workflowVars, pods, registryVars, historyVars>>

\* TTLSecondsAfterFinished have passed: the Job is deleted.
RemoveJob(r) ==
  /\ job[r] \in {"succeeded", "failed"}
  /\ job' = [job EXCEPT ![r] = "none"]
  /\ UNCHANGED <<workflowVars, podVars, registryVars, historyVars>>

-----------------------------------------------------------------------------
AttemptStep(r) ==
  \/ ListJobs(r) \/ BuildInProgress(r) \/ GetJob(r)
  \/ CreateJob(r) \/ CreateError(r) \/ Complete(r) \/ JobFailed(r) \/ AttemptError(r)

JobStep(r) ==
  \/ StartPod(r) \/ BuildAndPush(r) \/ PodFails(r)
  \/ ListTags(r) \/ InspectTags(r) \/ (\E t \in Requests : DeleteTag(r, t))
  \/ JobSucceeds(r) \/ Deadline(r) \/ RemoveJob(r)

Next == \E r \in Requests : StartRun(r) \/ AttemptStep(r) \/ JobStep(r)

Spec == Init /\ [][Next]_vars

\* Temporal schedules the next attempt, and every attempt ends: its calls
\* return, and waiting is limited to an hour.
FairSpec == Spec /\ \A r \in Requests : WF_vars(AttemptStep(r))

-----------------------------------------------------------------------------
\* Images of r's repository that are newer than the one last pushed for r.
Newer(r) == {q \in Requests : RepoOf[q] = RepoOf[r] /\ created[r] < created[q]}

\* A build that completed has its image in the registry unless Keep newer
\* images of the repository came after it: neither retries, nor an old Job
\* that is met again, nor retention makes a workflow report an image that
\* is not there.  Two Jobs on one repository at a time, or a tag that could
\* not be inspected, void this.
CompletedIsAvailable ==
  \A r \in Requests :
    run[r] = "completed" =>
      /\ created[r] > 0
      /\ RepoOf[r] \notin overlapped \cup misjudged =>
           r \in tags \/ Cardinality(Newer(r)) >= Keep

\* Retention deletes an image only when the repository holds a newer one,
\* with the same two exceptions: old lists and half-done deletions never
\* leave a repository without its newest image.
NewestIsKept ==
  [][\A r \in tags \ tags' :
       Newer(r) \cap tags # {} \/ RepoOf[r] \in overlapped \cup misjudged]_vars

\* Every workflow run ends: waiting for another build, for a Job that never
\* gets a pod or for a failed one does not go on for ever.
RunsEnd == \A r \in Requests : run[r] = "open" ~> run[r] # "open"

\* ErrBuildInProgress: there is never more than one build in progress.
OneBuildAtATime == \A r, q \in Requests : job[r] = "active" /\ job[q] = "active" => r = q

=============================================================================
