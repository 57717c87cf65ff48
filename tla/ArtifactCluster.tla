--------------------------- MODULE ArtifactCluster ---------------------------
(***************************************************************************)
(* The cluster around the ModelArtifact controller, for one artifact name: *)
(* the objects in the API server (the artifact, its Jobs and Pods, the     *)
(* workspace PVC), the informer caches the controller reads them from, its *)
(* work queue, and what users, the Job controller, the kubelet and the     *)
(* garbage collector do to them.  None of this code is in the repository:  *)
(* it is modelled from what src/ creates, watches, reads and deletes.      *)
(***************************************************************************)
EXTENDS ArtifactStatus, FiniteSets

CONSTANTS MaxUid,    \* how often an artifact of this name is created
          MaxGen,    \* how often its spec is set
          MaxJobs,   \* how many Jobs may be created
          Lagging,   \* the kinds whose cache may be behind the API server
          EagerTTL   \* may a Job's TTL end before its end was dealt with?

Kinds == {"artifact", "jobs", "pods", "pvc"}

ASSUME BoundsAssumption == MaxUid \in Nat /\ MaxGen \in Nat /\ MaxJobs \in Nat
ASSUME LaggingAssumption == Lagging \subseteq Kinds
ASSUME TTLAssumption == EagerTTL \in BOOLEAN

VARIABLES
  ma,      \* the ModelArtifact: uid, generation (0: no such object), status
  pvc,     \* the workspace PVC: its state and the uid of its owner
  jobs,    \* the Jobs created so far, by number
  pods,    \* the Pod of each Job
  cMa, cJobs, cPods, cPvc,  \* the informer caches
  queue,   \* is the artifact's key in the work queue?
  pushed   \* history: the revisions whose pipeline has pushed its artifact

api    == <<ma, jobs, pods, pvc>>
caches == <<cMa, cJobs, cPods, cPvc>>
clusterVars == <<api, caches, queue, pushed>>

JobId == 1 .. MaxJobs

Condition == [status : ReadyValues, reason : Reasons, gen : Nat]
Status == [phase : Phases, obs : Nat, digest : Rev, ref : Rev,
           cond : Condition, jobRef : Nat]
Artifact == [uid : Nat, gen : Nat, st : Status]
Workspace == [st : {"absent", "bound", "terminating"}, uid : Nat]
Job == [uid : Nat, gen : Nat, del : BOOLEAN,
        st : {"absent", "new", "active", "succeeded", "failed", "gone"}]
PodStates == {"none", "waiting", "running", "succeeded", "failed"}

NoCondition == [status |-> "", reason |-> "", gen |-> 0]
NoStatus == [phase |-> "", obs |-> 0, digest |-> NoRev, ref |-> NoRev,
             cond |-> NoCondition, jobRef |-> 0]
NoArtifact == [uid |-> 0, gen |-> 0, st |-> NoStatus]
NoWorkspace == [st |-> "absent", uid |-> 0]
NoJob == [uid |-> 0, gen |-> 0, del |-> FALSE, st |-> "absent"]

ClusterTypeOK ==
  /\ ma \in Artifact /\ cMa \in Artifact
  /\ pvc \in Workspace /\ cPvc \in Workspace
  /\ jobs \in [JobId -> Job] /\ cJobs \in [JobId -> Job]
  /\ pods \in [JobId -> PodStates] /\ cPods \in [JobId -> PodStates]
  /\ queue \in BOOLEAN
  /\ pushed \subseteq Rev

ClusterInit ==
  /\ ma = NoArtifact /\ cMa = NoArtifact
  /\ pvc = NoWorkspace /\ cPvc = NoWorkspace
  /\ jobs = [j \in JobId |-> NoJob] /\ cJobs = jobs
  /\ pods = [j \in JobId |-> "none"] /\ cPods = pods
  /\ queue = FALSE
  /\ pushed = {}

(***************************************************************************)
(* The manager's client answers Get and List from the caches.  The cache   *)
(* of a kind in Lagging may be behind by any number of changes; that of    *)
(* another kind follows each change before anything else happens.          *)
(***************************************************************************)
UpToDate ==
  /\ "artifact" \in Lagging \/ cMa = ma
  /\ "jobs" \in Lagging \/ cJobs = jobs
  /\ "pods" \in Lagging \/ cPods = pods
  /\ "pvc" \in Lagging \/ cPvc = pvc

Exists(job) == job.st \notin {"absent", "gone"}
Live(job) == Exists(job) /\ ~job.del
Existing(uid) == ma.gen # 0 /\ ma.uid = uid
RevOf(job) == [uid |-> job.uid, gen |-> job.gen]

(***************************************************************************)
(* Events.  A Job event always enqueues its owner; an artifact event only  *)
(* when the object was created, deleted or its generation changed.  Pods   *)
(* and PVCs are read but not watched for events.                           *)
(***************************************************************************)
GenerationChanged == ma.uid # cMa.uid \/ ma.gen # cMa.gen

SyncArtifact ==
  /\ cMa # ma
  /\ cMa' = ma
  /\ queue' = (queue \/ GenerationChanged)
  /\ UNCHANGED <<api, cJobs, cPods, cPvc, pushed>>

SyncJobs ==
  /\ cJobs # jobs
  /\ cJobs' = jobs
  /\ queue' = TRUE
  /\ UNCHANGED <<api, cMa, cPods, cPvc, pushed>>

SyncPods ==
  /\ cPods # pods
  /\ cPods' = pods
  /\ UNCHANGED <<api, cMa, cJobs, cPvc, queue, pushed>>

SyncPvc ==
  /\ cPvc # pvc
  /\ cPvc' = pvc
  /\ UNCHANGED <<api, cMa, cJobs, cPods, queue, pushed>>

\* The informers' periodic resync replays an update of every cached object; the
\* artifact's is dropped, as its generation is the same.
Resync ==
  /\ ~queue /\ \E j \in JobId : Exists(cJobs[j])
  /\ queue' = TRUE
  /\ UNCHANGED <<api, caches, pushed>>

(***************************************************************************)
(* Users.  Every edit of the spec increments metadata.generation; deletion *)
(* is in the background, the default, and an artifact of the same name may *)
(* be created again at once.                                               *)
(***************************************************************************)
UserCreate ==
  /\ ma.gen = 0 /\ ma.uid < MaxUid /\ MaxGen > 0
  /\ ma' = [uid |-> ma.uid + 1, gen |-> 1, st |-> NoStatus]
  /\ UNCHANGED <<pvc, jobs, pods, caches, queue, pushed>>

UserEdit ==
  /\ ma.gen # 0 /\ ma.gen < MaxGen
  /\ ma' = [ma EXCEPT !.gen = @ + 1]
  /\ UNCHANGED <<pvc, jobs, pods, caches, queue, pushed>>

UserDelete ==
  /\ ma.gen # 0
  /\ ma' = [ma EXCEPT !.gen = 0, !.st = NoStatus]
  /\ UNCHANGED <<pvc, jobs, pods, caches, queue, pushed>>

(***************************************************************************)
(* The Job controller and the kubelet.  A Job runs one Pod (backoffLimit   *)
(* 0); the Pod cannot start without its PVC, nor on one being deleted.     *)
(* A pipeline that succeeds has pushed the artifact of its revision; one   *)
(* that fails may have, or was stopped after it (kit push is not its last  *)
(* step).                                                                  *)
(***************************************************************************)
JobStarts(j) ==
  /\ jobs[j].st = "new"
  /\ jobs' = [jobs EXCEPT ![j].st = "active"]
  /\ pods' = [pods EXCEPT ![j] = "waiting"]
  /\ UNCHANGED <<ma, pvc, caches, queue, pushed>>

PodStarts(j) ==
  /\ pods[j] = "waiting" /\ pvc.st = "bound"
  /\ pods' = [pods EXCEPT ![j] = "running"]
  /\ UNCHANGED <<ma, pvc, jobs, caches, queue, pushed>>

PodPushes(j) ==
  /\ pods[j] = "running" /\ RevOf(jobs[j]) \notin pushed
  /\ pushed' = pushed \cup {RevOf(jobs[j])}
  /\ UNCHANGED <<ma, pvc, jobs, pods, caches, queue>>

PodSucceeds(j) ==
  /\ pods[j] = "running" /\ RevOf(jobs[j]) \in pushed
  /\ pods' = [pods EXCEPT ![j] = "succeeded"]
  /\ UNCHANGED <<ma, pvc, jobs, caches, queue, pushed>>

PodFails(j) ==
  /\ pods[j] = "running"
  /\ pods' = [pods EXCEPT ![j] = "failed"]
  /\ UNCHANGED <<ma, pvc, jobs, caches, queue, pushed>>

JobFinishes(j) ==
  /\ jobs[j].st = "active" /\ pods[j] \in {"succeeded", "failed"}
  /\ jobs' = [jobs EXCEPT ![j].st = pods[j]]
  /\ UNCHANGED <<ma, pvc, pods, caches, queue, pushed>>

\* ttlSecondsAfterFinished: the Job is deleted in the foreground, that is, it
\* is marked for deletion and disappears after its Pod.  It is an hour: unless
\* EagerTTL, events have been delivered and dealt with when it ends.
Settled == ~queue /\ caches = api

TTLExpires(j) ==
  /\ jobs[j].st \in {"succeeded", "failed"} /\ ~jobs[j].del
  /\ EagerTTL \/ Settled
  /\ jobs' = [jobs EXCEPT ![j].del = TRUE]
  /\ UNCHANGED <<ma, pvc, pods, caches, queue, pushed>>

(***************************************************************************)
(* The garbage collector, by owner references, and the finalizers that     *)
(* delay it: a PVC stays while a running Pod uses it, a Job deleted in the *)
(* foreground stays while its Pod exists.                                  *)
(***************************************************************************)
CollectJob(j) ==
  /\ Exists(jobs[j]) /\ jobs[j].uid # 0 /\ ~Existing(jobs[j].uid)
  /\ jobs' = [jobs EXCEPT ![j].st = "gone"]
  /\ UNCHANGED <<ma, pvc, pods, caches, queue, pushed>>

ReapJob(j) ==
  /\ Exists(jobs[j]) /\ jobs[j].del /\ pods[j] = "none"
  /\ jobs' = [jobs EXCEPT ![j].st = "gone"]
  /\ UNCHANGED <<ma, pvc, pods, caches, queue, pushed>>

ReapPod(j) ==
  /\ pods[j] # "none" /\ ~Live(jobs[j])
  /\ pods' = [pods EXCEPT ![j] = "none"]
  /\ UNCHANGED <<ma, pvc, jobs, caches, queue, pushed>>

CollectPvc ==
  /\ pvc.st = "bound" /\ pvc.uid # 0 /\ ~Existing(pvc.uid)
  /\ pvc' = [pvc EXCEPT !.st = "terminating"]
  /\ UNCHANGED <<ma, jobs, pods, caches, queue, pushed>>

ReleasePvc ==
  /\ pvc.st = "terminating" /\ \A j \in JobId : pods[j] # "running"
  /\ pvc' = NoWorkspace
  /\ UNCHANGED <<ma, jobs, pods, caches, queue, pushed>>

Informers == SyncArtifact \/ SyncJobs \/ SyncPods \/ SyncPvc

User == UserCreate \/ UserEdit \/ UserDelete

Workload(j) == JobStarts(j) \/ PodStarts(j) \/ PodPushes(j) \/ PodSucceeds(j)
               \/ PodFails(j) \/ JobFinishes(j)

Collector(j) == CollectJob(j) \/ ReapJob(j) \/ ReapPod(j)

Storage == CollectPvc \/ ReleasePvc

ClusterStep ==
  \/ Resync
  \/ User
  \/ \E j \in JobId : Workload(j) \/ Collector(j)
  \/ Storage
=============================================================================
