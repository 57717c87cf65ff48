------------------------ MODULE ModelArtifact_proofs ------------------------
(***************************************************************************)
(* Theorems about the ModelArtifact controller for every number of         *)
(* artifacts, edits, Jobs, failures and restarts.                          *)
(***************************************************************************)
EXTENDS ModelArtifact, TLAPS

JobStates == {"absent", "new", "active", "succeeded", "failed", "gone"}

(***************************************************************************)
(* The values the operators of the model return.                           *)
(***************************************************************************)
\* The initial and the empty values have their types.
LEMMA EmptyTypes ==
  /\ NoStatus \in Status /\ NoArtifact \in Artifact /\ NoWorkspace \in Workspace
  /\ NoJob \in Job /\ NoObs \in Observations /\ "none" \in PodStates
<1>1. NoRev \in Rev
  BY DEF NoRev, Rev
<1>2. NoCondition \in Condition
  BY DEF NoCondition, Condition, ReadyValues, Reasons
<1>3. NoStatus \in Status
  BY <1>1, <1>2 DEF NoStatus, Status, Phases
<1>4. NoArtifact \in Artifact
  BY <1>3 DEF NoArtifact, Artifact
<1>5. NoWorkspace \in Workspace /\ NoJob \in Job /\ "none" \in PodStates
  BY DEF NoWorkspace, Workspace, NoJob, Job, PodStates
<1>6. NoObs \in Observations
  BY <1>1 DEF NoObs, Observation, Observations, Phases, ReadyValues, Reasons
<1> QED BY <1>3, <1>4, <1>5, <1>6

\* What ObserveJobStatus (status.go:47-109) derives is an ObservationResult.
LEMMA ObserveType ==
  ASSUME NEW job \in JobStatus, NEW terms \in Seq(Termination),
         NEW phase \in Phases, NEW digest \in Rev
  PROVE  ObserveJobStatus(job, terms, phase, digest) \in Observations
<1>1. ExtractTerminationMessage(terms) \in Rev
  <2>1. NoRev \in Rev
    BY DEF NoRev, Rev
  <2>2. CASE LatestTerminations(terms) = {}
    BY <2>1, <2>2 DEF ExtractTerminationMessage
  <2>3. CASE LatestTerminations(terms) # {}
    <3> DEFINE i == CHOOSE k \in LatestTerminations(terms) : TRUE
    <3>1. i \in DOMAIN terms
      BY <2>3 DEF LatestTerminations
    <3>2. terms[i] \in Termination
      BY <3>1
    <3>3. terms[i].msg \in Rev
      BY <3>2 DEF Termination
    <3>4. TrimSpace(terms[i].msg) \in Rev
      BY <2>1, <3>3 DEF TrimSpace
    <3> QED BY <2>3, <3>4 DEF ExtractTerminationMessage
  <2> QED BY <2>2, <2>3
<1>2. ObserveNoJob(phase, digest) \in Observations
  BY DEF ObserveNoJob, Observation, Observations, Phases, Terminal, ReadyValues,
         Reasons, NoRev, Rev
<1>3. \A d \in Rev : Observation("Succeeded", "True", "Succeeded", d) \in Observations
  BY DEF Observation, Observations, Phases, ReadyValues, Reasons
<1>4. /\ Observation("Failed", "False", "JobFailed", NoRev) \in Observations
      /\ Observation("Running", "Unknown", "JobRunning", NoRev) \in Observations
      /\ Observation("Pending", "Unknown", "JobPending", NoRev) \in Observations
  BY DEF Observation, Observations, Phases, ReadyValues, Reasons, NoRev, Rev
<1> QED BY <1>1, <1>2, <1>3, <1>4 DEF ObserveJobStatus

\* A merge patch between statuses yields a status, whatever it is applied to.
LEMMA MergeType ==
  ASSUME NEW base \in Status, NEW new \in Status, NEW current \in Status
  PROVE  Merge(base, new, current) \in Status
BY DEF Merge, Status

\* Changing the state of one Job leaves every Job a Job.
LEMMA JobUpdateType ==
  ASSUME NEW f \in [JobId -> Job], NEW j \in JobId, NEW s \in JobStates
  PROVE  [f EXCEPT ![j].st = s] \in [JobId -> Job]
<1>1. [f[j] EXCEPT !.st = s] \in Job
  BY DEF Job, JobStates
<1> QED BY <1>1

\* So does marking one for deletion.
LEMMA JobMarkType ==
  ASSUME NEW f \in [JobId -> Job], NEW j \in JobId
  PROVE  [f EXCEPT ![j].del = TRUE] \in [JobId -> Job]
<1>1. [f[j] EXCEPT !.del = TRUE] \in Job
  BY DEF Job
<1> QED BY <1>1

\* The status updateStatus writes (modelartifact_controller.go:206-231).
LEMMA NewStatusType ==
  ASSUME TypeOK, NEW o \in Observations, NEW j \in JobId \cup {0}
  PROVE  NewStatus(o, j) \in Status
<1>1. snap \in Artifact
  BY DEF TypeOK
<1>2. snap.st \in Status /\ snap.gen \in Nat /\ OCIReference(snap) \in Rev
  BY <1>1 DEF Artifact, OCIReference, Rev
<1>3. j \in Nat
  BY BoundsAssumption DEF JobId
<1>4. [status |-> o.ready, reason |-> o.reason, gen |-> snap.gen] \in Condition
  BY <1>2 DEF Observations, Condition
<1> QED BY <1>2, <1>3, <1>4 DEF NewStatus, Status, Observations

\* The status setReadyConditionFalse writes (modelartifact_controller.go:159-167).
LEMMA NotReadyType ==
  ASSUME NEW a \in Artifact
  PROVE  NotReady(a) \in Status
<1>1. [status |-> "False", reason |-> "ReconcileError", gen |-> a.gen] \in Condition
  BY DEF Artifact, Condition, ReadyValues, Reasons
<1> QED BY <1>1 DEF NotReady, Artifact, Status

\* A status patch leaves the artifact an artifact and touches its status only.
LEMMA PatchType ==
  ASSUME TypeOK, NEW new \in Status, PatchArtifact(new)
  PROVE  /\ ma' \in Artifact
         /\ ma'.uid = ma.uid /\ ma'.gen = ma.gen
         /\ ma'.st = Merge(snap.st, new, ma.st)
<1>1. snap.st \in Status /\ ma.st \in Status /\ ma \in Artifact
  BY DEF TypeOK, ClusterTypeOK, Artifact
<1>2. Merge(snap.st, new, ma.st) \in Status
  BY <1>1, MergeType
<1> QED BY <1>1, <1>2 DEF PatchArtifact, Artifact

\* What updateStatus observes of a listed Job, or of none.
LEMMA ObservationOfType ==
  ASSUME TypeOK, NEW j \in JobId \cup {0}
  PROVE  ObservationOf(j) \in Observations
<1>1. /\ cJobs \in [JobId -> Job] /\ cPods \in [JobId -> PodStates]
      /\ snap.st.phase \in Phases /\ snap.st.digest \in Rev
  BY DEF TypeOK, ClusterTypeOK, Artifact, Status
<1>2. TerminationsOf(j) \in Seq(Termination)
  <2>1. CASE j \in JobId /\ cPods[j] = "succeeded"
    <3>1. cJobs[j] \in Job
      BY <1>1, <2>1
    <3>2. [msg |-> [uid |-> cJobs[j].uid, gen |-> cJobs[j].gen], at |-> 1] \in Termination
      BY <3>1 DEF Job, Termination, Rev
    <3> QED BY <2>1, <3>2 DEF TerminationsOf
  <2>2. CASE ~(j \in JobId /\ cPods[j] = "succeeded")
    BY <2>2 DEF TerminationsOf
  <2> QED BY <2>1, <2>2
<1>3. (IF j = 0 THEN NoJobStatus ELSE JobStatusOf(cJobs[j])) \in JobStatus
  BY DEF NoJobStatus, JobStatusOf, JobStatus
<1> QED BY <1>1, <1>2, <1>3, ObserveType DEF ObservationOf

(***************************************************************************)
(* Type correctness                                                        *)
(***************************************************************************)
\* The cluster's own steps keep the types of the API objects and caches.
LEMMA ClusterTypeStep ==
  ASSUME ClusterTypeOK, ClusterStep \/ Informers \/ (\E j \in JobId : TTLExpires(j))
  PROVE  ClusterTypeOK'
<1> USE DEF ClusterTypeOK, api, caches
<1>1. NoStatus \in Status /\ NoWorkspace \in Workspace
  BY EmptyTypes
<1>2. CASE Informers
  BY <1>2 DEF Informers, SyncArtifact, SyncJobs, SyncPods, SyncPvc, GenerationChanged
<1>3. CASE Resync
  BY <1>3 DEF Resync
<1>4. CASE User
  <2>1. ma.uid \in Nat /\ ma.gen \in Nat /\ ma.st \in Status
    BY DEF Artifact
  <2>2. CASE UserCreate
    <3>1. ma' \in Artifact
      BY <1>1, <2>1, <2>2 DEF UserCreate, Artifact
    <3> QED BY <2>2, <3>1 DEF UserCreate
  <2>3. CASE UserEdit
    <3>1. ma' = [uid |-> ma.uid, gen |-> ma.gen + 1, st |-> ma.st]
      BY <2>3 DEF UserEdit, Artifact
    <3>2. ma' \in Artifact
      BY <2>1, <3>1 DEF Artifact
    <3> QED BY <2>3, <3>2 DEF UserEdit
  <2>4. CASE UserDelete
    <3>1. ma' = [uid |-> ma.uid, gen |-> 0, st |-> NoStatus]
      BY <2>4 DEF UserDelete, Artifact
    <3>2. ma' \in Artifact
      BY <1>1, <2>1, <3>1 DEF Artifact
    <3> QED BY <2>4, <3>2 DEF UserDelete
  <2> QED BY <1>4, <2>2, <2>3, <2>4 DEF User
<1>5. ASSUME NEW j \in JobId, Workload(j)
      PROVE  ClusterTypeOK'
  <2>1. CASE JobStarts(j)
    <3>1. jobs' \in [JobId -> Job]
      BY <2>1, JobUpdateType DEF JobStarts, JobStates
    <3>2. pods' \in [JobId -> PodStates]
      BY <2>1 DEF JobStarts, PodStates
    <3> QED BY <2>1, <3>1, <3>2 DEF JobStarts
  <2>2. CASE PodStarts(j)
    BY <2>2 DEF PodStarts, PodStates
  <2>3. CASE PodPushes(j)
    <3>1. RevOf(jobs[j]) \in Rev
      BY DEF RevOf, Job, Rev
    <3> QED BY <2>3, <3>1 DEF PodPushes
  <2>4. CASE PodSucceeds(j) \/ PodFails(j)
    BY <2>4 DEF PodSucceeds, PodFails, PodStates
  <2>5. CASE JobFinishes(j)
    <3>1. jobs' \in [JobId -> Job]
      BY <2>5, JobUpdateType DEF JobFinishes, JobStates
    <3> QED BY <2>5, <3>1 DEF JobFinishes
  <2> QED BY <1>5, <2>1, <2>2, <2>3, <2>4, <2>5 DEF Workload
<1>6. ASSUME NEW j \in JobId, Collector(j)
      PROVE  ClusterTypeOK'
  <2>1. CASE CollectJob(j)
    <3>1. jobs' \in [JobId -> Job]
      BY <2>1, JobUpdateType DEF CollectJob, JobStates
    <3> QED BY <2>1, <3>1 DEF CollectJob
  <2>2. CASE ReapJob(j)
    <3>1. jobs' \in [JobId -> Job]
      BY <2>2, JobUpdateType DEF ReapJob, JobStates
    <3> QED BY <2>2, <3>1 DEF ReapJob
  <2>3. CASE ReapPod(j)
    BY <2>3 DEF ReapPod, PodStates
  <2> QED BY <1>6, <2>1, <2>2, <2>3 DEF Collector
<1>7. CASE Storage
  <2>1. pvc' \in Workspace
    BY <1>1, <1>7 DEF Storage, CollectPvc, ReleasePvc, Workspace
  <2> QED BY <1>7, <2>1 DEF Storage, CollectPvc, ReleasePvc
<1>8. ASSUME NEW j \in JobId, TTLExpires(j)
      PROVE  ClusterTypeOK'
  <2>1. jobs' \in [JobId -> Job]
    BY <1>8, JobMarkType DEF TTLExpires
  <2> QED BY <1>8, <2>1 DEF TTLExpires
<1> QED BY <1>2, <1>3, <1>4, <1>5, <1>6, <1>7, <1>8 DEF ClusterStep

\* A run of Reconcile that ends leaves its local state empty.
LEMMA ReturnType ==
  ASSUME TypeOK, NEW again \in BOOLEAN, Return(again)
  PROVE  /\ pc' \in Steps /\ queue' \in BOOLEAN /\ snap' \in Artifact
         /\ todo' \subseteq JobId /\ found' \in JobId \cup {0}
         /\ obs' \in Observations
<1> QED BY EmptyTypes DEF Return, TypeOK, ClusterTypeOK, Steps

\* Deleting the workspace leaves a workspace.
LEMMA DeletePVCType ==
  ASSUME TypeOK, NEW r \in Answers, DeletePVC(r)
  PROVE  pvc' \in Workspace
<1>1. pvc \in Workspace
  BY DEF TypeOK, ClusterTypeOK
<1>2. [pvc EXCEPT !.st = "terminating"] \in Workspace
  BY <1>1 DEF Workspace
<1> QED BY <1>1, <1>2 DEF DeletePVC

\* Failures stay within their bound.
LEMMA AnswerType ==
  ASSUME TypeOK, NEW r \in Answers, Answer(r)
  PROVE  errs' \in 0 .. MaxErrors
BY FailureAssumption DEF TypeOK, Answer

\* Every step of Reconcile keeps the types.
LEMMA ReconcileTypeStep ==
  ASSUME TypeOK, Reconcile
  PROVE  TypeOK'
<1> USE DEF TypeOK, ClusterTypeOK, api, caches, local, clusterVars
<1>1. CASE FetchArtifact
  BY <1>1 DEF FetchArtifact, Steps
<1>2. CASE ListStaleJobs
  BY <1>2 DEF ListStaleJobs, OwnedJobs, Steps
<1>3. ASSUME NEW j \in JobId, NEW r \in Answers, DeleteStaleJob(j, r)
      PROVE  TypeOK'
  <2>1. errs' \in 0 .. MaxErrors
    BY <1>3, AnswerType DEF DeleteStaleJob
  <2>2. jobs' \in [JobId -> Job]
    BY <1>3, JobUpdateType DEF DeleteStaleJob, JobStates
  <2>3. pc' \in Steps /\ todo' \subseteq JobId
    BY <1>3 DEF DeleteStaleJob, Steps
  <2> QED BY <1>3, <2>1, <2>2, <2>3 DEF DeleteStaleJob
<1>4. ASSUME NEW j \in JobId, NEW r \in Answers, CreateJob(j, r)
      PROVE  TypeOK'
  <2>1. errs' \in 0 .. MaxErrors
    BY <1>4, AnswerType DEF CreateJob
  <2>2. BuildJob(snap) \in Job
    BY DEF BuildJob, Job, Artifact
  <2>3. jobs' \in [JobId -> Job] /\ pc' \in Steps
    BY <1>4, <2>2 DEF CreateJob, Steps
  <2> QED BY <1>4, <2>1, <2>3 DEF CreateJob
<1>5. ASSUME NEW r \in Answers, DeleteStaleWorkspace(r)
      PROVE  TypeOK'
  <2>1. errs' \in 0 .. MaxErrors /\ pvc' \in Workspace
    BY <1>5, AnswerType, DeletePVCType DEF DeleteStaleWorkspace
  <2> QED BY <1>5, <2>1 DEF DeleteStaleWorkspace, Steps
<1>6. ASSUME NEW r \in Answers, EnsurePVC(r)
      PROVE  TypeOK'
  <2>1. errs' \in 0 .. MaxErrors
    BY <1>6, AnswerType DEF EnsurePVC
  <2>2. BuildPVC(snap) \in Workspace
    BY DEF BuildPVC, Workspace, Artifact
  <2>3. pvc' \in Workspace /\ pc' \in Steps
    BY <1>6, <2>2 DEF EnsurePVC, Steps
  <2> QED BY <1>6, <2>1, <2>3 DEF EnsurePVC
<1>7. ASSUME NEW r \in Answers, ReconcileFailed(r)
      PROVE  TypeOK'
  <2>1. errs' \in 0 .. MaxErrors
    BY <1>7, AnswerType DEF ReconcileFailed
  <2>2. NotReady(snap) \in Status
    BY NotReadyType
  <2>3. ma' \in Artifact
    BY <1>7, <2>2, PatchType DEF ReconcileFailed
  <2>4. Return(TRUE)
    BY <1>7 DEF ReconcileFailed
  <2> QED BY <1>7, <2>1, <2>3, <2>4, ReturnType DEF ReconcileFailed
<1>8. ASSUME NEW r \in Answers, PatchStatus(r)
      PROVE  TypeOK'
  <2>1. errs' \in 0 .. MaxErrors
    BY <1>8, AnswerType DEF PatchStatus
  <2>2. NewStatus(obs, found) \in Status
    BY NewStatusType
  <2>3. ma' \in Artifact
    BY <1>8, <2>2, PatchType DEF PatchStatus
  <2>4. CASE r = "ok"
    BY <1>8, <2>1, <2>3, <2>4 DEF PatchStatus, Steps
  <2>5. CASE r # "ok"
    <3>1. Return(TRUE)
      BY <1>8, <2>5 DEF PatchStatus
    <3> QED BY <1>8, <2>1, <2>3, <3>1, ReturnType DEF PatchStatus
  <2> QED BY <2>4, <2>5
<1>9. ASSUME NEW r \in Answers, ReleaseWorkspace(r)
      PROVE  TypeOK'
  <2>1. errs' \in 0 .. MaxErrors
    BY <1>9, AnswerType DEF ReleaseWorkspace
  <2>2. pvc' \in Workspace
    BY <1>9, DeletePVCType DEF ReleaseWorkspace
  <2>3. PollsForDigest(obs) \in BOOLEAN /\ Return(PollsForDigest(obs))
    BY <1>9 DEF ReleaseWorkspace, PollsForDigest
  <2> HIDE DEF TypeOK
  <2>4. /\ pc' \in Steps /\ queue' \in BOOLEAN /\ snap' \in Artifact
        /\ todo' \subseteq JobId /\ found' \in JobId \cup {0}
        /\ obs' \in Observations
    BY <2>3, ReturnType
  <2> USE DEF TypeOK
  <2> QED BY <1>9, <2>1, <2>2, <2>4 DEF ReleaseWorkspace
<1>10. CASE FindJob
  BY <1>10 DEF FindJob, Steps
<1>11. ASSUME NEW j \in JobId \cup {0}, ObserveStatus(j)
       PROVE  TypeOK'
  <2>1. obs' \in Observations
    BY <1>11, ObservationOfType DEF ObserveStatus
  <2>2. found' \in JobId \cup {0} /\ pc' \in Steps
    BY <1>11 DEF ObserveStatus, Steps
  <2> QED BY <1>11, <2>1, <2>2 DEF ObserveStatus
<1>12. CASE PatchStatusNotFound
  <2>1. Return(TRUE)
    BY <1>12 DEF PatchStatusNotFound
  <2> QED BY <1>12, <2>1, ReturnType DEF PatchStatusNotFound
<1> QED BY <1>1, <1>2, <1>3, <1>4, <1>5, <1>6, <1>7, <1>8, <1>9, <1>10, <1>11,
           <1>12 DEF Reconcile

\* Every variable always holds a value the program can hold.
THEOREM TypeCorrect == Spec => []TypeOK
<1>1. Init => TypeOK
  <2> SUFFICES ASSUME Init
               PROVE  TypeOK
    OBVIOUS
  <2>1. /\ ma \in Artifact /\ cMa \in Artifact
        /\ pvc \in Workspace /\ cPvc \in Workspace
        /\ queue \in BOOLEAN /\ pushed \subseteq Rev
    BY EmptyTypes DEF Init, ClusterInit
  <2>2. jobs \in [JobId -> Job] /\ cJobs \in [JobId -> Job]
    BY EmptyTypes DEF Init, ClusterInit
  <2>3. pods \in [JobId -> PodStates] /\ cPods \in [JobId -> PodStates]
    BY EmptyTypes DEF Init, ClusterInit
  <2>4. /\ pc \in Steps /\ snap \in Artifact /\ todo \subseteq JobId
        /\ found \in JobId \cup {0} /\ obs \in Observations
        /\ errs \in 0 .. MaxErrors /\ crashes \in 0 .. MaxCrashes
    BY EmptyTypes, FailureAssumption DEF Init, Steps
  <2> QED BY <2>1, <2>2, <2>3, <2>4 DEF TypeOK, ClusterTypeOK
<1>2. TypeOK /\ [Next]_vars => TypeOK'
  <2> SUFFICES ASSUME TypeOK, [Next]_vars
               PROVE  TypeOK'
    OBVIOUS
  <2>1. ASSUME ClusterTypeOK', UNCHANGED reconcilerVars
        PROVE  TypeOK'
    BY <2>1 DEF TypeOK, reconcilerVars, local
  <2>2. CASE Deliver
    BY <2>1, <2>2, ClusterTypeStep DEF Deliver, TypeOK
  <2>3. CASE Reconcile
    BY <2>3, ReconcileTypeStep
  <2>4. CASE Environment
    BY <2>1, <2>4, ClusterTypeStep DEF Environment, TypeOK
  <2>5. CASE JobExpires
    BY <2>1, <2>5, ClusterTypeStep DEF JobExpires, TypeOK
  <2>6. CASE Crash
    <3>1. NoArtifact \in Artifact /\ NoObs \in Observations
      BY EmptyTypes
    <3>2. crashes' \in 0 .. MaxCrashes
      BY <2>6, FailureAssumption DEF Crash, TypeOK
    <3> QED BY <2>6, <3>1, <3>2 DEF Crash, TypeOK, ClusterTypeOK, api, Steps
  <2>7. CASE UNCHANGED vars
    BY <2>7 DEF TypeOK, ClusterTypeOK, vars, clusterVars, api, caches,
                reconcilerVars, local
  <2> QED BY <2>2, <2>3, <2>4, <2>5, <2>6, <2>7 DEF Next
<1> QED BY <1>1, <1>2, PTL DEF Spec

(***************************************************************************)
(* At most one live Job.  The invariant alone is not inductive: between    *)
(* the List of FindOwnedJob and the Create nothing may have appeared that  *)
(* the List did not show.  Only the controller creates Jobs, and it has    *)
(* one worker per key, so what the List found stays true until the Create. *)
(***************************************************************************)
NoRival == \A j \in JobId : Live(jobs[j]) => jobs[j].uid # snap.uid

OneJobInv == AtMostOneLiveJob /\ (pc = "createJob" => NoRival)

\* Steps after which no Job is live that was not, and that do not come between
\* the List and the Create, keep the invariant.
LEMMA NoNewJob ==
  ASSUME OneJobInv,
         \A j \in JobId : Live(jobs'[j]) => Live(jobs[j]) /\ jobs'[j].uid = jobs[j].uid,
         pc' = "createJob" => pc = "createJob" /\ snap' = snap
  PROVE  OneJobInv'
BY DEF OneJobInv, AtMostOneLiveJob, NoRival

\* No step of the cluster brings a Job to life.
LEMMA ClusterBringsNoJob ==
  ASSUME ClusterTypeOK, ClusterStep \/ Informers \/ (\E j \in JobId : TTLExpires(j))
  PROVE  \A j \in JobId : Live(jobs'[j]) => Live(jobs[j]) /\ jobs'[j].uid = jobs[j].uid
<1> SUFFICES ASSUME NEW i \in JobId, Live(jobs'[i])
             PROVE  Live(jobs[i]) /\ jobs'[i].uid = jobs[i].uid
  OBVIOUS
<1> USE DEF ClusterTypeOK, Job, Live, Exists
<1>1. CASE jobs' = jobs
  BY <1>1
<1>2. ASSUME NEW j \in JobId, JobStarts(j) \/ JobFinishes(j)
      PROVE  Live(jobs[i]) /\ jobs'[i].uid = jobs[i].uid
  BY <1>2 DEF JobStarts, JobFinishes
<1>3. ASSUME NEW j \in JobId, CollectJob(j) \/ ReapJob(j) \/ TTLExpires(j)
      PROVE  Live(jobs[i]) /\ jobs'[i].uid = jobs[i].uid
  BY <1>3 DEF CollectJob, ReapJob, TTLExpires
<1>4. CASE Informers \/ Resync \/ User \/ Storage
  BY <1>1, <1>4 DEF Informers, SyncArtifact, SyncJobs, SyncPods, SyncPvc, Resync,
     User, UserCreate, UserEdit, UserDelete, Storage, CollectPvc, ReleasePvc, api
<1>5. ASSUME NEW j \in JobId,
             PodStarts(j) \/ PodPushes(j) \/ PodSucceeds(j) \/ PodFails(j) \/ ReapPod(j)
      PROVE  Live(jobs[i]) /\ jobs'[i].uid = jobs[i].uid
  BY <1>1, <1>5 DEF PodStarts, PodPushes, PodSucceeds, PodFails, ReapPod
<1> QED BY <1>2, <1>3, <1>4, <1>5 DEF ClusterStep, Workload, Collector

\* The List of FindOwnedJob shows every live Job of the artifact, if it is up to
\* date, and EnsureJob goes on to Create only when there is none.
LEMMA ListIsComplete ==
  ASSUME TypeOK, UpToDate, "jobs" \notin Lagging, OwnedJobs = {}
  PROVE  NoRival
<1>1. cJobs = jobs
  BY DEF UpToDate
<1> QED BY <1>1 DEF OwnedJobs, NoRival, IsOwnedBy

\* The Create makes one Job live, the only one of its artifact.
LEMMA CreateKeepsOne ==
  ASSUME TypeOK, OneJobInv, NEW j \in JobId, NEW r \in Answers, CreateJob(j, r)
  PROVE  OneJobInv'
<1>1. NoRival /\ pc' # "createJob"
  BY DEF OneJobInv, CreateJob
<1>2. CASE jobs' = jobs
  BY <1>1, <1>2 DEF OneJobInv, AtMostOneLiveJob, NoRival
<1>3. CASE jobs' = [jobs EXCEPT ![j] = BuildJob(snap)]
  <2>1. \A i \in JobId : i # j => jobs'[i] = jobs[i]
    BY <1>3 DEF TypeOK, ClusterTypeOK
  <2>2. jobs'[j].uid = snap.uid
    BY <1>3 DEF TypeOK, ClusterTypeOK, BuildJob
  <2>3. ASSUME NEW a \in JobId, NEW b \in JobId, Live(jobs'[a]), Live(jobs'[b]),
               jobs'[a].uid = jobs'[b].uid
        PROVE  a = b
    <3>1. CASE a # j /\ b # j
      BY <2>1, <2>3, <3>1 DEF OneJobInv, AtMostOneLiveJob
    <3>2. CASE a = j
      BY <1>1, <2>1, <2>2, <2>3, <3>2 DEF NoRival
    <3>3. CASE b = j
      BY <1>1, <2>1, <2>2, <2>3, <3>3 DEF NoRival
    <3> QED BY <3>1, <3>2, <3>3
  <2> QED BY <1>1, <2>3 DEF OneJobInv, AtMostOneLiveJob
<1> QED BY <1>2, <1>3 DEF CreateJob

\* Every step of Reconcile keeps the invariant.
LEMMA ReconcileKeepsOne ==
  ASSUME TypeOK, OneJobInv, UpToDate, "jobs" \notin Lagging, Reconcile
  PROVE  OneJobInv'
<1> USE DEF api, caches, local, clusterVars
<1>1. CASE FetchArtifact
  BY <1>1, NoNewJob DEF FetchArtifact
<1>2. CASE ListStaleJobs
  BY <1>2, NoNewJob DEF ListStaleJobs
<1>3. ASSUME NEW j \in JobId, NEW r \in Answers, DeleteStaleJob(j, r)
      PROVE  OneJobInv'
  <2>1. \A i \in JobId : Live(jobs'[i]) => Live(jobs[i]) /\ jobs'[i].uid = jobs[i].uid
    BY <1>3 DEF DeleteStaleJob, TypeOK, ClusterTypeOK, Job, Live, Exists
  <2>2. pc' # "createJob"
    BY <1>3 DEF DeleteStaleJob
  <2> QED BY <2>1, <2>2, NoNewJob
<1>4. ASSUME NEW j \in JobId, NEW r \in Answers, CreateJob(j, r)
      PROVE  OneJobInv'
  BY <1>4, CreateKeepsOne
<1>5. ASSUME NEW r \in Answers, DeleteStaleWorkspace(r) \/ EnsurePVC(r)
      PROVE  OneJobInv'
  BY <1>5, NoNewJob DEF DeleteStaleWorkspace, EnsurePVC
<1>6. ASSUME NEW r \in Answers, ReconcileFailed(r) \/ PatchStatus(r) \/ ReleaseWorkspace(r)
      PROVE  OneJobInv'
  BY <1>6, NoNewJob DEF ReconcileFailed, PatchStatus, ReleaseWorkspace, Return
<1>7. CASE FindJob
  <2>1. OwnedJobs = {} => NoRival
    BY ListIsComplete
  <2>2. jobs' = jobs /\ snap' = snap
    BY <1>7 DEF FindJob
  <2>3. AtMostOneLiveJob' /\ NoRival' = NoRival
    BY <2>2 DEF OneJobInv, AtMostOneLiveJob, NoRival
  <2> QED BY <1>7, <2>1, <2>3 DEF FindJob, OneJobInv
<1>8. ASSUME NEW j \in JobId \cup {0}, ObserveStatus(j)
      PROVE  OneJobInv'
  BY <1>8, NoNewJob DEF ObserveStatus
<1>9. CASE PatchStatusNotFound
  BY <1>9, NoNewJob DEF PatchStatusNotFound, Return
<1> QED BY <1>1, <1>2, <1>3, <1>4, <1>5, <1>6, <1>7, <1>8, <1>9 DEF Reconcile

\* Every step keeps it.
LEMMA OneJobStep ==
  ASSUME "jobs" \notin Lagging, TypeOK, OneJobInv, [Next]_vars
  PROVE  OneJobInv'
<1>1. CASE Deliver \/ Environment \/ JobExpires
  <2>1. ClusterStep \/ Informers \/ (\E j \in JobId : TTLExpires(j))
    BY <1>1 DEF Deliver, Environment, JobExpires
  <2>2. pc' = pc /\ snap' = snap
    BY <1>1 DEF Deliver, Environment, JobExpires, reconcilerVars, local
  <2> QED BY <2>1, <2>2, ClusterBringsNoJob, NoNewJob DEF TypeOK
<1>2. CASE UpToDate /\ Reconcile
  BY <1>2, ReconcileKeepsOne
<1>3. CASE Crash
  BY <1>3, NoNewJob DEF Crash, api
<1>4. CASE UNCHANGED vars
  BY <1>4, NoNewJob DEF vars, clusterVars, api, reconcilerVars, local
<1> QED BY <1>1, <1>2, <1>3, <1>4 DEF Next

\* EnsureJob never gives an artifact a second live Job, whatever fails, restarts
\* and is edited, if the List it decides on is up to date (reconcile.go:63-85).
THEOREM OneLiveJob ==
  ASSUME "jobs" \notin Lagging
  PROVE  Spec => []AtMostOneLiveJob
<1>1. Init => OneJobInv
  BY DEF Init, ClusterInit, OneJobInv, AtMostOneLiveJob, NoJob, Live, Exists
<1>2. TypeOK /\ OneJobInv /\ [Next]_vars => OneJobInv'
  BY OneJobStep
<1>3. OneJobInv => AtMostOneLiveJob
  BY DEF OneJobInv
<1> QED BY <1>1, <1>2, <1>3, TypeCorrect, PTL DEF Spec

(***************************************************************************)
(* observedGeneration never goes back.  A status is only ever patched with *)
(* the generation of the copy Reconcile holds; that copy is never newer    *)
(* than the cache, the cache never newer than the object, and the object's *)
(* observedGeneration never beyond the copy.  It needs that the object is  *)
(* not recreated: patches are applied by name, to whatever object has it.  *)
(***************************************************************************)
GenInv ==
  /\ ma.uid = 0 => ma.gen = 0 /\ cMa.gen = 0 /\ pc = "idle"
  /\ ma.gen # 0 =>
       /\ ma.st.obs =< cMa.gen /\ cMa.gen =< ma.gen
       /\ pc # "idle" => ma.st.obs =< snap.gen /\ snap.gen =< cMa.gen

Forward == ma'.gen # 0 /\ ma'.uid = ma.uid => ma'.st.obs >= ma.st.obs

\* Steps that leave the artifact, its cache and Reconcile's copy alone.
LEMMA GenUntouched ==
  ASSUME TypeOK, GenInv, ma' = ma, cMa' = cMa, snap' = snap, pc # "idle" \/ pc' = "idle"
  PROVE  GenInv' /\ Forward
<1>1. ma.st.obs \in Nat
  BY DEF TypeOK, ClusterTypeOK, Artifact, Status
<1> QED BY <1>1 DEF GenInv, Forward

\* The end of a run of Reconcile.
LEMMA GenReturn ==
  ASSUME TypeOK, GenInv, ma' = ma, cMa' = cMa, pc' = "idle"
  PROVE  GenInv' /\ Forward
<1>1. ma.st.obs \in Nat
  BY DEF TypeOK, ClusterTypeOK, Artifact, Status
<1> QED BY <1>1 DEF GenInv, Forward

\* Patching a status that has the copy's generation.
LEMMA GenPatch ==
  ASSUME TypeOK, GenInv, pc # "idle", ma.gen # 0, cMa' = cMa,
         snap' = snap \/ pc' = "idle",
         NEW new \in Status, new.obs = snap.gen, PatchArtifact(new)
  PROVE  GenInv' /\ Forward
<1>1. ma'.uid = ma.uid /\ ma'.gen = ma.gen /\ ma'.st = Merge(snap.st, new, ma.st)
  BY PatchType
<1>2. ma'.st.obs = ma.st.obs \/ ma'.st.obs = snap.gen
  BY <1>1 DEF Merge
<1>3. /\ ma.st.obs \in Nat /\ ma.gen \in Nat /\ cMa.gen \in Nat /\ snap.gen \in Nat
  BY DEF TypeOK, ClusterTypeOK, Artifact, Status
<1>4. ma.st.obs =< snap.gen /\ snap.gen =< cMa.gen /\ cMa.gen =< ma.gen /\ ma.uid # 0
  BY DEF GenInv
<1>5. ma'.st.obs >= ma.st.obs /\ ma'.st.obs =< snap.gen /\ ma'.st.obs \in Nat
  BY <1>2, <1>3, <1>4
<1>6. ma'.st.obs =< cMa.gen
  BY <1>3, <1>4, <1>5
<1>7. CASE pc' = "idle"
  BY <1>1, <1>4, <1>5, <1>6, <1>7 DEF GenInv, Forward
<1>8. CASE snap' = snap
  BY <1>1, <1>4, <1>5, <1>6, <1>8 DEF GenInv, Forward
<1> QED BY <1>7, <1>8

\* The cluster's steps, while the object is created at most once.
LEMMA GenCluster ==
  ASSUME TypeOK, GenInv, MaxUid =< 1, UNCHANGED reconcilerVars,
         ClusterStep \/ Informers \/ (\E j \in JobId : TTLExpires(j))
  PROVE  GenInv' /\ Forward
<1> USE DEF api, caches
<1>1. pc' = pc /\ snap' = snap
  BY DEF reconcilerVars, local
<1>2. /\ ma.st.obs \in Nat /\ ma.uid \in Nat /\ ma.gen \in Nat /\ cMa.gen \in Nat
      /\ snap.gen \in Nat
  BY DEF TypeOK, ClusterTypeOK, Artifact, Status
<1>3. ASSUME ma' = ma, cMa' = cMa
      PROVE  GenInv' /\ Forward
  BY <1>1, <1>2, <1>3 DEF GenInv, Forward
<1>4. CASE SyncArtifact
  BY <1>1, <1>2, <1>4 DEF SyncArtifact, GenInv, Forward
<1>5. CASE UserCreate
  <2>1. ma.uid < MaxUid /\ cMa' = cMa
    BY <1>5 DEF UserCreate
  <2>2. ma.uid = 0
    BY <1>2, <2>1, BoundsAssumption
  <2>3. ma' = [uid |-> 1, gen |-> 1, st |-> NoStatus]
    BY <1>5, <2>2 DEF UserCreate
  <2>4. ma'.uid = 1 /\ ma'.gen = 1 /\ ma'.st.obs = 0
    BY <2>3 DEF NoStatus
  <2>5. cMa.gen = 0 /\ pc = "idle"
    BY <2>2 DEF GenInv
  <2> QED BY <1>1, <2>1, <2>2, <2>4, <2>5 DEF GenInv, Forward
<1>6. CASE UserEdit
  <2>1. /\ ma'.uid = ma.uid /\ ma'.gen = ma.gen + 1 /\ ma'.st = ma.st
        /\ ma.gen # 0 /\ cMa' = cMa
    BY <1>6 DEF UserEdit, TypeOK, ClusterTypeOK, Artifact
  <2> QED BY <1>1, <1>2, <2>1 DEF GenInv, Forward
<1>7. CASE UserDelete
  <2>1. ma'.uid = ma.uid /\ ma'.gen = 0 /\ ma.gen # 0
    BY <1>7 DEF UserDelete, TypeOK, ClusterTypeOK, Artifact
  <2> QED BY <2>1 DEF GenInv, Forward
<1>8. CASE SyncJobs \/ SyncPods \/ SyncPvc \/ Resync \/ Storage
  BY <1>3, <1>8 DEF SyncJobs, SyncPods, SyncPvc, Resync, Storage, CollectPvc, ReleasePvc
<1>9. ASSUME NEW j \in JobId, Workload(j) \/ Collector(j) \/ TTLExpires(j)
      PROVE  GenInv' /\ Forward
  BY <1>3, <1>9 DEF Workload, JobStarts, PodStarts, PodPushes, PodSucceeds,
     PodFails, JobFinishes, Collector, CollectJob, ReapJob, ReapPod, TTLExpires
<1> QED BY <1>4, <1>5, <1>6, <1>7, <1>8, <1>9 DEF ClusterStep, Informers, User

\* Every step of Reconcile, on copies of any age.
LEMMA GenReconcile ==
  ASSUME TypeOK, GenInv, Reconcile
  PROVE  GenInv' /\ Forward
<1> USE DEF api, caches, local, clusterVars
<1>1. CASE FetchArtifact
  <2>1. ma.st.obs \in Nat /\ cMa.gen \in Nat /\ ma' = ma /\ cMa' = cMa
    BY <1>1 DEF FetchArtifact, TypeOK, ClusterTypeOK, Artifact, Status
  <2>2. CASE cMa.gen = 0
    BY <1>1, <2>1, <2>2 DEF FetchArtifact, GenInv, Forward
  <2>3. CASE cMa.gen # 0
    <3>1. snap' = cMa
      BY <1>1, <2>3 DEF FetchArtifact
    <3>2. ma.uid # 0
      BY <2>3 DEF GenInv
    <3> QED BY <2>1, <3>1, <3>2 DEF GenInv, Forward
  <2> QED BY <2>2, <2>3
<1>2. CASE ListStaleJobs
  BY <1>2, GenUntouched DEF ListStaleJobs
<1>3. ASSUME NEW j \in JobId, NEW r \in Answers, DeleteStaleJob(j, r) \/ CreateJob(j, r)
      PROVE  GenInv' /\ Forward
  BY <1>3, GenUntouched DEF DeleteStaleJob, CreateJob
<1>4. ASSUME NEW r \in Answers, DeleteStaleWorkspace(r) \/ EnsurePVC(r)
      PROVE  GenInv' /\ Forward
  BY <1>4, GenUntouched DEF DeleteStaleWorkspace, EnsurePVC
<1>5. ASSUME NEW r \in Answers, ReconcileFailed(r)
      PROVE  GenInv' /\ Forward
  <2>1. pc # "idle" /\ pc' = "idle" /\ cMa' = cMa
    BY <1>5 DEF ReconcileFailed, Return
  <2>2. CASE ma' = ma
    BY <2>1, <2>2, GenReturn
  <2>3. CASE ma.gen # 0 /\ PatchArtifact(NotReady(snap))
    <3>1. NotReady(snap) \in Status
      BY NotReadyType DEF TypeOK
    <3>2. NotReady(snap).obs = snap.gen
      BY DEF NotReady, TypeOK, Artifact, Status
    <3> QED BY <2>1, <2>3, <3>1, <3>2, GenPatch
  <2> QED BY <1>5, <2>2, <2>3 DEF ReconcileFailed
<1>6. ASSUME NEW r \in Answers, PatchStatus(r)
      PROVE  GenInv' /\ Forward
  <2>1. pc # "idle" /\ cMa' = cMa /\ ma.gen # 0 /\ (snap' = snap \/ pc' = "idle")
    BY <1>6 DEF PatchStatus, Return
  <2>2. CASE ma' = ma
    BY <2>1, <2>2, GenUntouched, GenReturn
  <2>3. CASE PatchArtifact(NewStatus(obs, found))
    <3>1. NewStatus(obs, found) \in Status
      BY NewStatusType DEF TypeOK
    <3>2. NewStatus(obs, found).obs = snap.gen
      BY DEF NewStatus
    <3> QED BY <2>1, <2>3, <3>1, <3>2, GenPatch
  <2> QED BY <1>6, <2>2, <2>3 DEF PatchStatus
<1>7. ASSUME NEW r \in Answers, ReleaseWorkspace(r)
      PROVE  GenInv' /\ Forward
  BY <1>7, GenReturn DEF ReleaseWorkspace, Return
<1>8. CASE FindJob
  BY <1>8, GenUntouched DEF FindJob
<1>9. ASSUME NEW j \in JobId \cup {0}, ObserveStatus(j)
      PROVE  GenInv' /\ Forward
  BY <1>9, GenUntouched DEF ObserveStatus
<1>10. CASE PatchStatusNotFound
  BY <1>10, GenReturn DEF PatchStatusNotFound, Return
<1> QED BY <1>1, <1>2, <1>3, <1>4, <1>5, <1>6, <1>7, <1>8, <1>9, <1>10 DEF Reconcile

\* Every step keeps it and goes forward.
LEMMA GenStep ==
  ASSUME MaxUid =< 1, TypeOK, GenInv, [Next]_vars
  PROVE  GenInv' /\ (Forward \/ UNCHANGED vars)
<1>1. CASE Deliver \/ Environment \/ JobExpires
  <2>1. UNCHANGED reconcilerVars
    BY <1>1 DEF Deliver, Environment, JobExpires
  <2>2. ClusterStep \/ Informers \/ (\E j \in JobId : TTLExpires(j))
    BY <1>1 DEF Deliver, Environment, JobExpires
  <2> QED BY <2>1, <2>2, GenCluster
<1>2. CASE Reconcile
  BY <1>2, GenReconcile
<1>3. CASE Crash
  <2>1. ma' = ma /\ cMa' = ma /\ pc' = "idle"
    BY <1>3 DEF Crash, api
  <2>2. ma.st.obs \in Nat /\ ma.gen \in Nat /\ cMa.gen \in Nat
    BY DEF TypeOK, ClusterTypeOK, Artifact, Status
  <2> QED BY <2>1, <2>2 DEF GenInv, Forward
<1>4. CASE UNCHANGED vars
  BY <1>4 DEF GenInv, vars, clusterVars, api, caches, reconcilerVars, local
<1> QED BY <1>1, <1>2, <1>3, <1>4 DEF Next

\* Patches computed from copies of any age, after any failures and restarts,
\* never take observedGeneration back (modelartifact_controller.go:167,207), as
\* long as an artifact of this name is created only once.
THEOREM GenerationsForward ==
  ASSUME MaxUid =< 1
  PROVE  Spec => ObservedGenerationMonotone
<1>1. Init => GenInv
  BY DEF Init, ClusterInit, GenInv, NoArtifact
<1>2. TypeOK /\ GenInv /\ [Next]_vars => GenInv' /\ (Forward \/ UNCHANGED vars)
  BY GenStep
<1> QED BY <1>1, <1>2, TypeCorrect, PTL DEF Spec, ObservedGenerationMonotone, Forward
=============================================================================
