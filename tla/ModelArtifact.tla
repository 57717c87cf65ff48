---------------------------- MODULE ModelArtifact ----------------------------
(***************************************************************************)
(* The ModelArtifact controller, composed with the cluster it runs in.     *)
(*                                                                         *)
(* One worker takes the artifact's key from the queue and runs Reconcile   *)
(* (internal/controller/modelartifact_controller.go).  Each call to the    *)
(* API server is a step of its own, so that users, Jobs, events and the    *)
(* garbage collector act between any two of them; a read of the caches is  *)
(* the step that decides what to do next.  A call may fail, with or        *)
(* without effect, and the operator may restart between any two steps.     *)
(***************************************************************************)
EXTENDS ArtifactCluster

CONSTANTS MaxErrors,   \* how many API calls may fail
          MaxCrashes   \* how often the operator may restart

ASSUME FailureAssumption == MaxErrors \in Nat /\ MaxCrashes \in Nat

VARIABLES
  pc,      \* the next call of Reconcile, "idle" between two runs
  snap,    \* ma: the artifact as Reconcile read it
  todo,    \* the listed Jobs CleanupStaleJobs has still to delete
  found,   \* the Job updateStatus observed, 0 for none
  obs,     \* the ObservationResult
  errs, crashes  \* failures so far

local == <<snap, todo, found, obs>>
reconcilerVars == <<pc, local, errs, crashes>>
vars == <<clusterVars, reconcilerVars>>

Steps == {"idle", "cleanup", "deleteJobs", "ensurePVC", "findJob",
          "createJob", "fail", "observe", "patch", "release"}

NoObs == Observation("", "", "", NoRev)
Observations == [phase : Phases, ready : ReadyValues, reason : Reasons,
                 digest : Rev]

\* Every variable holds a value the program can hold.
TypeOK ==
  /\ ClusterTypeOK
  /\ pc \in Steps
  /\ snap \in Artifact
  /\ todo \subseteq JobId
  /\ found \in JobId \cup {0}
  /\ obs \in Observations
  /\ errs \in 0 .. MaxErrors
  /\ crashes \in 0 .. MaxCrashes

Init ==
  /\ ClusterInit
  /\ pc = "idle" /\ snap = NoArtifact /\ todo = {}
  /\ found = 0 /\ obs = NoObs
  /\ errs = 0 /\ crashes = 0

(***************************************************************************)
(* Calls.  A write is answered "ok", "rejected" (an error, and nothing     *)
(* happened) or "lost" (an error, although the API server did it).         *)
(***************************************************************************)
Answers == {"ok", "rejected", "lost"}

Answer(r) == /\ r # "ok" => errs < MaxErrors
             /\ errs' = IF r = "ok" THEN errs ELSE errs + 1

Applied(r) == r # "rejected"

\* Mutant: an error is swallowed instead of returned.
ReturnWithoutRetry(again) ==
  /\ pc' = "idle"
  /\ UNCHANGED queue
  /\ snap' = NoArtifact /\ todo' = {} /\ found' = 0 /\ obs' = NoObs

\* Reconcile returns; with an error, or RequeueAfter, its key is queued again.
Return(again) ==
  /\ pc' = "idle"
  /\ queue' = (queue \/ again)
  /\ snap' = NoArtifact /\ todo' = {} /\ found' = 0 /\ obs' = NoObs

\* Status().Patch with MergeFrom(base): only the fields that differ are sent,
\* and they are applied to whatever object has the name now.
Merge(base, new, current) ==
  LET Field(f) == IF new[f] = base[f] THEN current[f] ELSE new[f]
  IN  [phase |-> Field("phase"), obs |-> Field("obs"),
       digest |-> Field("digest"), ref |-> Field("ref"),
       cond |-> Field("cond"), jobRef |-> Field("jobRef")]

PatchArtifact(new) ==
  ma' = [ma EXCEPT !.st = Merge(snap.st, new, ma.st)]

IsOwnedBy(job, owner) == job.uid = owner.uid

\* Mutant: only a Job that has a running Pod counts.
OwnedActiveJobs ==
  {j \in JobId : Live(cJobs[j]) /\ IsOwnedBy(cJobs[j], snap) /\ cJobs[j].st # "new"}

\* The Jobs a List over the selector labels finds that belong to the artifact
\* and are not marked for deletion.
OwnedJobs == {j \in JobId : Live(cJobs[j]) /\ IsOwnedBy(cJobs[j], snap)}

(***************************************************************************)
(* Reconcile and reconcileResources                                        *)
(***************************************************************************)
\* Mutant: success is not final.
FinishedIfFailed(a) == a.st.phase = "Failed" /\ a.st.obs = a.gen

Finished(a) == a.st.phase \in Terminal /\ a.st.obs = a.gen

\* Mutant: off by one.
SpecChangedTwice(a) == a.st.obs # 0 /\ a.st.obs + 1 < a.gen

SpecChanged(a) == a.st.obs # 0 /\ a.st.obs < a.gen

\* Take the key from the queue and fetch the artifact; the first decisions.
FetchArtifact ==
  /\ pc = "idle" /\ queue
  /\ queue' = FALSE
  /\ IF cMa.gen = 0
     THEN UNCHANGED <<pc, snap>>
     ELSE /\ snap' = cMa
          /\ pc' = IF Finished(cMa) THEN "observe"
                   ELSE IF SpecChanged(cMa) THEN "cleanup"
                   ELSE "ensurePVC"
  /\ UNCHANGED <<api, caches, pushed, todo, found, obs, errs, crashes>>

\* CleanupStaleJobs: the List.
ListStaleJobs ==
  /\ pc = "cleanup"
  /\ todo' = OwnedJobs
  /\ pc' = "deleteJobs"
  /\ UNCHANGED <<clusterVars, snap, found, obs, errs, crashes>>

\* CleanupStaleJobs: one Delete, in the background: the Job disappears at
\* once, its Pod when the collector gets to it.
DeleteStaleJob(j, r) ==
  /\ pc = "deleteJobs" /\ j \in todo
  /\ Answer(r)
  /\ jobs' = IF Applied(r) /\ Exists(jobs[j])
             THEN [jobs EXCEPT ![j].st = "gone"] ELSE jobs
  /\ IF r = "ok" THEN todo' = todo \ {j} /\ UNCHANGED pc
                 ELSE pc' = "fail" /\ UNCHANGED todo
  /\ UNCHANGED <<ma, pvc, pods, caches, queue, pushed, snap, found, obs, crashes>>

\* The PVC carries the pvc-protection finalizer, so Delete only marks it.
DeletePVC(r) ==
  pvc' = IF Applied(r) /\ pvc.st = "bound"
         THEN [pvc EXCEPT !.st = "terminating"] ELSE pvc

\* After the last stale Job: the workspace; then reconcileResources returns.
DeleteStaleWorkspace(r) ==
  /\ pc = "deleteJobs" /\ todo = {}
  /\ Answer(r)
  /\ DeletePVC(r)
  /\ pc' = IF r = "ok" THEN "observe" ELSE "fail"
  /\ UNCHANGED <<ma, jobs, pods, caches, queue, pushed, local, crashes>>

\* Mutant: no owner reference is set.
BuildPVCUnowned(a) == [st |-> "bound", uid |-> 0]

\* BuildPVC and SetControllerReference.
BuildPVC(a) == [st |-> "bound", uid |-> a.uid]

\* EnsurePVC: a PVC of that name, whatever its state and owner, is enough.
EnsurePVC(r) ==
  /\ pc = "ensurePVC"
  /\ IF cPvc.st # "absent"
     THEN r = "ok" /\ UNCHANGED pvc
     ELSE pvc' = IF Applied(r) /\ pvc.st = "absent"
                 THEN BuildPVC(snap) ELSE pvc
  /\ Answer(r)
  /\ pc' = IF r = "ok" THEN "findJob" ELSE "fail"
  /\ UNCHANGED <<ma, jobs, pods, caches, queue, pushed, local, crashes>>

\* EnsureJob: the List in FindOwnedJob.
FindJob ==
  /\ pc = "findJob"
  /\ pc' = IF OwnedJobs = {} THEN "createJob" ELSE "observe"
  /\ UNCHANGED <<clusterVars, local, errs, crashes>>

\* BuildJob and SetControllerReference: the Job carries the spec it was built from.
BuildJob(a) == [uid |-> a.uid, gen |-> a.gen, del |-> FALSE, st |-> "new"]

\* EnsureJob: the Create; GenerateName makes the name a fresh one.
CreateJob(j, r) ==
  /\ pc = "createJob" /\ jobs[j].st = "absent"
  /\ \A i \in JobId : i < j => jobs[i].st # "absent"
  /\ Answer(r)
  /\ jobs' = IF Applied(r)
             THEN [jobs EXCEPT ![j] = BuildJob(snap)] ELSE jobs
  /\ pc' = IF r = "ok" THEN "observe" ELSE "fail"
  /\ UNCHANGED <<ma, pvc, pods, caches, queue, pushed, local, crashes>>

\* Mutant: the observed generation is reset on an error.
NotReadyReset(a) ==
  [a.st EXCEPT !.obs = 0,
               !.cond = [status |-> "False", reason |-> "ReconcileError",
                         gen |-> a.gen]]

\* The status setReadyConditionFalse writes.
NotReady(a) ==
  [a.st EXCEPT !.obs = a.gen,
               !.cond = [status |-> "False", reason |-> "ReconcileError",
                         gen |-> a.gen]]

\* handleReconcileError: setReadyConditionFalse, whose own error is only
\* logged, and the error goes to the queue.
ReconcileFailed(r) ==
  /\ pc = "fail"
  /\ Answer(r)
  /\ IF ma.gen = 0 \/ ~Applied(r) THEN UNCHANGED ma
     ELSE PatchArtifact(NotReady(snap))
  /\ Return(TRUE)
  /\ UNCHANGED <<pvc, jobs, pods, caches, pushed, crashes>>

(***************************************************************************)
(* updateStatus                                                            *)
(***************************************************************************)
JobStatusOf(job) ==
  [exists |-> TRUE, failedCond |-> job.st = "failed",
   succeeded |-> IF job.st = "succeeded" THEN 1 ELSE 0,
   failed |-> IF job.st = "failed" THEN 1 ELSE 0,
   active |-> IF job.st = "active" THEN 1 ELSE 0]

\* listJobPods: the Pod's container has written the digest of its revision to
\* the termination log, and nothing if the pipeline failed.
TerminationsOf(j) ==
  IF j \in JobId /\ cPods[j] = "succeeded"
  THEN << [msg |-> [uid |-> cJobs[j].uid, gen |-> cJobs[j].gen], at |-> 1] >>
  ELSE << >>

ObservationOf(j) ==
  ObserveJobStatus(IF j = 0 THEN NoJobStatus ELSE JobStatusOf(cJobs[j]),
                   TerminationsOf(j), snap.st.phase, snap.st.digest)

OCIReference(a) == [uid |-> a.uid, gen |-> a.gen]

\* Mutants: the generation is not recorded, or recorded only while there is a Job; a
\* digest that cannot be read any more is taken back.
NewStatusUnobserved(o, j) ==
  [snap.st EXCEPT !.phase = o.phase]
NewStatusOfJob(o, j) ==
  [snap.st EXCEPT !.phase = o.phase, !.obs = IF j = 0 THEN 0 ELSE snap.gen]
NewStatusForgets(o, j) ==
  [snap.st EXCEPT !.phase = o.phase, !.obs = snap.gen, !.digest = o.digest]

NewStatus(o, j) ==
  [phase |-> o.phase, obs |-> snap.gen,
   digest |-> IF o.digest = NoRev THEN snap.st.digest ELSE o.digest,
   ref |-> IF o.digest = NoRev THEN snap.st.ref ELSE OCIReference(snap),
   cond |-> [status |-> o.ready, reason |-> o.reason, gen |-> snap.gen],
   jobRef |-> IF j = 0 THEN snap.st.jobRef ELSE j]

\* FindOwnedJob returns the first match of an unordered List.
ObserveStatus(j) ==
  /\ pc = "observe"
  /\ IF OwnedJobs = {} THEN j = 0 ELSE j \in OwnedJobs
  /\ found' = j
  /\ obs' = ObservationOf(j)
  /\ pc' = IF NewStatus(obs', j) = snap.st THEN "release" ELSE "patch"
  /\ UNCHANGED <<clusterVars, snap, todo, errs, crashes>>

PatchStatus(r) ==
  /\ pc = "patch" /\ ma.gen # 0
  /\ Answer(r)
  /\ IF Applied(r) THEN PatchArtifact(NewStatus(obs, found)) ELSE UNCHANGED ma
  /\ IF r = "ok" THEN pc' = "release" /\ UNCHANGED <<queue, local>>
                 ELSE Return(TRUE)
  /\ UNCHANGED <<pvc, jobs, pods, caches, pushed, crashes>>

\* The artifact is gone: the patch fails, and the key is queued again.
PatchStatusNotFound ==
  /\ pc = "patch" /\ ma.gen = 0
  /\ Return(TRUE)
  /\ UNCHANGED <<api, caches, pushed, errs, crashes>>

(***************************************************************************)
(* The end of Reconcile: release the workspace of a pipeline that is over, *)
(* and come back while the digest is missing.                              *)
(***************************************************************************)
\* Mutants: a failed pipeline keeps its workspace; no polling.
OverIfSucceeded(o) == o.phase = "Succeeded"
NeverPolls(o) == FALSE

Over(o) == o.phase \in Terminal

PollsForDigest(o) == o.phase = "Succeeded" /\ o.digest = NoRev

ReleaseWorkspace(r) ==
  /\ pc = "release"
  /\ IF Over(obs) THEN DeletePVC(r) ELSE r = "ok" /\ UNCHANGED pvc
  /\ Answer(r)
  /\ Return(PollsForDigest(obs))
  /\ UNCHANGED <<ma, jobs, pods, caches, pushed, crashes>>

Reconcile ==
  \/ FetchArtifact
  \/ ListStaleJobs
  \/ \E j \in JobId, r \in Answers : DeleteStaleJob(j, r) \/ CreateJob(j, r)
  \/ \E r \in Answers : \/ DeleteStaleWorkspace(r) \/ EnsurePVC(r)
                        \/ ReconcileFailed(r) \/ PatchStatus(r)
                        \/ ReleaseWorkspace(r)
  \/ FindJob
  \/ \E j \in JobId \cup {0} : ObserveStatus(j)
  \/ PatchStatusNotFound

\* The Job's TTL is an hour: with EagerTTL false it ends between two runs.
JobExpires ==
  /\ EagerTTL \/ pc = "idle"
  /\ \E j \in JobId : TTLExpires(j)
  /\ UNCHANGED reconcilerVars

\* The operator restarts: the run in progress is lost, the informers list
\* everything again, and their initial events fill the queue.
Crash ==
  /\ crashes < MaxCrashes
  /\ crashes' = crashes + 1
  /\ pc' = "idle" /\ snap' = NoArtifact /\ todo' = {} /\ found' = 0 /\ obs' = NoObs
  /\ cMa' = ma /\ cJobs' = jobs /\ cPods' = pods /\ cPvc' = pvc
  /\ queue' = (ma.gen # 0 \/ \E j \in JobId : Exists(jobs[j]))
  /\ UNCHANGED <<api, pushed, errs>>

Deliver == Informers /\ UNCHANGED reconcilerVars

Environment == ClusterStep /\ UNCHANGED reconcilerVars

Next == \/ Deliver
        \/ UpToDate /\ (Reconcile \/ Environment \/ JobExpires \/ Crash)

Spec == Init /\ [][Next]_vars

(***************************************************************************)
(* Fairness: the worker runs, events are delivered, Pods that can start    *)
(* start and end, and the garbage collector works.  Users and failures owe *)
(* nothing, and no property is to wait for a resync, every ten hours.      *)
(***************************************************************************)
Fairness ==
  /\ WF_vars(UpToDate /\ Reconcile)
  /\ WF_vars(SyncArtifact /\ UNCHANGED reconcilerVars)
  /\ WF_vars(SyncJobs /\ UNCHANGED reconcilerVars)
  /\ WF_vars(SyncPods /\ UNCHANGED reconcilerVars)
  /\ WF_vars(SyncPvc /\ UNCHANGED reconcilerVars)
  /\ \A j \in JobId :
       /\ WF_vars(UpToDate /\ Workload(j) /\ UNCHANGED reconcilerVars)
       /\ WF_vars(UpToDate /\ Collector(j) /\ UNCHANGED reconcilerVars)
  /\ WF_vars(UpToDate /\ Storage /\ UNCHANGED reconcilerVars)

FairSpec == Spec /\ Fairness

(***************************************************************************)
(* Safety                                                                  *)
(***************************************************************************)
\* EnsureJob (reconcile.go:63-66) finds the Job of the artifact before it
\* creates one: whatever fails, is lost or restarts, an artifact never has two
\* Jobs at work, provided the List it decides on is up to date.
AtMostOneLiveJob ==
  \A i, j \in JobId :
    Live(jobs[i]) /\ Live(jobs[j]) /\ jobs[i].uid = jobs[j].uid => i = j

\* A status that claims the current generation (observedGeneration) is not
\* about a Job of an earlier one: CleanupStaleJobs (reconcile.go:102-123) has
\* removed those before updateStatus records the generation.  Not so with an old
\* copy, which may show an artifact that has not run yet, nor once a call
\* has failed or the operator was restarted: the error path records a generation
\* nothing was cleaned up for, and a run that was cut short records none.
StaleJobsCleaned ==
  errs = 0 /\ crashes = 0 => \A j \in JobId :
    Live(jobs[j]) /\ Existing(jobs[j].uid) /\ ma.st.obs = ma.gen
      => jobs[j].gen = ma.gen

\* The worker has nothing to do, and the events of artifact and Jobs are delivered.
AtRest == ~queue /\ pc = "idle" /\ cMa = ma /\ cJobs = jobs

\* The controller never stops waiting for an event that will not come
\* (modelartifact_controller.go:85-101,106-139): when it rests the status is about the
\* current generation, tells how the Job has ended, and after a success with which digest,
\* although Pods send no events; the first generation has a Job or an outcome; and the
\* workspace of an outcome is given back, unless a call has failed.  An edit may end
\* without a Job or an outcome, see artifact_ready_edit.
RestsWhenTold ==
  AtRest /\ ma.gen # 0 =>
    /\ ma.st.obs = ma.gen
    /\ \A j \in JobId : Live(jobs[j]) /\ Existing(jobs[j].uid) =>
         /\ jobs[j].st = "succeeded" => ma.st.phase = "Succeeded"
         /\ jobs[j].st = "failed" => ma.st.phase = "Failed"
    /\ ma.st.phase = "Succeeded" => ma.st.digest # NoRev
    /\ ma.gen = 1 => Finished(ma) \/ \E j \in JobId : Live(jobs[j]) /\ Existing(jobs[j].uid)
    /\ Finished(ma) /\ errs = 0 => pvc.st # "bound"

(***************************************************************************)
(* What a step may never do                                                *)
(***************************************************************************)
\* As long as the name is used once, patches computed from copies of any age, and
\* delayed by retries, never take observedGeneration back
\* (modelartifact_controller.go:167,207,245).
ObservedGenerationMonotone ==
  [][ma'.gen # 0 /\ ma'.uid = ma.uid => ma'.st.obs >= ma.st.obs]_vars

\* Once the outcome of a generation is recorded it stays, even when the Job is
\* removed by its TTL (status.go:41-42), until the spec changes, provided the copy
\* of the artifact is up to date.
TerminalIsStable ==
  [][Finished(ma) /\ ma'.gen = ma.gen /\ ma'.uid = ma.uid
       => ma'.st.phase = ma.st.phase]_vars

\* While the artifact exists, the pipeline of a revision that was pushed is not
\* started again, not after a restart, nor when the TTL has removed its Job
\* ("Idempotent", modelartifact_controller.go:106-110), provided the copy of the
\* artifact is up to date.
NoPipelineAfterPush ==
  [][\A j \in JobId :
       jobs[j].st = "absent" /\ jobs'[j].st = "new" /\ Existing(jobs'[j].uid)
         => [uid |-> jobs'[j].uid, gen |-> jobs'[j].gen] \notin pushed]_vars

(***************************************************************************)
(* Liveness                                                                *)
(***************************************************************************)
\* An artifact whose spec is set once reaches a terminal phase, whatever calls
\* fail in between, unless it is deleted or edited.
Completes == (ma.gen = 1) ~> (ma.gen # 1 \/ Finished(ma))

\* After the phase is Succeeded the digest arrives, although Pods send no
\* events: the controller polls for it (modelartifact_controller.go:96-99),
\* unless an edit has the Job removed before.
DigestRecorded ==
  (ma.gen = 1 /\ ma.st.phase = "Succeeded")
     ~> (ma.gen # 1 \/ ma.st.digest # NoRev)

\* The workspace of a finished pipeline is given back, also when the run that should do
\* it reads an old copy of the artifact, unless a call has failed: the error of the
\* final DeletePVC is dropped (modelartifact_controller.go:90-94).
WorkspaceReleased ==
  (ma.gen # 0 /\ Finished(ma))
     ~> (ma.gen = 0 \/ ~Finished(ma) \/ pvc.st = "absent" \/ errs > 0)

\* Nothing of a deleted artifact remains, although no finalizer is used
\* (modelartifact_controller.go:69-71): what a Reconcile that still sees the
\* artifact creates is collected as well.
OrphansCollected ==
  (ma.gen = 0) ~> (\/ ma.gen # 0
                   \/ /\ pvc.st = "absent"
                      /\ \A j \in JobId : ~Exists(jobs[j]) /\ pods[j] = "none")

\* As long as the name is used once and no call fails, every edit is taken note of,
\* however edits, the cleanup, the patches and old copies of the artifact interleave
\* (modelartifact_controller.go:116-129,207).
StatusCatchesUp == []<>(ma.gen = 0 \/ ma.st.obs = ma.gen)
=============================================================================
