------------------------ MODULE ArtifactSafety_proofs ------------------------
(***************************************************************************)
(* What the status of a ModelArtifact and its Jobs have to do with each    *)
(* other, for an artifact that is created once, when the controller sees   *)
(* the current artifact and Jobs, Pods and workspace at any age, and Jobs  *)
(* outlive the events of their end.  Any number of edits, Jobs, failed     *)
(* calls and restarts.                                                     *)
(***************************************************************************)
EXTENDS ModelArtifact_proofs

Watched == /\ MaxUid =< 1
           /\ "artifact" \notin Lagging /\ "jobs" \notin Lagging
           /\ ~EagerTTL

Made(j) == jobs[j].st # "absent"

Outcome(job) == CASE job.st = "succeeded" -> "Succeeded"
                  [] job.st = "failed" -> "Failed"
                  [] OTHER -> "none"

(***************************************************************************)
(* The invariant.  A status tells what happened (StatusHonest) because the *)
(* observation it comes from did (ObservationHonest), which is written     *)
(* before another run can observe anything (RunKnows).  A pipeline is not  *)
(* run twice because the Jobs that are gone are of earlier generations, or *)
(* else the outcome was recorded before (GoneIsOld); and that is so since  *)
(* the end of a Job wakes the controller long before its TTL (Woken).      *)
(***************************************************************************)
CreatedOnce == /\ ma.uid =< 1
               /\ ma.gen # 0 => ma.uid = 1
               /\ ma.gen = 0 => ma.st = NoStatus
               /\ ma.uid = 0 => \A j \in JobId : ~Made(j)

JobsOwned ==
  \A j \in JobId : Made(j) =>
    /\ jobs[j].uid = 1 /\ jobs[j].gen > 0
    /\ jobs[j].del => jobs[j].st \notin {"new", "active"}
    /\ ma.gen # 0 => /\ jobs[j].gen =< cMa.gen
                     /\ pc # "idle" => jobs[j].gen =< snap.gen
                     /\ ma.st.obs # 0 => jobs[j].gen =< ma.st.obs

PushesTold ==
  /\ \A r \in pushed : \E j \in JobId : Made(j) /\ r = RevOf(jobs[j])
  /\ \A j \in JobId : /\ pods[j] # "none" \/ cPods[j] # "none" => Made(j)
                      /\ "succeeded" \in {pods[j], cPods[j], jobs[j].st}
                           => RevOf(jobs[j]) \in pushed

GroundsFor(phase, gen) ==
  /\ phase = "Succeeded" => \E r \in pushed : r.gen =< gen
  /\ phase \in {"Failed", "Running"} => \E j \in JobId : Made(j) /\ jobs[j].gen =< gen

JobsAgree(phase) ==
  phase \in Terminal => \A j \in JobId : Live(jobs[j]) => Outcome(jobs[j]) = phase

StatusHonest ==
  ma.gen # 0 =>
    /\ GroundsFor(ma.st.phase, ma.st.obs) /\ JobsAgree(ma.st.phase)
    /\ ma.st.digest \in pushed \cup {NoRev}
    /\ (ma.st.digest = NoRev) = (ma.st.ref = NoRev)
    /\ ma.st.phase # "" => ma.st.obs # 0

RunKnows ==
  pc # "idle" =>
    /\ snap.uid = 1 /\ snap.gen # 0
    /\ ma.gen # 0 /\ pc # "release" => snap.st = ma.st
    /\ pc \in {"cleanup", "deleteJobs"} => SpecChanged(snap)
    /\ pc \in {"ensurePVC", "findJob", "createJob"} => ~Finished(snap) /\ ~SpecChanged(snap)

ObservationHonest ==
  pc = "patch" /\ ma.gen # 0 =>
    /\ GroundsFor(obs.phase, snap.gen) /\ JobsAgree(obs.phase)
    /\ ma.st.phase \in Terminal => obs.phase = ma.st.phase
    /\ obs.digest \in pushed \cup {NoRev}

GoneIsOld ==
  ma.gen # 0 /\ ma.st.phase \notin Terminal =>
    \A j \in JobId : Made(j) /\ ~Live(jobs[j]) =>
      /\ jobs[j].gen < cMa.gen
      /\ pc \in {"ensurePVC", "findJob", "createJob"} => jobs[j].gen < snap.gen

Woken ==
  ma.gen # 0 /\ ma.st.phase \notin Terminal
    /\ (\E j \in JobId : Live(jobs[j]) /\ Outcome(jobs[j]) # "none")
  => \/ queue \/ cJobs # jobs
     \/ pc \notin {"idle", "patch", "release"}
     \/ pc = "patch" /\ obs.phase \in Terminal

History == CreatedOnce /\ JobsOwned /\ PushesTold /\ StatusHonest /\ RunKnows
           /\ ObservationHonest /\ GoneIsOld /\ Woken

ArtifactInv == TypeOK /\ OneJobInv /\ GenInv /\ History

(***************************************************************************)
(* Facts the step lemmas share                                             *)
(***************************************************************************)
\* The types the arithmetic of the proofs needs.
LEMMA Naturalness ==
  ASSUME TypeOK
  PROVE  /\ ma.uid \in Nat /\ ma.gen \in Nat /\ ma.st.obs \in Nat
         /\ cMa.gen \in Nat /\ snap.gen \in Nat /\ snap.uid \in Nat
         /\ ma.st \in Status /\ snap.st \in Status
         /\ \A j \in JobId : jobs[j] \in Job /\ jobs[j].gen \in Nat /\ jobs[j].uid \in Nat
BY DEF TypeOK, ClusterTypeOK, Artifact, Status, Job

\* Work that has been done stays done: grounds for a phase remain, for any later
\* generation.
LEMMA GroundsKept ==
  ASSUME NEW phase, NEW g \in Nat, NEW h \in Nat, g =< h, GroundsFor(phase, g),
         TypeOK, pushed \subseteq pushed',
         \A j \in JobId : Made(j) => Made(j)' /\ jobs'[j].gen = jobs[j].gen
  PROVE  /\ phase = "Succeeded" => \E r \in pushed' : r.gen =< h
         /\ phase \in {"Failed", "Running"} =>
              \E j \in JobId : Made(j)' /\ jobs'[j].gen =< h
<1>1. \A r \in pushed : r.gen \in Nat
  BY DEF TypeOK, ClusterTypeOK, Rev
<1>2. CASE phase = "Succeeded"
  <2>1. PICK r \in pushed : r.gen =< g
    BY <1>2 DEF GroundsFor
  <2>2. r.gen =< h
    BY <1>1, <2>1
  <2> QED BY <1>2, <2>2
<1>3. CASE phase \in {"Failed", "Running"}
  <2>1. PICK j \in JobId : Made(j) /\ jobs[j].gen =< g
    BY <1>3 DEF GroundsFor
  <2>2. jobs'[j].gen =< h /\ Made(j)'
    BY <2>1, Naturalness
  <2> QED BY <1>3, <2>2
<1> QED BY <1>2, <1>3

\* An artifact that has not reached an outcome of its generation has reached
\* none: a run that found it unfinished and unchanged may start a pipeline.
LEMMA NotTerminalYet ==
  ASSUME ArtifactInv, pc \in {"ensurePVC", "findJob", "createJob"}, ma.gen # 0
  PROVE  ma.st.phase \notin Terminal /\ ma.st.obs \in {0, snap.gen}
<1>1. snap.st = ma.st /\ ~Finished(snap) /\ ~SpecChanged(snap) /\ snap.gen # 0
  BY DEF ArtifactInv, History, RunKnows
<1>2. ma.st.obs =< snap.gen
  BY DEF ArtifactInv, GenInv
<1>3. ma.st.obs \in {0, snap.gen}
  BY <1>1, <1>2, Naturalness DEF SpecChanged, ArtifactInv
<1>4. ma.st.phase # "" => ma.st.obs # 0
  BY DEF ArtifactInv, History, StatusHonest
<1> QED BY <1>1, <1>3, <1>4 DEF Finished, Terminal

(***************************************************************************)
(* The cluster's steps                                                     *)
(***************************************************************************)
\* Events, resyncs and the workspace.
LEMMA QuietStep ==
  ASSUME ArtifactInv, UNCHANGED <<ma, jobs, pods, pushed, reconcilerVars>>,
         cMa' \in {cMa, ma}, cPods' \in {cPods, pods},
         queue => queue', cJobs' = cJobs \/ queue'
  PROVE  History'
<1> USE DEF ArtifactInv, History, reconcilerVars, local, Made
<1>0. CreatedOnce' /\ RunKnows'
  BY DEF CreatedOnce, RunKnows
<1>1. StatusHonest' /\ ObservationHonest'
  <2>1. \A phase, g : GroundsFor(phase, g)' = GroundsFor(phase, g)
    BY DEF GroundsFor
  <2>2. \A phase : JobsAgree(phase)' = JobsAgree(phase)
    BY DEF JobsAgree
  <2>3. StatusHonest'
    BY <2>1, <2>2 DEF StatusHonest
  <2>4. ObservationHonest'
    BY <2>1, <2>2 DEF ObservationHonest
  <2> QED BY <2>3, <2>4
<1>2. ma.gen # 0 => cMa.gen =< cMa'.gen /\ cMa'.gen \in Nat
  BY Naturalness DEF GenInv
<1>3. JobsOwned'
  <2> SUFFICES ASSUME NEW j \in JobId, Made(j)
               PROVE  /\ jobs[j].uid = 1 /\ jobs[j].gen > 0
                      /\ jobs[j].del => jobs[j].st \notin {"new", "active"}
                      /\ ma.gen # 0 => /\ jobs[j].gen =< cMa'.gen
                                       /\ pc # "idle" => jobs[j].gen =< snap.gen
                                       /\ ma.st.obs # 0 => jobs[j].gen =< ma.st.obs
    BY DEF JobsOwned
  <2> QED BY <1>2, Naturalness DEF JobsOwned
<1>4. PushesTold'
  BY DEF PushesTold, RevOf
<1>5. GoneIsOld'
  <2> SUFFICES ASSUME ma.gen # 0, ma.st.phase \notin Terminal, NEW j \in JobId,
                      Made(j), ~Live(jobs[j])
               PROVE  /\ jobs[j].gen < cMa'.gen
                      /\ pc \in {"ensurePVC", "findJob", "createJob"} => jobs[j].gen < snap.gen
    BY DEF GoneIsOld
  <2> QED BY <1>2, Naturalness DEF GoneIsOld
<1>6. Woken'
  BY DEF Woken
<1> QED BY <1>0, <1>1, <1>3, <1>4, <1>5, <1>6

\* Steps that leave the artifact, the caches, the queue and the controller alone,
\* make no Job and bring none to life, revise none, keep what was pushed, and give
\* no Job a new outcome without an event.
LEMMA WorkStep ==
  ASSUME ArtifactInv, cJobs = jobs,
         UNCHANGED <<ma, caches, queue, reconcilerVars>>,
         pushed \subseteq pushed', PushesTold',
         \A j \in JobId : /\ Made(j)' = Made(j)
                          /\ jobs'[j].uid = jobs[j].uid /\ jobs'[j].gen = jobs[j].gen
                          /\ jobs'[j].del => jobs'[j].st \notin {"new", "active"}
                          /\ Live(jobs'[j]) => Live(jobs[j]),
         \A j \in JobId : Live(jobs'[j]) /\ Outcome(jobs'[j]) # Outcome(jobs[j])
                            => Outcome(jobs[j]) = "none",
         \A j \in JobId : Live(jobs[j]) /\ ~Live(jobs'[j])
                            => ma.gen = 0 \/ ma.st.phase \in Terminal
  PROVE  History'
<1> USE DEF ArtifactInv, History, reconcilerVars, local, caches
<1>1. CreatedOnce' /\ RunKnows'
  BY DEF CreatedOnce, RunKnows
<1>2. JobsOwned'
  BY DEF JobsOwned
<1>3. ASSUME NEW phase \in Phases, NEW g \in Nat, ma.gen # 0,
             GroundsFor(phase, g), JobsAgree(phase)
      PROVE  GroundsFor(phase, g)' /\ JobsAgree(phase)'
  <2>1. GroundsFor(phase, g)'
    BY <1>3, GroundsKept DEF GroundsFor
  <2>2. JobsAgree(phase)'
    BY <1>3 DEF JobsAgree, Terminal
  <2> QED BY <2>1, <2>2
<1>4. StatusHonest'
  <2>1. ma.st.phase \in Phases /\ ma.st.obs \in Nat
    BY Naturalness DEF Status
  <2> QED BY <1>3, <2>1 DEF StatusHonest
<1>5. ObservationHonest'
  <2>1. obs.phase \in Phases /\ snap.gen \in Nat
    BY Naturalness DEF TypeOK, Observations
  <2> QED BY <1>3, <2>1 DEF ObservationHonest
<1>6. GoneIsOld'
  BY DEF GoneIsOld
<1>7. Woken'
  <2>1. CASE jobs' = jobs
    BY <2>1 DEF Woken
  <2>2. CASE jobs' # jobs
    BY <2>2 DEF Woken
  <2> QED BY <2>1, <2>2
<1> QED BY <1>1, <1>2, <1>4, <1>5, <1>6, <1>7

\* The Job controller and the kubelet: Jobs get outcomes, and cached Jobs differ
\* from theirs until the controller has been told.
LEMMA WorkloadHistory ==
  ASSUME Watched, ArtifactInv, UpToDate, NEW j \in JobId, Workload(j),
         UNCHANGED reconcilerVars
  PROVE  History'
<1> USE DEF Live, Exists
<1>1. cJobs = jobs /\ jobs \in [JobId -> Job] /\ pods \in [JobId -> PodStates]
  BY DEF UpToDate, Watched, ArtifactInv, TypeOK, ClusterTypeOK
<1>2. JobsOwned /\ PushesTold
  BY DEF ArtifactInv, History
<1>3. CASE JobStarts(j)
  <2>1. /\ jobs' = [jobs EXCEPT ![j].st = "active"]
        /\ pods' = [pods EXCEPT ![j] = "waiting"]
        /\ jobs[j].st = "new" /\ UNCHANGED <<ma, caches, queue, pushed>>
    BY <1>3 DEF JobStarts
  <2>2. \A i \in JobId : /\ jobs'[i].uid = jobs[i].uid /\ jobs'[i].gen = jobs[i].gen
                         /\ jobs'[i].del = jobs[i].del
                         /\ i # j => jobs'[i].st = jobs[i].st /\ pods'[i] = pods[i]
    BY <1>1, <2>1 DEF Job
  <2>3. jobs'[j].st = "active" /\ pods'[j] = "waiting"
    BY <1>1, <2>1 DEF Job
  <2>4. \A i \in JobId : Made(i)' = Made(i) /\ RevOf(jobs'[i]) = RevOf(jobs[i])
    BY <2>1, <2>2, <2>3 DEF Made, RevOf
  <2>5. PushesTold'
    BY <1>2, <2>1, <2>2, <2>3, <2>4 DEF PushesTold, caches, Made
  <2>6. \A i \in JobId : jobs'[i].del => jobs'[i].st \notin {"new", "active"}
    BY <1>2, <2>1, <2>2, <2>3 DEF JobsOwned, Made
  <2>7. \A i \in JobId : Live(jobs'[i]) = Live(jobs[i]) /\ Outcome(jobs'[i]) = Outcome(jobs[i])
    BY <2>1, <2>2, <2>3 DEF Outcome
  <2> QED BY <1>1, <2>1, <2>2, <2>4, <2>5, <2>6, <2>7, WorkStep
<1>4. CASE PodStarts(j) \/ PodFails(j)
  <2>1. /\ UNCHANGED <<ma, jobs, caches, queue, pushed>>
        /\ pods[j] # "none" /\ pods' \in {[pods EXCEPT ![j] = "running"], [pods EXCEPT ![j] = "failed"]}
    BY <1>4 DEF PodStarts, PodFails
  <2>2. PushesTold'
    BY <1>1, <1>2, <2>1 DEF PushesTold, caches, Made
  <2>3. \A i \in JobId : jobs'[i].del => jobs'[i].st \notin {"new", "active"}
    BY <1>2, <2>1 DEF JobsOwned, Made
  <2> QED BY <1>1, <2>1, <2>2, <2>3, WorkStep DEF Made
<1>5. CASE PodPushes(j) \/ PodSucceeds(j)
  <2>1. /\ UNCHANGED <<ma, jobs, caches, queue>> /\ pods[j] # "none"
        /\ pods' \in {pods, [pods EXCEPT ![j] = "succeeded"]}
        /\ pushed' = pushed \cup {RevOf(jobs[j])}
    BY <1>5 DEF PodPushes, PodSucceeds
  <2>2. Made(j)
    BY <1>2, <2>1 DEF PushesTold
  <2>3. PushesTold'
    BY <1>1, <1>2, <2>1, <2>2 DEF PushesTold, caches, Made
  <2>4. \A i \in JobId : jobs'[i].del => jobs'[i].st \notin {"new", "active"}
    BY <1>2, <2>1 DEF JobsOwned, Made
  <2> QED BY <1>1, <2>1, <2>3, <2>4, WorkStep DEF Made
<1>6. CASE JobFinishes(j)
  <2>1. /\ jobs' = [jobs EXCEPT ![j].st = pods[j]] /\ jobs[j].st = "active"
        /\ pods[j] \in {"succeeded", "failed"} /\ UNCHANGED <<ma, pods, caches, queue, pushed>>
    BY <1>6 DEF JobFinishes
  <2>2. \A i \in JobId : /\ jobs'[i].uid = jobs[i].uid /\ jobs'[i].gen = jobs[i].gen
                         /\ jobs'[i].del = jobs[i].del
                         /\ i # j => jobs'[i].st = jobs[i].st
    BY <1>1, <2>1 DEF Job
  <2>3. jobs'[j].st = pods[j]
    BY <1>1, <2>1 DEF Job
  <2>4. \A i \in JobId : Made(i)' = Made(i) /\ RevOf(jobs'[i]) = RevOf(jobs[i])
    BY <2>1, <2>2, <2>3 DEF Made, RevOf
  <2>5. PushesTold'
    BY <1>2, <2>1, <2>2, <2>3, <2>4 DEF PushesTold, caches, Made
  <2>6. \A i \in JobId : jobs'[i].del => jobs'[i].st \notin {"new", "active"}
    BY <1>2, <2>1, <2>2, <2>3 DEF JobsOwned, Made
  <2>7. \A i \in JobId : /\ Live(jobs'[i]) = Live(jobs[i])
                         /\ i # j => Outcome(jobs'[i]) = Outcome(jobs[i])
    BY <2>1, <2>2, <2>3 DEF Outcome
  <2>8. Outcome(jobs[j]) = "none"
    BY <2>1 DEF Outcome
  <2> QED BY <1>1, <2>1, <2>2, <2>4, <2>5, <2>6, <2>7, <2>8, WorkStep
<1> QED BY <1>3, <1>4, <1>5, <1>6 DEF Workload

\* The collector takes only Jobs of an artifact that is gone, or marked before.
LEMMA CollectorHistory ==
  ASSUME Watched, ArtifactInv, UpToDate, NEW j \in JobId, Collector(j),
         UNCHANGED reconcilerVars
  PROVE  History'
<1> USE DEF Live, Exists
<1>1. cJobs = jobs /\ jobs \in [JobId -> Job] /\ pods \in [JobId -> PodStates]
  BY DEF UpToDate, Watched, ArtifactInv, TypeOK, ClusterTypeOK
<1>2. JobsOwned /\ PushesTold /\ CreatedOnce
  BY DEF ArtifactInv, History
<1>3. ASSUME jobs' = [jobs EXCEPT ![j].st = "gone"], Exists(jobs[j]),
             UNCHANGED <<ma, pods, caches, queue, pushed>>,
             jobs[j].del \/ ma.gen = 0
      PROVE  History'
  <2>1. \A i \in JobId : /\ jobs'[i].uid = jobs[i].uid /\ jobs'[i].gen = jobs[i].gen
                         /\ jobs'[i].del = jobs[i].del
                         /\ i # j => jobs'[i].st = jobs[i].st
    BY <1>1, <1>3 DEF Job
  <2>2. jobs'[j].st = "gone"
    BY <1>1, <1>3 DEF Job
  <2>3. \A i \in JobId : Made(i)' = Made(i) /\ RevOf(jobs'[i]) = RevOf(jobs[i])
    BY <1>3, <2>1, <2>2 DEF Made, RevOf
  <2>4. PushesTold'
    BY <1>2, <1>3, <2>1, <2>2, <2>3 DEF PushesTold, caches, Made
  <2>5. \A i \in JobId : jobs'[i].del => jobs'[i].st \notin {"new", "active"}
    BY <1>2, <1>3, <2>1, <2>2 DEF JobsOwned, Made
  <2>6. \A i \in JobId : i # j => /\ Live(jobs'[i]) = Live(jobs[i])
                                  /\ Outcome(jobs'[i]) = Outcome(jobs[i])
    BY <2>1 DEF Outcome
  <2>7. ~Live(jobs'[j]) /\ (ma.gen = 0 \/ ~Live(jobs[j]))
    BY <1>3, <2>2
  <2> QED BY <1>1, <1>3, <2>1, <2>3, <2>4, <2>5, <2>6, <2>7, WorkStep
<1>4. CASE CollectJob(j)
  <2>1. ma.gen = 0
    BY <1>2, <1>4, Naturalness DEF CollectJob, Existing, CreatedOnce, JobsOwned, Made
  <2> QED BY <1>3, <1>4, <2>1 DEF CollectJob
<1>5. CASE ReapJob(j)
  BY <1>3, <1>5 DEF ReapJob
<1>6. CASE ReapPod(j)
  <2>1. UNCHANGED <<ma, jobs, caches, queue, pushed>> /\ pods' = [pods EXCEPT ![j] = "none"]
    BY <1>6 DEF ReapPod
  <2>2. PushesTold'
    BY <1>1, <1>2, <2>1 DEF PushesTold, caches, Made
  <2>3. \A i \in JobId : jobs'[i].del => jobs'[i].st \notin {"new", "active"}
    BY <1>2, <2>1 DEF JobsOwned, Made
  <2> QED BY <1>1, <2>1, <2>2, <2>3, WorkStep DEF Made
<1> QED BY <1>4, <1>5, <1>6 DEF Collector

\* A Job's TTL ends when its outcome has long been recorded.
LEMMA ExpiryHistory ==
  ASSUME Watched, ArtifactInv, UpToDate, JobExpires
  PROVE  History'
<1> USE DEF Live, Exists
<1>1. cJobs = jobs /\ jobs \in [JobId -> Job]
  BY DEF UpToDate, Watched, ArtifactInv, TypeOK, ClusterTypeOK
<1>2. JobsOwned /\ PushesTold /\ Woken
  BY DEF ArtifactInv, History
<1>3. PICK j \in JobId : TTLExpires(j)
  BY DEF JobExpires
<1>4. /\ jobs' = [jobs EXCEPT ![j].del = TRUE]
      /\ jobs[j].st \in {"succeeded", "failed"} /\ ~jobs[j].del
      /\ UNCHANGED <<ma, pods, caches, queue, pushed, reconcilerVars>>
      /\ ~queue /\ pc = "idle"
  BY <1>3 DEF TTLExpires, JobExpires, Watched, Settled
<1>5. Live(jobs[j]) /\ Outcome(jobs[j]) # "none"
  BY <1>4 DEF Outcome
<1>6. ma.gen = 0 \/ ma.st.phase \in Terminal
  BY <1>1, <1>2, <1>4, <1>5 DEF Woken
<1>7. \A i \in JobId : /\ jobs'[i].uid = jobs[i].uid /\ jobs'[i].gen = jobs[i].gen
                       /\ jobs'[i].st = jobs[i].st
                       /\ i # j => jobs'[i].del = jobs[i].del
  BY <1>1, <1>4 DEF Job
<1>8. \A i \in JobId : /\ Made(i)' = Made(i) /\ RevOf(jobs'[i]) = RevOf(jobs[i])
                       /\ Outcome(jobs'[i]) = Outcome(jobs[i])
  BY <1>7 DEF Made, RevOf, Outcome
<1>9. PushesTold'
  <2>1. UNCHANGED <<pods, cPods, pushed>>
    BY <1>4 DEF caches
  <2>2. \A r \in pushed' : \E i \in JobId : Made(i)' /\ r = RevOf(jobs'[i])
    BY <1>2, <1>8, <2>1 DEF PushesTold
  <2> QED BY <1>2, <1>7, <1>8, <2>1, <2>2 DEF PushesTold
<1>10. \A i \in JobId : jobs'[i].del => jobs'[i].st \notin {"new", "active"}
  BY <1>2, <1>4, <1>7 DEF JobsOwned, Made
<1>11. \A i \in JobId : Live(jobs'[i]) => Live(jobs[i])
  BY <1>4, <1>5, <1>7
<1>12. \A i \in JobId : Live(jobs[i]) /\ ~Live(jobs'[i]) => ma.gen = 0 \/ ma.st.phase \in Terminal
  BY <1>6
<1> HIDE DEF Live, Exists
<1> QED BY <1>1, <1>4, <1>7, <1>8, <1>9, <1>10, <1>11, <1>12, WorkStep

\* Users: an artifact that is created has no Jobs yet, one that is edited keeps its
\* status, and of one that is deleted nothing is claimed any more.
LEMMA UserHistory ==
  ASSUME Watched, ArtifactInv, UpToDate, User, UNCHANGED reconcilerVars
  PROVE  History'
<1> USE DEF ArtifactInv, History
<1>1. cMa = ma /\ cJobs = jobs
  BY DEF UpToDate, Watched
<1>2. pc' = pc /\ snap' = snap /\ obs' = obs
  BY DEF reconcilerVars, local
<1>3. UNCHANGED <<pvc, jobs, pods, caches, queue, pushed>>
  BY DEF User, UserCreate, UserEdit, UserDelete
<1>4. PushesTold'
  BY <1>3 DEF PushesTold, Made, RevOf, caches
<1>5. CASE UserCreate
  <2>1. ma.uid = 0 /\ ma.gen = 0
    BY <1>5, Naturalness, BoundsAssumption DEF UserCreate, Watched
  <2>2. ma' = [uid |-> 1, gen |-> 1, st |-> NoStatus]
    BY <1>5, <2>1 DEF UserCreate
  <2>3. ma'.uid = 1 /\ ma'.gen = 1 /\ ma'.st = NoStatus
    BY <2>2
  <2>4. \A j \in JobId : ~Made(j) /\ ~Made(j)'
    BY <1>3, <2>1 DEF CreatedOnce, Made
  <2>5. pc = "idle"
    BY <2>1 DEF GenInv
  <2>6. CreatedOnce' /\ JobsOwned' /\ GoneIsOld'
    <3>1. CreatedOnce'
      BY <2>3 DEF CreatedOnce
    <3>2. JobsOwned'
      BY <2>4 DEF JobsOwned
    <3>3. GoneIsOld'
      BY <2>4 DEF GoneIsOld
    <3> QED BY <3>1, <3>2, <3>3
  <2>7. StatusHonest'
    <3>1. NoStatus.digest = NoRev /\ NoStatus.ref = NoRev
      BY DEF NoStatus
    <3>2. NoStatus.phase \notin {"Succeeded", "Failed", "Running"} /\ ~(NoStatus.phase # "")
      BY DEF NoStatus
    <3> QED BY <2>3, <3>1, <3>2 DEF StatusHonest, GroundsFor, JobsAgree, Terminal
  <2>8. RunKnows' /\ ObservationHonest'
    BY <1>2, <2>5 DEF RunKnows, ObservationHonest
  <2>9. Woken'
    BY <2>4 DEF Woken, Live, Exists, Made
  <2> QED BY <1>4, <2>6, <2>7, <2>8, <2>9
<1>6. CASE UserEdit
  <2>1. /\ ma.gen # 0 /\ ma' = [uid |-> ma.uid, gen |-> ma.gen + 1, st |-> ma.st]
    BY <1>6 DEF UserEdit, TypeOK, ClusterTypeOK, Artifact
  <2>2. ma'.uid = ma.uid /\ ma'.gen = ma.gen + 1 /\ ma'.st = ma.st /\ ma'.gen # 0
    BY <2>1, Naturalness
  <2>3. CreatedOnce' /\ JobsOwned' /\ GoneIsOld'
    BY <1>2, <1>3, <2>1, <2>2 DEF CreatedOnce, JobsOwned, GoneIsOld, Made, caches
  <2>4. StatusHonest' /\ ObservationHonest'
    <3>1. \A phase, g : GroundsFor(phase, g)' = GroundsFor(phase, g)
      BY <1>3 DEF GroundsFor, Made
    <3>2. \A phase : JobsAgree(phase)' = JobsAgree(phase)
      BY <1>3 DEF JobsAgree
    <3>3. StatusHonest'
      BY <1>3, <2>1, <2>2, <3>1, <3>2 DEF StatusHonest
    <3>4. ObservationHonest'
      BY <1>2, <1>3, <2>1, <2>2, <3>1, <3>2 DEF ObservationHonest
    <3> QED BY <3>3, <3>4
  <2>5. RunKnows'
    BY <1>2, <2>1, <2>2 DEF RunKnows
  <2>6. Woken'
    BY <1>2, <1>3, <2>1, <2>2 DEF Woken, caches
  <2> QED BY <1>4, <2>3, <2>4, <2>5, <2>6
<1>7. CASE UserDelete
  <2>1. ma' = [uid |-> ma.uid, gen |-> 0, st |-> NoStatus] /\ ma.gen # 0
    BY <1>7 DEF UserDelete, TypeOK, ClusterTypeOK, Artifact
  <2>2. ma'.uid = ma.uid /\ ma'.gen = 0 /\ ma'.st = NoStatus
    BY <2>1
  <2>3. CreatedOnce' /\ JobsOwned'
    BY <1>3, <2>1, <2>2 DEF CreatedOnce, JobsOwned, Made
  <2>4. RunKnows'
    BY <1>2, <2>1, <2>2 DEF RunKnows
  <2>5. StatusHonest' /\ ObservationHonest' /\ GoneIsOld' /\ Woken'
    BY <2>2 DEF StatusHonest, ObservationHonest, GoneIsOld, Woken
  <2> QED BY <1>4, <2>3, <2>4, <2>5
<1> QED BY <1>5, <1>6, <1>7 DEF User

(***************************************************************************)
(* The controller's steps                                                  *)
(***************************************************************************)
\* A status that was claimed on the same pipelines is as honest as before.
LEMMA HonestyKept ==
  ASSUME ArtifactInv, UNCHANGED <<ma, jobs, pushed>>
  PROVE  /\ StatusHonest' /\ CreatedOnce'
         /\ \A phase, g : GroundsFor(phase, g)' = GroundsFor(phase, g)
         /\ \A phase : JobsAgree(phase)' = JobsAgree(phase)
<1>1. \A phase, g : GroundsFor(phase, g)' = GroundsFor(phase, g)
  BY DEF GroundsFor, Made
<1>2. \A phase : JobsAgree(phase)' = JobsAgree(phase)
  BY DEF JobsAgree
<1>3. StatusHonest'
  BY <1>1, <1>2 DEF StatusHonest, ArtifactInv, History
<1>4. CreatedOnce'
  BY DEF CreatedOnce, Made, ArtifactInv, History
<1> QED BY <1>1, <1>2, <1>3, <1>4

\* The steps of a run that only read, or touch the workspace.
LEMMA ProceedStep ==
  ASSUME ArtifactInv, UNCHANGED <<ma, jobs, pods, caches, queue, pushed, snap>>,
         pc # "idle", pc' # "idle", pc # "release",
         pc' \notin {"patch", "release"},
         pc' \in {"cleanup", "deleteJobs"} => pc \in {"cleanup", "deleteJobs"},
         pc' \in {"ensurePVC", "findJob", "createJob"} => pc \in {"ensurePVC", "findJob", "createJob"}
  PROVE  History'
<1> USE DEF ArtifactInv, History, caches
<1>1. StatusHonest' /\ CreatedOnce'
  BY HonestyKept
<1>2. JobsOwned' /\ PushesTold'
  BY DEF JobsOwned, PushesTold, Made, RevOf
<1>3. RunKnows'
  BY DEF RunKnows
<1>4. ObservationHonest' /\ Woken'
  BY DEF ObservationHonest, Woken
<1>5. GoneIsOld'
  BY DEF GoneIsOld, Made
<1> QED BY <1>1, <1>2, <1>3, <1>4, <1>5

\* The steps that end a run and write nothing: unless the outcome was there to be
\* recorded, in which case the key is queued, the run had nothing to do.
LEMMA EndStep ==
  ASSUME ArtifactInv, UNCHANGED <<ma, jobs, pods, caches, pushed>>, pc' = "idle",
         queue' \/ (pc = "release" /\ (queue => queue'))
  PROVE  History'
<1> USE DEF ArtifactInv, History, caches
<1>1. StatusHonest' /\ CreatedOnce'
  BY HonestyKept
<1>2. JobsOwned' /\ PushesTold'
  BY DEF JobsOwned, PushesTold, Made, RevOf
<1>3. RunKnows' /\ ObservationHonest'
  BY DEF RunKnows, ObservationHonest
<1>4. Woken'
  BY DEF Woken
<1>5. GoneIsOld'
  BY DEF GoneIsOld, Made
<1> QED BY <1>1, <1>2, <1>3, <1>4, <1>5

\* A run begins with the artifact as it is.
LEMMA FetchHistory ==
  ASSUME Watched, ArtifactInv, UpToDate, FetchArtifact
  PROVE  History'
<1> USE DEF ArtifactInv, History, caches, api
<1>1. cMa = ma /\ cJobs = jobs
  BY DEF UpToDate, Watched
<1>2. UNCHANGED <<ma, jobs, pods, caches, pushed, obs>> /\ pc = "idle"
  BY DEF FetchArtifact
<1>3. StatusHonest' /\ CreatedOnce'
  BY <1>2, HonestyKept
<1>4. PushesTold'
  BY <1>2 DEF PushesTold, Made, RevOf
<1>5. CASE ma.gen = 0
  <2>1. pc' = pc
    BY <1>1, <1>5 DEF FetchArtifact
  <2> QED BY <1>2, <1>3, <1>4, <1>5, <2>1 DEF JobsOwned, RunKnows, ObservationHonest, GoneIsOld, Woken, Made
<1>6. CASE ma.gen # 0
  <2>1. /\ snap' = ma
        /\ pc' \in {"observe", "cleanup", "ensurePVC"}
        /\ pc' = "cleanup" => SpecChanged(ma)
        /\ pc' = "ensurePVC" => ~Finished(ma) /\ ~SpecChanged(ma)
    BY <1>1, <1>6 DEF FetchArtifact
  <2>2. JobsOwned'
    BY <1>1, <1>2, <2>1 DEF JobsOwned, Made
  <2>3. RunKnows'
    BY <1>2, <1>6, <2>1 DEF RunKnows, CreatedOnce, Finished, SpecChanged
  <2>4. ObservationHonest' /\ Woken'
    BY <2>1 DEF ObservationHonest, Woken
  <2>5. GoneIsOld'
    BY <1>1, <1>2, <2>1 DEF GoneIsOld, Made
  <2> QED BY <1>3, <1>4, <2>2, <2>3, <2>4, <2>5
<1> QED BY <1>5, <1>6

\* CleanupStaleJobs takes Jobs of generations before the observed one or of it, and
\* the observed one is earlier than that of the run.
LEMMA CleanupHistory ==
  ASSUME Watched, ArtifactInv, UpToDate, NEW j \in JobId, NEW r \in Answers,
         DeleteStaleJob(j, r)
  PROVE  History'
<1> USE DEF ArtifactInv, History, caches
<1>1. cJobs = jobs /\ jobs \in [JobId -> Job]
  BY DEF UpToDate, Watched, TypeOK, ClusterTypeOK
<1>2. /\ pc = "deleteJobs" /\ pc' \in {"deleteJobs", "fail"}
      /\ UNCHANGED <<ma, pods, caches, queue, pushed, snap>>
      /\ jobs' \in {jobs, [jobs EXCEPT ![j].st = "gone"]}
      /\ jobs' # jobs => Exists(jobs[j])
  BY DEF DeleteStaleJob
<1>3. CASE jobs' = jobs
  BY <1>2, <1>3, ProceedStep
<1>4. CASE jobs' = [jobs EXCEPT ![j].st = "gone"] /\ Exists(jobs[j])
  <2>1. \A i \in JobId : /\ jobs'[i].uid = jobs[i].uid /\ jobs'[i].gen = jobs[i].gen
                         /\ jobs'[i].del = jobs[i].del
                         /\ i # j => jobs'[i].st = jobs[i].st
    BY <1>1, <1>4 DEF Job
  <2>2. jobs'[j].st = "gone"
    BY <1>1, <1>4 DEF Job
  <2>3. \A i \in JobId : Made(i)' = Made(i) /\ RevOf(jobs'[i]) = RevOf(jobs[i])
    BY <1>4, <2>1, <2>2 DEF Made, RevOf, Exists
  <2>4. CreatedOnce'
    BY <1>2, <2>3 DEF CreatedOnce
  <2>5. JobsOwned'
    BY <1>2, <2>1, <2>2, <2>3 DEF JobsOwned
  <2>6. PushesTold'
    <3>1. \A q \in pushed' : \E i \in JobId : Made(i)' /\ q = RevOf(jobs'[i])
      BY <1>2, <2>3 DEF PushesTold
    <3> QED BY <1>2, <2>1, <2>2, <2>3, <3>1 DEF PushesTold
  <2>7. StatusHonest'
    <3>1. ma.gen # 0 => GroundsFor(ma.st.phase, ma.st.obs)'
      BY <1>2, <2>1, <2>3, Naturalness, GroundsKept DEF GroundsFor, StatusHonest
    <3>2. ma.gen # 0 => JobsAgree(ma.st.phase)'
      BY <1>2, <2>1, <2>2 DEF StatusHonest, JobsAgree, Live, Exists, Outcome
    <3> QED BY <1>2, <3>1, <3>2 DEF StatusHonest
  <2>8. RunKnows' /\ ObservationHonest' /\ Woken'
    BY <1>2 DEF RunKnows, ObservationHonest, Woken
  <2>9. GoneIsOld'
    <3>1. ma.gen # 0 /\ Made(j) => jobs[j].gen < cMa.gen
      <4>1. ma.gen # 0 => snap.st = ma.st /\ SpecChanged(snap)
        BY <1>2 DEF RunKnows
      <4>2. ma.gen # 0 => ma.st.obs # 0 /\ ma.st.obs < snap.gen /\ snap.gen =< cMa.gen
        BY <1>2, <4>1 DEF SpecChanged, GenInv
      <4> QED BY <4>2, Naturalness DEF JobsOwned
    <3>2. \A i \in JobId : i # j => Live(jobs'[i]) = Live(jobs[i])
      BY <2>1 DEF Live, Exists
    <3> QED BY <1>2, <2>1, <2>3, <3>1, <3>2 DEF GoneIsOld
  <2> QED BY <2>4, <2>5, <2>6, <2>7, <2>8, <2>9
<1> QED BY <1>2, <1>3, <1>4

\* EnsureJob creates a Job only for an artifact whose earlier Jobs are all gone and
\* whose outcome is not known.
LEMMA CreateHistory ==
  ASSUME Watched, ArtifactInv, UpToDate, NEW j \in JobId, NEW r \in Answers,
         CreateJob(j, r)
  PROVE  History'
<1> USE DEF ArtifactInv, History, caches
<1>1. jobs \in [JobId -> Job]
  BY DEF TypeOK, ClusterTypeOK
<1>2. /\ pc = "createJob" /\ pc' \in {"observe", "fail"} /\ ~Made(j)
      /\ UNCHANGED <<ma, pods, caches, queue, pushed, snap>>
      /\ jobs' \in {jobs, [jobs EXCEPT ![j] = BuildJob(snap)]}
  BY DEF CreateJob, local, Made
<1>3. CASE jobs' = jobs
  BY <1>2, <1>3, ProceedStep
<1>4. CASE jobs' = [jobs EXCEPT ![j] = BuildJob(snap)]
  <2>1. jobs'[j] = [uid |-> snap.uid, gen |-> snap.gen, del |-> FALSE, st |-> "new"]
    BY <1>1, <1>4 DEF BuildJob
  <2>2. \A i \in JobId : i # j => jobs'[i] = jobs[i]
    BY <1>1, <1>4
  <2>3. \A i \in JobId : Made(i) => i # j /\ jobs'[i] = jobs[i] /\ Made(i)'
    BY <1>2, <2>2 DEF Made
  <2>4. \A i \in JobId : i # j => Made(i)' = Made(i)
    BY <2>2 DEF Made
  <2>5. snap.uid = 1 /\ snap.gen > 0 /\ ma.uid # 0
    BY <1>2, Naturalness DEF RunKnows, GenInv
  <2>6. ma.gen # 0 => /\ ma.st.phase \notin Terminal /\ ma.st.obs \in {0, snap.gen}
                      /\ snap.gen =< cMa.gen
    BY <1>2, NotTerminalYet DEF GenInv
  <2>7. CreatedOnce'
    BY <1>2, <2>5 DEF CreatedOnce
  <2>8. JobsOwned'
    <3>1. \A i \in JobId : i # j /\ Made(i)' => Made(i) /\ jobs'[i] = jobs[i]
      BY <2>2, <2>4
    <3>2. ma.gen # 0 => snap.gen =< cMa.gen /\ (ma.st.obs # 0 => snap.gen =< ma.st.obs)
      BY <2>6, Naturalness
    <3> QED BY <1>2, <2>1, <2>5, <3>1, <3>2, Naturalness DEF JobsOwned
  <2>9. PushesTold'
    <3>1. \A q \in pushed' : \E i \in JobId : Made(i)' /\ q = RevOf(jobs'[i])
      BY <1>2, <2>3 DEF PushesTold
    <3>2. pods[j] = "none" /\ cPods[j] = "none"
      BY <1>2 DEF PushesTold
    <3>3. jobs'[j].st = "new"
      BY <2>1
    <3> QED BY <1>2, <2>2, <2>3, <2>4, <3>1, <3>2, <3>3 DEF PushesTold
  <2>10. StatusHonest'
    <3>1. ma.gen # 0 => GroundsFor(ma.st.phase, ma.st.obs)'
      BY <1>2, <2>3, Naturalness, GroundsKept DEF GroundsFor, StatusHonest
    <3>2. ma.gen # 0 => JobsAgree(ma.st.phase)'
      BY <1>2, <2>6 DEF JobsAgree
    <3> QED BY <1>2, <3>1, <3>2 DEF StatusHonest
  <2>11. RunKnows' /\ ObservationHonest' /\ Woken'
    BY <1>2 DEF RunKnows, ObservationHonest, Woken
  <2>12. GoneIsOld'
    <3>1. Live(jobs'[j])
      BY <2>1 DEF Live, Exists
    <3> QED BY <1>2, <2>2, <2>4, <3>1 DEF GoneIsOld
  <2> QED BY <2>7, <2>8, <2>9, <2>10, <2>11, <2>12
<1> QED BY <1>2, <1>3, <1>4

\* A merge patch computed from the status as it is makes it the new one.
LEMMA MergeOntoBase ==
  ASSUME NEW base \in Status, NEW new \in Status
  PROVE  Merge(base, new, base) = new
BY DEF Merge, Status

\* A run that ends by writing an honest status.
LEMMA PatchHistory ==
  ASSUME ArtifactInv, pc \notin {"idle", "release"}, ma.gen # 0,
         NEW new \in Status, PatchArtifact(new), new.obs = snap.gen,
         UNCHANGED <<jobs, pods, caches, pushed>>,
         GroundsFor(new.phase, snap.gen), JobsAgree(new.phase),
         ma.st.phase \in Terminal => new.phase = ma.st.phase,
         new.digest \in pushed \cup {NoRev}, (new.digest = NoRev) = (new.ref = NoRev),
         pc' = "idle" \/ (pc' = "release" /\ snap' = snap),
         queue' \/ (pc = "patch" /\ new.phase = obs.phase /\ queue' = queue)
  PROVE  History' /\ ma'.st = new
<1> USE DEF ArtifactInv, History, caches
<1>1. snap.st = ma.st /\ snap.uid = 1 /\ snap.gen # 0
  BY DEF RunKnows
<1>2. ma'.uid = ma.uid /\ ma'.gen = ma.gen /\ ma'.st = new
  BY <1>1, PatchType, MergeOntoBase, Naturalness
<1>3. CreatedOnce'
  BY <1>2 DEF CreatedOnce, Made
<1>4. JobsOwned'
  BY <1>2 DEF JobsOwned, Made
<1>5. PushesTold'
  BY DEF PushesTold, Made, RevOf
<1>6. StatusHonest'
  <2>1. \A g : GroundsFor(new.phase, g)' = GroundsFor(new.phase, g)
    BY DEF GroundsFor, Made
  <2>2. GroundsFor(ma.st.phase, ma.st.obs)'
    BY <1>2, <2>1 DEF GroundsFor
  <2>3. JobsAgree(ma.st.phase)'
    BY <1>2 DEF JobsAgree
  <2> QED BY <1>1, <1>2, <2>2, <2>3 DEF StatusHonest
<1>7. RunKnows' /\ ObservationHonest'
  BY <1>1 DEF RunKnows, ObservationHonest
<1>8. GoneIsOld'
  BY <1>2 DEF GoneIsOld, Made
<1>9. Woken'
  BY <1>2 DEF Woken
<1> QED BY <1>2, <1>3, <1>4, <1>5, <1>6, <1>7, <1>8, <1>9

\* handleReconcileError writes a condition, and the generation.
LEMMA FailedHistory ==
  ASSUME ArtifactInv, NEW r \in Answers, ReconcileFailed(r)
  PROVE  History'
<1> USE DEF ArtifactInv, History
<1>1. /\ pc = "fail" /\ pc' = "idle" /\ queue' = TRUE
      /\ UNCHANGED <<jobs, pods, caches, pushed>>
      /\ ma' = ma \/ (ma.gen # 0 /\ PatchArtifact(NotReady(snap)))
  BY DEF ReconcileFailed, Return
<1>2. CASE ma' = ma
  BY <1>1, <1>2, EndStep
<1>3. CASE ma.gen # 0 /\ PatchArtifact(NotReady(snap))
  <2>1. snap \in Artifact /\ snap.st \in Status
    BY DEF TypeOK, Artifact
  <2>2. NotReady(snap) \in Status
    BY <2>1, NotReadyType
  <2>3. /\ NotReady(snap).obs = snap.gen /\ NotReady(snap).phase = snap.st.phase
        /\ NotReady(snap).digest = snap.st.digest /\ NotReady(snap).ref = snap.st.ref
    BY <2>1 DEF NotReady, Status
  <2>4. snap.st = ma.st
    BY <1>1, <1>3 DEF RunKnows
  <2>5. ma.st.obs =< snap.gen
    BY <1>1, <1>3 DEF GenInv
  <2>6. GroundsFor(ma.st.phase, snap.gen)
    <3>1. GroundsFor(ma.st.phase, ma.st.obs)
      BY <1>3 DEF StatusHonest
    <3>2. \A q \in pushed : q.gen \in Nat
      BY DEF TypeOK, ClusterTypeOK, Rev
    <3> QED BY <2>5, <3>1, <3>2, Naturalness DEF GroundsFor
  <2>7. /\ JobsAgree(ma.st.phase) /\ ma.st.digest \in pushed \cup {NoRev}
        /\ (ma.st.digest = NoRev) = (ma.st.ref = NoRev)
    BY <1>3 DEF StatusHonest
  <2> QED BY <1>1, <1>3, <2>2, <2>3, <2>4, <2>6, <2>7, PatchHistory
<1> QED BY <1>1, <1>2, <1>3

\* updateStatus writes what it observed.
LEMMA PatchStatusHistory ==
  ASSUME ArtifactInv, NEW r \in Answers, PatchStatus(r)
  PROVE  History'
<1> USE DEF ArtifactInv, History
<1>1. /\ pc = "patch" /\ ma.gen # 0
      /\ UNCHANGED <<jobs, pods, caches, pushed>>
      /\ ma' = ma \/ PatchArtifact(NewStatus(obs, found))
      /\ \/ r = "ok" /\ pc' = "release" /\ UNCHANGED <<queue, snap, obs>>
            /\ PatchArtifact(NewStatus(obs, found))
         \/ pc' = "idle" /\ queue' = TRUE
  BY DEF PatchStatus, Return, local, Applied
<1>2. CASE PatchArtifact(NewStatus(obs, found))
  <2> DEFINE new == NewStatus(obs, found)
  <2>1. new \in Status
    BY NewStatusType DEF TypeOK
  <2>2. new.obs = snap.gen /\ new.phase = obs.phase
    BY DEF NewStatus
  <2>3. snap.st = ma.st /\ snap.uid = 1
    BY <1>1 DEF RunKnows
  <2>4. /\ GroundsFor(obs.phase, snap.gen) /\ JobsAgree(obs.phase)
        /\ ma.st.phase \in Terminal => obs.phase = ma.st.phase
        /\ obs.digest \in pushed \cup {NoRev}
    BY <1>1 DEF ObservationHonest
  <2>5. new.digest \in pushed \cup {NoRev} /\ (new.digest = NoRev) = (new.ref = NoRev)
    <3>1. CASE obs.digest = NoRev
      BY <1>1, <2>3, <3>1 DEF NewStatus, StatusHonest
    <3>2. CASE obs.digest # NoRev
      <4>1. new.digest = obs.digest /\ new.ref = OCIReference(snap)
        BY <3>2 DEF NewStatus
      <4>2. OCIReference(snap) # NoRev
        BY <2>3 DEF OCIReference, NoRev
      <4> QED BY <2>4, <3>2, <4>1, <4>2
    <3> QED BY <3>1, <3>2
  <2>6. pc' = "idle" \/ (pc' = "release" /\ snap' = snap)
    BY <1>1
  <2>7. queue' \/ queue' = queue
    BY <1>1
  <2>8. GroundsFor(new.phase, snap.gen) /\ JobsAgree(new.phase)
    BY <2>2, <2>4
  <2>9. queue' \/ (pc = "patch" /\ new.phase = obs.phase /\ queue' = queue)
    BY <1>1, <2>2, <2>7
  <2>10. /\ PatchArtifact(new) /\ ma.gen # 0 /\ pc \notin {"idle", "release"}
         /\ UNCHANGED <<jobs, pods, caches, pushed>>
         /\ ma.st.phase \in Terminal => new.phase = ma.st.phase
    BY <1>1, <1>2, <2>2, <2>4
  <2> HIDE DEF new, ArtifactInv, History
  <2> QED BY <2>1, <2>2, <2>5, <2>6, <2>8, <2>9, <2>10, PatchHistory
<1>3. CASE ma' = ma /\ pc' = "idle" /\ queue' = TRUE
  BY <1>1, <1>3, EndStep
<1> QED BY <1>1, <1>2, <1>3

\* The termination message of a pipeline that has succeeded names what it pushed.
LEMMA MessageTold ==
  ASSUME NEW m
  PROVE  ExtractTerminationMessage(<< [msg |-> m, at |-> 1] >>) \in {NoRev, m}
<1> DEFINE terms == << [msg |-> m, at |-> 1] >>
<1>1. DOMAIN terms = {1} /\ terms[1].msg = m
  OBVIOUS
<1>2. LatestTerminations(terms) \subseteq {1}
  BY <1>1 DEF LatestTerminations
<1> HIDE DEF terms
<1>3. CASE LatestTerminations(terms) = {}
  BY <1>3 DEF ExtractTerminationMessage, terms
<1>4. CASE LatestTerminations(terms) # {}
  <2>1. (CHOOSE i \in LatestTerminations(terms) : TRUE) = 1
    BY <1>2, <1>4
  <2>2. ExtractTerminationMessage(terms) = TrimSpace(m)
    BY <1>1, <1>4, <2>1 DEF ExtractTerminationMessage
  <2> QED BY <2>2 DEF TrimSpace, terms
<1> QED BY <1>3, <1>4

\* The phase of a Job that exists is that of its pipeline, and only that of one
\* that has succeeded comes with a digest.
LEMMA ObservedOutcome ==
  ASSUME NEW job \in Job, Exists(job), NEW terms, NEW phase, NEW digest, NEW o,
         o = ObserveJobStatus(JobStatusOf(job), terms, phase, digest)
  PROVE  /\ job.st = "succeeded" => o.phase = "Succeeded" /\ o.digest = ExtractTerminationMessage(terms)
         /\ job.st = "failed" => o.phase = "Failed" /\ o.digest = NoRev
         /\ job.st = "active" => o.phase = "Running" /\ o.digest = NoRev
         /\ job.st = "new" => o.phase = "Pending" /\ o.digest = NoRev
         /\ job.st \in {"succeeded", "failed", "active", "new"}
<1> USE DEF IsJobFailed, Observation
<1>1. CASE job.st = "succeeded"
  <2>1. JobStatusOf(job) = [exists |-> TRUE, failedCond |-> FALSE, succeeded |-> 1,
                            failed |-> 0, active |-> 0]
    BY <1>1 DEF JobStatusOf
  <2> QED BY <1>1, <2>1 DEF ObserveJobStatus
<1>2. CASE job.st = "failed"
  <2>1. JobStatusOf(job) = [exists |-> TRUE, failedCond |-> TRUE, succeeded |-> 0,
                            failed |-> 1, active |-> 0]
    BY <1>2 DEF JobStatusOf
  <2> QED BY <1>2, <2>1 DEF ObserveJobStatus
<1>3. CASE job.st = "active"
  <2>1. JobStatusOf(job) = [exists |-> TRUE, failedCond |-> FALSE, succeeded |-> 0,
                            failed |-> 0, active |-> 1]
    BY <1>3 DEF JobStatusOf
  <2> QED BY <1>3, <2>1 DEF ObserveJobStatus
<1>4. CASE job.st = "new"
  <2>1. JobStatusOf(job) = [exists |-> TRUE, failedCond |-> FALSE, succeeded |-> 0,
                            failed |-> 0, active |-> 0]
    BY <1>4 DEF JobStatusOf
  <2> QED BY <1>4, <2>1 DEF ObserveJobStatus
<1>5. job.st \in {"succeeded", "failed", "active", "new"}
  BY DEF Exists, Job
<1> QED BY <1>1, <1>2, <1>3, <1>4, <1>5

\* What updateStatus observes is so: it looks at the only live Job there is, or at
\* none if there is none.
LEMMA ObserveHistory ==
  ASSUME Watched, ArtifactInv, UpToDate, NEW j \in JobId \cup {0}, ObserveStatus(j)
  PROVE  History'
<1> USE DEF ArtifactInv, History, caches
<1>1. cJobs = jobs /\ jobs \in [JobId -> Job]
  BY DEF UpToDate, Watched, TypeOK, ClusterTypeOK
<1>2. /\ pc = "observe" /\ pc' \in {"patch", "release"}
      /\ UNCHANGED <<ma, jobs, pods, caches, queue, pushed, snap>>
      /\ obs' = ObservationOf(j)
      /\ pc' = "release" => NewStatus(obs', j) = snap.st
      /\ IF OwnedJobs = {} THEN j = 0 ELSE j \in OwnedJobs
  BY DEF ObserveStatus, clusterVars, api
<1>3. snap.uid = 1 /\ (ma.gen # 0 => snap.st = ma.st)
  BY <1>2 DEF RunKnows
<1>4. OwnedJobs = {i \in JobId : Live(jobs[i])}
  BY <1>1, <1>3 DEF OwnedJobs, IsOwnedBy, JobsOwned, Made, Live, Exists
<1>5. j \in JobId => j # 0
  BY BoundsAssumption DEF JobId
<1>6. j = 0 \/ (j \in JobId /\ Live(jobs[j]))
  BY <1>2, <1>4
<1>7. \A i \in JobId : Live(jobs[i]) => i = j
  BY <1>2, <1>4, <1>5 DEF OneJobInv, AtMostOneLiveJob, JobsOwned, Made, Live, Exists
<1>8. ma.gen # 0 =>
        /\ obs'.phase = "Succeeded" => \E r \in pushed : r.gen =< snap.gen
        /\ obs'.phase \in {"Failed", "Running"} => \E i \in JobId : Made(i) /\ jobs[i].gen =< snap.gen
        /\ obs'.phase \in Terminal => \A i \in JobId : Live(jobs[i]) => Outcome(jobs[i]) = obs'.phase
        /\ ma.st.phase \in Terminal => obs'.phase = ma.st.phase
        /\ obs'.digest \in pushed \cup {NoRev}
        /\ \A i \in JobId : Live(jobs[i]) /\ Outcome(jobs[i]) # "none" => obs'.phase \in Terminal
  <2> SUFFICES ASSUME ma.gen # 0
               PROVE  /\ obs'.phase = "Succeeded" => \E r \in pushed : r.gen =< snap.gen
                      /\ obs'.phase \in {"Failed", "Running"} => \E i \in JobId : Made(i) /\ jobs[i].gen =< snap.gen
                      /\ obs'.phase \in Terminal => \A i \in JobId : Live(jobs[i]) => Outcome(jobs[i]) = obs'.phase
                      /\ ma.st.phase \in Terminal => obs'.phase = ma.st.phase
                      /\ obs'.digest \in pushed \cup {NoRev}
                      /\ \A i \in JobId : Live(jobs[i]) /\ Outcome(jobs[i]) # "none" => obs'.phase \in Terminal
    OBVIOUS
  <2>1. /\ GroundsFor(ma.st.phase, ma.st.obs) /\ JobsAgree(ma.st.phase)
        /\ ma.st.digest \in pushed \cup {NoRev}
    BY DEF StatusHonest
  <2>2. CASE j = 0
    <3>1. obs' = ObserveNoJob(ma.st.phase, ma.st.digest)
      BY <1>2, <1>3, <2>2 DEF ObservationOf, ObserveJobStatus, NoJobStatus
    <3>2. \A i \in JobId : ~Live(jobs[i])
      BY <1>5, <1>7, <2>2
    <3>3. CASE ma.st.phase \in Terminal
      <4>1. obs'.phase = ma.st.phase /\ obs'.digest = ma.st.digest
        BY <3>1, <3>3 DEF ObserveNoJob, Observation
      <4>2. ma.st.obs =< snap.gen /\ \A r \in pushed : r.gen \in Nat
        BY <1>2 DEF GenInv, TypeOK, ClusterTypeOK, Rev
      <4> QED BY <2>1, <3>2, <3>3, <4>1, <4>2, Naturalness DEF GroundsFor
    <3>4. CASE ma.st.phase \notin Terminal
      <4>1. obs'.phase = "Pending" /\ obs'.digest = NoRev
        BY <3>1, <3>4 DEF ObserveNoJob, Observation
      <4> QED BY <3>2, <3>4, <4>1 DEF Terminal
    <3> QED BY <3>3, <3>4
  <2>3. CASE j # 0
    <3>1. j \in JobId /\ Live(jobs[j]) /\ Exists(jobs[j]) /\ Made(j)
      BY <1>6, <2>3 DEF Live, Exists, Made
    <3>2. obs' = ObserveJobStatus(JobStatusOf(jobs[j]), TerminationsOf(j), snap.st.phase, snap.st.digest)
      BY <1>1, <1>2, <2>3 DEF ObservationOf
    <3>3. /\ jobs[j].st = "succeeded" =>
               obs'.phase = "Succeeded" /\ obs'.digest = ExtractTerminationMessage(TerminationsOf(j))
          /\ jobs[j].st = "failed" => obs'.phase = "Failed" /\ obs'.digest = NoRev
          /\ jobs[j].st = "active" => obs'.phase = "Running" /\ obs'.digest = NoRev
          /\ jobs[j].st = "new" => obs'.phase = "Pending" /\ obs'.digest = NoRev
          /\ jobs[j].st \in {"succeeded", "failed", "active", "new"}
      BY <3>1, <3>2, ObservedOutcome, Naturalness
    <3>4. jobs[j].gen =< snap.gen
      BY <1>2, <3>1 DEF JobsOwned
    <3>5. RevOf(jobs[j]).gen = jobs[j].gen
      BY DEF RevOf
    <3>6. jobs[j].st = "succeeded" => RevOf(jobs[j]) \in pushed
      BY <3>1 DEF PushesTold
    <3>7. ExtractTerminationMessage(TerminationsOf(j)) \in pushed \cup {NoRev}
      <4>1. CASE cPods[j] = "succeeded"
        <5>1. RevOf(jobs[j]) \in pushed
          BY <3>1, <4>1 DEF PushesTold
        <5>2. TerminationsOf(j) = << [msg |-> RevOf(jobs[j]), at |-> 1] >>
          BY <1>1, <3>1, <4>1 DEF TerminationsOf, RevOf
        <5> QED BY <5>1, <5>2, MessageTold
      <4>2. CASE cPods[j] # "succeeded"
        <5>1. TerminationsOf(j) = << >>
          BY <4>2 DEF TerminationsOf
        <5>2. LatestTerminations(<< >>) = {}
          BY DEF LatestTerminations
        <5> QED BY <5>1, <5>2 DEF ExtractTerminationMessage
      <4> QED BY <4>1, <4>2
    <3>8. Outcome(jobs[j]) # "none" => obs'.phase = Outcome(jobs[j]) /\ obs'.phase \in Terminal
      BY <3>3 DEF Outcome, Terminal
    <3>9. obs'.phase \in Terminal => obs'.phase = Outcome(jobs[j])
      BY <3>3 DEF Outcome, Terminal
    <3>10. ma.st.phase \in Terminal => Outcome(jobs[j]) = ma.st.phase /\ ma.st.phase # "none"
      BY <2>1, <3>1 DEF JobsAgree, Terminal
    <3>11. obs'.phase = "Succeeded" => \E r \in pushed : r.gen =< snap.gen
      BY <3>3, <3>4, <3>5, <3>6
    <3>12. obs'.digest \in pushed \cup {NoRev}
      BY <3>3, <3>7
    <3> QED BY <1>7, <3>1, <3>4, <3>8, <3>9, <3>10, <3>11, <3>12
  <2> QED BY <2>2, <2>3
<1>9. ObservationHonest'
  <2>1. ma.gen # 0 => GroundsFor(obs.phase, snap.gen)' /\ JobsAgree(obs.phase)'
    BY <1>2, <1>8 DEF GroundsFor, JobsAgree, Made
  <2> QED BY <1>2, <1>8, <2>1 DEF ObservationHonest
<1>10. Woken'
  <2>1. pc' = "release" => obs'.phase = snap.st.phase
    BY <1>2 DEF NewStatus
  <2> QED BY <1>2, <1>3, <1>8, <2>1 DEF Woken
<1>11. StatusHonest' /\ CreatedOnce'
  BY <1>2, HonestyKept
<1>12. JobsOwned' /\ PushesTold' /\ RunKnows'
  <2>1. JobsOwned'
    BY <1>2 DEF JobsOwned, Made
  <2>2. PushesTold'
    BY <1>2 DEF PushesTold, Made, RevOf
  <2>3. RunKnows'
    BY <1>2 DEF RunKnows
  <2> QED BY <2>1, <2>2, <2>3
<1>13. GoneIsOld'
  BY <1>2 DEF GoneIsOld, Made
<1> QED BY <1>9, <1>10, <1>11, <1>12, <1>13

\* Every step of Reconcile keeps the history straight.
LEMMA ReconcileHistory ==
  ASSUME Watched, ArtifactInv, UpToDate, Reconcile
  PROVE  History'
<1> USE DEF api, clusterVars, local
<1>1. CASE FetchArtifact
  BY <1>1, FetchHistory
<1>2. CASE ListStaleJobs
  <2>1. /\ pc = "cleanup" /\ pc' = "deleteJobs"
        /\ UNCHANGED <<ma, jobs, pods, caches, queue, pushed, snap>>
    BY <1>2 DEF ListStaleJobs
  <2> QED BY <2>1, ProceedStep
<1>3. ASSUME NEW j \in JobId, NEW r \in Answers, DeleteStaleJob(j, r) \/ CreateJob(j, r)
      PROVE  History'
  BY <1>3, CleanupHistory, CreateHistory
<1>4. ASSUME NEW r \in Answers, DeleteStaleWorkspace(r) \/ EnsurePVC(r)
      PROVE  History'
  <2>1. /\ pc \in {"deleteJobs", "ensurePVC"} /\ pc' \in {"observe", "fail", "findJob"}
        /\ pc' = "findJob" => pc = "ensurePVC"
        /\ UNCHANGED <<ma, jobs, pods, caches, queue, pushed, snap>>
    BY <1>4 DEF DeleteStaleWorkspace, EnsurePVC
  <2> QED BY <2>1, ProceedStep
<1>5. ASSUME NEW r \in Answers, ReconcileFailed(r) \/ PatchStatus(r)
      PROVE  History'
  BY <1>5, FailedHistory, PatchStatusHistory
<1>6. ASSUME NEW r \in Answers, ReleaseWorkspace(r)
      PROVE  History'
  <2>1. /\ pc = "release" /\ pc' = "idle"
        /\ UNCHANGED <<ma, jobs, pods, caches, pushed>>
    BY <1>6 DEF ReleaseWorkspace, Return
  <2>2. queue => queue'
    BY <1>6 DEF ReleaseWorkspace, Return
  <2> QED BY <2>1, <2>2, EndStep
<1>7. CASE FindJob
  <2>1. /\ pc = "findJob" /\ pc' \in {"createJob", "observe"}
        /\ UNCHANGED <<ma, jobs, pods, caches, queue, pushed, snap>>
    BY <1>7 DEF FindJob
  <2> QED BY <2>1, ProceedStep
<1>8. ASSUME NEW j \in JobId \cup {0}, ObserveStatus(j)
      PROVE  History'
  BY <1>8, ObserveHistory
<1>9. CASE PatchStatusNotFound
  <2>1. pc' = "idle" /\ queue' = TRUE /\ UNCHANGED <<ma, jobs, pods, caches, pushed>>
    BY <1>9 DEF PatchStatusNotFound, Return
  <2> QED BY <2>1, EndStep
<1> QED BY <1>1, <1>2, <1>3, <1>4, <1>5, <1>6, <1>7, <1>8, <1>9 DEF Reconcile

\* After a restart the queue is filled again and nothing is under way.
LEMMA CrashHistory ==
  ASSUME Watched, ArtifactInv, UpToDate, Crash
  PROVE  History'
<1> USE DEF ArtifactInv, History
<1>1. cMa = ma /\ cJobs = jobs
  BY DEF UpToDate, Watched
<1>2. /\ UNCHANGED <<ma, jobs, pods, pushed>> /\ pc' = "idle"
      /\ cMa' = cMa /\ cJobs' = cJobs /\ cPods' = pods
      /\ ma.gen # 0 => queue'
  BY <1>1 DEF Crash, api
<1>3. StatusHonest' /\ CreatedOnce'
  BY <1>2, HonestyKept
<1>4. JobsOwned' /\ PushesTold'
  <2>1. JobsOwned'
    BY <1>2 DEF JobsOwned, Made
  <2>2. PushesTold'
    BY <1>2 DEF PushesTold, Made, RevOf
  <2> QED BY <2>1, <2>2
<1>5. RunKnows' /\ ObservationHonest' /\ Woken'
  BY <1>2 DEF RunKnows, ObservationHonest, Woken
<1>6. GoneIsOld'
  BY <1>2 DEF GoneIsOld, Made
<1> QED BY <1>3, <1>4, <1>5, <1>6

\* So does every step of the system.
LEMMA HistoryStep ==
  ASSUME Watched, ArtifactInv, [Next]_vars
  PROVE  History'
<1>1. CASE Deliver
  <2>1. UNCHANGED <<ma, jobs, pods, pushed, reconcilerVars>>
    BY <1>1 DEF Deliver, Informers, SyncArtifact, SyncJobs, SyncPods, SyncPvc, api
  <2>2. cMa' \in {cMa, ma} /\ cPods' \in {cPods, pods}
    BY <1>1 DEF Deliver, Informers, SyncArtifact, SyncJobs, SyncPods, SyncPvc
  <2>3. (queue => queue') /\ (cJobs' = cJobs \/ queue')
    <3>1. CASE SyncArtifact
      BY <3>1 DEF SyncArtifact
    <3>2. CASE SyncJobs
      BY <3>2 DEF SyncJobs
    <3>3. CASE SyncPods \/ SyncPvc
      BY <3>3 DEF SyncPods, SyncPvc
    <3> QED BY <1>1, <3>1, <3>2, <3>3 DEF Deliver, Informers
  <2> QED BY <2>1, <2>2, <2>3, QuietStep
<1>2. CASE UpToDate /\ Reconcile
  BY <1>2, ReconcileHistory
<1>3. CASE UpToDate /\ Environment
  <2>1. UNCHANGED reconcilerVars
    BY <1>3 DEF Environment
  <2>2. CASE Resync \/ Storage
    <3>1. UNCHANGED <<ma, jobs, pods, pushed, cMa, cJobs, cPods>>
      BY <2>2 DEF Resync, Storage, CollectPvc, ReleasePvc, api, caches
    <3>2. queue' = TRUE \/ queue' = queue
      BY <2>2 DEF Resync, Storage, CollectPvc, ReleasePvc
    <3>3. (queue => queue') /\ UNCHANGED <<ma, jobs, pods, pushed, reconcilerVars>>
      BY <2>1, <3>1, <3>2
    <3>4. cMa' \in {cMa, ma} /\ cPods' \in {cPods, pods} /\ cJobs' = cJobs
      BY <3>1
    <3> QED BY <3>3, <3>4, QuietStep
  <2>3. CASE User
    BY <1>3, <2>1, <2>3, UserHistory
  <2>4. CASE \E j \in JobId : Workload(j) \/ Collector(j)
    BY <1>3, <2>1, <2>4, WorkloadHistory, CollectorHistory
  <2> QED BY <1>3, <2>2, <2>3, <2>4 DEF Environment, ClusterStep
<1>4. CASE UpToDate /\ JobExpires
  BY <1>4, ExpiryHistory
<1>5. CASE UpToDate /\ Crash
  BY <1>5, CrashHistory
<1>6. CASE UNCHANGED vars
  <2>1. UNCHANGED <<ma, jobs, pods, pushed, cMa, cJobs, cPods, queue, reconcilerVars>>
    BY <1>6 DEF vars, clusterVars, api, caches
  <2> QED BY <2>1, QuietStep
<1> QED BY <1>1, <1>2, <1>3, <1>4, <1>5, <1>6 DEF Next

\* It begins so.
LEMMA HistoryBegins ==
  ASSUME Init
  PROVE  History
<1> USE DEF Init, ClusterInit
<1>1. \A j \in JobId : ~Made(j) /\ pods[j] = "none" /\ cPods[j] = "none" /\ jobs[j].st = "absent"
  BY DEF Made, NoJob
<1>2. ma.uid = 0 /\ ma.gen = 0 /\ ma.st = NoStatus /\ pushed = {} /\ pc = "idle"
  BY DEF NoArtifact
<1>3. CreatedOnce /\ JobsOwned
  BY <1>1, <1>2 DEF CreatedOnce, JobsOwned
<1>4. PushesTold
  BY <1>1, <1>2 DEF PushesTold
<1>5. StatusHonest /\ RunKnows /\ ObservationHonest /\ GoneIsOld /\ Woken
  BY <1>2 DEF StatusHonest, RunKnows, ObservationHonest, GoneIsOld, Woken
<1> QED BY <1>3, <1>4, <1>5 DEF History

\* What the status of an artifact, its Jobs, its pushed revisions and the run of
\* Reconcile under way have to do with each other, always.
THEOREM HistoryKept ==
  ASSUME Watched
  PROVE  Spec => []ArtifactInv
<1>1. Init => OneJobInv /\ GenInv /\ History
  <2>1. Init => OneJobInv
    BY DEF Init, ClusterInit, OneJobInv, AtMostOneLiveJob, NoJob, Live, Exists
  <2>2. Init => GenInv
    BY DEF Init, ClusterInit, GenInv, NoArtifact
  <2> QED BY <2>1, <2>2, HistoryBegins
<1>2. TypeOK /\ TypeOK' /\ OneJobInv /\ GenInv /\ History /\ [Next]_vars
        => OneJobInv' /\ GenInv' /\ History'
  BY OneJobStep, GenStep, HistoryStep DEF ArtifactInv, Watched
<1> QED BY <1>1, <1>2, TypeCorrect, PTL DEF Spec, ArtifactInv

(***************************************************************************)
(* What a step may do to the artifact and its Jobs                         *)
(***************************************************************************)
\* The steps that change the artifact, a Job or the registry.
LEMMA StepKinds ==
  ASSUME TypeOK, [Next]_vars
  PROVE  \/ UNCHANGED <<ma, jobs, pushed>>
         \/ /\ UpToDate
            /\ \/ User
               \/ JobExpires
               \/ \E j \in JobId : Workload(j) \/ Collector(j)
               \/ \E j \in JobId, r \in Answers : DeleteStaleJob(j, r) \/ CreateJob(j, r)
               \/ \E r \in Answers : ReconcileFailed(r) \/ PatchStatus(r)
<1> USE DEF api, clusterVars
<1>1. CASE Deliver
  BY <1>1 DEF Deliver, Informers, SyncArtifact, SyncJobs, SyncPods, SyncPvc
<1>2. CASE UpToDate /\ Reconcile
  <2>1. CASE FetchArtifact \/ ListStaleJobs \/ FindJob \/ PatchStatusNotFound
    BY <2>1 DEF FetchArtifact, ListStaleJobs, FindJob, PatchStatusNotFound
  <2>2. ASSUME NEW r \in Answers, DeleteStaleWorkspace(r) \/ EnsurePVC(r) \/ ReleaseWorkspace(r)
        PROVE  UNCHANGED <<ma, jobs, pushed>>
    BY <2>2 DEF DeleteStaleWorkspace, EnsurePVC, ReleaseWorkspace
  <2>3. ASSUME NEW j \in JobId \cup {0}, ObserveStatus(j)
        PROVE  UNCHANGED <<ma, jobs, pushed>>
    BY <2>3 DEF ObserveStatus
  <2> QED BY <1>2, <2>1, <2>2, <2>3 DEF Reconcile
<1>3. CASE UpToDate /\ Environment
  <2>1. CASE Resync \/ Storage
    BY <2>1 DEF Resync, Storage, CollectPvc, ReleasePvc
  <2> QED BY <1>3, <2>1 DEF Environment, ClusterStep
<1>4. CASE Crash
  BY <1>4 DEF Crash
<1>5. CASE UNCHANGED vars
  BY <1>5 DEF vars
<1> QED BY <1>1, <1>2, <1>3, <1>4, <1>5 DEF Next

\* What a patch may change: not an outcome, and a digest only for another.
LEMMA PatchWrites ==
  ASSUME ArtifactInv, NEW r \in Answers, ReconcileFailed(r) \/ PatchStatus(r)
  PROVE  /\ UNCHANGED <<jobs, pods, pushed>>
         /\ \/ ma' = ma
            \/ /\ ma.gen # 0 /\ ma'.gen = ma.gen /\ ma'.uid = ma.uid
               /\ ma'.st.obs = snap.gen
               /\ ma.st.phase \in Terminal => ma'.st.phase = ma.st.phase
               /\ ma'.st.digest = NoRev => ma.st.digest = NoRev
<1> USE DEF ArtifactInv, History
<1>1. CASE ReconcileFailed(r)
  <2>1. /\ pc = "fail" /\ UNCHANGED <<jobs, pods, pushed>>
        /\ ma' = ma \/ (ma.gen # 0 /\ PatchArtifact(NotReady(snap)))
    BY <1>1 DEF ReconcileFailed
  <2>2. CASE ma.gen # 0 /\ PatchArtifact(NotReady(snap))
    <3>1. snap \in Artifact /\ snap.st \in Status /\ NotReady(snap) \in Status
      BY NotReadyType DEF TypeOK, Artifact
    <3>2. snap.st = ma.st
      BY <2>1, <2>2 DEF RunKnows
    <3>3. /\ NotReady(snap).obs = snap.gen /\ NotReady(snap).phase = snap.st.phase
          /\ NotReady(snap).digest = snap.st.digest
      BY <3>1 DEF NotReady, Status
    <3>4. ma'.uid = ma.uid /\ ma'.gen = ma.gen /\ ma'.st = NotReady(snap)
      BY <2>2, <3>1, <3>2, PatchType, MergeOntoBase
    <3> QED BY <2>1, <2>2, <3>2, <3>3, <3>4
  <2> QED BY <2>1, <2>2
<1>2. CASE PatchStatus(r)
  <2>1. /\ pc = "patch" /\ ma.gen # 0 /\ UNCHANGED <<jobs, pods, pushed>>
        /\ ma' = ma \/ PatchArtifact(NewStatus(obs, found))
    BY <1>2 DEF PatchStatus
  <2>2. CASE PatchArtifact(NewStatus(obs, found))
    <3>1. NewStatus(obs, found) \in Status
      BY NewStatusType DEF TypeOK
    <3>2. snap.st = ma.st
      BY <2>1 DEF RunKnows
    <3>3. ma.st.phase \in Terminal => obs.phase = ma.st.phase
      BY <2>1 DEF ObservationHonest
    <3>4. /\ NewStatus(obs, found).obs = snap.gen /\ NewStatus(obs, found).phase = obs.phase
          /\ NewStatus(obs, found).digest = IF obs.digest = NoRev THEN snap.st.digest ELSE obs.digest
      BY DEF NewStatus
    <3>5. ma'.uid = ma.uid /\ ma'.gen = ma.gen /\ ma'.st = NewStatus(obs, found)
      BY <2>2, <3>1, <3>2, PatchType, MergeOntoBase, Naturalness
    <3> QED BY <2>1, <3>2, <3>3, <3>4, <3>5
  <2> QED BY <2>1, <2>2
<1> QED BY <1>1, <1>2

\* A run that is about to create a Job does so for a revision that was not pushed.
LEMMA RevisionIsFresh ==
  ASSUME ArtifactInv, pc = "createJob", ma.gen # 0
  PROVE  RevOf(snap) \notin pushed
<1> USE DEF ArtifactInv, History
<1>1. ma.st.phase \notin Terminal
  BY NotTerminalYet
<1>2. \A j \in JobId : Made(j) => ~Live(jobs[j])
  BY DEF OneJobInv, NoRival, JobsOwned, RunKnows
<1>3. \A j \in JobId : Made(j) => jobs[j].gen < snap.gen
  BY <1>1, <1>2 DEF GoneIsOld
<1>4. \A j \in JobId : Made(j) => RevOf(jobs[j]).gen # RevOf(snap).gen
  BY <1>3, Naturalness DEF RevOf
<1> QED BY <1>4 DEF PushesTold

\* The outcome of a generation, once recorded, stays, even when its Job is removed
\* (status.go:41-42), until the spec changes.
THEOREM OutcomeStays ==
  ASSUME Watched
  PROVE  Spec => TerminalIsStable
<1> DEFINE Stays == Finished(ma) /\ ma'.gen = ma.gen /\ ma'.uid = ma.uid
                      => ma'.st.phase = ma.st.phase
<1>1. ArtifactInv /\ [Next]_vars => Stays
  <2> SUFFICES ASSUME ArtifactInv, [Next]_vars, Finished(ma), ma'.gen = ma.gen
               PROVE  ma'.st.phase = ma.st.phase
    OBVIOUS
  <2>1. CASE ma' = ma
    BY <2>1
  <2>2. CASE User
    <3>1. CASE UserCreate
      BY <2>2, <3>1 DEF UserCreate
    <3>2. CASE UserEdit
      <4>1. ma'.gen = ma.gen + 1
        BY <3>2 DEF UserEdit, ArtifactInv, TypeOK, ClusterTypeOK, Artifact
      <4> QED BY <4>1, Naturalness DEF ArtifactInv
    <3>3. CASE UserDelete
      <4>1. ma'.gen = 0 /\ ma.gen # 0
        BY <3>3 DEF UserDelete, ArtifactInv, TypeOK, ClusterTypeOK, Artifact
      <4> QED BY <4>1
    <3> QED BY <2>2, <3>1, <3>2, <3>3 DEF User
  <2>3. ASSUME NEW r \in Answers, ReconcileFailed(r) \/ PatchStatus(r)
        PROVE  ma'.st.phase = ma.st.phase
    BY <2>3, PatchWrites DEF Finished
  <2>4. CASE JobExpires \/ (\E j \in JobId : Workload(j) \/ Collector(j))
    BY <2>1, <2>4 DEF JobExpires, TTLExpires, Workload, JobStarts, PodStarts, PodPushes,
       PodSucceeds, PodFails, JobFinishes, Collector, CollectJob, ReapJob, ReapPod
  <2>5. CASE \E j \in JobId, r \in Answers : DeleteStaleJob(j, r) \/ CreateJob(j, r)
    BY <2>1, <2>5 DEF DeleteStaleJob, CreateJob
  <2> QED BY <2>1, <2>2, <2>3, <2>4, <2>5, StepKinds DEF ArtifactInv
<1> QED BY <1>1, HistoryKept, PTL DEF Spec, TerminalIsStable

\* While the artifact exists, the pipeline of a revision that was pushed is not
\* started again ("Idempotent", modelartifact_controller.go:106-110).
THEOREM PushedOnce ==
  ASSUME Watched
  PROVE  Spec => NoPipelineAfterPush
<1> DEFINE Fresh == \A j \in JobId :
              jobs[j].st = "absent" /\ jobs'[j].st = "new" /\ Existing(jobs'[j].uid)
                => [uid |-> jobs'[j].uid, gen |-> jobs'[j].gen] \notin pushed
<1>1. ArtifactInv /\ [Next]_vars => Fresh
  <2> SUFFICES ASSUME ArtifactInv, [Next]_vars, NEW i \in JobId,
                      jobs[i].st = "absent", jobs'[i].st = "new", ma.gen # 0
               PROVE  [uid |-> jobs'[i].uid, gen |-> jobs'[i].gen] \notin pushed
    BY DEF Existing
  <2>1. jobs' # jobs
    OBVIOUS
  <2>2. jobs \in [JobId -> Job]
    BY DEF ArtifactInv, TypeOK, ClusterTypeOK
  <2>3. ASSUME NEW j \in JobId, Workload(j) \/ Collector(j) \/ TTLExpires(j)
        PROVE  FALSE
    <3>1. PICK s \in {"active", pods[j], "gone", jobs[j].st} :
            /\ jobs'[j].st = s
            /\ jobs[j].st = "absent" => s # "new"
            /\ \A k \in JobId : k # j => jobs'[k] = jobs[k]
      BY <2>1, <2>2, <2>3 DEF Workload, JobStarts, PodStarts, PodPushes, PodSucceeds,
         PodFails, JobFinishes, Collector, CollectJob, ReapJob, ReapPod, TTLExpires, Exists, Job
    <3> QED BY <3>1
  <2>4. ASSUME NEW j \in JobId, NEW r \in Answers, DeleteStaleJob(j, r)
        PROVE  FALSE
    BY <2>1, <2>2, <2>4 DEF DeleteStaleJob, Exists, Job
  <2>5. ASSUME NEW j \in JobId, NEW r \in Answers, CreateJob(j, r)
        PROVE  RevOf(jobs'[i]) \notin pushed
    <3>1. pc = "createJob" /\ jobs' = [jobs EXCEPT ![j] = BuildJob(snap)]
      BY <2>1, <2>5 DEF CreateJob
    <3>2. jobs'[i] = BuildJob(snap)
      BY <2>2, <3>1
    <3>3. RevOf(jobs'[i]) = RevOf(snap)
      BY <3>2 DEF BuildJob, RevOf
    <3> QED BY <3>1, <3>3, RevisionIsFresh
  <2>6. CASE User
    BY <2>1, <2>6 DEF User, UserCreate, UserEdit, UserDelete
  <2>7. ASSUME NEW r \in Answers, ReconcileFailed(r) \/ PatchStatus(r)
        PROVE  FALSE
    BY <2>1, <2>7, PatchWrites
  <2> QED BY <2>1, <2>3, <2>4, <2>5, <2>6, <2>7, StepKinds DEF ArtifactInv, JobExpires, RevOf
<1> QED BY <1>1, HistoryKept, PTL DEF Spec, NoPipelineAfterPush

(***************************************************************************)
(* Stale Jobs are cleaned up before a generation is recorded.  While no    *)
(* call has failed and nothing was cut short, a live Job is of the         *)
(* generation the status has observed; one that is not observed yet is of  *)
(* the generation of the run that created it and is about to record it;    *)
(* and CleanupStaleJobs has listed every one.                              *)
(***************************************************************************)
Clean ==
  errs = 0 /\ crashes = 0 /\ ma.gen # 0 =>
    /\ pc # "fail"
    /\ \A j \in JobId : Live(jobs[j]) =>
         /\ ma.st.obs # 0 => jobs[j].gen = ma.st.obs
         /\ ma.st.obs = 0 => pc \in {"observe", "patch"}
         /\ pc = "deleteJobs" => j \in todo
         /\ pc \in {"observe", "patch"} => jobs[j].gen = snap.gen

\* Steps of the cluster bring no Job to life.
LEMMA CleanCluster ==
  ASSUME Watched, ArtifactInv, Clean, UNCHANGED reconcilerVars,
         ClusterStep \/ Informers \/ (\E j \in JobId : TTLExpires(j))
  PROVE  Clean'
<1> USE DEF reconcilerVars, local
<1>1. \A j \in JobId : Live(jobs'[j]) => Live(jobs[j]) /\ jobs'[j].gen = jobs[j].gen
  <2> SUFFICES ASSUME NEW i \in JobId, Live(jobs'[i])
               PROVE  jobs'[i].gen = jobs[i].gen
    BY ClusterBringsNoJob DEF ArtifactInv, TypeOK
  <2>1. jobs \in [JobId -> Job]
    BY DEF ArtifactInv, TypeOK, ClusterTypeOK
  <2>2. CASE jobs' = jobs
    BY <2>2
  <2>3. ASSUME NEW j \in JobId, Workload(j) \/ Collector(j) \/ TTLExpires(j)
        PROVE  jobs'[i].gen = jobs[i].gen
    BY <2>1, <2>3 DEF Job, Workload, JobStarts, PodStarts, PodPushes, PodSucceeds, PodFails,
       JobFinishes, Collector, CollectJob, ReapJob, ReapPod, TTLExpires
  <2>4. CASE Informers \/ Resync \/ User \/ Storage
    BY <2>2, <2>4 DEF Informers, SyncArtifact, SyncJobs, SyncPods, SyncPvc, Resync,
       User, UserCreate, UserEdit, UserDelete, Storage, CollectPvc, ReleasePvc, api
  <2> QED BY <2>3, <2>4 DEF ClusterStep
<1>2. CASE User
  <2>1. CASE UserCreate
    <3>1. ma.uid = 0
      BY <2>1, Naturalness, BoundsAssumption DEF UserCreate, Watched, ArtifactInv
    <3>2. pc = "idle" /\ \A j \in JobId : ~Live(jobs[j])
      BY <3>1 DEF ArtifactInv, History, CreatedOnce, GenInv, Live, Exists, Made
    <3> QED BY <1>1, <3>2 DEF Clean
  <2>2. CASE UserEdit
    <3>1. ma'.st = ma.st /\ ma.gen # 0
      BY <2>2 DEF UserEdit, ArtifactInv, TypeOK, ClusterTypeOK, Artifact
    <3> QED BY <1>1, <3>1 DEF Clean
  <2>3. CASE UserDelete
    <3>1. ma'.gen = 0
      BY <2>3 DEF UserDelete, ArtifactInv, TypeOK, ClusterTypeOK, Artifact
    <3> QED BY <3>1 DEF Clean
  <2> QED BY <1>2, <2>1, <2>2, <2>3 DEF User
<1>3. CASE ma' = ma
  BY <1>1, <1>3 DEF Clean
<1>4. CASE Informers \/ Resync \/ Storage
  BY <1>3, <1>4 DEF Informers, SyncArtifact, SyncJobs, SyncPods, SyncPvc, Resync,
     Storage, CollectPvc, ReleasePvc, api
<1>5. ASSUME NEW j \in JobId, Workload(j) \/ Collector(j) \/ TTLExpires(j)
      PROVE  Clean'
  BY <1>3, <1>5 DEF Workload, JobStarts, PodStarts, PodPushes, PodSucceeds, PodFails,
     JobFinishes, Collector, CollectJob, ReapJob, ReapPod, TTLExpires
<1> QED BY <1>2, <1>4, <1>5 DEF ClusterStep

\* A call that was answered leaves the failures as they are.
LEMMA NoNewFailure ==
  ASSUME TypeOK, NEW r \in Answers, Answer(r), errs' = 0
  PROVE  r = "ok" /\ errs = 0
BY FailureAssumption DEF TypeOK, Answer

\* Every step of Reconcile keeps it.
LEMMA CleanReconcile ==
  ASSUME Watched, ArtifactInv, Clean, UpToDate, Reconcile
  PROVE  Clean'
<1> USE DEF api, caches, clusterVars, local
<1> SUFFICES ASSUME errs' = 0, crashes' = 0, ma'.gen # 0
             PROVE  Clean'
  BY DEF Clean
<1>1. cMa = ma /\ cJobs = jobs /\ jobs \in [JobId -> Job]
  BY DEF UpToDate, Watched, ArtifactInv, TypeOK, ClusterTypeOK
<1>2. ASSUME errs = 0, crashes = 0, ma.gen # 0
      PROVE  /\ pc # "fail"
             /\ \A j \in JobId : Live(jobs[j]) =>
                  /\ ma.st.obs # 0 => jobs[j].gen = ma.st.obs
                  /\ ma.st.obs = 0 => pc \in {"observe", "patch"}
                  /\ pc = "deleteJobs" => j \in todo
                  /\ pc \in {"observe", "patch"} => jobs[j].gen = snap.gen
             /\ ma.st.obs =< cMa.gen
             /\ pc # "idle" => /\ snap.uid = 1 /\ snap.gen # 0
                               /\ pc # "release" => snap.st = ma.st
                               /\ ma.st.obs =< snap.gen
  BY <1>2 DEF Clean, ArtifactInv, History, RunKnows, GenInv
<1>3. \A j \in JobId : Live(jobs[j]) => jobs[j].uid = 1
  BY DEF ArtifactInv, History, JobsOwned, Made, Live, Exists
<1>4. CASE FetchArtifact
  <2>1. /\ pc = "idle" /\ UNCHANGED <<ma, jobs, errs, crashes>>
        /\ snap' = ma /\ pc' \in {"observe", "cleanup", "ensurePVC"}
        /\ pc' = "observe" => Finished(ma)
    BY <1>1, <1>4 DEF FetchArtifact
  <2> QED BY <1>2, <2>1 DEF Clean, Finished
<1>5. CASE ListStaleJobs
  <2>1. /\ pc = "cleanup" /\ pc' = "deleteJobs" /\ todo' = OwnedJobs
        /\ UNCHANGED <<ma, jobs, errs, crashes, snap>>
    BY <1>5 DEF ListStaleJobs
  <2>2. \A j \in JobId : Live(jobs[j]) => j \in OwnedJobs
    BY <1>1, <1>2, <1>3, <2>1 DEF OwnedJobs, IsOwnedBy
  <2> QED BY <1>2, <2>1, <2>2 DEF Clean
<1>6. ASSUME NEW j \in JobId, NEW r \in Answers, DeleteStaleJob(j, r)
      PROVE  Clean'
  <2>1. errs = 0 /\ r = "ok"
    BY <1>6, NoNewFailure DEF DeleteStaleJob, ArtifactInv
  <2>2. /\ pc = "deleteJobs" /\ pc' = pc /\ todo' = todo \ {j}
        /\ UNCHANGED <<ma, crashes, snap>>
        /\ jobs' = IF Exists(jobs[j]) THEN [jobs EXCEPT ![j].st = "gone"] ELSE jobs
    BY <1>6, <2>1 DEF DeleteStaleJob, Applied
  <2>3. \A i \in JobId : Live(jobs'[i]) => i # j /\ jobs'[i] = jobs[i]
    BY <1>1, <2>2 DEF Live, Exists, Job
  <2> QED BY <1>2, <2>1, <2>2, <2>3 DEF Clean
<1>7. ASSUME NEW j \in JobId, NEW r \in Answers, CreateJob(j, r)
      PROVE  Clean'
  <2>1. errs = 0 /\ r = "ok"
    BY <1>7, NoNewFailure DEF CreateJob, ArtifactInv
  <2>2. /\ pc = "createJob" /\ pc' = "observe"
        /\ UNCHANGED <<ma, crashes, snap>>
        /\ jobs' = [jobs EXCEPT ![j] = BuildJob(snap)]
    BY <1>7, <2>1 DEF CreateJob, Applied
  <2>3. \A i \in JobId : ~Live(jobs[i])
    BY <1>2, <1>3, <2>1, <2>2 DEF ArtifactInv, OneJobInv, NoRival
  <2>4. \A i \in JobId : Live(jobs'[i]) => jobs'[i].gen = snap.gen
    BY <1>1, <2>2, <2>3 DEF BuildJob
  <2>5. ma.st.obs \in {0, snap.gen}
    BY <2>2, NotTerminalYet
  <2> QED BY <1>2, <2>1, <2>2, <2>4, <2>5 DEF Clean
<1>8. ASSUME NEW r \in Answers, DeleteStaleWorkspace(r)
      PROVE  Clean'
  <2>1. errs = 0 /\ r = "ok"
    BY <1>8, NoNewFailure DEF DeleteStaleWorkspace, ArtifactInv
  <2>2. /\ pc = "deleteJobs" /\ todo = {} /\ pc' = "observe"
        /\ UNCHANGED <<ma, jobs, crashes, snap>>
    BY <1>8, <2>1 DEF DeleteStaleWorkspace
  <2> QED BY <1>2, <2>1, <2>2 DEF Clean
<1>9. ASSUME NEW r \in Answers, EnsurePVC(r)
      PROVE  Clean'
  <2>1. errs = 0 /\ r = "ok"
    BY <1>9, NoNewFailure DEF EnsurePVC, ArtifactInv
  <2>2. /\ pc = "ensurePVC" /\ pc' = "findJob"
        /\ UNCHANGED <<ma, jobs, crashes, snap>>
    BY <1>9, <2>1 DEF EnsurePVC
  <2> QED BY <1>2, <2>1, <2>2 DEF Clean
<1>10. ASSUME NEW r \in Answers, ReconcileFailed(r)
       PROVE  Clean'
  <2>1. errs = 0 /\ pc = "fail" /\ crashes' = crashes
    BY <1>10, NoNewFailure DEF ReconcileFailed, ArtifactInv
  <2>2. ma.gen # 0
    BY <1>10, PatchWrites
  <2> QED BY <1>2, <2>1, <2>2
<1>11. ASSUME NEW r \in Answers, PatchStatus(r)
       PROVE  Clean'
  <2>1. errs = 0 /\ r = "ok"
    BY <1>11, NoNewFailure DEF PatchStatus, ArtifactInv
  <2>2. /\ pc = "patch" /\ pc' = "release" /\ ma.gen # 0
        /\ UNCHANGED <<jobs, crashes, snap>>
        /\ PatchArtifact(NewStatus(obs, found))
    BY <1>11, <2>1 DEF PatchStatus, Applied
  <2>3. ma'.st.obs = snap.gen
    <3>1. NewStatus(obs, found) \in Status /\ NewStatus(obs, found).obs = snap.gen
      BY NewStatusType DEF ArtifactInv, TypeOK, NewStatus
    <3>2. ma'.st = Merge(snap.st, NewStatus(obs, found), ma.st)
      BY <2>2, <3>1, PatchType DEF ArtifactInv
    <3>3. snap.st = ma.st
      BY <1>2, <2>1, <2>2
    <3> QED BY <3>1, <3>2, <3>3 DEF Merge
  <2> QED BY <1>2, <2>1, <2>2, <2>3 DEF Clean
<1>12. ASSUME NEW r \in Answers, ReleaseWorkspace(r)
       PROVE  Clean'
  <2>1. errs = 0 /\ pc = "release" /\ pc' = "idle" /\ UNCHANGED <<ma, jobs, crashes>>
    BY <1>12, NoNewFailure DEF ReleaseWorkspace, Return, ArtifactInv
  <2> QED BY <1>2, <2>1 DEF Clean
<1>13. CASE FindJob
  <2>1. /\ pc = "findJob" /\ pc' = IF OwnedJobs = {} THEN "createJob" ELSE "observe"
        /\ UNCHANGED <<ma, jobs, errs, crashes, snap>>
    BY <1>13 DEF FindJob
  <2>2. ma.st.obs \in {0, snap.gen}
    BY <2>1, NotTerminalYet
  <2> QED BY <1>2, <2>1, <2>2 DEF Clean
<1>14. ASSUME NEW j \in JobId \cup {0}, ObserveStatus(j)
       PROVE  Clean'
  <2>1. /\ pc = "observe" /\ pc' \in {"patch", "release"}
        /\ UNCHANGED <<ma, jobs, errs, crashes, snap>>
        /\ pc' = "release" => NewStatus(obs', j) = snap.st
    BY <1>14 DEF ObserveStatus
  <2>2. pc' = "release" => snap.st.obs = snap.gen
    BY <2>1 DEF NewStatus
  <2> QED BY <1>2, <2>1, <2>2 DEF Clean
<1>15. CASE PatchStatusNotFound
  BY <1>15 DEF PatchStatusNotFound
<1> QED BY <1>4, <1>5, <1>6, <1>7, <1>8, <1>9, <1>10, <1>11, <1>12, <1>13, <1>14,
           <1>15 DEF Reconcile

\* No status claims a generation while a Job of an earlier one is live, as long as
\* no call has failed and the operator was not restarted (reconcile.go:102-123).
THEOREM StaleJobsGone ==
  ASSUME Watched
  PROVE  Spec => []StaleJobsCleaned
<1>1. Init => Clean
  BY DEF Init, ClusterInit, Clean, NoArtifact
<1>2. ArtifactInv /\ Clean /\ [Next]_vars => Clean'
  <2> SUFFICES ASSUME ArtifactInv, Clean, [Next]_vars
               PROVE  Clean'
    OBVIOUS
  <2>1. CASE Deliver \/ Environment \/ JobExpires
    BY <2>1, CleanCluster DEF Deliver, Environment, JobExpires
  <2>2. CASE UpToDate /\ Reconcile
    BY <2>2, CleanReconcile
  <2>3. CASE Crash
    <3>1. crashes' # 0
      BY <2>3 DEF Crash, ArtifactInv, TypeOK
    <3> QED BY <3>1 DEF Clean
  <2>4. CASE UNCHANGED vars
    BY <2>4 DEF Clean, vars, clusterVars, api, reconcilerVars, local
  <2> QED BY <2>1, <2>2, <2>3, <2>4 DEF Next
<1>3. Clean => StaleJobsCleaned
  BY DEF Clean, StaleJobsCleaned, Existing
<1> QED BY <1>1, <1>2, <1>3, HistoryKept, PTL DEF Spec

(***************************************************************************)
(* When the controller rests it has told what there is to tell.  The       *)
(* status is written at the end of a run for the generation the run read,  *)
(* and a generation that is newer queues the artifact again (Told).  What  *)
(* a run has observed is in the status when it ends, and it ends for good  *)
(* only with the digest of a success (Digested) and, unless that call has  *)
(* failed, without the workspace of an outcome (GivenBack).  A first run   *)
(* cannot take the cleanup path: it ends with a Job, which stays at least  *)
(* until its outcome is told (FirstRuns).                                  *)
(***************************************************************************)
\* No event of the artifact is waiting for the controller.
Answered == ~queue /\ ma.gen # 0 /\ cMa.gen = ma.gen

Told ==
  Answered => /\ pc # "idle" => snap.gen = ma.gen
              /\ pc \in {"idle", "release"} => ma.st.obs = ma.gen

Digested ==
  ma.gen # 0 =>
    /\ pc = "release" => /\ ma.st.phase = obs.phase
                         /\ obs.digest # NoRev => ma.st.digest # NoRev
    /\ pc = "idle" /\ ~queue /\ ma.st.phase = "Succeeded" => ma.st.digest # NoRev

FirstRuns ==
  Answered /\ ma.gen = 1 /\ pc \in {"idle", "observe", "patch", "release"}
    => Finished(ma) \/ \E j \in JobId : Live(jobs[j])

GivenBack ==
  errs = 0 /\ ma.gen # 0 /\ ~queue /\ pc = "idle" /\ Finished(ma) => pvc.st # "bound"

ToldInv == Told /\ Digested /\ FirstRuns /\ GivenBack

\* A key in the queue is a promise of another run, and an artifact that does not
\* exist asks for none.
LEMMA NothingToTell ==
  ASSUME ma'.gen = 0 \/ (queue' /\ pc' # "release")
  PROVE  ToldInv'
BY DEF ToldInv, Answered, Told, Digested, FirstRuns, GivenBack

\* Steps of others: they wake the controller for a new generation, bring back no
\* workspace while it rests, and remove a Job only when its outcome has been told.
LEMMA OthersTell ==
  ASSUME ToldInv, UNCHANGED <<ma, pc, snap, obs, errs>>, queue => queue',
         cMa'.gen = cMa.gen \/ queue',
         pvc' = pvc \/ pvc'.st # "bound",
         \/ \A j \in JobId : Live(jobs[j]) => Live(jobs'[j])
         \/ ma.gen = 0 \/ Finished(ma)
  PROVE  ToldInv'
<1>1. Answered' => Answered
  BY DEF Answered
<1>2. Told' /\ Digested'
  BY <1>1 DEF ToldInv, Told, Digested
<1>3. FirstRuns'
  BY <1>1 DEF ToldInv, FirstRuns, Answered, Finished
<1>4. GivenBack'
  BY DEF ToldInv, GivenBack, Finished
<1> QED BY <1>2, <1>3, <1>4 DEF ToldInv

\* Informers, the Job controller, the kubelet and the garbage collector.
LEMMA ClusterTells ==
  ASSUME Watched, ArtifactInv, ToldInv, UNCHANGED reconcilerVars,
         \/ Informers \/ Resync \/ Storage
         \/ \E j \in JobId : Workload(j) \/ Collector(j)
  PROVE  ToldInv'
<1>1. UNCHANGED <<pc, snap, obs, errs>>
  BY DEF reconcilerVars, local
<1>2. CASE SyncArtifact
  <2>1. UNCHANGED <<ma, pvc, jobs>> /\ cMa' = ma /\ queue' = (queue \/ GenerationChanged)
    BY <1>2 DEF SyncArtifact, api
  <2> QED BY <1>1, <2>1, OthersTell DEF GenerationChanged
<1>3. CASE SyncJobs \/ SyncPods \/ SyncPvc \/ Resync \/ Storage
  <2>1. /\ UNCHANGED <<ma, jobs, cMa>>
        /\ queue => queue'
        /\ pvc' = pvc \/ pvc'.st # "bound"
    BY <1>3 DEF SyncJobs, SyncPods, SyncPvc, Resync, Storage, CollectPvc, ReleasePvc,
       NoWorkspace, api, caches, ArtifactInv, TypeOK, ClusterTypeOK, Workspace
  <2>2. ma' = ma /\ cMa'.gen = cMa.gen /\ \A j \in JobId : Live(jobs[j]) => Live(jobs'[j])
    BY <2>1
  <2> QED BY <1>1, <2>1, <2>2, OthersTell
<1>4. ASSUME NEW j \in JobId, Workload(j) \/ Collector(j)
      PROVE  ToldInv'
  <2>1. UNCHANGED <<ma, pvc, caches, queue>>
    BY <1>4 DEF Workload, JobStarts, PodStarts, PodPushes, PodSucceeds, PodFails, JobFinishes,
       Collector, CollectJob, ReapJob, ReapPod
  <2>2. jobs \in [JobId -> Job]
    BY DEF ArtifactInv, TypeOK, ClusterTypeOK
  <2>3. CASE Workload(j) \/ ReapPod(j)
    <3>1. \A i \in JobId : Live(jobs[i]) => Live(jobs'[i])
      BY <1>4, <2>2, <2>3 DEF Workload, JobStarts, PodStarts, PodPushes, PodSucceeds, PodFails,
         JobFinishes, ReapPod, Job, Live, Exists
    <3> QED BY <1>1, <2>1, <3>1, OthersTell DEF caches
  <2>4. CASE CollectJob(j)
    <3>1. ma.gen = 0
      BY <2>4, Naturalness DEF CollectJob, Existing, Exists, Made, ArtifactInv, History,
         CreatedOnce, JobsOwned
    <3> QED BY <1>1, <2>1, <3>1, OthersTell DEF caches
  <2>5. CASE ReapJob(j)
    <3>1. \A i \in JobId : Live(jobs[i]) => Live(jobs'[i])
      BY <2>2, <2>5 DEF ReapJob, Job, Live, Exists
    <3> QED BY <1>1, <2>1, <3>1, OthersTell DEF caches
  <2> QED BY <1>4, <2>3, <2>4, <2>5 DEF Collector
<1> QED BY <1>2, <1>3, <1>4 DEF Informers

\* A Job's TTL: whoever waits for its outcome has been told.
LEMMA ExpiryTells ==
  ASSUME Watched, ArtifactInv, ToldInv, UpToDate, JobExpires
  PROVE  ToldInv'
<1>1. PICK j \in JobId : TTLExpires(j)
  BY DEF JobExpires
<1>2. /\ UNCHANGED <<ma, pvc, caches, queue, pc, snap, obs, errs>>
      /\ ~queue /\ pc = "idle" /\ cJobs = jobs /\ cMa = ma
      /\ jobs[j].st \in {"succeeded", "failed"} /\ ~jobs[j].del
  BY <1>1 DEF TTLExpires, JobExpires, Watched, Settled, api, caches, reconcilerVars, local
<1>3. Live(jobs[j]) /\ Outcome(jobs[j]) # "none"
  BY <1>2 DEF Outcome, Live, Exists
<1>4. ma.gen = 0 \/ ma.st.phase \in Terminal
  BY <1>2, <1>3 DEF ArtifactInv, History, Woken
<1>5. ma.gen = 0 \/ ma.st.obs = ma.gen
  BY <1>2 DEF ToldInv, Told, Answered
<1> QED BY <1>2, <1>4, <1>5, OthersTell DEF caches, Finished

\* Users: a new generation is not answered yet, and no status has observed it.
LEMMA UsersAsk ==
  ASSUME Watched, ArtifactInv, ToldInv, UpToDate, User, UNCHANGED reconcilerVars
  PROVE  ToldInv'
<1>1. cMa = ma /\ UNCHANGED <<queue, cMa, pvc, pc, snap, obs, errs>>
  BY DEF UpToDate, Watched, User, UserCreate, UserEdit, UserDelete, caches, reconcilerVars, local
<1>2. CASE UserCreate
  <2>1. ma.gen = 0 /\ ma'.gen = 1 /\ ma'.st = NoStatus /\ ma.uid < MaxUid
    BY <1>2 DEF UserCreate
  <2>2. ma.uid = 0
    BY <2>1, Naturalness, BoundsAssumption DEF Watched, ArtifactInv
  <2>3. pc = "idle"
    BY <2>2 DEF ArtifactInv, GenInv
  <2>4. ~Answered'
    BY <1>1, <2>1 DEF Answered
  <2>5. NoStatus.phase \notin {"Succeeded", "Failed"}
    BY DEF NoStatus
  <2>6. ma'.st.phase # "Succeeded"
    BY <2>1, <2>5
  <2>7. ~Finished(ma')
    BY <2>1, <2>5 DEF Finished, Terminal
  <2>8. pc' = "idle"
    BY <1>1, <2>3
  <2> QED BY <2>4, <2>6, <2>7, <2>8 DEF ToldInv, Told, Digested, FirstRuns, GivenBack
<1>3. CASE UserEdit
  <2>1. ma.gen # 0 /\ ma'.gen = ma.gen + 1 /\ ma'.st = ma.st
    BY <1>3 DEF UserEdit, ArtifactInv, TypeOK, ClusterTypeOK, Artifact
  <2>2. ma'.gen # cMa.gen /\ ma.st.obs # ma'.gen
    BY <1>1, <2>1, Naturalness DEF ArtifactInv, GenInv
  <2>3. ~Answered' /\ ~Finished(ma')
    BY <1>1, <2>1, <2>2 DEF Answered, Finished
  <2>4. Digested'
    BY <1>1, <2>1 DEF ToldInv, Digested
  <2> QED BY <2>3, <2>4 DEF ToldInv, Told, FirstRuns, GivenBack
<1>4. CASE UserDelete
  <2>1. ma'.gen = 0
    BY <1>4 DEF UserDelete, ArtifactInv, TypeOK, ClusterTypeOK, Artifact
  <2> QED BY <2>1, NothingToTell
<1> QED BY <1>2, <1>3, <1>4 DEF User

\* A run goes on until it observes: for a first generation with a Job, or with an
\* outcome that was there before.
LEMMA RunGoesOn ==
  ASSUME ArtifactInv, ToldInv, UNCHANGED <<ma, cMa, queue, snap>>, pc # "idle",
         pc' \notin {"idle", "patch", "release"},
         pc' = "observe" /\ snap.gen = 1 => \E j \in JobId : Live(jobs'[j])
  PROVE  ToldInv'
<1>1. Answered' = Answered
  BY DEF Answered
<1>2. Told'
  BY <1>1 DEF ToldInv, Told
<1>3. FirstRuns'
  BY <1>1 DEF ToldInv, Told, FirstRuns
<1> QED BY <1>2, <1>3 DEF ToldInv, Digested, GivenBack

\* The calls of a run before it observes.
LEMMA CallsTell ==
  ASSUME Watched, ArtifactInv, ToldInv, UpToDate, NEW r \in Answers,
         \/ ListStaleJobs \/ DeleteStaleWorkspace(r) \/ EnsurePVC(r) \/ FindJob
         \/ \E j \in JobId : DeleteStaleJob(j, r) \/ CreateJob(j, r)
  PROVE  ToldInv'
<1>1. cJobs = jobs /\ jobs \in [JobId -> Job]
  BY DEF UpToDate, Watched, ArtifactInv, TypeOK, ClusterTypeOK
<1>2. CASE ListStaleJobs
  <2>1. UNCHANGED <<ma, cMa, queue, snap>> /\ pc = "cleanup" /\ pc' = "deleteJobs"
    BY <1>2 DEF ListStaleJobs, clusterVars, api, caches
  <2> QED BY <2>1, RunGoesOn
<1>3. CASE DeleteStaleWorkspace(r)
  <2>1. UNCHANGED <<ma, cMa, queue, snap>> /\ pc = "deleteJobs" /\ pc' \in {"observe", "fail"}
    BY <1>3 DEF DeleteStaleWorkspace, caches, local
  <2>2. SpecChanged(snap)
    BY <2>1 DEF ArtifactInv, History, RunKnows
  <2>3. snap.gen # 1
    <3>1. snap.st.obs \in Nat
      BY Naturalness DEF ArtifactInv, Status
    <3> QED BY <2>2, <3>1 DEF SpecChanged
  <2> QED BY <2>1, <2>3, RunGoesOn
<1>4. CASE EnsurePVC(r)
  <2>1. UNCHANGED <<ma, cMa, queue, snap>> /\ pc = "ensurePVC" /\ pc' \in {"findJob", "fail"}
    BY <1>4 DEF EnsurePVC, caches, local
  <2> QED BY <2>1, RunGoesOn
<1>5. CASE FindJob
  <2>1. UNCHANGED <<ma, cMa, queue, snap, jobs>> /\ pc = "findJob"
    BY <1>5 DEF FindJob, clusterVars, api, caches, local
  <2>2. pc' = IF OwnedJobs = {} THEN "createJob" ELSE "observe"
    BY <1>5 DEF FindJob
  <2>3. pc' = "observe" => \E j \in JobId : Live(jobs'[j])
    BY <1>1, <2>1, <2>2 DEF OwnedJobs
  <2> QED BY <2>1, <2>2, <2>3, RunGoesOn
<1>6. ASSUME NEW j \in JobId, DeleteStaleJob(j, r)
      PROVE  ToldInv'
  <2>1. /\ UNCHANGED <<ma, cMa, queue, snap>> /\ pc = "deleteJobs"
        /\ pc' \in {"deleteJobs", "fail"}
    BY <1>6 DEF DeleteStaleJob, caches
  <2> QED BY <2>1, RunGoesOn
<1>7. ASSUME NEW j \in JobId, CreateJob(j, r)
      PROVE  ToldInv'
  <2>1. /\ UNCHANGED <<ma, cMa, queue, snap>> /\ pc = "createJob"
        /\ pc' = IF r = "ok" THEN "observe" ELSE "fail"
        /\ r = "ok" => jobs' = [jobs EXCEPT ![j] = BuildJob(snap)]
    BY <1>7 DEF CreateJob, Applied, caches, local
  <2>2. r = "ok" => Live(jobs'[j])
    <3>1. r = "ok" => jobs'[j] = BuildJob(snap)
      BY <1>1, <2>1
    <3> QED BY <3>1 DEF BuildJob, Live, Exists
  <2> QED BY <2>1, <2>2, RunGoesOn
<1> QED BY <1>2, <1>3, <1>4, <1>5, <1>6, <1>7

\* A run begins for the artifact as it is.
LEMMA FetchTells ==
  ASSUME Watched, ArtifactInv, ToldInv, UpToDate, FetchArtifact
  PROVE  ToldInv'
<1>1. cMa = ma /\ UNCHANGED <<ma, cMa>> /\ pc = "idle"
  BY DEF UpToDate, Watched, FetchArtifact, api, caches
<1>2. CASE ma.gen = 0
  BY <1>1, <1>2, NothingToTell
<1>3. CASE ma.gen # 0
  <2>1. /\ snap' = ma /\ pc' \in {"observe", "cleanup", "ensurePVC"}
        /\ pc' = "observe" => Finished(ma)
    BY <1>1, <1>3 DEF FetchArtifact
  <2>2. Finished(ma') = Finished(ma)
    BY <1>1
  <2>3. Told' /\ Digested' /\ GivenBack'
    BY <1>1, <2>1 DEF Told, Digested, GivenBack
  <2>4. FirstRuns'
    BY <2>1, <2>2 DEF FirstRuns
  <2> QED BY <2>3, <2>4 DEF ToldInv
<1> QED BY <1>2, <1>3

\* A status is the new one already, or will be patched.
LEMMA ObserveTells ==
  ASSUME ArtifactInv, ToldInv, NEW j \in JobId \cup {0}, ObserveStatus(j)
  PROVE  ToldInv'
<1>1. /\ UNCHANGED <<ma, cMa, jobs, queue, snap>> /\ pc = "observe"
      /\ pc' = IF NewStatus(obs', j) = snap.st THEN "release" ELSE "patch"
  BY DEF ObserveStatus, clusterVars, api, caches
<1>2. Answered' = Answered
  BY <1>1 DEF Answered
<1>3. ma.gen # 0 => snap.st = ma.st
  BY <1>1 DEF ArtifactInv, History, RunKnows
<1>4. pc' = "release" =>
        /\ snap.st.obs = snap.gen /\ snap.st.phase = obs'.phase
        /\ obs'.digest # NoRev => snap.st.digest = obs'.digest
  BY <1>1 DEF NewStatus
<1>5. Told'
  BY <1>1, <1>2, <1>3, <1>4 DEF ToldInv, Told, Answered
<1>6. Digested'
  BY <1>1, <1>3, <1>4 DEF Digested
<1>7. FirstRuns'
  BY <1>1, <1>2 DEF ToldInv, FirstRuns, Finished
<1> QED BY <1>1, <1>5, <1>6, <1>7 DEF ToldInv, GivenBack

\* The patch makes the status the one that was observed.
LEMMA PatchTells ==
  ASSUME ArtifactInv, ToldInv, NEW r \in Answers, PatchStatus(r)
  PROVE  ToldInv'
<1>1. pc = "patch" /\ ma.gen # 0 /\ UNCHANGED <<jobs, caches>>
  BY DEF PatchStatus
<1>2. CASE r # "ok"
  BY <1>2, NothingToTell DEF PatchStatus, Return
<1>3. CASE r = "ok"
  <2>1. /\ UNCHANGED <<queue, snap, obs>> /\ pc' = "release"
        /\ PatchArtifact(NewStatus(obs, found))
    BY <1>3 DEF PatchStatus, Applied, local
  <2>2. snap.st = ma.st
    BY <1>1 DEF ArtifactInv, History, RunKnows
  <2>3. NewStatus(obs, found) \in Status /\ snap.st \in Status
    BY NewStatusType, Naturalness DEF ArtifactInv, TypeOK
  <2>4. ma'.gen = ma.gen /\ ma'.st = NewStatus(obs, found)
    BY <2>1, <2>2, <2>3, PatchType, MergeOntoBase DEF ArtifactInv
  <2>5. /\ ma'.st.phase = obs.phase /\ ma'.st.obs = snap.gen
        /\ obs.digest # NoRev => ma'.st.digest = obs.digest
    BY <2>4 DEF NewStatus
  <2>6. Answered' = Answered
    BY <1>1, <2>1, <2>4 DEF Answered, caches
  <2>7. Told'
    BY <1>1, <2>1, <2>4, <2>5, <2>6 DEF ToldInv, Told
  <2>8. Digested' /\ GivenBack'
    BY <2>1, <2>5 DEF Digested, GivenBack
  <2>9. FirstRuns'
    <3>1. ma.st.phase \in Terminal => obs.phase = ma.st.phase
      BY <1>1 DEF ArtifactInv, History, ObservationHonest
    <3>2. Answered => snap.gen = ma.gen
      BY <1>1 DEF ToldInv, Told
    <3>3. Answered /\ Finished(ma) => Finished(ma')
      BY <2>4, <2>5, <3>1, <3>2 DEF Finished
    <3> QED BY <1>1, <2>4, <2>6, <3>3 DEF ToldInv, FirstRuns
  <2> QED BY <2>7, <2>8, <2>9 DEF ToldInv
<1> QED BY <1>2, <1>3

\* A run ends for good when the status is told, and the workspace is given back.
LEMMA ReleaseTells ==
  ASSUME ArtifactInv, ToldInv, NEW r \in Answers, ReleaseWorkspace(r)
  PROVE  ToldInv'
<1>1. /\ UNCHANGED <<ma, cMa, jobs>> /\ pc = "release" /\ pc' = "idle"
      /\ queue' = (queue \/ PollsForDigest(obs))
  BY DEF ReleaseWorkspace, Return, caches
<1>2. Answered' => Answered
  BY <1>1 DEF Answered
<1>3. ma.gen # 0 => /\ ma.st.phase = obs.phase
                    /\ obs.digest # NoRev => ma.st.digest # NoRev
  BY <1>1 DEF ToldInv, Digested
<1>4. Told'
  BY <1>1, <1>2 DEF ToldInv, Told
<1>5. Digested'
  BY <1>1, <1>3 DEF Digested, PollsForDigest
<1>6. FirstRuns'
  BY <1>1, <1>2 DEF ToldInv, FirstRuns, Finished
<1>7. GivenBack'
  <2> SUFFICES ASSUME errs' = 0, ma.gen # 0, Finished(ma)
               PROVE  pvc'.st # "bound"
    BY <1>1 DEF GivenBack, Finished
  <2>1. r = "ok"
    BY DEF ReleaseWorkspace, Answer, ArtifactInv, TypeOK
  <2>2. Over(obs)
    BY <1>3 DEF Over, Finished
  <2>3. DeletePVC(r)
    BY <2>2 DEF ReleaseWorkspace
  <2> QED BY <2>1, <2>3 DEF DeletePVC, Applied, ArtifactInv, TypeOK, ClusterTypeOK, Workspace
<1> QED BY <1>4, <1>5, <1>6, <1>7 DEF ToldInv

LEMMA ToldStep ==
  ASSUME Watched, ArtifactInv, ToldInv, [Next]_vars
  PROVE  ToldInv'
<1>1. CASE Deliver
  <2>1. Informers /\ UNCHANGED reconcilerVars
    BY <1>1 DEF Deliver
  <2> QED BY <2>1, ClusterTells
<1>2. CASE UpToDate /\ Reconcile
  <2>1. CASE FetchArtifact
    BY <1>2, <2>1, FetchTells
  <2>2. CASE ListStaleJobs \/ FindJob
    BY <1>2, <2>2, CallsTell DEF Answers
  <2>3. ASSUME NEW j \in JobId, NEW r \in Answers, DeleteStaleJob(j, r) \/ CreateJob(j, r)
        PROVE  ToldInv'
    BY <1>2, <2>3, CallsTell
  <2>4. ASSUME NEW r \in Answers, DeleteStaleWorkspace(r) \/ EnsurePVC(r)
        PROVE  ToldInv'
    BY <1>2, <2>4, CallsTell
  <2>5. ASSUME NEW r \in Answers, ReconcileFailed(r)
        PROVE  ToldInv'
    BY <2>5, NothingToTell DEF ReconcileFailed, Return
  <2>6. ASSUME NEW r \in Answers, PatchStatus(r)
        PROVE  ToldInv'
    BY <2>6, PatchTells
  <2>7. ASSUME NEW r \in Answers, ReleaseWorkspace(r)
        PROVE  ToldInv'
    BY <2>7, ReleaseTells
  <2>8. ASSUME NEW j \in JobId \cup {0}, ObserveStatus(j)
        PROVE  ToldInv'
    BY <2>8, ObserveTells
  <2>9. CASE PatchStatusNotFound
    BY <2>9, NothingToTell DEF PatchStatusNotFound, Return
  <2> QED BY <1>2, <2>1, <2>2, <2>3, <2>4, <2>5, <2>6, <2>7, <2>8, <2>9 DEF Reconcile
<1>3. CASE UpToDate /\ Environment
  <2>1. CASE User
    BY <1>3, <2>1, UsersAsk DEF Environment
  <2>2. CASE Resync \/ Storage \/ \E j \in JobId : Workload(j) \/ Collector(j)
    BY <1>3, <2>2, ClusterTells DEF Environment
  <2> QED BY <1>3, <2>1, <2>2 DEF Environment, ClusterStep
<1>4. CASE UpToDate /\ JobExpires
  BY <1>4, ExpiryTells
<1>5. CASE Crash
  <2>1. /\ ma' = ma /\ pc' = "idle"
        /\ ma.gen # 0 => queue'
    BY <1>5 DEF Crash, api
  <2> QED BY <2>1, NothingToTell
<1>6. CASE UNCHANGED vars
  <2>1. UNCHANGED <<ma, pc, snap, obs, errs, queue, cMa, pvc, jobs>>
    BY <1>6 DEF vars, clusterVars, api, caches, reconcilerVars, local
  <2>2. \A j \in JobId : Live(jobs[j]) => Live(jobs'[j])
    BY <2>1
  <2> QED BY <2>1, <2>2, OthersTell
<1> QED BY <1>1, <1>2, <1>3, <1>4, <1>5, <1>6 DEF Next

\* Whenever the controller rests, the status is about the current generation, tells the
\* outcome of its Job and the digest of a success, a first generation has a Job or an
\* outcome, and the workspace of an outcome is given back unless a call has failed
\* (modelartifact_controller.go:85-101,106-139): no event is missed that would not come
\* again, after any number of edits, failed calls and restarts.
THEOREM RestsToldAlways ==
  ASSUME Watched
  PROVE  Spec => []RestsWhenTold
<1>1. Init => ToldInv
  BY DEF Init, ClusterInit, NoArtifact, ToldInv, Answered, Told, Digested, FirstRuns, GivenBack
<1>2. ArtifactInv /\ ToldInv /\ [Next]_vars => ToldInv'
  BY ToldStep
<1>3. ArtifactInv /\ ToldInv => RestsWhenTold
  <2> SUFFICES ASSUME ArtifactInv, ToldInv, AtRest, ma.gen # 0
               PROVE  /\ ma.st.obs = ma.gen
                      /\ \A j \in JobId : Live(jobs[j]) /\ Existing(jobs[j].uid) =>
                           /\ jobs[j].st = "succeeded" => ma.st.phase = "Succeeded"
                           /\ jobs[j].st = "failed" => ma.st.phase = "Failed"
                      /\ ma.st.phase = "Succeeded" => ma.st.digest # NoRev
                      /\ ma.gen = 1 => Finished(ma) \/ \E j \in JobId :
                                         Live(jobs[j]) /\ Existing(jobs[j].uid)
                      /\ Finished(ma) /\ errs = 0 => pvc.st # "bound"
    BY DEF RestsWhenTold
  <2>1. Answered /\ pc = "idle" /\ ~queue /\ cJobs = jobs
    BY DEF AtRest, Answered
  <2>2. \A j \in JobId : Live(jobs[j]) /\ jobs[j].st \in {"succeeded", "failed"}
           => Outcome(jobs[j]) = ma.st.phase
    <3> SUFFICES ASSUME NEW j \in JobId, Live(jobs[j]), jobs[j].st \in {"succeeded", "failed"}
                 PROVE  Outcome(jobs[j]) = ma.st.phase
      OBVIOUS
    <3>1. Outcome(jobs[j]) # "none"
      BY DEF Outcome
    <3>2. ma.st.phase \in Terminal
      BY <2>1, <3>1 DEF ArtifactInv, History, Woken
    <3>3. JobsAgree(ma.st.phase)
      <4>1. StatusHonest
        BY DEF ArtifactInv, History
      <4> QED BY <4>1 DEF StatusHonest
    <3> QED BY <3>2, <3>3 DEF JobsAgree
  <2>3. \A j \in JobId : Live(jobs[j]) => Existing(jobs[j].uid)
    BY DEF Live, Exists, Existing, Made, ArtifactInv, History, CreatedOnce, JobsOwned
  <2>4. ma.st.obs = ma.gen
    BY <2>1 DEF ToldInv, Told
  <2>5. ma.gen = 1 => Finished(ma) \/ \E j \in JobId : Live(jobs[j])
    BY <2>1 DEF ToldInv, FirstRuns
  <2>6. /\ ma.st.phase = "Succeeded" => ma.st.digest # NoRev
        /\ Finished(ma) /\ errs = 0 => pvc.st # "bound"
    BY <2>1 DEF ToldInv, Digested, GivenBack
  <2>7. \A j \in JobId : Live(jobs[j]) =>
           /\ jobs[j].st = "succeeded" => ma.st.phase = "Succeeded"
           /\ jobs[j].st = "failed" => ma.st.phase = "Failed"
    BY <2>2 DEF Outcome
  <2> QED BY <2>3, <2>4, <2>5, <2>6, <2>7
<1> QED BY <1>1, <1>2, <1>3, HistoryKept, PTL DEF Spec
=============================================================================
