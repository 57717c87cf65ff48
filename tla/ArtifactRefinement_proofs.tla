---------------------- MODULE ArtifactRefinement_proofs ----------------------
(***************************************************************************)
(* The ModelArtifact controller implements ArtifactContract: for any       *)
(* number of edits, Jobs, failed calls and restarts, under the assumptions *)
(* of ArtifactSafety_proofs.                                               *)
(***************************************************************************)
EXTENDS ArtifactRefinement, ArtifactSafety_proofs

AtWork == {"new", "active"}
EverMade == {"new", "active", "succeeded", "failed", "gone"}

Started == RevisionsOf(EverMade)
Working == RevisionsOf(AtWork)

Step == [Contract!Next]_(Contract!vars)

(***************************************************************************)
(* The sets of revisions                                                   *)
(***************************************************************************)
\* A revision was started iff a Job was made for it, and is at work iff one of its
\* Jobs is new or active; here with the state after a step.
LEMMA RevisionsAre ==
  ASSUME TypeOK, TypeOK'
  PROVE  /\ \A r : r \in Started <=> \E j \in JobId : Made(j) /\ r = RevOf(jobs[j])
         /\ \A r : r \in Started' <=> \E j \in JobId : Made(j)' /\ r = RevOf(jobs'[j])
         /\ \A r : r \in Working <=> \E j \in JobId : jobs[j].st \in AtWork /\ r = RevOf(jobs[j])
         /\ \A r : r \in Working' <=> \E j \in JobId : jobs'[j].st \in AtWork /\ r = RevOf(jobs'[j])
<1>1. \A j \in JobId : Made(j) <=> jobs[j].st \in EverMade
  BY DEF TypeOK, ClusterTypeOK, Job, Made, EverMade
<1>2. \A j \in JobId : Made(j)' <=> jobs'[j].st \in EverMade
  BY DEF TypeOK, ClusterTypeOK, Job, Made, EverMade
<1>3. Started = {RevOf(jobs[j]) : j \in {j \in JobId : jobs[j].st \in EverMade}}
  BY DEF Started, RevisionsOf, RevOf
<1>4. Started' = {RevOf(jobs'[j]) : j \in {j \in JobId : jobs'[j].st \in EverMade}}
  BY DEF Started, RevisionsOf, RevOf
<1>5. Working = {RevOf(jobs[j]) : j \in {j \in JobId : jobs[j].st \in AtWork}}
  BY DEF Working, RevisionsOf, RevOf
<1>6. Working' = {RevOf(jobs'[j]) : j \in {j \in JobId : jobs'[j].st \in AtWork}}
  BY DEF Working, RevisionsOf, RevOf
<1> QED BY <1>1, <1>2, <1>3, <1>4, <1>5, <1>6

(***************************************************************************)
(* The steps of the contract, in the variables of the controller           *)
(***************************************************************************)
StatusOf(a) == [phase |-> a.st.phase, obs |-> a.st.obs,
                digest |-> a.st.digest, ref |-> a.st.ref]

\* Nothing the contract speaks of has changed.
LEMMA Stutters ==
  ASSUME RevOf(ma') = RevOf(ma), StatusOf(ma') = StatusOf(ma),
         Started' = Started, Working' = Working, pushed' = pushed
  PROVE  Step
BY DEF Step, Contract!vars, RevOf, StatusOf, Started, Working, EverMade, AtWork

\* A pipeline ended or was removed.
LEMMA Stops ==
  ASSUME UNCHANGED <<ma, pushed>>, Started' = Started,
         NEW r, r \in Working, r \in Started, Working' = Working \ {r}
  PROVE  Step
<1>1. Contract!Stop(r)
  BY DEF Contract!Stop, RevOf, Started, Working, EverMade, AtWork
<1>2. r \in RevisionsOf({"new", "active", "succeeded", "failed", "gone"})
  BY DEF Started, EverMade
<1> QED BY <1>1, <1>2 DEF Step, Contract!Next

\* Two sets with the same elements are the same.
LEMMA SameElements ==
  ASSUME NEW A, NEW B, \A r : r \in A <=> r \in B
  PROVE  A = B
BY Zenon

\* A pipeline was started.
LEMMA Starts ==
  ASSUME UNCHANGED <<ma, pushed>>, NEW r, Started' = Started \cup {r},
         Working' = Working \cup {r}, r.gen > 0, r.uid =< ma.uid,
         r.uid = ma.uid /\ ma.gen # 0 => r.gen =< ma.gen /\ r \notin pushed,
         \A w \in Working : w.uid # r.uid
  PROVE  Step
<1>1. Contract!Start(r)
  BY DEF Contract!Start, Started, Working, EverMade, AtWork
<1>2. r \in RevisionsOf({"new", "active", "succeeded", "failed", "gone"})'
  BY DEF Started, EverMade
<1> QED BY <1>1, <1>2 DEF Step, Contract!Next

\* A pipeline has pushed its artifact.
LEMMA Pushes ==
  ASSUME UNCHANGED ma, Started' = Started, Working' = Working,
         NEW r, r \in Started, pushed' = pushed \cup {r}
  PROVE  Step
<1>1. Contract!Push(r)
  BY DEF Contract!Push, Started, Working, EverMade, AtWork
<1>2. r \in RevisionsOf({"new", "active", "succeeded", "failed", "gone"})
  BY DEF Started, EverMade
<1> QED BY <1>1, <1>2 DEF Step, Contract!Next

\* A status was written.
LEMMA Reports ==
  ASSUME Started' = Started, Working' = Working, pushed' = pushed,
         ma.gen # 0, ma'.gen = ma.gen, ma'.uid = ma.uid,
         ma'.st.obs \in ma.st.obs .. ma.gen,
         ma'.st.phase = "Succeeded" =>
           \E r \in pushed : r.uid = ma.uid /\ r.gen =< ma'.st.obs,
         ma'.st.phase \in {"Failed", "Running"} =>
           \E r \in Started : r.uid = ma.uid /\ r.gen =< ma'.st.obs,
         0 =< ma'.st.obs,
         ma.st.phase \in Terminal => ma'.st.phase = ma.st.phase,
         ma'.st.digest = NoRev \/ (ma'.st.digest \in pushed /\ ma'.st.digest.uid = ma.uid),
         ma'.st.digest = NoRev => ma.st.digest = NoRev,
         (ma'.st.digest = NoRev) = (ma'.st.ref = NoRev)
  PROVE  Step
<1> USE DEF Started, Working, EverMade, AtWork
<1>0. Contract!NoRev = NoRev /\ Contract!Terminal = Terminal
  BY DEF Contract!NoRev, NoRev, Contract!Terminal, Terminal
<1>1. \E r \in Contract!Grounds(ma'.st.phase) : r.gen =< ma'.st.obs
  <2>1. CASE ma'.st.phase = "Succeeded"
    BY <2>1 DEF Contract!Grounds, Contract!Own
  <2>2. CASE ma'.st.phase \in {"Failed", "Running"}
    BY <2>2 DEF Contract!Grounds, Contract!Own
  <2>3. CASE ma'.st.phase \notin {"Succeeded", "Failed", "Running"}
    <3>1. Contract!Grounds(ma'.st.phase) = {NoRev}
      BY <1>0, <2>3 DEF Contract!Grounds
    <3>2. NoRev.gen = 0
      BY DEF NoRev
    <3> QED BY <3>1, <3>2
  <2> QED BY <2>1, <2>2, <2>3
<1>2. ma'.st.digest \in Contract!Own(pushed) \cup {NoRev}
  BY DEF Contract!Own
<1>3. Contract!Finished => ma'.st.phase = ma.st.phase
  BY <1>0 DEF Contract!Finished
<1>4. UNCHANGED <<[uid |-> ma.uid, gen |-> ma.gen], Started, Working, pushed>>
  OBVIOUS
<1>5. Contract!Report
  BY <1>0, <1>1, <1>2, <1>3, <1>4 DEF Contract!Report
<1> QED BY <1>5 DEF Step, Contract!Next

(***************************************************************************)
(* The steps of the controller and its cluster                             *)
(***************************************************************************)
\* One Job changes its state: its pipeline goes on, or has come to an end.
LEMMA JobMoves ==
  ASSUME ArtifactInv, TypeOK', NEW j \in JobId, NEW s \in {"active", "succeeded", "failed", "gone"},
         jobs' = [jobs EXCEPT ![j].st = s], Made(j),
         s = "active" => jobs[j].st \in AtWork, UNCHANGED <<ma, pushed>>
  PROVE  Step
<1>1. jobs \in [JobId -> Job] /\ TypeOK
  BY DEF ArtifactInv, TypeOK, ClusterTypeOK
<1>2. \A i \in JobId : /\ RevOf(jobs'[i]) = RevOf(jobs[i])
                       /\ i # j => jobs'[i].st = jobs[i].st
  BY <1>1 DEF Job, RevOf
<1>3. jobs'[j].st = s
  BY <1>1 DEF Job
<1>4. \A i \in JobId : Made(i)' = Made(i)
  BY <1>2, <1>3 DEF Made
<1>5. Started' = Started
  <2>1. \A r : r \in Started' <=> r \in Started
    BY <1>1, <1>2, <1>4, RevisionsAre
  <2> QED BY <2>1, SameElements
<1>6. CASE jobs[j].st \in AtWork /\ s # "active"
  <2>1. \A i \in JobId : jobs[i].st \in AtWork => Live(jobs[i]) /\ jobs[i].uid = 1
    BY DEF ArtifactInv, History, JobsOwned, Made, Live, Exists, AtWork
  <2>2. \A i \in JobId : jobs[i].st \in AtWork => i = j
    BY <1>6, <2>1 DEF ArtifactInv, OneJobInv, AtMostOneLiveJob
  <2>3. RevOf(jobs[j]) \in Working /\ RevOf(jobs[j]) \in Started
    BY <1>1, <1>6, RevisionsAre
  <2>4. \A i \in JobId : jobs'[i].st \notin AtWork
    BY <1>2, <1>3, <1>6, <2>2 DEF AtWork
  <2>5. Working' = {} /\ \A r \in Working : r = RevOf(jobs[j])
    BY <1>1, <2>2, <2>4, RevisionsAre
  <2>6. Working' = Working \ {RevOf(jobs[j])}
    BY <2>5
  <2> QED BY <1>5, <2>3, <2>6, Stops
<1>7. CASE ~(jobs[j].st \in AtWork /\ s # "active")
  <2>1. \A i \in JobId : jobs'[i].st \in AtWork <=> jobs[i].st \in AtWork
    BY <1>2, <1>3, <1>7 DEF AtWork
  <2>2. \A r : r \in Working' <=> r \in Working
    BY <1>1, <1>2, <2>1, RevisionsAre
  <2>3. Working' = Working
    BY <2>2, SameElements
  <2>4. RevOf(ma') = RevOf(ma) /\ StatusOf(ma') = StatusOf(ma)
    BY DEF RevOf, StatusOf
  <2> QED BY <1>5, <2>3, <2>4, Stutters
<1> QED BY <1>6, <1>7

\* A step that leaves the artifact, the Jobs and the registry alone.
LEMMA Unmoved ==
  ASSUME UNCHANGED <<ma, jobs, pushed>>
  PROVE  Step
BY Stutters DEF RevOf, StatusOf, Started, Working, RevisionsOf

\* The Job controller and the kubelet.
LEMMA WorkloadRefines ==
  ASSUME ArtifactInv, TypeOK', NEW j \in JobId, Workload(j)
  PROVE  Step
<1>1. CASE JobStarts(j)
  <2>1. /\ jobs' = [jobs EXCEPT ![j].st = "active"] /\ UNCHANGED <<ma, pushed>>
        /\ Made(j) /\ jobs[j].st \in AtWork
    BY <1>1 DEF JobStarts, Made, AtWork
  <2> QED BY <2>1, JobMoves
<1>2. CASE JobFinishes(j)
  <2>1. /\ jobs' = [jobs EXCEPT ![j].st = pods[j]] /\ UNCHANGED <<ma, pushed>>
        /\ Made(j) /\ pods[j] \in {"succeeded", "failed"}
    BY <1>2 DEF JobFinishes, Made
  <2> QED BY <2>1, JobMoves
<1>3. CASE PodPushes(j)
  <2>1. /\ pods[j] # "none" /\ UNCHANGED <<ma, jobs>>
        /\ pushed' = pushed \cup {RevOf(jobs[j])}
    BY <1>3 DEF PodPushes
  <2>2. Made(j) /\ TypeOK
    BY <2>1 DEF ArtifactInv, History, PushesTold
  <2>3. RevOf(jobs[j]) \in Started
    BY <2>2, RevisionsAre
  <2>4. Started' = Started /\ Working' = Working
    BY <2>1 DEF Started, Working, RevisionsOf
  <2> QED BY <2>1, <2>3, <2>4, Pushes
<1>4. CASE PodStarts(j) \/ PodSucceeds(j) \/ PodFails(j)
  BY <1>4, Unmoved DEF PodStarts, PodSucceeds, PodFails
<1> QED BY <1>1, <1>2, <1>3, <1>4 DEF Workload

\* The garbage collector, and CleanupStaleJobs.
LEMMA RemovalRefines ==
  ASSUME ArtifactInv, TypeOK', NEW j \in JobId,
         Collector(j) \/ (\E r \in Answers : DeleteStaleJob(j, r))
  PROVE  Step
<1>1. CASE UNCHANGED <<ma, jobs, pushed>>
  BY <1>1, Unmoved
<1>2. CASE jobs' = [jobs EXCEPT ![j].st = "gone"] /\ Exists(jobs[j]) /\ UNCHANGED <<ma, pushed>>
  <2>1. Made(j)
    BY <1>2 DEF Exists, Made
  <2> QED BY <1>2, <2>1, JobMoves
<1> QED BY <1>1, <1>2 DEF Collector, CollectJob, ReapJob, ReapPod, DeleteStaleJob

\* The TTL only marks a Job that has ended.
LEMMA ExpiryRefines ==
  ASSUME ArtifactInv, TypeOK', JobExpires
  PROVE  Step
<1>1. PICK j \in JobId : /\ jobs' = [jobs EXCEPT ![j].del = TRUE]
                         /\ UNCHANGED <<ma, pushed>>
  BY DEF JobExpires, TTLExpires
<1>2. jobs \in [JobId -> Job] /\ TypeOK
  BY DEF ArtifactInv, TypeOK, ClusterTypeOK
<1>3. \A i \in JobId : RevOf(jobs'[i]) = RevOf(jobs[i]) /\ jobs'[i].st = jobs[i].st
  BY <1>1, <1>2 DEF Job, RevOf
<1>4. \A i \in JobId : Made(i)' = Made(i)
  BY <1>3 DEF Made
<1>5. \A r : r \in Started' <=> r \in Started
  BY <1>2, <1>3, <1>4, RevisionsAre
<1>6. \A r : r \in Working' <=> r \in Working
  BY <1>2, <1>3, RevisionsAre
<1>7. Started' = Started /\ Working' = Working
  BY <1>5, <1>6, SameElements
<1>8. RevOf(ma') = RevOf(ma) /\ StatusOf(ma') = StatusOf(ma)
  BY <1>1 DEF RevOf, StatusOf
<1> QED BY <1>1, <1>7, <1>8, Stutters

\* EnsureJob starts a pipeline when none is at work, for a revision that was not
\* pushed.
LEMMA CreateRefines ==
  ASSUME ArtifactInv, TypeOK', NEW j \in JobId, NEW r \in Answers, CreateJob(j, r)
  PROVE  Step
<1> USE DEF ArtifactInv, History
<1>1. /\ pc = "createJob" /\ ~Made(j) /\ UNCHANGED <<ma, pushed>>
      /\ jobs' = jobs \/ jobs' = [jobs EXCEPT ![j] = BuildJob(snap)]
  BY DEF CreateJob, Made
<1>2. CASE jobs' = jobs
  BY <1>1, <1>2, Unmoved
<1>3. CASE jobs' = [jobs EXCEPT ![j] = BuildJob(snap)]
  <2> DEFINE new == RevOf(snap)
  <2>1. jobs \in [JobId -> Job] /\ TypeOK
    BY DEF TypeOK, ClusterTypeOK
  <2>2. /\ jobs'[j] = BuildJob(snap) /\ \A i \in JobId : i # j => jobs'[i] = jobs[i]
    BY <1>3, <2>1
  <2>3. /\ RevOf(jobs'[j]) = new /\ Made(j)' /\ jobs'[j].st \in AtWork
        /\ jobs[j].st \notin AtWork
    BY <1>1, <2>2 DEF BuildJob, RevOf, Made, AtWork
  <2>4. \A i \in JobId : i # j => /\ Made(i)' = Made(i) /\ jobs'[i].st = jobs[i].st
                                  /\ RevOf(jobs'[i]) = RevOf(jobs[i])
    BY <2>2 DEF Made
  <2> HIDE DEF new
  <2>5. \A q : q \in Started' <=> q \in Started \cup {new}
    BY <1>1, <2>1, <2>3, <2>4, RevisionsAre
  <2>6. \A q : q \in Working' <=> q \in Working \cup {new}
    BY <1>1, <2>1, <2>3, <2>4, RevisionsAre
  <2>7. Started' = Started \cup {new} /\ Working' = Working \cup {new}
    BY <2>5, <2>6, SameElements
  <2>8. snap.uid = 1 /\ snap.gen > 0 /\ ma.uid = 1
    BY <1>1, Naturalness DEF RunKnows, GenInv, CreatedOnce
  <2>9. new.uid = 1 /\ new.gen = snap.gen
    BY <2>8 DEF new, RevOf
  <2>10. ma.gen # 0 => new.gen =< ma.gen /\ new \notin pushed
    <3>1. ma.gen # 0 => snap.gen =< ma.gen
      BY <1>1, Naturalness DEF GenInv
    <3> QED BY <1>1, <2>9, <3>1, RevisionIsFresh DEF new
  <2>11. \A w \in Working : w.uid # new.uid
    <3>1. \A i \in JobId : jobs[i].st \notin AtWork
      BY <1>1, <2>8 DEF OneJobInv, NoRival, JobsOwned, Made, Live, Exists, AtWork
    <3> QED BY <2>1, <3>1, RevisionsAre
  <2> HIDE DEF ArtifactInv, History
  <2> QED BY <1>1, <2>7, <2>8, <2>9, <2>10, <2>11, Starts
<1> QED BY <1>1, <1>2, <1>3

\* Users ask for revisions; a deleted artifact tells nothing.
LEMMA UserRefines ==
  ASSUME ArtifactInv, User
  PROVE  Step
<1> USE DEF Started, Working, EverMade, AtWork
<1>1. Started' = Started /\ Working' = Working /\ pushed' = pushed
  BY DEF User, UserCreate, UserEdit, UserDelete, RevisionsOf
<1>2. ma = [uid |-> ma.uid, gen |-> ma.gen, st |-> ma.st]
  BY DEF ArtifactInv, TypeOK, ClusterTypeOK, Artifact
<1>3. CASE UserCreate
  <2>1. ma'.uid = ma.uid + 1 /\ ma'.gen = 1 /\ ma'.st = NoStatus /\ ma.gen = 0
    BY <1>3 DEF UserCreate
  <2>2. ma.st = NoStatus
    BY <2>1 DEF ArtifactInv, History, CreatedOnce
  <2>3. Contract!Create
    BY <1>1, <2>1, <2>2 DEF Contract!Create
  <2> QED BY <2>3 DEF Step, Contract!Next
<1>4. CASE UserEdit
  <2>1. ma' = [uid |-> ma.uid, gen |-> ma.gen + 1, st |-> ma.st] /\ ma.gen # 0
    BY <1>2, <1>4 DEF UserEdit
  <2>2. Contract!Edit
    BY <1>1, <2>1 DEF Contract!Edit
  <2> QED BY <2>2 DEF Step, Contract!Next
<1>5. CASE UserDelete
  <2>1. ma' = [uid |-> ma.uid, gen |-> 0, st |-> NoStatus] /\ ma.gen # 0
    BY <1>2, <1>5 DEF UserDelete
  <2>2. [phase |-> ma'.st.phase, obs |-> ma'.st.obs, digest |-> ma'.st.digest,
         ref |-> ma'.st.ref] = Contract!Unknown
    BY <2>1 DEF NoStatus, NoRev, Contract!Unknown, Contract!NoRev
  <2>3. Contract!Delete
    BY <1>1, <2>1, <2>2 DEF Contract!Delete
  <2> QED BY <2>3 DEF Step, Contract!Next
<1> QED BY <1>3, <1>4, <1>5 DEF User

\* A patch reports what has happened.
LEMMA PatchRefines ==
  ASSUME ArtifactInv, ArtifactInv', NEW r \in Answers, ReconcileFailed(r) \/ PatchStatus(r)
  PROVE  Step
<1>1. /\ UNCHANGED <<jobs, pods, pushed>>
      /\ \/ ma' = ma
         \/ /\ ma.gen # 0 /\ ma'.gen = ma.gen /\ ma'.uid = ma.uid
            /\ ma'.st.obs = snap.gen
            /\ ma.st.phase \in Terminal => ma'.st.phase = ma.st.phase
            /\ ma'.st.digest = NoRev => ma.st.digest = NoRev
  BY PatchWrites
<1>2. CASE ma' = ma
  BY <1>1, <1>2, Unmoved
<1>3. CASE ma' # ma
  <2>1. pc # "idle" /\ TypeOK /\ TypeOK'
    BY DEF ReconcileFailed, PatchStatus, ArtifactInv
  <2>2. ma.uid = 1
    BY <1>1, <1>3 DEF ArtifactInv, History, CreatedOnce
  <2>3. \A q \in pushed : q.uid = 1
    BY DEF ArtifactInv, History, PushesTold, JobsOwned, RevOf
  <2>4. ma'.st.obs \in ma.st.obs .. ma.gen /\ 0 =< ma'.st.obs
    BY <1>1, <1>3, <2>1, Naturalness DEF ArtifactInv, GenInv
  <2>5. StatusHonest' /\ ma'.gen # 0
    BY <1>1, <1>3 DEF ArtifactInv, History
  <2>6. ma'.st.phase = "Succeeded" => \E q \in pushed : q.uid = ma.uid /\ q.gen =< ma'.st.obs
    BY <1>1, <2>2, <2>3, <2>5 DEF StatusHonest, GroundsFor
  <2>7. ma'.st.phase \in {"Failed", "Running"} =>
          \E q \in Started : q.uid = ma.uid /\ q.gen =< ma'.st.obs
    <3> SUFFICES ASSUME ma'.st.phase \in {"Failed", "Running"}
                 PROVE  \E q \in Started : q.uid = ma.uid /\ q.gen =< ma'.st.obs
      OBVIOUS
    <3>1. PICK j \in JobId : Made(j)' /\ jobs'[j].gen =< ma'.st.obs
      BY <2>5 DEF StatusHonest, GroundsFor
    <3>2. Made(j) /\ jobs[j].gen =< ma'.st.obs /\ jobs[j].uid = 1
      BY <1>1, <3>1 DEF Made, ArtifactInv, History, JobsOwned
    <3>3. RevOf(jobs[j]) \in Started
      BY <2>1, <3>2, RevisionsAre
    <3> QED BY <2>2, <3>2, <3>3 DEF RevOf
  <2>8. /\ ma'.st.digest = NoRev \/ (ma'.st.digest \in pushed /\ ma'.st.digest.uid = ma.uid)
        /\ (ma'.st.digest = NoRev) = (ma'.st.ref = NoRev)
    BY <1>1, <2>2, <2>3, <2>5 DEF StatusHonest
  <2>9. Started' = Started /\ Working' = Working
    BY <1>1 DEF Started, Working, RevisionsOf
  <2> QED BY <1>1, <1>3, <2>4, <2>6, <2>7, <2>8, <2>9, Reports
<1> QED BY <1>2, <1>3

\* Every step of the controller and its cluster is one of the contract, or none.
LEMMA StepRefines ==
  ASSUME ArtifactInv, ArtifactInv', [Next]_vars
  PROVE  Step
<1>1. TypeOK /\ TypeOK'
  BY DEF ArtifactInv
<1>2. CASE UNCHANGED <<ma, jobs, pushed>>
  BY <1>2, Unmoved
<1>3. CASE User
  BY <1>3, UserRefines
<1>4. CASE JobExpires
  BY <1>1, <1>4, ExpiryRefines
<1>5. ASSUME NEW j \in JobId, Workload(j) \/ Collector(j)
      PROVE  Step
  BY <1>1, <1>5, WorkloadRefines, RemovalRefines
<1>6. ASSUME NEW j \in JobId, NEW r \in Answers, DeleteStaleJob(j, r) \/ CreateJob(j, r)
      PROVE  Step
  BY <1>1, <1>6, RemovalRefines, CreateRefines
<1>7. ASSUME NEW r \in Answers, ReconcileFailed(r) \/ PatchStatus(r)
      PROVE  Step
  BY <1>7, PatchRefines
<1> QED BY <1>1, <1>2, <1>3, <1>4, <1>5, <1>6, <1>7, StepKinds

\* Nothing has been asked, started or pushed in the beginning.
LEMMA InitRefines ==
  ASSUME Init
  PROVE  Contract!Init
<1>1. ma.uid = 0 /\ ma.gen = 0 /\ ma.st = NoStatus /\ pushed = {}
  BY DEF Init, ClusterInit, NoArtifact
<1>2. \A j \in JobId : jobs[j].st = "absent"
  BY DEF Init, ClusterInit, NoJob
<1>3. /\ RevisionsOf({"new", "active", "succeeded", "failed", "gone"}) = {}
      /\ RevisionsOf({"new", "active"}) = {}
  BY <1>2 DEF RevisionsOf
<1>4. Contract!NoRev = NoRev
  BY DEF Contract!NoRev, NoRev
<1>5. [uid |-> ma.uid, gen |-> ma.gen] = NoRev
  BY <1>1 DEF NoRev
<1>6. [phase |-> ma.st.phase, obs |-> ma.st.obs, digest |-> ma.st.digest,
       ref |-> ma.st.ref] = Contract!Unknown
  <2>1. ma.st = NoStatus
    BY <1>1
  <2>2. /\ NoStatus.phase = "" /\ NoStatus.obs = 0
        /\ NoStatus.digest = NoRev /\ NoStatus.ref = NoRev
    BY DEF NoStatus
  <2> QED BY <1>4, <2>1, <2>2 DEF Contract!Unknown
<1> QED BY <1>1, <1>3, <1>4, <1>5, <1>6 DEF Contract!Init

\* The controller and its cluster do what ArtifactContract says: one pipeline at a
\* time, none for a revision that is in the registry, a status that tells what has
\* happened, moves forward and keeps an outcome, whatever calls fail and whenever
\* the operator restarts (reconcile.go, status.go:41-42).
THEOREM ContractHonoured ==
  ASSUME Watched
  PROVE  Spec => HonoursContract
<1>1. Init => Contract!Init
  BY InitRefines
<1>2. ArtifactInv /\ ArtifactInv' /\ [Next]_vars => [Contract!Next]_(Contract!vars)
  BY StepRefines DEF Step
<1> QED BY <1>1, <1>2, HistoryKept, PTL DEF Spec, HonoursContract, Contract!Spec
=============================================================================
