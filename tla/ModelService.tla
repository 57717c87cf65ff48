---------------------------- MODULE ModelService ----------------------------
(***************************************************************************)
(* The ModelService controller (internal/controller/                       *)
(* modelservice_controller.go, internal/modelservice/reconcile.go) for one *)
(* service name, with the objects it creates.                              *)
(*                                                                         *)
(* Reconcile adds its finalizer, ensures every child in turn and derives   *)
(* the status; on deletion it removes the cluster-scoped children and then *)
(* the finalizer.  A child is read from a cache in one step and written in *)
(* another.  Updates carry the resourceVersion of the copy that was read,  *)
(* so they fail when the object has changed since; creates fail when the   *)
(* object exists; deletes and patches go to whatever has the name.         *)
(***************************************************************************)
EXTENDS ServiceStatus, FiniteSets

CONSTANTS Specs,       \* the specs users may set
          Operators,   \* how the operator may be started
          Tracked,     \* the kinds of children followed
          Lagging,     \* what the caches may be behind on: kinds, "ms"
          Missing,     \* the kinds whose CRD is not installed
          Replicas,    \* replicas of each serving Deployment
          MaxReady,    \* ready Pods of one (more than Replicas in a rollout)
          MaxUid, MaxGen, MaxDrift, MaxErrors, MaxCrashes

ASSUME SpecsAssumption == Specs \subseteq ServiceSpec /\ Specs # {}
ASSUME OperatorsAssumption == Operators \subseteq OperatorConfig /\ Operators # {}
ASSUME KindsAssumption == /\ Tracked \subseteq Kinds /\ "decode" \in Tracked
                          /\ (\E s \in Specs : s.prefill) => "prefill" \in Tracked
                          /\ Lagging \subseteq Kinds \cup {"ms"}
                          /\ Missing \subseteq Kinds
ASSUME LimitsAssumption ==
  /\ Replicas \in Nat /\ MaxReady \in Nat
  /\ MaxUid \in Nat /\ MaxGen \in Nat
  /\ MaxDrift \in Nat /\ MaxErrors \in Nat /\ MaxCrashes \in Nat

VARIABLES
  ms,        \* the ModelService in the API server
  kids,      \* its children there
  cMs, cKids,  \* the informer caches
  queue,     \* is its key in the work queue?
  pc,        \* the next call of Reconcile
  snap,      \* ms as Reconcile read it
  todo,      \* the children still to be ensured or cleaned up
  held,      \* the copy of the current child
  seen,      \* the serving Deployments as ObserveStatus read them
  op,        \* the operator's configuration
  drift, errs, crashes  \* how often others interfered, and failures so far

api  == <<ms, kids>>
caches == <<cMs, cKids>>
local == <<snap, todo, held, seen>>
counters == <<drift, errs, crashes>>
others == <<op, counters>>
vars == <<api, caches, queue, pc, local, others>>

Phases == {"", "Pending", "Running", "Ready"}
Reasons == {"", "DeploymentNotFound", "PodsStarting", "PartiallyReady",
            "AllReplicasReady", "ReconcileError"}
Condition == [status : {"", "True", "False"}, reason : Reasons, gen : Nat]
Status == [phase : Phases, obs : Nat, cond : Condition,
           decode : [desired : Nat, ready : Nat], prefill : [desired : Nat, ready : Nat]]

\* gen is 0 when there is no object; del: it has a deletionTimestamp; fin: it
\* has the cluster-RBAC finalizer.
Service == [uid : Nat, gen : Nat, del : BOOLEAN, fin : BOOLEAN,
            spec : Specs, st : Status]

\* uid is that of the owner, 0 for the cluster-scoped children; from is what the
\* child was built from; ready counts a Deployment's ready Pods.
Child == [exists : BOOLEAN, uid : Nat, from : Contents, ready : Nat]

NoCounts == [desired |-> 0, ready |-> 0]
NoStatus == [phase |-> "", obs |-> 0,
             cond |-> [status |-> "", reason |-> "", gen |-> 0],
             decode |-> NoCounts, prefill |-> NoCounts]
NoContent == [spec |-> 0, version |-> 0, flags |-> 0, auth |-> FALSE]
NoChild == [exists |-> FALSE, uid |-> 0, from |-> NoContent, ready |-> 0]

Steps == {"idle", "addFinalizer", "get", "create", "update", "delete", "fail",
          "observeDecode", "observePrefill", "patch", "removeFinalizer"}

\* Every variable holds a value the program can hold.
TypeOK ==
  /\ ms \in Service /\ cMs \in Service /\ snap \in Service
  /\ kids \in [Tracked -> Child] /\ cKids \in [Tracked -> Child]
  /\ queue \in BOOLEAN
  /\ pc \in Steps
  /\ todo \subseteq Tracked
  /\ held \in Child
  /\ op \in Operators
  /\ seen \in [decode : RoleStatus, prefill : RoleStatus]
  /\ drift \in 0 .. MaxDrift /\ errs \in 0 .. MaxErrors /\ crashes \in 0 .. MaxCrashes

Fresh(uid, gen, spec) == [uid |-> uid, gen |-> gen, del |-> FALSE, fin |-> FALSE,
                          spec |-> spec, st |-> NoStatus]

Absent(uid) == Fresh(uid, 0, CHOOSE s \in Specs : TRUE)

Unseen == [decode |-> NotFound, prefill |-> NotFound]

Alive == ms.gen # 0 /\ ~ms.del

Init ==
  /\ ms = Absent(0) /\ cMs = ms /\ snap = ms
  /\ \E left \in SUBSET (Tracked \cap {"legacyPool"}) :
       kids = [k \in Tracked |-> [NoChild EXCEPT !.exists = k \in left]]
  /\ cKids = kids
  /\ queue = FALSE
  /\ pc = "idle" /\ todo = {} /\ held = NoChild /\ seen = Unseen
  /\ op \in Operators
  /\ drift = 0 /\ errs = 0 /\ crashes = 0

(***************************************************************************)
(* The cluster: events, users, the Deployment controller, the collector.   *)
(***************************************************************************)
UpToDate ==
  /\ "ms" \in Lagging \/ cMs = ms
  /\ \A k \in Tracked : k \in Lagging \/ cKids[k] = kids[k]

\* Setting the deletionTimestamp increments the generation too.
SyncService ==
  /\ cMs # ms
  /\ cMs' = ms
  /\ queue' = (queue \/ ms.uid # cMs.uid \/ ms.gen # cMs.gen)
  /\ UNCHANGED <<api, cKids, pc, local, others>>

SyncChild(k) ==
  /\ cKids[k] # kids[k]
  /\ cKids' = [cKids EXCEPT ![k] = kids[k]]
  /\ queue' = (queue \/ (k \in Watched /\ (kids[k].uid # 0 \/ cKids[k].uid # 0)))
  /\ UNCHANGED <<api, cMs, pc, local, others>>

\* The periodic resync replays an update of every cached child; the service's
\* own is dropped, as its generation is the same.
Resync ==
  /\ ~queue /\ \E k \in Tracked \cap Watched : cKids[k].exists /\ cKids[k].uid # 0
  /\ queue' = TRUE
  /\ UNCHANGED <<api, caches, pc, local, others>>

UserCreate ==
  /\ ms.gen = 0 /\ ms.uid < MaxUid
  /\ \E s \in Specs : ms' = Fresh(ms.uid + 1, 1, s)
  /\ UNCHANGED <<kids, caches, queue, pc, local, others>>

UserEdit ==
  /\ Alive /\ ms.gen < MaxGen
  /\ \E s \in Specs \ {ms.spec} : ms' = [ms EXCEPT !.gen = @ + 1, !.spec = s]
  /\ UNCHANGED <<kids, caches, queue, pc, local, others>>

UserDelete ==
  /\ Alive
  /\ ms' = IF ms.fin THEN [ms EXCEPT !.gen = @ + 1, !.del = TRUE]
                     ELSE Absent(ms.uid)
  /\ UNCHANGED <<kids, caches, queue, pc, local, others>>

\* Somebody deletes a child.
Drift(k) ==
  /\ drift < MaxDrift /\ kids[k].exists
  /\ drift' = drift + 1
  /\ kids' = [kids EXCEPT ![k] = NoChild]
  /\ UNCHANGED <<ms, caches, queue, pc, local, op, errs, crashes>>

\* A Pod of a serving Deployment becomes ready, or is no longer.
PodsChange(k) ==
  /\ k \in Deployments \ {"epp"} /\ kids[k].exists
  /\ \E n \in 0 .. MaxReady :
       n # kids[k].ready /\ kids' = [kids EXCEPT ![k].ready = n]
  /\ UNCHANGED <<ms, caches, queue, pc, local, others>>

\* The garbage collector removes what belongs to an object that is gone.
Collect(k) ==
  /\ kids[k].exists /\ kids[k].uid # 0
  /\ ms.gen = 0 \/ ms.uid # kids[k].uid
  /\ kids' = [kids EXCEPT ![k] = NoChild]
  /\ UNCHANGED <<ms, caches, queue, pc, local, others>>

Deliver == SyncService \/ \E k \in Tracked : SyncChild(k)

Environment ==
  \/ Resync
  \/ UserCreate \/ UserEdit \/ UserDelete
  \/ \E k \in Tracked : Drift(k) \/ PodsChange(k) \/ Collect(k)

(***************************************************************************)
(* Calls.  A write is answered "ok", "rejected" (an error, and nothing     *)
(* happened) or "lost" (an error, although the API server did it).         *)
(***************************************************************************)
Answers == {"ok", "rejected", "lost"}

Answer(r) == /\ r # "ok" => errs < MaxErrors
             /\ errs' = IF r = "ok" THEN errs ELSE errs + 1
             /\ UNCHANGED <<op, drift, crashes>>

Applied(r) == r # "rejected"

\* Mutant: an error is swallowed instead of returned.
ReturnWithoutRetry(again) ==
  /\ pc' = "idle"
  /\ UNCHANGED queue
  /\ snap' = Absent(0) /\ todo' = {} /\ held' = NoChild /\ seen' = Unseen

\* Reconcile returns; with an error its key is queued again.
Return(again) ==
  /\ pc' = "idle"
  /\ queue' = (queue \/ again)
  /\ snap' = Absent(0) /\ todo' = {} /\ held' = NoChild /\ seen' = Unseen

(***************************************************************************)
(* Reconcile: the finalizer                                                *)
(***************************************************************************)
\* Mutant: the role is left behind.
CleanedUpNoRole == {"clusterRoleBinding"} \cap Tracked

\* What handleDeletion removes: the rest is left to the garbage collector.
CleanedUp == ClusterKinds \cap Tracked

AfterFetch(s) ==
  IF s.del THEN IF ~s.fin THEN "idle"
                ELSE IF CleanedUp = {} THEN "removeFinalizer" ELSE "get"
  ELSE IF s.fin THEN "get" ELSE "addFinalizer"

FetchService ==
  /\ pc = "idle" /\ queue
  /\ queue' = FALSE
  /\ IF cMs.gen = 0 \/ AfterFetch(cMs) = "idle"
     THEN UNCHANGED <<pc, snap, todo>>
     ELSE /\ snap' = cMs
          /\ todo' = IF cMs.del THEN CleanedUp ELSE Tracked
          /\ pc' = AfterFetch(cMs)
  /\ UNCHANGED <<api, caches, held, seen, others>>

\* ensureFinalizer: Update sends the whole object as it was read, and it comes
\* back with the finalizer.
AddFinalizer(r) ==
  /\ pc = "addFinalizer" /\ snap = ms
  /\ Answer(r)
  /\ ms' = IF Applied(r) THEN [ms EXCEPT !.fin = TRUE] ELSE ms
  /\ IF r = "ok" THEN pc' = "get" /\ snap' = ms' /\ UNCHANGED <<queue, todo, held, seen>>
                 ELSE Return(TRUE)
  /\ UNCHANGED <<kids, caches>>

\* handleDeletion, after the cluster-scoped children: with its last finalizer
\* the object goes.
RemoveFinalizer(r) ==
  /\ pc = "removeFinalizer" /\ snap = ms
  /\ Answer(r)
  /\ ms' = IF Applied(r) THEN Absent(ms.uid) ELSE ms
  /\ Return(r # "ok")
  /\ UNCHANGED <<kids, caches>>

\* The object has changed, or gone, since it was read.
FinalizerConflict ==
  /\ pc \in {"addFinalizer", "removeFinalizer"} /\ snap # ms
  /\ Return(TRUE)
  /\ UNCHANGED <<api, caches, others>>

(***************************************************************************)
(* reconcileResources, and the cleanup in handleDeletion: one child after  *)
(* the other.                                                              *)
(***************************************************************************)
\* The current child.
Current(k) == k \in todo /\ \A other \in todo : Rank(k) <= Rank(other)

Wants(k) == ~snap.del /\ Needs(k, snap.spec, op)

\* Mutant: no owner reference is set.
BuildChildUnowned(k) == [exists |-> TRUE, uid |-> 0, from |-> Content(k, snap.spec, op),
                         ready |-> 0]

BuildChild(k) == [exists |-> TRUE, uid |-> IF k \in ClusterKinds THEN 0 ELSE snap.uid,
                  from |-> Content(k, snap.spec, op), ready |-> 0]

Advance(k) ==
  /\ todo' = todo \ {k} /\ held' = NoChild
  /\ pc' = IF todo # {k} THEN "get"
           ELSE IF snap.del THEN "removeFinalizer" ELSE "observeDecode"
  /\ UNCHANGED <<queue, snap, seen>>

\* An error ends the round: reconcileResources has it reported in the status,
\* handleDeletion only returns it.
Abort ==
  IF snap.del THEN Return(TRUE) ELSE pc' = "fail" /\ UNCHANGED <<queue, local>>

\* Mutants: changed children are left alone; a missing CRD is no error.
NeedsUpdateNever(k, child) == FALSE
UnreadableNever(k) == FALSE

\* Would the desired state change the copy?  The DestinationRule is not
\* compared, and a Deployment read from the API server always differs from a
\* built one, by the defaults it has been given.
NeedsUpdate(k, child) ==
  \/ k \in Deployments \cup {"destinationRule"}
  \/ child.from # Content(k, snap.spec, op)

\* Get fails when a wanted kind is not installed; cleanupTyped ignores that.
Unreadable(k) == k \in Missing /\ Wants(k)

\* What follows from the copy: server defaults may make other kinds differ too.
AfterGet(k, child) ==
  CASE Wants(k) /\ ~child.exists -> {"create"}
    [] Wants(k) /\ child.exists  ->
         IF NeedsUpdate(k, child) THEN {"update"} ELSE {"update", "next"}
    [] ~Wants(k) /\ child.exists -> {"delete"}
    [] OTHER -> {"next"}

GetChild(k) ==
  /\ pc = "get" /\ Current(k)
  /\ IF Unreadable(k) THEN Abort
     ELSE \E step \in AfterGet(k, cKids[k]) :
            IF step = "next" THEN Advance(k)
            ELSE pc' = step /\ held' = cKids[k] /\ UNCHANGED <<queue, snap, todo, seen>>
  /\ UNCHANGED <<api, caches, others>>

CreateChild(k, r) ==
  /\ pc = "create" /\ Current(k) /\ ~kids[k].exists
  /\ Answer(r)
  /\ kids' = IF Applied(r) THEN [kids EXCEPT ![k] = BuildChild(k)] ELSE kids
  /\ IF r = "ok" THEN Advance(k) ELSE Abort
  /\ UNCHANGED <<ms, caches>>

\* The copy is sent back with the new content; owner and status stay.
UpdateChild(k, r) ==
  /\ pc = "update" /\ Current(k) /\ kids[k].exists /\ kids[k] = held
  /\ Answer(r)
  /\ kids' = IF Applied(r) THEN [kids EXCEPT ![k].from = Content(k, snap.spec, op)] ELSE kids
  /\ IF r = "ok" THEN Advance(k) ELSE Abort
  /\ UNCHANGED <<ms, caches>>

\* ensureResource and ensureClusterResource create a child that has gone since
\* it was read; ensureDeployment and EnsureEPPDeployment do not.
UpdateNotFound(k) ==
  /\ pc = "update" /\ Current(k) /\ ~kids[k].exists
  /\ IF k \in Deployments THEN Abort ELSE pc' = "create" /\ UNCHANGED <<queue, local>>
  /\ UNCHANGED <<api, caches, others>>

\* AlreadyExists, or a resourceVersion that is not the current one.
WriteConflict(k) ==
  /\ Current(k) /\ kids[k].exists
  /\ pc = "create" \/ (pc = "update" /\ kids[k] # held)
  /\ Abort
  /\ UNCHANGED <<api, caches, others>>

\* Delete goes by name.  EnsureInferencePool drops the errors of the legacy one.
DeleteChild(k, r) ==
  /\ pc = "delete" /\ Current(k)
  /\ Answer(r)
  /\ kids' = IF Applied(r) THEN [kids EXCEPT ![k] = NoChild] ELSE kids
  /\ IF r = "ok" \/ k = "legacyPool" THEN Advance(k) ELSE Abort
  /\ UNCHANGED <<ms, caches>>

(***************************************************************************)
(* Status                                                                  *)
(***************************************************************************)
\* Status().Patch with MergeFrom(base): only the fields that differ are sent,
\* and they are applied to whatever object has the name now.
Merge(base, new, current) ==
  LET Field(f) == IF new[f] = base[f] THEN current[f] ELSE new[f]
  IN  [phase |-> Field("phase"), obs |-> Field("obs"), cond |-> Field("cond"),
       decode |-> Field("decode"), prefill |-> Field("prefill")]

PatchService(new) == ms' = [ms EXCEPT !.st = Merge(snap.st, new, ms.st)]

\* The status setReadyConditionFalse writes.
NotReady(s) ==
  [s.st EXCEPT !.obs = s.gen,
               !.cond = [status |-> "False", reason |-> "ReconcileError", gen |-> s.gen]]

\* handleReconcileError: an error of the patch is only logged.
ReconcileFailed(r) ==
  /\ pc = "fail"
  /\ Answer(r)
  /\ IF ms.gen = 0 \/ ~Applied(r) THEN UNCHANGED ms ELSE PatchService(NotReady(snap))
  /\ Return(TRUE)
  /\ UNCHANGED <<kids, caches>>

\* getDeploymentStatus
Observed(k) ==
  IF cKids[k].exists
  THEN [found |-> TRUE, desired |-> Replicas, ready |-> cKids[k].ready]
  ELSE NotFound

Counts(role) == [desired |-> role.desired, ready |-> role.ready]

NewStatus ==
  LET o == DerivePhase(seen.decode, seen.prefill)
  IN  [phase |-> o.phase, obs |-> snap.gen,
       cond |-> [status |-> o.ready, reason |-> o.reason, gen |-> snap.gen],
       decode |-> Counts(seen.decode), prefill |-> Counts(seen.prefill)]

ObserveDecode ==
  /\ pc = "observeDecode"
  /\ seen' = [seen EXCEPT !.decode = Observed("decode")]
  /\ pc' = IF snap.spec.prefill THEN "observePrefill" ELSE "patch"
  /\ UNCHANGED <<api, caches, queue, snap, todo, held, others>>

ObservePrefill ==
  /\ pc = "observePrefill"
  /\ seen' = [seen EXCEPT !.prefill = Observed("prefill")]
  /\ pc' = "patch"
  /\ UNCHANGED <<api, caches, queue, snap, todo, held, others>>

\* updateStatus: nothing is sent when nothing has changed.
StatusUnchanged ==
  /\ pc = "patch" /\ NewStatus = snap.st
  /\ Return(FALSE)
  /\ UNCHANGED <<api, caches, others>>

PatchStatus(r) ==
  /\ pc = "patch" /\ NewStatus # snap.st /\ ms.gen # 0
  /\ Answer(r)
  /\ IF Applied(r) THEN PatchService(NewStatus) ELSE UNCHANGED ms
  /\ Return(r # "ok")
  /\ UNCHANGED <<kids, caches>>

PatchStatusNotFound ==
  /\ pc = "patch" /\ NewStatus # snap.st /\ ms.gen = 0
  /\ Return(TRUE)
  /\ UNCHANGED <<api, caches, others>>

Reconcile ==
  \/ FetchService
  \/ FinalizerConflict
  \/ \E k \in Tracked : GetChild(k) \/ UpdateNotFound(k) \/ WriteConflict(k)
  \/ \E k \in Tracked, r \in Answers :
       CreateChild(k, r) \/ UpdateChild(k, r) \/ DeleteChild(k, r)
  \/ ObserveDecode \/ ObservePrefill \/ StatusUnchanged \/ PatchStatusNotFound
  \/ \E r \in Answers : \/ AddFinalizer(r) \/ RemoveFinalizer(r)
                        \/ ReconcileFailed(r) \/ PatchStatus(r)

\* The operator restarts, perhaps as another version or with other flags: the run
\* in progress is lost, the informers list everything again, and their initial
\* events fill the queue.
Crash ==
  /\ crashes < MaxCrashes
  /\ op' \in Operators
  /\ crashes' = crashes + 1
  /\ pc' = "idle" /\ snap' = Absent(0) /\ todo' = {} /\ held' = NoChild /\ seen' = Unseen
  /\ cMs' = ms /\ cKids' = kids
  /\ queue' = (ms.gen # 0 \/ \E k \in Tracked \cap Watched : kids[k].uid # 0)
  /\ UNCHANGED <<api, drift, errs>>

Next == \/ Deliver
        \/ UpToDate /\ (Reconcile \/ Environment \/ Crash)

Spec == Init /\ [][Next]_vars

(***************************************************************************)
(* Fairness: the worker runs, events are delivered and the garbage         *)
(* collector works.  The worker's fairness is strong because Pods may      *)
(* change for ever and UpToDate then holds only now and then: in the       *)
(* program no event stops the worker.  Users, Pods and failures owe        *)
(* nothing, and no property is to wait for a resync, every ten hours.      *)
(***************************************************************************)
Fairness ==
  /\ SF_vars(UpToDate /\ Reconcile)
  /\ WF_vars(SyncService)
  /\ \A k \in Tracked : WF_vars(SyncChild(k)) /\ WF_vars(UpToDate /\ Collect(k))

FairSpec == Spec /\ Fairness

(***************************************************************************)
(* Safety                                                                  *)
(***************************************************************************)
\* No cluster-scoped child outlives its ModelService, nor exists while the
\* finalizer that will clean it up is not in place, whatever call fails and
\* whenever the operator restarts (modelservice_controller.go:86-88), provided
\* the copies of those children that are cleaned up are up to date.
ClusterRBACHeld ==
  \A k \in ClusterKinds \cap Tracked : kids[k].exists => ms.gen # 0 /\ ms.fin

\* The errors of removing the legacy pool are dropped: it may stay for ever.
Children == Tracked \ {"legacyPool"}

Matches(k) ==
  IF Needs(k, ms.spec, op)
  THEN /\ kids[k].exists
       /\ kids[k].from = Content(k, ms.spec, op)
       /\ k \in ClusterKinds \/ kids[k].uid = ms.uid
  ELSE ~kids[k].exists

\* A Ready condition that is True for the current generation is never about
\* children of another: updateStatus comes after reconcileResources, and a
\* failure of one child leaves the condition False
\* (modelservice_controller.go:108-117).
ReadyMatches ==
  Alive /\ ms.st.cond.status = "True" /\ ms.st.cond.gen = ms.gen
    => \A k \in Children : Matches(k)

\* The worker has nothing to do and every event has been delivered.
AtRest == ~queue /\ pc = "idle" /\ cMs = ms /\ cKids = kids

\* The controller never stops, with a child wrong that it could still put right, and
\* waits for an event that will not come: an error, an edit behind its back, a restart as
\* another version or a child that was taken away has always queued the service again
\* (modelservice_controller.go:309-322).  The collector has removed what belonged to an
\* earlier service.
RestsWhenDone ==
  AtRest /\ Alive /\ (\A k \in Children \ ClusterKinds : kids[k].exists => kids[k].uid = ms.uid)
    => \A k \in Children : Matches(k)

(***************************************************************************)
(* What a step may never do                                                *)
(***************************************************************************)
\* The EPP Deployment of an existing ModelService is created only when the
\* ServiceAccount and the ConfigMap it refers to are there
\* (modelservice_controller.go:155-156).
PrerequisitesFirst ==
  [][~kids["epp"].exists /\ kids'["epp"].exists /\ ms.gen # 0 /\ ms.uid = kids'["epp"].uid
       => kids["serviceAccount"].exists /\ kids["configMap"].exists]_vars

(***************************************************************************)
(* Liveness                                                                *)
(***************************************************************************)
\* A kind that is not installed stops the run: the children after it wait.
Reached(k) ==
  \A m \in Missing \cap Tracked : Needs(m, ms.spec, op) => Rank(k) < Rank(m)

PodsSettle == <>[][\A k \in Tracked : kids'[k].ready = kids[k].ready]_kids

\* Once users, failures and Pods leave the service alone, its children are, and
\* stay, what the spec asks for, deleted ones being made again: their events
\* reach their owner (modelservice_controller.go:303-306).
ChildrenConverge ==
  PodsSettle => <>[](Alive => \A k \in Children : Reached(k) => Matches(k))

\* A deletion ends, the finalizer does not hold the object for ever.
DeletionCompletes == (ms.gen # 0 /\ ms.del) ~> (ms.gen = 0 \/ ~ms.del)

\* Nothing of a deleted service remains, its own children by the garbage
\* collector, the cluster-scoped ones by the finalizer, although a Reconcile
\* may still be creating some (modelservice_controller.go:86-88).
NothingRemains ==
  (ms.gen = 0) ~> (ms.gen # 0 \/ \A k \in Children : ~kids[k].exists)

\* Every run of such a service ends before updateStatus.
Blocked == \E k \in Missing \cap Tracked : Needs(k, ms.spec, op)

Serving ==
  Alive /\ ~Blocked /\ \A k \in {"decode", "prefill"} \cap Tracked :
             Needs(k, ms.spec, op) => kids[k].exists /\ kids[k].ready = Replicas

\* When all Pods of the serving Deployments are ready, and stay so, the Ready
\* condition says it in the end, and keeps saying it (status.go:115-137).
ReadyFollowsPods ==
  <>[]Serving => <>[](ms.st.cond.status = "True" /\ ms.st.obs = ms.gen)

\* A child that cannot be ensured, because its CRD is not installed, shows in
\* the Ready condition of every generation that wants it, and of no other
\* (modelservice_controller.go:225-229).
BlockedIsReported ==
  PodsSettle => <>[](Alive => (Blocked <=> ms.st.cond.reason = "ReconcileError"))
=============================================================================
