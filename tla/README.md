# A TLA+ verification of the model operator

The model operator is a Kubernetes operator with two controllers. The
*ModelArtifact* controller imports a model, packs it and pushes it to an OCI
registry, by running one Job per revision of the artifact's spec. The
*ModelService* controller keeps up to eighteen child objects that serve a model
(two vLLM Deployments, an endpoint picker called EPP with its configuration and
permissions, a pool, a route, monitors) as a spec asks for.

Both are level-triggered loops over state they share with users, with Kubernetes'
own controllers and with their own past runs; they read it through caches that
may be behind, and change it by calls that may fail, conflict or get lost. Unit
tests run them one call after the other, without a cache. That is the part these
models are about.

## 1. Inventory

| Component | State | Operations | Modelled in |
|---|---|---|---|
| ModelArtifact controller (`internal/controller/modelartifact_controller.go`, `internal/modelartifact/reconcile.go`) | none of its own: the artifact's status, its Jobs and workspace PVC in the API server | `Reconcile`, `reconcileResources`, `EnsurePVC`, `EnsureJob`, `CleanupStaleJobs`, `DeletePVC`, `updateStatus`, `setReadyConditionFalse` | `ModelArtifact` |
| Job observation (`internal/modelartifact/status.go`) | none (pure) | `ObserveJobStatus`, `extractTerminationMessage`, `isJobFailed` | `ArtifactStatus` |
| Pipeline Job (`internal/modelartifact/job.go`) | the Job, its Pod, the PVC | runs import, pack, push; writes the digest to the termination log | `ArtifactCluster` (partly) |
| ModelService controller (`internal/controller/modelservice_controller.go`, `internal/modelservice/reconcile.go`) | none of its own: finalizer and status of the service, the children | `Reconcile`, `ensureFinalizer`, `handleDeletion`, `reconcileResources`, fourteen `Ensure...`, `ensureResource`, `ensureClusterResource`, `cleanupTyped`, `cleanupClusterTyped`, `updateStatus` | `ModelService` |
| Plan and phase (`internal/modelservice/status.go`, conditions in `reconcile.go`) | none (pure) | which child is needed, `derivePhase` | `ServiceStatus` |
| Names and labels (`internal/modelservice/helpers.go`, `internal/labels/labels.go`) | none (pure) | `SanitizeDNS1035Label`, `EPPName`, `EPPClusterRBACName`, `Selector`, `Standard`, `PodLabelsForRole`, ... | `ResourceNames`, `ServingObjects` |
| Manifest builders (`deployment.go`, `epp_*.go`, `inferencepool.go`, `httproute.go`, ...) | none (pure) | `Build...`, `ConfigMapHash`, `PluginsConfigFile` | `ServingObjects` (partly) |
| Services of one namespace: objects that refer to each other, and the Pods made from them | the objects and Pods in the cluster, which operator is installed | edits, upgrades, the worker's runs, rollouts | `ServingRollout` |
| Operator process (`cmd/main.go`) | its flags and version | starts both controllers | restarts and upgrades, in the controllers' modules (partly) |
| GPU counts, `config/`, tests | - | - | not modelled (section 8) |

**Interactions.** The two controllers do not talk to each other. Each talks to the
API server: writes go there, reads (`Get`, `List`) come from the manager's informer
caches. Watches turn changes into keys of a work queue; one worker per controller
takes a key and runs `Reconcile`; an error, or `RequeueAfter`, puts the key back.
A change of an artifact or a service counts only if its generation changed
(`GenerationChangedPredicate`); owned Jobs, and nine kinds of a service's children,
enqueue their owner. Pods and PVCs are read and never watched for events. Owner references
let the garbage collector delete children; ClusterRoles and ClusterRoleBindings
have none, so a finalizer on the service stands for it.

**What is hard here**, with the properties it asks for (the full list, at the
lines where it bites, is `hazards` in `PROJECT.json`):

* reads from old copies: at most one live Job; nothing cluster-scoped leaks;
  observedGeneration does not go back; a status is not left wrong because a patch
  was skipped;
* a call that fails, or succeeds and says it failed, between any two steps, and a
  restart there: nothing pushed is run again, an outcome stays, Ready is not
  claimed over children of another generation;
* edits while a Job, a Pod, a workspace of the previous generation still exist;
* deletion and recreation while a run still works on the old object;
* things that must happen without an event that says so: the digest, the
  workspace, the repair of a deleted child, the phase that follows Pods;
* the Job's TTL, which removes the evidence of an outcome;
* names that are made from names, and two services that meet under one;
* objects that must agree although they are written one by one (ports, selectors,
  the configuration and its hash, roles and what needs them), while edits and upgrades
  change them and Pods of several templates are up;
* a controller whose own writes are events for it: its runs must come to an end.

## 2. Modules

```
ArtifactStatus <- ArtifactCluster <- ModelArtifact <- ArtifactRefinement <- MCModelArtifact
   ^      ^                              ^                   : INSTANCE
   |      +-- ArtifactContract ..........|...................:
   |                                     +-- ModelArtifact_proofs <- ArtifactSafety_proofs <-+
   +--------- MCArtifactStatus <- ArtifactStatus_proofs                                      |
                                         ArtifactRefinement (above) <- ArtifactRefinement_proofs

ServiceStatus <-+- ModelService <- MCModelService
                |       ^-- ModelService_proofs
                +- ServingObjects <- ServingRollout <- MCServingRollout
ResourceNames <-+                         ^-----------------------+
   ^    +- MCResourceNames                                        |
   +--- ResourceNames_proofs <------------------- ServingRollout_proofs <- ServingSettled_proofs
```

**ArtifactStatus** is `status.go` as operators. A digest is named by the revision
that produced it: the uid of the artifact and its generation. The Go loop over
container statuses is stated as a choice (`Outlives`: the first of the latest, or
the last while no finish time is known), and `MCArtifactStatus` checks that this
is what the loop, written as a loop, computes.

**ArtifactCluster** is the environment of one artifact name: `ma`, `jobs`, `pods`,
`pvc` in the API server, a cache of each, the work queue, and `pushed`, a history
variable with the revisions whose pipeline has pushed. Its actions are users
(create, edit, delete), the Job controller and kubelet (`JobStarts` ...
`JobFinishes`), the TTL, the garbage collector with the finalizers that delay it
(a PVC stays while a running Pod uses it), and the informers. A pipeline pushes some time before its
Pod ends (`PodPushes`): one that succeeds has pushed, one that fails may have.

**ModelArtifact** is the controller. `pc` names the next API call; each call is one
action, and a cache read is the action that decides what comes next:

| Action | Code |
|---|---|
| `FetchArtifact` | `Get` and the first decisions of `reconcileResources` (finished, spec changed, otherwise) |
| `ListStaleJobs`, `DeleteStaleJob`, `DeleteStaleWorkspace` | `CleanupStaleJobs`, `DeletePVC`, the early return |
| `EnsurePVC`, `FindJob`, `CreateJob` | `EnsurePVC`, `EnsureJob` |
| `ReconcileFailed` | `handleReconcileError`, `setReadyConditionFalse` |
| `ObserveStatus`, `PatchStatus`, `PatchStatusNotFound` | `updateStatus` |
| `ReleaseWorkspace` | the end of `Reconcile`: `DeletePVC`, and the requeue while the digest is missing |
| `Crash` | the operator restarts: local state is lost, caches are filled, initial events enqueue |

A write is answered `ok`, `rejected` (an error, no effect) or `lost` (an error,
with effect). A merge patch sends the fields that differ from the copy the run
started with and applies to whatever object has the name (`Merge`).

**ArtifactContract** is the abstract specification: what somebody who reads an
artifact may rely on, without Jobs, Pods, caches and calls. It has five variables:
the revision asked for, the status, and the revisions whose pipeline was started,
is at work, and has pushed. Pipelines run one at a time, never for a revision that is in
the registry already, and a status moves to later generations only, tells what has
happened to this artifact, keeps an outcome until the next edit, and names a digest only of
something pushed. It allows what the code does and `artifact_ready_edit` shows: a status
may report the outcome of an earlier generation as that of the current one.

**ArtifactRefinement** is the mapping: a pipeline is started when its Job is created
and at work until the Job ends or is removed (`RevisionsOf`); the status is the one in
the API server. `HonoursContract` says that every step of the controller and
its cluster is a step of the contract, or none.

**ServiceStatus** holds what the service controller decides without a call: `Plan`,
the order of the children; `Needs`, which of them a spec asks for, under the
operator's configuration; `Watched`; `Content`, the part of the spec a child
carries (a tag, as contents are data; the operator's version label and flags; the metrics
authentication); `DerivePhase`. `OperatorConfig` is how the operator was started: a
restart (`Crash`) may choose another one.

**ModelService** is the controller of one service. `GetChild`, `CreateChild`,
`UpdateChild`, `UpdateNotFound`, `WriteConflict` and `DeleteChild` are the calls of
`ensureDeployment`, `ensureResource`, `ensureClusterResource`, `cleanupTyped` and
`cleanupClusterTyped`, made for each child in the order of `Plan`; `AddFinalizer`,
`RemoveFinalizer` and `FinalizerConflict` are the finalizer; `ObserveDecode`,
`ObservePrefill`, `StatusUnchanged`, `PatchStatus` are `updateStatus`. An update
fails when the object is not the copy that was read (`kids[k] # held`), a create
when it exists. A Deployment read from the server always differs from a built one, by the
defaults it was given, and a DestinationRule is not compared at all: both are
updated in every run (`NeedsUpdate`). For the other kinds whether defaults make a
difference is left open: they may be updated or not. `Tracked` selects the
children a run follows; the others are as if they were always fine.

**ResourceNames** is the naming part of `helpers.go` over sequences of symbols.
A symbol stands for a letter, a digit, a separator, or a run of letters such as
`epp`. It also says what the API server takes for a name: `IsLabel` for a Service,
`IsObjectName` for the rest. What the Go code does symbol by symbol is stated by positions:
`Kept(s, P)` is what is left of `s` at the positions `P`, so that dropping a character that is
not allowed, and `strings.ReplaceAll(s, "--", "-")` until nothing changes, are a choice of
positions, and `strings.Trim` is a `SubSeq`. That says what the loops do, without recursion.

**ServingObjects** is what the `Build...` functions make of a spec and an operator, as
records: labels and selectors as functions, containers with the ports they listen on and the port
they expect the next one on, volumes and mounts, the EPP's arguments that refer to something,
permissions as pairs of a resource and a verb, the references between objects by name, and the
configuration hash as the content it is a hash of. Everything nothing refers to is the spec's
`tag`. `Key` is the type and name under which the API server keeps a child.

**ServingRollout** composes them: the services of one namespace, their objects by key,
and the Pods of each Deployment (one for all replicas). One worker takes services from
the queue; `StartRound` reads the spec, `Ensure` brings the next child that is not as it
should be up to date, in the order of `Plan`; `Fail` ends a run at any point; the events of owned
objects queue their owner again. A child is read and written in one step here, which
`ModelService` does in two: what a write in between makes of the run is what `Fail` does.
`PodStarts` and `PodStops` are the Deployment controller: rolling for the serving
Deployments, `Recreate` for the EPP, whose Pod keeps the configuration it found when it
started. `Upgrade` installs a later operator, which may have another version label,
other built-in plugin configurations under the same label, and other flags. The
API server refuses (`Accepts`) names that are not legal, mounts without a volume, selectors that
do not match their template, a Service with one port twice, roles that grant more than the operator
may do, and changes of immutable fields; what else it would refuse is not modelled. `Keys`, `Bodies` and `Valid` are tables,
over all names, specs and operators, of what the builders return; `Table` makes TLC fill them once.

The `MC...` modules add what only runs need: enumerations of inputs, the specs
users choose from, and the claims of comments that the code does not keep.

**Caches.** `Lagging` names the kinds whose cache may be arbitrarily old. The cache
of another kind follows every change before anything else happens (`UpToDate`
guards all other actions). So each run says which staleness it is about. A lagging
cache moves to the latest state at once: two changes may be seen as one.

## 3. Runs that pass

All are made by TLC over the whole state space of the bounds in the `.cfg`.

| Run | Bounds | Shows |
|---|---|---|
| `status_loop` | all lists of three containers, three finish times, all Job statuses and earlier phases | `LoopAgrees`, `ListOrderIrrelevant`, `OutcomeSurvivesTTL` |
| `artifact_failures` | two generations, one failing or lost call, one restart, old copies of Pods | `AtMostOneLiveJob`, `StaleJobsCleaned`, `TerminalIsStable`, `NoPipelineAfterPush`, `ObservedGenerationMonotone`, `HonoursContract`, `RestsWhenTold`, `TypeOK` |
| `artifact_completes` | one generation, one failing call, old copies of Pods | `Completes`, `DigestRecorded`, `OrphansCollected` |
| `artifact_edits_live` | two generations, old copies of the artifact | `WorkspaceReleased`, `StatusCatchesUp`, `ObservedGenerationMonotone` |
| `service_all_kinds` | all eighteen children, two specs, two generations, one failing call | `ReadyMatches`, `PrerequisitesFirst` |
| `service_converge` | two specs, two generations, one failing call, one child deleted by somebody, Pods that come and go, no PodMonitor CRD | `ChildrenConverge`, `ReadyFollowsPods`, `BlockedIsReported`, `RestsWhenDone` |
| `service_deleted` | two services of one name after another, one failing call, one restart that may be an upgrade and switch the metrics authentication off, old copies of the service | `ClusterRBACHeld`, `DeletionCompletes`, `NothingRemains`, `ChildrenConverge`, `RestsWhenDone`, `TypeOK` |
| `service_serving` | all names of five of six symbols; services of one name, two specs (all defaults, everything set), three operators one after the other, two edits, upgrades or failures; or a neighbour whose name is that of the service's EPP | `SanitizedIsLabel`, `WritesAccepted`, `PodsAdopted`, `PoolSelectsOwnServers`, `NeighboursApart`, `Settles`, `PodsReachable`, `PickerReachable`, `PickerEquipped`, `PodsScraped`, `TypeOK` |

`PodsReachable`, `PickerReachable`, `PickerEquipped` and `PodsScraped` are about
settled states: nothing queued, no run, no rollout to go on. `Settles` says that such
a state is reached, so that they are not empty. `WritesAccepted`, `PodsAdopted`,
`PoolSelectsOwnServers` and `NeighboursApart` hold in every state on the way.

`RestsWhenTold` and `RestsWhenDone` say of the two controllers that they do not stop too early:
when nothing is queued and no run is under way, the status tells what there is to tell, and
the children are as the spec asks for. They are the safety half of the liveness
properties (`DigestRecorded`, `WorkspaceReleased`, `StatusCatchesUp`, `ChildrenConverge`), which add that
the controllers do come to rest; and being safety properties they can be proved.

**Bounds.** Two generations are the least with a stale Job; two uids the least
with a recreation; two Jobs show a duplicate. One failure and one restart may fall
at every point of the run, and a
lost call with a restart is the deepest case the code's recovery distinguishes;
repeating them restarts the same loop from a state that was reached already.
A service's children are independent but for their order, so that the runs follow
those that matter to the property, with a Deployment among them; `service_all_kinds` follows
all, with Deployments scaled to zero to keep Pods out of the count. All runs
switch the deadlock check off: a cluster in which nothing is left to do, or in
which the users have used up their edits, does stop, and so does an enumeration of
inputs.

In `service_serving` two specs that differ in everything the builders look at are the ends of every
edit, a first and a second change fall at every point of the first run and rollout, and two changes are
the least for an edit, or an upgrade, that meets another one half way. The neighbour comes without
other changes: the two of them already interleave at every step. Three operators are an upgrade under the same
version label and one under another.

**Fairness.** The worker runs as long as its queue holds a key or a run is under
way; informers deliver; Pods that can start do, and end; the garbage collector
works. This is what controller-runtime's worker and Kubernetes' own control
loops do. Users, failures and restarts owe nothing, and the ten-hourly resync is
not assumed. The service's worker has strong fairness because
Pods may toggle for ever and `UpToDate` then holds only now and then, an artefact
of the model: no event stops the worker in the program. In
`ServingRollout` the worker and the rollouts (Deployment controller and kubelets) are weakly fair, each
as a whole: neither is ever prevented from going on for good.

**Preconditions worth knowing.** They are what the code needs to keep the
promise, found by dropping them:

* `AtMostOneLiveJob` needs an up-to-date List of Jobs. A run that follows closely
  on the one that created the Job does not see it in an older List, and
  `GenerateName` lets a second one be made: two pipelines on one workspace.
* `StaleJobsCleaned`, `NoPipelineAfterPush` and `TerminalIsStable` need up-to-date
  copies of the artifact: one from before the last status patch shows an artifact
  that never ran, so that neither the outcome nor the change of the spec is seen.
* `StaleJobsCleaned` is about histories without a failed call or a restart,
  and one use of the name. When a call of the cleanup fails, the error path
  records the generation as observed; the retry then sees no change and adopts
  the old Job. A status patch in flight when the artifact is
  deleted and created again lands on the new one and may hide its first edit.
* `ObservedGenerationMonotone`, for the same reason, is about one use of the name. It is checked with
  copies of the artifact of any age (`artifact_edits_live`), and with failures and a restart
  (`artifact_failures`); the theorem covers both together, and old copies of all kinds.
* `StatusCatchesUp` and `WorkspaceReleased` are checked with old copies of the artifact, one use of the
  name and no failed call or restart. After a restart the caches are filled and every artifact is queued; what
  is left to do then `RestsWhenTold` says with `artifact_failures`.
* `Completes` and `DigestRecorded` are about the first generation. When the first
  run fails before it creates the Job and the spec is edited, the next
  run takes the cleanup path, deletes nothing, and ends without requeueing: no event
  follows, and the artifact stays in `JobNotCreated`. (The comment at
  `modelartifact_controller.go:126` counts on "the next reconciliation loop".)
  And an edit of a finished artifact is never run, see section 4.
* `WorkspaceReleased`, and what `RestsWhenTold` says of the workspace, is about histories
  without a failed call, as the error of the last `DeletePVC` is only logged.
* `RestsWhenTold` promises a Job or an outcome for the first generation only, for the reasons given with
  `Completes`, and needs up-to-date copies of the artifact and of its Jobs: a retry that reads a
  status from before its own last patch may find nothing to write.
* `NoPipelineAfterPush` needs that the TTL does not remove a Job before its
  outcome is recorded (`EagerTTL = FALSE`).
* `ClusterRBACHeld` needs up-to-date copies of the cluster-scoped children.
* `RestsWhenDone` needs that nobody else removes a child of a kind whose events are not watched:
  ClusterRole, ClusterRoleBinding, DestinationRule, PodMonitors, ServiceMonitor. When somebody
  deletes a PodMonitor, nothing queues the service, and it stays away until another event. For the same
  reason it speaks of a service whose name is used again only when the collector has
  removed what belonged to the earlier one.
  The runs have up-to-date copies of the children; the theorem covers old ones of every watched kind,
  with one use of the name and nobody else removing them.
* `ReadyMatches` and `PrerequisitesFirst` hold while the name is used once:
  children of an earlier service of the name are updated and then collected.
* `ChildrenConverge` and `BlockedIsReported` need Pods that settle: while they
  toggle, updates of their Deployment may conflict again and again.
* `BlockedIsReported` needs up-to-date copies of the service. A retry that reads it
  from before its `ReconcileError` computes the status of that copy, skips the
  patch, and leaves the error on a healthy service until the next event.
* `HonoursContract` needs up-to-date copies of the artifact and of its Jobs, for the
  reasons above, and one use of the name: a patch in flight lands on another artifact.
* `NeighboursApart` exempts one key: the pool that has the name of the service's EPP is
  taken for one of an older release and removed in every run (`reconcile.go:157-163`),
  also when it is the neighbour's. The neighbour's own events bring it back, and
  `Settles` and `PickerReachable` show that this ends with the pool in place.
* `NeighboursApart` also needs services whose EPPs have different names. `a.b` and `a-b` are two
  legal names that sanitize to one label: the services share all EPP objects, and each run
  overwrites those of the other. `LabelsTellApart` proves that names that are labels, without
  two hyphens in a row, are safe.
* `PickerEquipped` needs an operator that only moves forward. When it is rolled
  back between its writes of the ConfigMap and of the EPP Deployment, an EPP Pod that
  starts in between reads the newer file; the next run restores ConfigMap and hash, the
  template is the one the Pod has, and nothing restarts it.
* `PickerEquipped` asks for `tokenreviews` only where the spec has an `inferencePool`: without
  one the EPP is told to authenticate scrapers, but no ClusterRole is made
  (`reconcile.go:442`).
* `PodsScraped` exempts the token of the ServiceMonitor on GKE, where
  `EnsureEPPSATokenSecret` makes none (`reconcile.go:387-389`, `epp_service_monitor.go:40`).
* `PodsScraped` asks for the port of a PodMonitor where the spec names none (it is `http` then, which vLLM
  or the routing proxy has) or names one that the containers of the role have: `http`, `proxy` in decode Pods
  with a routing proxy, `nixl-side` where there is a side channel. `portName` is one setting for both roles and nothing
  validates it (`podmonitor.go:39-41`): with `proxy` the PodMonitor of the prefill Pods scrapes nothing.
* `WritesAccepted` needs an EPP port that is not 9090, the port of the EPP's metrics: nothing validates
  that, and the API server refuses the Service (`epp_service.go:50-62`).
* `PodsReachable` needs a `targetPort` that is not the engine port: nothing validates that.
* `ReadyFollowsPods` asks for exactly the wanted number of ready Pods in each
  role: `derivePhase` compares sums, and a surplus Pod of a rollout in one role
  makes up for a missing one of the other.

## 4. Runs that show a disagreement

Each checks one sentence of a comment, and TLC finds the code doing
something else. `findings` in `PROJECT.json` quotes the sentences.

| Run | What happens |
|---|---|
| `artifact_ready_edit` | The spec of a finished artifact is edited. The cleanup run finds no Job any more and falls back to the recorded phase, Succeeded, under the new generation: Ready is True and the new spec is never run. |
| `artifact_workspace` | The old Pod still mounts the workspace, so that its deletion is pending; `EnsurePVC` takes it for the new one. |
| `service_rbac_leak` | The service is deleted just after its ClusterRoleBinding was created; the cleanup's read does not find it yet, and the finalizer goes. |
| `names_cluster` | Namespace `a`, service `a-a` and namespace `a-a`, service `a` share a ClusterRole. |

Others met while modelling have no run: a failed pipeline is final, while
`job.go:95` says "the controller handles retries"; `Reconcile` of a service also
runs for events of its children and when the operator starts, while `reconcile.go:350` says "only when
ModelService.spec changes" and asks users to patch a spec after an upgrade; and the legacy pool that every run of service `a`
removes (`reconcile.go:157-163`) is the pool of a service `a-epp`, where there is one.

## 5. What is proved

With TLAPS, for all values of the constants: any number of edits, Jobs, failed or lost calls
and restarts, all specs, names and operators. The proofs rest on the named assumptions of the
modules about their constants (bounds are naturals, `Lagging` is a set of kinds, names
are what the API server admits), which TLC evaluates in every run, and on the hypotheses named
below; section 3 says for each what goes wrong without it. Every inductive invariant was
first checked by TLC as an invariant of the bounds of a run. With this every safety property and action property
that a passing run checks is also proved.

| Module | Theorem | States | Assuming |
|---|---|---|---|
| `ArtifactStatus_proofs` | `LoopAlwaysAgrees` | `LoopAgrees`, lists of any length | - |
| | `ListOrderNeverMatters` | `ListOrderIrrelevant` | - |
| | `OutcomeAlwaysSurvives` | `OutcomeSurvivesTTL` | - |
| `ModelArtifact_proofs` | `TypeCorrect` | `TypeOK` | - |
| | `OneLiveJob` | `AtMostOneLiveJob` | Jobs are not `Lagging` |
| | `GenerationsForward` | `ObservedGenerationMonotone` | one use of the name |
| `ArtifactSafety_proofs` | `HistoryKept` | the invariant `ArtifactInv` | `Watched` |
| | `OutcomeStays` | `TerminalIsStable` | `Watched` |
| | `PushedOnce` | `NoPipelineAfterPush` | `Watched` |
| | `StaleJobsGone` | `StaleJobsCleaned` | `Watched` |
| | `RestsToldAlways` | `RestsWhenTold` | `Watched` |
| `ArtifactRefinement_proofs` | `ContractHonoured` | `HonoursContract` | `Watched` |
| `ModelService_proofs` | `TypeCorrect` | `TypeOK` | - |
| | `ClusterRBACIsHeld` | `ClusterRBACHeld` | cluster-scoped kinds are not `Lagging` |
| | `ReadyIsTrue` | `ReadyMatches` | `Undisturbed` |
| | `EPPPrerequisites` | `PrerequisitesFirst` | `Undisturbed`, the three kinds are tracked |
| | `NeverRestsTooEarly` | `RestsWhenDone` | `Attended` |
| `ResourceNames_proofs` | `SanitizedLabel`, `LabelKept`, `EPPNamesDiffer` | what the naming functions return, for names of any length | - |
| `ServingRollout_proofs` | `RolloutKept`, `RolloutTyped` | the invariant `RolloutInv`, `TypeOK` | - |
| | `PodsStayAdopted` | `PodsAdopted` | - |
| | `PoolsSelectOwnServers` | `PoolSelectsOwnServers` | - |
| | `SpelledIsSanitized` | `SanitizedIsLabel` | - |
| | `NeighboursKeptApart` | `NeighboursApart` | `NamesTellApart` |
| | `WritesAlwaysAccepted` | `WritesAccepted` | `EPPPortsApart` |
| `ServingSettled_proofs` | `TendedKept` | the invariant `TendedInv` | `NamesTellApart` |
| | `ServersReachable` | `PodsReachable` | `NamesTellApart`, `PortsApart` |
| | `PickersReachable` | `PickerReachable` | `NamesTellApart` |
| | `ServersScraped` | `PodsScraped` | `NamesTellApart` |
| | `PickersEquipped` | `PickerEquipped` | `NamesTellApart`, `BuildsForward` |

`Watched` is what `artifact_failures` checks under: the artifact is created once, its copy and
that of its Jobs are up to date (Pods and workspace may be old), and the TTL does not overtake the record
of an outcome. `Undisturbed` is what `service_all_kinds` checks under: one use of the name, copies
of the children up to date, nobody else changes them, one operator configuration; the copy of
the service itself may be old. `Attended` says of each child that its kind is watched, and somebody else may
remove it or its copy may be old, but not both; that its kind is not watched, and neither happens; or that its
kind is not installed, and there are none of it. It covers
what `service_converge` and `service_deleted` check under: recreation, old copies of the service, restarts as
another version, children removed by others. `NamesTellApart` says that no two services have EPPs of one name
(`LabelsTellApart` gives a condition on the names for it), `PortsApart` that with a routing proxy the
`targetPort` is not the engine port, `EPPPortsApart` that the EPP's port is not that of its metrics, `BuildsForward` that a later operator does not bring back the
built-in configurations of an earlier one. None of this bounds the number of edits, failures or
restarts.

**One live Job** (`OneJobInv`). The property is not inductive: a Job is created some steps
after the List that found none. The invariant adds that while `pc = "createJob"` no live
Job belongs to the artifact the run read, which holds since only this worker creates Jobs, the
other steps only remove them, and the List was up to date.

**Generations** (`GenInv`) orders all copies: the generation in a copy, whatever its age, is at
most the object's, and the observed generation is at most that of the next copy a
patch may be computed from.

**The history of an artifact** (`History`). That an outcome stays, or that a pipeline is not
run twice, depends on what was true many steps ago: the Job that pushed may be gone and
only the status remembers. The parts say how each memory vouches for the next:

* `PushesTold`: what was pushed was pushed by a Job of that revision, and a Pod or Job that
  succeeded has pushed.
* `StatusHonest`, `ObservationHonest`: a recorded phase, and one about to be
  recorded, has a Job of that or an earlier generation as its ground, agrees with the live Job's outcome,
  and names only digests of what was pushed. The two need each other: a status is honest since the observation was, and
  nothing is observed in between (`RunKnows`).
* `GoneIsOld`: unless the outcome is recorded, a Job that is gone was for an earlier generation,
  so that creating a Job does not repeat it.
* `Woken`: as long as a Job that ended is not yet in the status, something will
  look at it before the TTL may remove it: an event, a cache that is behind, or a run on its
  way. Without it `GoneIsOld` is not inductive.

`StaleJobsGone` adds `Clean`: what a run between its cleanup and its patch relies on.

**Rest of an artifact** (`ToldInv`, next to `ArtifactInv`). As long as the artifact is not queued again, the run
under way has read the current generation, and one that has passed its patch has recorded it (`Told`); what
it observed is in the status when it ends, and it ends for good only with the digest of a success
(`Digested`) and, unless that call failed, without the workspace of an outcome (`GivenBack`). A first
generation cannot take the cleanup path, so that its run ends with a Job, which stays until its
outcome has been told: that the TTL comes later is `Woken` once more (`FirstRuns`).

**The refinement.** `ContractHonoured` maps each action of `ModelArtifact` to a step of
`ArtifactContract` or to a stutter. The events that move the contract are few: `CreateJob` starts a
pipeline, `JobFinishes`, the TTL, the cleanup and the garbage collector end one,
the Pod pushes, a patch reports. `RevisionsAre` relates the sets of
revisions before and after a step to the Jobs; `ArtifactInv` gives the guards: one
live Job is the contract's one pipeline at a time, `GoneIsOld` and `PushesTold` that it is
not for a pushed revision, `StatusHonest` and `ObservationHonest` that the report is true.

**Cluster-scoped children** (`RBACInv`). The run that creates one decided so
with a copy of the service that may be old, and the run that drops the finalizer looked at each child in an
earlier step. The invariant adds that a copy which has the finalizer and is not
being deleted tells the truth about both (`Faithful`: only the worker drops a finalizer, and only
for a copy that is being deleted), that a run past the finalizer holds such a copy (`RunHolds`), and that a
run which cleans up leaves behind it only children that are gone (`CleaningUp`). Recreation,
restarts as another version, and arbitrarily old copies of the service are included.

**Ready** (`ReadyInv`). A run judges children one by one, long before it writes the condition and
for the spec it has read. The invariant adds that the children it is done with fit that spec
(`Ensured`), that a copy of the current generation has the current spec (`Agrees`), and that no condition is
of a later generation than the copy in the run's hands (`ConditionOrder`), so that a run which
still changes children cannot be behind a condition that is True already.

**Rest of a service** (`RestInv`). `RestsWhenDone` speaks of the end of a run, the invariant of every step before.
As long as the service is not queued again, the run under way, or the last one, has read the revision the cache
has (`Looked`), and for each child it is done with somebody vouches (`Vouched`): the child
fits the spec, or its kind is watched and the copy fits, so that when the two differ an event is on its way that
queues the service. For that the event must find the owner it belongs to (`Owned`), and one revision
must mean one spec (`Ordered`), in copies of any age. What the worker reads of a child and writes
later needs no more: a write that meets another object fails, and a failure queues the service.
Of a kind that is not installed there are no children to vouch for (`NoneMissing`): a run stops when it reads such a kind
(`Readable`).

**Names.** What is proved about sequences of any length needs an induction. It is done by the
least counterexample: a set of naturals that is not empty has a least element (`LeastNumber`, from the
well-foundedness theorems of the library), which is a first-order statement. `UptoOnto` shows so
that the positions of `Kept` are counted without gaps; `LoopRuns` and `LoopHolds` that the loop over
container statuses can be run over every list and holds, after each, the message that outlives the
others.

**Objects of a namespace** (`RolloutInv`). Whatever was written, by whichever operator and for
whichever spec, every object is one a builder returns for its key (`ObjsBuilt`), and every
Pod has a template built for its Deployment (`PodsBuilt`). With that the properties are
about two builds of any spec, release and name each: lemmas say which labels each builder sets,
`SelectsOwnPods`, `PoolSelectsServers` and `KeysApart` that selectors and keys tell roles and services apart,
`ImmutableIsOfKey` that what the API server does not let change depends on the key alone (two services may share a key:
not the immutable part of it), and `BuildsValid` that every build is valid: legal names, volumes for all
mounts, selectors that match the template, ports that differ, rules the operator has itself.
Labels are joined with `Joined`, an explicit function, as the provers cannot expand
TLC's `@@`.

**Settled states** (`TendedInv`). What a run has passed fits the spec it has read (`RoundDone`), that spec is
the service's unless it is queued again (`RoundCurrent`), and every child of a service that is
neither queued nor in a run fits (`Tended`): is there and has the body the builder makes of the spec under the
installed operator, or is not there where none is needed. The one object a neighbour may
remove is a pool, and pools have owners, whom the event queues (`PoolsOwned`). When the rollouts have
ended too, each Pod has the template of its Deployment, and the properties are about two
builds of one spec: that the port a pool targets is the one the routing proxy or vLLM listens on, a
probe, a Service or a monitor asks for one that is open, what is mounted is there, and roles name what
the EPP reads. Two facts are about the past: an EPP Deployment is recreated and not rolled, so that there is
one picker at most (`OnePicker`); and the ConfigMap is written before the EPP Deployment that carries its
hash, so that the file an EPP Pod read when it started is never older than its template, nor newer once
the rollout has ended (`ConfigInv`: `ConfigFirst` for the objects, `Informed` for the Pods).

## 6. What is only model-checked

* Liveness: `Completes`, `DigestRecorded`, `OrphansCollected`, `WorkspaceReleased`, `StatusCatchesUp`,
  `ChildrenConverge`, `ReadyFollowsPods`, `BlockedIsReported`, `DeletionCompletes`, `NothingRemains`,
  `Settles`. Temporal properties under fairness, and `ENABLED`, are out of reach of the
  provers used.
* The disagreements of section 4, which are about one behaviour each.

## 7. Plan

Done: all modules of section 2, and the theorems of section 5.

Next:

1. `ReadyMatches` with an operator that is upgraded, where it is about the version in
   the run's hands.
2. `ClusterRBACNameUnique` for names without a hyphen.

Extensions of the environment left: foreground deletion, Pods deleted by somebody,
a registry whose tag the generations share, rollbacks of the operator, lengths of names.

## 8. Not modelled

* `cmd/main.go`: TLS, metrics, probes and scheme set-up; leader election, which the deployment
  manifest switches on (`config/manager/manager.yaml:55`): one worker per controller.
* Images, environment variables, resources, probes, security contexts of manifests, messages of
  conditions, events: data that no property distinguishes. The selector labels
  of an artifact are taken to find the Jobs of its name.
* `GPUCount` and `InjectGPUResources`: a product of two settings, copied into limits. A property
  would restate the multiplication, which is done in 32 bits without a check.
* Settings of a spec that no other object has to agree with: paths and intervals of monitors,
  failure modes, matches of an explicit route.
* Start and completion times in the artifact's status.
* Reads that fail: they come from a local cache. The exception is a kind whose CRD
  is not installed (`Missing`).
* Foreground deletion, several workers, name lengths: see the plan.
