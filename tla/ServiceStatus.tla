---------------------------- MODULE ServiceStatus ----------------------------
(***************************************************************************)
(* What internal/modelservice decides without calling the cluster: which   *)
(* children a ModelService needs, in which order they are ensured, and the *)
(* phase derived from the serving Deployments.                             *)
(*                                                                         *)
(* A spec is reduced to what the decisions look at, and a tag that stands  *)
(* for everything the children merely carry (image, arguments, resources). *)
(***************************************************************************)
EXTENDS Naturals, Sequences

\* How the operator was started: version is the value of its version label,
\* flags stands for the default images, tracing and the other flags that
\* Deployments carry; gateway: is a default gateway set?
OperatorConfig == [version : Nat, flags : Nat, auth : BOOLEAN,
                   provider : {"none", "gke", "istio"}, gateway : BOOLEAN]

ServiceSpec == [prefill : BOOLEAN, pool : BOOLEAN, route : BOOLEAN,
                monitor : {"unset", "on", "off"}, tag : Nat]

\* Mutant: the EPP Deployment comes first.
PlanEPPFirst ==
  << "decode", "prefill", "epp", "serviceAccount", "configMap", "service",
     "secret", "role", "roleBinding", "clusterRole", "clusterRoleBinding",
     "legacyPool", "pool", "route", "destinationRule", "podMonitorDecode",
     "podMonitorPrefill", "serviceMonitor" >>

(***************************************************************************)
(* The children, in the order reconcileResources ensures them.  legacyPool *)
(* is the InferencePool that older releases named like the EPP.            *)
(***************************************************************************)
Plan == << "decode", "prefill", "serviceAccount", "configMap", "epp", "service",
           "secret", "role", "roleBinding", "clusterRole", "clusterRoleBinding",
           "legacyPool", "pool", "route", "destinationRule", "podMonitorDecode",
           "podMonitorPrefill", "serviceMonitor" >>

Kinds == {Plan[i] : i \in DOMAIN Plan}

Rank(k) == CHOOSE i \in DOMAIN Plan : Plan[i] = k

Deployments == {"decode", "prefill", "epp"}

\* Cluster-scoped: no owner reference, cleaned up through the finalizer.
ClusterKinds == {"clusterRole", "clusterRoleBinding"}

\* Mutants: not all Owns calls.
WatchedWorkloads == {"decode", "prefill", "epp"}
WatchedConfig == {"serviceAccount", "configMap", "service", "secret", "role",
                  "roleBinding", "legacyPool", "pool", "route"}

\* The kinds whose events enqueue their owner (the Owns calls).
Watched == {"decode", "prefill", "serviceAccount", "configMap", "epp", "service",
            "secret", "role", "roleBinding", "legacyPool", "pool", "route"}

NeedsPrefill(spec) == spec.prefill

NeedsSecret(spec, op) == spec.pool /\ op.auth /\ op.provider # "gke"

NeedsClusterRBAC(spec, op) == spec.pool /\ op.auth

NeedsRoute(spec, op) == spec.route \/ op.gateway

NeedsDestinationRule(op) == op.provider = "istio"

\* PodMonitors are made unless they are switched off, the ServiceMonitor only
\* when they are switched on.
NeedsPodMonitor(spec) == spec.monitor # "off"

NeedsServiceMonitor(spec) == spec.pool /\ spec.monitor = "on"

Needs(k, spec, op) ==
  CASE k = "prefill" -> NeedsPrefill(spec)
    [] k = "secret" -> NeedsSecret(spec, op)
    [] k \in ClusterKinds -> NeedsClusterRBAC(spec, op)
    [] k = "legacyPool" -> FALSE
    [] k = "route" -> NeedsRoute(spec, op)
    [] k = "destinationRule" -> NeedsDestinationRule(op)
    [] k = "podMonitorDecode" -> NeedsPodMonitor(spec)
    [] k = "podMonitorPrefill" -> NeedsPodMonitor(spec) /\ NeedsPrefill(spec)
    [] k = "serviceMonitor" -> NeedsServiceMonitor(spec)
    [] OTHER -> TRUE

\* Children in which nothing but the name of the service is of its spec.
Invariable == {"serviceAccount", "secret", "roleBinding", "clusterRole",
               "clusterRoleBinding", "destinationRule", "serviceMonitor"}

\* What a child is built from: the version label is on each, the endpoint
\* picker and its ServiceMonitor depend on the metrics authentication.
Contents == [spec : Nat, version : Nat, flags : Nat, auth : BOOLEAN]

Content(k, spec, op) ==
  [spec |-> IF k \in Invariable THEN 0 ELSE spec.tag,
   version |-> op.version,
   flags |-> IF k \in Deployments THEN op.flags ELSE 0,
   auth |-> k \in {"epp", "serviceMonitor"} /\ op.auth]

(***************************************************************************)
(* ObserveStatus: replicas wanted and ready, from the Deployments found.   *)
(***************************************************************************)
RoleStatus == [found : BOOLEAN, desired : Nat, ready : Nat]

NotFound == [found |-> FALSE, desired |-> 0, ready |-> 0]

Derived(phase, ready, reason) == [phase |-> phase, ready |-> ready, reason |-> reason]

\* Mutant: a phase of its own while there is no Deployment.
DerivePhaseUnknown(decode, prefill) == Derived("Unknown", "False", "DeploymentNotFound")

DerivePhase(decode, prefill) ==
  LET desired == decode.desired + prefill.desired
      ready   == decode.ready + prefill.ready
  IN  CASE ~decode.found -> Derived("Pending", "False", "DeploymentNotFound")
        [] decode.found /\ ready = 0 /\ desired > 0 ->
             Derived("Running", "False", "PodsStarting")
        [] decode.found /\ ready # 0 /\ ready < desired ->
             Derived("Running", "False", "PartiallyReady")
        [] OTHER -> Derived("Ready", "True", "AllReplicasReady")
=============================================================================
