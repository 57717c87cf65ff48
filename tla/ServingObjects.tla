--------------------------- MODULE ServingObjects ---------------------------
(***************************************************************************)
(* The objects internal/modelservice builds for one ModelService: labels,  *)
(* selectors, ports, volumes, permissions, and the names by which they     *)
(* refer to each other.  What nothing refers to (arguments, environment,   *)
(* resources, probes) is left to the tag of the spec.                      *)
(*                                                                         *)
(* Labels are functions from keys to values.  Numbers of a spec that are   *)
(* not set are 0.                                                          *)
(***************************************************************************)
EXTENDS ServiceStatus, ResourceNames

ServingSpec ==
  [prefill : BOOLEAN, pool : BOOLEAN, route : BOOLEAN,
   monitor : {"unset", "on", "off"},
   portName : {"unset", "http", "proxy", "nixl-side", "other"}, tag : Nat,
   enginePort : Nat, proxy : BOOLEAN, targetPort : Nat,
   eppPort : Nat, eppReplicas : Nat \ {0},
   sideChannel : Nat, model : BOOLEAN, pullSecret : BOOLEAN]

\* build is the operator's program, with its built-in plugin configurations. Its
\* version label is set at link time, and "devel" if it is not.
ServingOperator ==
  [version : Nat, build : Nat, flags : Nat, kit : BOOLEAN, auth : BOOLEAN,
   provider : {"none", "gke", "istio"}, gateway : BOOLEAN]

(***************************************************************************)
(* Labels                                                                  *)
(***************************************************************************)
Without(labels, keys) == Restrict(labels, DOMAIN labels \ keys)

\* Both maps in one; where they differ the first one decides.
Joined(f, g) ==
  [key \in DOMAIN f \cup DOMAIN g |-> IF key \in DOMAIN f THEN f[key] ELSE g[key]]

\* What the API server does with a label selector.
Selects(selector, labels) ==
  \A key \in DOMAIN selector : key \in DOMAIN labels /\ labels[key] = selector[key]

Selector(name, component) ==
  [name |-> name, component |-> component,
   partOf |-> "otterscale-system", managedBy |-> "model-operator"]

\* An empty version label is left out.
Standard(name, component, version) ==
  IF version = 0 THEN Selector(name, component)
  ELSE Joined(Selector(name, component), [version |-> version])

Component(role) == IF role = "decode" THEN "model-decode" ELSE "model-prefill"

\* Mutant: the role and its component are left out.
SelectorLabelsForRoleShared(name, role) ==
  Joined(Without(Selector(name, "any"), {"component"}),
         [inferenceServing |-> "true", model |-> name])

SelectorLabelsForRole(name, role) ==
  Joined(Selector(name, Component(role)),
         [inferenceServing |-> "true", model |-> name, role |-> role])

LabelsForRole(name, role, version) ==
  Joined(Standard(name, Component(role), version), [inferenceServer |-> "true"])

PodLabelsForRole(name, role, version) ==
  Joined(Without(LabelsForRole(name, role, version), {"inferenceServer"}),
         [inferenceServing |-> "true", role |-> role, model |-> name])

\* Mutant: the pool selects by the name alone.
InferencePoolSelectorLabelsByName(name) ==
  Without(Selector(name, "model-decode"), {"component"})

\* No role: decode and prefill Pods are in the pool.
InferencePoolSelectorLabels(name) ==
  Joined(Without(Selector(name, "model-decode"), {"component"}),
         [inferenceServing |-> "true", model |-> name])

\* The metadata of the route and of the pool.
RouteLabels(name, version) == Standard(name, "epp", version)

EPPLabels(name, version) == Standard(EPPName(name), "epp", version)

EPPSelectorLabels(name) == Selector(EPPName(name), "epp")

(***************************************************************************)
(* The serving Deployments                                                 *)
(***************************************************************************)
EnginePort(spec) == IF spec.enginePort > 0 THEN spec.enginePort ELSE 8000

RoutingProxyTargetPort(spec) == IF spec.targetPort > 0 THEN spec.targetPort ELSE 8200

Proxied(spec, role) == role = "decode" /\ spec.proxy

\* Mutant: vLLM keeps the port the proxy listens on.
VLLMPortKept(spec, role) == EnginePort(spec)

\* Behind the routing proxy vLLM leaves the engine port to it.
VLLMPort(spec, role) ==
  IF Proxied(spec, role) THEN RoutingProxyTargetPort(spec) ELSE EnginePort(spec)

Port(name, number) == [name |-> name, number |-> number]

\* VLLM_NIXL_SIDE_CHANNEL_PORT is exposed if it is a port, and another one.
SideChannelPorts(spec, role) ==
  {Port("nixl-side", p) : p \in {spec.sideChannel} \ {0, VLLMPort(spec, role)}}

\* next is the port on which a container expects the one behind it.
VLLMContainer(spec, role) ==
  [name |-> "vllm", listens |-> VLLMPort(spec, role), next |-> 0,
   ports |-> {Port("http", VLLMPort(spec, role))} \cup SideChannelPorts(spec, role),
   mounts |-> {"model"}]

RoutingProxyContainer(spec) ==
  [name |-> "routing-proxy", listens |-> EnginePort(spec),
   next |-> RoutingProxyTargetPort(spec),
   ports |-> {Port("proxy", EnginePort(spec))}, mounts |-> {}]

ModelUnpackContainer(spec) ==
  [name |-> "model-unpack", listens |-> 0, next |-> 0, ports |-> {},
   mounts |-> {"model-tmp", "model"} \cup
              (IF spec.pullSecret THEN {"docker-config"} ELSE {})]

InitContainers(spec, role, op) ==
  {c \in {ModelUnpackContainer(spec)} : op.kit /\ spec.model}
    \cup {c \in {RoutingProxyContainer(spec)} : Proxied(spec, role)}

\* Mutant: the volume of the registry credentials is forgotten.
VolumesNoSecret(spec) == {"model", "model-tmp"}

Volumes(spec) ==
  {"model", "model-tmp"} \cup (IF spec.pullSecret THEN {"docker-config"} ELSE {})

\* flags and tag stand for images, arguments and environment.
BuildDeployment(name, role, spec, op) ==
  [labels   |-> Without(LabelsForRole(name, role, op.version), {"inferenceServer"}),
   selector |-> SelectorLabelsForRole(name, role),
   recreate |-> FALSE,
   template |-> [labels     |-> PodLabelsForRole(name, role, op.version),
                 containers |-> InitContainers(spec, role, op)
                                  \cup {VLLMContainer(spec, role)},
                 volumes    |-> Volumes(spec),
                 tag        |-> <<spec.tag, op.flags>>]]

(***************************************************************************)
(* The endpoint picker.  Without spec.inferencePool it runs as one replica *)
(* on the default port.                                                    *)
(***************************************************************************)
\* Mutant: the port of the spec is forgotten.
EPPPortDefault(spec) == 9002

EPPPort(spec) == IF spec.pool /\ spec.eppPort > 0 THEN spec.eppPort ELSE 9002

EPPReplicas(spec) == IF spec.pool THEN spec.eppReplicas ELSE 1

PluginsConfigFile(spec) == IF spec.prefill THEN "pd-config" ELSE "default-plugins"

\* The one file of the ConfigMap, and which program's text it has.
ConfigData(spec, op) == [file |-> PluginsConfigFile(spec), build |-> op.build]

\* Mutant: the hash does not depend on the text.
ConfigMapHashOfFile(spec, op) == [file |-> PluginsConfigFile(spec), build |-> 0]

\* Another content has another hash.
ConfigMapHash(spec, op) == ConfigData(spec, op)

EPPArgs(name, spec, op) ==
  [pool |-> InferencePoolName(name), file |-> PluginsConfigFile(spec),
   leaderElection |-> EPPReplicas(spec) > 1, auth |-> op.auth, flags |-> op.flags]

EPPContainer(spec) ==
  [name |-> "epp", listens |-> EPPPort(spec), next |-> 0,
   ports |-> {Port("grpc-ext-proc", EPPPort(spec)), Port("grpc-health", 9003),
              Port("http-metrics", 9090)},
   mounts |-> {"epp-config"}]

BuildEPPDeployment(name, spec, op) ==
  LET own == [inferencepool |-> EPPName(name)]
  IN  [labels   |-> EPPLabels(name, op.version),
       selector |-> Joined(EPPSelectorLabels(name), own),
       recreate |-> TRUE,
       template |-> [labels     |-> Joined(own, Joined(EPPLabels(name, op.version),
                                                       EPPSelectorLabels(name))),
                     containers |-> {EPPContainer(spec)},
                     volumes    |-> {"epp-config"},
                     args       |-> EPPArgs(name, spec, op),
                     config     |-> EPPConfigMapName(name),
                     hash       |-> ConfigMapHash(spec, op),
                     account    |-> EPPName(name),
                     tag        |-> IF spec.pool THEN spec.tag ELSE 0]]

BuildEPPServiceAccount(name, op) == [labels |-> EPPLabels(name, op.version)]

BuildEPPConfigMap(name, spec, op) ==
  [labels |-> EPPLabels(name, op.version), data |-> ConfigData(spec, op)]

BuildEPPService(name, spec, op) ==
  [labels   |-> EPPLabels(name, op.version),
   selector |-> EPPSelectorLabels(name),
   ports    |-> {Port("grpc-ext-proc", EPPPort(spec)), Port("http-metrics", 9090)}]

BuildEPPSATokenSecret(name, op) ==
  [labels |-> EPPLabels(name, op.version), account |-> EPPName(name)]

(***************************************************************************)
(* Permissions: pairs of a resource and a verb.                            *)
(***************************************************************************)
Reading == {"get", "list", "watch"}

\* What the EPP may be granted is what the operator may do itself, the objects of
\* its own apart.
OperatorRights ==
  ({"pods", "inferencepools", "inferenceobjectives", "inferencemodelrewrites"} \X Reading)
    \cup ({"leases"} \X (Reading \cup {"create", "update", "patch", "delete"}))
    \cup ({"events"} \X {"create", "patch"})
    \cup ({"tokenreviews", "subjectaccessreviews"} \X {"create"})
    \cup {<<"/metrics", "get">>}

BuildEPPRole(name, spec, op) ==
  [labels |-> EPPLabels(name, op.version),
   rules  |-> ({"pods", "inferencepools", "inferenceobjectives", "inferencemodelrewrites"}
                 \X Reading) \cup
              (IF EPPReplicas(spec) > 1
               THEN ({"leases"} \X (Reading \cup {"create", "update", "patch", "delete"}))
                      \cup ({"events"} \X {"create", "patch"})
               ELSE {})]

BuildEPPRoleBinding(name, op) ==
  [labels |-> EPPLabels(name, op.version), subject |-> EPPName(name),
   roleRef |-> EPPName(name)]

BuildEPPClusterRole(name, op) ==
  [labels |-> EPPLabels(name, op.version),
   rules  |-> ({"tokenreviews", "subjectaccessreviews"} \X {"create"})
                \cup {<<"/metrics", "get">>}]

BuildEPPClusterRoleBinding(namespace, name, op) ==
  [labels |-> EPPLabels(name, op.version), subject |-> EPPName(name),
   roleRef |-> EPPClusterRBACName(namespace, name)]

(***************************************************************************)
(* Routing and monitoring                                                  *)
(***************************************************************************)
BuildDefaultInferencePool(name, spec, op) ==
  [labels |-> RouteLabels(name, op.version), selector |-> InferencePoolSelectorLabels(name),
   target |-> EnginePort(spec), picker |-> EPPName(name), pickerPort |-> 9002]

\* The failure mode is left to the tag.
BuildInferencePool(name, spec, op) ==
  [BuildDefaultInferencePool(name, spec, op) EXCEPT
     !.pickerPort = IF spec.eppPort = 0 THEN 9002 ELSE spec.eppPort]

\* Requests that name the model in a header go to the pool.
BuildHTTPRoute(name, spec, op) ==
  [labels |-> RouteLabels(name, op.version), header |-> name,
   gateway |-> IF spec.route THEN "own" ELSE "default",
   backend |-> InferencePoolName(name)]

BuildDestinationRule(name, op) == [labels |-> EPPLabels(name, op.version), host |-> EPPName(name)]

\* One name for both roles, which nothing compares with the ports of the containers.
MonitorPort(spec) ==
  IF spec.monitor # "unset" /\ spec.portName # "unset" THEN spec.portName ELSE "http"

\* Mutant: the Pods of both roles are scraped as decode Pods.
BuildPodMonitorDecode(name, role, spec, op) ==
  [labels   |-> Without(LabelsForRole(name, role, op.version), {"inferenceServer"}),
   selector |-> SelectorLabelsForRole(name, "decode"), port |-> MonitorPort(spec)]

BuildPodMonitor(name, role, spec, op) ==
  [labels   |-> Without(LabelsForRole(name, role, op.version), {"inferenceServer"}),
   selector |-> SelectorLabelsForRole(name, role), port |-> MonitorPort(spec)]

\* secret: the token it refers to, if any.
BuildEPPServiceMonitor(name, op) ==
  [labels |-> EPPLabels(name, op.version), selector |-> EPPSelectorLabels(name),
   port |-> "http-metrics", secret |-> IF op.auth THEN {EPPSecretName(name)} ELSE {}]

(***************************************************************************)
(* The child of each kind, and its key in the API server.                  *)
(***************************************************************************)
Build(k, namespace, name, spec, op) ==
  CASE k \in {"decode", "prefill"} -> BuildDeployment(name, k, spec, op)
    [] k = "serviceAccount"     -> BuildEPPServiceAccount(name, op)
    [] k = "configMap"          -> BuildEPPConfigMap(name, spec, op)
    [] k = "epp"                -> BuildEPPDeployment(name, spec, op)
    [] k = "service"            -> BuildEPPService(name, spec, op)
    [] k = "secret"             -> BuildEPPSATokenSecret(name, op)
    [] k = "role"               -> BuildEPPRole(name, spec, op)
    [] k = "roleBinding"        -> BuildEPPRoleBinding(name, op)
    [] k = "clusterRole"        -> BuildEPPClusterRole(name, op)
    [] k = "clusterRoleBinding" -> BuildEPPClusterRoleBinding(namespace, name, op)
    [] k = "pool" /\ spec.pool  -> BuildInferencePool(name, spec, op)
    [] k = "pool" /\ ~spec.pool -> BuildDefaultInferencePool(name, spec, op)
    [] k = "route"              -> BuildHTTPRoute(name, spec, op)
    [] k = "destinationRule"    -> BuildDestinationRule(name, op)
    [] k = "podMonitorDecode"   -> BuildPodMonitor(name, "decode", spec, op)
    [] k = "podMonitorPrefill"  -> BuildPodMonitor(name, "prefill", spec, op)
    [] k = "serviceMonitor"     -> BuildEPPServiceMonitor(name, op)

ObjectType(k) ==
  CASE k \in Deployments -> "Deployment"
    [] k \in {"pool", "legacyPool"} -> "InferencePool"
    [] k \in {"podMonitorDecode", "podMonitorPrefill"} -> "PodMonitor"
    [] OTHER -> k

ObjectName(k, namespace, name) ==
  CASE k = "decode" -> DecodeName(name)
    [] k = "prefill" -> PrefillName(name)
    [] k = "configMap" -> EPPConfigMapName(name)
    [] k = "secret" -> EPPSecretName(name)
    [] k \in ClusterKinds -> EPPClusterRBACName(namespace, name)
    [] k = "pool" -> InferencePoolName(name)
    [] k = "route" -> HTTPRouteName(name)
    [] k = "podMonitorDecode" -> PodMonitorName(name, "decode")
    [] k = "podMonitorPrefill" -> PodMonitorName(name, "prefill")
    [] k = "serviceMonitor" -> EPPServiceMonitorName(name)
    [] OTHER -> EPPName(name)

Key(k, namespace, name) == <<ObjectType(k), ObjectName(k, namespace, name)>>
=============================================================================
