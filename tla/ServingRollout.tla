--------------------------- MODULE ServingRollout ---------------------------
(***************************************************************************)
(* The ModelServices of one namespace, the objects made for them and the   *)
(* Pods that serve: what the children of ModelService mean to each other   *)
(* while specs are edited, the operator is upgraded and Pods are replaced. *)
(*                                                                         *)
(* One worker takes services in turn and ensures their children in the     *)
(* order of Plan, from the spec it read first.  A child is read and        *)
(* written in one step here: ModelService shows that a write between the   *)
(* two only makes the run fail and start again, as Fail does.              *)
(*                                                                         *)
(* The API server, Deployments and Pods are modelled from how src/ uses    *)
(* them.                                                                   *)
(***************************************************************************)
EXTENDS ServingObjects

CONSTANTS Alphabet,     \* what users spell names from
          MaxLength,    \* how long they get
          Served,       \* the names they create a service with
          Neighbours,   \* the other services of the namespace
          Specs,        \* their specs
          Releases,     \* the operators that are installed, one after the other
          Namespace,
          MaxChanges

ASSUME AlphabetAssumption == Alphabet \subseteq Symbols /\ MaxLength \in Nat
ASSUME NamesAssumption ==
  \A n \in Served \cup Neighbours : n \in Seq(Symbols) /\ IsObjectName(n)
ASSUME NamespaceAssumption == Namespace \in Seq(Symbols) /\ IsNamespace(Namespace)
ASSUME SpecsAssumption == Specs \subseteq ServingSpec /\ Specs # {}
ASSUME ReleasesAssumption ==
  Releases \in Seq(ServingOperator) /\ Releases # << >>
ASSUME BoundsAssumption == MaxChanges \in Nat

VARIABLES
  spelled,   \* the name a user spells
  services,  \* the spec of each service, by name
  objs,      \* the objects in the API server: owner and body, by key
  pods,      \* the Pods that are up: their Deployment, template, configuration
  release,   \* which operator is running
  queue,     \* the services to be reconciled
  round,     \* the run in progress: service, spec, position in the plan
  changes    \* how many edits, upgrades and failures there were

world == <<services, objs, pods>>
vars == <<spelled, world, release, queue, round, changes>>

Running == Releases[release]

NoOwner == << >>
NoConfig == [file |-> "", build |-> 0]
Idle == [name |-> << >>, spec |-> CHOOSE s \in Specs : TRUE, at |-> 0]

Existing(type) == {key \in DOMAIN objs : key[1] = type}

\* The comparison makes TLC compute a function once, at all its arguments.
Table(f) == IF f = << >> THEN << >> ELSE f

\* Tables of what the operators build, in which order: kind, name, spec, release.
Keys == Table([c \in Kinds \X (Served \cup Neighbours) |-> Key(c[1], Namespace, c[2])])

Builds == (Kinds \ {"legacyPool"}) \X (Served \cup Neighbours) \X Specs \X DOMAIN Releases

Bodies == Table([b \in Builds |-> Build(b[1], Namespace, b[2], b[3], Releases[b[4]])])

KeyOf(k, n) == Keys[<<k, n>>]

\* Every variable holds a value the program can hold: only services are queued,
\* and what they own is the child of one of their kinds.
TypeOK ==
  /\ spelled \in Seq(Alphabet) /\ Len(spelled) =< MaxLength
  /\ DOMAIN services \subseteq Served \cup Neighbours
  /\ \A n \in DOMAIN services : services[n] \in Specs
  /\ release \in DOMAIN Releases
  /\ queue \subseteq DOMAIN services
  /\ round.name \in DOMAIN services \cup {<< >>} /\ round.spec \in Specs
  /\ round.at \in 0 .. Len(Plan) /\ (round.at = 0 <=> round = Idle)
  /\ \A key \in DOMAIN objs : objs[key].owner \in DOMAIN services \cup {NoOwner}
  /\ \A p \in pods : p.of[1] = "Deployment"
  /\ changes \in 0 .. MaxChanges

Init ==
  /\ spelled = << >>
  /\ services = << >> /\ objs = << >> /\ pods = {}
  /\ release = 1 /\ queue = {} /\ round = Idle
  /\ changes = 0

(***************************************************************************)
(* Users                                                                   *)
(***************************************************************************)
Spell(c) ==
  /\ DOMAIN services = {} /\ Len(spelled) < MaxLength
  /\ spelled' = Append(spelled, c)
  /\ UNCHANGED <<world, release, queue, round, changes>>

\* A new service, or a new spec of one, is an event.
Apply(n, spec) ==
  /\ services' = Joined([m \in {n} |-> spec], services)
  /\ queue' = queue \cup {n}
  /\ UNCHANGED <<spelled, objs, pods, release, round>>

UserCreate(n, spec) ==
  /\ n \notin DOMAIN services
  /\ n = spelled /\ n \in Served
  /\ Apply(n, spec) /\ UNCHANGED changes

\* Neighbours have the spec of the service.  They come when nothing has changed yet,
\* and nothing changes after them.
NeighbourCreate(n) ==
  /\ n \in Neighbours \ DOMAIN services /\ spelled \in DOMAIN services /\ changes = 0
  /\ Apply(n, services[spelled]) /\ changes' = MaxChanges

UserEdit(n, spec) ==
  /\ n = spelled /\ n \in DOMAIN services /\ spec # services[n] /\ changes < MaxChanges
  /\ changes' = changes + 1
  /\ Apply(n, spec)

(***************************************************************************)
(* The API server.  It refuses illegal names, a Deployment that does not   *)
(* select its own Pods or whose containers mount volumes that are not      *)
(* there, a Service with one port twice, a role that grants more than its  *)
(* author may do, and changes of selectors and role references.            *)
(***************************************************************************)
Legal(key) == IF key[1] = "service" THEN IsLabel(key[2]) ELSE IsObjectName(key[2])

Mounts(template) == UNION {c.mounts : c \in template.containers}

Validated(b) ==
  /\ Legal(KeyOf(b[1], b[2]))
  /\ b[1] \in {"role", "clusterRole"} => Bodies[b].rules \subseteq OperatorRights
  /\ b[1] \in Deployments =>
       /\ Selects(Bodies[b].selector, Bodies[b].template.labels)
       /\ Mounts(Bodies[b].template) \subseteq Bodies[b].template.volumes
  /\ b[1] = "service" =>
       \A p, q \in Bodies[b].ports : p.number = q.number => p = q

Valid == Table([b \in Builds |-> Validated(b)])

Immutable(type) == CASE type = "Deployment" -> {"selector"}
                     [] type \in {"roleBinding", "clusterRoleBinding"} -> {"roleRef"}
                     [] OTHER -> {}

Accepts(key, build) ==
  /\ Valid[build]
  /\ key \in DOMAIN objs =>
       \A f \in Immutable(key[1]) : objs[key].body[f] = Bodies[build][f]

WatchedTypes == {ObjectType(k) : k \in Watched}

\* Mutant: objects without an owner enqueue one as well.
EnqueuedAny(key, before, after) ==
  {f[key].owner : f \in {g \in {before, after} : key \in DOMAIN g}}

\* An event of an object of a watched kind enqueues its owner.
Enqueued(key, before, after) ==
  IF key[1] \in WatchedTypes
  THEN {f[key].owner : f \in {g \in {before, after} : key \in DOMAIN g}} \ {NoOwner}
  ELSE {}

(***************************************************************************)
(* The controller                                                          *)
(***************************************************************************)
\* Does the child have to be written or deleted?
Outdated(k, r, o) ==
  LET key == KeyOf(k, r.name)
  IN  IF Needs(k, r.spec, Running)
      THEN key \in DOMAIN o => o[key].body # Bodies[<<k, r.name, r.spec, release>>]
      ELSE key \in DOMAIN o

\* The rest of the run passes over children that are as they should be.
Proceed(r, o) ==
  LET due == {i \in r.at + 1 .. Len(Plan) : Outdated(Plan[i], r, o)}
  IN  round' = IF due = {} THEN Idle ELSE [r EXCEPT !.at = Min(due)]

StartRound(n) ==
  /\ round.at = 0 /\ n \in queue
  /\ queue' = queue \ {n}
  /\ Proceed([name |-> n, spec |-> services[n], at |-> 0], objs)
  /\ UNCHANGED <<spelled, world, release, changes>>

Kind == Plan[round.at]
Wanted == Needs(Kind, round.spec, Running)
Target == KeyOf(Kind, round.name)
Desired == <<Kind, round.name, round.spec, release>>

\* An object that exists keeps its owner.
Written ==
  LET owner == CASE Target \in DOMAIN objs -> objs[Target].owner
                 [] Target \notin DOMAIN objs /\ Kind \in ClusterKinds -> NoOwner
                 [] OTHER -> round.name
  IN  Joined([key \in {Target} |-> [owner |-> owner, body |-> Bodies[Desired]]], objs)

\* The run ends with an error: its service is queued again.
Abort == round' = Idle /\ queue' = queue \cup {round.name} /\ UNCHANGED objs

Ensure ==
  /\ round.at # 0
  /\ IF Wanted => Accepts(Target, Desired)
     THEN /\ objs' = IF Wanted THEN Written ELSE Restrict(objs, DOMAIN objs \ {Target})
          /\ queue' = queue \cup Enqueued(Target, objs, objs')
          /\ Proceed(round, objs')
     ELSE Abort
  /\ UNCHANGED <<spelled, services, pods, release, changes>>

Fail ==
  /\ round.at # 0 /\ changes < MaxChanges
  /\ changes' = changes + 1
  /\ Abort
  /\ UNCHANGED <<spelled, services, pods, release>>

\* A later operator is installed.  Its informers list everything, and their initial
\* events queue every service.
Upgrade(r) ==
  /\ r > release /\ changes < MaxChanges
  /\ release' = r /\ changes' = changes + 1
  /\ round' = Idle /\ queue' = DOMAIN services
  /\ UNCHANGED <<spelled, world>>

(***************************************************************************)
(* Deployments and Pods, one Pod for the replicas of a Deployment.  An EPP *)
(* reads its configuration file when it starts, and does not come up       *)
(* without it; its ConfigMap is an optional volume.                        *)
(***************************************************************************)
Template(d) == objs[d].body.template

PodsOf(d) == {p \in pods : p.of = d}

\* The configuration a Pod of this template finds.
Config(template) ==
  IF "config" \in DOMAIN template
  THEN LET key == <<"configMap", template.config>>
       IN  IF key \in DOMAIN objs THEN objs[key].body.data ELSE NoConfig
  ELSE NoConfig

Startable(template) ==
  "args" \in DOMAIN template =>
    /\ <<"serviceAccount", template.account>> \in DOMAIN objs
    /\ Config(template).file = template.args.file

\* The change of a Deployment's status is an event.
PodsChange(d, new) ==
  /\ pods' = new
  /\ queue' = queue \cup Enqueued(d, objs, objs)
  /\ UNCHANGED <<spelled, services, objs, release, round, changes>>

\* A Deployment that is to be recreated waits for its old Pod to end.
Starting(d) ==
  /\ d[1] = "Deployment" /\ Startable(Template(d))
  /\ \A p \in PodsOf(d) : p.template # Template(d) /\ ~objs[d].body.recreate

PodStarts(d) ==
  /\ Starting(d)
  /\ PodsChange(d, pods \cup {[of |-> d, template |-> Template(d),
                               config |-> Config(Template(d))]})

\* A Pod ends when its Deployment is gone, or wants another one: at once if it is
\* to be recreated, otherwise when the other one is up.
Stopping(p) ==
  p.of \in DOMAIN objs =>
    /\ p.template # Template(p.of)
    /\ \/ objs[p.of].body.recreate
       \/ \E q \in PodsOf(p.of) : q.template = Template(p.of)

PodStops(p) ==
  /\ Stopping(p)
  /\ PodsChange(p.of, pods \ {p})

Users ==
  \/ \E c \in Alphabet : Spell(c)
  \/ \E n \in Served, spec \in Specs : UserCreate(n, spec) \/ UserEdit(n, spec)
  \/ \E n \in Neighbours : NeighbourCreate(n)

Controller == (\E n \in queue : StartRound(n)) \/ Ensure

Rollouts == (\E d \in DOMAIN objs : PodStarts(d)) \/ (\E p \in pods : PodStops(p))

Next == Users \/ Controller \/ Fail \/ (\E r \in DOMAIN Releases : Upgrade(r)) \/ Rollouts

Spec == Init /\ [][Next]_vars

\* The worker runs, and the Deployment controller and the kubelets do.
FairSpec == Spec /\ WF_vars(Controller) /\ WF_vars(Rollouts)

(***************************************************************************)
(* Safety                                                                  *)
(***************************************************************************)
\* Whatever the characters, the result is a DNS-1035 label, its length apart:
\* lower case, a letter first and no hyphen last (helpers.go:148-149).
SanitizedIsLabel == IsLabel(SanitizeDNS1035Label(spelled))

\* Whatever was written before, by this operator or by one of another version, the
\* next write is one the API server accepts: selectors do not depend on the
\* version (labels.go:46-48), volumes are there for every mount
\* (deployment.go:384-387), roles grant what the operator itself may do
\* (modelservice_controller.go:66-82), sanitized names are legal (helpers.go:137-138).
\* The port of the EPP must not be that of its metrics: nothing validates that.
WritesAccepted == round.at # 0 /\ Wanted => Accepts(Target, Desired)

\* Every Pod, also one of an older template, is matched by the selector of its
\* Deployment and of no other one: not by the Deployment of the other role, of
\* the EPP, or of a neighbour (helpers.go:205-206).
PodsAdopted ==
  \A p \in pods : p.of \in DOMAIN objs =>
    \A d \in Existing("Deployment") :
      Selects(objs[d].body.selector, p.template.labels) <=> d = p.of

ServingKeys(n) == {KeyOf("decode", n), KeyOf("prefill", n)}

\* A pool selects the decode and prefill Pods of its service, old and new, and
\* nothing else: not the EPP, nor the Pods of a neighbour whose name its own
\* resembles (helpers.go:241-244).
PoolSelectsOwnServers ==
  \A n \in DOMAIN services : KeyOf("pool", n) \in DOMAIN objs =>
    \A p \in pods :
      Selects(objs[KeyOf("pool", n)].body.selector, p.template.labels)
        <=> p.of \in ServingKeys(n)

(***************************************************************************)
(* What a step may never do                                                *)
(***************************************************************************)
\* Working for one service the controller leaves the objects of the others alone,
\* but for the pool that has the name of its EPP: that is taken for one of an
\* older release (reconcile.go:157-160).
NeighboursApart ==
  [][\A key \in DOMAIN objs :
       round.at # 0 /\ objs[key].owner \notin {NoOwner, round.name}
         => \/ key \in DOMAIN objs' /\ objs'[key] = objs[key]
            \/ key = KeyOf("legacyPool", round.name)]_vars

(***************************************************************************)
(* Once nothing is left to do, what serves fits together.                  *)
(***************************************************************************)
Settled ==
  /\ queue = {} /\ round.at = 0
  /\ \A d \in DOMAIN objs : ~Starting(d)
  /\ \A p \in pods : ~Stopping(p)

\* When changes, upgrades and failures come to an end so do the runs of the
\* controller, each of which may queue the next one, and the rollouts.
Settles == <>[]Settled

Object(k, n) == objs[KeyOf(k, n)].body

Has(k, n) == KeyOf(k, n) \in DOMAIN objs

\* Does a request to this port of a Pod end at vLLM?
ReachesVLLM(template, port) ==
  \E c \in template.containers :
    /\ c.listens = port
    /\ \A other \in template.containers \ {c} : other.listens # port
    /\ \/ c.name = "vllm"
       \/ \E v \in template.containers : v.name = "vllm" /\ c.next = v.listens

\* The wanted Pods are up, and behind the target port of the pool there is vLLM in
\* each Pod it selects, be it through the routing proxy
\* (deployment.go:104-106,247-251).
Reachable(n) ==
  /\ Has("pool", n)
  /\ \A k \in {"decode", "prefill"} :
       Needs(k, services[n], Running) <=> PodsOf(KeyOf(k, n)) # {}
  /\ \A p \in pods : Selects(Object("pool", n).selector, p.template.labels) =>
       ReachesVLLM(p.template, Object("pool", n).target)

PodsReachable == Settled => \A n \in DOMAIN services : Reachable(n)

\* A route leads to a pool, the pool to a port of a Service, the Service to one
\* EPP Pod, which listens there and picks for that pool
\* (modelservice_controller.go:155-156, epp_deployment.go:71-73).
Picked(n) ==
  /\ Has("route", n) =>
       <<"InferencePool", Object("route", n).backend>> \in DOMAIN objs
  /\ LET pool == Object("pool", n)
         key  == <<"service", pool.picker>>
     IN  /\ key \in DOMAIN objs
         /\ \E port \in objs[key].body.ports : port.number = pool.pickerPort
         /\ \E p \in pods :
              /\ \A q \in pods :
                   Selects(objs[key].body.selector, q.template.labels) <=> q = p
              /\ \E c \in p.template.containers : c.listens = pool.pickerPort
              /\ p.template.args.pool = KeyOf("pool", n)[2]

PickerReachable == Settled => \A n \in DOMAIN services : Has("pool", n) /\ Picked(n)

Granted(type, account) ==
  UNION {objs[<<type, objs[b].body.roleRef>>].body.rules :
           b \in {b \in Existing(IF type = "role" THEN "roleBinding"
                                  ELSE "clusterRoleBinding") :
                    objs[b].body.subject = account}}

\* The EPP that runs has read the ConfigMap as it is now, and is allowed what it
\* was told to do: to elect a leader if it has replicas, and to authenticate
\* scrapers, where the spec has a pool (epp_configmap.go:108-110,
\* epp_rbac.go:28-32, epp_cluster_rbac.go:26-30).
Equipped(n) ==
  \A p \in PodsOf(KeyOf("epp", n)) :
    LET args == p.template.args
        account == p.template.account
    IN  /\ p.config = Object("configMap", n).data /\ p.config.file = args.file
        /\ {"pods", "inferencepools"} \X Reading \subseteq Granted("role", account)
        /\ args.leaderElection => <<"leases", "update">> \in Granted("role", account)
        /\ args.auth /\ services[n].pool =>
             <<"tokenreviews", "create">> \in Granted("clusterRole", account)

PickerEquipped ==
  Settled => \A n \in DOMAIN services : PodsOf(KeyOf("epp", n)) # {} /\ Equipped(n)

PortNames(template) == {port.name : port \in UNION {c.ports : c \in template.containers}}

\* Does the spec name no port for the PodMonitors, or one the containers of the role
\* have: that of vLLM, the routing proxy or the side channel (deployment.go:139,181,315)?
NamesPort(spec, role) ==
  \/ spec.monitor = "unset" \/ spec.portName \in {"unset", "http"}
  \/ spec.portName = "proxy" /\ Proxied(spec, role)
  \/ spec.portName = "nixl-side" /\ spec.sideChannel \notin {0, VLLMPort(spec, role)}

\* Each PodMonitor selects the Pods of its role; they all have the port it names, by
\* default or because the spec chose one of theirs, also after an edit of either; the
\* ServiceMonitor selects the Service of the EPP, and the token it refers to is
\* there, except on GKE (podmonitor.go:26,39-41, epp_service_monitor.go:27-29).
Scraped(n) ==
  /\ \A r \in {<<"podMonitorDecode", "decode">>, <<"podMonitorPrefill", "prefill">>} :
       Has(r[1], n) =>
         /\ \A p \in pods :
              Selects(Object(r[1], n).selector, p.template.labels) <=> p.of = KeyOf(r[2], n)
         /\ NamesPort(services[n], r[2]) =>
              \A p \in PodsOf(KeyOf(r[2], n)) : Object(r[1], n).port \in PortNames(p.template)
  /\ Has("serviceMonitor", n) =>
       LET monitor == Object("serviceMonitor", n)
       IN  /\ \A s \in Existing("service") :
                Selects(monitor.selector, objs[s].body.labels) <=> s = KeyOf("service", n)
           /\ monitor.port \in {port.name : port \in Object("service", n).ports}
           /\ Running.provider # "gke" =>
                \A s \in monitor.secret : <<"secret", s>> \in DOMAIN objs

PodsScraped == Settled => \A n \in DOMAIN services : Scraped(n)
=============================================================================
