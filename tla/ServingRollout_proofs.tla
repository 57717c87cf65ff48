----------------------- MODULE ServingRollout_proofs -----------------------
(***************************************************************************)
(* Theorems of ServingRollout.                                             *)
(***************************************************************************)
EXTENDS ServingRollout, ResourceNames_proofs

Names == Served \cup Neighbours

(***************************************************************************)
(* The tables, and the keys in the API server.                             *)
(***************************************************************************)
LEMMA KindsAre ==
  Kinds = {"decode", "prefill", "serviceAccount", "configMap", "epp", "service",
           "secret", "role", "roleBinding", "clusterRole", "clusterRoleBinding",
           "legacyPool", "pool", "route", "destinationRule", "podMonitorDecode",
           "podMonitorPrefill", "serviceMonitor"}
<1>1. DOMAIN Plan = 1 .. 18
  BY DEF Plan
<1>2. \A k : k \in Kinds <=> \E i \in 1 .. 18 : Plan[i] = k
  BY <1>1 DEF Kinds
<1> QED BY <1>2 DEF Plan

LEMMA TableIs == \A f : Table(f) = f
BY DEF Table

LEMMA KeyIs ==
  ASSUME NEW k \in Kinds, NEW n \in Names
  PROVE  KeyOf(k, n) = <<ObjectType(k), ObjectName(k, Namespace, n)>>
<1> DEFINE table == [c \in Kinds \X Names |-> Key(c[1], Namespace, c[2])]
<1>1. Keys = table
  BY TableIs DEF Keys, Names
<1>2. table[<<k, n>>] = Key(k, Namespace, n)
  OBVIOUS
<1> QED BY <1>1, <1>2 DEF KeyOf, Key

LEMMA BodyIs ==
  ASSUME NEW b \in Builds
  PROVE  /\ b[1] \in Kinds \ {"legacyPool"} /\ b[2] \in Names /\ b[3] \in Specs
         /\ b[4] \in DOMAIN Releases
         /\ Bodies[b] = Build(b[1], Namespace, b[2], b[3], Releases[b[4]])
<1> DEFINE table == [c \in Builds |-> Build(c[1], Namespace, c[2], c[3], Releases[c[4]])]
<1>1. Bodies = table
  BY TableIs DEF Bodies
<1>2. table[b] = Build(b[1], Namespace, b[2], b[3], Releases[b[4]])
  OBVIOUS
<1>3. /\ b[1] \in Kinds \ {"legacyPool"} /\ b[2] \in Names /\ b[3] \in Specs
      /\ b[4] \in DOMAIN Releases
  BY DEF Builds, Names
<1> QED BY <1>1, <1>2, <1>3

LEMMA NameTypes ==
  ASSUME NEW n \in Names
  PROVE  /\ n \in Seq(Symbols) /\ IsObjectName(n) /\ n # << >>
         /\ SanitizeDNS1035Label(n) \in Seq(Symbols) /\ EPPName(n) \in Seq(Symbols)
         /\ Namespace \in Seq(Symbols)
<1>1. n \in Seq(Symbols) /\ IsObjectName(n) /\ Namespace \in Seq(Symbols)
  BY NamesAssumption, NamespaceAssumption DEF Names
<1>2. SanitizeDNS1035Label(n) \in Seq(Symbols)
      /\ EPPName(n) = Suffixed(SanitizeDNS1035Label(n), "epp")
  BY <1>1, EPPNameIs
<1>3. "epp" \in Symbols
  BY DEF Symbols, Lower
<1>4. EPPName(n) \in Seq(Symbols)
  BY <1>2, <1>3, SuffixedIs
<1> QED BY <1>1, <1>2, <1>4 DEF IsObjectName

InNamespace(s) == Namespace \o << "-" >> \o s

LEMMA InNamespaceIs ==
  ASSUME NEW s \in Seq(Symbols), NEW t \in Seq(Symbols)
  PROVE  /\ InNamespace(s) \in Seq(Symbols)
         /\ InNamespace(s) = InNamespace(t) => s = t
<1> DEFINE front == Namespace \o << "-" >>
<1>0. "-" \in Symbols
  BY DEF Symbols
<1>1. Namespace \in Seq(Symbols) /\ << "-" >> \in Seq(Symbols)
  BY <1>0, NamespaceAssumption
<1>2. front \in Seq(Symbols)
  BY <1>1, ConcatProperties
<1>3. InNamespace(s) = front \o s /\ InNamespace(t) = front \o t
  BY DEF InNamespace
<1> HIDE DEF front
<1>4. front \o s \in Seq(Symbols)
  BY <1>2, ConcatProperties
<1>5. front \o s = front \o t => s = t
  BY <1>2, ConcatSimplifications
<1> QED BY <1>3, <1>4, <1>5

LEMMA TypesAre ==
  /\ ObjectType("decode") = "Deployment" /\ ObjectType("prefill") = "Deployment"
  /\ ObjectType("epp") = "Deployment"
  /\ ObjectType("pool") = "InferencePool" /\ ObjectType("legacyPool") = "InferencePool"
  /\ ObjectType("podMonitorDecode") = "PodMonitor"
  /\ ObjectType("podMonitorPrefill") = "PodMonitor"
  /\ \A k \in Kinds \ (Deployments \cup {"pool", "legacyPool", "podMonitorDecode",
                                         "podMonitorPrefill"}) : ObjectType(k) = k
<1>1. \A k : k \notin Deployments \cup {"pool", "legacyPool", "podMonitorDecode",
                                         "podMonitorPrefill"} => ObjectType(k) = k
  BY DEF ObjectType, Deployments
<1> QED BY <1>1 DEF ObjectType, Deployments

LEMMA ObjectNamesAre ==
  ASSUME NEW n
  PROVE  /\ ObjectName("decode", Namespace, n) = Suffixed(n, "decode")
         /\ ObjectName("prefill", Namespace, n) = Suffixed(n, "prefill")
         /\ ObjectName("podMonitorDecode", Namespace, n) = Suffixed(n, "decode")
         /\ ObjectName("podMonitorPrefill", Namespace, n) = Suffixed(n, "prefill")
         /\ ObjectName("pool", Namespace, n) = n
         /\ ObjectName("route", Namespace, n) = n
         /\ ObjectName("configMap", Namespace, n) = Suffixed(EPPName(n), "config")
         /\ ObjectName("secret", Namespace, n) = Suffixed(EPPName(n), "secret")
         /\ \A k \in ClusterKinds :
              ObjectName(k, Namespace, n) = InNamespace(EPPName(n))
         /\ \A k \in {"epp", "legacyPool", "serviceAccount", "service", "role",
                      "roleBinding", "destinationRule", "serviceMonitor"} :
              ObjectName(k, Namespace, n) = EPPName(n)
<1> USE DEF ObjectName, DecodeName, PrefillName, EPPConfigMapName, EPPSecretName,
            InferencePoolName, HTTPRouteName, PodMonitorName, EPPServiceMonitorName,
            EPPClusterRBACName, ClusterKinds, Suffixed, InNamespace
<1>1. /\ ObjectName("decode", Namespace, n) = Suffixed(n, "decode")
      /\ ObjectName("prefill", Namespace, n) = Suffixed(n, "prefill")
  OBVIOUS
<1>2. /\ ObjectName("podMonitorDecode", Namespace, n) = Suffixed(n, "decode")
      /\ ObjectName("podMonitorPrefill", Namespace, n) = Suffixed(n, "prefill")
  OBVIOUS
<1>3. ObjectName("pool", Namespace, n) = n /\ ObjectName("route", Namespace, n) = n
  OBVIOUS
<1>4. /\ ObjectName("configMap", Namespace, n) = Suffixed(EPPName(n), "config")
      /\ ObjectName("secret", Namespace, n) = Suffixed(EPPName(n), "secret")
  OBVIOUS
<1>5. \A k \in ClusterKinds :
        ObjectName(k, Namespace, n) = InNamespace(EPPName(n))
  OBVIOUS
<1>6. \A k \in {"epp", "legacyPool", "serviceAccount", "service", "role",
                "roleBinding", "destinationRule", "serviceMonitor"} :
        ObjectName(k, Namespace, n) = EPPName(n)
  OBVIOUS
<1> QED BY <1>1, <1>2, <1>3, <1>4, <1>5, <1>6
\* Children of one kind with the same name are made for services whose EPPs have the
\* same name, if not for the same service.
LEMMA NamesApart ==
  ASSUME NEW k \in Kinds \ {"legacyPool"}, NEW n \in Names, NEW m \in Names,
         ObjectName(k, Namespace, n) = ObjectName(k, Namespace, m)
  PROVE  /\ EPPName(n) = EPPName(m)
         /\ k \in {"decode", "prefill", "pool"} => n = m
<1>1. /\ n \in Seq(Symbols) /\ m \in Seq(Symbols) /\ Namespace \in Seq(Symbols)
      /\ EPPName(n) \in Seq(Symbols) /\ EPPName(m) \in Seq(Symbols)
  BY NameTypes
<1>2. {"-", "decode", "prefill", "config", "secret"} \subseteq Symbols
  BY DEF Symbols, Lower
<1>3. CASE k \in {"decode", "podMonitorDecode"}
  <2>1. Suffixed(n, "decode") = Suffixed(m, "decode")
    BY <1>3, ObjectNamesAre
  <2> QED BY <2>1, <1>1, <1>2, SuffixedApart
<1>4. CASE k \in {"prefill", "podMonitorPrefill"}
  <2>1. Suffixed(n, "prefill") = Suffixed(m, "prefill")
    BY <1>4, ObjectNamesAre
  <2> QED BY <2>1, <1>1, <1>2, SuffixedApart
<1>5. CASE k \in {"pool", "route"}
  BY <1>5, ObjectNamesAre
<1>6. CASE k = "configMap"
  <2>1. Suffixed(EPPName(n), "config") = Suffixed(EPPName(m), "config")
    BY <1>6, ObjectNamesAre
  <2> QED BY <2>1, <1>1, <1>2, <1>6, SuffixedApart
<1>7. CASE k = "secret"
  <2>1. Suffixed(EPPName(n), "secret") = Suffixed(EPPName(m), "secret")
    BY <1>7, ObjectNamesAre
  <2> QED BY <2>1, <1>1, <1>2, <1>7, SuffixedApart
<1>8. CASE k \in ClusterKinds
  <2>1. InNamespace(EPPName(n)) = InNamespace(EPPName(m))
    BY <1>8, ObjectNamesAre
  <2>2. EPPName(n) = EPPName(m)
    BY <1>1, <2>1, InNamespaceIs
  <2> QED BY <2>2, <1>8 DEF ClusterKinds
<1>9. CASE k \in {"epp", "serviceAccount", "service", "role", "roleBinding",
                  "destinationRule", "serviceMonitor"}
  BY <1>9, ObjectNamesAre
<1> QED BY <1>3, <1>4, <1>5, <1>6, <1>7, <1>8, <1>9, KindsAre DEF ClusterKinds

\* One key is the key of one kind of child.  (The pool of older releases has the
\* type of the pool.)
LEMMA KeysApart ==
  ASSUME NEW k \in Kinds \ {"legacyPool"}, NEW l \in Kinds \ {"legacyPool"},
         NEW n \in Names, NEW m \in Names, KeyOf(k, n) = KeyOf(l, m)
  PROVE  /\ k = l /\ EPPName(n) = EPPName(m)
         /\ k \in {"decode", "prefill", "pool"} => n = m
<1>1. ObjectType(k) = ObjectType(l)
      /\ ObjectName(k, Namespace, n) = ObjectName(l, Namespace, m)
  BY KeyIs
<1>2. /\ n \in Seq(Symbols) /\ m \in Seq(Symbols)
      /\ SanitizeDNS1035Label(n) \in Seq(Symbols) /\ SanitizeDNS1035Label(m) \in Seq(Symbols)
      /\ EPPName(n) = Suffixed(SanitizeDNS1035Label(n), "epp")
      /\ EPPName(m) = Suffixed(SanitizeDNS1035Label(m), "epp")
  BY NameTypes, EPPNameIs
<1>3. {"-", "decode", "prefill", "epp"} \subseteq Symbols
  BY DEF Symbols, Lower
<1>4. \A s, t \in Seq(Symbols) : \A x, y \in {"decode", "prefill", "epp"} :
        Suffixed(s, x) = Suffixed(t, y) => x = y
  BY <1>3, SuffixedApart
<1>5. k = l
  <2>1. CASE k \in Deployments
    <3>1. l \in Deployments
      BY <2>1, <1>1, TypesAre, KindsAre DEF Deployments
    <3>2. /\ k = "decode" => ObjectName(k, Namespace, n) = Suffixed(n, "decode")
          /\ k = "prefill" => ObjectName(k, Namespace, n) = Suffixed(n, "prefill")
          /\ k = "epp" => ObjectName(k, Namespace, n) = Suffixed(SanitizeDNS1035Label(n), "epp")
          /\ l = "decode" => ObjectName(l, Namespace, m) = Suffixed(m, "decode")
          /\ l = "prefill" => ObjectName(l, Namespace, m) = Suffixed(m, "prefill")
          /\ l = "epp" => ObjectName(l, Namespace, m) = Suffixed(SanitizeDNS1035Label(m), "epp")
      BY <1>2, ObjectNamesAre
    <3> QED BY <2>1, <3>1, <3>2, <1>1, <1>2, <1>4 DEF Deployments
  <2>2. CASE k \in {"podMonitorDecode", "podMonitorPrefill"}
    <3>1. l \in {"podMonitorDecode", "podMonitorPrefill"}
      BY <2>2, <1>1, TypesAre, KindsAre DEF Deployments
    <3> QED BY <2>2, <3>1, <1>1, <1>2, <1>4, ObjectNamesAre
  <2>3. CASE k \notin Deployments \cup {"podMonitorDecode", "podMonitorPrefill"}
    BY <2>3, <1>1, TypesAre, KindsAre DEF Deployments
  <2> QED BY <2>1, <2>2, <2>3
<1> QED BY <1>1, <1>5, NamesApart
(***************************************************************************)
(* Labels and selectors of the Deployments and of the pool.                *)
(***************************************************************************)
LEMMA WithoutIs ==
  ASSUME NEW f, NEW keys
  PROVE  /\ DOMAIN Without(f, keys) = DOMAIN f \ keys
         /\ \A x \in DOMAIN f \ keys : Without(f, keys)[x] = f[x]
BY DEF Without, Restrict

LEMMA SelectorIs ==
  ASSUME NEW n, NEW c
  PROVE  /\ DOMAIN Selector(n, c) = {"name", "component", "partOf", "managedBy"}
         /\ Selector(n, c)["name"] = n /\ Selector(n, c)["component"] = c
         /\ Selector(n, c)["partOf"] = "otterscale-system"
         /\ Selector(n, c)["managedBy"] = "model-operator"
BY DEF Selector

\* The labels every object has; some have a version.
LEMMA StandardIs ==
  ASSUME NEW n, NEW c, NEW v
  PROVE  /\ DOMAIN Standard(n, c, v) \in {DOMAIN Selector(n, c), DOMAIN Selector(n, c) \cup {"version"}}
         /\ \A x \in DOMAIN Selector(n, c) : Standard(n, c, v)[x] = Selector(n, c)[x]
<1> DEFINE f == Selector(n, c)
           g == [version |-> v]
<1>1. DOMAIN g = {"version"}
  OBVIOUS
<1>2. Standard(n, c, v) = f \/ Standard(n, c, v) = Joined(f, g)
  BY DEF Standard
<1> HIDE DEF f, g
<1>3. /\ DOMAIN Standard(n, c, v) \in {DOMAIN f, DOMAIN f \cup {"version"}}
      /\ \A x \in DOMAIN f : Standard(n, c, v)[x] = f[x]
  BY <1>1, <1>2 DEF Joined
<1> QED BY <1>3 DEF f

\* What the serving Deployment of a role selects.
LEMMA RoleSelectorIs ==
  ASSUME NEW n, NEW r
  PROVE  LET s == SelectorLabelsForRole(n, r)
         IN  /\ DOMAIN s = {"name", "component", "partOf", "managedBy",
                            "inferenceServing", "model", "role"}
             /\ s["name"] = n /\ s["component"] = Component(r)
             /\ s["partOf"] = "otterscale-system" /\ s["managedBy"] = "model-operator"
             /\ s["inferenceServing"] = "true" /\ s["model"] = n /\ s["role"] = r
<1> DEFINE f == Selector(n, Component(r))
           g == [inferenceServing |-> "true", model |-> n, role |-> r]
<1>1. /\ DOMAIN g = {"inferenceServing", "model", "role"}
      /\ g["inferenceServing"] = "true" /\ g["model"] = n /\ g["role"] = r
  OBVIOUS
<1>2. SelectorLabelsForRole(n, r) = Joined(f, g)
  BY DEF SelectorLabelsForRole
<1>3. /\ DOMAIN f = {"name", "component", "partOf", "managedBy"}
      /\ f["name"] = n /\ f["component"] = Component(r)
      /\ f["partOf"] = "otterscale-system" /\ f["managedBy"] = "model-operator"
  BY SelectorIs
<1> HIDE DEF f, g
<1> QED BY <1>1, <1>2, <1>3 DEF Joined

\* The labels of its Pods.
LEMMA RolePodLabelsAre ==
  ASSUME NEW n, NEW r, NEW v
  PROVE  LET l == PodLabelsForRole(n, r, v)
         IN  /\ {"name", "component", "partOf", "managedBy", "inferenceServing",
                 "model", "role"} \subseteq DOMAIN l
             /\ "inferencepool" \notin DOMAIN l
             /\ l["name"] = n /\ l["component"] = Component(r)
             /\ l["partOf"] = "otterscale-system" /\ l["managedBy"] = "model-operator"
             /\ l["inferenceServing"] = "true" /\ l["model"] = n /\ l["role"] = r
<1> DEFINE f == Standard(n, Component(r), v)
           g == [inferenceServer |-> "true"]
           h == Without(Joined(f, g), {"inferenceServer"})
           e == [inferenceServing |-> "true", role |-> r, model |-> n]
<1>1. /\ DOMAIN e = {"inferenceServing", "model", "role"}
      /\ e["inferenceServing"] = "true" /\ e["model"] = n /\ e["role"] = r
  OBVIOUS
<1>2. DOMAIN g = {"inferenceServer"}
  OBVIOUS
<1>3. PodLabelsForRole(n, r, v) = Joined(h, e)
  BY DEF PodLabelsForRole, LabelsForRole
<1>4. /\ DOMAIN f \in {{"name", "component", "partOf", "managedBy"},
                       {"name", "component", "partOf", "managedBy", "version"}}
      /\ f["name"] = n /\ f["component"] = Component(r)
      /\ f["partOf"] = "otterscale-system" /\ f["managedBy"] = "model-operator"
  <2>1. DOMAIN Selector(n, Component(r)) = {"name", "component", "partOf", "managedBy"}
    BY SelectorIs
  <2>2. DOMAIN f \in {DOMAIN Selector(n, Component(r)),
                      DOMAIN Selector(n, Component(r)) \cup {"version"}}
        /\ \A x \in DOMAIN Selector(n, Component(r)) : f[x] = Selector(n, Component(r))[x]
    BY StandardIs
  <2> HIDE DEF f
  <2> QED BY <2>1, <2>2, SelectorIs
<1> HIDE DEF e, f, g
<1>5. /\ DOMAIN h = DOMAIN f
      /\ \A x \in DOMAIN f : h[x] = f[x]
  BY <1>2, <1>4 DEF Joined, Without, Restrict
<1> HIDE DEF h
<1>6. DOMAIN Joined(h, e) = DOMAIN f \cup DOMAIN e
      /\ (\A x \in DOMAIN f : Joined(h, e)[x] = f[x])
      /\ (\A x \in DOMAIN e \ DOMAIN f : Joined(h, e)[x] = e[x])
  BY <1>5 DEF Joined
<1> QED BY <1>1, <1>3, <1>4, <1>6

\* What the Deployment of an EPP selects, and the labels of its Pods.
LEMMA EPPSelectorIs ==
  ASSUME NEW n, NEW spec, NEW op
  PROVE  LET s == BuildEPPDeployment(n, spec, op).selector
         IN  /\ DOMAIN s = {"name", "component", "partOf", "managedBy", "inferencepool"}
             /\ s["name"] = EPPName(n) /\ s["component"] = "epp"
             /\ s["partOf"] = "otterscale-system" /\ s["managedBy"] = "model-operator"
             /\ s["inferencepool"] = EPPName(n)
<1> DEFINE f == Selector(EPPName(n), "epp")
           g == [inferencepool |-> EPPName(n)]
<1>1. DOMAIN g = {"inferencepool"} /\ g["inferencepool"] = EPPName(n)
  OBVIOUS
<1>2. BuildEPPDeployment(n, spec, op).selector = Joined(f, g)
  BY DEF BuildEPPDeployment, EPPSelectorLabels
<1>3. /\ DOMAIN f = {"name", "component", "partOf", "managedBy"}
      /\ f["name"] = EPPName(n) /\ f["component"] = "epp"
      /\ f["partOf"] = "otterscale-system" /\ f["managedBy"] = "model-operator"
  BY SelectorIs
<1> HIDE DEF f, g
<1> QED BY <1>1, <1>2, <1>3 DEF Joined

LEMMA EPPPodLabelsAre ==
  ASSUME NEW n, NEW spec, NEW op
  PROVE  LET l == BuildEPPDeployment(n, spec, op).template.labels
         IN  /\ {"name", "component", "partOf", "managedBy", "inferencepool"} \subseteq DOMAIN l
             /\ "inferenceServing" \notin DOMAIN l
             /\ l["name"] = EPPName(n) /\ l["component"] = "epp"
             /\ l["partOf"] = "otterscale-system" /\ l["managedBy"] = "model-operator"
             /\ l["inferencepool"] = EPPName(n)
<1> DEFINE own == [inferencepool |-> EPPName(n)]
           f == Standard(EPPName(n), "epp", op.version)
           g == Selector(EPPName(n), "epp")
           h == Joined(f, g)
<1>1. DOMAIN own = {"inferencepool"} /\ own["inferencepool"] = EPPName(n)
  OBVIOUS
<1>2. BuildEPPDeployment(n, spec, op).template.labels = Joined(own, h)
  BY DEF BuildEPPDeployment, EPPSelectorLabels, EPPLabels
<1>3. /\ DOMAIN g = {"name", "component", "partOf", "managedBy"}
      /\ g["name"] = EPPName(n) /\ g["component"] = "epp"
      /\ g["partOf"] = "otterscale-system" /\ g["managedBy"] = "model-operator"
  BY SelectorIs
<1>4. DOMAIN f \in {DOMAIN g, DOMAIN g \cup {"version"}} /\ \A x \in DOMAIN g : f[x] = g[x]
  BY StandardIs
<1> HIDE DEF own, f, g
<1>5. /\ DOMAIN h = DOMAIN f
      /\ \A x \in DOMAIN g : h[x] = g[x]
  BY <1>4 DEF Joined
<1> HIDE DEF h
<1>6. /\ DOMAIN Joined(own, h) = DOMAIN own \cup DOMAIN h
      /\ \A x \in DOMAIN own : Joined(own, h)[x] = own[x]
      /\ \A x \in DOMAIN h \ DOMAIN own : Joined(own, h)[x] = h[x]
  BY DEF Joined
<1> QED BY <1>1, <1>2, <1>3, <1>4, <1>5, <1>6

\* What the pool selects.
LEMMA PoolSelectorIs ==
  ASSUME NEW n
  PROVE  LET s == InferencePoolSelectorLabels(n)
         IN  /\ DOMAIN s = {"name", "partOf", "managedBy", "inferenceServing", "model"}
             /\ s["name"] = n
             /\ s["partOf"] = "otterscale-system" /\ s["managedBy"] = "model-operator"
             /\ s["inferenceServing"] = "true" /\ s["model"] = n
<1> DEFINE f == Selector(n, "model-decode")
           h == Without(f, {"component"})
           g == [inferenceServing |-> "true", model |-> n]
<1>1. /\ DOMAIN g = {"inferenceServing", "model"}
      /\ g["inferenceServing"] = "true" /\ g["model"] = n
  OBVIOUS
<1>2. InferencePoolSelectorLabels(n) = Joined(h, g)
  BY DEF InferencePoolSelectorLabels
<1>3. /\ DOMAIN f = {"name", "component", "partOf", "managedBy"}
      /\ f["name"] = n
      /\ f["partOf"] = "otterscale-system" /\ f["managedBy"] = "model-operator"
  BY SelectorIs
<1> HIDE DEF f, g
<1>4. DOMAIN h = {"name", "partOf", "managedBy"} /\ \A x \in DOMAIN h : h[x] = f[x]
  BY <1>3, WithoutIs
<1> HIDE DEF h
<1> QED BY <1>1, <1>2, <1>3, <1>4 DEF Joined
(***************************************************************************)
(* Which Pods are selected.                                                *)
(***************************************************************************)
LEMMA DeploymentBody ==
  ASSUME NEW b \in Builds
  PROVE  /\ b[1] \in {"decode", "prefill"} =>
              /\ Bodies[b].selector = SelectorLabelsForRole(b[2], b[1])
              /\ \E v : Bodies[b].template.labels = PodLabelsForRole(b[2], b[1], v)
         /\ b[1] = "epp" => \E spec, op : Bodies[b] = BuildEPPDeployment(b[2], spec, op)
<1> DEFINE op == Releases[b[4]]
<1>1. Bodies[b] = Build(b[1], Namespace, b[2], b[3], op)
  BY BodyIs
<1> HIDE DEF op
<1>2. ASSUME b[1] \in {"decode", "prefill"}
      PROVE  /\ Bodies[b].selector = SelectorLabelsForRole(b[2], b[1])
             /\ \E v : Bodies[b].template.labels = PodLabelsForRole(b[2], b[1], v)
  <2>1. Bodies[b] = BuildDeployment(b[2], b[1], b[3], op)
    BY <1>1, <1>2 DEF Build
  <2>2. /\ Bodies[b].selector = SelectorLabelsForRole(b[2], b[1])
        /\ Bodies[b].template.labels = PodLabelsForRole(b[2], b[1], op.version)
    BY <2>1 DEF BuildDeployment
  <2> QED BY <2>2
<1>3. ASSUME b[1] = "epp" PROVE Bodies[b] = BuildEPPDeployment(b[2], b[3], op)
  BY <1>1, <1>3 DEF Build
<1> QED BY <1>2, <1>3

\* What the Pods of a build of a Deployment have to show.
LEMMA PodLabels ==
  ASSUME NEW c \in Builds, c[1] \in Deployments
  PROVE  LET l == Bodies[c].template.labels
         IN  /\ {"name", "component", "partOf", "managedBy"} \subseteq DOMAIN l
             /\ l["partOf"] = "otterscale-system" /\ l["managedBy"] = "model-operator"
             /\ c[1] \in {"decode", "prefill"} =>
                  /\ {"inferenceServing", "model", "role"} \subseteq DOMAIN l
                  /\ "inferencepool" \notin DOMAIN l
                  /\ l["name"] = c[2] /\ l["component"] = Component(c[1])
                  /\ l["inferenceServing"] = "true" /\ l["model"] = c[2] /\ l["role"] = c[1]
             /\ c[1] = "epp" =>
                  /\ "inferencepool" \in DOMAIN l /\ "inferenceServing" \notin DOMAIN l
                  /\ l["name"] = EPPName(c[2]) /\ l["component"] = "epp"
                  /\ l["inferencepool"] = EPPName(c[2])
<1>1. CASE c[1] \in {"decode", "prefill"}
  <2>1. PICK v : Bodies[c].template.labels = PodLabelsForRole(c[2], c[1], v)
    BY <1>1, DeploymentBody
  <2> QED BY <1>1, <2>1, RolePodLabelsAre
<1>2. CASE c[1] = "epp"
  <2>1. PICK spec, op : Bodies[c] = BuildEPPDeployment(c[2], spec, op)
    BY <1>2, DeploymentBody
  <2> QED BY <1>2, <2>1, EPPPodLabelsAre
<1> QED BY <1>1, <1>2 DEF Deployments

\* A Deployment selects the Pods of every build of it, and of no other Deployment.
LEMMA SelectsOwnPods ==
  ASSUME NEW b \in Builds, NEW c \in Builds, b[1] \in Deployments, c[1] \in Deployments
  PROVE  Selects(Bodies[b].selector, Bodies[c].template.labels)
           <=> KeyOf(b[1], b[2]) = KeyOf(c[1], c[2])
<1> DEFINE s == Bodies[b].selector
           l == Bodies[c].template.labels
<1>1. /\ b[1] \in Kinds \ {"legacyPool"} /\ c[1] \in Kinds \ {"legacyPool"}
      /\ b[2] \in Names /\ c[2] \in Names
  BY BodyIs
<1>2. /\ {"name", "component", "partOf", "managedBy"} \subseteq DOMAIN l
      /\ l["partOf"] = "otterscale-system" /\ l["managedBy"] = "model-operator"
      /\ c[1] \in {"decode", "prefill"} =>
           /\ {"inferenceServing", "model", "role"} \subseteq DOMAIN l
           /\ "inferencepool" \notin DOMAIN l
           /\ l["name"] = c[2] /\ l["component"] = Component(c[1])
           /\ l["inferenceServing"] = "true" /\ l["model"] = c[2] /\ l["role"] = c[1]
      /\ c[1] = "epp" =>
           /\ "inferencepool" \in DOMAIN l /\ "inferenceServing" \notin DOMAIN l
           /\ l["name"] = EPPName(c[2]) /\ l["component"] = "epp"
           /\ l["inferencepool"] = EPPName(c[2])
  BY PodLabels
<1>3. KeyOf(b[1], b[2]) = KeyOf(c[1], c[2]) =>
        /\ b[1] = c[1] /\ EPPName(b[2]) = EPPName(c[2])
        /\ b[1] \in {"decode", "prefill"} => b[2] = c[2]
  BY <1>1, KeysApart
<1>4. CASE b[1] \in {"decode", "prefill"}
  <2>1. s = SelectorLabelsForRole(b[2], b[1])
    BY <1>4, DeploymentBody
  <2>2. /\ DOMAIN s = {"name", "component", "partOf", "managedBy",
                       "inferenceServing", "model", "role"}
        /\ s["name"] = b[2] /\ s["component"] = Component(b[1])
        /\ s["partOf"] = "otterscale-system" /\ s["managedBy"] = "model-operator"
        /\ s["inferenceServing"] = "true" /\ s["model"] = b[2] /\ s["role"] = b[1]
    BY <2>1, RoleSelectorIs
  <2> HIDE DEF s, l
  <2>3. CASE c[1] \in {"decode", "prefill"}
    <3>1. Selects(s, l) => b[1] = c[1] /\ b[2] = c[2]
      BY <1>2, <2>2, <2>3 DEF Selects
    <3>2. b[1] = c[1] /\ b[2] = c[2] => Selects(s, l)
      BY <1>2, <2>2, <2>3 DEF Selects
    <3> QED BY <1>3, <1>4, <3>1, <3>2 DEF s, l
  <2>4. CASE c[1] = "epp"
    <3>1. ~Selects(s, l)
      BY <1>2, <2>2, <2>4 DEF Selects
    <3> QED BY <1>3, <1>4, <2>4, <3>1 DEF s, l
  <2> QED BY <2>3, <2>4 DEF Deployments
<1>5. CASE b[1] = "epp"
  <2>1. PICK spec, op : Bodies[b] = BuildEPPDeployment(b[2], spec, op)
    BY <1>5, DeploymentBody
  <2>2. /\ DOMAIN s = {"name", "component", "partOf", "managedBy", "inferencepool"}
        /\ s["name"] = EPPName(b[2]) /\ s["component"] = "epp"
        /\ s["partOf"] = "otterscale-system" /\ s["managedBy"] = "model-operator"
        /\ s["inferencepool"] = EPPName(b[2])
    BY <2>1, EPPSelectorIs
  <2> HIDE DEF s, l
  <2>3. CASE c[1] = "epp"
    <3>1. Selects(s, l) <=> EPPName(b[2]) = EPPName(c[2])
      BY <1>2, <2>2, <2>3 DEF Selects
    <3>2. EPPName(b[2]) = EPPName(c[2]) => KeyOf(b[1], b[2]) = KeyOf(c[1], c[2])
      BY <1>1, <1>5, <2>3, KeyIs, ObjectNamesAre
    <3> QED BY <1>3, <3>1, <3>2 DEF s, l
  <2>4. CASE c[1] \in {"decode", "prefill"}
    <3>1. ~Selects(s, l)
      BY <1>2, <2>2, <2>4 DEF Selects
    <3> QED BY <1>3, <1>5, <2>4, <3>1 DEF s, l
  <2> QED BY <2>3, <2>4 DEF Deployments
<1> QED BY <1>4, <1>5 DEF Deployments

\* A pool selects the serving Pods of every build of its service, and no others.
LEMMA PoolSelectsServers ==
  ASSUME NEW n \in Names, NEW c \in Builds, c[1] \in Deployments
  PROVE  Selects(InferencePoolSelectorLabels(n), Bodies[c].template.labels)
           <=> KeyOf(c[1], c[2]) \in ServingKeys(n)
<1> DEFINE s == InferencePoolSelectorLabels(n)
           l == Bodies[c].template.labels
<1>1. c[1] \in Kinds \ {"legacyPool"} /\ c[2] \in Names
  BY BodyIs
<1>2. /\ {"name", "partOf", "managedBy"} \subseteq DOMAIN l
      /\ l["partOf"] = "otterscale-system" /\ l["managedBy"] = "model-operator"
      /\ c[1] \in {"decode", "prefill"} =>
           /\ {"inferenceServing", "model"} \subseteq DOMAIN l
           /\ l["name"] = c[2] /\ l["inferenceServing"] = "true" /\ l["model"] = c[2]
      /\ c[1] = "epp" => "inferenceServing" \notin DOMAIN l
  BY PodLabels
<1>3. /\ DOMAIN s = {"name", "partOf", "managedBy", "inferenceServing", "model"}
      /\ s["name"] = n
      /\ s["partOf"] = "otterscale-system" /\ s["managedBy"] = "model-operator"
      /\ s["inferenceServing"] = "true" /\ s["model"] = n
  BY PoolSelectorIs
<1>4. \A k \in {"decode", "prefill"} : KeyOf(c[1], c[2]) = KeyOf(k, n) => c[1] = k /\ c[2] = n
  <2>1. {"decode", "prefill"} \subseteq Kinds \ {"legacyPool"}
    BY KindsAre
  <2> QED BY <1>1, <2>1, KeysApart
<1> HIDE DEF s, l
<1>5. CASE c[1] \in {"decode", "prefill"}
  <2>1. Selects(s, l) <=> c[2] = n
    BY <1>2, <1>3, <1>5 DEF Selects
  <2>2. KeyOf(c[1], c[2]) \in ServingKeys(n) <=> c[2] = n
    BY <1>4, <1>5 DEF ServingKeys
  <2> QED BY <2>1, <2>2 DEF s, l
<1>6. CASE c[1] = "epp"
  <2>1. ~Selects(s, l)
    BY <1>2, <1>3, <1>6 DEF Selects
  <2>2. KeyOf(c[1], c[2]) \notin ServingKeys(n)
    BY <1>4, <1>6 DEF ServingKeys
  <2> QED BY <2>1, <2>2 DEF s, l
<1> QED BY <1>5, <1>6 DEF Deployments
(***************************************************************************)
(* The inductive invariant: every object is what an operator builds for    *)
(* the key it has, whoever built it and whenever; it belongs to nobody or  *)
(* to the service it was made for; and so for the templates of the Pods.   *)
(***************************************************************************)
RoundTyped ==
  /\ round \in [name : DOMAIN services \cup {<< >>}, spec : Specs, at : 0 .. Len(Plan)]
  /\ round.at # 0 => round.name \in DOMAIN services

ObjsBuilt ==
  \A key \in DOMAIN objs : \E b \in Builds :
    key = KeyOf(b[1], b[2]) /\ objs[key].body = Bodies[b]

ObjsOwned ==
  \A key \in DOMAIN objs :
    \/ objs[key].owner = NoOwner
    \/ \E k \in Kinds \ {"legacyPool"} : key = KeyOf(k, objs[key].owner)

PodsBuilt ==
  \A p \in pods : \E b \in Builds :
    b[1] \in Deployments /\ p.of = KeyOf(b[1], b[2]) /\ p.template = Bodies[b].template

RolloutInv == TypeOK /\ RoundTyped /\ ObjsBuilt /\ ObjsOwned /\ PodsBuilt

LEMMA PlanLength == Len(Plan) = 18 /\ DOMAIN Plan = 1 .. 18
BY DEF Plan

LEMMA IdleIs ==
  Idle \in [name : {<< >>}, spec : Specs, at : {0}]
<1>1. PICK s \in Specs : TRUE
  BY SpecsAssumption
<1> QED BY <1>1 DEF Idle

LEMMA InitRollout ==
  ASSUME Init PROVE RolloutInv
<1>1. 1 \in DOMAIN Releases
  BY ReleasesAssumption
<1>2. << >> \in Seq(Alphabet) /\ Len(<< >>) = 0 /\ DOMAIN << >> = {}
  OBVIOUS
<1>3. TypeOK
  BY <1>1, <1>2, IdleIs, PlanLength, AlphabetAssumption, BoundsAssumption DEF Init, TypeOK
<1>4. RoundTyped
  BY IdleIs, PlanLength DEF Init, RoundTyped
<1>5. ObjsBuilt /\ ObjsOwned /\ PodsBuilt
  BY <1>2 DEF Init, ObjsBuilt, ObjsOwned, PodsBuilt
<1> QED BY <1>3, <1>4, <1>5 DEF RolloutInv

(***************************************************************************)
(* What the parts of the actions do.                                       *)
(***************************************************************************)
LEMMA ProceedIs ==
  ASSUME NEW r, NEW o, r \in [name : DOMAIN services \cup {<< >>}, spec : Specs, at : 0 .. 18],
         Proceed(r, o)
  PROVE  \/ round' = Idle
         \/ \E i \in 1 .. 18 : round' = [r EXCEPT !.at = i]
<1> DEFINE due == {i \in r.at + 1 .. Len(Plan) : Outdated(Plan[i], r, o)}
<1>1. CASE due = {}
  BY <1>1 DEF Proceed
<1>2. CASE due # {}
  <2>1. round' = [r EXCEPT !.at = Min(due)]
    BY <1>2 DEF Proceed
  <2>2. due \subseteq 1 .. 18 /\ due \subseteq Nat /\ due # {}
    <3>1. r.at \in 0 .. 18
      OBVIOUS
    <3> QED BY <1>2, <3>1, PlanLength
  <2> HIDE DEF due
  <2>3. Min(due) \in due
    BY <2>2, MinIsLeast
  <2> QED BY <2>1, <2>2, <2>3
<1> QED BY <1>1, <1>2

LEMMA EnqueuedIs ==
  ASSUME NEW key, NEW before, NEW after, NEW S,
         key \in DOMAIN before => before[key].owner \in S \cup {NoOwner},
         key \in DOMAIN after => after[key].owner \in S \cup {NoOwner}
  PROVE  Enqueued(key, before, after) \subseteq S
BY DEF Enqueued

\* What a run wants is a build.
LEMMA DesiredIs ==
  ASSUME RolloutInv, round.at # 0
  PROVE  /\ Kind \in Kinds /\ round.name \in Names /\ round.spec \in Specs
         /\ Target = KeyOf(Kind, round.name)
         /\ Wanted => /\ Kind # "legacyPool" /\ Desired \in Builds
                      /\ Desired[1] = Kind /\ Desired[2] = round.name
<1>1. round.at \in 1 .. 18 /\ round.name \in Names /\ round.spec \in Specs
      /\ release \in DOMAIN Releases
  BY PlanLength DEF RolloutInv, RoundTyped, TypeOK, Names
<1>2. Kind \in Kinds
  BY <1>1, PlanLength DEF Kind, Kinds
<1>3. Wanted => Kind # "legacyPool"
  BY DEF Wanted, Needs, ClusterKinds
<1>4. Wanted => Desired \in Builds /\ Desired[1] = Kind /\ Desired[2] = round.name
  BY <1>1, <1>2, <1>3 DEF Desired, Builds, Names
<1> QED BY <1>1, <1>2, <1>3, <1>4 DEF Target
(***************************************************************************)
(* Every step keeps the invariant.  Steps that leave the objects, or the   *)
(* Pods, alone:                                                            *)
(***************************************************************************)
LEMMA ObjsKept ==
  ASSUME RolloutInv, UNCHANGED objs
  PROVE  ObjsBuilt' /\ ObjsOwned'
BY DEF RolloutInv, ObjsBuilt, ObjsOwned

LEMMA PodsKept ==
  ASSUME RolloutInv, UNCHANGED pods
  PROVE  PodsBuilt'
BY DEF RolloutInv, PodsBuilt

LEMMA OwnersKnown ==
  ASSUME RolloutInv, NEW key
  PROVE  Enqueued(key, objs, objs) \subseteq DOMAIN services
<1>1. key \in DOMAIN objs => objs[key].owner \in DOMAIN services \cup {NoOwner}
  BY DEF RolloutInv, TypeOK
<1> QED BY <1>1, EnqueuedIs

LEMMA ApplyIs ==
  ASSUME RolloutInv, NEW n \in Names, NEW spec \in Specs, Apply(n, spec),
         changes' \in 0 .. MaxChanges
  PROVE  RolloutInv'
<1>1. /\ DOMAIN services' = DOMAIN services \cup {n}
      /\ \A m \in DOMAIN services' : services'[m] \in Specs
  BY DEF RolloutInv, TypeOK, Apply, Joined
<1>2. TypeOK'
  BY <1>1 DEF RolloutInv, TypeOK, Apply, Names
<1>3. RoundTyped'
  BY <1>1 DEF RolloutInv, RoundTyped, Apply
<1>4. UNCHANGED objs /\ UNCHANGED pods
  BY DEF Apply
<1> QED BY <1>2, <1>3, <1>4, ObjsKept, PodsKept DEF RolloutInv

LEMMA UsersStep ==
  ASSUME RolloutInv, Users
  PROVE  RolloutInv'
<1>1. ASSUME NEW c \in Alphabet, Spell(c) PROVE RolloutInv'
  <2>1. spelled' \in Seq(Alphabet) /\ Len(spelled') =< MaxLength
    <3>1. spelled \in Seq(Alphabet) /\ Len(spelled) \in Nat /\ Len(spelled) < MaxLength
      BY <1>1 DEF RolloutInv, TypeOK, Spell
    <3>2. spelled' = Append(spelled, c)
      BY <1>1 DEF Spell
    <3>3. Append(spelled, c) \in Seq(Alphabet) /\ Len(Append(spelled, c)) = Len(spelled) + 1
      BY <3>1, AppendProperties
    <3> QED BY <3>1, <3>2, <3>3, AlphabetAssumption
  <2>2. UNCHANGED <<services, objs, pods, release, queue, round, changes>>
    BY <1>1 DEF Spell, world
  <2>3. TypeOK'
    BY <2>1, <2>2 DEF RolloutInv, TypeOK
  <2>4. RoundTyped'
    BY <2>2 DEF RolloutInv, RoundTyped
  <2> QED BY <2>2, <2>3, <2>4, ObjsKept, PodsKept DEF RolloutInv
<1>2. changes \in 0 .. MaxChanges
  BY DEF RolloutInv, TypeOK
<1>3. ASSUME NEW n \in Served, NEW spec \in Specs, UserCreate(n, spec) PROVE RolloutInv'
  BY <1>2, <1>3, ApplyIs DEF UserCreate, Names
<1>4. ASSUME NEW n \in Served, NEW spec \in Specs, UserEdit(n, spec) PROVE RolloutInv'
  <2>1. changes' \in 0 .. MaxChanges
    BY <1>2, <1>4, BoundsAssumption DEF UserEdit
  <2> QED BY <2>1, <1>4, ApplyIs DEF UserEdit, Names
<1>5. ASSUME NEW n \in Neighbours, NeighbourCreate(n) PROVE RolloutInv'
  <2>1. services[spelled] \in Specs
    BY <1>5 DEF RolloutInv, TypeOK, NeighbourCreate
  <2>2. changes' \in 0 .. MaxChanges
    BY <1>5, BoundsAssumption DEF NeighbourCreate
  <2> QED BY <2>1, <2>2, <1>5, ApplyIs DEF NeighbourCreate, Names
<1> QED BY <1>1, <1>3, <1>4, <1>5 DEF Users

LEMMA StartRoundStep ==
  ASSUME RolloutInv, NEW n \in queue, StartRound(n)
  PROVE  RolloutInv'
<1> DEFINE r == [name |-> n, spec |-> services[n], at |-> 0]
<1>1. n \in DOMAIN services /\ services[n] \in Specs
  BY DEF RolloutInv, TypeOK
<1>2. r \in [name : DOMAIN services \cup {<< >>}, spec : Specs, at : 0 .. 18] /\ r.name = n
  BY <1>1
<1>3. Proceed(r, objs) /\ queue' = queue \ {n}
      /\ UNCHANGED <<spelled, services, objs, pods, release, changes>>
  BY DEF StartRound, world
<1> HIDE DEF r
<1>4. round' = Idle \/ \E i \in 1 .. 18 : round' = [r EXCEPT !.at = i]
  BY <1>2, <1>3, ProceedIs
<1>5. /\ round' \in [name : DOMAIN services \cup {<< >>}, spec : Specs, at : 0 .. 18]
      /\ round'.at # 0 => round'.name \in DOMAIN services
      /\ round'.at = 0 <=> round' = Idle
  BY <1>1, <1>2, <1>4, IdleIs
<1>6. TypeOK'
  BY <1>3, <1>5, PlanLength DEF RolloutInv, TypeOK
<1>7. RoundTyped'
  BY <1>3, <1>5, PlanLength DEF RoundTyped
<1> QED BY <1>3, <1>6, <1>7, ObjsKept, PodsKept DEF RolloutInv

\* A run that ends with an error.
LEMMA AbortIs ==
  ASSUME RolloutInv, round.at # 0, Abort, changes' \in 0 .. MaxChanges,
         UNCHANGED <<spelled, services, pods, release>>
  PROVE  RolloutInv'
<1>1. round.name \in DOMAIN services
  BY DEF RolloutInv, RoundTyped
<1>2. TypeOK'
  BY <1>1, IdleIs, PlanLength DEF RolloutInv, TypeOK, Abort
<1>3. RoundTyped'
  BY IdleIs, PlanLength DEF RoundTyped, Abort
<1> QED BY <1>2, <1>3, ObjsKept, PodsKept DEF RolloutInv, Abort

LEMMA FailStep ==
  ASSUME RolloutInv, Fail
  PROVE  RolloutInv'
<1>1. changes' \in 0 .. MaxChanges
  BY BoundsAssumption DEF RolloutInv, TypeOK, Fail
<1> QED BY <1>1, AbortIs DEF Fail

LEMMA UpgradeStep ==
  ASSUME RolloutInv, NEW r \in DOMAIN Releases, Upgrade(r)
  PROVE  RolloutInv'
<1>1. changes' \in 0 .. MaxChanges
  BY BoundsAssumption DEF RolloutInv, TypeOK, Upgrade
<1>2. TypeOK'
  BY <1>1, IdleIs, PlanLength DEF RolloutInv, TypeOK, Upgrade, world
<1>3. RoundTyped'
  BY IdleIs, PlanLength DEF RoundTyped, Upgrade
<1>4. UNCHANGED objs /\ UNCHANGED pods
  BY DEF Upgrade, world
<1> QED BY <1>2, <1>3, <1>4, ObjsKept, PodsKept DEF RolloutInv
\* A child is written: the object has the body that is wanted, and keeps its owner.
LEMMA WrittenIs ==
  ASSUME RolloutInv, round.at # 0, Wanted
  PROVE  /\ DOMAIN Written = DOMAIN objs \cup {Target}
         /\ \A key \in DOMAIN objs : key # Target => Written[key] = objs[key]
         /\ Written[Target].body = Bodies[Desired]
         /\ \/ Written[Target].owner \in {NoOwner, round.name}
            \/ Target \in DOMAIN objs /\ Written[Target].owner = objs[Target].owner
<1> DEFINE owner == CASE Target \in DOMAIN objs -> objs[Target].owner
                      [] Target \notin DOMAIN objs /\ Kind \in ClusterKinds -> NoOwner
                      [] OTHER -> round.name
           new == [owner |-> owner, body |-> Bodies[Desired]]
<1>1. Written = Joined([key \in {Target} |-> new], objs)
  BY DEF Written
<1>2. /\ new.body = Bodies[Desired]
      /\ \/ new.owner \in {NoOwner, round.name}
         \/ Target \in DOMAIN objs /\ new.owner = objs[Target].owner
  OBVIOUS
<1> HIDE DEF new
<1>3. /\ DOMAIN Written = DOMAIN objs \cup {Target}
      /\ \A key \in DOMAIN objs : key # Target => Written[key] = objs[key]
      /\ Written[Target] = new
  BY <1>1 DEF Joined
<1> QED BY <1>2, <1>3

\* What Ensure makes of the objects.
LEMMA EnsureObjs ==
  ASSUME RolloutInv, round.at # 0,
         objs' = IF Wanted THEN Written ELSE Restrict(objs, DOMAIN objs \ {Target})
  PROVE  /\ ObjsBuilt' /\ ObjsOwned'
         /\ \A key \in DOMAIN objs' : objs'[key].owner \in DOMAIN services \cup {NoOwner}
<1>0. /\ \A key \in DOMAIN objs : objs[key].owner \in DOMAIN services \cup {NoOwner}
      /\ round.name \in DOMAIN services
  BY DEF RolloutInv, TypeOK, RoundTyped
<1>1. /\ \A key \in DOMAIN objs : \E b \in Builds :
           key = KeyOf(b[1], b[2]) /\ objs[key].body = Bodies[b]
      /\ \A key \in DOMAIN objs :
           \/ objs[key].owner = NoOwner
           \/ \E k \in Kinds \ {"legacyPool"} : key = KeyOf(k, objs[key].owner)
  BY DEF RolloutInv, ObjsBuilt, ObjsOwned
<1>2. CASE Wanted
  <2>1. /\ DOMAIN objs' = DOMAIN objs \cup {Target}
        /\ \A key \in DOMAIN objs : key # Target => objs'[key] = objs[key]
        /\ objs'[Target].body = Bodies[Desired]
        /\ \/ objs'[Target].owner \in {NoOwner, round.name}
           \/ Target \in DOMAIN objs /\ objs'[Target].owner = objs[Target].owner
    BY <1>2, WrittenIs
  <2>2. /\ Kind \in Kinds \ {"legacyPool"} /\ Target = KeyOf(Kind, round.name)
        /\ Desired \in Builds /\ Desired[1] = Kind /\ Desired[2] = round.name
    BY <1>2, DesiredIs
  <2>3. \A key \in DOMAIN objs' : \E b \in Builds :
           key = KeyOf(b[1], b[2]) /\ objs'[key].body = Bodies[b]
    <3> TAKE key \in DOMAIN objs'
    <3>1. CASE key = Target
      BY <3>1, <2>1, <2>2
    <3>2. CASE key # Target
      BY <3>2, <1>1, <2>1
    <3> QED BY <3>1, <3>2
  <2>4. \A key \in DOMAIN objs' :
           \/ objs'[key].owner = NoOwner
           \/ \E k \in Kinds \ {"legacyPool"} : key = KeyOf(k, objs'[key].owner)
    <3> TAKE key \in DOMAIN objs'
    <3>1. CASE key = Target /\ objs'[Target].owner \in {NoOwner, round.name}
      BY <3>1, <2>2
    <3>2. CASE key = Target /\ Target \in DOMAIN objs
                            /\ objs'[Target].owner = objs[Target].owner
      BY <3>2, <1>1
    <3>3. CASE key # Target
      BY <3>3, <1>1, <2>1
    <3> QED BY <3>1, <3>2, <3>3, <2>1
  <2>5. \A key \in DOMAIN objs' : objs'[key].owner \in DOMAIN services \cup {NoOwner}
    BY <1>0, <2>1
  <2> QED BY <2>3, <2>4, <2>5 DEF ObjsBuilt, ObjsOwned
<1>3. CASE ~Wanted
  <2>1. DOMAIN objs' \subseteq DOMAIN objs /\ \A key \in DOMAIN objs' : objs'[key] = objs[key]
    BY <1>3 DEF Restrict
  <2> QED BY <1>0, <1>1, <2>1 DEF ObjsBuilt, ObjsOwned
<1> QED BY <1>2, <1>3

LEMMA EnsureStep ==
  ASSUME RolloutInv, Ensure
  PROVE  RolloutInv'
<1>1. round.at # 0 /\ UNCHANGED <<spelled, services, pods, release, changes>>
  BY DEF Ensure
<1>2. CASE ~(Wanted => Accepts(Target, Desired))
  <2>1. Abort /\ changes' \in 0 .. MaxChanges
    BY <1>1, <1>2 DEF Ensure, RolloutInv, TypeOK
  <2> QED BY <1>1, <2>1, AbortIs
<1>3. CASE Wanted => Accepts(Target, Desired)
  <2>1. /\ objs' = IF Wanted THEN Written ELSE Restrict(objs, DOMAIN objs \ {Target})
        /\ queue' = queue \cup Enqueued(Target, objs, objs')
        /\ Proceed(round, objs')
    BY <1>3 DEF Ensure
  <2>2. /\ ObjsBuilt' /\ ObjsOwned'
        /\ \A key \in DOMAIN objs' : objs'[key].owner \in DOMAIN services \cup {NoOwner}
    BY <1>1, <2>1, EnsureObjs
  <2>3. Enqueued(Target, objs, objs') \subseteq DOMAIN services
    <3>1. \A key \in DOMAIN objs : objs[key].owner \in DOMAIN services \cup {NoOwner}
      BY DEF RolloutInv, TypeOK
    <3> QED BY <2>2, <3>1, EnqueuedIs
  <2>4. round \in [name : DOMAIN services \cup {<< >>}, spec : Specs, at : 0 .. 18]
        /\ round.name \in DOMAIN services
    BY <1>1, PlanLength DEF RolloutInv, RoundTyped
  <2>5. round' = Idle \/ \E i \in 1 .. 18 : round' = [round EXCEPT !.at = i]
    BY <2>1, <2>4, ProceedIs
  <2>6. /\ round' \in [name : DOMAIN services \cup {<< >>}, spec : Specs, at : 0 .. 18]
        /\ round'.at # 0 => round'.name \in DOMAIN services
        /\ round'.at = 0 <=> round' = Idle
    BY <2>4, <2>5, IdleIs
  <2>7. TypeOK'
    BY <1>1, <2>1, <2>2, <2>3, <2>6, PlanLength DEF RolloutInv, TypeOK
  <2>8. RoundTyped'
    BY <1>1, <2>6, PlanLength DEF RoundTyped
  <2> QED BY <1>1, <2>2, <2>7, <2>8, PodsKept DEF RolloutInv
<1> QED BY <1>2, <1>3

\* The steps of Deployments and Pods.
LEMMA PodsChangeIs ==
  ASSUME RolloutInv, NEW d, NEW new, PodsChange(d, new), PodsBuilt',
         \A p \in new : p.of[1] = "Deployment"
  PROVE  RolloutInv'
<1>1. /\ pods' = new /\ queue' = queue \cup Enqueued(d, objs, objs)
      /\ UNCHANGED <<spelled, services, objs, release, round, changes>>
  BY DEF PodsChange
<1>2. TypeOK'
  BY <1>1, OwnersKnown DEF RolloutInv, TypeOK
<1>3. RoundTyped'
  BY <1>1 DEF RolloutInv, RoundTyped
<1> QED BY <1>1, <1>2, <1>3, ObjsKept DEF RolloutInv

LEMMA RolloutsStep ==
  ASSUME RolloutInv, Rollouts
  PROVE  RolloutInv'
<1>1. /\ \A p \in pods : p.of[1] = "Deployment"
      /\ \A p \in pods : \E b \in Builds :
           b[1] \in Deployments /\ p.of = KeyOf(b[1], b[2]) /\ p.template = Bodies[b].template
  BY DEF RolloutInv, TypeOK, PodsBuilt
<1>2. ASSUME NEW d \in DOMAIN objs, PodStarts(d) PROVE RolloutInv'
  <2> DEFINE p == [of |-> d, template |-> Template(d), config |-> Config(Template(d))]
  <2>1. d[1] = "Deployment" /\ PodsChange(d, pods \cup {p})
    BY <1>2 DEF PodStarts, Starting
  <2>2. PICK b \in Builds : d = KeyOf(b[1], b[2]) /\ objs[d].body = Bodies[b]
    BY DEF RolloutInv, ObjsBuilt
  <2>3. b[1] \in Kinds \ {"legacyPool"} /\ b[2] \in Names
    BY BodyIs
  <2>4. b[1] \in Deployments
    <3>1. ObjectType(b[1]) = "Deployment"
      BY <2>1, <2>2, <2>3, KeyIs
    <3> QED BY <2>3, <3>1, TypesAre, KindsAre
  <2>5. p.of = d /\ p.template = Bodies[b].template
    BY <2>2 DEF Template
  <2>6. pods' = pods \cup {p}
    BY <2>1 DEF PodsChange
  <2> HIDE DEF p
  <2>7. PodsBuilt'
    BY <1>1, <2>2, <2>4, <2>5, <2>6 DEF PodsBuilt
  <2>8. \A q \in pods \cup {p} : q.of[1] = "Deployment"
    BY <1>1, <2>1, <2>5
  <2> QED BY <2>1, <2>7, <2>8, PodsChangeIs
<1>3. ASSUME NEW p \in pods, PodStops(p) PROVE RolloutInv'
  <2>1. PodsChange(p.of, pods \ {p})
    BY <1>3 DEF PodStops
  <2>2. pods' = pods \ {p}
    BY <2>1 DEF PodsChange
  <2>3. PodsBuilt'
    BY <1>1, <2>2 DEF PodsBuilt
  <2> QED BY <1>1, <2>1, <2>3, PodsChangeIs
<1> QED BY <1>2, <1>3 DEF Rollouts

LEMMA RolloutStep ==
  ASSUME RolloutInv, [Next]_vars
  PROVE  RolloutInv'
<1>1. CASE UNCHANGED vars
  <2>1. UNCHANGED <<spelled, services, objs, pods, release, queue, round, changes>>
    BY <1>1 DEF vars, world
  <2>2. TypeOK' /\ RoundTyped'
    BY <2>1 DEF RolloutInv, TypeOK, RoundTyped
  <2> QED BY <2>1, <2>2, ObjsKept, PodsKept DEF RolloutInv
<1>2. CASE Next
  BY <1>2, UsersStep, StartRoundStep, EnsureStep, FailStep, UpgradeStep, RolloutsStep
     DEF Next, Controller
<1> QED BY <1>1, <1>2

\* What is queued are services, what they own are children of theirs, and Pods belong
\* to Deployments, in every reachable state (TypeOK of ServingRollout); and every
\* object is one an operator builds for its key.
THEOREM RolloutKept == Spec => []RolloutInv
BY InitRollout, RolloutStep, PTL DEF Spec

THEOREM RolloutTyped == Spec => []TypeOK
<1>1. RolloutInv => TypeOK
  BY DEF RolloutInv
<1> QED BY RolloutKept, <1>1, PTL
(***************************************************************************)
(* Pods and selectors.                                                     *)
(***************************************************************************)
\* Every Pod is matched by the selector of its Deployment and of no other one
\* (PodsAdopted; helpers.go:205-206).
THEOREM PodsStayAdopted == Spec => []PodsAdopted
<1>1. RolloutInv => PodsAdopted
  <2> SUFFICES ASSUME RolloutInv, NEW p \in pods, NEW d \in Existing("Deployment")
               PROVE  Selects(objs[d].body.selector, p.template.labels) <=> d = p.of
    BY DEF PodsAdopted
  <2>1. PICK c \in Builds : /\ c[1] \in Deployments /\ p.of = KeyOf(c[1], c[2])
                            /\ p.template = Bodies[c].template
    BY DEF RolloutInv, PodsBuilt
  <2>2. d \in DOMAIN objs /\ d[1] = "Deployment"
    BY DEF Existing
  <2>3. PICK b \in Builds : d = KeyOf(b[1], b[2]) /\ objs[d].body = Bodies[b]
    BY <2>2 DEF RolloutInv, ObjsBuilt
  <2>4. b[1] \in Deployments
    <3>1. ObjectType(b[1]) = "Deployment" /\ b[1] \in Kinds \ {"legacyPool"}
      BY <2>2, <2>3, KeyIs, BodyIs
    <3> QED BY <3>1, TypesAre, KindsAre
  <2> QED BY <2>1, <2>3, <2>4, SelectsOwnPods
<1> QED BY RolloutKept, <1>1, PTL

\* A pool selects the decode and prefill Pods of its service, old and new, and nothing
\* else (PoolSelectsOwnServers; helpers.go:241-244).
THEOREM PoolsSelectOwnServers == Spec => []PoolSelectsOwnServers
<1>1. RolloutInv => PoolSelectsOwnServers
  <2> SUFFICES ASSUME RolloutInv, NEW n \in DOMAIN services,
                      KeyOf("pool", n) \in DOMAIN objs, NEW p \in pods
               PROVE  Selects(objs[KeyOf("pool", n)].body.selector, p.template.labels)
                        <=> p.of \in ServingKeys(n)
    BY DEF PoolSelectsOwnServers
  <2>1. PICK c \in Builds : /\ c[1] \in Deployments /\ p.of = KeyOf(c[1], c[2])
                            /\ p.template = Bodies[c].template
    BY DEF RolloutInv, PodsBuilt
  <2>2. PICK b \in Builds : /\ KeyOf("pool", n) = KeyOf(b[1], b[2])
                            /\ objs[KeyOf("pool", n)].body = Bodies[b]
    BY DEF RolloutInv, ObjsBuilt
  <2>3. n \in Names
    BY DEF RolloutInv, TypeOK, Names
  <2>4. b[1] = "pool" /\ b[2] = n
    <3>1. b[1] \in Kinds \ {"legacyPool"} /\ b[2] \in Names /\ "pool" \in Kinds \ {"legacyPool"}
      BY BodyIs, KindsAre
    <3> QED BY <2>2, <2>3, <3>1, KeysApart
  <2>5. Bodies[b].selector = InferencePoolSelectorLabels(n)
    <3> DEFINE op == Releases[b[4]]
    <3>1. Bodies[b] = Build("pool", Namespace, n, b[3], op)
      BY <2>4, BodyIs
    <3> HIDE DEF op
    <3>2. Bodies[b] \in {BuildInferencePool(n, b[3], op), BuildDefaultInferencePool(n, b[3], op)}
      <4>1. b[3].pool \in BOOLEAN
        BY BodyIs, SpecsAssumption DEF ServingSpec
      <4> QED BY <3>1, <4>1 DEF Build, Deployments
    <3> QED BY <3>2 DEF BuildInferencePool, BuildDefaultInferencePool
  <2> QED BY <2>1, <2>2, <2>3, <2>5, PoolSelectsServers
<1> QED BY RolloutKept, <1>1, PTL

(***************************************************************************)
(* Names of users.                                                         *)
(***************************************************************************)
LEMMA SpelledIs ==
  ASSUME RolloutInv PROVE spelled \in Seq(Symbols)
<1>1. spelled \in Seq(Alphabet) /\ Alphabet \subseteq Symbols
  BY AlphabetAssumption DEF RolloutInv, TypeOK
<1> QED BY <1>1, SeqMonotonic

\* Whatever a user spells is sanitized to a DNS-1035 label (SanitizedIsLabel;
\* helpers.go:148-149).
THEOREM SpelledIsSanitized == Spec => []SanitizedIsLabel
<1>1. RolloutInv => SanitizedIsLabel
  BY SpelledIs, SanitizedLabel DEF SanitizedIsLabel
<1> QED BY RolloutKept, <1>1, PTL

(***************************************************************************)
(* Services in one namespace.                                              *)
(***************************************************************************)
\* The services of the namespace have EPPs of different names: so they have if their
\* names are labels without two hyphens in a row.
NamesTellApart == \A n, m \in Names : EPPName(n) = EPPName(m) => n = m

LEMMA LabelsTellApart ==
  ASSUME \A n \in Names : IsLabel(n) /\ NoDoubleHyphen(n)
  PROVE  NamesTellApart
<1> SUFFICES ASSUME NEW n \in Names, NEW m \in Names, EPPName(n) = EPPName(m)
             PROVE  n = m
  BY DEF NamesTellApart
<1> QED BY NameTypes, EPPNamesDiffer

\* Working for one service the controller leaves the objects of the others alone, but
\* for the pool that has the name of its EPP (NeighboursApart; reconcile.go:157-160).
THEOREM NeighboursKeptApart ==
  ASSUME NamesTellApart
  PROVE  Spec => NeighboursApart
<1>1. ASSUME RolloutInv, [Next]_vars, NEW key \in DOMAIN objs, round.at # 0,
             objs[key].owner \notin {NoOwner, round.name},
             key # KeyOf("legacyPool", round.name)
      PROVE  key \in DOMAIN objs' /\ objs'[key] = objs[key]
  <2>1. objs' = objs \/ Ensure
    BY <1>1 DEF Next, vars, world, Users, Spell, UserCreate, UserEdit, NeighbourCreate,
                Apply, Controller, StartRound, Fail, Abort, Upgrade, Rollouts, PodStarts,
                PodStops, PodsChange
  <2>2. CASE objs' = objs
    BY <2>2
  <2>3. CASE Ensure
    <3>1. \/ objs' = objs
          \/ objs' = IF Wanted THEN Written ELSE Restrict(objs, DOMAIN objs \ {Target})
      BY <2>3 DEF Ensure, Abort
    <3>2. key # Target
      <4>1. PICK k \in Kinds \ {"legacyPool"} : key = KeyOf(k, objs[key].owner)
        BY <1>1 DEF RolloutInv, ObjsOwned
      <4>2. objs[key].owner \in Names
        BY <1>1 DEF RolloutInv, TypeOK, Names
      <4>3. Kind \in Kinds /\ round.name \in Names /\ Target = KeyOf(Kind, round.name)
        BY <1>1, DesiredIs
      <4>4. Kind # "legacyPool" => EPPName(objs[key].owner) = EPPName(round.name) \/ key # Target
        BY <4>1, <4>2, <4>3, KeysApart
      <4> QED BY <1>1, <4>2, <4>3, <4>4 DEF NamesTellApart
    <3>3. Wanted => key \in DOMAIN Written /\ Written[key] = objs[key]
      BY <1>1, <3>2, WrittenIs
    <3>4. ~Wanted => \/ objs' = objs
                     \/ key \in DOMAIN objs' /\ objs'[key] = objs[key]
      BY <1>1, <3>1, <3>2 DEF Restrict
    <3> QED BY <1>1, <3>1, <3>3, <3>4
  <2> QED BY <2>1, <2>2, <2>3
<1> DEFINE Apart ==
      \A key \in DOMAIN objs :
        round.at # 0 /\ objs[key].owner \notin {NoOwner, round.name}
          => \/ key \in DOMAIN objs' /\ objs'[key] = objs[key]
             \/ key = KeyOf("legacyPool", round.name)
<1>2. RolloutInv /\ [Next]_vars => Apart
  BY <1>1
<1>3. NeighboursApart <=> [][Apart]_vars
  BY DEF NeighboursApart
<1> QED BY RolloutKept, <1>2, <1>3, PTL DEF Spec
(***************************************************************************)
(* Every write is one the API server accepts.                              *)
(***************************************************************************)
\* A label behind the namespace, which has no dots, is a legal name.
LEMMA InNamespaceLegal ==
  ASSUME NEW t \in Seq(Symbols), IsLabel(t)
  PROVE  IsObjectName(InNamespace(t))
<1> DEFINE u == InNamespace(t)
           f == Namespace \o << "-" >>
           n == Len(Namespace)
           m == Len(t)
<1>1. /\ Namespace \in Seq(Symbols) /\ Namespace # << >>
      /\ \A i \in DOMAIN Namespace : Namespace[i] \in Lower \cup Digits \cup {"-", "."}
      /\ \A i \in DOMAIN Namespace : Namespace[i] # "."
      /\ Head(Namespace) \notin {"-", "."}
  BY NamespaceAssumption DEF IsNamespace, IsObjectName
<1>2. n \in Nat /\ n # 0 /\ DOMAIN Namespace = 1 .. n /\ Namespace[1] \notin {"-", "."}
      /\ \A i \in 1 .. n : Namespace[i] \in Lower \cup Digits \cup {"-"}
  BY <1>1, EndsAre
<1>3. /\ m \in Nat /\ m # 0 /\ t[m] # "-"
      /\ \A i \in 1 .. m : t[i] \in Lower \cup Digits \cup {"-"}
  BY EndsAre DEF IsLabel
<1>4. "-" \in Symbols
  BY DEF Symbols
<1>5. << "-" >> \in Seq(Symbols) /\ Len(<< "-" >>) = 1
  BY <1>4
<1>6. /\ f \in Seq(Symbols) /\ Len(f) = n + 1
      /\ \A i \in 1 .. n : f[i] = Namespace[i]
      /\ f[n + 1] = "-"
  <2>1. /\ f \in Seq(Symbols) /\ Len(f) = n + Len(<< "-" >>)
        /\ \A i \in 1 .. n + Len(<< "-" >>) :
             f[i] = IF i <= n THEN Namespace[i] ELSE << "-" >>[i - n]
    BY <1>1, <1>5, ConcatProperties
  <2> HIDE DEF f, n
  <2> QED BY <2>1, <1>2, <1>5
<1>7. u = f \o t
  BY DEF InNamespace
<1> HIDE DEF f, u
<1>8. /\ u \in Seq(Symbols) /\ Len(u) = Len(f) + m
      /\ \A i \in 1 .. Len(f) + m : u[i] = IF i <= Len(f) THEN f[i] ELSE t[i - Len(f)]
  BY <1>6, <1>7, ConcatProperties
<1> HIDE DEF n, m
<1>9. Len(u) = n + 1 + m /\ Len(u) # 0
  BY <1>2, <1>3, <1>6, <1>8
<1>10. \A i \in 1 .. n + 1 + m : u[i] \in Lower \cup Digits \cup {"-"}
  <2> TAKE i \in 1 .. n + 1 + m
  <2>1. CASE i \in 1 .. n
    BY <2>1, <1>2, <1>3, <1>6, <1>8
  <2>2. CASE i = n + 1
    BY <2>2, <1>2, <1>3, <1>6, <1>8
  <2>3. CASE i > n + 1
    <3>1. i - (n + 1) \in 1 .. m /\ u[i] = t[i - (n + 1)]
      BY <2>3, <1>2, <1>3, <1>6, <1>8
    <3> QED BY <3>1, <1>3
  <2> QED BY <2>1, <2>2, <2>3, <1>2
<1>11. u[1] = Namespace[1] /\ u[n + 1 + m] = t[m]
  <2>1. u[1] = Namespace[1]
    BY <1>2, <1>3, <1>6, <1>8
  <2>2. PICK i \in 1 .. n + 1 + m : i = n + 1 + m /\ i - (n + 1) = m /\ i > n + 1
    BY <1>2, <1>3
  <2>3. u[i] = t[i - (n + 1)]
    BY <2>2, <1>2, <1>3, <1>6, <1>8
  <2>4. u[i] = t[m]
    BY <2>2, <2>3, Zenon
  <2> QED BY <2>1, <2>2, <2>4, Zenon
<1>12. u # << >> /\ DOMAIN u = 1 .. n + 1 + m /\ Head(u) = u[1] /\ Last(u) = u[n + 1 + m]
  <2>1. u # << >>
    BY <1>9
  <2> QED BY <2>1, <1>8, <1>9, EndsAre
<1>13. \A i \in 1 .. n + 1 + m : u[i] # "."
  BY <1>10, LowerIsNotSeparator
<1>14. Head(u) \notin {"-", "."} /\ Last(u) \notin {"-", "."}
  <2>1. n + 1 + m \in 1 .. n + 1 + m
    BY <1>2, <1>3
  <2> QED BY <2>1, <1>2, <1>3, <1>11, <1>12, <1>13
<1>15. IsObjectName(u)
  <2>1. \A i \in DOMAIN u : u[i] \in Lower \cup Digits \cup {"-", "."}
    BY <1>10, <1>12
  <2>2. \A i \in 1 .. Len(u) - 1 : u[i] # "."
    BY <1>2, <1>3, <1>9, <1>13
  <2>3. \A i \in 2 .. Len(u) : u[i] # "."
    BY <1>2, <1>3, <1>9, <1>13
  <2> QED BY <2>1, <2>2, <2>3, <1>12, <1>14 DEF IsObjectName
<1> QED BY <1>15 DEF u

LEMMA KeysLegal ==
  ASSUME NEW k \in Kinds, NEW n \in Names
  PROVE  Legal(KeyOf(k, n))
<1>1. /\ n \in Seq(Symbols) /\ IsObjectName(n)
      /\ EPPName(n) \in Seq(Symbols) /\ IsLabel(EPPName(n)) /\ IsObjectName(EPPName(n))
  BY NameTypes, EPPNameIsLabel
<1>2. {"decode", "prefill", "config", "secret"} \subseteq Lower
  BY DEF Lower
<1>3. IsObjectName(ObjectName(k, Namespace, n))
  <2>1. CASE k \in {"decode", "prefill", "podMonitorDecode", "podMonitorPrefill"}
    BY <2>1, <1>1, <1>2, ObjectNamesAre, SuffixedObjectName
  <2>2. CASE k \in {"pool", "route"}
    BY <2>2, <1>1, ObjectNamesAre
  <2>3. CASE k \in {"configMap", "secret"}
    BY <2>3, <1>1, <1>2, ObjectNamesAre, SuffixedObjectName
  <2>4. CASE k \in ClusterKinds
    BY <2>4, <1>1, ObjectNamesAre, InNamespaceLegal
  <2>5. CASE k \in {"epp", "legacyPool", "serviceAccount", "service", "role",
                    "roleBinding", "destinationRule", "serviceMonitor"}
    BY <2>5, <1>1, ObjectNamesAre
  <2> QED BY <2>1, <2>2, <2>3, <2>4, <2>5, KindsAre DEF ClusterKinds
<1>4. ObjectType(k) = "service" => k = "service"
  BY TypesAre, KindsAre DEF Deployments
<1>5. k = "service" => IsLabel(ObjectName(k, Namespace, n))
  BY <1>1, ObjectNamesAre
<1> QED BY <1>3, <1>4, <1>5, KeyIs DEF Legal

\* A role grants what the operator may do itself.
LEMMA RulesGranted ==
  ASSUME NEW b \in Builds, b[1] \in {"role", "clusterRole"}
  PROVE  Bodies[b].rules \subseteq OperatorRights
<1> DEFINE op == Releases[b[4]]
<1>1. Bodies[b] = Build(b[1], Namespace, b[2], b[3], op)
  BY BodyIs
<1> HIDE DEF op
<1>2. CASE b[1] = "role"
  <2>1. Bodies[b] = BuildEPPRole(b[2], b[3], op)
    BY <1>1, <1>2 DEF Build
  <2> QED BY <2>1 DEF BuildEPPRole, OperatorRights
<1>3. CASE b[1] = "clusterRole"
  <2>1. Bodies[b] = BuildEPPClusterRole(b[2], op)
    BY <1>1, <1>3 DEF Build
  <2> QED BY <2>1 DEF BuildEPPClusterRole, OperatorRights
<1> QED BY <1>2, <1>3

\* Every container finds the volumes it mounts.
LEMMA VolumesThere ==
  ASSUME NEW b \in Builds, b[1] \in Deployments
  PROVE  Mounts(Bodies[b].template) \subseteq Bodies[b].template.volumes
<1> DEFINE op == Releases[b[4]]
           spec == b[3]
<1>1. Bodies[b] = Build(b[1], Namespace, b[2], spec, op)
  BY BodyIs
<1> HIDE DEF op, spec
<1>2. CASE b[1] \in {"decode", "prefill"}
  <2>1. Bodies[b] = BuildDeployment(b[2], b[1], spec, op)
    BY <1>1, <1>2 DEF Build
  <2>2. /\ Bodies[b].template.volumes = Volumes(spec)
        /\ Bodies[b].template.containers = InitContainers(spec, b[1], op) \cup {VLLMContainer(spec, b[1])}
    BY <2>1 DEF BuildDeployment
  <2>3. /\ ModelUnpackContainer(spec).mounts \subseteq Volumes(spec)
        /\ RoutingProxyContainer(spec).mounts \subseteq Volumes(spec)
        /\ VLLMContainer(spec, b[1]).mounts \subseteq Volumes(spec)
    BY DEF ModelUnpackContainer, RoutingProxyContainer, VLLMContainer, Volumes
  <2>4. \A c \in Bodies[b].template.containers :
          c \in {ModelUnpackContainer(spec), RoutingProxyContainer(spec), VLLMContainer(spec, b[1])}
    BY <2>2 DEF InitContainers
  <2>5. \A c \in Bodies[b].template.containers : c.mounts \subseteq Volumes(spec)
    BY <2>3, <2>4
  <2> QED BY <2>2, <2>5 DEF Mounts
<1>3. CASE b[1] = "epp"
  <2>1. Bodies[b] = BuildEPPDeployment(b[2], spec, op)
    BY <1>1, <1>3 DEF Build
  <2>2. /\ Bodies[b].template.volumes = {"epp-config"}
        /\ Bodies[b].template.containers = {EPPContainer(spec)}
    BY <2>1 DEF BuildEPPDeployment
  <2>3. EPPContainer(spec).mounts = {"epp-config"}
    BY DEF EPPContainer
  <2> QED BY <2>2, <2>3 DEF Mounts
<1> QED BY <1>2, <1>3 DEF Deployments

\* No spec gives the EPP the port of its metrics.  (The code does not check that.)
EPPPortsApart == \A s \in Specs : EPPPort(s) # 9090

\* The ports of an EPP's Service differ.
LEMMA PortsOnce ==
  ASSUME EPPPortsApart, NEW b \in Builds, b[1] = "service",
         NEW p \in Bodies[b].ports, NEW q \in Bodies[b].ports, p.number = q.number
  PROVE  p = q
<1> DEFINE op == Releases[b[4]]
           proc == Port("grpc-ext-proc", EPPPort(b[3]))
           metrics == Port("http-metrics", 9090)
<1>1. Bodies[b] = BuildEPPService(b[2], b[3], op)
  BY BodyIs DEF Build
<1>2. b[3] \in Specs
  BY BodyIs
<1> HIDE DEF op
<1>3. Bodies[b].ports = {proc, metrics}
  BY <1>1 DEF BuildEPPService
<1>4. proc.number # metrics.number
  BY <1>2 DEF EPPPortsApart, Port
<1> QED BY <1>3, <1>4

LEMMA BuildsValid ==
  ASSUME EPPPortsApart, NEW b \in Builds
  PROVE  Valid[b]
<1>1. Valid = [c \in Builds |-> Validated(c)]
  BY TableIs DEF Valid
<1>2. b[1] \in Kinds /\ b[2] \in Names
  BY BodyIs
<1>3. Validated(b)
  BY <1>2, KeysLegal, RulesGranted, SelectsOwnPods, VolumesThere, PortsOnce DEF Validated
<1> QED BY <1>1, <1>3

\* What may not change of an object is determined by its key.
LEMMA ImmutableIsOfKey ==
  ASSUME NEW b \in Builds, NEW c \in Builds, KeyOf(b[1], b[2]) = KeyOf(c[1], c[2]),
         NEW f \in Immutable(KeyOf(b[1], b[2])[1])
  PROVE  Bodies[b][f] = Bodies[c][f]
<1> DEFINE k == b[1]
           opb == Releases[b[4]]
           opc == Releases[c[4]]
<1>1. /\ k \in Kinds \ {"legacyPool"} /\ c[1] = k /\ b[2] \in Names /\ c[2] \in Names
      /\ EPPName(b[2]) = EPPName(c[2])
      /\ k \in {"decode", "prefill"} => b[2] = c[2]
  BY BodyIs, KeysApart
<1>2. /\ Bodies[b] = Build(k, Namespace, b[2], b[3], opb)
      /\ Bodies[c] = Build(k, Namespace, c[2], c[3], opc)
  BY <1>1, BodyIs
<1>3. KeyOf(b[1], b[2])[1] = ObjectType(k)
  BY <1>1, KeyIs
<1> HIDE DEF k, opb, opc
<1>4. \/ k \in Deployments /\ f = "selector"
      \/ k \in {"roleBinding", "clusterRoleBinding"} /\ f = "roleRef"
  <2>1. ObjectType(k) = "Deployment" => k \in Deployments
    BY <1>1, TypesAre, KindsAre
  <2>2. ObjectType(k) \in {"roleBinding", "clusterRoleBinding"} => k = ObjectType(k)
    BY <1>1, TypesAre, KindsAre DEF Deployments
  <2> QED BY <1>3, <2>1, <2>2 DEF Immutable
<1>5. CASE k \in {"decode", "prefill"}
  <2>1. /\ Bodies[b].selector = SelectorLabelsForRole(b[2], k)
        /\ Bodies[c].selector = SelectorLabelsForRole(b[2], k)
    BY <1>1, <1>5, DeploymentBody DEF k
  <2> QED BY <1>4, <1>5, <2>1
<1>6. CASE k = "epp"
  <2>1. Bodies[b] = BuildEPPDeployment(b[2], b[3], opb) /\ Bodies[c] = BuildEPPDeployment(c[2], c[3], opc)
    BY <1>2, <1>6 DEF Build
  <2>2. Bodies[b].selector = Bodies[c].selector
    BY <2>1, <1>1 DEF BuildEPPDeployment, EPPSelectorLabels
  <2> QED BY <1>4, <1>6, <2>2
<1>7. CASE k = "roleBinding"
  <2>1. Bodies[b] = BuildEPPRoleBinding(b[2], opb) /\ Bodies[c] = BuildEPPRoleBinding(c[2], opc)
    BY <1>2, <1>7 DEF Build
  <2>2. Bodies[b].roleRef = Bodies[c].roleRef
    BY <2>1, <1>1 DEF BuildEPPRoleBinding
  <2> QED BY <1>4, <1>7, <2>2 DEF Deployments
<1>8. CASE k = "clusterRoleBinding"
  <2>1. /\ Bodies[b] = BuildEPPClusterRoleBinding(Namespace, b[2], opb)
        /\ Bodies[c] = BuildEPPClusterRoleBinding(Namespace, c[2], opc)
    BY <1>2, <1>8 DEF Build
  <2>2. Bodies[b].roleRef = Bodies[c].roleRef
    BY <2>1, <1>1 DEF BuildEPPClusterRoleBinding, EPPClusterRBACName
  <2> QED BY <1>4, <1>8, <2>2 DEF Deployments
<1> QED BY <1>4, <1>5, <1>6, <1>7, <1>8 DEF Deployments

\* Whatever was written before, by whichever operator, for whichever service, the next
\* write is one the API server accepts (WritesAccepted).
THEOREM WritesAlwaysAccepted ==
  ASSUME EPPPortsApart
  PROVE  Spec => []WritesAccepted
<1>1. RolloutInv => WritesAccepted
  <2> SUFFICES ASSUME RolloutInv, round.at # 0, Wanted
               PROVE  Accepts(Target, Desired)
    BY DEF WritesAccepted
  <2>1. Desired \in Builds /\ Target = KeyOf(Desired[1], Desired[2])
    BY DesiredIs
  <2>2. Valid[Desired]
    BY <2>1, BuildsValid
  <2>3. ASSUME Target \in DOMAIN objs, NEW f \in Immutable(Target[1])
        PROVE  objs[Target].body[f] = Bodies[Desired][f]
    <3>1. PICK b \in Builds : Target = KeyOf(b[1], b[2]) /\ objs[Target].body = Bodies[b]
      BY <2>3 DEF RolloutInv, ObjsBuilt
    <3>2. KeyOf(Desired[1], Desired[2]) = KeyOf(b[1], b[2]) /\ f \in Immutable(KeyOf(b[1], b[2])[1])
      BY <2>1, <2>3, <3>1
    <3>3. Bodies[b][f] = Bodies[Desired][f]
      BY <2>1, <3>2, ImmutableIsOfKey
    <3> QED BY <3>1, <3>3
  <2> QED BY <2>2, <2>3 DEF Accepts
<1> QED BY RolloutKept, <1>1, PTL
=============================================================================
