------------------------ MODULE ServingSettled_proofs ------------------------
(***************************************************************************)
(* Theorems about the settled states of ServingRollout: when nothing is    *)
(* left to do, what serves fits together.                                  *)
(***************************************************************************)
EXTENDS ServingRollout_proofs

\* The pool of older releases is not made any more.
Children == Kinds \ {"legacyPool"}

\* Among the objects o the child is as the spec and the operator rel want it.
Fits(k, n, spec, rel, o) ==
  IF Needs(k, spec, Releases[rel])
  THEN KeyOf(k, n) \in DOMAIN o /\ o[KeyOf(k, n)].body = Bodies[<<k, n, spec, rel>>]
  ELSE KeyOf(k, n) \notin DOMAIN o

(***************************************************************************)
(* The invariant: what a run has passed fits the spec it has read, and     *)
(* every child of a service that nobody has to look at again fits the spec *)
(* of the service.                                                         *)
(***************************************************************************)
RoundCurrent == round.at # 0 /\ round.name \notin queue => services[round.name] = round.spec

RoundDone ==
  round.at # 0 => \A i \in 1 .. round.at - 1 :
    Plan[i] # "legacyPool" => Fits(Plan[i], round.name, round.spec, release, objs)

Tended ==
  \A n \in DOMAIN services \ queue :
    \/ round.at # 0 /\ round.name = n
    \/ \A k \in Children : Fits(k, n, services[n], release, objs)

\* A pool that is deleted queues the service it belongs to.
PoolsOwned == \A key \in DOMAIN objs : key[1] = "InferencePool" => objs[key].owner # NoOwner

TendedInv == RoundCurrent /\ RoundDone /\ Tended /\ PoolsOwned

LEMMA ChildrenAre ==
  /\ Children = {"decode", "prefill", "serviceAccount", "configMap", "epp", "service",
                 "secret", "role", "roleBinding", "clusterRole", "clusterRoleBinding",
                 "pool", "route", "destinationRule", "podMonitorDecode",
                 "podMonitorPrefill", "serviceMonitor"}
  /\ Children \subseteq Kinds
BY KindsAre DEF Children

\* Positions and kinds.
LEMMA PlanIs ==
  /\ \A i \in 1 .. 18 : Plan[i] \in Kinds
  /\ \A i, j \in 1 .. 18 : Plan[i] = Plan[j] => i = j
  /\ \A i \in 1 .. 18 : Plan[i] = "legacyPool" <=> i = 12
  /\ \A i \in 1 .. 18 : Plan[i] = "pool" <=> i = 13
  /\ \A i \in 1 .. 18 : Plan[i] = "configMap" <=> i = 4
  /\ \A i \in 1 .. 18 : Plan[i] = "epp" <=> i = 5
  /\ \A k \in Kinds : \E i \in 1 .. 18 : Plan[i] = k
<1>1. DOMAIN Plan = 1 .. 18
  BY DEF Plan
<1>2. \A k : k \in Kinds <=> \E i \in 1 .. 18 : Plan[i] = k
  BY <1>1 DEF Kinds
<1>3. /\ \A i, j \in 1 .. 18 : Plan[i] = Plan[j] => i = j
      /\ \A i \in 1 .. 18 : Plan[i] = "legacyPool" <=> i = 12
      /\ \A i \in 1 .. 18 : Plan[i] = "pool" <=> i = 13
      /\ \A i \in 1 .. 18 : Plan[i] = "configMap" <=> i = 4
      /\ \A i \in 1 .. 18 : Plan[i] = "epp" <=> i = 5
  BY DEF Plan
<1> QED BY <1>2, <1>3

LEMMA OutdatedIs ==
  ASSUME NEW k, NEW r, NEW o
  PROVE  ~Outdated(k, r, o) <=> Fits(k, r.name, r.spec, release, o)
BY DEF Outdated, Fits, Running

\* What a run passes over fits.
LEMMA ProceedPasses ==
  ASSUME NEW r, NEW o,
         r \in [name : DOMAIN services \cup {<< >>}, spec : Specs, at : 0 .. 18],
         Proceed(r, o)
  PROVE  \/ /\ round' = Idle
            /\ \A i \in r.at + 1 .. 18 : Fits(Plan[i], r.name, r.spec, release, o)
         \/ \E j \in r.at + 1 .. 18 :
              /\ round' = [r EXCEPT !.at = j]
              /\ \A i \in r.at + 1 .. j - 1 : Fits(Plan[i], r.name, r.spec, release, o)
<1> DEFINE due == {i \in r.at + 1 .. Len(Plan) : Outdated(Plan[i], r, o)}
<1>1. r.at \in 0 .. 18
  OBVIOUS
<1>2. CASE due = {}
  <2>1. round' = Idle
    BY <1>2 DEF Proceed
  <2>2. \A i \in r.at + 1 .. 18 : ~Outdated(Plan[i], r, o)
    BY <1>2, PlanLength
  <2> QED BY <2>1, <2>2, OutdatedIs
<1>3. CASE due # {}
  <2>1. round' = [r EXCEPT !.at = Min(due)]
    BY <1>3 DEF Proceed
  <2>2. due \subseteq r.at + 1 .. 18 /\ due \subseteq Nat /\ due # {}
    BY <1>1, <1>3, PlanLength
  <2>3. \A i \in r.at + 1 .. 18 : i \notin due => ~Outdated(Plan[i], r, o)
    BY PlanLength
  <2> HIDE DEF due
  <2>4. PICK j \in due : j = Min(due) /\ \A i \in due : j =< i
    BY <2>2, MinIsLeast
  <2>5. r.at \in Nat /\ j \in Nat /\ j \in r.at + 1 .. 18
    BY <1>1, <2>2
  <2>6. ASSUME NEW i \in r.at + 1 .. j - 1
        PROVE  Fits(Plan[i], r.name, r.spec, release, o)
    <3>1. i \in r.at + 1 .. 18 /\ i < j
      BY <2>5
    <3>2. i \notin due
      BY <2>2, <2>4, <2>5, <3>1
    <3> QED BY <2>3, <3>1, <3>2, OutdatedIs
  <2> QED BY <2>1, <2>4, <2>5, <2>6
<1> QED BY <1>2, <1>3

(***************************************************************************)
(* Every step keeps it.  Steps that leave the objects alone:               *)
(***************************************************************************)
LEMMA IdleIsNoRound == Idle.at = 0
BY IdleIs

LEMMA InitTended ==
  ASSUME Init
  PROVE  TendedInv
<1>1. round.at = 0 /\ DOMAIN services = {} /\ DOMAIN objs = {}
  BY IdleIsNoRound DEF Init
<1> QED BY <1>1 DEF TendedInv, RoundCurrent, RoundDone, Tended, PoolsOwned

\* More services are queued, among them those that have another spec.
LEMMA QueuedIs ==
  ASSUME RolloutInv, TendedInv, UNCHANGED <<objs, release, round>>, queue \subseteq queue',
         DOMAIN services \subseteq DOMAIN services',
         \A m \in DOMAIN services' \ queue' : m \in DOMAIN services /\ services'[m] = services[m]
  PROVE  TendedInv'
<1>1. round.at # 0 => round.name \in DOMAIN services
  BY DEF RolloutInv, RoundTyped
<1>2. RoundCurrent'
  BY <1>1 DEF TendedInv, RoundCurrent
<1>3. RoundDone' /\ PoolsOwned'
  BY DEF TendedInv, RoundDone, PoolsOwned
<1>4. Tended'
  BY DEF TendedInv, Tended
<1> QED BY <1>2, <1>3, <1>4 DEF TendedInv

LEMMA UsersTended ==
  ASSUME RolloutInv, TendedInv, Users
  PROVE  TendedInv'
<1>1. ASSUME NEW n, NEW spec, Apply(n, spec) PROVE TendedInv'
  <2>1. /\ DOMAIN services' = DOMAIN services \cup {n}
        /\ \A m \in DOMAIN services : m # n => services'[m] = services[m]
    BY <1>1 DEF Apply, Joined
  <2>2. queue' = queue \cup {n} /\ UNCHANGED <<objs, release, round>>
    BY <1>1 DEF Apply
  <2> QED BY <2>1, <2>2, QueuedIs
<1>2. ASSUME NEW c, Spell(c) PROVE TendedInv'
  <2>1. UNCHANGED <<services, queue, objs, release, round>> /\ queue \subseteq DOMAIN services
    BY <1>2 DEF Spell, world, RolloutInv, TypeOK
  <2> QED BY <2>1, QueuedIs
<1> QED BY <1>1, <1>2 DEF Users, UserCreate, UserEdit, NeighbourCreate

LEMMA RolloutsTended ==
  ASSUME RolloutInv, TendedInv, Rollouts
  PROVE  TendedInv'
<1>1. /\ queue \subseteq queue' /\ UNCHANGED <<services, objs, release, round>>
  BY DEF Rollouts, PodStarts, PodStops, PodsChange
<1> QED BY <1>1, QueuedIs

LEMMA UpgradeTended ==
  ASSUME RolloutInv, TendedInv, NEW r, Upgrade(r)
  PROVE  TendedInv'
<1>1. round'.at = 0 /\ queue' = DOMAIN services' /\ UNCHANGED objs
  BY IdleIsNoRound DEF Upgrade, world
<1> QED BY <1>1 DEF TendedInv, RoundCurrent, RoundDone, Tended, PoolsOwned

\* A run that ends with an error leaves its service in the queue.
LEMMA AbortTended ==
  ASSUME RolloutInv, TendedInv, round.at # 0, Abort, UNCHANGED <<services, release>>
  PROVE  TendedInv'
<1>1. round'.at = 0 /\ queue' = queue \cup {round.name} /\ UNCHANGED objs
  BY IdleIsNoRound DEF Abort
<1> QED BY <1>1 DEF TendedInv, RoundCurrent, RoundDone, Tended, PoolsOwned

\* All positions are all kinds.
LEMMA AllFit ==
  ASSUME NEW n, NEW spec, NEW o, NEW rel,
         \A i \in 1 .. 18 : Plan[i] # "legacyPool" => Fits(Plan[i], n, spec, rel, o)
  PROVE  \A k \in Children : Fits(k, n, spec, rel, o)
<1> SUFFICES ASSUME NEW k \in Children PROVE Fits(k, n, spec, rel, o)
  OBVIOUS
<1>1. PICK i \in 1 .. 18 : Plan[i] = k
  BY PlanIs, ChildrenAre
<1>2. k # "legacyPool"
  BY DEF Children
<1> QED BY <1>1, <1>2

LEMMA StartRoundTended ==
  ASSUME RolloutInv, TendedInv, NEW n \in queue, StartRound(n)
  PROVE  TendedInv'
<1> DEFINE r == [name |-> n, spec |-> services[n], at |-> 0]
<1>1. /\ n \in DOMAIN services /\ services[n] \in Specs
  BY DEF RolloutInv, TypeOK
<1>2. /\ r \in [name : DOMAIN services \cup {<< >>}, spec : Specs, at : 0 .. 18]
      /\ r.name = n /\ r.spec = services[n] /\ r.at = 0
  BY <1>1
<1>3. /\ Proceed(r, objs) /\ queue' = queue \ {n} /\ round.at = 0
      /\ UNCHANGED <<services, objs, release>>
  BY DEF StartRound, world
<1> HIDE DEF r
<1>4. PoolsOwned'
  BY <1>3 DEF TendedInv, PoolsOwned
<1>5. \A m \in DOMAIN services \ queue : \A k \in Children : Fits(k, m, services[m], release, objs)
  BY <1>3 DEF TendedInv, Tended
<1>6. CASE /\ round' = Idle
           /\ \A i \in r.at + 1 .. 18 : Fits(Plan[i], r.name, r.spec, release, objs)
  <2>1. \A k \in Children : Fits(k, n, services[n], release, objs)
    BY <1>2, <1>6, AllFit
  <2>2. Tended'
    BY <1>3, <1>5, <2>1 DEF Tended
  <2>3. round'.at = 0
    BY <1>6, IdleIsNoRound
  <2>4. RoundCurrent' /\ RoundDone'
    BY <2>3 DEF RoundCurrent, RoundDone
  <2> QED BY <1>4, <2>2, <2>4 DEF TendedInv
<1>7. ASSUME NEW j \in r.at + 1 .. 18, round' = [r EXCEPT !.at = j],
             \A i \in r.at + 1 .. j - 1 : Fits(Plan[i], r.name, r.spec, release, objs)
      PROVE  TendedInv'
  <2>1. round'.name = n /\ round'.spec = services[n] /\ round'.at = j /\ j # 0
    BY <1>2, <1>7
  <2>2. RoundCurrent'
    BY <1>3, <2>1 DEF RoundCurrent
  <2>3. RoundDone'
    BY <1>2, <1>3, <1>7, <2>1 DEF RoundDone
  <2>4. Tended'
    BY <1>3, <1>5, <2>1 DEF Tended
  <2> QED BY <1>4, <2>2, <2>3, <2>4 DEF TendedInv
<1> QED BY <1>2, <1>3, <1>6, <1>7, ProceedPasses

(***************************************************************************)
(* Ensure changes one key.                                                 *)
(***************************************************************************)
\* The services of the namespace have different keys.
LEMMA ServicesApart ==
  ASSUME NamesTellApart, NEW k \in Children, NEW l \in Children,
         NEW n \in Names, NEW m \in Names, KeyOf(k, n) = KeyOf(l, m)
  PROVE  k = l /\ n = m
BY KeysApart DEF NamesTellApart, Children

\* The pool of older releases has the key of a pool, if of anything.
LEMMA LegacyIsPool ==
  ASSUME NEW k \in Children, NEW n \in Names, NEW m \in Names,
         KeyOf(k, n) = KeyOf("legacyPool", m)
  PROVE  k = "pool"
<1>1. ObjectType(k) = ObjectType("legacyPool")
  BY KeyIs, KindsAre DEF Children
<1> QED BY <1>1, TypesAre, ChildrenAre DEF Deployments

\* What fits goes on doing so when another key is changed.
LEMMA FitsElsewhere ==
  ASSUME NEW k, NEW n, NEW spec, NEW rel, NEW o, NEW p, NEW key,
         Fits(k, n, spec, rel, o), KeyOf(k, n) # key,
         \A x : x # key => /\ x \in DOMAIN o <=> x \in DOMAIN p
                           /\ x \in DOMAIN o => p[x] = o[x]
  PROVE  Fits(k, n, spec, rel, p)
BY DEF Fits

\* The objects before and after Ensure.
LEMMA EnsureIs ==
  ASSUME RolloutInv, round.at # 0,
         objs' = IF Wanted THEN Written ELSE Restrict(objs, DOMAIN objs \ {Target})
  PROVE  /\ \A x : x # Target => /\ x \in DOMAIN objs <=> x \in DOMAIN objs'
                                 /\ x \in DOMAIN objs => objs'[x] = objs[x]
         /\ Fits(Kind, round.name, round.spec, release, objs')
         /\ ~Wanted => Target \notin DOMAIN objs'
<1>1. Target = KeyOf(Kind, round.name)
  BY DesiredIs
<1>2. CASE Wanted
  <2>1. /\ DOMAIN objs' = DOMAIN objs \cup {Target}
        /\ \A key \in DOMAIN objs : key # Target => objs'[key] = objs[key]
        /\ objs'[Target].body = Bodies[Desired]
    BY <1>2, WrittenIs
  <2> QED BY <1>1, <1>2, <2>1 DEF Fits, Wanted, Desired, Running
<1>3. CASE ~Wanted
  <2>1. DOMAIN objs' = DOMAIN objs \ {Target} /\ \A key \in DOMAIN objs' : objs'[key] = objs[key]
    BY <1>3 DEF Restrict
  <2> QED BY <1>1, <1>3, <2>1 DEF Fits, Wanted, Running
<1> QED BY <1>2, <1>3

\* Who owns a pool that is written.
LEMMA PoolsOwnedKept ==
  ASSUME RolloutInv, PoolsOwned, round.at # 0,
         objs' = IF Wanted THEN Written ELSE Restrict(objs, DOMAIN objs \ {Target})
  PROVE  PoolsOwned'
<1> SUFFICES ASSUME NEW key \in DOMAIN objs', key[1] = "InferencePool"
             PROVE  objs'[key].owner # NoOwner
  BY DEF PoolsOwned
<1>1. CASE key # Target \/ ~Wanted
  BY <1>1, EnsureIs DEF PoolsOwned
<1>2. CASE key = Target /\ Wanted
  <2> DEFINE owner == CASE Target \in DOMAIN objs -> objs[Target].owner
                        [] Target \notin DOMAIN objs /\ Kind \in ClusterKinds -> NoOwner
                        [] OTHER -> round.name
             new == [owner |-> owner, body |-> Bodies[Desired]]
  <2>1. objs' = Joined([x \in {Target} |-> new], objs)
    BY <1>2 DEF Written
  <2>2. Kind \notin ClusterKinds
    <3>1. ObjectType(Kind) = "InferencePool" /\ Kind \in Kinds
      BY <1>2, DesiredIs, KeyIs
    <3> QED BY <3>1, TypesAre DEF ClusterKinds, Deployments
  <2>3. round.name # NoOwner
    BY DesiredIs, NameTypes DEF NoOwner
  <2>4. Target \in DOMAIN objs => objs[Target].owner # NoOwner
    BY <1>2 DEF PoolsOwned
  <2>5. new.owner # NoOwner
    BY <2>2, <2>3, <2>4
  <2> HIDE DEF new
  <2>6. objs'[Target] = new
    BY <2>1 DEF Joined
  <2> QED BY <1>2, <2>5, <2>6
<1> QED BY <1>1, <1>2

\* The children of a service that is not queued are left alone by the run for another.
LEMMA NeighboursFit ==
  ASSUME NamesTellApart, RolloutInv, TendedInv, round.at # 0,
         objs' = IF Wanted THEN Written ELSE Restrict(objs, DOMAIN objs \ {Target}),
         queue' = queue \cup Enqueued(Target, objs, objs'),
         NEW n \in DOMAIN services, n \notin queue', n # round.name, NEW k \in Children
  PROVE  Fits(k, n, services[n], release, objs')
<1> DEFINE key == KeyOf(k, n)
<1>1. n \in Names /\ k \in Kinds /\ k # "legacyPool"
  BY ChildrenAre DEF RolloutInv, TypeOK, Names, Children
<1>2. Fits(k, n, services[n], release, objs)
  BY DEF TendedInv, Tended
<1>3. Kind \in Kinds /\ round.name \in Names /\ Target = KeyOf(Kind, round.name)
  BY DesiredIs
<1>4. \A x : x # Target => /\ x \in DOMAIN objs <=> x \in DOMAIN objs'
                           /\ x \in DOMAIN objs => objs'[x] = objs[x]
  BY EnsureIs
<1>5. CASE key # Target
  BY <1>2, <1>4, <1>5, FitsElsewhere
<1>6. CASE key = Target
  <2>1. Kind = "legacyPool"
    BY <1>1, <1>3, <1>6, ServicesApart DEF Children
  <2>2. k = "pool" /\ ~Wanted
    BY <1>1, <1>3, <1>6, <2>1, LegacyIsPool DEF Wanted, Needs, ClusterKinds
  <2>3. CASE key \in DOMAIN objs
    <3>1. key[1] = "InferencePool"
      BY <1>1, <2>2, KeyIs, TypesAre
    <3>2. objs[key].owner # NoOwner
      BY <2>3, <3>1 DEF TendedInv, PoolsOwned
    <3>3. PICK l \in Kinds \ {"legacyPool"} : key = KeyOf(l, objs[key].owner)
      BY <2>3, <3>2 DEF RolloutInv, ObjsOwned
    <3>4. objs[key].owner \in Names
      BY <2>3, <3>2 DEF RolloutInv, TypeOK, Names
    <3>5. objs[key].owner = n
      BY <1>1, <2>2, <3>3, <3>4, ServicesApart DEF Children
    <3>6. "InferencePool" \in WatchedTypes
      BY TypesAre DEF WatchedTypes, Watched
    <3>7. objs[key].owner \in Enqueued(Target, objs, objs')
      BY <1>6, <2>3, <3>1, <3>2, <3>6 DEF Enqueued
    <3> QED BY <3>5, <3>7
  <2>4. CASE key \notin DOMAIN objs
    <3>1. Needs("pool", services[n], Releases[release])
      BY DEF Needs, ClusterKinds
    <3> QED BY <1>2, <2>2, <2>4, <3>1 DEF Fits
  <2> QED BY <2>3, <2>4
<1> QED BY <1>5, <1>6

\* What the run has done so far, and what it does now.
LEMMA EnsuredFit ==
  ASSUME RolloutInv, TendedInv, round.at # 0,
         objs' = IF Wanted THEN Written ELSE Restrict(objs, DOMAIN objs \ {Target}),
         NEW i \in 1 .. round.at, Plan[i] # "legacyPool"
  PROVE  Fits(Plan[i], round.name, round.spec, release, objs')
<1>1. round.at \in 1 .. 18 /\ i \in 1 .. 18 /\ Kind = Plan[round.at]
  BY PlanLength DEF RolloutInv, RoundTyped, Kind
<1>2. Kind \in Kinds /\ round.name \in Names /\ Target = KeyOf(Kind, round.name)
  BY DesiredIs
<1>3. CASE i = round.at
  BY <1>1, <1>3, EnsureIs
<1>4. CASE i # round.at
  <2>1. i \in 1 .. round.at - 1
    BY <1>1, <1>4
  <2>2. Fits(Plan[i], round.name, round.spec, release, objs)
    BY <2>1 DEF TendedInv, RoundDone
  <2>3. Plan[i] \in Children /\ Plan[i] # Kind
    BY <1>1, <1>4, PlanIs DEF Children
  <2>4. KeyOf(Plan[i], round.name) # Target
    <3>1. CASE Kind # "legacyPool"
      BY <1>2, <2>3, <3>1, KeysApart DEF Children
    <3>2. CASE Kind = "legacyPool"
      <4>1. round.at = 12 /\ Plan[i] # "pool"
        <5>1. round.at = 12
          BY <1>1, <3>2, PlanIs
        <5>2. i # 13
          BY <2>1, <5>1
        <5> QED BY <1>1, <5>1, <5>2, PlanIs
      <4> QED BY <1>2, <2>3, <3>2, <4>1, LegacyIsPool
    <3> QED BY <3>1, <3>2
  <2> QED BY <2>2, <2>4, EnsureIs, FitsElsewhere
<1> QED BY <1>3, <1>4

LEMMA EnsureTended ==
  ASSUME NamesTellApart, RolloutInv, TendedInv, Ensure
  PROVE  TendedInv'
<1>1. round.at # 0 /\ UNCHANGED <<services, release>>
  BY DEF Ensure
<1>2. CASE ~(Wanted => Accepts(Target, Desired))
  BY <1>1, <1>2, AbortTended DEF Ensure
<1>3. CASE Wanted => Accepts(Target, Desired)
  <2>1. /\ objs' = IF Wanted THEN Written ELSE Restrict(objs, DOMAIN objs \ {Target})
        /\ queue' = queue \cup Enqueued(Target, objs, objs')
        /\ Proceed(round, objs')
    BY <1>3 DEF Ensure
  <2>2. /\ round \in [name : DOMAIN services \cup {<< >>}, spec : Specs, at : 0 .. 18]
        /\ round.name \in DOMAIN services /\ round.at \in 1 .. 18
    BY <1>1, PlanLength DEF RolloutInv, RoundTyped
  <2>3. PoolsOwned'
    BY <1>1, <2>1, PoolsOwnedKept DEF TendedInv
  <2>4. \A n \in DOMAIN services \ queue' : n # round.name =>
          \A k \in Children : Fits(k, n, services[n], release, objs')
    BY <1>1, <2>1, NeighboursFit
  <2>5. \A i \in 1 .. round.at : Plan[i] # "legacyPool" =>
          Fits(Plan[i], round.name, round.spec, release, objs')
    BY <1>1, <2>1, EnsuredFit
  <2>6. round.name \notin queue' => services[round.name] = round.spec
    BY <1>1, <2>1 DEF TendedInv, RoundCurrent
  <2>7. CASE /\ round' = Idle
             /\ \A i \in round.at + 1 .. 18 : Fits(Plan[i], round.name, round.spec, release, objs')
    <3>1. \A i \in 1 .. 18 : Plan[i] # "legacyPool" =>
            Fits(Plan[i], round.name, round.spec, release, objs')
      <4>1. \A i \in 1 .. 18 : i \in 1 .. round.at \/ i \in round.at + 1 .. 18
        BY <2>2
      <4> QED BY <2>5, <2>7, <4>1
    <3>2. \A k \in Children : Fits(k, round.name, round.spec, release, objs')
      BY <3>1, AllFit
    <3>3. Tended'
      BY <1>1, <2>4, <2>6, <3>2 DEF Tended
    <3>4. round'.at = 0
      BY <2>7, IdleIsNoRound
    <3>5. RoundCurrent' /\ RoundDone'
      BY <3>4 DEF RoundCurrent, RoundDone
    <3> QED BY <2>3, <3>3, <3>5 DEF TendedInv
  <2>8. ASSUME NEW j \in round.at + 1 .. 18, round' = [round EXCEPT !.at = j],
               \A i \in round.at + 1 .. j - 1 :
                 Fits(Plan[i], round.name, round.spec, release, objs')
        PROVE  TendedInv'
    <3>1. round'.name = round.name /\ round'.spec = round.spec /\ round'.at = j /\ j # 0
      BY <2>2, <2>8
    <3>2. RoundCurrent'
      BY <1>1, <2>6, <3>1 DEF RoundCurrent
    <3>3. RoundDone'
      <4>1. \A i \in 1 .. j - 1 : i \in 1 .. round.at \/ i \in round.at + 1 .. j - 1
        BY <2>2
      <4>2. \A i \in 1 .. j - 1 : Plan[i] # "legacyPool" =>
              Fits(Plan[i], round.name, round.spec, release, objs')
        BY <2>5, <2>8, <4>1
      <4> QED BY <1>1, <3>1, <4>2 DEF RoundDone
    <3>4. Tended'
      BY <1>1, <2>4, <3>1 DEF Tended
    <3> QED BY <2>3, <3>2, <3>3, <3>4 DEF TendedInv
  <2> QED BY <2>1, <2>2, <2>7, <2>8, ProceedPasses
<1> QED BY <1>2, <1>3

LEMMA TendedStep ==
  ASSUME NamesTellApart, RolloutInv, TendedInv, [Next]_vars
  PROVE  TendedInv'
<1>1. CASE UNCHANGED vars
  <2>1. UNCHANGED <<services, objs, release, queue, round>>
    BY <1>1 DEF vars, world
  <2>2. \A m \in DOMAIN services' \ queue' : m \in DOMAIN services /\ services'[m] = services[m]
    BY <2>1
  <2> QED BY <2>1, <2>2, QueuedIs
<1>2. CASE Fail
  BY <1>2, AbortTended DEF Fail
<1>3. CASE Next
  BY <1>2, <1>3, UsersTended, StartRoundTended, EnsureTended, UpgradeTended, RolloutsTended
     DEF Next, Controller
<1> QED BY <1>1, <1>3

\* Whatever the edits, upgrades and failures, and whoever takes away a pool: a service
\* that is not queued, and not in a run, has all the children its spec and the
\* installed operator want, as they want them, and no others
\* (modelservice_controller.go:157-219).
THEOREM TendedKept ==
  ASSUME NamesTellApart
  PROVE  Spec => [](RolloutInv /\ TendedInv)
<1>1. Init => RolloutInv /\ TendedInv
  BY InitRollout, InitTended
<1>2. RolloutInv /\ TendedInv /\ [Next]_vars => (RolloutInv /\ TendedInv)'
  BY RolloutStep, TendedStep
<1> QED BY <1>1, <1>2, PTL DEF Spec

(***************************************************************************)
(* Settled states: every child and every Pod is what the builders return   *)
(* for the spec of its service and the operator that is installed.         *)
(***************************************************************************)
LEMMA WantedAre ==
  ASSUME RolloutInv, TendedInv, Settled, NEW n \in DOMAIN services, NEW k \in Children
  PROVE  /\ n \in Names /\ services[n] \in Specs /\ release \in DOMAIN Releases
         /\ KeyOf(k, n) = <<ObjectType(k), ObjectName(k, Namespace, n)>>
         /\ Has(k, n) <=> Needs(k, services[n], Running)
         /\ Has(k, n) => /\ Object(k, n) = Build(k, Namespace, n, services[n], Running)
                         /\ <<k, n, services[n], release>> \in Builds
                         /\ Object(k, n) = Bodies[<<k, n, services[n], release>>]
<1> DEFINE b == <<k, n, services[n], release>>
<1>1. n \in Names /\ services[n] \in Specs /\ release \in DOMAIN Releases /\ k \in Kinds
  BY ChildrenAre DEF RolloutInv, TypeOK, Names
<1>2. Fits(k, n, services[n], release, objs)
  BY DEF TendedInv, Tended, Settled
<1>3. b \in Builds /\ b[1] = k /\ b[2] = n /\ b[3] = services[n] /\ b[4] = release
  BY <1>1 DEF Builds, Names, Children
<1> HIDE DEF b
<1>4. Bodies[b] = Build(k, Namespace, n, services[n], Running)
  BY <1>3, BodyIs DEF Running
<1>5. Has(k, n) => Object(k, n) = Bodies[b]
  BY <1>2 DEF Fits, Has, Object, b
<1>6. Has(k, n) <=> Needs(k, services[n], Running)
  BY <1>2 DEF Fits, Has, Running
<1> QED BY <1>1, <1>3, <1>4, <1>5, <1>6, KeyIs DEF b

\* Neither the EPP nor what it needs is ever left out.
LEMMA AlwaysNeeded ==
  ASSUME NEW k \in {"decode", "serviceAccount", "configMap", "epp", "service", "role",
                    "roleBinding", "pool"},
         NEW spec, NEW op
  PROVE  Needs(k, spec, op)
BY DEF Needs, ClusterKinds

\* What is built, kind by kind, and under which key it is kept.
LEMMA BuildIs ==
  ASSUME NEW n, NEW spec, NEW op
  PROVE  /\ \A r \in {"decode", "prefill"} :
              Build(r, Namespace, n, spec, op) = BuildDeployment(n, r, spec, op)
         /\ Build("configMap", Namespace, n, spec, op) = BuildEPPConfigMap(n, spec, op)
         /\ Build("epp", Namespace, n, spec, op) = BuildEPPDeployment(n, spec, op)
         /\ Build("service", Namespace, n, spec, op) = BuildEPPService(n, spec, op)
         /\ Build("role", Namespace, n, spec, op) = BuildEPPRole(n, spec, op)
         /\ Build("roleBinding", Namespace, n, spec, op) = BuildEPPRoleBinding(n, op)
         /\ Build("clusterRole", Namespace, n, spec, op) = BuildEPPClusterRole(n, op)
         /\ Build("clusterRoleBinding", Namespace, n, spec, op)
              = BuildEPPClusterRoleBinding(Namespace, n, op)
         /\ Build("pool", Namespace, n, spec, op)
              = IF spec.pool THEN BuildInferencePool(n, spec, op)
                ELSE BuildDefaultInferencePool(n, spec, op)
         /\ Build("route", Namespace, n, spec, op) = BuildHTTPRoute(n, spec, op)
         /\ Build("podMonitorDecode", Namespace, n, spec, op)
              = BuildPodMonitor(n, "decode", spec, op)
         /\ Build("podMonitorPrefill", Namespace, n, spec, op)
              = BuildPodMonitor(n, "prefill", spec, op)
         /\ Build("serviceMonitor", Namespace, n, spec, op) = BuildEPPServiceMonitor(n, op)
<1>1. \A r \in {"decode", "prefill"} :
        Build(r, Namespace, n, spec, op) = BuildDeployment(n, r, spec, op)
  BY DEF Build
<1>2. /\ Build("configMap", Namespace, n, spec, op) = BuildEPPConfigMap(n, spec, op)
      /\ Build("epp", Namespace, n, spec, op) = BuildEPPDeployment(n, spec, op)
      /\ Build("service", Namespace, n, spec, op) = BuildEPPService(n, spec, op)
      /\ Build("role", Namespace, n, spec, op) = BuildEPPRole(n, spec, op)
      /\ Build("roleBinding", Namespace, n, spec, op) = BuildEPPRoleBinding(n, op)
  BY DEF Build
<1>3. /\ Build("clusterRole", Namespace, n, spec, op) = BuildEPPClusterRole(n, op)
      /\ Build("clusterRoleBinding", Namespace, n, spec, op)
           = BuildEPPClusterRoleBinding(Namespace, n, op)
  BY DEF Build
<1>4. Build("pool", Namespace, n, spec, op)
        = IF spec.pool THEN BuildInferencePool(n, spec, op)
          ELSE BuildDefaultInferencePool(n, spec, op)
  BY DEF Build
<1>5. /\ Build("route", Namespace, n, spec, op) = BuildHTTPRoute(n, spec, op)
      /\ Build("podMonitorDecode", Namespace, n, spec, op)
           = BuildPodMonitor(n, "decode", spec, op)
      /\ Build("podMonitorPrefill", Namespace, n, spec, op)
           = BuildPodMonitor(n, "prefill", spec, op)
      /\ Build("serviceMonitor", Namespace, n, spec, op) = BuildEPPServiceMonitor(n, op)
  BY DEF Build
<1> QED BY <1>1, <1>2, <1>3, <1>4, <1>5

LEMMA NamedKeys ==
  ASSUME NEW n \in Names
  PROVE  /\ KeyOf("decode", n)[1] = "Deployment" /\ KeyOf("prefill", n)[1] = "Deployment"
         /\ KeyOf("epp", n)[1] = "Deployment"
         /\ KeyOf("pool", n) = <<"InferencePool", n>>
         /\ KeyOf("configMap", n) = <<"configMap", EPPConfigMapName(n)>>
         /\ KeyOf("secret", n) = <<"secret", EPPSecretName(n)>>
         /\ KeyOf("clusterRole", n) = <<"clusterRole", EPPClusterRBACName(Namespace, n)>>
         /\ \A k \in {"serviceAccount", "service", "role", "roleBinding"} :
              KeyOf(k, n) = <<k, EPPName(n)>>
         /\ KeyOf("clusterRoleBinding", n)[1] = "clusterRoleBinding"
<1>1. {"decode", "prefill", "epp", "pool", "configMap", "secret", "clusterRole",
       "serviceAccount", "service", "role", "roleBinding", "clusterRoleBinding"} \subseteq Kinds
  BY KindsAre
<1>2. \A k \in {"configMap", "secret", "clusterRole", "serviceAccount", "service", "role",
                "roleBinding", "clusterRoleBinding"} : ObjectType(k) = k
  BY <1>1, TypesAre DEF Deployments
<1>3. /\ ObjectName("configMap", Namespace, n) = EPPConfigMapName(n)
      /\ ObjectName("secret", Namespace, n) = EPPSecretName(n)
      /\ ObjectName("clusterRole", Namespace, n) = EPPClusterRBACName(Namespace, n)
  BY DEF ObjectName, ClusterKinds
<1>4. /\ ObjectName("pool", Namespace, n) = n
      /\ \A k \in {"serviceAccount", "service", "role", "roleBinding"} :
           ObjectName(k, Namespace, n) = EPPName(n)
  BY ObjectNamesAre
<1> QED BY <1>1, <1>2, <1>3, <1>4, KeyIs, TypesAre

\* The serving Pods.
LEMMA ServersAre ==
  ASSUME RolloutInv, TendedInv, Settled, NEW n \in DOMAIN services,
         NEW r \in {"decode", "prefill"}
  PROVE  /\ Needs(r, services[n], Running) <=> PodsOf(KeyOf(r, n)) # {}
         /\ \A p \in PodsOf(KeyOf(r, n)) :
              p.template = BuildDeployment(n, r, services[n], Running).template
<1> DEFINE d == KeyOf(r, n)
           body == BuildDeployment(n, r, services[n], Running)
<1>1. r \in Children
  BY ChildrenAre
<1>2. /\ d[1] = "Deployment"
      /\ d \in DOMAIN objs <=> Needs(r, services[n], Running)
      /\ d \in DOMAIN objs => objs[d].body = body
  <2>1. n \in Names /\ (Has(r, n) <=> Needs(r, services[n], Running))
    BY <1>1, WantedAre
  <2>2. Build(r, Namespace, n, services[n], Running) = body
    BY BuildIs
  <2>3. Has(r, n) => Object(r, n) = body
    BY <1>1, <2>2, WantedAre
  <2> HIDE DEF body
  <2> QED BY <2>1, <2>3, NamedKeys DEF Has, Object
<1>3. body.recreate = FALSE /\ "args" \notin DOMAIN body.template
  BY DEF BuildDeployment
<1> HIDE DEF body, d
<1>4. \A p \in PodsOf(d) : p.of = d /\ p \in pods
  BY DEF PodsOf
<1>5. ASSUME d \in DOMAIN objs
      PROVE  /\ \E p \in PodsOf(d) : p.template = body.template
             /\ \A p \in PodsOf(d) : p.template = body.template
  <2>1. Template(d) = body.template /\ objs[d].body.recreate = FALSE
    BY <1>2, <1>3, <1>5 DEF Template
  <2>2. ~Starting(d)
    BY <1>5 DEF Settled
  <2>3. Startable(Template(d))
    BY <1>3, <2>1 DEF Startable
  <2>4. \E p \in PodsOf(d) : p.template = body.template
    BY <1>2, <2>1, <2>2, <2>3 DEF Starting
  <2>5. \A p \in PodsOf(d) : p.template = body.template
    BY <1>4, <1>5, <2>1, <2>4 DEF Settled, Stopping
  <2> QED BY <2>4, <2>5
<1>6. PodsOf(d) # {} => d \in DOMAIN objs
  BY <1>4 DEF Settled, Stopping
<1> QED BY <1>2, <1>5, <1>6 DEF d, body

\* The Pods of the EPP: it finds the account and the file it is told to use.
LEMMA PickersAre ==
  ASSUME RolloutInv, TendedInv, Settled, NEW n \in DOMAIN services
  PROVE  /\ PodsOf(KeyOf("epp", n)) # {}
         /\ \A p \in PodsOf(KeyOf("epp", n)) :
              p.template = BuildEPPDeployment(n, services[n], Running).template
<1> DEFINE d == KeyOf("epp", n)
           spec == services[n]
           body == BuildEPPDeployment(n, spec, Running)
<1>1. {"epp", "serviceAccount", "configMap"} \subseteq Children
  BY ChildrenAre
<1>2. /\ d \in DOMAIN objs /\ d[1] = "Deployment" /\ objs[d].body = body
  <2>1. n \in Names /\ Has("epp", n)
    BY <1>1, WantedAre, AlwaysNeeded
  <2>2. Build("epp", Namespace, n, spec, Running) = body
    BY BuildIs
  <2>3. Object("epp", n) = body
    BY <1>1, <2>1, <2>2, WantedAre
  <2> HIDE DEF body
  <2> QED BY <2>1, <2>3, NamedKeys DEF Has, Object
<1>3. <<"serviceAccount", EPPName(n)>> \in DOMAIN objs
  <2>1. KeyOf("serviceAccount", n) = <<"serviceAccount", EPPName(n)>>
    BY <1>1, WantedAre, NamedKeys
  <2> QED BY <1>1, <2>1, WantedAre, AlwaysNeeded DEF Has
<1>4. /\ <<"configMap", EPPConfigMapName(n)>> \in DOMAIN objs
      /\ objs[<<"configMap", EPPConfigMapName(n)>>].body.data = ConfigData(spec, Running)
  <2>1. KeyOf("configMap", n) = <<"configMap", EPPConfigMapName(n)>>
    BY <1>1, WantedAre, NamedKeys
  <2>2. Build("configMap", Namespace, n, spec, Running) = BuildEPPConfigMap(n, spec, Running)
    BY BuildIs
  <2>3. Has("configMap", n)
    BY <1>1, WantedAre, AlwaysNeeded
  <2>4. Object("configMap", n) = BuildEPPConfigMap(n, spec, Running)
    BY <1>1, <2>2, <2>3, WantedAre
  <2> QED BY <2>1, <2>3, <2>4 DEF Has, Object, BuildEPPConfigMap
<1>5. /\ body.recreate = TRUE
      /\ "args" \in DOMAIN body.template /\ "config" \in DOMAIN body.template
      /\ body.template.account = EPPName(n) /\ body.template.config = EPPConfigMapName(n)
      /\ body.template.args.file = PluginsConfigFile(spec)
  BY DEF BuildEPPDeployment, EPPArgs
<1>6. ConfigData(spec, Running).file = PluginsConfigFile(spec)
  BY DEF ConfigData
<1> HIDE DEF body, d, spec
<1>7. Startable(body.template)
  BY <1>3, <1>4, <1>5, <1>6 DEF Startable, Config
<1>8. Template(d) = body.template
  BY <1>2 DEF Template
<1>9. \A p \in PodsOf(d) : p.of = d /\ p \in pods
  BY DEF PodsOf
<1>10. PodsOf(d) # {}
  <2>1. ~Starting(d)
    BY <1>2 DEF Settled
  <2> QED BY <1>2, <1>7, <1>8, <2>1 DEF Starting
<1>11. \A p \in PodsOf(d) : p.template = body.template
  BY <1>2, <1>5, <1>8, <1>9 DEF Settled, Stopping
<1> QED BY <1>10, <1>11 DEF d, body, spec

(***************************************************************************)
(* Requests reach vLLM.                                                    *)
(***************************************************************************)
\* The routing proxy and the vLLM behind it do not listen on one port.  (The code
\* does not check that.)
PortsApart == \A s \in Specs : s.proxy => RoutingProxyTargetPort(s) # EnginePort(s)

\* On the engine port there is vLLM, or the routing proxy and behind it vLLM.
LEMMA EngineReached ==
  ASSUME NEW n, NEW r \in {"decode", "prefill"}, NEW spec \in ServingSpec, NEW op,
         spec.proxy => RoutingProxyTargetPort(spec) # EnginePort(spec)
  PROVE  ReachesVLLM(BuildDeployment(n, r, spec, op).template, EnginePort(spec))
<1> DEFINE cs == BuildDeployment(n, r, spec, op).template.containers
           unpack == ModelUnpackContainer(spec)
           proxy == RoutingProxyContainer(spec)
           vllm == VLLMContainer(spec, r)
           port == EnginePort(spec)
<1>1. cs = InitContainers(spec, r, op) \cup {vllm}
  BY DEF BuildDeployment
<1>2. /\ vllm \in cs /\ (Proxied(spec, r) <=> proxy \in cs)
      /\ cs \subseteq {unpack, proxy, vllm}
  <2>1. proxy # unpack /\ proxy # vllm
    <3>1. proxy.name = "routing-proxy" /\ unpack.name = "model-unpack" /\ vllm.name = "vllm"
      BY DEF RoutingProxyContainer, ModelUnpackContainer, VLLMContainer
    <3> QED BY <3>1
  <2> QED BY <1>1, <2>1 DEF InitContainers
<1>3. port # 0
  BY DEF EnginePort, ServingSpec
<1>4. /\ unpack.listens = 0
      /\ proxy.listens = port /\ proxy.next = RoutingProxyTargetPort(spec)
      /\ vllm.name = "vllm" /\ vllm.listens = VLLMPort(spec, r)
  BY DEF RoutingProxyContainer, ModelUnpackContainer, VLLMContainer
<1>5. IF Proxied(spec, r) THEN vllm.listens = proxy.next /\ vllm.listens # port
                          ELSE vllm.listens = port
  BY <1>4 DEF VLLMPort, Proxied
<1> HIDE DEF unpack, proxy, vllm, port, cs
<1>6. \E c \in cs : /\ c.listens = port
                    /\ \A other \in cs \ {c} : other.listens # port
                    /\ \/ c.name = "vllm"
                       \/ \E v \in cs : v.name = "vllm" /\ c.next = v.listens
  <2>1. CASE Proxied(spec, r)
    <3>1. proxy \in cs /\ \A other \in cs \ {proxy} : other.listens # port
      BY <1>2, <1>3, <1>4, <1>5, <2>1
    <3> QED BY <1>2, <1>4, <1>5, <2>1, <3>1
  <2>2. CASE ~Proxied(spec, r)
    <3>1. vllm \in cs /\ \A other \in cs \ {vllm} : other.listens # port
      BY <1>2, <1>3, <1>4, <2>2
    <3> QED BY <1>4, <1>5, <2>2, <3>1
  <2> QED BY <2>1, <2>2
<1> QED BY <1>6 DEF ReachesVLLM, cs, port

\* The pool and the route.
LEMMA PoolIs ==
  ASSUME RolloutInv, TendedInv, Settled, NEW n \in DOMAIN services
  PROVE  /\ Has("pool", n)
         /\ Object("pool", n).selector = InferencePoolSelectorLabels(n)
         /\ Object("pool", n).target = EnginePort(services[n])
         /\ Object("pool", n).picker = EPPName(n)
         /\ Object("pool", n).pickerPort = EPPPort(services[n])
         /\ Has("route", n) => Object("route", n).backend = InferencePoolName(n)
<1> DEFINE spec == services[n]
           op == Running
<1>1. {"pool", "route"} \subseteq Children
  BY ChildrenAre
<1>2. Has("pool", n) /\ spec \in ServingSpec
  BY <1>1, WantedAre, AlwaysNeeded, SpecsAssumption
<1>3. /\ Object("pool", n) = Build("pool", Namespace, n, spec, op)
      /\ Has("route", n) => Object("route", n) = Build("route", Namespace, n, spec, op)
  BY <1>1, <1>2, WantedAre
<1> HIDE DEF spec, op
<1>4. Build("pool", Namespace, n, spec, op)
        = IF spec.pool THEN BuildInferencePool(n, spec, op)
          ELSE BuildDefaultInferencePool(n, spec, op)
  BY BuildIs
<1>5. /\ BuildInferencePool(n, spec, op).selector = InferencePoolSelectorLabels(n)
      /\ BuildInferencePool(n, spec, op).target = EnginePort(spec)
      /\ BuildInferencePool(n, spec, op).picker = EPPName(n)
      /\ BuildInferencePool(n, spec, op).pickerPort = IF spec.eppPort = 0 THEN 9002 ELSE spec.eppPort
      /\ BuildDefaultInferencePool(n, spec, op).selector = InferencePoolSelectorLabels(n)
      /\ BuildDefaultInferencePool(n, spec, op).target = EnginePort(spec)
      /\ BuildDefaultInferencePool(n, spec, op).picker = EPPName(n)
      /\ BuildDefaultInferencePool(n, spec, op).pickerPort = 9002
  BY DEF BuildInferencePool, BuildDefaultInferencePool
<1>6. EPPPort(spec) = IF spec.pool THEN IF spec.eppPort = 0 THEN 9002 ELSE spec.eppPort
                      ELSE 9002
  BY <1>2 DEF EPPPort, ServingSpec
<1>7. Build("route", Namespace, n, spec, op).backend = InferencePoolName(n)
  <2>1. Build("route", Namespace, n, spec, op) = BuildHTTPRoute(n, spec, op)
    BY BuildIs
  <2> QED BY <2>1 DEF BuildHTTPRoute
<1> QED BY <1>2, <1>3, <1>4, <1>5, <1>6, <1>7 DEF spec

\* The Pods a service needs are up, and a request to the pool ends at vLLM
\* (PodsReachable; deployment.go:104-106,247-251).
THEOREM ServersReachable ==
  ASSUME NamesTellApart, PortsApart
  PROVE  Spec => []PodsReachable
<1>1. RolloutInv /\ TendedInv => PodsReachable
  <2> SUFFICES ASSUME RolloutInv, TendedInv, Settled, NEW n \in DOMAIN services
               PROVE  Reachable(n)
    BY DEF PodsReachable
  <2>1. Has("pool", n) /\ Object("pool", n).target = EnginePort(services[n])
    BY PoolIs
  <2>2. \A k \in {"decode", "prefill"} :
          Needs(k, services[n], Running) <=> PodsOf(KeyOf(k, n)) # {}
    BY ServersAre
  <2>3. ASSUME NEW p \in pods, Selects(Object("pool", n).selector, p.template.labels)
        PROVE  ReachesVLLM(p.template, Object("pool", n).target)
    <3>1. PICK c \in Builds : /\ c[1] \in Deployments /\ p.of = KeyOf(c[1], c[2])
                              /\ p.template = Bodies[c].template
      BY DEF RolloutInv, PodsBuilt
    <3>2. n \in Names /\ services[n] \in Specs
      BY DEF RolloutInv, TypeOK, Names
    <3>3. p.of \in ServingKeys(n)
      BY <2>3, <3>1, <3>2, PoolIs, PoolSelectsServers
    <3>4. PICK r \in {"decode", "prefill"} : p \in PodsOf(KeyOf(r, n))
      BY <3>3 DEF ServingKeys, PodsOf
    <3>5. p.template = BuildDeployment(n, r, services[n], Running).template
      BY <3>4, ServersAre
    <3>6. services[n] \in ServingSpec
          /\ (services[n].proxy => RoutingProxyTargetPort(services[n]) # EnginePort(services[n]))
      BY <3>2, SpecsAssumption DEF PortsApart
    <3> QED BY <2>1, <3>5, <3>6, EngineReached
  <2> QED BY <2>1, <2>2, <2>3 DEF Reachable
<1> QED BY TendedKept, <1>1, PTL

(***************************************************************************)
(* There is one EPP Pod at a time, as its Deployment recreates it.         *)
(***************************************************************************)
OnePicker == \A n \in Names : \A p, q \in PodsOf(KeyOf("epp", n)) : p = q

\* What is built of the EPP's Deployment and of its ConfigMap.
LEMMA PickerBuilds ==
  ASSUME NEW b \in Builds
  PROVE  /\ b[1] = "epp" =>
              /\ Bodies[b].recreate = TRUE
              /\ {"args", "config"} \subseteq DOMAIN Bodies[b].template
              /\ Bodies[b].template.config = EPPConfigMapName(b[2])
              /\ Bodies[b].template.args.file = PluginsConfigFile(b[3])
              /\ Bodies[b].template.hash = ConfigData(b[3], Releases[b[4]])
         /\ b[1] = "configMap" => Bodies[b].data = ConfigData(b[3], Releases[b[4]])
<1> DEFINE op == Releases[b[4]]
<1>1. Bodies[b] = Build(b[1], Namespace, b[2], b[3], op)
  BY BodyIs
<1> HIDE DEF op
<1>2. ASSUME b[1] = "epp" PROVE Bodies[b] = BuildEPPDeployment(b[2], b[3], op)
  BY <1>1, <1>2, BuildIs
<1>3. ASSUME b[1] = "configMap" PROVE Bodies[b] = BuildEPPConfigMap(b[2], b[3], op)
  BY <1>1, <1>3, BuildIs
<1>4. /\ BuildEPPDeployment(b[2], b[3], op).recreate = TRUE
      /\ {"args", "config"} \subseteq DOMAIN BuildEPPDeployment(b[2], b[3], op).template
      /\ BuildEPPDeployment(b[2], b[3], op).template.config = EPPConfigMapName(b[2])
      /\ BuildEPPDeployment(b[2], b[3], op).template.args.file = PluginsConfigFile(b[3])
      /\ BuildEPPDeployment(b[2], b[3], op).template.hash = ConfigData(b[3], op)
  BY DEF BuildEPPDeployment, EPPArgs, ConfigMapHash
<1>5. BuildEPPConfigMap(b[2], b[3], op).data = ConfigData(b[3], op)
  BY DEF BuildEPPConfigMap
<1> QED BY <1>2, <1>3, <1>4, <1>5 DEF op

\* A key of this kind holds a build of this kind.
LEMMA ObjectBuilt ==
  ASSUME RolloutInv, NEW k \in Children, NEW n \in Names, KeyOf(k, n) \in DOMAIN objs
  PROVE  \E b \in Builds : b[1] = k /\ KeyOf(k, n) = KeyOf(b[1], b[2])
                           /\ objs[KeyOf(k, n)].body = Bodies[b]
<1>1. PICK b \in Builds : KeyOf(k, n) = KeyOf(b[1], b[2]) /\ objs[KeyOf(k, n)].body = Bodies[b]
  BY DEF RolloutInv, ObjsBuilt
<1>2. b[1] = k
  BY <1>1, BodyIs, KeysApart DEF Children
<1> QED BY <1>1, <1>2

\* Which steps change the Pods.
LEMMA PodsStep ==
  ASSUME [Next]_vars
  PROVE  \/ UNCHANGED pods
         \/ \E d \in DOMAIN objs : PodStarts(d)
         \/ \E p \in pods : PodStops(p)
BY DEF Next, vars, world, Users, Spell, UserCreate, UserEdit, NeighbourCreate, Apply,
       Controller, StartRound, Ensure, Fail, Upgrade, Rollouts

LEMMA OnePickerStep ==
  ASSUME RolloutInv, OnePicker, [Next]_vars
  PROVE  OnePicker'
<1>1. CASE UNCHANGED pods
  BY <1>1 DEF OnePicker, PodsOf
<1>2. ASSUME NEW p \in pods, PodStops(p) PROVE OnePicker'
  BY <1>2 DEF PodStops, PodsChange, OnePicker, PodsOf
<1>3. ASSUME NEW d \in DOMAIN objs, PodStarts(d) PROVE OnePicker'
  <2> SUFFICES ASSUME NEW n \in Names, NEW p \in pods', NEW q \in pods',
                      p.of = KeyOf("epp", n), q.of = KeyOf("epp", n)
               PROVE  p = q
    BY DEF OnePicker, PodsOf
  <2> DEFINE new == [of |-> d, template |-> Template(d), config |-> Config(Template(d))]
  <2>1. pods' = pods \cup {new} /\ Starting(d)
    BY <1>3 DEF PodStarts, PodsChange
  <2>2. new.of = d
    OBVIOUS
  <2> HIDE DEF new
  <2>3. CASE d = KeyOf("epp", n)
    <3>1. "epp" \in Children
      BY ChildrenAre
    <3>2. PICK b \in Builds : b[1] = "epp" /\ objs[d].body = Bodies[b]
      BY <2>3, <3>1, ObjectBuilt
    <3>3. objs[d].body.recreate = TRUE
      BY <3>2, PickerBuilds
    <3>4. PodsOf(d) = {}
      BY <2>1, <3>3 DEF Starting
    <3> QED BY <2>1, <2>3, <3>4 DEF PodsOf
  <2>4. CASE d # KeyOf("epp", n)
    BY <2>1, <2>2, <2>4 DEF OnePicker, PodsOf
  <2> QED BY <2>3, <2>4
<1> QED BY <1>1, <1>2, <1>3, PodsStep

LEMMA OnePickerKept == Spec => []OnePicker
<1>1. Init => OnePicker
  BY DEF Init, OnePicker, PodsOf
<1>2. RolloutInv /\ OnePicker /\ [Next]_vars => OnePicker'
  BY OnePickerStep
<1> QED BY RolloutKept, <1>1, <1>2, PTL DEF Spec

(***************************************************************************)
(* Routes lead to the picker.                                              *)
(***************************************************************************)
\* The Service of an EPP selects its Pods and no others.
LEMMA ServiceSelectsPickers ==
  ASSUME NEW n \in Names, NEW c \in Builds, c[1] \in Deployments
  PROVE  Selects(EPPSelectorLabels(n), Bodies[c].template.labels)
           <=> KeyOf(c[1], c[2]) = KeyOf("epp", n)
<1> DEFINE s == EPPSelectorLabels(n)
           l == Bodies[c].template.labels
<1>1. c[1] \in Kinds \ {"legacyPool"} /\ c[2] \in Names /\ "epp" \in Kinds \ {"legacyPool"}
  BY BodyIs, KindsAre
<1>2. /\ {"name", "component", "partOf", "managedBy"} \subseteq DOMAIN l
      /\ l["partOf"] = "otterscale-system" /\ l["managedBy"] = "model-operator"
      /\ c[1] \in {"decode", "prefill"} => l["component"] = Component(c[1])
      /\ c[1] = "epp" => l["name"] = EPPName(c[2]) /\ l["component"] = "epp"
  BY PodLabels
<1>3. /\ DOMAIN s = {"name", "component", "partOf", "managedBy"}
      /\ s["name"] = EPPName(n) /\ s["component"] = "epp"
      /\ s["partOf"] = "otterscale-system" /\ s["managedBy"] = "model-operator"
  BY SelectorIs DEF EPPSelectorLabels
<1> HIDE DEF s, l
<1>4. KeyOf(c[1], c[2]) = KeyOf("epp", n) => c[1] = "epp" /\ EPPName(c[2]) = EPPName(n)
  BY <1>1, KeysApart
<1>5. CASE c[1] \in {"decode", "prefill"}
  <2>1. ~Selects(s, l)
    BY <1>2, <1>3, <1>5 DEF Selects, Component
  <2> QED BY <1>4, <1>5, <2>1 DEF s, l
<1>6. CASE c[1] = "epp"
  <2>1. Selects(s, l) <=> EPPName(c[2]) = EPPName(n)
    BY <1>2, <1>3, <1>6 DEF Selects
  <2>2. EPPName(c[2]) = EPPName(n) => KeyOf(c[1], c[2]) = KeyOf("epp", n)
    BY <1>1, <1>6, KeyIs, ObjectNamesAre
  <2> QED BY <1>4, <2>1, <2>2 DEF s, l
<1> QED BY <1>5, <1>6 DEF Deployments

\* The Service of the EPP.
LEMMA ServiceIs ==
  ASSUME RolloutInv, TendedInv, Settled, NEW n \in DOMAIN services
  PROVE  /\ Has("service", n)
         /\ Object("service", n).selector = EPPSelectorLabels(n)
         /\ Object("service", n).ports
              = {Port("grpc-ext-proc", EPPPort(services[n])), Port("http-metrics", 9090)}
<1>1. Has("service", n)
  BY WantedAre, AlwaysNeeded, ChildrenAre
<1>2. Build("service", Namespace, n, services[n], Running)
        = BuildEPPService(n, services[n], Running)
  BY BuildIs
<1>3. Object("service", n) = BuildEPPService(n, services[n], Running)
  BY <1>1, <1>2, WantedAre, ChildrenAre
<1> QED BY <1>1, <1>3 DEF BuildEPPService

\* A route leads to a pool, the pool to a port of a Service, the Service to one EPP Pod,
\* which listens there and picks for that pool (PickerReachable;
\* modelservice_controller.go:155-156, epp_deployment.go:71-73).
THEOREM PickersReachable ==
  ASSUME NamesTellApart
  PROVE  Spec => []PickerReachable
<1>1. RolloutInv /\ TendedInv /\ OnePicker => PickerReachable
  <2> SUFFICES ASSUME RolloutInv, TendedInv, OnePicker, Settled, NEW n \in DOMAIN services
               PROVE  Has("pool", n) /\ Picked(n)
    BY DEF PickerReachable
  <2> DEFINE pool == Object("pool", n)
             key == <<"service", pool.picker>>
  <2>1. /\ Has("pool", n) /\ pool.picker = EPPName(n)
        /\ pool.pickerPort = EPPPort(services[n])
        /\ Has("route", n) => Object("route", n).backend = InferencePoolName(n)
    BY PoolIs
  <2>2. /\ n \in Names /\ KeyOf("pool", n) = <<"InferencePool", n>>
        /\ KeyOf("service", n) = <<"service", EPPName(n)>>
    BY NamedKeys DEF RolloutInv, TypeOK, Names
  <2>3. Has("route", n) => <<"InferencePool", Object("route", n).backend>> \in DOMAIN objs
    BY <2>1, <2>2 DEF Has, InferencePoolName
  <2> HIDE DEF pool
  <2>4. /\ key \in DOMAIN objs
        /\ objs[key].body.selector = EPPSelectorLabels(n)
        /\ Port("grpc-ext-proc", pool.pickerPort) \in objs[key].body.ports
    <3>1. key = KeyOf("service", n)
      BY <2>1, <2>2
    <3> QED BY <2>1, <3>1, ServiceIs DEF Has, Object
  <2>5. Port("grpc-ext-proc", pool.pickerPort).number = pool.pickerPort
    BY DEF Port
  <2>6. PICK p \in PodsOf(KeyOf("epp", n)) : TRUE
    BY PickersAre
  <2>7. p.template = BuildEPPDeployment(n, services[n], Running).template
    BY PickersAre
  <2>8. p \in pods /\ p.of = KeyOf("epp", n)
    BY DEF PodsOf
  <2>9. ASSUME NEW q \in pods
        PROVE  Selects(EPPSelectorLabels(n), q.template.labels) <=> q = p
    <3>1. PICK c \in Builds : /\ c[1] \in Deployments /\ q.of = KeyOf(c[1], c[2])
                              /\ q.template = Bodies[c].template
      BY DEF RolloutInv, PodsBuilt
    <3>2. Selects(EPPSelectorLabels(n), q.template.labels) <=> q.of = KeyOf("epp", n)
      BY <2>2, <3>1, ServiceSelectsPickers
    <3>3. q.of = KeyOf("epp", n) => q = p
      BY <2>2, <2>6 DEF OnePicker, PodsOf
    <3> QED BY <2>8, <3>2, <3>3
  <2>10. /\ \E c \in p.template.containers : c.listens = pool.pickerPort
         /\ p.template.args.pool = KeyOf("pool", n)[2]
    <3>1. /\ p.template.containers = {EPPContainer(services[n])}
          /\ p.template.args.pool = n
      BY <2>7 DEF BuildEPPDeployment, EPPArgs, InferencePoolName
    <3>2. EPPContainer(services[n]).listens = EPPPort(services[n])
      BY DEF EPPContainer
    <3> QED BY <2>1, <2>2, <3>1, <3>2
  <2> QED BY <2>1, <2>3, <2>4, <2>5, <2>8, <2>9, <2>10 DEF Picked, pool
<1> QED BY TendedKept, OnePickerKept, <1>1, PTL

(***************************************************************************)
(* Monitors                                                                *)
(***************************************************************************)
\* The containers of a role have the port that the PodMonitor of their spec names.
LEMMA PortOpen ==
  ASSUME NEW spec, NEW r, NEW op, NamesPort(spec, r)
  PROVE  \E c \in InitContainers(spec, r, op) \cup {VLLMContainer(spec, r)} :
           \E port \in c.ports : port.name = MonitorPort(spec)
<1> DEFINE vllm == VLLMContainer(spec, r)
           proxy == RoutingProxyContainer(spec)
           http == Port("http", VLLMPort(spec, r))
           front == Port("proxy", EnginePort(spec))
           side == Port("nixl-side", spec.sideChannel)
<1>1. CASE MonitorPort(spec) = "http"
  <2>1. http \in vllm.ports /\ http.name = "http"
    BY DEF VLLMContainer, Port
  <2> QED BY <1>1, <2>1
<1>2. CASE MonitorPort(spec) = "proxy" /\ Proxied(spec, r)
  <2>1. front \in proxy.ports /\ front.name = "proxy"
    BY DEF RoutingProxyContainer, Port
  <2>2. proxy \in InitContainers(spec, r, op)
    BY <1>2 DEF InitContainers
  <2> QED BY <1>2, <2>1, <2>2
<1>3. CASE MonitorPort(spec) = "nixl-side" /\ spec.sideChannel \notin {0, VLLMPort(spec, r)}
  <2>1. side \in SideChannelPorts(spec, r) /\ side.name = "nixl-side"
    BY <1>3 DEF SideChannelPorts, Port
  <2>2. vllm.ports = {http} \cup SideChannelPorts(spec, r)
    BY DEF VLLMContainer
  <2> QED BY <1>3, <2>1, <2>2
<1> QED BY <1>1, <1>2, <1>3 DEF NamesPort, MonitorPort

\* A PodMonitor selects the Pods of its role, whatever they were built from, and each
\* of them has the port it names, unless the spec chose one that they do not have.
LEMMA MonitorsAre ==
  ASSUME RolloutInv, TendedInv, Settled, NEW n \in DOMAIN services,
         NEW r \in {<<"podMonitorDecode", "decode">>, <<"podMonitorPrefill", "prefill">>},
         Has(r[1], n)
  PROVE  /\ \A p \in pods :
              Selects(Object(r[1], n).selector, p.template.labels) <=> p.of = KeyOf(r[2], n)
         /\ NamesPort(services[n], r[2]) =>
              \A p \in PodsOf(KeyOf(r[2], n)) : Object(r[1], n).port \in PortNames(p.template)
<1>1. r[1] \in Children /\ r[2] \in {"decode", "prefill"} /\ r[2] \in Children
  BY ChildrenAre
<1>2. Build(r[1], Namespace, n, services[n], Running)
        = BuildPodMonitor(n, r[2], services[n], Running)
  BY BuildIs
<1>3. Object(r[1], n) = BuildPodMonitor(n, r[2], services[n], Running)
  BY <1>1, <1>2, WantedAre
<1>4. /\ Object(r[1], n).selector = SelectorLabelsForRole(n, r[2])
      /\ Object(r[1], n).port = MonitorPort(services[n])
  BY <1>3 DEF BuildPodMonitor
<1> DEFINE b == <<r[2], n, services[n], release>>
<1>5. b \in Builds /\ b[1] = r[2] /\ b[2] = n
  <2>1. n \in Names /\ services[n] \in Specs /\ release \in DOMAIN Releases
    BY <1>1, WantedAre
  <2> QED BY <1>1, <2>1 DEF Builds, Names, Children
<1> HIDE DEF b
<1>6. Bodies[b].selector = SelectorLabelsForRole(n, r[2])
  BY <1>1, <1>5, DeploymentBody
<1>7. ASSUME NEW p \in pods
      PROVE  Selects(Object(r[1], n).selector, p.template.labels) <=> p.of = KeyOf(r[2], n)
  <2>1. PICK c \in Builds : /\ c[1] \in Deployments /\ p.of = KeyOf(c[1], c[2])
                            /\ p.template = Bodies[c].template
    BY DEF RolloutInv, PodsBuilt
  <2>2. b[1] \in Deployments
    BY <1>1, <1>5 DEF Deployments
  <2>3. Selects(Bodies[b].selector, Bodies[c].template.labels)
          <=> KeyOf(b[1], b[2]) = KeyOf(c[1], c[2])
    BY <1>5, <2>1, <2>2, SelectsOwnPods
  <2> QED BY <1>4, <1>5, <1>6, <2>1, <2>3
<1>8. ASSUME NamesPort(services[n], r[2]), NEW p \in PodsOf(KeyOf(r[2], n))
      PROVE  MonitorPort(services[n]) \in PortNames(p.template)
  <2>1. p.template = BuildDeployment(n, r[2], services[n], Running).template
    BY <1>1, <1>8, ServersAre
  <2>2. p.template.containers
          = InitContainers(services[n], r[2], Running) \cup {VLLMContainer(services[n], r[2])}
    BY <2>1 DEF BuildDeployment
  <2>3. PICK c \in p.template.containers : \E port \in c.ports : port.name = MonitorPort(services[n])
    BY <1>8, <2>2, PortOpen
  <2> QED BY <2>3 DEF PortNames
<1> QED BY <1>4, <1>7, <1>8

\* A ServiceMonitor selects the Service of its EPP, whatever operator built that.
LEMMA ServiceSelected ==
  ASSUME RolloutInv, NEW n \in Names, NEW s \in Existing("service")
  PROVE  Selects(EPPSelectorLabels(n), objs[s].body.labels) <=> s = KeyOf("service", n)
<1>1. s \in DOMAIN objs /\ s[1] = "service"
  BY DEF Existing
<1>2. PICK b \in Builds : s = KeyOf(b[1], b[2]) /\ objs[s].body = Bodies[b]
  BY <1>1 DEF RolloutInv, ObjsBuilt
<1>3. b[1] \in Kinds \ {"legacyPool"} /\ b[2] \in Names
  BY BodyIs
<1>4. b[1] = "service"
  <2>1. ObjectType(b[1]) = "service"
    BY <1>1, <1>2, <1>3, KeyIs
  <2> QED BY <1>3, <2>1, TypesAre, KindsAre DEF Deployments
<1>5. s = KeyOf("service", n) <=> EPPName(b[2]) = EPPName(n)
  BY <1>2, <1>3, <1>4, NamedKeys
<1> DEFINE op == Releases[b[4]]
           l == Standard(EPPName(b[2]), "epp", op.version)
           g == Selector(EPPName(b[2]), "epp")
           e == EPPSelectorLabels(n)
<1>6. objs[s].body.labels = l
  <2>1. Bodies[b] = Build("service", Namespace, b[2], b[3], op)
    BY <1>4, BodyIs
  <2>2. Build("service", Namespace, b[2], b[3], op) = BuildEPPService(b[2], b[3], op)
    BY BuildIs
  <2> QED BY <1>2, <2>1, <2>2 DEF BuildEPPService, EPPLabels
<1>7. /\ DOMAIN l \in {DOMAIN g, DOMAIN g \cup {"version"}}
      /\ \A x \in DOMAIN g : l[x] = g[x]
  BY StandardIs
<1>8. /\ DOMAIN g = {"name", "component", "partOf", "managedBy"}
      /\ g["name"] = EPPName(b[2]) /\ g["component"] = "epp"
      /\ g["partOf"] = "otterscale-system" /\ g["managedBy"] = "model-operator"
  BY SelectorIs
<1>9. /\ DOMAIN e = {"name", "component", "partOf", "managedBy"}
      /\ e["name"] = EPPName(n) /\ e["component"] = "epp"
      /\ e["partOf"] = "otterscale-system" /\ e["managedBy"] = "model-operator"
  BY SelectorIs DEF EPPSelectorLabels
<1> HIDE DEF l, g, e
<1>10. Selects(e, l) <=> EPPName(b[2]) = EPPName(n)
  BY <1>7, <1>8, <1>9 DEF Selects
<1> QED BY <1>5, <1>6, <1>10 DEF e

\* Each monitor selects what it is for, refers to a port that is there (a PodMonitor
\* unless the spec chose one that is not), and to a token that is there, except on GKE
\* (PodsScraped; podmonitor.go:26,39-41, epp_service_monitor.go:27-29).
THEOREM ServersScraped ==
  ASSUME NamesTellApart
  PROVE  Spec => []PodsScraped
<1>1. RolloutInv /\ TendedInv => PodsScraped
  <2> SUFFICES ASSUME RolloutInv, TendedInv, Settled, NEW n \in DOMAIN services
               PROVE  Scraped(n)
    BY DEF PodsScraped
  <2>1. ASSUME Has("serviceMonitor", n)
        PROVE  LET monitor == Object("serviceMonitor", n)
               IN  /\ \A s \in Existing("service") :
                        Selects(monitor.selector, objs[s].body.labels) <=> s = KeyOf("service", n)
                   /\ monitor.port \in {port.name : port \in Object("service", n).ports}
                   /\ Running.provider # "gke" =>
                        \A s \in monitor.secret : <<"secret", s>> \in DOMAIN objs
    <3> DEFINE monitor == Object("serviceMonitor", n)
    <3>1. Build("serviceMonitor", Namespace, n, services[n], Running)
            = BuildEPPServiceMonitor(n, Running)
      BY BuildIs
    <3>2. {"serviceMonitor", "secret"} \subseteq Children
      BY ChildrenAre
    <3>3. monitor = BuildEPPServiceMonitor(n, Running)
      BY <2>1, <3>1, <3>2, WantedAre
    <3>4. /\ monitor.selector = EPPSelectorLabels(n) /\ monitor.port = "http-metrics"
          /\ monitor.secret = IF Running.auth THEN {EPPSecretName(n)} ELSE {}
      BY <3>3 DEF BuildEPPServiceMonitor
    <3>5. n \in Names /\ Needs("serviceMonitor", services[n], Running)
          /\ (Has("secret", n) <=> Needs("secret", services[n], Running))
      BY <2>1, <3>2, WantedAre
    <3> HIDE DEF monitor
    <3>6. Port("http-metrics", 9090) \in Object("service", n).ports
          /\ Port("http-metrics", 9090).name = "http-metrics"
      BY ServiceIs DEF Port
    <3>7. ASSUME Running.provider # "gke", NEW s \in monitor.secret
          PROVE  <<"secret", s>> \in DOMAIN objs
      <4>1. s = EPPSecretName(n) /\ Running.auth
        BY <3>4, <3>7
      <4>2. services[n].pool
        BY <3>5 DEF Needs, NeedsServiceMonitor, ClusterKinds
      <4>3. Needs("secret", services[n], Running)
        <5>1. Needs("secret", services[n], Running) = NeedsSecret(services[n], Running)
          BY DEF Needs, ClusterKinds
        <5>2. NeedsSecret(services[n], Running)
          BY <3>7, <4>1, <4>2, Zenon DEF NeedsSecret
        <5> QED BY <5>1, <5>2
      <4> QED BY <3>5, <4>1, <4>3, NamedKeys DEF Has
    <3>8. \A s \in Existing("service") :
            Selects(monitor.selector, objs[s].body.labels) <=> s = KeyOf("service", n)
      BY <3>4, <3>5, ServiceSelected
    <3>9. monitor.port \in {port.name : port \in Object("service", n).ports}
      BY <3>4, <3>6
    <3> QED BY <3>7, <3>8, <3>9 DEF monitor
  <2> QED BY <2>1, MonitorsAre DEF Scraped
<1> QED BY TendedKept, <1>1, PTL

(***************************************************************************)
(* The configuration of the EPP.  The objects are of the operator that is  *)
(* installed or of earlier ones; the ConfigMap is never older than the     *)
(* text the EPP Deployment has the hash of, as it is written first; and so *)
(* for what an EPP Pod read when it started.                               *)
(***************************************************************************)
\* A later operator does not bring back the texts of an earlier one.
BuildsForward ==
  \A r, s \in DOMAIN Releases : r =< s => Releases[r].build =< Releases[s].build

BuiltInTime ==
  \A key \in DOMAIN objs : \E b \in Builds :
    key = KeyOf(b[1], b[2]) /\ objs[key].body = Bodies[b] /\ b[4] =< release

ConfigFirst ==
  \A n \in Names : KeyOf("epp", n) \in DOMAIN objs =>
    /\ KeyOf("configMap", n) \in DOMAIN objs
    /\ objs[KeyOf("epp", n)].body.template.hash.build
         =< objs[KeyOf("configMap", n)].body.data.build

Informed ==
  \A n \in Names : \A p \in PodsOf(KeyOf("epp", n)) :
    /\ \E s \in Specs, r \in DOMAIN Releases :
         r =< release /\ p.config = ConfigData(s, Releases[r])
    /\ p.config.file = p.template.args.file
    /\ p.template.hash.build =< p.config.build

ConfigInv == BuiltInTime /\ ConfigFirst /\ Informed

LEMMA ReleaseTypes ==
  /\ DOMAIN Releases \subseteq Nat
  /\ \A r \in DOMAIN Releases : Releases[r].build \in Nat
<1>1. Releases \in Seq(ServingOperator)
  BY ReleasesAssumption
<1>2. DOMAIN Releases = 1 .. Len(Releases) /\ Len(Releases) \in Nat
      /\ \A r \in 1 .. Len(Releases) : Releases[r] \in ServingOperator
  BY <1>1, LenProperties
<1>3. DOMAIN Releases \subseteq Nat
  BY <1>2
<1> QED BY <1>2, <1>3 DEF ServingOperator

LEMMA ConfigBuild ==
  ASSUME NEW spec, NEW op
  PROVE  /\ ConfigData(spec, op).build = op.build
         /\ ConfigData(spec, op).file = PluginsConfigFile(spec)
BY DEF ConfigData

\* The build that an object of a kind and of a service holds.
LEMMA ObjectBuiltInTime ==
  ASSUME RolloutInv, BuiltInTime, NEW k \in Children, NEW n \in Names,
         KeyOf(k, n) \in DOMAIN objs
  PROVE  \E b \in Builds : /\ b[1] = k /\ EPPName(b[2]) = EPPName(n)
                           /\ objs[KeyOf(k, n)].body = Bodies[b]
                           /\ b[4] \in DOMAIN Releases /\ b[4] =< release
<1>1. PICK b \in Builds : /\ KeyOf(k, n) = KeyOf(b[1], b[2]) /\ b[4] =< release
                          /\ objs[KeyOf(k, n)].body = Bodies[b]
  BY DEF BuiltInTime
<1>2. b[1] = k /\ EPPName(b[2]) = EPPName(n) /\ b[4] \in DOMAIN Releases
  BY <1>1, BodyIs, KeysApart DEF Children
<1> QED BY <1>1, <1>2

LEMMA InitConfig ==
  ASSUME Init
  PROVE  ConfigInv
<1>1. DOMAIN objs = {} /\ pods = {}
  BY DEF Init
<1> QED BY <1>1 DEF ConfigInv, BuiltInTime, ConfigFirst, Informed, PodsOf

\* The release only grows.
LEMMA ReleaseStep ==
  ASSUME RolloutInv, [Next]_vars
  PROVE  release \in DOMAIN Releases /\ release' \in DOMAIN Releases /\ release =< release'
<1>1. release \in DOMAIN Releases
  BY DEF RolloutInv, TypeOK
<1>2. UNCHANGED release \/ \E r \in DOMAIN Releases : Upgrade(r)
  BY DEF Next, vars, world, Users, Spell, UserCreate, UserEdit, NeighbourCreate, Apply,
         Controller, StartRound, Ensure, Fail, Rollouts, PodStarts, PodStops, PodsChange
<1>3. ASSUME NEW r \in DOMAIN Releases, Upgrade(r)
      PROVE  release' \in DOMAIN Releases /\ release =< release'
  BY <1>1, <1>3, ReleaseTypes DEF Upgrade
<1> QED BY <1>1, <1>2, <1>3, ReleaseTypes

\* Which steps change the objects.
LEMMA ObjsStep ==
  ASSUME [Next]_vars
  PROVE  \/ UNCHANGED objs
         \/ /\ Ensure /\ round.at # 0 /\ UNCHANGED <<services, pods, release>>
            /\ objs' = IF Wanted THEN Written ELSE Restrict(objs, DOMAIN objs \ {Target})
<1>1. UNCHANGED objs \/ Ensure
  BY DEF Next, vars, world, Users, Spell, UserCreate, UserEdit, NeighbourCreate, Apply,
         Controller, StartRound, Fail, Abort, Upgrade, Rollouts, PodStarts, PodStops, PodsChange
<1>2. CASE Ensure
  BY <1>2 DEF Ensure, Abort
<1> QED BY <1>1, <1>2

LEMMA BuiltInTimeStep ==
  ASSUME RolloutInv, BuiltInTime, [Next]_vars
  PROVE  BuiltInTime'
<1>1. \A b \in Builds : b[4] \in Nat /\ (b[4] =< release => b[4] =< release')
  BY BodyIs, ReleaseStep, ReleaseTypes
<1>2. CASE UNCHANGED objs
  BY <1>1, <1>2 DEF BuiltInTime
<1>3. CASE /\ round.at # 0 /\ UNCHANGED release
           /\ objs' = IF Wanted THEN Written ELSE Restrict(objs, DOMAIN objs \ {Target})
  <2>1. /\ \A x : x # Target => /\ x \in DOMAIN objs <=> x \in DOMAIN objs'
                                /\ x \in DOMAIN objs => objs'[x] = objs[x]
        /\ ~Wanted => Target \notin DOMAIN objs'
    BY <1>3, EnsureIs
  <2>2. \A key \in DOMAIN objs' : key # Target => \E b \in Builds :
          key = KeyOf(b[1], b[2]) /\ objs'[key].body = Bodies[b] /\ b[4] =< release'
    BY <1>3, <2>1 DEF BuiltInTime
  <2>3. ASSUME Wanted
        PROVE  \E b \in Builds : Target = KeyOf(b[1], b[2]) /\ objs'[Target].body = Bodies[b]
                                 /\ b[4] =< release'
    <3>1. objs'[Target].body = Bodies[Desired]
      BY <1>3, <2>3, WrittenIs
    <3>2. Desired \in Builds /\ Target = KeyOf(Desired[1], Desired[2])
      BY <1>3, <2>3, DesiredIs
    <3>3. Desired[4] = release /\ release \in Nat
      BY ReleaseStep, ReleaseTypes DEF Desired
    <3>4. Desired[4] =< release'
      BY <1>3, <3>3
    <3> QED BY <3>1, <3>2, <3>4
  <2> QED BY <2>1, <2>2, <2>3 DEF BuiltInTime
<1> QED BY <1>2, <1>3, ObjsStep

LEMMA ConfigFirstStep ==
  ASSUME NamesTellApart, BuildsForward, RolloutInv, TendedInv, BuiltInTime, ConfigFirst,
         [Next]_vars
  PROVE  ConfigFirst'
<1>1. CASE UNCHANGED objs
  BY <1>1 DEF ConfigFirst
<1>2. CASE /\ round.at # 0 /\ UNCHANGED release
           /\ objs' = IF Wanted THEN Written ELSE Restrict(objs, DOMAIN objs \ {Target})
  <2> SUFFICES ASSUME NEW n \in Names, KeyOf("epp", n) \in DOMAIN objs'
               PROVE  /\ KeyOf("configMap", n) \in DOMAIN objs'
                      /\ objs'[KeyOf("epp", n)].body.template.hash.build
                           =< objs'[KeyOf("configMap", n)].body.data.build
    BY DEF ConfigFirst
  <2> DEFINE E == KeyOf("epp", n)
             C == KeyOf("configMap", n)
  <2>1. "epp" \in Children /\ "configMap" \in Children
    BY ChildrenAre
  <2>2. E # C
    BY <2>1, KeysApart DEF Children
  <2>3. Kind \in Kinds /\ round.name \in Names /\ Target = KeyOf(Kind, round.name)
    BY <1>2, DesiredIs
  <2>4. /\ \A x : x # Target => /\ x \in DOMAIN objs <=> x \in DOMAIN objs'
                                /\ x \in DOMAIN objs => objs'[x] = objs[x]
    BY <1>2, EnsureIs
  <2>5. Target \in {E, C} => /\ round.name = n /\ (Target = E => Kind = "epp")
                             /\ (Target = C => Kind = "configMap")
    <3>1. Kind # "legacyPool" \/ Target \notin {E, C}
      BY <2>1, <2>3, LegacyIsPool
    <3>2. Kind # "legacyPool" => Kind \in Children
      BY <2>3 DEF Children
    <3> QED BY <2>1, <2>3, <3>1, <3>2, ServicesApart
  <2>6. release \in DOMAIN Releases /\ Running = Releases[release] /\ Running.build \in Nat
    BY ReleaseStep, ReleaseTypes DEF Running
  <2>7. CASE Target \notin {E, C}
    BY <2>4, <2>7 DEF ConfigFirst
  <2>8. CASE Target \in {E, C}
    <3>1. Wanted /\ Desired \in Builds /\ Desired[1] = Kind
      <4>1. Wanted
        BY <2>5, <2>8, AlwaysNeeded DEF Wanted
      <4> QED BY <1>2, <4>1, DesiredIs
    <3>2. objs'[Target].body = Bodies[Desired] /\ Target \in DOMAIN objs'
      BY <1>2, <3>1, WrittenIs
    <3>3. Desired[4] = release
      BY DEF Desired
    <3>4. ConfigData(Desired[3], Running).build = Running.build
      BY ConfigBuild
    <3>5. CASE Target = E
      <4>1. Kind = "epp" /\ objs'[E].body.template.hash.build = Running.build
        BY <2>5, <2>6, <3>1, <3>2, <3>3, <3>4, <3>5, PickerBuilds
      <4>2. round.at = 5
        <5>1. round.at \in 1 .. 18 /\ Plan[round.at] = "epp"
          BY <1>2, <4>1, PlanLength DEF RolloutInv, RoundTyped, Kind
        <5> QED BY <5>1, PlanIs
      <4>3. Plan[4] = "configMap" /\ 4 \in 1 .. round.at - 1
        BY <4>2, PlanIs
      <4>4. Fits("configMap", n, round.spec, release, objs)
        BY <1>2, <2>5, <3>5, <4>3 DEF TendedInv, RoundDone
      <4>5. C \in DOMAIN objs /\ objs[C].body = Bodies[<<"configMap", n, round.spec, release>>]
        BY <4>4, AlwaysNeeded DEF Fits
      <4>6. <<"configMap", n, round.spec, release>> \in Builds
        BY <1>2, <2>1, <2>6, DesiredIs DEF Builds, Names, Children
      <4>7. objs[C].body.data.build = Running.build
        <5> DEFINE c == <<"configMap", n, round.spec, release>>
        <5>1. c \in Builds /\ c[1] = "configMap" /\ c[4] = release
          BY <4>6
        <5>2. objs[C].body = Bodies[c]
          BY <4>5
        <5> HIDE DEF c
        <5>3. objs[C].body.data = ConfigData(c[3], Releases[c[4]])
          BY <5>1, <5>2, PickerBuilds
        <5> QED BY <2>6, <5>1, <5>3, ConfigBuild
      <4> QED BY <2>2, <2>4, <2>6, <3>5, <4>1, <4>5, <4>7
    <3>6. CASE Target = C
      <4>1. objs'[C].body.data.build = Running.build
        BY <2>5, <2>6, <3>1, <3>2, <3>3, <3>4, <3>6, PickerBuilds
      <4>2. E \in DOMAIN objs /\ objs'[E] = objs[E]
        BY <2>2, <2>4, <3>6
      <4>3. PICK b \in Builds : /\ b[1] = "epp" /\ objs[E].body = Bodies[b]
                                /\ b[4] \in DOMAIN Releases /\ b[4] =< release
        BY <2>1, <4>2, ObjectBuiltInTime
      <4>4. objs[E].body.template.hash.build = Releases[b[4]].build
        <5>1. Bodies[b].template.hash = ConfigData(b[3], Releases[b[4]])
          BY <4>3, PickerBuilds
        <5> QED BY <4>3, <5>1, ConfigBuild
      <4>5. Releases[b[4]].build =< Running.build
        BY <2>6, <4>3 DEF BuildsForward
      <4> QED BY <3>2, <3>6, <4>1, <4>2, <4>4, <4>5
    <3> QED BY <2>8, <3>5, <3>6
  <2> QED BY <2>7, <2>8
<1> QED BY <1>1, <1>2, ObjsStep

LEMMA InformedStep ==
  ASSUME NamesTellApart, BuildsForward, RolloutInv, BuiltInTime, ConfigFirst, Informed,
         [Next]_vars
  PROVE  Informed'
<1>1. /\ release \in DOMAIN Releases /\ release' \in DOMAIN Releases /\ release =< release'
      /\ \A r \in DOMAIN Releases : r =< release => r =< release'
  BY ReleaseStep, ReleaseTypes
<1>2. ASSUME pods' \subseteq pods PROVE Informed'
  BY <1>1, <1>2 DEF Informed, PodsOf
<1>3. ASSUME NEW d \in DOMAIN objs, PodStarts(d) PROVE Informed'
  <2> DEFINE new == [of |-> d, template |-> Template(d), config |-> Config(Template(d))]
  <2>1. pods' = pods \cup {new} /\ Starting(d)
    BY <1>3 DEF PodStarts, PodsChange
  <2>2. new.of = d /\ new.template = Template(d) /\ new.config = Config(Template(d))
    OBVIOUS
  <2> HIDE DEF new
  <2>3. ASSUME NEW n \in Names, d = KeyOf("epp", n)
        PROVE  /\ \E s \in Specs, r \in DOMAIN Releases :
                    r =< release' /\ new.config = ConfigData(s, Releases[r])
               /\ new.config.file = new.template.args.file
               /\ new.template.hash.build =< new.config.build
    <3> DEFINE C == KeyOf("configMap", n)
    <3>1. "epp" \in Children /\ "configMap" \in Children
      BY ChildrenAre
    <3>2. PICK b \in Builds : /\ b[1] = "epp" /\ EPPName(b[2]) = EPPName(n)
                              /\ objs[d].body = Bodies[b]
      BY <2>3, <3>1, ObjectBuiltInTime
    <3>3. /\ {"args", "config"} \subseteq DOMAIN Template(d)
          /\ Template(d).config = EPPConfigMapName(b[2])
      BY <3>2, PickerBuilds DEF Template
    <3>4. EPPConfigMapName(b[2]) = EPPConfigMapName(n)
      BY <3>2 DEF EPPConfigMapName
    <3>5. <<"configMap", Template(d).config>> = C
      BY <3>3, <3>4, NamedKeys
    <3>6. C \in DOMAIN objs /\ Template(d).hash.build =< objs[C].body.data.build
      BY <2>3 DEF ConfigFirst, Template
    <3>7. Config(Template(d)) = objs[C].body.data
      BY <3>3, <3>5, <3>6 DEF Config
    <3>8. PICK c \in Builds : /\ c[1] = "configMap" /\ objs[C].body = Bodies[c]
                              /\ c[4] \in DOMAIN Releases /\ c[4] =< release
      BY <3>1, <3>6, ObjectBuiltInTime
    <3>9. objs[C].body.data = ConfigData(c[3], Releases[c[4]]) /\ c[3] \in Specs
      BY <3>8, PickerBuilds, BodyIs
    <3>10. Config(Template(d)).file = Template(d).args.file
      BY <2>1, <3>3 DEF Starting, Startable
    <3>11. c[4] =< release'
      BY <1>1, <3>8
    <3> QED BY <2>2, <3>6, <3>7, <3>8, <3>9, <3>10, <3>11
  <2>4. ASSUME NEW n \in Names, NEW p \in PodsOf(KeyOf("epp", n))'
        PROVE  /\ \E s \in Specs, r \in DOMAIN Releases :
                    r =< release' /\ p.config = ConfigData(s, Releases[r])
               /\ p.config.file = p.template.args.file
               /\ p.template.hash.build =< p.config.build
    <3>1. p \in pods' /\ p.of = KeyOf("epp", n)
      BY DEF PodsOf
    <3>2. CASE p = new
      BY <2>2, <2>3, <3>1, <3>2
    <3>3. CASE p \in pods
      BY <1>1, <3>1, <3>3 DEF Informed, PodsOf
    <3> QED BY <2>1, <3>1, <3>2, <3>3
  <2> QED BY <2>4 DEF Informed
<1>4. CASE UNCHANGED pods
  BY <1>2, <1>4
<1>5. ASSUME NEW p \in pods, PodStops(p) PROVE Informed'
  BY <1>2, <1>5 DEF PodStops, PodsChange
<1> QED BY <1>3, <1>4, <1>5, PodsStep

LEMMA ConfigKept ==
  ASSUME NamesTellApart, BuildsForward
  PROVE  Spec => []ConfigInv
<1>1. Init => ConfigInv
  BY InitConfig
<1>2. RolloutInv /\ TendedInv /\ ConfigInv /\ [Next]_vars => ConfigInv'
  BY BuiltInTimeStep, ConfigFirstStep, InformedStep DEF ConfigInv
<1> QED BY TendedKept, <1>1, <1>2, PTL DEF Spec

(***************************************************************************)
(* What the EPP is told, and what it may do.                               *)
(***************************************************************************)
LEMMA GrantedIs ==
  ASSUME NEW key \in DOMAIN objs, NEW type, NEW account,
         key[1] = (IF type = "role" THEN "roleBinding" ELSE "clusterRoleBinding"),
         objs[key].body.subject = account
  PROVE  objs[<<type, objs[key].body.roleRef>>].body.rules \subseteq Granted(type, account)
<1> DEFINE bs == {b \in Existing(IF type = "role" THEN "roleBinding" ELSE "clusterRoleBinding") :
                    objs[b].body.subject = account}
<1>1. key \in bs
  BY DEF Existing
<1>2. Granted(type, account) = UNION {objs[<<type, objs[b].body.roleRef>>].body.rules : b \in bs}
  BY DEF Granted
<1> HIDE DEF bs
<1> QED BY <1>1, <1>2

\* The rules the account of an EPP is granted in its namespace, and in the cluster.
LEMMA RolesAre ==
  ASSUME RolloutInv, TendedInv, Settled, NEW n \in DOMAIN services
  PROVE  /\ BuildEPPRole(n, services[n], Running).rules \subseteq Granted("role", EPPName(n))
         /\ Needs("clusterRole", services[n], Running) =>
              BuildEPPClusterRole(n, Running).rules \subseteq Granted("clusterRole", EPPName(n))
<1>1. {"role", "roleBinding", "clusterRole", "clusterRoleBinding"} \subseteq Children
  BY ChildrenAre
<1>2. n \in Names
  BY DEF RolloutInv, TypeOK, Names
<1> DEFINE spec == services[n]
           op == Running
<1>3. /\ Build("role", Namespace, n, spec, op) = BuildEPPRole(n, spec, op)
      /\ Build("roleBinding", Namespace, n, spec, op) = BuildEPPRoleBinding(n, op)
      /\ Build("clusterRole", Namespace, n, spec, op) = BuildEPPClusterRole(n, op)
      /\ Build("clusterRoleBinding", Namespace, n, spec, op)
           = BuildEPPClusterRoleBinding(Namespace, n, op)
  BY BuildIs
<1>4. BuildEPPRole(n, spec, op).rules \subseteq Granted("role", EPPName(n))
  <2>1. Has("role", n) /\ Has("roleBinding", n)
    BY <1>1, WantedAre, AlwaysNeeded
  <2>2. /\ Object("role", n) = BuildEPPRole(n, spec, op)
        /\ Object("roleBinding", n) = BuildEPPRoleBinding(n, op)
    BY <1>1, <1>3, <2>1, WantedAre
  <2>3. /\ BuildEPPRoleBinding(n, op).subject = EPPName(n)
        /\ BuildEPPRoleBinding(n, op).roleRef = EPPName(n)
    BY DEF BuildEPPRoleBinding
  <2>4. /\ KeyOf("roleBinding", n) \in DOMAIN objs /\ KeyOf("roleBinding", n)[1] = "roleBinding"
        /\ objs[KeyOf("roleBinding", n)].body.subject = EPPName(n)
        /\ <<"role", objs[KeyOf("roleBinding", n)].body.roleRef>> = KeyOf("role", n)
    BY <1>2, <2>1, <2>2, <2>3, NamedKeys DEF Has, Object
  <2>5. objs[KeyOf("role", n)].body.rules \subseteq Granted("role", EPPName(n))
    BY <2>4, GrantedIs
  <2> QED BY <2>2, <2>5 DEF Object
<1>5. ASSUME Needs("clusterRole", spec, op)
      PROVE  BuildEPPClusterRole(n, op).rules \subseteq Granted("clusterRole", EPPName(n))
  <2>1. Needs("clusterRoleBinding", spec, op)
    BY <1>5 DEF Needs, ClusterKinds
  <2>2. Has("clusterRole", n) /\ Has("clusterRoleBinding", n)
    BY <1>1, <1>5, <2>1, WantedAre
  <2>3. /\ Object("clusterRole", n) = BuildEPPClusterRole(n, op)
        /\ Object("clusterRoleBinding", n) = BuildEPPClusterRoleBinding(Namespace, n, op)
    BY <1>1, <1>3, <2>2, WantedAre
  <2>4. /\ BuildEPPClusterRoleBinding(Namespace, n, op).subject = EPPName(n)
        /\ BuildEPPClusterRoleBinding(Namespace, n, op).roleRef = EPPClusterRBACName(Namespace, n)
    BY DEF BuildEPPClusterRoleBinding
  <2>5. /\ KeyOf("clusterRoleBinding", n) \in DOMAIN objs
        /\ KeyOf("clusterRoleBinding", n)[1] = "clusterRoleBinding"
        /\ objs[KeyOf("clusterRoleBinding", n)].body.subject = EPPName(n)
        /\ <<"clusterRole", objs[KeyOf("clusterRoleBinding", n)].body.roleRef>>
             = KeyOf("clusterRole", n)
    BY <1>2, <2>2, <2>3, <2>4, NamedKeys DEF Has, Object
  <2>6. objs[KeyOf("clusterRole", n)].body.rules \subseteq Granted("clusterRole", EPPName(n))
    BY <2>5, GrantedIs
  <2> QED BY <2>3, <2>6 DEF Object
<1> QED BY <1>4, <1>5

\* What these rules allow.
LEMMA RulesAre ==
  ASSUME NEW n, NEW spec, NEW op
  PROVE  /\ {"pods", "inferencepools"} \X Reading \subseteq BuildEPPRole(n, spec, op).rules
         /\ EPPReplicas(spec) > 1 => <<"leases", "update">> \in BuildEPPRole(n, spec, op).rules
         /\ <<"tokenreviews", "create">> \in BuildEPPClusterRole(n, op).rules
BY DEF BuildEPPRole, BuildEPPClusterRole

\* The EPP that runs has read the ConfigMap as it is now, and is allowed what it is told
\* to do (PickerEquipped; epp_configmap.go:108-110, epp_rbac.go:28-32,
\* epp_cluster_rbac.go:26-30).
THEOREM PickersEquipped ==
  ASSUME NamesTellApart, BuildsForward
  PROVE  Spec => []PickerEquipped
<1>1. RolloutInv /\ TendedInv /\ ConfigInv => PickerEquipped
  <2> SUFFICES ASSUME RolloutInv, TendedInv, ConfigInv, Settled, NEW n \in DOMAIN services
               PROVE  PodsOf(KeyOf("epp", n)) # {} /\ Equipped(n)
    BY DEF PickerEquipped
  <2>1. n \in Names /\ release \in DOMAIN Releases /\ Running = Releases[release]
    BY DEF RolloutInv, TypeOK, Names, Running
  <2> DEFINE spec == services[n]
             op == Running
  <2>2. ASSUME NEW p \in PodsOf(KeyOf("epp", n))
        PROVE  LET args == p.template.args
                   account == p.template.account
               IN  /\ p.config = Object("configMap", n).data /\ p.config.file = args.file
                   /\ {"pods", "inferencepools"} \X Reading \subseteq Granted("role", account)
                   /\ args.leaderElection => <<"leases", "update">> \in Granted("role", account)
                   /\ args.auth /\ services[n].pool =>
                        <<"tokenreviews", "create">> \in Granted("clusterRole", account)
    <3>1. p.template = BuildEPPDeployment(n, spec, op).template
      BY PickersAre
    <3>2. /\ p.template.args = EPPArgs(n, spec, op) /\ p.template.account = EPPName(n)
          /\ p.template.hash = ConfigData(spec, op)
      BY <3>1 DEF BuildEPPDeployment, ConfigMapHash
    <3>3. /\ EPPArgs(n, spec, op).file = PluginsConfigFile(spec)
          /\ EPPArgs(n, spec, op).leaderElection = (EPPReplicas(spec) > 1)
          /\ EPPArgs(n, spec, op).auth = op.auth
      BY DEF EPPArgs
    <3>4. Object("configMap", n).data = ConfigData(spec, op)
      <4>1. Build("configMap", Namespace, n, spec, op) = BuildEPPConfigMap(n, spec, op)
        BY BuildIs
      <4>2. Object("configMap", n) = BuildEPPConfigMap(n, spec, op)
        BY <4>1, WantedAre, AlwaysNeeded, ChildrenAre
      <4> QED BY <4>2 DEF BuildEPPConfigMap
    <3> HIDE DEF spec, op
    <3>5. PICK s \in Specs, r \in DOMAIN Releases :
            r =< release /\ p.config = ConfigData(s, Releases[r])
      BY <2>1 DEF ConfigInv, Informed
    <3>6. p.config.file = p.template.args.file /\ p.template.hash.build =< p.config.build
      BY <2>1 DEF ConfigInv, Informed
    <3>7. p.config = ConfigData(spec, op)
      <4>1. /\ PluginsConfigFile(s) = PluginsConfigFile(spec)
            /\ op.build =< Releases[r].build
        BY <3>2, <3>3, <3>5, <3>6, ConfigBuild
      <4>2. /\ Releases[r].build =< op.build
            /\ Releases[r].build \in Nat /\ op.build \in Nat
        BY <2>1, <3>5, ReleaseTypes DEF BuildsForward, op
      <4>3. Releases[r].build = op.build
        BY <4>1, <4>2
      <4> QED BY <3>5, <4>1, <4>3 DEF ConfigData
    <3>8. /\ BuildEPPRole(n, spec, op).rules \subseteq Granted("role", EPPName(n))
          /\ Needs("clusterRole", spec, op) =>
               BuildEPPClusterRole(n, op).rules \subseteq Granted("clusterRole", EPPName(n))
      BY RolesAre DEF spec, op
    <3>9. op.auth /\ spec.pool => Needs("clusterRole", spec, op)
      <4>1. Needs("clusterRole", spec, op) = NeedsClusterRBAC(spec, op)
        BY DEF Needs, ClusterKinds
      <4> QED BY <4>1, Zenon DEF NeedsClusterRBAC
    <3>10. /\ {"pods", "inferencepools"} \X Reading \subseteq Granted("role", EPPName(n))
           /\ EPPReplicas(spec) > 1 => <<"leases", "update">> \in Granted("role", EPPName(n))
           /\ op.auth /\ spec.pool =>
                <<"tokenreviews", "create">> \in Granted("clusterRole", EPPName(n))
      <4> HIDE DEF Reading
      <4> QED BY <3>8, <3>9, RulesAre
    <3> QED BY <3>2, <3>3, <3>4, <3>6, <3>7, <3>10 DEF spec
  <2> QED BY <2>2, PickersAre DEF Equipped
<1> QED BY TendedKept, ConfigKept, <1>1, PTL
=============================================================================
