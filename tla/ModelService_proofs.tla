------------------------ MODULE ModelService_proofs ------------------------
(***************************************************************************)
(* Theorems about the ModelService controller for every set of specs,      *)
(* operator configurations, edits, deletions, failures and restarts.       *)
(***************************************************************************)
EXTENDS ModelService, TLAPS

(***************************************************************************)
(* The values the operators of the model return.                           *)
(***************************************************************************)
\* The initial and the empty values have their types.
LEMMA EmptyTypes ==
  /\ NoStatus \in Status /\ NoChild \in Child
  /\ \A n, g \in Nat, s \in Specs : Fresh(n, g, s) \in Service
  /\ \A n \in Nat : Absent(n) \in Service
  /\ Unseen \in [decode : RoleStatus, prefill : RoleStatus]
<1>1. NoStatus \in Status
  BY DEF NoStatus, NoCounts, Status, Phases, Condition, Reasons
<1>2. NoChild \in Child
  BY DEF NoChild, NoContent, Child, Contents
<1>3. (CHOOSE s \in Specs : TRUE) \in Specs
  BY SpecsAssumption
<1>4. \A n, g \in Nat, s \in Specs : Fresh(n, g, s) \in Service
  BY <1>1 DEF Fresh, Service
<1>5. \A n \in Nat : Absent(n) \in Service
  BY <1>3, <1>4 DEF Absent
<1>6. Unseen \in [decode : RoleStatus, prefill : RoleStatus]
  BY DEF Unseen, NotFound, RoleStatus
<1> QED BY <1>1, <1>2, <1>4, <1>5, <1>6

\* What a child is built from, for any kind, spec and configuration.
LEMMA ContentType ==
  ASSUME NEW k, NEW spec \in ServiceSpec, NEW o \in OperatorConfig
  PROVE  Content(k, spec, o) \in Contents
<1>1. spec.tag \in Nat /\ o.version \in Nat /\ o.flags \in Nat /\ o.auth \in BOOLEAN
  BY DEF ServiceSpec, OperatorConfig
<1>2. (k \in {"epp", "serviceMonitor"} /\ o.auth) \in BOOLEAN
  OBVIOUS
<1> QED BY <1>1, <1>2 DEF Content, Contents

\* A merge patch between statuses yields a status, whatever it is applied to.
LEMMA MergeType ==
  ASSUME NEW base \in Status, NEW new \in Status, NEW current \in Status
  PROVE  Merge(base, new, current) \in Status
BY DEF Merge, Status

\* A status patch leaves the service a service and touches its status only.
LEMMA PatchType ==
  ASSUME TypeOK, NEW new \in Status, PatchService(new)
  PROVE  /\ ms' \in Service
         /\ ms'.uid = ms.uid /\ ms'.gen = ms.gen /\ ms'.del = ms.del
         /\ ms'.fin = ms.fin /\ ms'.spec = ms.spec
         /\ ms'.st = Merge(snap.st, new, ms.st)
<1>1. snap.st \in Status /\ ms.st \in Status /\ ms \in Service
  BY DEF TypeOK, Service
<1>2. Merge(snap.st, new, ms.st) \in Status
  BY <1>1, MergeType
<1> QED BY <1>1, <1>2 DEF PatchService, Service

\* What DerivePhase (status.go:115-137) can answer.
LEMMA DerivePhaseType ==
  ASSUME NEW decode \in RoleStatus, NEW prefill \in RoleStatus
  PROVE  /\ DerivePhase(decode, prefill).phase \in Phases
         /\ DerivePhase(decode, prefill).ready \in {"True", "False"}
         /\ DerivePhase(decode, prefill).reason \in Reasons
<1>1. decode.found \in BOOLEAN
  BY DEF RoleStatus
<1> DEFINE ready == decode.ready + prefill.ready
           desired == decode.desired + prefill.desired
<1>2. CASE ~decode.found
  BY <1>2 DEF DerivePhase, Derived, Phases, Reasons
<1>3. CASE decode.found /\ ready = 0 /\ desired > 0
  BY <1>3 DEF DerivePhase, Derived, Phases, Reasons
<1>4. CASE decode.found /\ ready # 0 /\ ready < desired
  BY <1>4 DEF DerivePhase, Derived, Phases, Reasons
<1>5. CASE decode.found /\ ~(ready = 0 /\ desired > 0) /\ ~(ready # 0 /\ ready < desired)
  BY <1>5 DEF DerivePhase, Derived, Phases, Reasons
<1> QED BY <1>1, <1>2, <1>3, <1>4, <1>5

\* The status updateStatus writes (modelservice_controller.go:233-296).
LEMMA NewStatusType ==
  ASSUME TypeOK
  PROVE  NewStatus \in Status
<1>1. seen.decode \in RoleStatus /\ seen.prefill \in RoleStatus /\ snap.gen \in Nat
  BY DEF TypeOK, Service
<1> DEFINE o == DerivePhase(seen.decode, seen.prefill)
<1>2. o.phase \in Phases /\ o.ready \in {"True", "False"} /\ o.reason \in Reasons
  BY <1>1, DerivePhaseType
<1>3. /\ Counts(seen.decode) \in [desired : Nat, ready : Nat]
      /\ Counts(seen.prefill) \in [desired : Nat, ready : Nat]
  BY <1>1 DEF Counts, RoleStatus
<1>4. [status |-> o.ready, reason |-> o.reason, gen |-> snap.gen] \in Condition
  BY <1>1, <1>2 DEF Condition
<1> HIDE DEF o
<1>5. NewStatus = [phase |-> o.phase, obs |-> snap.gen,
                   cond |-> [status |-> o.ready, reason |-> o.reason, gen |-> snap.gen],
                   decode |-> Counts(seen.decode), prefill |-> Counts(seen.prefill)]
  BY DEF NewStatus, o
<1> QED BY <1>1, <1>2, <1>3, <1>4, <1>5 DEF Status

\* The status setReadyConditionFalse writes (modelservice_controller.go:225-231).
LEMMA NotReadyType ==
  ASSUME NEW s \in Service
  PROVE  NotReady(s) \in Status /\ NotReady(s).obs = s.gen
<1>1. [status |-> "False", reason |-> "ReconcileError", gen |-> s.gen] \in Condition
  BY DEF Service, Condition, Reasons
<1> QED BY <1>1 DEF NotReady, Service, Status

\* What ObserveStatus reads of a Deployment, or of none.
LEMMA ObservedType ==
  ASSUME TypeOK, NEW k \in Tracked
  PROVE  Observed(k) \in RoleStatus
<1>1. cKids[k] \in Child
  BY DEF TypeOK
<1> QED BY <1>1, LimitsAssumption DEF Observed, NotFound, RoleStatus, Child

\* The child Reconcile would create.
LEMMA BuildChildType ==
  ASSUME TypeOK, NEW k
  PROVE  BuildChild(k) \in Child
<1>1. snap.spec \in ServiceSpec /\ op \in OperatorConfig /\ snap.uid \in Nat
  BY SpecsAssumption, OperatorsAssumption DEF TypeOK, Service
<1>2. Content(k, snap.spec, op) \in Contents
  BY <1>1, ContentType
<1> QED BY <1>1, <1>2 DEF BuildChild, Child

(***************************************************************************)
(* Type correctness.  The prefill Deployment is observed only for a spec   *)
(* that has one, for which the kind is tracked.                            *)
(***************************************************************************)
TypeInv == TypeOK /\ (pc = "observePrefill" => snap.spec.prefill)

\* Failures stay within their bound.
LEMMA AnswerType ==
  ASSUME TypeOK, NEW r \in Answers, Answer(r)
  PROVE  errs' \in 0 .. MaxErrors /\ op' = op /\ drift' = drift /\ crashes' = crashes
<1>1. CASE r = "ok"
  BY <1>1 DEF TypeOK, Answer
<1>2. CASE r # "ok"
  BY <1>2, LimitsAssumption DEF TypeOK, Answer
<1> QED BY <1>1, <1>2

\* A run of Reconcile that ends leaves its local state empty.
LEMMA ReturnType ==
  ASSUME TypeOK, NEW again \in BOOLEAN, Return(again)
  PROVE  /\ pc' \in Steps /\ queue' \in BOOLEAN /\ snap' \in Service
         /\ todo' \subseteq Tracked /\ held' \in Child
         /\ seen' \in [decode : RoleStatus, prefill : RoleStatus]
BY EmptyTypes DEF Return, TypeOK, Steps

\* So does one that goes on to the next child, or that reports an error.
LEMMA ControlType ==
  ASSUME TypeOK, NEW k \in Tracked, Advance(k) \/ Abort
  PROVE  /\ pc' \in Steps /\ queue' \in BOOLEAN /\ snap' \in Service
         /\ todo' \subseteq Tracked /\ held' \in Child
         /\ seen' \in [decode : RoleStatus, prefill : RoleStatus]
<1>1. CASE Advance(k)
  BY <1>1, EmptyTypes DEF Advance, TypeOK, Steps
<1>2. CASE Abort /\ snap.del
  BY <1>2, ReturnType DEF Abort
<1>3. CASE Abort /\ ~snap.del
  BY <1>3 DEF Abort, TypeOK, Steps, local
<1> QED BY <1>1, <1>2, <1>3

\* Users, the Deployment controller, the collector and the informers.
LEMMA ClusterTypeStep ==
  ASSUME TypeOK, Deliver \/ Environment
  PROVE  TypeOK'
<1> USE DEF TypeOK, api, caches, local, others, counters
<1>1. ms.uid \in Nat /\ ms.gen \in Nat /\ ms.st \in Status
  BY DEF Service
<1>2. CASE Deliver
  BY <1>2 DEF Deliver, SyncService, SyncChild
<1>3. CASE Resync
  BY <1>3 DEF Resync
<1>4. CASE UserCreate
  <2>1. ms' \in Service
    <3>1. PICK s \in Specs : ms' = Fresh(ms.uid + 1, 1, s)
      BY <1>4 DEF UserCreate
    <3>2. ms.uid + 1 \in Nat /\ 1 \in Nat
      BY <1>1
    <3> QED BY <3>1, <3>2, EmptyTypes
  <2>2. UNCHANGED <<kids, caches, queue, pc, local, others>>
    BY <1>4 DEF UserCreate
  <2> QED BY <2>1, <2>2
<1>5. CASE UserEdit
  <2>1. PICK s \in Specs : ms' = [ms EXCEPT !.gen = @ + 1, !.spec = s]
    BY <1>5 DEF UserEdit
  <2>2. ms' = [uid |-> ms.uid, gen |-> ms.gen + 1, del |-> ms.del, fin |-> ms.fin,
               spec |-> s, st |-> ms.st]
    BY <2>1 DEF Service
  <2>3. ms' \in Service
    BY <1>1, <2>2 DEF Service
  <2> QED BY <1>5, <2>3 DEF UserEdit
<1>6. CASE UserDelete
  <2>1. CASE ms.fin
    <3>1. ms' = [uid |-> ms.uid, gen |-> ms.gen + 1, del |-> TRUE, fin |-> ms.fin,
                 spec |-> ms.spec, st |-> ms.st]
      BY <1>6, <2>1 DEF UserDelete, Service
    <3>2. ms' \in Service
      BY <1>1, <3>1 DEF Service
    <3> QED BY <1>6, <3>2 DEF UserDelete
  <2>2. CASE ~ms.fin
    <3>1. ms' \in Service
      BY <1>1, <1>6, <2>2, EmptyTypes DEF UserDelete
    <3> QED BY <1>6, <3>1 DEF UserDelete
  <2> QED BY <2>1, <2>2
<1>7. ASSUME NEW k \in Tracked, Drift(k)
      PROVE  TypeOK'
  BY <1>7, EmptyTypes, LimitsAssumption DEF Drift
<1>8. ASSUME NEW k \in Tracked, PodsChange(k)
      PROVE  TypeOK'
  <2>1. PICK n \in 0 .. MaxReady : kids' = [kids EXCEPT ![k].ready = n]
    BY <1>8 DEF PodsChange
  <2>2. [kids[k] EXCEPT !.ready = n] \in Child
    BY LimitsAssumption DEF Child
  <2>3. kids' \in [Tracked -> Child]
    BY <2>1, <2>2
  <2> QED BY <1>8, <2>3 DEF PodsChange
<1>9. ASSUME NEW k \in Tracked, Collect(k)
      PROVE  TypeOK'
  BY <1>9, EmptyTypes DEF Collect
<1> QED BY <1>2, <1>3, <1>4, <1>5, <1>6, <1>7, <1>8, <1>9 DEF Environment

\* The calls that read and write the children.
LEMMA ChildTypeStep ==
  ASSUME TypeOK, NEW k \in Tracked, NEW r \in Answers,
         GetChild(k) \/ UpdateNotFound(k) \/ WriteConflict(k) \/
         CreateChild(k, r) \/ UpdateChild(k, r) \/ DeleteChild(k, r)
  PROVE  TypeOK'
<1> DEFINE LocalOK ==
      /\ pc' \in Steps /\ queue' \in BOOLEAN /\ snap' \in Service
      /\ todo' \subseteq Tracked /\ held' \in Child
      /\ seen' \in [decode : RoleStatus, prefill : RoleStatus]
<1>1. Advance(k) \/ Abort => LocalOK
  BY ControlType
<1> HIDE DEF LocalOK
<1>2. CASE GetChild(k)
  <2>1. CASE Abort
    BY <1>1, <1>2, <2>1 DEF GetChild, LocalOK, TypeOK, api, caches, others, counters
  <2>2. CASE Advance(k)
    BY <1>1, <1>2, <2>2 DEF GetChild, LocalOK, TypeOK, api, caches, others, counters
  <2>3. ASSUME NEW step \in AfterGet(k, cKids[k]), step # "next",
               pc' = step, held' = cKids[k], UNCHANGED <<queue, snap, todo, seen>>
        PROVE  TypeOK'
    <3>1. step \in Steps
      BY <2>3 DEF AfterGet, Steps
    <3> QED BY <1>2, <2>3, <3>1 DEF GetChild, TypeOK, api, caches, others, counters
  <2> QED BY <1>2, <2>1, <2>2, <2>3 DEF GetChild
<1>3. CASE UpdateNotFound(k)
  <2>1. LocalOK
    BY <1>1, <1>3 DEF UpdateNotFound, LocalOK, TypeOK, Steps, local
  <2> QED BY <1>3, <2>1 DEF UpdateNotFound, LocalOK, TypeOK, api, caches, others, counters
<1>4. CASE WriteConflict(k)
  BY <1>1, <1>4 DEF WriteConflict, LocalOK, TypeOK, api, caches, others, counters
<1>5. CASE CreateChild(k, r)
  <2>1. kids' \in [Tracked -> Child]
    BY <1>5, BuildChildType DEF CreateChild, TypeOK
  <2>2. LocalOK
    BY <1>1, <1>5 DEF CreateChild
  <2> QED BY <1>5, <2>1, <2>2, AnswerType DEF CreateChild, LocalOK, TypeOK, caches
<1>6. CASE UpdateChild(k, r)
  <2>1. [kids[k] EXCEPT !.from = Content(k, snap.spec, op)] \in Child
    BY ContentType, SpecsAssumption, OperatorsAssumption DEF TypeOK, Service, Child
  <2>2. kids' \in [Tracked -> Child]
    BY <1>6, <2>1 DEF UpdateChild, TypeOK
  <2>3. LocalOK
    BY <1>1, <1>6 DEF UpdateChild
  <2> QED BY <1>6, <2>2, <2>3, AnswerType DEF UpdateChild, LocalOK, TypeOK, caches
<1>7. CASE DeleteChild(k, r)
  <2>1. kids' \in [Tracked -> Child]
    BY <1>7, EmptyTypes DEF DeleteChild, TypeOK
  <2>2. LocalOK
    BY <1>1, <1>7 DEF DeleteChild
  <2> QED BY <1>7, <2>1, <2>2, AnswerType DEF DeleteChild, LocalOK, TypeOK, caches
<1> QED BY <1>2, <1>3, <1>4, <1>5, <1>6, <1>7

\* The calls that read and write the service itself.
LEMMA ServiceTypeStep ==
  ASSUME TypeInv, NEW r \in Answers,
         \/ FetchService \/ FinalizerConflict \/ ObserveDecode \/ ObservePrefill
         \/ StatusUnchanged \/ PatchStatusNotFound
         \/ AddFinalizer(r) \/ RemoveFinalizer(r) \/ ReconcileFailed(r) \/ PatchStatus(r)
  PROVE  TypeOK'
<1> USE DEF TypeInv
<1>1. ms.uid \in Nat /\ ms.gen \in Nat /\ cMs \in Service
  BY DEF TypeOK, Service
<1>2. CASE FetchService
  <2>1. AfterFetch(cMs) \in Steps /\ CleanedUp \subseteq Tracked
    BY DEF AfterFetch, CleanedUp, Steps
  <2> QED BY <1>1, <1>2, <2>1 DEF FetchService, TypeOK, api, caches, others, counters
<1>3. ASSUME ms' \in Service, NEW again \in BOOLEAN, Return(again), UNCHANGED <<kids, caches>>,
             op' = op /\ drift' = drift /\ crashes' = crashes /\ errs' \in 0 .. MaxErrors
      PROVE  TypeOK'
  BY <1>3, ReturnType DEF TypeOK, caches
<1>4. CASE FinalizerConflict \/ StatusUnchanged \/ PatchStatusNotFound
  <2>1. PICK again \in BOOLEAN : Return(again)
    BY <1>4 DEF FinalizerConflict, StatusUnchanged, PatchStatusNotFound
  <2>2. UNCHANGED <<ms, kids, caches, others>>
    BY <1>4 DEF FinalizerConflict, StatusUnchanged, PatchStatusNotFound, api
  <2> QED BY <1>3, <2>1, <2>2 DEF TypeOK, others, counters
<1>5. CASE ObserveDecode \/ ObservePrefill
  <2>1. ObserveDecode => seen' \in [decode : RoleStatus, prefill : RoleStatus]
    BY ObservedType, KindsAssumption DEF ObserveDecode, TypeOK
  <2>2. ObservePrefill => seen' \in [decode : RoleStatus, prefill : RoleStatus]
    <3>1. ObservePrefill => "prefill" \in Tracked
      BY KindsAssumption DEF ObservePrefill, TypeOK, Service
    <3> QED BY <3>1, ObservedType DEF ObservePrefill, TypeOK
  <2> QED BY <1>5, <2>1, <2>2 DEF ObserveDecode, ObservePrefill, TypeOK, Steps, api, caches,
                                  others, counters
<1>6. CASE AddFinalizer(r)
  <2>1. [ms EXCEPT !.fin = TRUE] \in Service
    BY DEF TypeOK, Service
  <2>2. ms' \in Service /\ UNCHANGED <<kids, caches>>
    BY <1>6, <2>1 DEF AddFinalizer, TypeOK
  <2>3. op' = op /\ drift' = drift /\ crashes' = crashes /\ errs' \in 0 .. MaxErrors
    BY <1>6, AnswerType DEF AddFinalizer
  <2>4. CASE r = "ok"
    BY <1>6, <2>2, <2>3, <2>4 DEF AddFinalizer, TypeOK, Steps, caches
  <2>5. CASE r # "ok"
    BY <1>3, <1>6, <2>2, <2>3, <2>5 DEF AddFinalizer
  <2> QED BY <2>4, <2>5
<1>7. CASE RemoveFinalizer(r)
  <2>1. ms' \in Service /\ UNCHANGED <<kids, caches>>
    BY <1>1, <1>7, EmptyTypes DEF RemoveFinalizer, TypeOK
  <2>2. op' = op /\ drift' = drift /\ crashes' = crashes /\ errs' \in 0 .. MaxErrors
    BY <1>7, AnswerType DEF RemoveFinalizer
  <2> QED BY <1>3, <1>7, <2>1, <2>2 DEF RemoveFinalizer
<1>8. CASE ReconcileFailed(r)
  <2>1. NotReady(snap) \in Status
    BY NotReadyType DEF TypeOK
  <2>2. ms' \in Service /\ UNCHANGED <<kids, caches>>
    BY <1>8, <2>1, PatchType DEF ReconcileFailed, TypeOK
  <2>3. op' = op /\ drift' = drift /\ crashes' = crashes /\ errs' \in 0 .. MaxErrors
    BY <1>8, AnswerType DEF ReconcileFailed
  <2> QED BY <1>3, <1>8, <2>2, <2>3 DEF ReconcileFailed
<1>9. CASE PatchStatus(r)
  <2>1. ms' \in Service /\ UNCHANGED <<kids, caches>>
    BY <1>9, NewStatusType, PatchType DEF PatchStatus, TypeOK
  <2>2. op' = op /\ drift' = drift /\ crashes' = crashes /\ errs' \in 0 .. MaxErrors
    BY <1>9, AnswerType DEF PatchStatus
  <2> QED BY <1>3, <1>9, <2>1, <2>2 DEF PatchStatus
<1> QED BY <1>2, <1>4, <1>5, <1>6, <1>7, <1>8, <1>9

\* Every variable always holds a value the program can hold.
THEOREM TypeCorrect == Spec => []TypeOK
<1>1. Init => TypeInv
  <2> SUFFICES ASSUME Init
               PROVE  TypeInv
    OBVIOUS
  <2>1. ms \in Service /\ cMs \in Service /\ snap \in Service
    BY EmptyTypes DEF Init
  <2>2. kids \in [Tracked -> Child] /\ cKids \in [Tracked -> Child]
    <3>1. PICK left \in SUBSET (Tracked \cap {"legacyPool"}) :
            kids = [k \in Tracked |-> [NoChild EXCEPT !.exists = k \in left]]
      BY DEF Init
    <3>2. \A k \in Tracked : [NoChild EXCEPT !.exists = k \in left] \in Child
      <4>1. NoContent \in Contents
        BY DEF NoContent, Contents
      <4>2. \A k : [NoChild EXCEPT !.exists = k \in left]
                   = [exists |-> k \in left, uid |-> 0, from |-> NoContent, ready |-> 0]
        BY DEF NoChild
      <4>3. \A k : (k \in left) \in BOOLEAN
        OBVIOUS
      <4>4. \A b \in BOOLEAN : [exists |-> b, uid |-> 0, from |-> NoContent, ready |-> 0] \in Child
        BY <4>1 DEF Child
      <4> QED BY <4>2, <4>3, <4>4
    <3> QED BY <3>1, <3>2 DEF Init
  <2>3. held \in Child /\ seen \in [decode : RoleStatus, prefill : RoleStatus]
    BY EmptyTypes DEF Init
  <2>4. drift \in 0 .. MaxDrift /\ errs \in 0 .. MaxErrors /\ crashes \in 0 .. MaxCrashes
    BY LimitsAssumption DEF Init
  <2> QED BY <2>1, <2>2, <2>3, <2>4 DEF Init, TypeInv, TypeOK, Steps
<1>2. TypeInv /\ [Next]_vars => TypeInv'
  <2> SUFFICES ASSUME TypeInv, [Next]_vars
               PROVE  TypeInv'
    OBVIOUS
  <2>1. TypeOK'
    <3>1. CASE Deliver \/ Environment
      BY <3>1, ClusterTypeStep DEF TypeInv
    <3>2. CASE Reconcile
      <4>1. PICK ok \in Answers : TRUE
        BY DEF Answers
      <4>2. ASSUME NEW k \in Tracked,
                   \/ GetChild(k) \/ UpdateNotFound(k) \/ WriteConflict(k)
                   \/ \E r \in Answers : CreateChild(k, r) \/ UpdateChild(k, r) \/ DeleteChild(k, r)
            PROVE  TypeOK'
        BY <4>1, <4>2, ChildTypeStep DEF TypeInv
      <4>3. ASSUME \/ FetchService \/ FinalizerConflict \/ ObserveDecode \/ ObservePrefill
                   \/ StatusUnchanged \/ PatchStatusNotFound
                   \/ \E r \in Answers : \/ AddFinalizer(r) \/ RemoveFinalizer(r)
                                        \/ ReconcileFailed(r) \/ PatchStatus(r)
            PROVE  TypeOK'
        BY <4>1, <4>3, ServiceTypeStep
      <4> QED BY <3>2, <4>2, <4>3 DEF Reconcile
    <3>3. CASE Crash
      <4>1. crashes' \in 0 .. MaxCrashes
        BY <3>3, LimitsAssumption DEF Crash, TypeInv, TypeOK
      <4>2. ms.uid \in Nat /\ queue' \in BOOLEAN
        BY <3>3 DEF Crash, TypeInv, TypeOK, Service
      <4> QED BY <3>3, <4>1, <4>2, EmptyTypes DEF Crash, TypeInv, TypeOK, api, Steps
    <3>4. CASE UNCHANGED vars
      BY <3>4 DEF TypeInv, TypeOK, vars, api, caches, local, others, counters
    <3> QED BY <3>1, <3>2, <3>3, <3>4 DEF Next
  <2>2. pc' = "observePrefill" => snap'.spec.prefill
    <3> SUFFICES ASSUME pc' = "observePrefill"
                 PROVE  snap'.spec.prefill
      OBVIOUS
    <3>1. CASE UNCHANGED <<pc, snap>>
      BY <3>1 DEF TypeInv
    <3>2. CASE Deliver \/ Environment
      BY <3>1, <3>2 DEF Deliver, SyncService, SyncChild, Environment, Resync, UserCreate,
         UserEdit, UserDelete, Drift, PodsChange, Collect, local
    <3>3. ASSUME NEW k \in Tracked, Advance(k) \/ Abort
          PROVE  FALSE
      BY <3>3 DEF Advance, Abort, Return, local, TypeInv
    <3>4. ASSUME NEW k \in Tracked, GetChild(k)
          PROVE  FALSE
      BY <3>3, <3>4 DEF GetChild, AfterGet
    <3>5. ASSUME NEW k \in Tracked, UpdateNotFound(k) \/ WriteConflict(k)
          PROVE  FALSE
      BY <3>3, <3>5 DEF UpdateNotFound, WriteConflict
    <3>6. ASSUME NEW k \in Tracked, NEW r \in Answers,
                 CreateChild(k, r) \/ UpdateChild(k, r) \/ DeleteChild(k, r)
          PROVE  FALSE
      BY <3>3, <3>6 DEF CreateChild, UpdateChild, DeleteChild
    <3>7. CASE ObserveDecode
      BY <3>7 DEF ObserveDecode
    <3>8. CASE Crash \/ FinalizerConflict \/ StatusUnchanged \/ PatchStatusNotFound
               \/ ObservePrefill \/ FetchService
      BY <3>8 DEF Crash, FinalizerConflict, StatusUnchanged, PatchStatusNotFound,
         ObservePrefill, FetchService, AfterFetch, Return, TypeInv
    <3>9. ASSUME NEW r \in Answers,
                 AddFinalizer(r) \/ RemoveFinalizer(r) \/ ReconcileFailed(r) \/ PatchStatus(r)
          PROVE  FALSE
      BY <3>9 DEF AddFinalizer, RemoveFinalizer, ReconcileFailed, PatchStatus, Return
    <3>10. CASE UNCHANGED vars
      BY <3>1, <3>10 DEF vars, local
    <3> QED BY <3>2, <3>3, <3>4, <3>5, <3>6, <3>7, <3>8, <3>9, <3>10 DEF Next, Reconcile
  <2> QED BY <2>1, <2>2 DEF TypeInv
<1> QED BY <1>1, <1>2, PTL DEF Spec, TypeInv

(***************************************************************************)
(* No cluster-scoped child without the finalizer.  By itself this is not   *)
(* inductive: the run that creates a child decided to with an old copy of  *)
(* the service, and the run that drops the finalizer looked at each child  *)
(* in an earlier step.  It takes three facts more:                         *)
(*   - a copy, in the cache or in Reconcile's hands, that has the          *)
(*     finalizer and is not being deleted tells the truth about both: only *)
(*     the worker drops a finalizer, for a copy that is being deleted;     *)
(*   - a run past the finalizer holds a copy that has it, and creates or   *)
(*     updates only when that copy is not being deleted;                   *)
(*   - in a run that cleans up, the children it has been through are gone  *)
(*     and stay so, for the one worker of the key is the one that creates. *)
(***************************************************************************)
Held(s) == s.gen # 0 /\ s.fin

Faithful(c) ==
  /\ c.uid =< ms.uid
  /\ Held(c) /\ ~c.del => Held(ms) /\ ms.uid = c.uid
  /\ c.gen # 0 /\ c.del /\ ms.gen # 0 /\ ms.uid = c.uid => ms.del

RunHolds ==
  /\ pc = "addFinalizer" => snap.gen # 0 /\ ~snap.del
  /\ pc \in {"create", "update"} => ~snap.del
  /\ pc \notin {"idle", "addFinalizer"} => Held(snap)
  /\ pc = "removeFinalizer" => snap.del /\ todo = {}

CleaningUp ==
  snap.gen # 0 /\ snap.del =>
    /\ \A k \in CleanedUp \ todo : ~kids[k].exists
    /\ cMs.gen # 0 /\ cMs.uid = snap.uid => cMs.del

RBACInv == ClusterRBACHeld /\ Faithful(cMs) /\ Faithful(snap) /\ RunHolds /\ CleaningUp

\* Steps that leave the service, its copies and Reconcile alone and bring no
\* child into being.
LEMMA HeldNoNewChild ==
  ASSUME TypeOK, RBACInv, UNCHANGED <<ms, cMs, pc, snap, todo>>,
         \A k \in CleanedUp : kids'[k].exists => kids[k].exists
  PROVE  RBACInv'
BY DEF RBACInv, ClusterRBACHeld, Faithful, RunHolds, CleaningUp, CleanedUp, Held

\* The end of a run of Reconcile, which may have patched the status.
LEMMA HeldReturn ==
  ASSUME TypeOK, RBACInv, NEW again \in BOOLEAN, Return(again), cMs' = cMs,
         ms'.uid = ms.uid, ms'.gen = ms.gen, ms'.del = ms.del,
         ms.fin => ms'.fin,
         \A k \in CleanedUp : kids'[k].exists => kids[k].exists
  PROVE  RBACInv'
<1>1. pc' = "idle" /\ snap'.gen = 0 /\ snap'.uid = 0
  BY DEF Return, Absent, Fresh
<1>2. ms.uid \in Nat
  BY DEF TypeOK, Service
<1>3. ClusterRBACHeld'
  BY DEF RBACInv, ClusterRBACHeld, CleanedUp
<1>4. Faithful(cMs)'
  BY DEF RBACInv, Faithful, Held
<1>5. Faithful(snap)'
  BY <1>1, <1>2 DEF Faithful, Held
<1> QED BY <1>1, <1>3, <1>4, <1>5 DEF RBACInv, RunHolds, CleaningUp

\* Users, the Deployment controller, the collector and the informers.
LEMMA HeldCluster ==
  ASSUME TypeOK, RBACInv, Deliver \/ Environment
  PROVE  RBACInv'
<1> USE DEF api, caches, local, others, counters
<1>1. /\ ms.uid \in Nat /\ ms.gen \in Nat
      /\ kids \in [Tracked -> Child] /\ CleanedUp \subseteq Tracked
  BY DEF TypeOK, Service, CleanedUp
<1>2. CASE SyncService
  <2>1. cMs' = ms /\ UNCHANGED <<ms, kids, pc, snap, todo>>
    BY <1>2 DEF SyncService
  <2>2. ClusterRBACHeld' /\ Faithful(snap)' /\ RunHolds'
    BY <2>1 DEF RBACInv, ClusterRBACHeld, Faithful, RunHolds, Held
  <2>3. Faithful(cMs)'
    BY <1>1, <2>1 DEF Faithful, Held
  <2>4. CleaningUp'
    BY <2>1 DEF RBACInv, CleaningUp, Faithful, CleanedUp
  <2> QED BY <2>2, <2>3, <2>4 DEF RBACInv
<1>3. CASE UserCreate
  <2>1. /\ ms.gen = 0 /\ ms'.uid = ms.uid + 1 /\ ms'.gen = 1 /\ ~ms'.del /\ ~ms'.fin
        /\ UNCHANGED <<kids, cMs, pc, snap, todo>>
    BY <1>3 DEF UserCreate, Fresh
  <2>2. ClusterRBACHeld'
    BY <2>1 DEF RBACInv, ClusterRBACHeld
  <2>3. ~(Held(cMs) /\ ~cMs.del) /\ ~(Held(snap) /\ ~snap.del)
    BY <2>1 DEF RBACInv, Faithful, Held
  <2>4. cMs.uid \in Nat /\ snap.uid \in Nat /\ cMs.uid =< ms.uid /\ snap.uid =< ms.uid
    BY DEF RBACInv, Faithful, TypeOK, Service
  <2>5. Faithful(cMs)' /\ Faithful(snap)'
    BY <1>1, <2>1, <2>3, <2>4 DEF Faithful, Held
  <2>6. RunHolds' /\ CleaningUp'
    BY <2>1 DEF RBACInv, RunHolds, CleaningUp, Held, CleanedUp
  <2> QED BY <2>2, <2>5, <2>6 DEF RBACInv
<1>4. CASE UserEdit
  <2>1. /\ ms.gen # 0 /\ ms'.uid = ms.uid /\ ms'.gen = ms.gen + 1
        /\ ms'.del = ms.del /\ ms'.fin = ms.fin
        /\ UNCHANGED <<kids, cMs, pc, snap, todo>>
    BY <1>4 DEF UserEdit, Alive, TypeOK, Service
  <2>2. ms'.gen # 0
    BY <1>1, <2>1
  <2> QED BY <2>1, <2>2 DEF RBACInv, ClusterRBACHeld, Faithful, RunHolds, CleaningUp,
             CleanedUp, Held
<1>5. CASE UserDelete
  <2>1. ms.gen # 0 /\ UNCHANGED <<kids, cMs, pc, snap, todo>>
    BY <1>5 DEF UserDelete, Alive
  <2>2. CASE ms.fin
    <3>1. ms'.uid = ms.uid /\ ms'.gen = ms.gen + 1 /\ ms'.del /\ ms'.fin
      BY <1>5, <2>2 DEF UserDelete, TypeOK, Service
    <3>2. ms'.gen # 0
      BY <1>1, <3>1
    <3> QED BY <2>1, <2>2, <3>1, <3>2 DEF RBACInv, ClusterRBACHeld, Faithful, RunHolds,
               CleaningUp, CleanedUp, Held
  <2>3. CASE ~ms.fin
    <3>1. ms'.uid = ms.uid /\ ms'.gen = 0
      BY <1>5, <2>3 DEF UserDelete, Absent, Fresh
    <3> QED BY <2>1, <2>3, <3>1 DEF RBACInv, ClusterRBACHeld, Faithful, RunHolds,
               CleaningUp, CleanedUp, Held
  <2> QED BY <2>2, <2>3
<1>6. ASSUME NEW k \in Tracked, SyncChild(k)
      PROVE  RBACInv'
  BY <1>6, HeldNoNewChild DEF SyncChild
<1>7. CASE Resync
  BY <1>7, HeldNoNewChild DEF Resync
<1>8. ASSUME NEW k \in Tracked, Drift(k) \/ PodsChange(k) \/ Collect(k)
      PROVE  RBACInv'
  <2>1. \A c \in CleanedUp : kids'[c].exists => kids[c].exists
    BY <1>1, <1>8 DEF Drift, PodsChange, Collect, NoChild, Child
  <2>2. UNCHANGED <<ms, cMs, pc, snap, todo>>
    BY <1>8 DEF Drift, PodsChange, Collect
  <2> QED BY <2>1, <2>2, HeldNoNewChild
<1> QED BY <1>2, <1>3, <1>4, <1>5, <1>6, <1>7, <1>8 DEF Deliver, Environment

\* Advancing past a child that is gone, or failing.
LEMMA HeldAdvance ==
  ASSUME TypeOK, RBACInv, NEW k \in Tracked, pc \in {"get", "create", "update", "delete"},
         UNCHANGED <<ms, cMs>>,
         \A c \in CleanedUp : kids'[c].exists => kids[c].exists \/ ~snap.del,
         \/ Advance(k) /\ (snap.del /\ k \in CleanedUp => ~kids'[k].exists)
         \/ Abort
  PROVE  RBACInv'
<1>1. Held(snap)
  BY DEF RBACInv, RunHolds
<1>2. ~snap.del => Held(ms)
  BY <1>1 DEF RBACInv, Faithful
<1>3. ClusterRBACHeld'
  BY <1>2 DEF RBACInv, ClusterRBACHeld, CleanedUp, Held
<1>4. CASE Abort /\ snap.del
  BY <1>4, HeldReturn DEF Abort
<1>5. CASE Abort /\ ~snap.del
  <2>1. pc' = "fail" /\ snap' = snap
    BY <1>5 DEF Abort, local
  <2> QED BY <1>1, <1>3, <1>5, <2>1 DEF RBACInv, Faithful, RunHolds, CleaningUp, Held
<1>6. CASE Advance(k)
  <2>1. snap' = snap /\ todo' = todo \ {k}
    BY <1>6 DEF Advance
  <2>2. pc' \notin {"create", "update", "addFinalizer"} /\ (pc' = "removeFinalizer" => snap.del /\ todo' = {})
    BY <1>6 DEF Advance
  <2>3. snap.del /\ k \in CleanedUp => ~kids'[k].exists
    BY <1>6 DEF Abort, Advance, Return
  <2>4. Faithful(cMs)' /\ Faithful(snap)' /\ RunHolds'
    BY <1>1, <2>1, <2>2 DEF RBACInv, Faithful, RunHolds, Held
  <2>5. CleaningUp'
    BY <2>1, <2>3 DEF RBACInv, CleaningUp, CleanedUp
  <2> QED BY <1>3, <2>4, <2>5 DEF RBACInv
<1> QED BY <1>4, <1>5, <1>6

\* The calls that read and write the children; those to be cleaned up are read
\* from an up-to-date cache.
LEMMA HeldChild ==
  ASSUME TypeOK, RBACInv, UpToDate, CleanedUp \cap Lagging = {},
         NEW k \in Tracked, NEW r \in Answers,
         \/ GetChild(k) \/ UpdateNotFound(k) \/ WriteConflict(k)
         \/ CreateChild(k, r) \/ UpdateChild(k, r) \/ DeleteChild(k, r)
  PROVE  RBACInv'
<1> USE DEF api, caches
<1>1. kids \in [Tracked -> Child] /\ CleanedUp \subseteq Tracked
  BY DEF TypeOK, CleanedUp
<1>2. CASE GetChild(k)
  <2>1. CASE Abort
    BY <1>2, <2>1, HeldAdvance DEF GetChild
  <2>2. CASE Advance(k) /\ "next" \in AfterGet(k, cKids[k])
    <3>1. snap.del => ~cKids[k].exists
      BY <2>2 DEF AfterGet, Wants
    <3>2. k \in CleanedUp => cKids[k] = kids[k]
      BY DEF UpToDate
    <3> QED BY <1>2, <2>2, <3>1, <3>2, HeldAdvance DEF GetChild
  <2>3. ASSUME NEW step \in AfterGet(k, cKids[k]), step # "next", pc' = step,
               UNCHANGED <<snap, todo>>
        PROVE  RBACInv'
    <3>1. step \in {"create", "update", "delete"}
      BY <2>3 DEF AfterGet
    <3>2. step \in {"create", "update"} => ~snap.del
      BY <2>3 DEF AfterGet, Wants
    <3>3. Held(snap) /\ UNCHANGED <<ms, kids, cMs>>
      BY <1>2 DEF GetChild, RBACInv, RunHolds
    <3> QED BY <2>3, <3>1, <3>2, <3>3 DEF RBACInv, ClusterRBACHeld, Faithful, RunHolds,
               CleaningUp, CleanedUp, Held
  <2> QED BY <1>2, <2>1, <2>2, <2>3 DEF GetChild
<1>3. CASE UpdateNotFound(k)
  <2>1. CASE Abort
    BY <1>3, <2>1, HeldAdvance DEF UpdateNotFound
  <2>2. CASE pc' = "create" /\ UNCHANGED <<queue, local>>
    BY <1>3, <2>2 DEF UpdateNotFound, local, RBACInv, ClusterRBACHeld, Faithful, RunHolds,
       CleaningUp, CleanedUp, Held
  <2> QED BY <1>3, <2>1, <2>2 DEF UpdateNotFound
<1>4. CASE WriteConflict(k)
  BY <1>4, HeldAdvance DEF WriteConflict
<1>5. CASE CreateChild(k, r)
  <2>1. ~snap.del
    BY <1>5 DEF CreateChild, RBACInv, RunHolds
  <2> QED BY <1>5, <2>1, HeldAdvance DEF CreateChild
<1>6. CASE UpdateChild(k, r)
  <2>1. ~snap.del
    BY <1>6 DEF UpdateChild, RBACInv, RunHolds
  <2> QED BY <1>6, <2>1, HeldAdvance DEF UpdateChild
<1>7. CASE DeleteChild(k, r)
  <2>1. \A c \in CleanedUp : kids'[c].exists => kids[c].exists
    BY <1>1, <1>7 DEF DeleteChild, NoChild
  <2>2. CASE r = "ok"
    <3>1. Advance(k) /\ ~kids'[k].exists
      BY <1>1, <1>7, <2>2 DEF DeleteChild, Applied, NoChild
    <3> QED BY <1>7, <2>1, <3>1, HeldAdvance DEF DeleteChild
  <2>3. CASE k = "legacyPool"
    <3>1. Advance(k) /\ k \notin CleanedUp
      BY <1>7, <2>3 DEF DeleteChild, CleanedUp, ClusterKinds
    <3> QED BY <1>7, <2>1, <3>1, HeldAdvance DEF DeleteChild
  <2>4. CASE r # "ok" /\ k # "legacyPool"
    BY <1>7, <2>1, <2>4, HeldAdvance DEF DeleteChild
  <2> QED BY <2>2, <2>3, <2>4
<1> QED BY <1>2, <1>3, <1>4, <1>5, <1>6, <1>7

\* The calls that read and write the service itself: the finalizer is added to
\* what was read, and dropped from what was read, or not at all.
LEMMA HeldService ==
  ASSUME TypeOK, RBACInv, NEW r \in Answers,
         \/ FetchService \/ FinalizerConflict \/ ObserveDecode \/ ObservePrefill
         \/ StatusUnchanged \/ PatchStatusNotFound
         \/ AddFinalizer(r) \/ RemoveFinalizer(r) \/ ReconcileFailed(r) \/ PatchStatus(r)
  PROVE  RBACInv'
<1> USE DEF api, caches
<1>1. CASE FetchService
  <2>1. UNCHANGED <<ms, kids, cMs>>
    BY <1>1 DEF FetchService
  <2>2. CASE UNCHANGED <<pc, snap, todo>>
    BY <1>1, <2>1, <2>2, HeldNoNewChild
  <2>3. CASE /\ cMs.gen # 0 /\ AfterFetch(cMs) # "idle" /\ snap' = cMs
             /\ todo' = (IF cMs.del THEN CleanedUp ELSE Tracked) /\ pc' = AfterFetch(cMs)
    <3>1. pc' \in {"removeFinalizer", "get", "addFinalizer"}
      BY <2>3 DEF AfterFetch
    <3>2. IF pc' = "addFinalizer" THEN ~cMs.del ELSE Held(cMs)
      BY <2>3, <3>1 DEF AfterFetch, Held
    <3>3. pc' = "removeFinalizer" => cMs.del /\ todo' = {}
      BY <2>3 DEF AfterFetch
    <3>4. RunHolds'
      BY <2>3, <3>1, <3>2, <3>3 DEF RunHolds, Held
    <3>5. CleaningUp'
      BY <2>1, <2>3 DEF CleaningUp, CleanedUp
    <3> QED BY <2>1, <2>3, <3>4, <3>5 DEF RBACInv, ClusterRBACHeld, Faithful, Held
  <2> QED BY <1>1, <2>2, <2>3 DEF FetchService
<1>2. CASE FinalizerConflict \/ StatusUnchanged \/ PatchStatusNotFound
  <2>1. PICK again \in BOOLEAN : Return(again)
    BY <1>2 DEF FinalizerConflict, StatusUnchanged, PatchStatusNotFound
  <2> QED BY <1>2, <2>1, HeldReturn DEF FinalizerConflict, StatusUnchanged, PatchStatusNotFound
<1>3. CASE ObserveDecode \/ ObservePrefill
  <2>1. pc' \in {"observePrefill", "patch"} /\ UNCHANGED <<ms, kids, cMs, snap, todo>>
    BY <1>3 DEF ObserveDecode, ObservePrefill
  <2>2. Held(snap)
    BY <1>3 DEF ObserveDecode, ObservePrefill, RBACInv, RunHolds
  <2> QED BY <2>1, <2>2 DEF RBACInv, ClusterRBACHeld, Faithful, RunHolds, CleaningUp,
             CleanedUp, Held
<1>4. CASE AddFinalizer(r)
  <2>1. UNCHANGED <<kids, cMs>> /\ snap = ms /\ pc = "addFinalizer"
    BY <1>4 DEF AddFinalizer
  <2>2. /\ ms'.uid = ms.uid /\ ms'.gen = ms.gen /\ ms'.del = ms.del
        /\ ms.fin => ms'.fin
    BY <1>4 DEF AddFinalizer, TypeOK, Service
  <2>3. CASE r # "ok"
    BY <1>4, <2>1, <2>2, <2>3, HeldReturn DEF AddFinalizer
  <2>4. CASE r = "ok"
    <3>1. snap' = ms' /\ ms'.fin /\ pc' = "get" /\ todo' = todo
      BY <1>4, <2>4 DEF AddFinalizer, Applied, TypeOK, Service
    <3>2. snap.gen # 0 /\ ~snap.del
      BY <2>1 DEF RBACInv, RunHolds
    <3> QED BY <2>1, <2>2, <3>1, <3>2 DEF RBACInv, ClusterRBACHeld, Faithful, RunHolds,
               CleaningUp, CleanedUp, Held
  <2> QED BY <2>3, <2>4
<1>5. CASE RemoveFinalizer(r)
  <2>1. UNCHANGED <<kids, cMs>> /\ snap = ms /\ pc = "removeFinalizer" /\ Return(r # "ok")
    BY <1>5 DEF RemoveFinalizer
  <2>2. CASE ms' = ms
    <3>1. (r # "ok") \in BOOLEAN
      OBVIOUS
    <3> QED BY <2>1, <2>2, <3>1, HeldReturn
  <2>3. CASE ms' = Absent(ms.uid)
    <3>1. snap.del /\ Held(snap) /\ todo = {}
      BY <2>1 DEF RBACInv, RunHolds
    <3>2. \A k \in CleanedUp : ~kids[k].exists
      BY <3>1 DEF RBACInv, CleaningUp, Held
    <3>3. ~(Held(cMs) /\ ~cMs.del)
      BY <2>1, <3>1 DEF RBACInv, CleaningUp, Faithful, Held
    <3>4. /\ ms'.uid = ms.uid /\ ms'.gen = 0 /\ pc' = "idle"
          /\ snap'.uid = 0 /\ snap'.gen = 0
      BY <2>1, <2>3 DEF Return, Absent, Fresh
    <3>5. ms.uid \in Nat
      BY DEF TypeOK, Service
    <3>6. ClusterRBACHeld'
      BY <2>1, <3>2 DEF ClusterRBACHeld, CleanedUp
    <3>7. Faithful(cMs)' /\ Faithful(snap)'
      BY <2>1, <3>3, <3>4, <3>5 DEF RBACInv, Faithful, Held
    <3> QED BY <3>4, <3>6, <3>7 DEF RBACInv, RunHolds, CleaningUp
  <2> QED BY <1>5, <2>2, <2>3 DEF RemoveFinalizer
<1>6. ASSUME NEW new \in Status, ms' = ms \/ PatchService(new), NEW again \in BOOLEAN,
             Return(again), UNCHANGED <<kids, caches>>
      PROVE  RBACInv'
  BY <1>6, PatchType, HeldReturn
<1>7. CASE ReconcileFailed(r)
  <2>1. NotReady(snap) \in Status
    BY NotReadyType DEF TypeOK
  <2> QED BY <1>6, <1>7, <2>1 DEF ReconcileFailed
<1>8. CASE PatchStatus(r)
  BY <1>6, <1>8, NewStatusType DEF PatchStatus
<1> QED BY <1>1, <1>2, <1>3, <1>4, <1>5, <1>7, <1>8

\* No cluster-scoped child exists without a service whose finalizer will have it
\* cleaned up, whatever fails, restarts, is recreated or is read from an old copy
\* of the service, if the copies of those children are up to date
\* (modelservice_controller.go:86-88).  With an old copy of one it is false, as
\* the run service_rbac_leak shows.
THEOREM ClusterRBACIsHeld ==
  ASSUME ClusterKinds \cap Tracked \cap Lagging = {}
  PROVE  Spec => []ClusterRBACHeld
<1>1. Init => RBACInv
  <2> SUFFICES ASSUME Init
               PROVE  RBACInv
    OBVIOUS
  <2>1. \A k \in CleanedUp : ~kids[k].exists
    <3>1. PICK left \in SUBSET (Tracked \cap {"legacyPool"}) :
            kids = [k \in Tracked |-> [NoChild EXCEPT !.exists = k \in left]]
      BY DEF Init
    <3> QED BY <3>1 DEF CleanedUp, ClusterKinds, NoChild
  <2>2. ms.uid = 0 /\ ms.gen = 0 /\ cMs = ms /\ snap = ms /\ pc = "idle"
    BY DEF Init, Absent, Fresh
  <2> QED BY <2>1, <2>2 DEF RBACInv, ClusterRBACHeld, CleanedUp, Faithful, RunHolds,
             CleaningUp, Held
<1>2. TypeOK /\ RBACInv /\ [Next]_vars => RBACInv'
  <2> SUFFICES ASSUME TypeOK, RBACInv, [Next]_vars
               PROVE  RBACInv'
    OBVIOUS
  <2>1. CASE Deliver \/ Environment
    BY <2>1, HeldCluster
  <2>2. CASE UpToDate /\ Reconcile
    <3>1. CleanedUp \cap Lagging = {}
      BY DEF CleanedUp
    <3>2. PICK ok \in Answers : TRUE
      BY DEF Answers
    <3>3. ASSUME NEW k \in Tracked,
                 \/ GetChild(k) \/ UpdateNotFound(k) \/ WriteConflict(k)
                 \/ \E r \in Answers : CreateChild(k, r) \/ UpdateChild(k, r) \/ DeleteChild(k, r)
          PROVE  RBACInv'
      BY <2>2, <3>1, <3>2, <3>3, HeldChild
    <3>4. ASSUME \/ FetchService \/ FinalizerConflict \/ ObserveDecode \/ ObservePrefill
                 \/ StatusUnchanged \/ PatchStatusNotFound
                 \/ \E r \in Answers : \/ AddFinalizer(r) \/ RemoveFinalizer(r)
                                      \/ ReconcileFailed(r) \/ PatchStatus(r)
          PROVE  RBACInv'
      BY <3>2, <3>4, HeldService
    <3> QED BY <2>2, <3>3, <3>4 DEF Reconcile
  <2>3. CASE Crash
    <3>1. /\ UNCHANGED <<ms, kids>> /\ cMs' = ms /\ pc' = "idle"
          /\ snap'.gen = 0 /\ snap'.uid = 0
      BY <2>3 DEF Crash, api, Absent, Fresh
    <3>2. ms.uid \in Nat
      BY DEF TypeOK, Service
    <3> QED BY <3>1, <3>2 DEF RBACInv, ClusterRBACHeld, Faithful, RunHolds, CleaningUp, Held
  <2>4. CASE UNCHANGED vars
    <3>1. UNCHANGED <<ms, cMs, pc, snap, todo, kids>>
      BY <2>4 DEF vars, api, caches, local
    <3> QED BY <3>1, HeldNoNewChild
  <2> QED BY <2>1, <2>2, <2>3, <2>4 DEF Next
<1>3. RBACInv => ClusterRBACHeld
  BY DEF RBACInv
<1> QED BY <1>1, <1>2, <1>3, TypeCorrect, PTL DEF Spec

(***************************************************************************)
(* What the Ready condition of a ModelService says about its children, for *)
(* every set of specs, every edit, failure and restart, as long as the     *)
(* copies of the children are up to date, nobody else touches them, the    *)
(* service is created once and the operator is not reconfigured.  Copies   *)
(* of the service itself may be old.                                       *)
(***************************************************************************)

(***************************************************************************)
(* The invariant ReadyMatches alone is not inductive: a run of Reconcile   *)
(* judges the children one by one, long before it writes the condition,    *)
(* and for the spec it has read, which may not be the current one.  So it  *)
(* takes: that a child the run is done with fits the spec it has read, and *)
(* stays so until the run ends; that a copy with the current generation    *)
(* has the current spec; that the condition is never of a later generation *)
(* than the copy in Reconcile's hands, so that a run which still changes   *)
(* children cannot be behind a condition that is already True for a later  *)
(* one; and what each step of a run may rely on.                           *)
(***************************************************************************)
Fits(child, k, spec, o) ==
  IF Needs(k, spec, o)
  THEN child.exists /\ child.from = Content(k, spec, o)
  ELSE ~child.exists

CreatedOnce == ms.uid =< 1 /\ (ms.uid = 0 => ms.gen = 0 /\ cMs.gen = 0 /\ snap.gen = 0)

Agrees(c) ==
  /\ c.gen # 0 => c.uid = 1
  /\ ms.gen # 0 => c.gen =< ms.gen
  /\ c.gen # 0 /\ c.gen = ms.gen => c.spec = ms.spec /\ c.del = ms.del

ConditionOrder ==
  ms.gen # 0 =>
    /\ snap.gen =< cMs.gen
    /\ ms.st.cond.gen =< cMs.gen
    /\ pc # "idle" => ms.st.cond.gen =< snap.gen

OwnersRight ==
  \A k \in Children : kids[k].exists => kids[k].uid = IF k \in ClusterKinds THEN 0 ELSE 1

RunKnows ==
  /\ pc # "idle" => snap.gen # 0
  /\ pc \in {"create", "update"} => \A k \in Tracked : Current(k) => Wants(k)
  /\ pc = "delete" => \A k \in Tracked : Current(k) => ~Wants(k)
  /\ pc \in {"addFinalizer", "fail", "observeDecode", "observePrefill", "patch"} => ~snap.del
  /\ pc \in {"observeDecode", "observePrefill", "patch"} => todo = {}
  /\ pc = "removeFinalizer" => snap.del
  /\ pc = "addFinalizer" => todo = Tracked

Ensured ==
  pc \notin {"idle", "fail"} /\ ~snap.del /\ ms.gen # 0
    => \A k \in Children \ todo : Fits(kids[k], k, snap.spec, op)

ReadyInv == /\ ReadyMatches /\ CreatedOnce /\ Agrees(cMs) /\ Agrees(snap)
            /\ ConditionOrder /\ OwnersRight /\ RunKnows /\ Ensured

\* The assumptions under which it holds.
Undisturbed == /\ MaxUid =< 1 /\ MaxDrift = 0 /\ Kinds \cap Lagging = {}
               /\ \A a, b \in Operators : a = b

\* The plan gives every kind a place of its own.
LEMMA RankInjective ==
  \A k, l \in Kinds : Rank(k) =< Rank(l) /\ Rank(l) =< Rank(k) => k = l
<1>1. DOMAIN Plan \subseteq Nat
  BY DEF Plan
<1>2. \A k \in Kinds : Rank(k) \in DOMAIN Plan /\ Plan[Rank(k)] = k
  BY DEF Kinds, Rank
<1>3. ASSUME NEW k \in Kinds, NEW l \in Kinds, Rank(k) =< Rank(l), Rank(l) =< Rank(k)
      PROVE  k = l
  <2>1. Rank(k) \in Nat /\ Rank(l) \in Nat
    BY <1>1, <1>2
  <2>2. Rank(k) = Rank(l)
    BY <1>3, <2>1
  <2> QED BY <1>2, <2>2
<1> QED BY <1>3

\* reconcileResources works on one child at a time.
LEMMA OneCurrent ==
  ASSUME TypeOK, NEW k \in Tracked, NEW l \in Tracked, Current(k), Current(l)
  PROVE  k = l
<1>1. Tracked \subseteq Kinds
  BY KindsAssumption
<1> QED BY <1>1, RankInjective DEF Current

\* A condition that is True for the current generation while a run is going on:
\* the run has read that generation.
LEMMA RunIsCurrent ==
  ASSUME TypeOK, ReadyInv, pc # "idle", Alive, ms.st.cond.gen = ms.gen
  PROVE  snap.gen = ms.gen /\ snap.spec = ms.spec /\ ~snap.del
<1>1. ms.gen \in Nat /\ snap.gen \in Nat
  BY DEF TypeOK, Service
<1>2. ms.gen =< snap.gen /\ snap.gen =< ms.gen /\ ms.gen # 0
  BY DEF ReadyInv, ConditionOrder, Agrees, Alive
<1>3. snap.gen = ms.gen
  BY <1>1, <1>2
<1> QED BY <1>2, <1>3 DEF ReadyInv, Agrees, Alive

\* Steps that leave the service, its copies and Reconcile alone and change no
\* child but in what it counts.
LEMMA ReadyUntouched ==
  ASSUME TypeOK, ReadyInv, UNCHANGED <<ms, cMs, pc, snap, todo, op>>,
         \A k \in Children : /\ kids'[k].exists = kids[k].exists
                             /\ kids'[k].from = kids[k].from
                             /\ kids'[k].uid = kids[k].uid
  PROVE  ReadyInv'
<1>1. ReadyMatches'
  BY DEF ReadyInv, ReadyMatches, Alive, Matches
<1>2. OwnersRight' /\ Ensured'
  BY DEF ReadyInv, OwnersRight, Ensured, Fits
<1>3. RunKnows'
  BY DEF ReadyInv, RunKnows, Current, Wants
<1> QED BY <1>1, <1>2, <1>3 DEF ReadyInv, CreatedOnce, Agrees, ConditionOrder

\* The end of a run of Reconcile that writes nothing more.
LEMMA ReadyReturn ==
  ASSUME TypeOK, ReadyInv, NEW again \in BOOLEAN, Return(again),
         UNCHANGED <<ms, cMs, kids, op>>
  PROVE  ReadyInv'
<1>1. pc' = "idle" /\ snap'.gen = 0
  BY DEF Return, Absent, Fresh
<1>2. cMs.gen \in Nat /\ ms.gen \in Nat
  BY DEF TypeOK, Service
<1>3. ReadyMatches'
  BY DEF ReadyInv, ReadyMatches, Alive, Matches
<1>4. Agrees(snap)' /\ ConditionOrder'
  BY <1>1, <1>2 DEF ReadyInv, Agrees, ConditionOrder
<1>5. RunKnows' /\ Ensured'
  BY <1>1 DEF RunKnows, Ensured
<1> QED BY <1>1, <1>3, <1>4, <1>5 DEF ReadyInv, CreatedOnce, Agrees, OwnersRight

\* Users, the informers, Pods and the collector.
LEMMA ReadyCluster ==
  ASSUME TypeOK, ReadyInv, Undisturbed, UpToDate \/ Deliver, Deliver \/ Environment
  PROVE  ReadyInv'
<1> USE DEF api, caches, local, others, counters
<1>1. /\ ms.uid \in Nat /\ ms.gen \in Nat /\ ms.st.cond.gen \in Nat
      /\ cMs.gen \in Nat /\ snap.gen \in Nat
      /\ kids \in [Tracked -> Child] /\ Children \subseteq Tracked
  BY DEF TypeOK, Service, Status, Condition, Children
<1>2. CASE SyncService
  <2>1. cMs' = ms /\ UNCHANGED <<ms, kids, pc, snap, todo, op>>
    BY <1>2 DEF SyncService
  <2>2. ReadyMatches' /\ OwnersRight' /\ Ensured'
    BY <2>1 DEF ReadyInv, ReadyMatches, Alive, Matches, OwnersRight, Ensured
  <2>3. RunKnows'
    BY <2>1 DEF ReadyInv, RunKnows, Current, Wants
  <2>4. CreatedOnce' /\ Agrees(cMs)' /\ Agrees(snap)'
    BY <1>1, <2>1 DEF ReadyInv, CreatedOnce, Agrees
  <2>5. ConditionOrder'
    BY <1>1, <2>1 DEF ReadyInv, Agrees, ConditionOrder
  <2> QED BY <2>2, <2>3, <2>4, <2>5 DEF ReadyInv
<1>3. CASE UserCreate
  <2>1. ms.uid = 0
    <3>1. ms.uid < MaxUid /\ MaxUid =< 1 /\ MaxUid \in Nat
      BY <1>3, LimitsAssumption DEF UserCreate, Undisturbed
    <3> QED BY <1>1, <3>1
  <2>2. cMs.gen = 0 /\ snap.gen = 0 /\ pc = "idle"
    BY <2>1 DEF ReadyInv, CreatedOnce, RunKnows
  <2>3. PICK s \in Specs : ms' = Fresh(ms.uid + 1, 1, s)
    BY <1>3 DEF UserCreate
  <2>4. ms'.uid = 1 /\ ms'.gen = 1 /\ ms'.st = NoStatus
    BY <2>1, <2>3 DEF Fresh
  <2>5. NoStatus.cond.status # "True" /\ NoStatus.cond.gen = 0
    BY DEF NoStatus
  <2>6. UNCHANGED <<kids, cMs, pc, snap, todo, op>>
    BY <1>3 DEF UserCreate
  <2>7. ReadyMatches'
    BY <2>4, <2>5 DEF ReadyMatches
  <2>8. ConditionOrder'
    BY <2>2, <2>4, <2>5, <2>6 DEF ConditionOrder
  <2>9. CreatedOnce' /\ Agrees(cMs)' /\ Agrees(snap)'
    BY <2>2, <2>4, <2>6 DEF CreatedOnce, Agrees
  <2>10. RunKnows' /\ Ensured' /\ OwnersRight'
    BY <2>2, <2>6 DEF ReadyInv, RunKnows, Ensured, OwnersRight
  <2> QED BY <2>7, <2>8, <2>9, <2>10 DEF ReadyInv
<1>4. CASE UserEdit \/ (UserDelete /\ ms.fin)
  <2>1. /\ Alive /\ ms'.uid = ms.uid /\ ms'.gen = ms.gen + 1 /\ ms'.st = ms.st
        /\ UNCHANGED <<kids, cMs, pc, snap, todo, op>>
    BY <1>4 DEF UserEdit, UserDelete, TypeOK, Service
  <2>2. ms.st.cond.gen =< ms.gen /\ cMs.gen =< ms.gen /\ snap.gen =< ms.gen /\ ms.gen # 0
    BY <1>1, <2>1 DEF ReadyInv, ConditionOrder, Agrees, Alive
  <2>3. ReadyMatches'
    BY <1>1, <2>1, <2>2 DEF ReadyMatches
  <2>4. CreatedOnce' /\ Agrees(cMs)' /\ Agrees(snap)' /\ ConditionOrder'
    BY <1>1, <2>1, <2>2 DEF ReadyInv, CreatedOnce, Agrees, ConditionOrder
  <2>5. OwnersRight' /\ Ensured'
    BY <2>1, <2>2 DEF ReadyInv, OwnersRight, Ensured
  <2>6. RunKnows'
    BY <2>1 DEF ReadyInv, RunKnows, Current, Wants
  <2> QED BY <2>3, <2>4, <2>5, <2>6 DEF ReadyInv
<1>5. CASE UserDelete /\ ~ms.fin
  <2>1. /\ Alive /\ ms'.uid = ms.uid /\ ms'.gen = 0
        /\ UNCHANGED <<kids, cMs, pc, snap, todo, op>>
    BY <1>5 DEF UserDelete, Absent, Fresh
  <2>2. ReadyMatches' /\ Ensured' /\ ConditionOrder'
    BY <2>1 DEF ReadyMatches, Alive, Ensured, ConditionOrder
  <2>3. CreatedOnce' /\ Agrees(cMs)' /\ Agrees(snap)' /\ OwnersRight'
    BY <2>1 DEF ReadyInv, CreatedOnce, Agrees, OwnersRight, Alive
  <2>4. RunKnows'
    BY <2>1 DEF ReadyInv, RunKnows, Current, Wants
  <2> QED BY <2>2, <2>3, <2>4 DEF ReadyInv
<1>6. CASE Resync \/ \E k \in Tracked : SyncChild(k)
  BY <1>6, ReadyUntouched DEF Resync, SyncChild
<1>7. ASSUME NEW k \in Tracked, PodsChange(k)
      PROVE  ReadyInv'
  <2>1. PICK n \in 0 .. MaxReady : kids' = [kids EXCEPT ![k].ready = n]
    BY <1>7 DEF PodsChange
  <2>2. \A c \in Tracked : /\ kids'[c].exists = kids[c].exists
                           /\ kids'[c].from = kids[c].from
                           /\ kids'[c].uid = kids[c].uid
    BY <1>1, <2>1 DEF Child
  <2> QED BY <1>1, <1>7, <2>2, ReadyUntouched DEF PodsChange
<1>8. ASSUME NEW k \in Tracked, Drift(k)
      PROVE  FALSE
  BY <1>8 DEF Drift, Undisturbed, TypeOK
<1>9. ASSUME NEW k \in Tracked, Collect(k)
      PROVE  ReadyInv'
  <2>1. /\ UNCHANGED <<ms, cMs, pc, snap, todo, op>>
        /\ kids' = [kids EXCEPT ![k] = NoChild]
        /\ kids[k].exists /\ kids[k].uid # 0 /\ (ms.gen = 0 \/ ms.uid # kids[k].uid)
    BY <1>9 DEF Collect
  <2>2. CASE k \notin Children
    <3>1. \A c \in Children : kids'[c] = kids[c]
      BY <1>1, <2>1, <2>2
    <3> QED BY <2>1, <3>1, ReadyUntouched
  <2>3. CASE k \in Children /\ ms.gen # 0
    <3>1. kids[k].uid = 1 /\ ms.uid = 1
      BY <1>1, <2>1, <2>3 DEF ReadyInv, OwnersRight, CreatedOnce
    <3> QED BY <2>1, <2>3, <3>1
  <2>4. CASE ms.gen = 0
    <3>1. ReadyMatches' /\ Ensured'
      BY <2>1, <2>4 DEF ReadyMatches, Alive, Ensured
    <3>2. OwnersRight'
      BY <1>1, <2>1 DEF ReadyInv, OwnersRight, NoChild
    <3>3. RunKnows'
      BY <2>1 DEF ReadyInv, RunKnows, Current, Wants
    <3> QED BY <2>1, <3>1, <3>2, <3>3 DEF ReadyInv, CreatedOnce, Agrees, ConditionOrder
  <2> QED BY <2>2, <2>3, <2>4
<1> QED BY <1>2, <1>3, <1>4, <1>5, <1>6, <1>7, <1>8, <1>9 DEF Deliver, Environment

\* One child k has been written, or found right: the conditions under which a run
\* goes on, or gives up, and every fact stays true.
LEMMA ReadyAdvance ==
  ASSUME TypeOK, ReadyInv, NEW k \in Tracked, Current(k),
         pc \in {"get", "create", "update", "delete"},
         UNCHANGED <<ms, cMs, op>>,
         kids' \in [Tracked -> Child], \A c \in Tracked \ {k} : kids'[c] = kids[c],
         k \in Children /\ kids'[k].exists
           => kids'[k].uid = IF k \in ClusterKinds THEN 0 ELSE 1,
         k \in Children /\ ~snap.del
           => kids'[k] = kids[k] \/ Fits(kids'[k], k, snap.spec, op),
         \/ Advance(k) /\ (k \in Children /\ ~snap.del => Fits(kids'[k], k, snap.spec, op))
         \/ Abort
  PROVE  ReadyInv'
<1>1. ReadyMatches'
  <2> SUFFICES ASSUME Alive, ms.st.cond.status = "True", ms.st.cond.gen = ms.gen,
                      NEW c \in Children
               PROVE  Matches(c)'
    BY DEF ReadyMatches, Alive
  <2>1. snap.spec = ms.spec /\ ~snap.del
    BY RunIsCurrent
  <2>2. Matches(c)
    BY DEF ReadyInv, ReadyMatches
  <2>3. CASE kids'[c] = kids[c]
    BY <2>2, <2>3 DEF Matches
  <2>4. CASE c = k /\ Fits(kids'[k], k, snap.spec, op)
    <3>1. ms.gen # 0 => ms.uid = 1
      BY DEF ReadyInv, CreatedOnce, TypeOK, Service
    <3> QED BY <2>1, <2>4, <3>1 DEF Fits, Matches, Alive
  <2> QED BY <2>1, <2>3, <2>4 DEF Children
<1>2. OwnersRight'
  BY DEF ReadyInv, OwnersRight, Children
<1>3. CASE Abort /\ snap.del
  <2>1. pc' = "idle" /\ snap'.gen = 0
    BY <1>3 DEF Abort, Return, Absent, Fresh
  <2>2. cMs.gen \in Nat /\ ms.gen \in Nat
    BY DEF TypeOK, Service
  <2>3. Agrees(snap)' /\ ConditionOrder'
    BY <2>1, <2>2 DEF ReadyInv, Agrees, ConditionOrder
  <2>4. RunKnows' /\ Ensured'
    BY <2>1 DEF RunKnows, Ensured
  <2> QED BY <1>1, <1>2, <2>1, <2>3, <2>4 DEF ReadyInv, CreatedOnce, Agrees
<1>4. CASE Abort /\ ~snap.del
  <2>1. pc' = "fail" /\ snap' = snap /\ todo' = todo
    BY <1>4 DEF Abort, local
  <2>2. RunKnows' /\ Ensured'
    BY <1>4, <2>1 DEF ReadyInv, RunKnows, Ensured
  <2> QED BY <1>1, <1>2, <2>1, <2>2 DEF ReadyInv, CreatedOnce, Agrees, ConditionOrder
<1>5. CASE Advance(k)
  <2>1. /\ snap' = snap /\ todo' = todo \ {k}
        /\ pc' = IF todo # {k} THEN "get"
                 ELSE IF snap.del THEN "removeFinalizer" ELSE "observeDecode"
    BY <1>5 DEF Advance
  <2>2. RunKnows'
    BY <2>1 DEF ReadyInv, RunKnows
  <2>3. k \in Children /\ ~snap.del => Fits(kids'[k], k, snap.spec, op)
    BY <1>5, <2>1 DEF Abort, Return, local
  <2>4. Ensured'
    <3> SUFFICES ASSUME ~snap.del, ms.gen # 0, NEW c \in Children \ todo'
                 PROVE  Fits(kids'[c], c, snap.spec, op)
      BY <2>1 DEF Ensured
    <3>1. CASE c = k
      BY <2>3, <3>1
    <3>2. CASE c # k
      <4>1. c \in Children \ todo
        BY <2>1, <3>2
      <4> QED BY <3>2, <4>1 DEF ReadyInv, Ensured, Children
    <3> QED BY <3>1, <3>2
  <2> QED BY <1>1, <1>2, <2>1, <2>2, <2>4 DEF ReadyInv, CreatedOnce, Agrees, ConditionOrder
<1> QED BY <1>3, <1>4, <1>5

\* The calls that read and write the children, read from up-to-date copies.
LEMMA ReadyChild ==
  ASSUME TypeOK, ReadyInv, UpToDate, Undisturbed, NEW k \in Tracked, NEW r \in Answers,
         \/ GetChild(k) \/ UpdateNotFound(k) \/ WriteConflict(k)
         \/ CreateChild(k, r) \/ UpdateChild(k, r) \/ DeleteChild(k, r)
  PROVE  ReadyInv'
<1> USE DEF api, caches
<1>1. /\ kids \in [Tracked -> Child] /\ Current(k) /\ op' = op
      /\ \A c \in Tracked : Current(c) => c = k
  <2>1. Current(k) /\ op' = op
    BY DEF GetChild, UpdateNotFound, WriteConflict, CreateChild, UpdateChild, DeleteChild,
           Answer, others
  <2> QED BY <2>1, OneCurrent DEF TypeOK
<1>2. k \in Children /\ kids[k].exists => kids[k].uid = IF k \in ClusterKinds THEN 0 ELSE 1
  BY DEF ReadyInv, OwnersRight
<1>3. ASSUME UNCHANGED <<ms, kids, cMs>>, pc \in {"get", "create", "update", "delete"}, Abort
      PROVE  ReadyInv'
  BY <1>1, <1>2, <1>3, ReadyAdvance
<1>4. CASE GetChild(k)
  <2>1. cKids[k] = kids[k] /\ pc = "get" /\ UNCHANGED <<ms, kids, cMs>>
    BY <1>4, KindsAssumption DEF GetChild, UpToDate, Undisturbed
  <2>2. CASE Abort
    BY <1>3, <2>1, <2>2
  <2>3. CASE Advance(k) /\ "next" \in AfterGet(k, cKids[k])
    <3>1. ~snap.del => Fits(kids[k], k, snap.spec, op)
      BY <2>1, <2>3 DEF AfterGet, Wants, NeedsUpdate, Fits
    <3> QED BY <1>1, <1>2, <2>1, <2>3, <3>1, ReadyAdvance
  <2>4. ASSUME NEW step \in AfterGet(k, cKids[k]), step # "next", pc' = step,
               UNCHANGED <<snap, todo>>
        PROVE  ReadyInv'
    <3>1. /\ step \in {"create", "update", "delete"}
          /\ IF step = "delete" THEN ~Wants(k) ELSE Wants(k)
      BY <2>4 DEF AfterGet
    <3>2. RunKnows'
      BY <1>1, <2>1, <2>4, <3>1 DEF ReadyInv, RunKnows, Current, Wants
    <3>3. ReadyMatches' /\ OwnersRight' /\ Ensured'
      BY <1>1, <2>1, <2>4, <3>1 DEF ReadyInv, ReadyMatches, Alive, Matches, OwnersRight, Ensured
    <3> QED BY <2>1, <2>4, <3>1, <3>2, <3>3 DEF ReadyInv, CreatedOnce, Agrees, ConditionOrder
  <2> QED BY <1>4, <2>2, <2>3, <2>4 DEF GetChild
<1>5. CASE UpdateNotFound(k)
  <2>1. pc = "update" /\ UNCHANGED <<ms, kids, cMs>>
    BY <1>5 DEF UpdateNotFound
  <2>2. CASE Abort
    BY <1>3, <2>1, <2>2
  <2>3. CASE pc' = "create" /\ UNCHANGED local
    <3>1. snap' = snap /\ todo' = todo
      BY <2>3 DEF local
    <3>2. RunKnows'
      BY <1>1, <2>1, <2>3, <3>1 DEF ReadyInv, RunKnows, Current, Wants
    <3>3. ReadyMatches' /\ OwnersRight' /\ Ensured'
      BY <1>1, <2>1, <2>3, <3>1 DEF ReadyInv, ReadyMatches, Alive, Matches, OwnersRight, Ensured
    <3> QED BY <2>1, <2>3, <3>1, <3>2, <3>3 DEF ReadyInv, CreatedOnce, Agrees, ConditionOrder
  <2> QED BY <1>5, <2>2, <2>3 DEF UpdateNotFound
<1>6. CASE WriteConflict(k)
  BY <1>3, <1>6 DEF WriteConflict
<1>7. CASE CreateChild(k, r)
  <2>1. Wants(k) /\ pc = "create" /\ UNCHANGED <<ms, cMs>>
    BY <1>1, <1>7 DEF CreateChild, ReadyInv, RunKnows
  <2>2. snap.uid = 1
    BY <2>1 DEF ReadyInv, RunKnows, Agrees
  <2>3. BuildChild(k) \in Child
    BY BuildChildType
  <2>4. /\ Fits(BuildChild(k), k, snap.spec, op)
        /\ BuildChild(k).uid = IF k \in ClusterKinds THEN 0 ELSE 1
    BY <2>1, <2>2 DEF BuildChild, Fits, Wants
  <2>5. CASE ~Applied(r)
    BY <1>3, <1>7, <2>1, <2>5 DEF CreateChild, Applied
  <2>6. CASE Applied(r)
    <3>1. kids' = [kids EXCEPT ![k] = BuildChild(k)] /\ (Advance(k) \/ Abort)
      BY <1>7, <2>6 DEF CreateChild
    <3>2. /\ kids' \in [Tracked -> Child] /\ kids'[k] = BuildChild(k)
          /\ \A c \in Tracked \ {k} : kids'[c] = kids[c]
      BY <1>1, <2>3, <3>1
    <3> QED BY <1>1, <2>1, <2>4, <3>1, <3>2, ReadyAdvance
  <2> QED BY <2>5, <2>6
<1>8. CASE UpdateChild(k, r)
  <2>1. Wants(k) /\ pc = "update" /\ kids[k].exists /\ UNCHANGED <<ms, cMs>>
    BY <1>1, <1>8 DEF UpdateChild, ReadyInv, RunKnows
  <2>2. CASE ~Applied(r)
    BY <1>3, <1>8, <2>1, <2>2 DEF UpdateChild, Applied
  <2>3. CASE Applied(r)
    <3> DEFINE new == [kids[k] EXCEPT !.from = Content(k, snap.spec, op)]
    <3>1. /\ new \in Child /\ new.exists /\ new.uid = kids[k].uid
          /\ new.from = Content(k, snap.spec, op)
      BY <2>1, ContentType, SpecsAssumption, OperatorsAssumption DEF TypeOK, Service, Child
    <3>2. Fits(new, k, snap.spec, op)
      BY <2>1, <3>1 DEF Fits, Wants
    <3>3. kids' = [kids EXCEPT ![k] = new] /\ (Advance(k) \/ Abort)
      BY <1>8, <2>3 DEF UpdateChild
    <3> HIDE DEF new
    <3>4. /\ kids' \in [Tracked -> Child] /\ kids'[k] = new
          /\ \A c \in Tracked \ {k} : kids'[c] = kids[c]
      BY <1>1, <3>1, <3>3
    <3> QED BY <1>1, <1>2, <2>1, <3>1, <3>2, <3>3, <3>4, ReadyAdvance
  <2> QED BY <2>2, <2>3
<1>9. CASE DeleteChild(k, r)
  <2>1. ~Wants(k) /\ pc = "delete" /\ UNCHANGED <<ms, cMs>>
    BY <1>1, <1>9 DEF DeleteChild, ReadyInv, RunKnows
  <2>2. kids' \in [Tracked -> Child] /\ \A c \in Tracked \ {k} : kids'[c] = kids[c]
    BY <1>1, <1>9, EmptyTypes DEF DeleteChild
  <2>3. Advance(k) \/ Abort
    BY <1>9 DEF DeleteChild
  <2>4. CASE ~Applied(r)
    <3>1. kids' = kids /\ (Abort \/ k = "legacyPool")
      BY <1>9, <2>4 DEF DeleteChild, Applied
    <3> QED BY <1>1, <1>2, <2>1, <2>2, <2>3, <2>4, <3>1, ReadyAdvance DEF Children
  <2>5. CASE Applied(r)
    <3>1. ~kids'[k].exists
      BY <1>1, <1>9, <2>5 DEF DeleteChild, NoChild
    <3>2. ~snap.del => Fits(kids'[k], k, snap.spec, op)
      BY <2>1, <3>1 DEF Fits, Wants
    <3> QED BY <1>1, <2>1, <2>2, <2>3, <3>1, <3>2, ReadyAdvance
  <2> QED BY <2>4, <2>5
<1> QED BY <1>4, <1>5, <1>6, <1>7, <1>8, <1>9

\* A run that ends with a patch of the status: the condition it writes is False,
\* or every child fits the spec the run has read.
LEMMA ReadyPatch ==
  ASSUME TypeOK, ReadyInv, NEW new \in Status, PatchService(new), new.cond.gen = snap.gen,
         pc = "patch" \/ (pc = "fail" /\ new.cond.status # "True"),
         NEW again \in BOOLEAN, Return(again), UNCHANGED <<cMs, kids, op>>
  PROVE  ReadyInv'
<1>1. /\ ms'.uid = ms.uid /\ ms'.gen = ms.gen /\ ms'.del = ms.del /\ ms'.spec = ms.spec
      /\ ms'.st.cond \in {ms.st.cond, new.cond}
  <2>1. ms'.st = Merge(snap.st, new, ms.st)
    BY PatchType
  <2>2. ms'.st.cond \in {ms.st.cond, new.cond}
    BY <2>1 DEF Merge
  <2> QED BY <2>2, PatchType
<1>2. /\ ms.gen \in Nat /\ cMs.gen \in Nat /\ snap.gen \in Nat /\ ms.uid \in Nat
      /\ ms.st.cond.gen \in Nat
  BY DEF TypeOK, Service, Status, Condition
<1>3. pc' = "idle" /\ snap'.gen = 0
  BY DEF Return, Absent, Fresh
<1>4. ReadyMatches'
  <2> SUFFICES ASSUME Alive', ms'.st.cond.status = "True", ms'.st.cond.gen = ms'.gen,
                      NEW k \in Children
               PROVE  Matches(k)'
    BY DEF ReadyMatches
  <2>1. Alive
    BY <1>1 DEF Alive
  <2>2. CASE ms'.st.cond = ms.st.cond
    <3>1. Matches(k)
      BY <1>1, <2>1, <2>2 DEF ReadyInv, ReadyMatches
    <3> QED BY <1>1, <3>1 DEF Matches
  <2>3. CASE ms'.st.cond = new.cond
    <3>1. pc = "patch" /\ snap.gen = ms.gen
      BY <1>1, <2>3
    <3>2. snap.spec = ms.spec /\ ~snap.del /\ todo = {} /\ ms.gen # 0
      BY <2>1, <3>1 DEF ReadyInv, Agrees, RunKnows, Alive
    <3>3. Fits(kids[k], k, ms.spec, op)
      BY <3>1, <3>2 DEF ReadyInv, Ensured
    <3>4. ms.uid = 1 /\ (kids[k].exists => kids[k].uid = IF k \in ClusterKinds THEN 0 ELSE 1)
      BY <1>2, <3>2 DEF ReadyInv, CreatedOnce, OwnersRight
    <3> QED BY <1>1, <3>3, <3>4 DEF Fits, Matches
  <2> QED BY <1>1, <2>2, <2>3
<1>5. Agrees(cMs)' /\ Agrees(snap)' /\ CreatedOnce'
  BY <1>1, <1>2, <1>3 DEF ReadyInv, Agrees, CreatedOnce
<1>6. ConditionOrder'
  <2> SUFFICES ASSUME ms.gen # 0
               PROVE  ms'.st.cond.gen =< cMs.gen
    BY <1>1, <1>2, <1>3 DEF ConditionOrder
  <2>1. ms.st.cond.gen =< cMs.gen /\ snap.gen =< cMs.gen
    BY DEF ReadyInv, ConditionOrder
  <2> QED BY <1>1, <2>1
<1>7. RunKnows' /\ Ensured' /\ OwnersRight'
  BY <1>3 DEF ReadyInv, RunKnows, Ensured, OwnersRight
<1> QED BY <1>4, <1>5, <1>6, <1>7 DEF ReadyInv

\* The calls that read and write the service itself.
LEMMA ReadyService ==
  ASSUME TypeOK, ReadyInv, NEW r \in Answers,
         \/ FetchService \/ FinalizerConflict \/ ObserveDecode \/ ObservePrefill
         \/ StatusUnchanged \/ PatchStatusNotFound
         \/ AddFinalizer(r) \/ RemoveFinalizer(r) \/ ReconcileFailed(r) \/ PatchStatus(r)
  PROVE  ReadyInv'
<1> USE DEF api, caches, others
<1>1. /\ ms.uid \in Nat /\ ms.gen \in Nat /\ cMs.gen \in Nat /\ snap.gen \in Nat
      /\ ms.st.cond.gen \in Nat
  BY DEF TypeOK, Service, Status, Condition
<1>2. CASE FetchService
  <2>1. UNCHANGED <<ms, kids, cMs, op>>
    BY <1>2 DEF FetchService
  <2>2. CASE UNCHANGED <<pc, snap, todo>>
    BY <2>1, <2>2, ReadyUntouched
  <2>3. CASE /\ cMs.gen # 0 /\ AfterFetch(cMs) # "idle" /\ snap' = cMs
             /\ todo' = (IF cMs.del THEN CleanedUp ELSE Tracked) /\ pc' = AfterFetch(cMs)
    <3>1. /\ pc' \in {"removeFinalizer", "get", "addFinalizer"}
          /\ pc' = "removeFinalizer" => cMs.del
          /\ pc' = "addFinalizer" => ~cMs.del
      BY <2>3 DEF AfterFetch
    <3>2. RunKnows'
      BY <2>3, <3>1 DEF RunKnows
    <3>3. Ensured'
      BY <2>3 DEF Ensured, Children
    <3>4. ConditionOrder'
      BY <1>1, <2>1, <2>3 DEF ReadyInv, ConditionOrder
    <3>5. ReadyMatches' /\ OwnersRight'
      BY <2>1 DEF ReadyInv, ReadyMatches, Alive, Matches, OwnersRight
    <3> QED BY <2>1, <2>3, <3>2, <3>3, <3>4, <3>5 DEF ReadyInv, CreatedOnce, Agrees
  <2> QED BY <1>2, <2>2, <2>3 DEF FetchService
<1>3. CASE FinalizerConflict \/ StatusUnchanged \/ PatchStatusNotFound
  <2>1. PICK again \in BOOLEAN : Return(again)
    BY <1>3 DEF FinalizerConflict, StatusUnchanged, PatchStatusNotFound
  <2> QED BY <1>3, <2>1, ReadyReturn DEF FinalizerConflict, StatusUnchanged, PatchStatusNotFound
<1>4. CASE ObserveDecode \/ ObservePrefill
  <2>1. /\ pc \in {"observeDecode", "observePrefill"} /\ pc' \in {"observePrefill", "patch"}
        /\ UNCHANGED <<ms, kids, cMs, snap, todo, op>>
    BY <1>4 DEF ObserveDecode, ObservePrefill
  <2>2. RunKnows' /\ Ensured'
    BY <2>1 DEF ReadyInv, RunKnows, Ensured
  <2>3. ReadyMatches' /\ OwnersRight'
    BY <2>1 DEF ReadyInv, ReadyMatches, Alive, Matches, OwnersRight
  <2> QED BY <2>1, <2>2, <2>3 DEF ReadyInv, CreatedOnce, Agrees, ConditionOrder
<1>5. CASE AddFinalizer(r)
  <2>1. /\ pc = "addFinalizer" /\ snap = ms /\ UNCHANGED <<kids, cMs, op>>
        /\ snap.gen # 0 /\ ~snap.del /\ todo = Tracked
    BY <1>5 DEF AddFinalizer, Answer, ReadyInv, RunKnows
  <2>2. /\ ms'.uid = ms.uid /\ ms'.gen = ms.gen /\ ms'.del = ms.del
        /\ ms'.spec = ms.spec /\ ms'.st = ms.st
    BY <1>5 DEF AddFinalizer, TypeOK, Service
  <2>3. ReadyMatches' /\ OwnersRight' /\ CreatedOnce' /\ Agrees(cMs)'
    <3>1. ms'.uid = 0 => FALSE
      BY <2>1, <2>2 DEF ReadyInv, CreatedOnce
    <3> QED BY <2>1, <2>2, <3>1 DEF ReadyInv, ReadyMatches, Alive, Matches, OwnersRight,
               CreatedOnce, Agrees
  <2>4. CASE r = "ok"
    <3>1. snap' = ms' /\ pc' = "get" /\ todo' = todo
      BY <1>5, <2>4 DEF AddFinalizer
    <3>2. RunKnows' /\ Ensured'
      BY <2>1, <2>2, <3>1 DEF RunKnows, Ensured, Children
    <3>3. Agrees(snap)' /\ ConditionOrder'
      BY <1>1, <2>1, <2>2, <3>1 DEF ReadyInv, Agrees, ConditionOrder
    <3> QED BY <2>3, <3>2, <3>3 DEF ReadyInv
  <2>5. CASE r # "ok"
    <3>1. pc' = "idle" /\ snap'.gen = 0
      BY <1>5, <2>5 DEF AddFinalizer, Return, Absent, Fresh
    <3>2. RunKnows' /\ Ensured'
      BY <3>1 DEF RunKnows, Ensured
    <3>3. Agrees(snap)' /\ ConditionOrder'
      BY <1>1, <2>1, <2>2, <3>1 DEF ReadyInv, Agrees, ConditionOrder
    <3> QED BY <2>3, <3>2, <3>3 DEF ReadyInv
  <2> QED BY <2>4, <2>5
<1>6. CASE RemoveFinalizer(r)
  <2>1. /\ pc = "removeFinalizer" /\ snap = ms /\ UNCHANGED <<kids, cMs, op>>
        /\ snap.gen # 0 /\ Return(r # "ok") /\ (r # "ok") \in BOOLEAN
    BY <1>6 DEF RemoveFinalizer, Answer, ReadyInv, RunKnows
  <2>2. CASE ms' = ms
    BY <2>1, <2>2, ReadyReturn
  <2>3. CASE ms' = Absent(ms.uid)
    <3>1. ms'.uid = ms.uid /\ ms'.gen = 0 /\ pc' = "idle" /\ snap'.gen = 0
      BY <2>1, <2>3 DEF Return, Absent, Fresh
    <3>2. ms.uid # 0
      BY <2>1 DEF ReadyInv, CreatedOnce
    <3>3. ReadyMatches' /\ ConditionOrder' /\ RunKnows' /\ Ensured'
      BY <3>1 DEF ReadyMatches, Alive, ConditionOrder, RunKnows, Ensured
    <3> QED BY <2>1, <3>1, <3>2, <3>3 DEF ReadyInv, CreatedOnce, Agrees, OwnersRight
  <2> QED BY <1>6, <2>2, <2>3 DEF RemoveFinalizer
<1>7. CASE ReconcileFailed(r)
  <2>1. /\ pc = "fail" /\ Return(TRUE) /\ UNCHANGED <<cMs, kids, op>>
        /\ ms' = ms \/ PatchService(NotReady(snap))
    BY <1>7 DEF ReconcileFailed, Answer
  <2>2. NotReady(snap) \in Status
    BY NotReadyType DEF TypeOK
  <2>3. NotReady(snap).cond.gen = snap.gen /\ NotReady(snap).cond.status # "True"
    BY DEF NotReady, TypeOK, Service, Status
  <2> QED BY <2>1, <2>2, <2>3, ReadyReturn, ReadyPatch
<1>8. CASE PatchStatus(r)
  <2>1. /\ pc = "patch" /\ Return(r # "ok") /\ UNCHANGED <<cMs, kids, op>>
        /\ ms' = ms \/ PatchService(NewStatus)
        /\ (r # "ok") \in BOOLEAN
    BY <1>8 DEF PatchStatus, Answer
  <2>2. NewStatus \in Status /\ NewStatus.cond.gen = snap.gen
    BY NewStatusType DEF NewStatus
  <2> QED BY <2>1, <2>2, ReadyReturn, ReadyPatch
<1> QED BY <1>2, <1>3, <1>4, <1>5, <1>6, <1>7, <1>8

\* The invariant, for both theorems.
LEMMA ReadyStep ==
  ASSUME TypeOK, ReadyInv, Undisturbed, [Next]_vars
  PROVE  ReadyInv'
<1>1. CASE Deliver \/ (UpToDate /\ Environment)
  BY <1>1, ReadyCluster
<1>2. CASE UpToDate /\ Reconcile
  <2>1. PICK ok \in Answers : TRUE
    BY DEF Answers
  <2>2. ASSUME NEW k \in Tracked,
               \/ GetChild(k) \/ UpdateNotFound(k) \/ WriteConflict(k)
               \/ \E r \in Answers : CreateChild(k, r) \/ UpdateChild(k, r) \/ DeleteChild(k, r)
        PROVE  ReadyInv'
    BY <1>2, <2>1, <2>2, ReadyChild
  <2>3. ASSUME \/ FetchService \/ FinalizerConflict \/ ObserveDecode \/ ObservePrefill
               \/ StatusUnchanged \/ PatchStatusNotFound
               \/ \E r \in Answers : \/ AddFinalizer(r) \/ RemoveFinalizer(r)
                                    \/ ReconcileFailed(r) \/ PatchStatus(r)
        PROVE  ReadyInv'
    BY <2>1, <2>3, ReadyService
  <2> QED BY <1>2, <2>2, <2>3 DEF Reconcile
<1>3. CASE Crash
  <2>1. op' = op
    BY <1>3 DEF Crash, Undisturbed, TypeOK
  <2>2. /\ UNCHANGED <<ms, kids>> /\ cMs' = ms /\ pc' = "idle" /\ snap'.gen = 0
    BY <1>3 DEF Crash, api, Absent, Fresh
  <2>3. ms.uid \in Nat /\ ms.gen \in Nat /\ ms.st.cond.gen \in Nat /\ cMs.gen \in Nat
    BY DEF TypeOK, Service, Status, Condition
  <2>4. ReadyMatches' /\ OwnersRight'
    BY <2>1, <2>2 DEF ReadyInv, ReadyMatches, Alive, Matches, OwnersRight
  <2>5. CreatedOnce' /\ Agrees(cMs)' /\ Agrees(snap)'
    BY <2>2, <2>3 DEF ReadyInv, CreatedOnce, Agrees
  <2>6. ConditionOrder'
    BY <2>2, <2>3 DEF ReadyInv, ConditionOrder, Agrees
  <2>7. RunKnows' /\ Ensured'
    BY <2>2 DEF RunKnows, Ensured
  <2> QED BY <2>4, <2>5, <2>6, <2>7 DEF ReadyInv
<1>4. CASE UNCHANGED vars
  <2>1. UNCHANGED <<ms, cMs, pc, snap, todo, op, kids>>
    BY <1>4 DEF vars, api, caches, local, others
  <2> QED BY <2>1, ReadyUntouched
<1> QED BY <1>1, <1>2, <1>3, <1>4 DEF Next

LEMMA ReadyInit == Init => ReadyInv
<1> SUFFICES ASSUME Init
             PROVE  ReadyInv
  OBVIOUS
<1>1. ms.uid = 0 /\ ms.gen = 0 /\ cMs.gen = 0 /\ snap.gen = 0 /\ pc = "idle"
  BY DEF Init, Absent, Fresh
<1>2. OwnersRight
  <2>1. PICK left \in SUBSET (Tracked \cap {"legacyPool"}) :
          kids = [k \in Tracked |-> [NoChild EXCEPT !.exists = k \in left]]
    BY DEF Init
  <2>2. \A k \in Children : ~kids[k].exists
    BY <2>1 DEF Children, NoChild
  <2> QED BY <2>2 DEF OwnersRight
<1> QED BY <1>1, <1>2 DEF ReadyInv, ReadyMatches, Alive, CreatedOnce, Agrees, ConditionOrder,
           RunKnows, Ensured

\* A Ready condition that is True for the current generation means that every
\* child the spec asks for is there, belongs to this service and was built from
\* this spec, and that there is no other, even while a later run is rewriting
\* them or a call fails or is lost (modelservice_controller.go:108-117).
THEOREM ReadyIsTrue ==
  ASSUME Undisturbed
  PROVE  Spec => []ReadyMatches
<1>1. TypeOK /\ ReadyInv /\ [Next]_vars => ReadyInv'
  BY ReadyStep
<1>2. ReadyInv => ReadyMatches
  BY DEF ReadyInv
<1> QED BY <1>1, <1>2, ReadyInit, TypeCorrect, PTL DEF Spec

\* What the EPP Deployment refers to comes before it in the plan.
LEMMA PlanOrder ==
  /\ {"serviceAccount", "configMap", "epp"} \subseteq Kinds
  /\ Rank("serviceAccount") = 3 /\ Rank("configMap") = 4 /\ Rank("epp") = 5
<1>1. /\ \A i \in DOMAIN Plan : Plan[i] = "serviceAccount" <=> i = 3
      /\ \A i \in DOMAIN Plan : Plan[i] = "configMap" <=> i = 4
      /\ \A i \in DOMAIN Plan : Plan[i] = "epp" <=> i = 5
  BY DEF Plan
<1>2. {3, 4, 5} \subseteq DOMAIN Plan
  BY DEF Plan
<1> QED BY <1>1, <1>2 DEF Rank, Kinds

\* The EPP Deployment of a service is created only after the ServiceAccount and
\* the ConfigMap it refers to, and while both are still there, whatever was
\* edited or failed in between (modelservice_controller.go:155-156).
THEOREM EPPPrerequisites ==
  ASSUME Undisturbed, {"serviceAccount", "configMap", "epp"} \subseteq Tracked
  PROVE  Spec => PrerequisitesFirst
<1> DEFINE Step == ~kids["epp"].exists /\ kids'["epp"].exists /\ ms.gen # 0
                     /\ ms.uid = kids'["epp"].uid
                   => kids["serviceAccount"].exists /\ kids["configMap"].exists
<1>1. TypeOK /\ ReadyInv /\ [Next]_vars => ReadyInv'
  BY ReadyStep
<1>2. TypeOK /\ ReadyInv /\ [Next]_vars => Step
  <2> SUFFICES ASSUME TypeOK, ReadyInv, [Next]_vars,
                      ~kids["epp"].exists, kids'["epp"].exists, ms.gen # 0
               PROVE  kids["serviceAccount"].exists /\ kids["configMap"].exists
    OBVIOUS
  <2>1. kids \in [Tracked -> Child]
    BY DEF TypeOK
  <2>2. PICK r \in Answers : CreateChild("epp", r)
    <3> SUFFICES ASSUME \A r \in Answers : ~CreateChild("epp", r)
                 PROVE  FALSE
      OBVIOUS
    <3> USE DEF api, Child, NoChild
    <3>1. kids' # kids
      OBVIOUS
    <3>2. CASE Deliver \/ Environment \/ Crash \/ UNCHANGED vars
      BY <2>1, <3>1, <3>2 DEF Deliver, SyncService, SyncChild, Environment, Resync, UserCreate,
         UserEdit, UserDelete, Drift, PodsChange, Collect, Crash, vars
    <3>3. ASSUME NEW k \in Tracked, NEW r \in Answers,
                 CreateChild(k, r) \/ UpdateChild(k, r) \/ DeleteChild(k, r)
          PROVE  FALSE
      BY <2>1, <3>1, <3>3 DEF CreateChild, UpdateChild, DeleteChild
    <3>4. CASE Reconcile
      BY <3>1, <3>3, <3>4 DEF Reconcile, FetchService, FinalizerConflict, GetChild,
         UpdateNotFound, WriteConflict, ObserveDecode, ObservePrefill, StatusUnchanged,
         PatchStatusNotFound, AddFinalizer, RemoveFinalizer, ReconcileFailed, PatchStatus
    <3> QED BY <3>2, <3>4 DEF Next
  <2>3. pc = "create" /\ Current("epp")
    BY <2>2 DEF CreateChild
  <2>4. "serviceAccount" \notin todo /\ "configMap" \notin todo /\ ~snap.del
    BY <2>3, PlanOrder DEF Current, ReadyInv, RunKnows, Wants
  <2>5. /\ Fits(kids["serviceAccount"], "serviceAccount", snap.spec, op)
        /\ Fits(kids["configMap"], "configMap", snap.spec, op)
    BY <2>3, <2>4 DEF ReadyInv, Ensured, Children
  <2>6. Needs("serviceAccount", snap.spec, op) /\ Needs("configMap", snap.spec, op)
    BY DEF Needs, ClusterKinds
  <2> QED BY <2>5, <2>6 DEF Fits
<1> QED BY <1>1, <1>2, ReadyInit, TypeCorrect, PTL DEF Spec, PrerequisitesFirst

(***************************************************************************)
(* The controller rests when its work is done, for every set of specs and  *)
(* operator configurations, edits, recreations, failures and restarts: no  *)
(* event that should wake it is missed.                                    *)
(***************************************************************************)

(***************************************************************************)
(* Where that is due: a child that somebody else may remove, or whose copy *)
(* may be old, is of a kind whose events queue its owner, and not both.    *)
(* What belonged to an earlier service of the name is removed by somebody  *)
(* else, the collector.  Of a kind that is not installed there are none.   *)
(***************************************************************************)
Attended ==
  \A k \in Children :
    \/ k \in Missing
    \/ k \in Watched /\ k \notin Lagging
    \/ k \in Watched /\ MaxDrift = 0 /\ MaxUid =< 1
    \/ k \notin Lagging /\ MaxDrift = 0 /\ (MaxUid =< 1 \/ k \in ClusterKinds)

(***************************************************************************)
(* RestsWhenDone speaks of the end of a run; the invariant of every state  *)
(* before.  While the service is not queued again, the run under way, or   *)
(* the last one, has read the revision that the cache has (Looked), and    *)
(* for each child it is done with somebody vouches: the child itself fits, *)
(* or the copy does, and then the event that tells of the difference is    *)
(* still to come and will queue the service (Vouched).  For that the event *)
(* must find an owner (Owned), and one revision must mean one spec         *)
(* (Ordered).  A run makes nothing of a kind that is not installed         *)
(* (NoneMissing).                                                          *)
(***************************************************************************)
SameRevision(c) == c.uid = ms.uid /\ c.gen = ms.gen

Ordered(c, m) ==
  /\ c.uid =< m.uid
  /\ c.gen # 0 => c.uid # 0
  /\ m.gen # 0 /\ c.uid = m.uid
       => c.gen =< m.gen /\ (c.gen = m.gen => c.spec = m.spec /\ c.del = m.del)

UidsBound == ms.uid =< MaxUid /\ (ms.gen # 0 => ms.uid # 0)

Owned(c, k) ==
  IF k \in ClusterKinds THEN c.uid = 0 ELSE (c.exists <=> c.uid # 0) /\ c.uid =< ms.uid

AllOwned == \A k \in Children : Owned(kids[k], k) /\ Owned(cKids[k], k)

Vouched(k) == \/ Fits(kids[k], k, ms.spec, op)
              \/ k \in Watched /\ Fits(cKids[k], k, ms.spec, op)

Looked ==
  ~queue /\ Alive /\ SameRevision(cMs) =>
    /\ pc # "idle" => SameRevision(snap)
    /\ \A k \in Children \ todo : Vouched(k)

IdleIsEmpty == pc = "idle" => todo = {}

CopiesOrdered == UidsBound /\ Ordered(cMs, ms) /\ Ordered(snap, ms)

Readable == pc \in {"create", "update"} => \A k \in Tracked \cap Missing : ~Current(k)

NoneMissing == \A k \in Children \cap Missing : ~kids[k].exists /\ ~cKids[k].exists

RestInv == RunKnows /\ IdleIsEmpty /\ Readable /\ CopiesOrdered /\ AllOwned /\ NoneMissing
           /\ Looked

\* Numbers, and where the children are.
LEMMA RestTypes ==
  ASSUME TypeOK
  PROVE  /\ ms.uid \in Nat /\ ms.gen \in Nat /\ cMs.uid \in Nat /\ cMs.gen \in Nat
         /\ snap.uid \in Nat /\ snap.gen \in Nat
         /\ kids \in [Tracked -> Child] /\ cKids \in [Tracked -> Child]
         /\ Children \subseteq Tracked /\ Tracked \subseteq Kinds
         /\ queue \in BOOLEAN
         /\ \A k \in Tracked : kids[k].uid \in Nat /\ cKids[k].uid \in Nat
BY KindsAssumption DEF TypeOK, Service, Child, Children

\* What a run may rely on at each of its calls.
LEMMA KnowsStep ==
  ASSUME TypeOK, RunKnows, IdleIsEmpty, Readable, [Next]_vars
  PROVE  RunKnows' /\ IdleIsEmpty' /\ Readable'
<1> USE DEF local, others, counters
<1>1. ASSUME UNCHANGED <<pc, snap, todo, op>>
      PROVE  RunKnows' /\ IdleIsEmpty' /\ Readable'
  BY <1>1 DEF RunKnows, IdleIsEmpty, Readable, Current, Wants
<1>2. ASSUME pc' = "idle", todo' = {}
      PROVE  RunKnows' /\ IdleIsEmpty' /\ Readable'
  BY <1>2 DEF RunKnows, IdleIsEmpty, Readable
<1>3. ASSUME NEW again, Return(again)
      PROVE  RunKnows' /\ IdleIsEmpty' /\ Readable'
  BY <1>2, <1>3 DEF Return
<1>4. ASSUME Abort, pc \in {"get", "create", "update", "delete"}
      PROVE  RunKnows' /\ IdleIsEmpty' /\ Readable'
  <2>1. CASE snap.del
    BY <1>3, <1>4, <2>1 DEF Abort
  <2>2. CASE ~snap.del
    BY <1>4, <2>2 DEF Abort, RunKnows, IdleIsEmpty, Readable
  <2> QED BY <2>1, <2>2
<1>5. ASSUME NEW k \in Tracked, Advance(k), pc \in {"get", "create", "update", "delete"}
      PROVE  RunKnows' /\ IdleIsEmpty' /\ Readable'
  BY <1>5 DEF Advance, RunKnows, IdleIsEmpty, Readable
<1>6. CASE Deliver \/ Environment
  BY <1>1, <1>6 DEF Deliver, SyncService, SyncChild, Environment, Resync, UserCreate, UserEdit,
     UserDelete, Drift, PodsChange, Collect
<1>7. ASSUME NEW k \in Tracked, GetChild(k) \/ UpdateNotFound(k) \/ WriteConflict(k)
      PROVE  RunKnows' /\ IdleIsEmpty' /\ Readable'
  <2>1. /\ pc \in {"get", "create", "update"} /\ Current(k) /\ op' = op
        /\ \A l \in Tracked : Current(l) => l = k
    BY <1>7, OneCurrent DEF GetChild, UpdateNotFound, WriteConflict
  <2>2. ASSUME NEW step \in AfterGet(k, cKids[k]), step # "next", pc' = step, pc = "get",
               ~Unreadable(k), UNCHANGED <<snap, todo>>
        PROVE  RunKnows' /\ IdleIsEmpty' /\ Readable'
    <3>1. /\ step \in {"create", "update", "delete"}
          /\ IF step = "delete" THEN ~Wants(k) ELSE Wants(k) /\ k \notin Missing
      BY <2>2 DEF AfterGet, Unreadable
    <3> QED BY <2>1, <2>2, <3>1 DEF RunKnows, IdleIsEmpty, Readable, Current, Wants
  <2>3. ASSUME pc' = "create", pc = "update", UNCHANGED <<snap, todo>>
        PROVE  RunKnows' /\ IdleIsEmpty' /\ Readable'
    BY <2>1, <2>3 DEF RunKnows, IdleIsEmpty, Readable, Current, Wants
  <2> QED BY <1>4, <1>5, <1>7, <2>1, <2>2, <2>3 DEF GetChild, UpdateNotFound, WriteConflict
<1>8. ASSUME NEW k \in Tracked, NEW r \in Answers,
             CreateChild(k, r) \/ UpdateChild(k, r) \/ DeleteChild(k, r)
      PROVE  RunKnows' /\ IdleIsEmpty' /\ Readable'
  BY <1>4, <1>5, <1>8 DEF CreateChild, UpdateChild, DeleteChild
<1>9. CASE FetchService
  <2>1. CASE UNCHANGED <<pc, snap, todo>>
    BY <1>1, <1>9, <2>1 DEF FetchService
  <2>2. CASE /\ cMs.gen # 0 /\ AfterFetch(cMs) # "idle" /\ snap' = cMs
             /\ todo' = (IF cMs.del THEN CleanedUp ELSE Tracked) /\ pc' = AfterFetch(cMs)
    <3>1. /\ pc' \in {"removeFinalizer", "get", "addFinalizer"}
          /\ pc' = "removeFinalizer" => cMs.del
          /\ pc' = "addFinalizer" => ~cMs.del
      BY <2>2 DEF AfterFetch
    <3> QED BY <2>2, <3>1 DEF RunKnows, IdleIsEmpty, Readable
  <2> QED BY <1>9, <2>1, <2>2 DEF FetchService
<1>10. CASE FinalizerConflict \/ StatusUnchanged \/ PatchStatusNotFound
  BY <1>3, <1>10 DEF FinalizerConflict, StatusUnchanged, PatchStatusNotFound
<1>11. CASE ObserveDecode \/ ObservePrefill
  BY <1>11 DEF ObserveDecode, ObservePrefill, RunKnows, IdleIsEmpty, Readable
<1>12. ASSUME NEW r \in Answers, AddFinalizer(r)
       PROVE  RunKnows' /\ IdleIsEmpty' /\ Readable'
  <2>1. CASE r = "ok"
    <3>1. /\ pc = "addFinalizer" /\ snap = ms /\ pc' = "get" /\ todo' = todo
          /\ snap'.gen = ms.gen /\ snap'.del = ms.del
      BY <1>12, <2>1 DEF AddFinalizer, TypeOK, Service
    <3> QED BY <3>1 DEF RunKnows, IdleIsEmpty, Readable
  <2>2. CASE r # "ok"
    BY <1>3, <1>12, <2>2 DEF AddFinalizer
  <2> QED BY <2>1, <2>2
<1>13. ASSUME NEW r \in Answers, RemoveFinalizer(r) \/ ReconcileFailed(r) \/ PatchStatus(r)
       PROVE  RunKnows' /\ IdleIsEmpty' /\ Readable'
  BY <1>3, <1>13 DEF RemoveFinalizer, ReconcileFailed, PatchStatus
<1>14. CASE Crash
  BY <1>2, <1>14 DEF Crash
<1>15. CASE UNCHANGED vars
  BY <1>1, <1>15 DEF vars
<1> QED BY <1>6, <1>7, <1>8, <1>9, <1>10, <1>11, <1>12, <1>13, <1>14, <1>15 DEF Next, Reconcile

(***************************************************************************)
(* What a step makes of the service, and the copies of it.                 *)
(***************************************************************************)
Renewed == ms'.uid = ms.uid + 1 /\ ms'.uid =< MaxUid /\ ms'.gen = 1

Changed == Alive /\ ms'.uid = ms.uid /\ ms'.gen = ms.gen + 1

Gone == ms'.uid = ms.uid /\ ms'.gen = 0

SameService == /\ ms'.uid = ms.uid /\ ms'.gen = ms.gen
               /\ ms'.spec = ms.spec /\ ms'.del = ms.del

LEMMA ServiceMoves ==
  ASSUME TypeOK, [Next]_vars
  PROVE  /\ Renewed \/ Changed \/ Gone \/ SameService
         /\ ~SameService => UpToDate /\ UNCHANGED <<kids, cMs, cKids>>
<1> USE DEF api, caches, local
<1>1. ASSUME ms' = ms PROVE SameService
  BY <1>1 DEF SameService
<1>2. ASSUME UserCreate PROVE Renewed
  <2>1. PICK s \in Specs : ms' = Fresh(ms.uid + 1, 1, s)
    BY <1>2 DEF UserCreate
  <2>2. ms'.uid = ms.uid + 1 /\ ms'.gen = 1
    BY <2>1 DEF Fresh
  <2>3. ms'.uid =< MaxUid
    BY <1>2, <2>2, RestTypes, LimitsAssumption DEF UserCreate
  <2> QED BY <2>2, <2>3 DEF Renewed
<1>3. ASSUME UserEdit \/ (UserDelete /\ ms.fin) PROVE Changed
  BY <1>3 DEF UserEdit, UserDelete, Changed, TypeOK, Service
<1>4. ASSUME UserDelete /\ ~ms.fin PROVE Gone
  BY <1>4 DEF UserDelete, Gone, Absent, Fresh
<1>5. ASSUME NEW r \in Answers, AddFinalizer(r) PROVE SameService
  BY <1>5 DEF AddFinalizer, SameService, TypeOK, Service
<1>6. ASSUME NEW r \in Answers, RemoveFinalizer(r) PROVE SameService \/ Gone
  <2>1. ms' = ms \/ ms' = Absent(ms.uid)
    BY <1>6 DEF RemoveFinalizer
  <2> QED BY <2>1 DEF SameService, Gone, Absent, Fresh
<1>7. ASSUME NEW r \in Answers, ReconcileFailed(r) \/ PatchStatus(r) PROVE SameService
  <2>1. ms' = ms \/ PatchService(NotReady(snap)) \/ PatchService(NewStatus)
    BY <1>7 DEF ReconcileFailed, PatchStatus
  <2>2. NotReady(snap) \in Status /\ NewStatus \in Status
    BY NotReadyType, NewStatusType DEF TypeOK
  <2> QED BY <2>1, <2>2, PatchType DEF SameService
<1>8. ASSUME NEW k \in Tracked, NEW r \in Answers,
             \/ GetChild(k) \/ UpdateNotFound(k) \/ WriteConflict(k)
             \/ CreateChild(k, r) \/ UpdateChild(k, r) \/ DeleteChild(k, r)
      PROVE  ms' = ms
  BY <1>8 DEF GetChild, UpdateNotFound, WriteConflict, CreateChild, UpdateChild, DeleteChild
<1>9. ASSUME \/ Deliver \/ Resync \/ (\E k \in Tracked : Drift(k) \/ PodsChange(k) \/ Collect(k))
             \/ FetchService \/ FinalizerConflict \/ ObserveDecode \/ ObservePrefill
             \/ StatusUnchanged \/ PatchStatusNotFound \/ Crash \/ UNCHANGED vars
      PROVE  SameService
  <2>1. ms' = ms
    BY <1>9 DEF Deliver, SyncService, SyncChild, Resync, Drift, PodsChange, Collect, FetchService,
       FinalizerConflict, ObserveDecode, ObservePrefill, StatusUnchanged, PatchStatusNotFound,
       Crash, vars
  <2> QED BY <1>1, <2>1
<1>10. ASSUME UserCreate \/ UserEdit \/ UserDelete \/ \E r \in Answers : RemoveFinalizer(r)
       PROVE  UNCHANGED <<kids, cMs, cKids>>
  BY <1>10 DEF UserCreate, UserEdit, UserDelete, RemoveFinalizer
<1>11. CASE \/ Deliver \/ Crash \/ UNCHANGED vars
  BY <1>9, <1>11
<1>12. CASE UpToDate /\ Environment
  BY <1>2, <1>3, <1>4, <1>9, <1>10, <1>12 DEF Environment
<1>13. CASE UpToDate /\ Reconcile
  <2>1. PICK ok \in Answers : TRUE
    BY DEF Answers
  <2>2. SameService \/ (Gone /\ \E r \in Answers : RemoveFinalizer(r))
    BY <1>1, <1>5, <1>6, <1>7, <1>8, <1>9, <1>13, <2>1 DEF Reconcile
  <2> QED BY <1>10, <1>13, <2>2
<1> QED BY <1>11, <1>12, <1>13 DEF Next

\* A copy stays what it was to the service.
LEMMA OrderedKept ==
  ASSUME TypeOK, Renewed \/ Changed \/ Gone \/ SameService,
         NEW c \in Service, Ordered(c, ms)
  PROVE  Ordered(c, ms')
<1>1. c.uid \in Nat /\ c.gen \in Nat /\ ms.uid \in Nat /\ ms.gen \in Nat
  BY DEF TypeOK, Service
<1>2. CASE Renewed
  BY <1>1, <1>2 DEF Renewed, Ordered
<1>3. CASE Changed
  BY <1>1, <1>3 DEF Changed, Alive, Ordered
<1>4. CASE Gone
  BY <1>1, <1>4 DEF Gone, Ordered
<1>5. CASE SameService
  BY <1>1, <1>5 DEF SameService, Ordered
<1> QED BY <1>2, <1>3, <1>4, <1>5

LEMMA OrderStep ==
  ASSUME TypeOK, CopiesOrdered, [Next]_vars
  PROVE  CopiesOrdered'
<1> USE DEF api, caches, local
<1>1. ms \in Service /\ cMs \in Service /\ snap \in Service
  BY DEF TypeOK
<1>2. Renewed \/ Changed \/ Gone \/ SameService
  BY ServiceMoves
<1>3. UidsBound'
  BY <1>2, RestTypes DEF CopiesOrdered, UidsBound, Renewed, Changed, Gone, SameService, Alive
<1>4. Ordered(ms, ms) /\ Ordered(ms', ms') /\ Ordered(Absent(0), ms')
  <2>1. ms'.uid \in Nat /\ ms'.gen \in Nat
    BY <1>2, RestTypes DEF Renewed, Changed, Gone, SameService
  <2>2. Absent(0).uid = 0 /\ Absent(0).gen = 0
    BY DEF Absent, Fresh
  <2>3. ms'.gen # 0 => ms'.uid # 0
    BY <1>3 DEF UidsBound
  <2> QED BY <2>1, <2>2, <2>3, RestTypes DEF Ordered, CopiesOrdered, UidsBound
<1>5. cMs' \in {cMs, ms}
  BY DEF Next, Deliver, SyncService, SyncChild, Environment, Resync, UserCreate, UserEdit,
     UserDelete, Drift, PodsChange, Collect, Reconcile, FetchService, FinalizerConflict, GetChild,
     UpdateNotFound, WriteConflict, CreateChild, UpdateChild, DeleteChild, ObserveDecode,
     ObservePrefill, StatusUnchanged, PatchStatusNotFound, AddFinalizer, RemoveFinalizer,
     ReconcileFailed, PatchStatus, Crash, vars
<1>6. snap' \in {snap, cMs, ms', Absent(0)}
  <2>1. ASSUME NEW k, Advance(k) \/ Abort PROVE snap' \in {snap, Absent(0)}
    BY <2>1 DEF Advance, Abort, Return
  <2>2. ASSUME NEW again, Return(again) PROVE snap' = Absent(0)
    BY <2>2 DEF Return
  <2>3. CASE Deliver \/ Environment \/ UNCHANGED vars
    BY <2>3 DEF Deliver, SyncService, SyncChild, Environment, Resync, UserCreate, UserEdit,
       UserDelete, Drift, PodsChange, Collect, vars
  <2>4. ASSUME NEW k \in Tracked, NEW r \in Answers,
               \/ GetChild(k) \/ UpdateNotFound(k) \/ WriteConflict(k)
               \/ CreateChild(k, r) \/ UpdateChild(k, r) \/ DeleteChild(k, r)
        PROVE  snap' \in {snap, Absent(0)}
    BY <2>1, <2>4 DEF GetChild, UpdateNotFound, WriteConflict, CreateChild, UpdateChild,
       DeleteChild
  <2>5. ASSUME NEW r \in Answers, \/ FetchService \/ FinalizerConflict \/ ObserveDecode
               \/ ObservePrefill \/ StatusUnchanged \/ PatchStatusNotFound \/ AddFinalizer(r)
               \/ RemoveFinalizer(r) \/ ReconcileFailed(r) \/ PatchStatus(r)
        PROVE  snap' \in {snap, cMs, ms', Absent(0)}
    BY <2>2, <2>5 DEF FetchService, FinalizerConflict, ObserveDecode, ObservePrefill,
       StatusUnchanged, PatchStatusNotFound, AddFinalizer, RemoveFinalizer, ReconcileFailed,
       PatchStatus
  <2>6. PICK ok \in Answers : TRUE
    BY DEF Answers
  <2> QED BY <2>3, <2>4, <2>5, <2>6 DEF Next, Reconcile, Crash
<1>7. /\ Ordered(cMs, ms') /\ Ordered(snap, ms') /\ Ordered(ms, ms')
  BY <1>1, <1>2, <1>4, OrderedKept DEF CopiesOrdered
<1> QED BY <1>3, <1>4, <1>5, <1>6, <1>7 DEF CopiesOrdered

(***************************************************************************)
(* What a step makes of a child, and the copy of it.                       *)
(***************************************************************************)
LEMMA ChildMoves ==
  ASSUME TypeOK, [Next]_vars, NEW k \in Tracked
  PROVE  /\ \/ kids'[k].exists = kids[k].exists /\ kids'[k].uid = kids[k].uid
            \/ kids'[k] = NoChild
            \/ kids'[k] = BuildChild(k) /\ pc = "create" /\ Current(k)
         /\ cKids'[k] \in {cKids[k], kids[k]}
<1> USE DEF api, caches
<1> DEFINE Moved == \/ kids'[k].exists = kids[k].exists /\ kids'[k].uid = kids[k].uid
                    \/ kids'[k] = NoChild
                    \/ kids'[k] = BuildChild(k) /\ pc = "create" /\ Current(k)
<1>1. kids \in [Tracked -> Child] /\ cKids \in [Tracked -> Child]
  BY RestTypes
<1>2. ASSUME UNCHANGED <<kids, cKids>> PROVE Moved /\ cKids'[k] \in {cKids[k], kids[k]}
  BY <1>2
<1>3. ASSUME Deliver
      PROVE  Moved /\ cKids'[k] \in {cKids[k], kids[k]}
  BY <1>1, <1>3 DEF Deliver, SyncService, SyncChild
<1>4. ASSUME Resync \/ UserCreate \/ UserEdit \/ UserDelete \/ UNCHANGED vars
      PROVE  Moved /\ cKids'[k] \in {cKids[k], kids[k]}
  BY <1>2, <1>4 DEF Resync, UserCreate, UserEdit, UserDelete, vars
<1>5. ASSUME NEW l \in Tracked, Drift(l) \/ Collect(l)
      PROVE  Moved /\ cKids'[k] \in {cKids[k], kids[k]}
  BY <1>1, <1>5 DEF Drift, Collect
<1>6. ASSUME NEW l \in Tracked, PodsChange(l)
      PROVE  Moved /\ cKids'[k] \in {cKids[k], kids[k]}
  <2>1. PICK n \in 0 .. MaxReady : kids' = [kids EXCEPT ![l].ready = n]
    BY <1>6 DEF PodsChange
  <2>2. kids'[k].exists = kids[k].exists /\ kids'[k].uid = kids[k].uid
    BY <1>1, <2>1 DEF Child
  <2> QED BY <1>6, <2>2 DEF PodsChange
<1>7. ASSUME NEW l \in Tracked, GetChild(l) \/ UpdateNotFound(l) \/ WriteConflict(l)
      PROVE  Moved /\ cKids'[k] \in {cKids[k], kids[k]}
  BY <1>2, <1>7 DEF GetChild, UpdateNotFound, WriteConflict
<1>8. ASSUME NEW l \in Tracked, NEW r \in Answers, CreateChild(l, r) \/ DeleteChild(l, r)
      PROVE  Moved /\ cKids'[k] \in {cKids[k], kids[k]}
  BY <1>1, <1>8 DEF CreateChild, DeleteChild
<1>9. ASSUME NEW l \in Tracked, NEW r \in Answers, UpdateChild(l, r)
      PROVE  Moved /\ cKids'[k] \in {cKids[k], kids[k]}
  <2>1. kids' = kids \/ kids' = [kids EXCEPT ![l].from = Content(l, snap.spec, op)]
    BY <1>9 DEF UpdateChild
  <2>2. kids'[k].exists = kids[k].exists /\ kids'[k].uid = kids[k].uid
    BY <1>1, <2>1 DEF Child
  <2> QED BY <1>9, <2>2 DEF UpdateChild
<1>10. ASSUME NEW r \in Answers, \/ FetchService \/ FinalizerConflict \/ ObserveDecode
              \/ ObservePrefill \/ StatusUnchanged \/ PatchStatusNotFound \/ AddFinalizer(r)
              \/ RemoveFinalizer(r) \/ ReconcileFailed(r) \/ PatchStatus(r)
       PROVE  Moved /\ cKids'[k] \in {cKids[k], kids[k]}
  BY <1>2, <1>10 DEF FetchService, FinalizerConflict, ObserveDecode, ObservePrefill,
     StatusUnchanged, PatchStatusNotFound, AddFinalizer, RemoveFinalizer, ReconcileFailed,
     PatchStatus
<1>11. ASSUME Crash
       PROVE  Moved /\ cKids'[k] \in {cKids[k], kids[k]}
  BY <1>1, <1>11 DEF Crash
<1>12. PICK ok \in Answers : TRUE
  BY DEF Answers
<1> HIDE DEF Moved
<1>13. Moved /\ cKids'[k] \in {cKids[k], kids[k]}
  BY <1>3, <1>4, <1>5, <1>6, <1>7, <1>8, <1>9, <1>10, <1>11, <1>12
     DEF Next, Environment, Reconcile
<1> QED BY <1>13 DEF Moved

LEMMA OwnedStep ==
  ASSUME TypeOK, RunKnows, CopiesOrdered, AllOwned, [Next]_vars
  PROVE  AllOwned'
<1> SUFFICES ASSUME NEW k \in Children
             PROVE  Owned(kids[k], k)' /\ Owned(cKids[k], k)'
  BY DEF AllOwned
<1>1. ms.uid \in Nat /\ snap.uid \in Nat /\ k \in Tracked
      /\ kids[k].uid \in Nat /\ cKids[k].uid \in Nat
  BY RestTypes
<1>2. ms'.uid \in Nat /\ ms.uid =< ms'.uid
  BY <1>1, ServiceMoves DEF Renewed, Changed, Gone, SameService
<1>3. Owned(kids[k], k) /\ Owned(cKids[k], k)
  BY DEF AllOwned
<1>4. NoChild.exists = FALSE /\ NoChild.uid = 0
  BY DEF NoChild
<1>5. CASE kids'[k] = BuildChild(k) /\ pc = "create"
  <2>1. snap.uid # 0 /\ snap.uid =< ms.uid
    BY <1>5 DEF RunKnows, CopiesOrdered, Ordered
  <2>2. BuildChild(k).exists = TRUE
        /\ BuildChild(k).uid = IF k \in ClusterKinds THEN 0 ELSE snap.uid
    BY DEF BuildChild
  <2> QED BY <1>1, <1>2, <1>3, <1>5, <2>1, <2>2, ChildMoves DEF Owned
<1>6. CASE ~(kids'[k] = BuildChild(k) /\ pc = "create")
  BY <1>1, <1>2, <1>3, <1>4, <1>6, ChildMoves DEF Owned
<1> QED BY <1>5, <1>6

\* A run stops before it makes a child of a kind that is not installed.
LEMMA MissingStep ==
  ASSUME TypeOK, Readable, NoneMissing, [Next]_vars
  PROVE  NoneMissing'
<1> SUFFICES ASSUME NEW k \in Children, k \in Missing
             PROVE  ~kids'[k].exists /\ ~cKids'[k].exists
  BY DEF NoneMissing
<1>1. k \in Tracked /\ ~kids[k].exists /\ ~cKids[k].exists /\ ~NoChild.exists
  BY RestTypes DEF NoneMissing, NoChild
<1>2. ~(pc = "create" /\ Current(k))
  BY <1>1 DEF Readable
<1> QED BY <1>1, <1>2, ChildMoves

(***************************************************************************)
(* Every step keeps Looked.                                                *)
(***************************************************************************)
\* Another revision is one the cache does not have.
LEMMA CurrentIsSame ==
  ASSUME TypeOK, RestInv, Attended, [Next]_vars, ~SameService, Alive', SameRevision(cMs)'
  PROVE  FALSE
<1>1. /\ cMs' = cMs /\ ms.uid \in Nat /\ ms.gen \in Nat /\ cMs.uid \in Nat /\ cMs.gen \in Nat
      /\ cMs.uid =< ms.uid
      /\ ms.gen # 0 /\ cMs.uid = ms.uid => cMs.gen =< ms.gen
  BY ServiceMoves, RestTypes DEF RestInv, CopiesOrdered, Ordered
<1>2. CASE Renewed
  BY <1>1, <1>2 DEF Renewed, SameRevision
<1>3. CASE Changed
  BY <1>1, <1>3 DEF Changed, SameRevision, Alive
<1>4. CASE Gone
  BY <1>4 DEF Gone, Alive
<1> QED BY <1>2, <1>3, <1>4, ServiceMoves

\* What a run that has read the current revision goes by.
LEMMA RunReadsCurrent ==
  ASSUME TypeOK, RestInv, ~queue, Alive, SameRevision(cMs), pc # "idle"
  PROVE  SameRevision(snap) /\ snap.spec = ms.spec /\ ~snap.del
BY DEF RestInv, Looked, CopiesOrdered, Ordered, SameRevision, Alive

\* A child that is taken away behind the controller's back leaves a copy that fits, and
\* an event to come.
LEMMA RemovedIsVouched ==
  ASSUME TypeOK, RestInv, Attended, UpToDate, NEW k \in Children, Vouched(k),
         k \in Watched /\ k \notin Lagging, UNCHANGED <<cKids, op>>, SameService
  PROVE  Vouched(k)'
<1>1. cKids[k] = kids[k]
  BY RestTypes DEF UpToDate
<1> QED BY <1>1 DEF Vouched, SameService

\* The event that tells of a difference queues the service.
LEMMA EventQueues ==
  ASSUME TypeOK, RestInv, NEW k \in Children, SyncChild(k), Vouched(k), ~queue'
  PROVE  Vouched(k)'
<1>1. /\ cKids' = [cKids EXCEPT ![k] = kids[k]] /\ kids' = kids /\ ms' = ms /\ op' = op
      /\ ~(k \in Watched /\ (kids[k].uid # 0 \/ cKids[k].uid # 0))
  BY DEF SyncChild, api, others
<1>2. CASE Fits(kids[k], k, ms.spec, op)
  BY <1>1, <1>2 DEF Vouched
<1>3. CASE ~Fits(kids[k], k, ms.spec, op)
  <2>1. k \in Watched /\ Fits(cKids[k], k, ms.spec, op)
    BY <1>3 DEF Vouched
  <2>2. k \notin ClusterKinds
    BY <2>1 DEF Watched, ClusterKinds
  <2>3. kids[k].exists \/ cKids[k].exists
    BY <1>3, <2>1 DEF Fits
  <2>4. kids[k].uid # 0 \/ cKids[k].uid # 0
    BY <2>2, <2>3 DEF RestInv, AllOwned, Owned
  <2> QED BY <1>1, <2>1, <2>4
<1> QED BY <1>2, <1>3

\* Users, the informers, Pods and the collector.
LEMMA LookedCluster ==
  ASSUME TypeOK, RestInv, Attended, Deliver \/ (UpToDate /\ Environment)
  PROVE  Looked'
<1> USE DEF api, caches, local, others, counters
<1> SUFFICES ASSUME ~queue', Alive', SameRevision(cMs)'
             PROVE  /\ pc' # "idle" => SameRevision(snap)'
                    /\ \A k \in Children \ todo' : Vouched(k)'
  BY DEF Looked
<1>1. /\ kids \in [Tracked -> Child] /\ cKids \in [Tracked -> Child] /\ Children \subseteq Tracked
      /\ ms.uid \in Nat /\ MaxUid \in Nat /\ \A k \in Tracked : kids[k].uid \in Nat
  BY RestTypes, LimitsAssumption
<1>2. SameService
  BY CurrentIsSame DEF Next
<1>3. /\ UNCHANGED <<pc, snap, todo, op>> /\ ~queue /\ Alive
      /\ SameRevision(cMs)
  <2>1. CASE SyncService
    BY <1>2, <2>1 DEF SyncService, SameService, SameRevision, Alive, TypeOK
  <2>2. CASE ~SyncService
    <3>1. UNCHANGED <<pc, snap, todo, op, cMs>> /\ ~queue
      BY <2>2 DEF Deliver, SyncChild, Environment, Resync, UserCreate, UserEdit, UserDelete,
         Drift, PodsChange, Collect, TypeOK
    <3> QED BY <1>2, <3>1 DEF SameService, SameRevision, Alive
  <2> QED BY <2>1, <2>2
<1>4. /\ pc # "idle" => SameRevision(snap)
      /\ \A k \in Children \ todo : Vouched(k)
  BY <1>3 DEF RestInv, Looked
<1>5. pc' # "idle" => SameRevision(snap)'
  BY <1>2, <1>3, <1>4 DEF SameRevision, SameService
<1>6. ASSUME NEW k \in Children \ todo
      PROVE  Vouched(k)'
  <2> USE <1>1
  <2>1. Vouched(k)
    BY <1>4
  <2>2. ASSUME kids'[k].exists = kids[k].exists, kids'[k].from = kids[k].from,
               cKids'[k] = cKids[k]
        PROVE  Vouched(k)'
    BY <1>2, <1>3, <2>1, <2>2 DEF Vouched, Fits, SameService
  <2>3. ASSUME NEW l \in Tracked, l # k,
               SyncChild(l) \/ Drift(l) \/ PodsChange(l) \/ Collect(l)
        PROVE  Vouched(k)'
    <3>1. kids'[k] = kids[k] /\ cKids'[k] = cKids[k]
      BY <2>3 DEF SyncChild, Drift, PodsChange, Collect
    <3> QED BY <2>2, <3>1
  <2>4. ASSUME SyncChild(k)
        PROVE  Vouched(k)'
    BY <2>1, <2>4, EventQueues
  <2>5. ASSUME Drift(k), UpToDate
        PROVE  Vouched(k)'
    <3>1. MaxDrift # 0 /\ k \notin Missing
      BY <2>5 DEF Drift, TypeOK, RestInv, NoneMissing
    <3>2. k \in Watched /\ k \notin Lagging
      BY <3>1 DEF Attended
    <3> QED BY <1>2, <1>3, <2>1, <2>5, <3>2, RemovedIsVouched DEF Drift
  <2>6. ASSUME PodsChange(k)
        PROVE  Vouched(k)'
    <3>1. PICK n \in 0 .. MaxReady : kids' = [kids EXCEPT ![k].ready = n]
      BY <2>6 DEF PodsChange
    <3>2. kids'[k].exists = kids[k].exists /\ kids'[k].from = kids[k].from /\ cKids' = cKids
      BY <2>6, <3>1 DEF Child, PodsChange
    <3> QED BY <2>2, <3>2
  <2>7. ASSUME Collect(k), UpToDate
        PROVE  Vouched(k)'
    <3>1. kids[k].uid # 0 /\ ms.uid # kids[k].uid
      BY <1>3, <2>7 DEF Collect, Alive
    <3>2. k \notin ClusterKinds /\ kids[k].uid =< ms.uid /\ ms.uid =< MaxUid /\ ms.uid # 0
      BY <1>3, <3>1 DEF RestInv, AllOwned, Owned, CopiesOrdered, UidsBound, Alive
    <3>3. ~(MaxUid =< 1) /\ k \notin Missing
      BY <2>7, <3>1, <3>2 DEF Collect, RestInv, NoneMissing
    <3>4. k \in Watched /\ k \notin Lagging
      BY <3>2, <3>3 DEF Attended
    <3> QED BY <1>2, <1>3, <2>1, <2>7, <3>4, RemovedIsVouched DEF Collect
  <2>8. CASE SyncService \/ Resync \/ UserCreate \/ UserEdit \/ UserDelete
    <3>1. UNCHANGED <<kids, cKids>>
      BY <2>8 DEF SyncService, Resync, UserCreate, UserEdit, UserDelete
    <3> QED BY <2>2, <3>1
  <2> QED BY <2>3, <2>4, <2>5, <2>6, <2>7, <2>8 DEF Deliver, Environment
<1> QED BY <1>3, <1>5, <1>6

\* One child k has been written, or found right, or the run gives up.
LEMMA LookedAdvance ==
  ASSUME TypeOK, RestInv, NEW k \in Tracked, pc # "idle",
         UNCHANGED <<ms, cMs, cKids, op>>,
         \A c \in Tracked \ {k} : kids'[c] = kids[c],
         Current(k),
         \/ /\ Advance(k)
            /\ ~snap.del => \/ k \in Watched /\ Fits(cKids[k], k, snap.spec, op)
                            \/ k \notin Children
                            \/ Fits(kids'[k], k, snap.spec, op)
         \/ Abort
  PROVE  Looked'
<1> SUFFICES ASSUME ~queue', Alive', SameRevision(cMs)'
             PROVE  /\ pc' # "idle" => SameRevision(snap)'
                    /\ \A c \in Children \ todo' : Vouched(c)'
  BY DEF Looked
<1>1. /\ ~queue /\ Alive /\ SameRevision(cMs)
      /\ snap' = snap \/ (Abort /\ snap.del)
  BY DEF Advance, Abort, Return, local, SameRevision, Alive, TypeOK
<1>2. SameRevision(snap) /\ snap.spec = ms.spec /\ ~snap.del
  BY <1>1, RunReadsCurrent
<1>3. \A c \in Children \ todo : Vouched(c)
  BY <1>1 DEF RestInv, Looked
<1>4. \A c \in Children \ todo : c # k => Vouched(c)'
  BY <1>3, RestTypes DEF Vouched
<1>5. k \in todo
  BY DEF Current
<1>6. ASSUME NEW c \in Children \ todo'
      PROVE  Vouched(c)'
  <2>1. CASE c \notin todo
    BY <1>4, <1>5, <2>1
  <2>2. CASE c \in todo
    <3>1. c = k /\ Advance(k)
      BY <1>2, <2>2 DEF Advance, Abort, local
    <3>2. Advance(k) => \/ k \in Watched /\ Fits(cKids[k], k, snap.spec, op)
                        \/ Fits(kids'[k], k, snap.spec, op)
      BY <1>2, <3>1 DEF Advance, Abort, local
    <3> QED BY <1>2, <3>1, <3>2 DEF Vouched
  <2> QED BY <2>1, <2>2
<1> QED BY <1>1, <1>2, <1>6 DEF SameRevision

\* The calls that read and write the children.
LEMMA LookedChild ==
  ASSUME TypeOK, RestInv, Attended, UpToDate, NEW k \in Tracked, NEW r \in Answers,
         \/ GetChild(k) \/ UpdateNotFound(k) \/ WriteConflict(k)
         \/ CreateChild(k, r) \/ UpdateChild(k, r) \/ DeleteChild(k, r)
  PROVE  Looked'
<1> USE DEF api, caches, others
<1>1. /\ kids \in [Tracked -> Child] /\ Current(k) /\ k \in todo /\ pc # "idle" /\ op' = op
      /\ UNCHANGED <<ms, cMs, cKids>>
  BY RestTypes DEF Current, GetChild, UpdateNotFound, WriteConflict, CreateChild, UpdateChild,
     DeleteChild, Answer
<1>2. ASSUME UNCHANGED kids, Abort PROVE Looked'
  BY <1>1, <1>2, LookedAdvance
<1>3. ASSUME UNCHANGED <<kids, queue, snap, todo>> PROVE Looked'
  <2> SUFFICES ASSUME ~queue', Alive', SameRevision(cMs)'
               PROVE  SameRevision(snap)' /\ \A c \in Children \ todo' : Vouched(c)'
    BY DEF Looked
  <2>1. ~queue /\ Alive /\ SameRevision(cMs)
    BY <1>1, <1>3 DEF Alive, SameRevision
  <2>2. SameRevision(snap) /\ \A c \in Children \ todo : Vouched(c)
    BY <1>1, <2>1 DEF RestInv, Looked
  <2> QED BY <1>1, <1>3, <2>2 DEF SameRevision, Vouched
<1>4. CASE GetChild(k)
  <2>1. UNCHANGED kids
    BY <1>4 DEF GetChild
  <2>2. CASE Advance(k) /\ "next" \in AfterGet(k, cKids[k])
    <3>1. ~snap.del => Fits(cKids[k], k, snap.spec, op)
      BY <2>2 DEF AfterGet, Wants, NeedsUpdate, Fits
    <3>2. k \in Watched \/ k \notin Children \/ k \in Missing \/ kids'[k] = cKids[k]
      BY <2>1 DEF Attended, UpToDate
    <3>3. k \in Children /\ k \in Missing => ~cKids[k].exists /\ ~kids'[k].exists
      BY <2>1 DEF RestInv, NoneMissing
    <3>4. ~snap.del => \/ k \in Watched /\ Fits(cKids[k], k, snap.spec, op)
                       \/ k \notin Children
                       \/ Fits(kids'[k], k, snap.spec, op)
      BY <3>1, <3>2, <3>3 DEF Fits
    <3> QED BY <1>1, <2>1, <2>2, <3>4, LookedAdvance
  <2> QED BY <1>2, <1>3, <1>4, <2>1, <2>2 DEF GetChild
<1>5. CASE UpdateNotFound(k) \/ WriteConflict(k)
  <2>1. UNCHANGED kids
    BY <1>5 DEF UpdateNotFound, WriteConflict
  <2> QED BY <1>2, <1>3, <1>5, <2>1 DEF UpdateNotFound, WriteConflict, local
<1>6. ASSUME \A c \in Tracked \ {k} : kids'[c] = kids[c], Advance(k) \/ Abort,
             Advance(k) /\ ~snap.del => k \notin Children \/ Fits(kids'[k], k, snap.spec, op)
      PROVE  Looked'
  BY <1>1, <1>6, LookedAdvance
<1>7. CASE CreateChild(k, r)
  <2>1. Wants(k)
    BY <1>1, <1>7 DEF RestInv, RunKnows, CreateChild
  <2>2. \A c \in Tracked \ {k} : kids'[c] = kids[c]
    BY <1>1, <1>7 DEF CreateChild
  <2>3. CASE r = "ok"
    <3>1. kids'[k] = BuildChild(k) /\ Advance(k)
      BY <1>1, <1>7, <2>3 DEF CreateChild, Applied
    <3>2. Fits(kids'[k], k, snap.spec, op)
      BY <2>1, <3>1 DEF BuildChild, Fits, Wants
    <3> QED BY <1>6, <2>2, <3>1, <3>2
  <2>4. CASE r # "ok"
    BY <1>1, <1>7, <2>2, <2>4, LookedAdvance DEF CreateChild
  <2> QED BY <2>3, <2>4
<1>8. CASE UpdateChild(k, r)
  <2>1. Wants(k) /\ kids[k].exists /\ kids[k] \in Child
    BY <1>1, <1>8 DEF RestInv, RunKnows, UpdateChild
  <2>2. \A c \in Tracked \ {k} : kids'[c] = kids[c]
    BY <1>1, <1>8 DEF UpdateChild
  <2>3. CASE r = "ok"
    <3>1. Advance(k) /\ kids'[k].exists /\ kids'[k].from = Content(k, snap.spec, op)
      BY <1>1, <1>8, <2>1, <2>3 DEF UpdateChild, Applied, Child
    <3>2. Fits(kids'[k], k, snap.spec, op)
      BY <2>1, <3>1 DEF Fits, Wants
    <3> QED BY <1>6, <2>2, <3>1, <3>2
  <2>4. CASE r # "ok"
    BY <1>1, <1>8, <2>2, <2>4, LookedAdvance DEF UpdateChild
  <2> QED BY <2>3, <2>4
<1>9. CASE DeleteChild(k, r)
  <2>1. ~Wants(k)
    BY <1>1, <1>9 DEF RestInv, RunKnows, DeleteChild
  <2>2. \A c \in Tracked \ {k} : kids'[c] = kids[c]
    BY <1>1, <1>9 DEF DeleteChild
  <2>3. CASE r = "ok"
    <3>1. Advance(k) /\ ~kids'[k].exists
      BY <1>1, <1>9, <2>3 DEF DeleteChild, Applied, NoChild
    <3>2. ~snap.del => Fits(kids'[k], k, snap.spec, op)
      BY <2>1, <3>1 DEF Fits, Wants
    <3> QED BY <1>6, <2>2, <3>1, <3>2
  <2>4. CASE r # "ok"
    <3>1. Abort \/ (Advance(k) /\ k \notin Children)
      BY <1>9, <2>4 DEF DeleteChild, Children
    <3> QED BY <1>1, <2>2, <3>1, LookedAdvance
  <2> QED BY <2>3, <2>4
<1> QED BY <1>4, <1>5, <1>7, <1>8, <1>9

\* The calls that read and write the service itself.
LEMMA LookedService ==
  ASSUME TypeOK, RestInv, Attended, UpToDate, Reconcile, NEW r \in Answers,
         \/ FetchService \/ FinalizerConflict \/ ObserveDecode \/ ObservePrefill
         \/ StatusUnchanged \/ PatchStatusNotFound
         \/ AddFinalizer(r) \/ RemoveFinalizer(r) \/ ReconcileFailed(r) \/ PatchStatus(r)
  PROVE  Looked'
<1> USE DEF api, caches, others
<1> SUFFICES ASSUME ~queue', Alive', SameRevision(cMs)'
             PROVE  /\ pc' # "idle" => SameRevision(snap)'
                    /\ \A k \in Children \ todo' : Vouched(k)'
  BY DEF Looked
<1>1. SameService
  BY CurrentIsSame DEF Next
<1>2. UNCHANGED <<kids, cMs, cKids, op>>
  BY DEF FetchService, FinalizerConflict, ObserveDecode, ObservePrefill, StatusUnchanged,
     PatchStatusNotFound, AddFinalizer, RemoveFinalizer, ReconcileFailed, PatchStatus, Answer
<1>3. Alive /\ SameRevision(cMs)
  BY <1>1, <1>2 DEF SameService, SameRevision, Alive
<1>4. \A k \in Children : Vouched(k) => Vouched(k)'
  BY <1>1, <1>2 DEF Vouched, SameService
<1>5. ~queue => /\ pc # "idle" => SameRevision(snap)
                /\ \A k \in Children \ todo : Vouched(k)
  BY <1>3 DEF RestInv, Looked
<1>6. CASE FetchService
  <2>1. cMs.gen # 0 /\ ~cMs.del
    BY <1>3 DEF SameRevision, Alive, RestInv, CopiesOrdered, Ordered
  <2>2. AfterFetch(cMs) # "idle"
    BY <2>1 DEF AfterFetch
  <2>3. snap' = cMs /\ todo' = Tracked
    BY <1>6, <2>1, <2>2 DEF FetchService
  <2> QED BY <1>1, <1>3, <2>3 DEF SameRevision, SameService, Children
<1>7. ASSUME pc # "idle", todo = {}, Return(FALSE)
      PROVE  /\ pc' # "idle" => SameRevision(snap)'
             /\ \A k \in Children \ todo' : Vouched(k)'
  BY <1>4, <1>5, <1>7 DEF Return, TypeOK
<1>8. ASSUME Return(TRUE)
      PROVE  FALSE
  BY <1>8 DEF Return
<1>9. CASE FinalizerConflict \/ PatchStatusNotFound \/ ReconcileFailed(r)
  BY <1>8, <1>9 DEF FinalizerConflict, PatchStatusNotFound, ReconcileFailed
<1>10. CASE StatusUnchanged
  BY <1>7, <1>10 DEF StatusUnchanged, RestInv, RunKnows
<1>11. CASE PatchStatus(r)
  <2>1. pc = "patch" /\ todo = {} /\ Return(r # "ok")
    BY <1>11 DEF PatchStatus, RestInv, RunKnows
  <2>2. Return(r # "ok") => Return(FALSE) \/ Return(TRUE)
    BY DEF Return
  <2> QED BY <1>7, <1>8, <2>1, <2>2
<1>12. CASE RemoveFinalizer(r)
  <2>1. pc = "removeFinalizer" /\ snap = ms /\ snap.del
    BY <1>12 DEF RemoveFinalizer, RestInv, RunKnows
  <2> QED BY <1>3, <2>1 DEF Alive
<1>13. CASE ObserveDecode \/ ObservePrefill
  <2>1. pc # "idle" /\ UNCHANGED <<queue, snap, todo>>
    BY <1>13 DEF ObserveDecode, ObservePrefill
  <2> QED BY <1>1, <1>4, <1>5, <2>1 DEF SameRevision, SameService
<1>14. CASE AddFinalizer(r)
  <2>1. CASE r = "ok"
    <3>1. snap' = ms' /\ UNCHANGED <<queue, todo>>
      BY <1>14, <2>1 DEF AddFinalizer
    <3> QED BY <1>4, <1>5, <3>1 DEF SameRevision
  <2>2. CASE r # "ok"
    BY <1>8, <1>14, <2>2 DEF AddFinalizer
  <2> QED BY <2>1, <2>2
<1> QED BY <1>6, <1>9, <1>10, <1>11, <1>12, <1>13, <1>14

LEMMA LookedStep ==
  ASSUME TypeOK, RestInv, Attended, [Next]_vars
  PROVE  Looked'
<1> USE DEF api, caches
<1>1. CASE Deliver \/ (UpToDate /\ Environment)
  BY <1>1, LookedCluster
<1>2. CASE UpToDate /\ Reconcile
  <2>1. PICK ok \in Answers : TRUE
    BY DEF Answers
  <2>2. ASSUME NEW k \in Tracked,
               \/ GetChild(k) \/ UpdateNotFound(k) \/ WriteConflict(k)
               \/ \E r \in Answers : CreateChild(k, r) \/ UpdateChild(k, r) \/ DeleteChild(k, r)
        PROVE  Looked'
    BY <1>2, <2>1, <2>2, LookedChild
  <2>3. ASSUME \/ FetchService \/ FinalizerConflict \/ ObserveDecode \/ ObservePrefill
               \/ StatusUnchanged \/ PatchStatusNotFound
               \/ \E r \in Answers : \/ AddFinalizer(r) \/ RemoveFinalizer(r)
                                    \/ ReconcileFailed(r) \/ PatchStatus(r)
        PROVE  Looked'
    BY <1>2, <2>1, <2>3, LookedService
  <2> QED BY <1>2, <2>2, <2>3 DEF Reconcile
<1>3. CASE Crash
  BY <1>3 DEF Crash, Looked, Alive
<1>4. CASE UNCHANGED vars
  BY <1>4 DEF vars, local, others, RestInv, Looked, Alive, SameRevision, Vouched
<1> QED BY <1>1, <1>2, <1>3, <1>4 DEF Next

LEMMA RestInit == Init => RestInv
<1> SUFFICES ASSUME Init
             PROVE  RestInv
  OBVIOUS
<1>1. /\ ms.uid = 0 /\ ms.gen = 0 /\ cMs = ms /\ snap = ms /\ pc = "idle" /\ todo = {}
      /\ MaxUid \in Nat
  BY LimitsAssumption DEF Init, Absent, Fresh
<1>2. RunKnows /\ IdleIsEmpty /\ Readable /\ CopiesOrdered /\ Looked
  BY <1>1 DEF RunKnows, IdleIsEmpty, Readable, CopiesOrdered, UidsBound, Ordered, Looked, Alive
<1>3. AllOwned /\ NoneMissing
  <2>1. PICK left \in SUBSET (Tracked \cap {"legacyPool"}) :
          kids = [k \in Tracked |-> [NoChild EXCEPT !.exists = k \in left]]
    BY DEF Init
  <2>2. \A k \in Children : ~kids[k].exists /\ kids[k].uid = 0 /\ cKids[k] = kids[k]
    BY <2>1 DEF Children, NoChild, Init
  <2> QED BY <1>1, <2>2 DEF AllOwned, Owned, NoneMissing
<1> QED BY <1>2, <1>3 DEF RestInv

\* While the service is there and the controller has nothing to do, every child is what
\* its spec asks for, over edits, recreations, failures, restarts as other versions, and
\* children that were taken away: nothing that matters goes unnoticed
\* (modelservice_controller.go:309-322).
THEOREM NeverRestsTooEarly ==
  ASSUME Attended
  PROVE  Spec => []RestsWhenDone
<1>1. TypeOK /\ RestInv /\ [Next]_vars => RestInv'
  BY KnowsStep, OrderStep, OwnedStep, MissingStep, LookedStep DEF RestInv
<1>2. TypeOK /\ RestInv => RestsWhenDone
  <2> SUFFICES ASSUME TypeOK, RestInv, AtRest, Alive,
                      \A k \in Children \ ClusterKinds : kids[k].exists => kids[k].uid = ms.uid,
                      NEW k \in Children
               PROVE  Matches(k)
    BY DEF RestsWhenDone
  <2>1. SameRevision(cMs) /\ todo = {} /\ cKids = kids
    BY DEF AtRest, SameRevision, RestInv, IdleIsEmpty
  <2>2. Vouched(k)
    BY <2>1 DEF RestInv, Looked, AtRest
  <2>3. Fits(kids[k], k, ms.spec, op)
    BY <2>1, <2>2 DEF Vouched
  <2> QED BY <2>3 DEF Fits, Matches
<1> QED BY <1>1, <1>2, RestInit, TypeCorrect, PTL DEF Spec
=============================================================================
