------------------------ MODULE ArtifactStatus_proofs ------------------------
(***************************************************************************)
(* What status.go computes, for every list of container statuses: the loop *)
(* of extractTerminationMessage ends with the message the model takes,     *)
(* whatever the number of containers and their finish times; the order of  *)
(* the list does not matter where the times tell them apart; and an        *)
(* outcome is observed again when its Job is gone.                         *)
(***************************************************************************)
EXTENDS MCArtifactStatus, SequenceTheorems, WellFoundedInduction, TLAPS

Before == {pair \in Nat \X Nat : pair[1] < pair[2]}

LEMMA BeforeWellFounded == IsWellFoundedOn(Before, Nat)
<1>1. OpToRel(<, Nat) = Before
  BY DEF OpToRel, Before
<1> QED BY <1>1, NatLessThanWellFounded

\* Every set of numbers that is not empty has a least one: the induction over the
\* length of a list is by the least length at which a claim fails.
LEMMA LeastNumber ==
  ASSUME NEW T, T \subseteq Nat, T # {}
  PROVE  \E x \in T : \A y \in T : x =< y
<1>1. \E x \in T : \A y \in T : ~(<<y, x>> \in Before)
  BY BeforeWellFounded, WFMin, Zenon
<1> PICK x \in T : \A y \in T : ~(<<y, x>> \in Before)
  BY <1>1
<1>2. \A y \in T : x =< y
  <2> TAKE y \in T
  <2>1. x \in Nat /\ y \in Nat /\ <<y, x>> \notin Before
    OBVIOUS
  <2>2. ~(y < x)
    BY <2>1 DEF Before
  <2> QED BY <2>1, <2>2
<1> QED BY <1>2

(***************************************************************************)
(* The loop.                                                               *)
(***************************************************************************)
IsLoop(ts, n, g) ==
  g = [i \in 0 .. n |-> IF i = 0 THEN NothingSaid ELSE LaterTermination(g[i - 1], ts[i])]

\* The loop can be run over every list.
LEMMA LoopRuns ==
  ASSUME NEW ts, NEW n \in Nat
  PROVE  \E g : IsLoop(ts, n, g)
<1> DEFINE Stuck == {m \in Nat : ~ \E g : IsLoop(ts, m, g)}
<1> SUFFICES ASSUME Stuck # {} PROVE FALSE
  OBVIOUS
<1>1. PICK m \in Stuck : \A k \in Stuck : m =< k
  BY LeastNumber
<1>2. CASE m = 0
  <2>1. IsLoop(ts, 0, [i \in 0 .. 0 |-> NothingSaid])
    BY DEF IsLoop
  <2> QED BY <1>2, <2>1
<1>3. CASE m # 0
  <2>1. m - 1 \in Nat /\ m - 1 \notin Stuck
    BY <1>1, <1>3
  <2>2. PICK g : IsLoop(ts, m - 1, g)
    BY <2>1
  <2> DEFINE h == [i \in 0 .. m |-> IF i = m THEN LaterTermination(g[m - 1], ts[m]) ELSE g[i]]
  <2>3. \A i \in 0 .. m :
          h[i] = IF i = 0 THEN NothingSaid ELSE LaterTermination(h[i - 1], ts[i])
    <3> TAKE i \in 0 .. m
    <3>1. CASE i = m
      <4>1. h[m] = LaterTermination(g[m - 1], ts[m]) /\ h[m - 1] = g[m - 1]
        BY <1>3
      <4> QED BY <3>1, <4>1, <1>3
    <3>2. CASE i # m
      <4>1. i \in 0 .. m - 1 /\ h[i] = g[i] /\ (i # 0 => h[i - 1] = g[i - 1])
        BY <3>2
      <4>2. g[i] = IF i = 0 THEN NothingSaid ELSE LaterTermination(g[i - 1], ts[i])
        BY <4>1, <2>2 DEF IsLoop
      <4> QED BY <4>1, <4>2
    <3> QED BY <3>1, <3>2
  <2>4. IsLoop(ts, m, h)
    BY <2>3 DEF IsLoop
  <2> QED BY <2>4
<1> QED BY <1>2, <1>3

SaidUpTo(ts, i) == {k \in 1 .. i : ts[k].msg # NoRev}

\* After i container statuses the loop holds the one among them that outlives the others.
Holds(ts, i, latest) ==
  \/ SaidUpTo(ts, i) = {} /\ latest = NothingSaid
  \/ \E k \in SaidUpTo(ts, i) :
       latest = ts[k] /\ \A q \in SaidUpTo(ts, i) : Outlives(ts, k, q)

LEMMA LoopStep ==
  ASSUME NEW ts \in Seq(Termination), NEW i \in 1 .. Len(ts), NEW latest,
         Holds(ts, i - 1, latest)
  PROVE  Holds(ts, i, LaterTermination(latest, ts[i]))
<1> DEFINE old == SaidUpTo(ts, i - 1)
           new == SaidUpTo(ts, i)
<1>1. \A k \in 1 .. i : ts[k] \in Termination /\ ts[k].at \in Nat
  <2> TAKE k \in 1 .. i
  <2>1. k \in 1 .. Len(ts) /\ Len(ts) \in Nat
    OBVIOUS
  <2>2. ts[k] \in Termination
    BY <2>1, ElementOfSeq
  <2> QED BY <2>2 DEF Termination
<1>2. new = IF ts[i].msg # NoRev THEN old \cup {i} ELSE old
  <2>1. \A k : k \in 1 .. i <=> k \in 1 .. i - 1 \/ k = i
    OBVIOUS
  <2>2. \A k : k \in new <=> k \in old \/ (k = i /\ ts[i].msg # NoRev)
    BY <2>1 DEF SaidUpTo
  <2> QED BY <2>2
<1>3. \A k \in old : k \in 1 .. i - 1
  BY DEF SaidUpTo
<1>4. CASE ts[i].msg = NoRev
  BY <1>2, <1>4 DEF Holds, LaterTermination
<1>5. CASE ts[i].msg # NoRev /\ old = {} /\ latest = NothingSaid
  <2>1. LaterTermination(latest, ts[i]) = ts[i]
    BY <1>5 DEF LaterTermination, NothingSaid
  <2>2. new = {i} /\ Outlives(ts, i, i)
    BY <1>2, <1>5 DEF Outlives
  <2> QED BY <2>1, <2>2 DEF Holds
<1>6. CASE ts[i].msg # NoRev /\ \E k \in old : latest = ts[k] /\ \A q \in old : Outlives(ts, k, q)
  <2>1. PICK k \in old : latest = ts[k] /\ \A q \in old : Outlives(ts, k, q)
    BY <1>6
  <2>2. new = old \cup {i} /\ k \in 1 .. i - 1
    BY <1>2, <1>3, <1>6
  <2>3. CASE ts[k].at = 0 \/ ts[i].at > ts[k].at
    <3>1. LaterTermination(latest, ts[i]) = ts[i]
      BY <1>6, <2>1, <2>3 DEF LaterTermination
    <3>2. \A q \in old : Outlives(ts, i, q)
      BY <1>1, <1>3, <2>1, <2>2, <2>3 DEF Outlives
    <3>3. Outlives(ts, i, i)
      BY DEF Outlives
    <3> QED BY <2>2, <3>1, <3>2, <3>3 DEF Holds
  <2>4. CASE ts[k].at # 0 /\ ~(ts[i].at > ts[k].at)
    <3>1. LaterTermination(latest, ts[i]) = ts[k]
      BY <2>1, <2>4 DEF LaterTermination
    <3>2. Outlives(ts, k, i)
      BY <1>1, <2>2, <2>4 DEF Outlives
    <3> QED BY <2>1, <2>2, <3>1, <3>2 DEF Holds
  <2> QED BY <2>3, <2>4
<1> QED BY <1>4, <1>5, <1>6 DEF Holds

LEMMA LoopHolds ==
  ASSUME NEW ts \in Seq(Termination), NEW g, IsLoop(ts, Len(ts), g)
  PROVE  Holds(ts, Len(ts), g[Len(ts)])
<1> DEFINE Wrong == {m \in 0 .. Len(ts) : ~ Holds(ts, m, g[m])}
<1>0. Len(ts) \in Nat
  OBVIOUS
<1> SUFFICES ASSUME Wrong # {} PROVE FALSE
  BY <1>0
<1>1. PICK m \in Wrong : \A k \in Wrong : m =< k
  <2>1. Wrong \subseteq Nat
    BY <1>0
  <2> HIDE DEF Wrong
  <2> QED BY <2>1, LeastNumber
<1>2. m # 0
  <2>1. g[0] = NothingSaid
    BY <1>0 DEF IsLoop
  <2>2. SaidUpTo(ts, 0) = {}
    BY DEF SaidUpTo
  <2> QED BY <2>1, <2>2 DEF Holds
<1>3. m \in 1 .. Len(ts) /\ m - 1 \in 0 .. Len(ts) /\ m - 1 \notin Wrong
  BY <1>0, <1>1, <1>2
<1>4. g[m] = LaterTermination(g[m - 1], ts[m])
  BY <1>3 DEF IsLoop
<1> QED BY <1>3, <1>4, LoopStep

(***************************************************************************)
(* The message the model takes.                                            *)
(***************************************************************************)
\* Of two containers only one outlives the other.
LEMMA OutlivesApart ==
  ASSUME NEW ts \in Seq(Termination), NEW i \in DOMAIN ts, NEW k \in DOMAIN ts,
         Outlives(ts, i, k), Outlives(ts, k, i)
  PROVE  i = k
<1>1. i \in Nat /\ k \in Nat
  BY LenProperties
<1>2. ts[i].at \in Nat /\ ts[k].at \in Nat
  <2>1. ts[i] \in Termination /\ ts[k] \in Termination
    BY LenProperties, ElementOfSeq
  <2> QED BY <2>1 DEF Termination
<1> QED BY <1>1, <1>2 DEF Outlives

\* The choice of the model is no choice: there is one latest message, if any.
LEMMA OneLatest ==
  ASSUME NEW ts \in Seq(Termination), NEW k \in LatestTerminations(ts)
  PROVE  ExtractTerminationMessage(ts) = TrimSpace(ts[k].msg)
<1>1. \A q \in LatestTerminations(ts) : q = k
  BY OutlivesApart DEF LatestTerminations
<1>2. (CHOOSE q \in LatestTerminations(ts) : TRUE) = k
  BY <1>1
<1> QED BY <1>2 DEF ExtractTerminationMessage

LEMMA SaidIs ==
  ASSUME NEW ts \in Seq(Termination)
  PROVE  {k \in DOMAIN ts : ts[k].msg # NoRev} = SaidUpTo(ts, Len(ts))
BY LenProperties DEF SaidUpTo

\* The loop over a list of any length ends with the message the model takes.
LEMMA LoopIsExtract ==
  ASSUME NEW ts \in Seq(Termination)
  PROVE  /\ LoopTerminationMessage(ts) = ExtractTerminationMessage(ts)
         /\ SaidUpTo(ts, Len(ts)) # {} => LatestTerminations(ts) # {}
<1> DEFINE g == CHOOSE f : IsLoop(ts, Len(ts), f)
<1>1. IsLoop(ts, Len(ts), g)
  <2>1. Len(ts) \in Nat
    BY LenProperties
  <2> QED BY <2>1, LoopRuns
<1>2. LoopTerminationMessage(ts) = TrimSpace(g[Len(ts)].msg)
  BY DEF LoopTerminationMessage, IsLoop
<1> HIDE DEF g
<1>3. Holds(ts, Len(ts), g[Len(ts)])
  BY <1>1, LoopHolds
<1>4. CASE SaidUpTo(ts, Len(ts)) = {} /\ g[Len(ts)] = NothingSaid
  <2>1. LatestTerminations(ts) = {}
    BY <1>4, SaidIs DEF LatestTerminations
  <2>2. TrimSpace(NoRev) = NoRev
    BY DEF TrimSpace
  <2> QED BY <1>2, <1>4, <2>1, <2>2 DEF ExtractTerminationMessage, NothingSaid
<1>5. CASE \E k \in SaidUpTo(ts, Len(ts)) :
             /\ g[Len(ts)] = ts[k]
             /\ \A q \in SaidUpTo(ts, Len(ts)) : Outlives(ts, k, q)
  <2>1. PICK k \in SaidUpTo(ts, Len(ts)) :
           /\ g[Len(ts)] = ts[k]
           /\ \A q \in SaidUpTo(ts, Len(ts)) : Outlives(ts, k, q)
    BY <1>5
  <2>2. k \in LatestTerminations(ts)
    BY <2>1, SaidIs DEF LatestTerminations
  <2> QED BY <1>2, <2>1, <2>2, OneLatest
<1> QED BY <1>3, <1>4, <1>5 DEF Holds

\* Turning a list round does not change the message if the finish times are known
\* and differ.
LEMMA ReverseKeepsMessage ==
  ASSUME NEW ts \in Seq(Termination),
         \A i, k \in DOMAIN ts : ts[i].at # 0 /\ (ts[i].at = ts[k].at => i = k)
  PROVE  ExtractTerminationMessage(ts) = ExtractTerminationMessage(Reverse(ts))
<1> DEFINE n == Len(ts)
           rs == Reverse(ts)
<1>1. n \in Nat /\ DOMAIN ts = 1 .. n /\ \A i \in 1 .. n : ts[i] \in Termination
  BY LenProperties, ElementOfSeq
<1>2. rs = [i \in 1 .. n |-> ts[(n - i) + 1]]
  BY DEF Reverse
<1> HIDE DEF n, rs
<1>3. \A i \in 1 .. n : (n - i) + 1 \in 1 .. n /\ (n - ((n - i) + 1)) + 1 = i
  BY <1>1
<1>4. /\ rs \in Seq(Termination) /\ DOMAIN rs = 1 .. n
      /\ \A i \in 1 .. n : rs[i] = ts[(n - i) + 1]
  <2>1. \A i \in 1 .. n : ts[(n - i) + 1] \in Termination
    BY <1>1, <1>3
  <2> QED BY <1>1, <1>2, <2>1
<1>5. CASE LatestTerminations(ts) = {}
  <2>1. \A i \in 1 .. n : ts[i].msg = NoRev
    BY <1>1, <1>5, LoopIsExtract DEF SaidUpTo, n
  <2>2. LatestTerminations(rs) = {}
    BY <1>3, <1>4, <2>1 DEF LatestTerminations
  <2> QED BY <1>5, <2>2 DEF ExtractTerminationMessage, rs
<1>6. ASSUME NEW k \in LatestTerminations(ts)
      PROVE  ExtractTerminationMessage(ts) = ExtractTerminationMessage(rs)
  <2> DEFINE r == (n - k) + 1
  <2>1. /\ k \in 1 .. n /\ ts[k].msg # NoRev
        /\ \A q \in 1 .. n : ts[q].msg # NoRev => Outlives(ts, k, q)
    BY <1>1 DEF LatestTerminations
  <2>2. r \in 1 .. n /\ rs[r] = ts[k]
    BY <1>3, <1>4, <2>1
  <2> HIDE DEF r
  <2>3. ASSUME NEW q \in 1 .. n, rs[q].msg # NoRev
        PROVE  Outlives(rs, r, q)
    <3> DEFINE p == (n - q) + 1
    <3>1. p \in 1 .. n /\ rs[q] = ts[p] /\ q = (n - p) + 1
      BY <1>3, <1>4
    <3> HIDE DEF p
    <3>2. Outlives(ts, k, p)
      BY <2>1, <2>3, <3>1
    <3>3. CASE ts[k].at > ts[p].at
      BY <2>2, <3>1, <3>3 DEF Outlives
    <3>4. CASE ts[k].at = ts[p].at
      <4>1. k = p
        BY <1>1, <2>1, <3>1, <3>4
      <4>2. r = q
        BY <3>1, <4>1 DEF r
      <4> QED BY <1>1, <2>2, <4>2 DEF Outlives
    <3> QED BY <3>2, <3>3, <3>4 DEF Outlives
  <2>4. r \in LatestTerminations(rs)
    BY <1>4, <2>1, <2>2, <2>3 DEF LatestTerminations
  <2> QED BY <1>4, <2>2, <2>4, OneLatest
<1> QED BY <1>5, <1>6 DEF rs

(***************************************************************************)
(* The properties of MCArtifactStatus, for all bounds.                     *)
(***************************************************************************)
Typed == terms \in Seq(Terminations) /\ job \in Jobs /\ phase \in Phases

LEMMA AlwaysTyped == Spec => []Typed
<1>1. Init => Typed
  BY DEF Init, Typed
<1>2. Typed /\ [Terminates]_vars => Typed'
  <2> SUFFICES ASSUME Typed, [Terminates]_vars PROVE Typed'
    OBVIOUS
  <2>1. CASE Terminates
    <3>1. PICK t \in Terminations : terms' = Append(terms, t)
      BY <2>1 DEF Terminates
    <3>2. terms' \in Seq(Terminations)
      BY <3>1, AppendProperties DEF Typed
    <3> QED BY <2>1, <3>2 DEF Terminates, Typed
  <2>2. CASE UNCHANGED vars
    BY <2>2 DEF vars, Typed
  <2> QED BY <2>1, <2>2
<1> QED BY <1>1, <1>2, PTL DEF Spec

LEMMA TerminationsAre == Terminations \subseteq Termination
BY BoundsAssumption DEF Terminations, Termination, Messages, Digests, Rev, NoRev, BlankRev

LEMMA TermsAre == ASSUME Typed PROVE terms \in Seq(Termination)
<1>1. Len(terms) \in Nat /\ DOMAIN terms = 1 .. Len(terms)
  BY LenProperties DEF Typed
<1>2. \A i \in 1 .. Len(terms) : terms[i] \in Termination
  BY ElementOfSeq, TerminationsAre DEF Typed
<1>3. terms = [i \in 1 .. Len(terms) |-> terms[i]]
  BY DEF Typed
<1> QED BY <1>1, <1>2, <1>3

\* The message the model takes is the one the loop over all container statuses ends
\* with, for lists of any length (LoopAgrees; status.go:111-131).
THEOREM LoopAlwaysAgrees == Spec => []LoopAgrees
<1>1. Typed => LoopAgrees
  BY TermsAre, LoopIsExtract DEF LoopAgrees
<1> QED BY AlwaysTyped, <1>1, PTL

\* The digest does not depend on the order of the list when the finish times are known
\* and differ (ListOrderIrrelevant; status.go:72).
THEOREM ListOrderNeverMatters == Spec => []ListOrderIrrelevant
<1>1. Typed => ListOrderIrrelevant
  BY TermsAre, ReverseKeepsMessage DEF ListOrderIrrelevant
<1> QED BY AlwaysTyped, <1>1, PTL

\* An outcome is observed again when the Job is gone (OutcomeSurvivesTTL;
\* status.go:41-42).
THEOREM OutcomeAlwaysSurvives == Spec => []OutcomeSurvivesTTL
<1>1. Typed => OutcomeSurvivesTTL
  <2> SUFFICES ASSUME Typed, Observed.phase \in Terminal
               PROVE  LET again == ObserveNoJob(Observed.phase, Observed.digest)
                      IN  /\ again.phase = Observed.phase
                          /\ again.ready = Observed.ready
                          /\ again.digest = Observed.digest
    BY DEF OutcomeSurvivesTTL
  <2>1. CASE ~job.exists
    BY <2>1 DEF Observed, ObserveJobStatus, ObserveNoJob, Observation, Terminal
  <2>2. CASE job.exists /\ job.succeeded > 0
    BY <2>2 DEF Observed, ObserveJobStatus, ObserveNoJob, Observation, Terminal
  <2>3. CASE job.exists /\ ~(job.succeeded > 0)
    <3>1. job.succeeded = 0
      BY <2>3 DEF Typed, Jobs
    <3> QED BY <2>3, <3>1 DEF Observed, ObserveJobStatus, ObserveNoJob, Observation, Terminal
  <2> QED BY <2>1, <2>2, <2>3
<1> QED BY AlwaysTyped, <1>1, PTL
=============================================================================
