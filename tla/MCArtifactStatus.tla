-------------------------- MODULE MCArtifactStatus --------------------------
(***************************************************************************)
(* ArtifactStatus over bounded inputs: every list of up to MaxTerms        *)
(* terminated containers, grown one at a time, with every status of a Job  *)
(* and every previous phase and digest.                                    *)
(***************************************************************************)
EXTENDS ArtifactStatus, SequencesExt

CONSTANTS MaxTerms,  \* how many terminated containers there are
          MaxTime    \* the last finish time

ASSUME BoundsAssumption == MaxTerms \in Nat /\ MaxTime \in Nat

VARIABLES terms, job, phase, digest

vars == <<terms, job, phase, digest>>

Digests == {NoRev, [uid |-> 1, gen |-> 1]}
Messages == Digests \cup {BlankRev, [uid |-> 1, gen |-> 2]}
Terminations == [msg : Messages, at : 0 .. MaxTime]
Jobs == [exists : BOOLEAN, succeeded : 0 .. 1, failed : 0 .. 1,
         failedCond : BOOLEAN, active : 0 .. 1]

Init ==
  /\ terms = << >>
  /\ job \in Jobs
  /\ phase \in Phases
  /\ digest \in Digests

Terminates ==
  /\ Len(terms) < MaxTerms
  /\ \E t \in Terminations : terms' = Append(terms, t)
  /\ UNCHANGED <<job, phase, digest>>

Spec == Init /\ [][Terminates]_vars

(***************************************************************************)
(* extractTerminationMessage as the loop it is.                            *)
(***************************************************************************)
NothingSaid == [msg |-> NoRev, at |-> 0]

LaterTermination(latest, t) ==
  IF t.msg # NoRev /\ (latest.at = 0 \/ t.at > latest.at) THEN t ELSE latest

\* latest[i] is what the loop holds after i container statuses.
LoopTerminationMessage(ts) ==
  LET latest[i \in 0 .. Len(ts)] ==
        IF i = 0 THEN NothingSaid ELSE LaterTermination(latest[i - 1], ts[i])
  IN  TrimSpace(latest[Len(ts)].msg)

Observed == ObserveJobStatus(job, terms, phase, digest)

\* The message the model takes is the one the loop over all container statuses
\* ends with (status.go:111-131), unset finish times included.
LoopAgrees == ExtractTerminationMessage(terms) = LoopTerminationMessage(terms)

\* Pods are listed in no particular order: the digest (status.go:72) does not
\* depend on it when the finish times are known and differ.
ListOrderIrrelevant ==
  (\A i, k \in DOMAIN terms :
     terms[i].at # 0 /\ (terms[i].at = terms[k].at => i = k))
  => ExtractTerminationMessage(terms) = ExtractTerminationMessage(Reverse(terms))

\* An outcome once observed is observed again when the Job has been removed by
\* its TTL: same phase, same readiness, same digest (status.go:41-42).
OutcomeSurvivesTTL ==
  LET again == ObserveNoJob(Observed.phase, Observed.digest)
  IN  Observed.phase \in Terminal
      => /\ again.phase = Observed.phase
         /\ again.ready = Observed.ready
         /\ again.digest = Observed.digest
=============================================================================
