--------------------------- MODULE ArtifactStatus ---------------------------
(***************************************************************************)
(* What internal/modelartifact/status.go computes: the phase, the Ready    *)
(* condition and the digest of a ModelArtifact, derived from one Job, the  *)
(* Pods of that Job and the status the artifact already has.  Pure         *)
(* operators, used by ModelArtifact and checked by MCArtifactStatus.       *)
(*                                                                         *)
(* A digest is named by the revision of the spec whose pipeline produced   *)
(* it: the uid of the artifact object and its metadata.generation.  The    *)
(* wording of condition messages is left out.                              *)
(***************************************************************************)
EXTENDS Naturals, Sequences

Rev == [uid : Nat, gen : Nat]

\* The empty string, as a digest, a reference or a termination message.
NoRev == [uid |-> 0, gen |-> 0]

\* A termination message made of white space only.
BlankRev == [uid |-> 0, gen |-> 1]

Phases == {"", "Pending", "Running", "Succeeded", "Failed"}

\* The two phases the controller treats as final.
Terminal == {"Succeeded", "Failed"}

ReadyValues == {"", "True", "False", "Unknown"}

Reasons == {"", "Completed", "JobNotCreated", "Succeeded", "JobFailed",
            "JobRunning", "JobPending", "ReconcileError"}

\* The .status of a Job, as far as the controller looks at it; exists is
\* FALSE for the nil pointer FindOwnedJob returns when there is no Job.
JobStatus == [exists : BOOLEAN, succeeded : Nat, failed : Nat,
              failedCond : BOOLEAN, active : Nat]

NoJobStatus == [exists |-> FALSE, succeeded |-> 0, failed |-> 0,
                failedCond |-> FALSE, active |-> 0]

\* One terminated container: its message and the time it finished, 0 when
\* the kubelet has not set finishedAt.
Termination == [msg : Rev, at : Nat]

TrimSpace(m) == IF m = BlankRev THEN NoRev ELSE m

(***************************************************************************)
(* The loop over all container statuses keeps the first of the latest      *)
(* messages; as long as no finish time is known, the last message seen.    *)
(***************************************************************************)
\* Mutants: the last of equally late messages wins; finish times are ignored.
OutlivesLast(terms, i, k) ==
  terms[i].at > terms[k].at \/ (terms[i].at = terms[k].at /\ i >= k)
OutlivesUntimed(terms, i, k) == i >= k

Outlives(terms, i, k) ==
  \/ terms[i].at > terms[k].at
  \/ terms[i].at = terms[k].at /\ (IF terms[i].at = 0 THEN i >= k ELSE i =< k)

LatestTerminations(terms) ==
  LET Said == {i \in DOMAIN terms : terms[i].msg # NoRev}
  IN  {i \in Said : \A k \in Said : Outlives(terms, i, k)}

ExtractTerminationMessage(terms) ==
  IF LatestTerminations(terms) = {} THEN NoRev
  ELSE TrimSpace(terms[CHOOSE i \in LatestTerminations(terms) : TRUE].msg)

IsJobFailed(job) == job.failed > 0 \/ job.failedCond

Observation(phase, ready, reason, digest) ==
  [phase |-> phase, ready |-> ready, reason |-> reason, digest |-> digest]

\* Mutants: the fallback is dropped; a phase the CRD does not know.
ObserveNoJobForgets(fallbackPhase, fallbackDigest) ==
  Observation("Pending", "False", "JobNotCreated", NoRev)
ObserveNoJobUnknown(fallbackPhase, fallbackDigest) ==
  Observation("Unknown", "Unknown", "JobNotCreated", NoRev)

\* The result when no Job was found: a terminal phase is kept, as the Job may
\* have been removed by its TTL; anything else means no Job exists yet.
ObserveNoJob(fallbackPhase, fallbackDigest) ==
  IF fallbackPhase \in Terminal
  THEN Observation(fallbackPhase,
                   IF fallbackPhase = "Succeeded" THEN "True" ELSE "False",
                   "Completed", fallbackDigest)
  ELSE Observation("Pending", "False", "JobNotCreated", NoRev)

ObserveJobStatus(job, terms, fallbackPhase, fallbackDigest) ==
  CASE ~job.exists -> ObserveNoJob(fallbackPhase, fallbackDigest)
    [] job.exists /\ job.succeeded > 0 ->
         Observation("Succeeded", "True", "Succeeded",
                     ExtractTerminationMessage(terms))
    [] job.exists /\ job.succeeded = 0 /\ IsJobFailed(job) ->
         Observation("Failed", "False", "JobFailed", NoRev)
    [] job.exists /\ job.succeeded = 0 /\ ~IsJobFailed(job) /\ job.active > 0 ->
         Observation("Running", "Unknown", "JobRunning", NoRev)
    [] OTHER -> Observation("Pending", "Unknown", "JobPending", NoRev)
=============================================================================
