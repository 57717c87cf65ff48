--------------------------- MODULE MCModelArtifact ---------------------------
(***************************************************************************)
(* What the repository's comments and tests say of the ModelArtifact       *)
(* controller and its code does not do: the properties of the runs whose   *)
(* counterexamples the README explains.                                    *)
(***************************************************************************)
EXTENDS ArtifactRefinement

\* "ConditionTypeReady indicates whether the artifact pipeline has completed and
\* the OCI artifact is available in the target registry" (helpers.go:24-25): a
\* Ready condition that is True for a generation means that one was pushed.
ReadyMeansPushed ==
  ma.gen # 0 /\ ma.st.cond.status = "True"
    => [uid |-> ma.uid, gen |-> ma.st.cond.gen] \in pushed

\* "The next reconciliation loop will create the new PVC and Job"
\* (modelartifact_controller.go:126-127), "in order" (:104): EnsurePVC comes before
\* EnsureJob so that the new Job of an artifact that has not changed in the
\* meantime finds a workspace it can mount.
JobHasWorkspace ==
  [][\A j \in JobId :
       /\ jobs[j].st = "absent" /\ jobs'[j].st = "new"
       /\ Existing(jobs'[j].uid) /\ jobs'[j].gen = ma.gen
       => pvc.st = "bound"]_vars
=============================================================================
