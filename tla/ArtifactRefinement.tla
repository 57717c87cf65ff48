------------------------- MODULE ArtifactRefinement -------------------------
(***************************************************************************)
(* The ModelArtifact controller implements ArtifactContract.               *)
(***************************************************************************)
EXTENDS ModelArtifact

RevisionsOf(states) ==
  {[uid |-> jobs[j].uid, gen |-> jobs[j].gen] : j \in {j \in JobId : jobs[j].st \in states}}

\* A pipeline is at work from the creation of its Job to the end or the removal
\* of that.
Contract ==
  INSTANCE ArtifactContract WITH
    asked   <- [uid |-> ma.uid, gen |-> ma.gen],
    status  <- [phase |-> ma.st.phase, obs |-> ma.st.obs,
                digest |-> ma.st.digest, ref |-> ma.st.ref],
    started <- RevisionsOf({"new", "active", "succeeded", "failed", "gone"}),
    working <- RevisionsOf({"new", "active"})

\* Whatever calls fail, events are late and restarts come in between, each step of
\* the controller and its cluster is one of the contract or none (reconcile.go,
\* status.go:41-42), provided the copies of the artifact and its Jobs are up to date and
\* it is created once: a late patch may land on another artifact of its name.
HonoursContract == Contract!Spec
=============================================================================
