-------------------------- MODULE ArtifactContract --------------------------
(***************************************************************************)
(* What a ModelArtifact promises to the one who reads it: which pipelines  *)
(* run for the revisions of its spec, and what its status says of them.    *)
(* Jobs, Pods, workspaces, caches, calls and their failures are hidden;    *)
(* ArtifactRefinement says how the controller implements this.             *)
(*                                                                         *)
(* A status names its outcome after the generation it has observed, but    *)
(* may report that of an earlier one: an edit of a finished artifact is    *)
(* recorded without being run.                                             *)
(***************************************************************************)
EXTENDS ArtifactStatus

VARIABLES
  asked,    \* the revision of the artifact's spec; gen = 0: no such object
  status,   \* its phase, observedGeneration, digest and reference
  started,  \* the revisions a pipeline was started for
  working,  \* those whose pipeline is at work
  pushed    \* those in the registry

vars == <<asked, status, started, working, pushed>>

Unknown == [phase |-> "", obs |-> 0, digest |-> NoRev, ref |-> NoRev]

Init ==
  /\ asked = NoRev /\ status = Unknown
  /\ started = {} /\ working = {} /\ pushed = {}

Own(revs) == {r \in revs : r.uid = asked.uid}

Create ==
  /\ asked.gen = 0
  /\ asked' = [uid |-> asked.uid + 1, gen |-> 1]
  /\ UNCHANGED <<status, started, working, pushed>>

Edit ==
  /\ asked.gen # 0
  /\ asked' = [asked EXCEPT !.gen = @ + 1]
  /\ UNCHANGED <<status, started, working, pushed>>

Delete ==
  /\ asked.gen # 0
  /\ asked' = [asked EXCEPT !.gen = 0] /\ status' = Unknown
  /\ UNCHANGED <<started, working, pushed>>

\* One pipeline at a time, for a revision that is or was asked for, and is not in
\* the registry while it is asked for.
Start(r) ==
  /\ r.gen > 0 /\ r.uid =< asked.uid
  /\ r.uid = asked.uid /\ asked.gen # 0 => r.gen =< asked.gen /\ r \notin pushed
  /\ \A w \in working : w.uid # r.uid
  /\ started' = started \cup {r} /\ working' = working \cup {r}
  /\ UNCHANGED <<asked, status, pushed>>

\* A pipeline that was stopped may still finish its push.
Push(r) ==
  /\ r \in started
  /\ pushed' = pushed \cup {r}
  /\ UNCHANGED <<asked, status, started, working>>

Stop(r) ==
  /\ r \in working
  /\ working' = working \ {r}
  /\ UNCHANGED <<asked, status, started, pushed>>

\* What there must have been for a phase to be reported.
Grounds(phase) ==
  CASE phase = "Succeeded" -> Own(pushed)
    [] phase \in {"Failed", "Running"} -> Own(started)
    [] OTHER -> {NoRev}

Finished == status.phase \in Terminal /\ status.obs = asked.gen

\* The status moves to later generations only, tells what has happened, and keeps
\* an outcome; a digest and a reference are those of something in the registry.
Report ==
  /\ asked.gen # 0
  /\ status'.obs \in status.obs .. asked.gen
  /\ \E r \in Grounds(status'.phase) : r.gen =< status'.obs
  /\ Finished => status'.phase = status.phase
  /\ status'.digest \in Own(pushed) \cup {NoRev}
  /\ status'.digest = NoRev => status.digest = NoRev
  /\ (status'.digest = NoRev) = (status'.ref = NoRev)
  /\ UNCHANGED <<asked, started, working, pushed>>

Next ==
  \/ Create \/ Edit \/ Delete
  \/ \E r \in started' : Start(r)
  \/ \E r \in started : Push(r) \/ Stop(r)
  \/ Report

Spec == Init /\ [][Next]_vars
=============================================================================
