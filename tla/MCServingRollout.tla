-------------------------- MODULE MCServingRollout --------------------------
(***************************************************************************)
(* The names, specs and operators of the runs of ServingRollout.           *)
(***************************************************************************)
EXTENDS ServingRollout

\* The EPP of service "a" has the name of its neighbour.
ServedNames == {<< "a" >>}
NeighbourNames == {<< "a", "-", "epp" >>}
OneNamespace == << "m" >>

Spec0 == [prefill |-> FALSE, pool |-> FALSE, route |-> FALSE, monitor |-> "unset",
          portName |-> "unset", tag |-> 0, enginePort |-> 0, proxy |-> FALSE, targetPort |-> 0,
          eppPort |-> 0, eppReplicas |-> 1, sideChannel |-> 0, model |-> TRUE,
          pullSecret |-> FALSE]

\* Everything by default, and everything set.
Plain == Spec0
Full == [Spec0 EXCEPT !.prefill = TRUE, !.pool = TRUE, !.route = TRUE, !.monitor = "on",
                      !.portName = "nixl-side", !.enginePort = 8100, !.proxy = TRUE,
                      !.targetPort = 8300, !.eppPort = 9005, !.eppReplicas = 2,
                      !.sideChannel = 5600, !.pullSecret = TRUE]

TwoSpecs == {Plain, Full}

Op0 == [version |-> 1, build |-> 1, flags |-> 1, kit |-> TRUE, auth |-> TRUE,
        provider |-> "istio", gateway |-> TRUE]

\* Another build under the same version label; another version, with other flags.
Released == << Op0, [Op0 EXCEPT !.build = 2],
               [Op0 EXCEPT !.version = 2, !.build = 2, !.flags = 2, !.auth = FALSE] >>
=============================================================================
