--------------------------- MODULE MCModelService ---------------------------
(***************************************************************************)
(* The specs the runs of the ModelService controller let users choose      *)
(* from, and the configurations they let the operator be started with.     *)
(***************************************************************************)
EXTENDS ModelService

Spec0 == [prefill |-> FALSE, pool |-> FALSE, route |-> FALSE, monitor |-> "off", tag |-> 0]

\* A plain service, one with everything, and some with one thing more.
Plain == Spec0
Full == [prefill |-> TRUE, pool |-> TRUE, route |-> TRUE, monitor |-> "on", tag |-> 1]
Pooled == [Spec0 EXCEPT !.pool = TRUE, !.tag = 2]
Split == [Spec0 EXCEPT !.prefill = TRUE, !.tag = 4]
Monitored == [Spec0 EXCEPT !.monitor = "on", !.tag = 3]

PlainOrFull == {Plain, Full}
PlainOrPooled == {Plain, Pooled}
SplitOrMonitored == {Split, Monitored}

AllKinds == Kinds

Op0 == [version |-> 1, flags |-> 1, auth |-> TRUE, provider |-> "none", gateway |-> FALSE]

OnlyIstio == {[Op0 EXCEPT !.provider = "istio"]}
OnlyPlain == {Op0}

\* An upgrade that switches the metrics authentication off.
Upgraded == {Op0, [Op0 EXCEPT !.version = 2, !.auth = FALSE]}
=============================================================================
