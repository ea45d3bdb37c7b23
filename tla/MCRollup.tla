----------------------------- MODULE MCRollup -----------------------------
(* Rollup on a part of the real graph: the root, build and test, the leaf  *)
(* they share, and the gate under build.                                   *)
EXTENDS Rollup

CONSTANTS orchestrator, build, test, store, registry

Nodes == {orchestrator, build, test, store, registry}
Gates == {registry}
Edges == {<<orchestrator, build>>, <<orchestrator, test>>, <<build, store>>,
          <<build, registry>>, <<test, store>>}
LeavesFirst == <<registry, store, test, build, orchestrator>>

Seen(a, w, e) == [enough |-> a, wait |-> w, reject |-> 0, error |-> e, abandon |-> 0]
(* too few attempts, healthy, a longish wait, failing calls but no wait    *)
Views == {Seen(FALSE, 2, 2), Seen(TRUE, 0, 0), Seen(TRUE, 1, 0), Seen(TRUE, 0, 2)}
=============================================================================
