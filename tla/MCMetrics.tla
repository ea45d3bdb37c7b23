----------------------------- MODULE MCMetrics -----------------------------
(* Metrics with three of a service's slices and the runs', two recorders.  *)
EXTENDS Metrics, TLC

Served(t, b, d) == [slice |-> "completed", took |-> t, bad |-> b, degraded |-> d, rc |-> FALSE]
Waited(t)       == [slice |-> "waits", took |-> t, bad |-> FALSE, degraded |-> FALSE, rc |-> FALSE]
Shed            == [slice |-> "rejected", took |-> 0, bad |-> FALSE, degraded |-> FALSE, rc |-> FALSE]
Run(b, rc)      == [slice |-> "runs", took |-> 1, bad |-> b, degraded |-> FALSE, rc |-> rc]
Samples         == {Served(1, FALSE, TRUE), Served(2, TRUE, FALSE), Waited(1), Waited(3), Shed,
                    Run(TRUE, FALSE), Run(FALSE, TRUE)}
Symmetry        == Permutations(Recorder)
=============================================================================
