------------------------------- MODULE Health -------------------------------
(***************************************************************************)
(* The pure functions of internal/sim/rollup.go.  A rate or a wait is      *)
(* abstracted to its level: 0 up to the degraded threshold, 1 above it, 2  *)
(* above the failing threshold.                                            *)
(***************************************************************************)
EXTENDS Naturals

Status == {"OK", "DEGRADED", "FAILING"}

Level == 0..2
AnyView == [enough : BOOLEAN, wait : Level, reject : Level, error : Level, abandon : Level]

(* fewer than minAttempts in the window: nothing is concluded              *)
LocalStatus(v) ==
  LET worst == {v.wait, v.reject, v.error, v.abandon} IN
  IF ~v.enough THEN "OK"
  ELSE IF 2 \in worst THEN "FAILING"
  ELSE IF 1 \in worst THEN "DEGRADED" ELSE "OK"

(* A gate's backlog: "shedding" is the latch, "deep" at least              *)
(* gateDegradedFraction of the capacity, "slack" less.                     *)
Occupancy == {"slack", "deep", "shedding"}
GateOccupancyStatus(o) ==
  CASE o = "shedding" -> "FAILING" [] o = "deep" -> "DEGRADED" [] o = "slack" -> "OK"

WorseStatus(a, b) == IF "FAILING" \in {a, b} THEN "FAILING"
                     ELSE IF "DEGRADED" \in {a, b} THEN "DEGRADED" ELSE "OK"

(* rollupOne, on the statuses of the essential and of the other children.  *)
RollupOneUncapped(local, ess, other) ==
  IF local = "FAILING" \/ "FAILING" \in ess \union other THEN "FAILING"
  ELSE IF local = "DEGRADED" \/ "DEGRADED" \in ess \union other THEN "DEGRADED"
  ELSE "OK"
RollupOneDeaf(local, ess, other) ==
  IF local = "FAILING" \/ "FAILING" \in ess THEN "FAILING"
  ELSE IF local = "DEGRADED" \/ "DEGRADED" \in ess \union other THEN "DEGRADED"
  ELSE "OK"
RollupOne(local, ess, other) ==
  IF local = "FAILING" \/ "FAILING" \in ess THEN "FAILING"
  ELSE IF local = "DEGRADED" \/ "DEGRADED" \in ess \/ other \cap {"DEGRADED", "FAILING"} # {}
  THEN "DEGRADED" ELSE "OK"
=============================================================================
