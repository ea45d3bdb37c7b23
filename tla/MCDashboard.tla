---------------------------- MODULE MCDashboard ----------------------------
(* Dashboard with one slot and two connections, so that a handler that     *)
(* lingers on a dark connection keeps the page's next one out.             *)
EXTENDS Dashboard, TLC
=============================================================================
