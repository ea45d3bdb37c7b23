-------------------------------- MODULE Feed --------------------------------
(***************************************************************************)
(* What the engine promises whoever reads its snapshots (Controller.       *)
(* Snapshot, internal/sim/contract.go), and all that module Stream's       *)
(* counter of events and module Viewer's Events take of it: event IDs      *)
(* count up from one, a snapshot shows the newest Size of them up to its   *)
(* latest, and its latest never goes back.                                 *)
(***************************************************************************)
EXTENDS Naturals

CONSTANT Size

VARIABLES
  last,     (* the latest event's ID                                       *)
  shown     (* the IDs of the events that the snapshot carries             *)

Newest(k) == {id \in 1..k : id + Size > k}

Init == last = 1 /\ shown = Newest(1)

Happen == last' = last + 1 /\ UNCHANGED shown

(* The copy may be behind, by whatever has happened since it was taken.    *)
Publish ==
  /\ \E k \in 1..last : shown' = Newest(k) /\ \A id \in shown : id <= k
  /\ UNCHANGED last

Next == Happen \/ Publish

Spec == Init /\ [][Next]_<<last, shown>>
=============================================================================
