---------------------------- MODULE MCTopology ----------------------------
(* Instances of Topology for TLC: the names of the nodes do not matter.    *)
EXTENDS Topology, TLC

Symmetry == Permutations(Node)
=============================================================================
