------------------------------ MODULE Topology ------------------------------
(***************************************************************************)
(* internal/sim/topology.go: validateTopology's structural checks and      *)
(* topoOrder, Kahn's algorithm.  Engine.Close walks the order it returns,  *)
(* computeRollups walks its reverse.                                       *)
(*                                                                         *)
(* Nodes and edges are sets, so the checks for duplicate and dangling      *)
(* declarations have nothing to reject.  Of a node's size only whether it  *)
(* has a worker and a place in its queue is kept, for all nodes together.  *)
(* The queue of nodes that became ready is a set from which any is taken:  *)
(* the properties hold whatever order the declarations give it.            *)
(***************************************************************************)
EXTENDS Naturals, Sequences, FiniteSets

CONSTANTS
  Node,     (* the declared services                                       *)
  MaxTier   (* the tiers of the instance                                   *)

ASSUME NodeAssumption == IsFiniteSet(Node)
ASSUME TierAssumption == MaxTier \in Nat \ {0}

VARIABLES
  edges,    (* the declared dependencies, <<from, to>>                     *)
  tier,     (* nodeSpec.Tier, 0 when it was not given                      *)
  sized,    (* every node is declared with a worker and a place to queue   *)
  misgated, (* edges declared ModeGated whose target has no hold budget    *)
  step,     (* "validate", "order", or the verdict                         *)
  valid,    (* the graph passed validateTopology's own checks              *)
  indeg,    (* edges into a node whose source is not in out yet            *)
  ready,    (* Kahn's queue                                                *)
  out       (* the order so far                                            *)

graph == <<edges, tier, sized, misgated>>
vars  == <<graph, step, valid, indeg, ready, out>>

Parents(n)  == {p \in Node : <<p, n>> \in edges}
Children(n) == {m \in Node : <<n, m>> \in edges}
Placed      == {out[i] : i \in 1..Len(out)}

TypeOK ==
  /\ edges \in SUBSET (Node \X Node)
  /\ tier \in [Node -> 0..MaxTier]
  /\ sized \in BOOLEAN
  /\ misgated \in SUBSET edges
  /\ step \in {"validate", "order", "rejected", "ordered", "cycle"}
  /\ valid \in BOOLEAN
  /\ indeg \in [Node -> Nat]
  /\ ready \in SUBSET Node
  /\ out \in Seq(Node)

(* topoOrder counts the edges into each node and seeds its queue.  It is   *)
(* entered through validateTopology, or directly as its tests do.          *)
Init ==
  /\ edges \in SUBSET (Node \X Node)
  /\ tier \in [Node -> 0..MaxTier]
  /\ sized \in BOOLEAN
  /\ misgated \in SUBSET edges
  /\ step \in {"validate", "order"}
  /\ valid = FALSE
  /\ indeg = [n \in Node |-> Cardinality(Parents(n))]
  /\ ready = {n \in Node : Parents(n) = {}}
  /\ out = <<>>

(* Every node has its workers, its queue and its tier.                     *)
Declared == sized /\ \A n \in Node : tier[n] > 0

(* No self edge, every edge descends a tier, a gated edge leads to a gate. *)
SoundSameTier(e) == e[1] # e[2] /\ tier[e[2]] >= tier[e[1]] /\ e \notin misgated
Sound(e) == e[1] # e[2] /\ tier[e[2]] > tier[e[1]] /\ e \notin misgated

Validate ==
  /\ step = "validate"
  /\ valid' = (Declared /\ \A e \in edges : Sound(e))
  /\ step' = IF valid' THEN "order" ELSE "rejected"
  /\ UNCHANGED <<graph, indeg, ready, out>>

(* The children whose last edge goes when n is placed.                     *)
ReleasedEager(n) == Children(n)
Released(n) == {m \in Children(n) : indeg[m] = 1}

Visit(n) ==
  /\ step = "order"
  /\ n \in ready
  /\ out' = Append(out, n)
  /\ indeg' = [m \in Node |-> IF m \in Children(n) THEN indeg[m] - 1 ELSE indeg[m]]
  /\ ready' = (ready \ {n}) \union Released(n)
  /\ UNCHANGED <<graph, step, valid>>

(* The queue is empty: either every node was placed or a cycle is left.    *)
VerdictUnchecked == "ordered"
Verdict == IF Len(out) = Cardinality(Node) THEN "ordered" ELSE "cycle"

Finish ==
  /\ step = "order"
  /\ ready = {}
  /\ step' = Verdict
  /\ UNCHANGED <<graph, valid, indeg, ready, out>>

(* topoOrder, or validateTopology, has returned.                           *)
Returned ==
  /\ step \in {"rejected", "ordered", "cycle"}
  /\ UNCHANGED vars

Next == Validate \/ (\E n \in Node : Visit(n)) \/ Finish \/ Returned

Spec == Init /\ [][Next]_vars

-----------------------------------------------------------------------------
(* Parents first: no node is placed before one that depends on it, so      *)
(* Close never shuts a service whose callers still run, and the reverse    *)
(* order never evaluates a rollup before its children's.                   *)
ParentsFirst ==
  \A i \in 1..Len(out) : \A p \in Parents(out[i]) : \E j \in 1..(i-1) : out[j] = p

(* Acyclicity, with no reference to the algorithm: no set of nodes each of *)
(* which has a parent in it.                                               *)
Rootless(S) == \A n \in S : Parents(n) \cap S # {}
Cyclic == \E S \in SUBSET Node : S # {} /\ Rootless(S)

(* topoOrder returns an order exactly for the acyclic graphs, and then of  *)
(* every node, once.                                                       *)
DetectsCycles ==
  /\ step = "ordered" => ~Cyclic /\ Placed = Node /\ Len(out) = Cardinality(Node)
  /\ step = "cycle" => Cyclic

(* The tier check alone rules cycles out: validateTopology's last error is *)
(* unreachable.                                                            *)
TiersExcludeCycles == valid => step # "cycle"

(* Kahn's bookkeeping: a node's count is that of its unplaced parents, and *)
(* the queue holds the unplaced nodes that have none.                      *)
Open(n) == Parents(n) \ Placed
KahnInv ==
  /\ TypeOK
  /\ Cardinality(Placed) = Len(out)
  /\ \A n \in Node : indeg[n] = Cardinality(Open(n))
  /\ ready = {n \in Node : n \notin Placed /\ Open(n) = {}}
  /\ ParentsFirst
  /\ \A S \in SUBSET Node : Rootless(S) => S \cap Placed = {}
  /\ valid => Declared /\ \A e \in edges : Sound(e)
  /\ step \in {"ordered", "cycle"} => ready = {} /\ (step = "ordered" <=> Len(out) = Cardinality(Node))
=============================================================================
