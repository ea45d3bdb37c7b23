------------------------------- MODULE Rollup -------------------------------
(***************************************************************************)
(* Health, internal/sim/rollup.go: how tick turns what one service sees of *)
(* itself into a local status, and how computeRollups folds the statuses   *)
(* over the dependency graph, leaves first.                                *)
(***************************************************************************)
EXTENDS Health, Sequences

CONSTANTS
  Node,     (* the services                                                *)
  Gate,     (* those with a GateHoldBudget                                 *)
  Edge,     (* the dependencies, <<parent, child>>                         *)
  Order,    (* evalOrder                                                   *)
  View      (* the metricsViews of the instance                            *)

(* What topoOrder, reversed, gives the engine (module Topology).           *)
ASSUME GraphAssumption == Gate \subseteq Node /\ Edge \subseteq Node \X Node
ASSUME OrderAssumption ==
  /\ Order \in Seq(Node)
  /\ \A n \in Node : \E i \in 1..Len(Order) : Order[i] = n
  /\ \A i, j \in 1..Len(Order) : Order[i] = Order[j] => i = j
  /\ \A i \in 1..Len(Order) : \A e \in Edge :
       e[1] = Order[i] => \E j \in 1..(i-1) : Order[j] = e[2]
ASSUME ViewAssumption == View \subseteq AnyView

(* tick: a gate's queue wait does not count, its backlog does.             *)
Local(n, v, o) ==
  IF n \in Gate THEN WorseStatus(LocalStatus([v EXCEPT !.wait = 0]), GateOccupancyStatus(o))
                ELSE LocalStatus(v)

-----------------------------------------------------------------------------
VARIABLES
  view,       (* what each service's window reduced to                     *)
  occupancy,  (* each gate's backlog                                       *)
  essential,  (* the edges whose mode is not best-effort, as tick read it  *)
  pos,        (* the loop's position in evalOrder                          *)
  out         (* the rollups so far                                        *)

captured == <<view, occupancy, essential>>
vars     == <<captured, pos, out>>

local == [n \in Node |-> Local(n, view[n], occupancy[n])]

TypeOK ==
  /\ view \in [Node -> View]
  /\ occupancy \in [Node -> Occupancy]
  /\ essential \in SUBSET Edge
  /\ pos \in 1..(Len(Order) + 1)
  /\ out \in [Node -> Status \union {"unset"}]

Init ==
  /\ view \in [Node -> View]
  /\ occupancy \in {o \in [Node -> Occupancy] : \A n \in Node \ Gate : o[n] = "slack"}
  /\ essential \in SUBSET Edge
  /\ pos = 1
  /\ out = [n \in Node |-> "unset"]

(* A child that is not evaluated yet counts as healthy.                    *)
ChildStatus(m) == IF out[m] = "unset" THEN "OK" ELSE out[m]
ChildStatuses(n, E) == {ChildStatus(m) : m \in {c \in Node : <<n, c>> \in E}}

EvaluateParentsFirst ==
  /\ pos <= Len(Order)
  /\ LET n == Order[Len(Order) + 1 - pos] IN
     out' = [out EXCEPT ![n] = RollupOne(local[n], ChildStatuses(n, essential),
                                         ChildStatuses(n, Edge \ essential))]
  /\ pos' = pos + 1
  /\ UNCHANGED captured

Evaluate ==
  /\ pos <= Len(Order)
  /\ LET n == Order[pos] IN
     out' = [out EXCEPT ![n] = RollupOne(local[n], ChildStatuses(n, essential),
                                         ChildStatuses(n, Edge \ essential))]
  /\ pos' = pos + 1
  /\ UNCHANGED captured

(* computeRollups has returned.                                            *)
Done == pos > Len(Order) /\ UNCHANGED vars

Next == Evaluate \/ Done

Spec == Init /\ [][Next]_vars

-----------------------------------------------------------------------------
(* The reference: the least set of nodes that holds the given ones and,    *)
(* with a child, each parent that reaches it over an edge of E.            *)
Closed(F, seed, E) ==
  /\ seed \subseteq F
  /\ \A e \in E : e[2] \in F => e[1] \in F
Reaching(seed, E) ==
  LET closed == {F \in SUBSET Node : Closed(F, seed, E)} IN
  {n \in Node : \A F \in closed : n \in F}

Evaluated == {n \in Node : out[n] # "unset"}
Doomed  == LET seed == {n \in Node : local[n] = "FAILING"} IN Reaching(seed, essential)
Tainted == LET seed == {n \in Node : local[n] # "OK"} IN Reaching(seed, Edge)

(* The thesis of the demo.  A node is FAILING exactly when it reaches,     *)
(* over essential edges only, a node that fails by its own symptoms: a     *)
(* best-effort edge anywhere on the way stops it, another route does not.  *)
FailingIffDoomed ==
  LET doomed == Doomed IN \A n \in Evaluated : out[n] = "FAILING" <=> n \in doomed

(* And nothing unhealthy goes unseen: a node is OK exactly when nothing it *)
(* depends on, over edges of any mode, is other than OK.                   *)
OkIffUntainted ==
  LET tainted == Tainted IN \A n \in Evaluated : out[n] = "OK" <=> n \notin tainted

(* Every node before the loop's position, and no other, has its rollup,    *)
(* and each rollup is rollupOne of the final rollups of its children.      *)
RollupInv ==
  /\ TypeOK
  /\ Evaluated = {Order[i] : i \in 1..(pos-1)}
  /\ \A n \in Evaluated :
       out[n] = RollupOne(local[n], ChildStatuses(n, essential), ChildStatuses(n, Edge \ essential))
=============================================================================
