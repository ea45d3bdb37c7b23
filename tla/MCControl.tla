----------------------------- MODULE MCControl -----------------------------
(* Control on a root and a gate below it, with two operators.              *)
EXTENDS Control

CONSTANTS o, g, op1, op2

TwoNodes  == {o, g}
OneEdge   == {<<o, g>>}
GateOnly  == {g}
NodeList  == <<g, o>>
EdgeList  == <<<<o, g>>>>
GatedEdge == [e \in OneEdge |-> "gated"]

SlowGate   == [op |-> "inject", at |-> g, mult |-> "x10", fail |-> "some"]
BestEffort == [op |-> "edge", at |-> <<o, g>>, mode |-> "best_effort"]
Clear      == [op |-> "reset"]
Slow(n)    == [op |-> "scenario", at |-> n]
Requests   == {SlowGate, BestEffort, Clear}
Scenarios  == {Slow(n) : n \in TwoNodes}
============================================================================
