----------------------------- MODULE MCService -----------------------------
(* Instances of Service for TLC: callers and workers are interchangeable.  *)
EXTENDS Service, TLC

Symmetry == Permutations(Caller) \union Permutations(Worker)
=============================================================================
