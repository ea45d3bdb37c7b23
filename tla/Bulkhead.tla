------------------------------ MODULE Bulkhead ------------------------------
(***************************************************************************)
(* What a service promises its callers, whatever goes on behind it: a call *)
(* is either refused outright, or the service owes it a piece of work until *)
(* it has been dealt with; it owes no more than its capacity; a caller may *)
(* leave early, and one that gets an answer gets its own, when the work is *)
(* over.  No queue, no worker, no latch, no context (internal/sim/         *)
(* service.go, the comments on call, gatedCall and job).                   *)
(***************************************************************************)
EXTENDS Naturals, FiniteSets

CONSTANTS
  Caller,
  Capacity    (* how many calls the service owes work to at most           *)

VARIABLES
  open,       (* calls are taken                                           *)
  phase,      (* each caller: "out", "asking", "waiting"                   *)
  owed,       (* the callers the service owes work to, those gone included *)
  outcome     (* what the last call of each returned, or "none"            *)

vars == <<open, phase, owed, outcome>>

Init ==
  /\ open = TRUE
  /\ phase = [c \in Caller |-> "out"]
  /\ owed = {}
  /\ outcome = [c \in Caller |-> "none"]

Call(c) ==
  /\ open
  /\ phase[c] = "out" /\ c \notin owed
  /\ phase' = [phase EXCEPT ![c] = "asking"]
  /\ outcome' = [outcome EXCEPT ![c] = "none"]
  /\ UNCHANGED <<open, owed>>

Refuse(c) ==
  /\ phase[c] = "asking"
  /\ phase' = [phase EXCEPT ![c] = "out"]
  /\ outcome' = [outcome EXCEPT ![c] = "full"]
  /\ UNCHANGED <<open, owed>>

Accept(c) ==
  /\ phase[c] = "asking"
  /\ Cardinality(owed) < Capacity
  /\ phase' = [phase EXCEPT ![c] = "waiting"]
  /\ owed' = owed \union {c}
  /\ UNCHANGED <<open, outcome>>

DealtWith(c) ==
  /\ c \in owed
  /\ owed' = owed \ {c}
  /\ UNCHANGED <<open, phase, outcome>>

Return(c, o) ==
  /\ phase[c] = "waiting"
  /\ o \in {"answered", "dropped"} => c \notin owed
  /\ phase' = [phase EXCEPT ![c] = "out"]
  /\ outcome' = [outcome EXCEPT ![c] = o]
  /\ UNCHANGED <<open, owed>>

Close ==
  /\ open
  /\ \A c \in Caller : phase[c] = "out"
  /\ open' = FALSE
  /\ UNCHANGED <<phase, owed, outcome>>

Next ==
  \/ \E c \in Caller : Call(c) \/ Refuse(c) \/ Accept(c) \/ DealtWith(c)
  \/ \E c \in Caller, o \in {"answered", "dropped", "gave_up", "promoted"} : Return(c, o)
  \/ Close

Spec == Init /\ [][Next]_vars
=============================================================================
