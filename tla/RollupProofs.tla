---------------------------- MODULE RollupProofs ----------------------------
(***************************************************************************)
(* What computeRollups comes to, for every graph, every evaluation order   *)
(* with children first and every combination of local statuses.            *)
(***************************************************************************)
EXTENDS Rollup, TLAPS

(* rollupOne, read as what each of its three values means.                 *)
LEMMA RollupOneMeaning ==
  ASSUME NEW l \in Status, NEW ess \in SUBSET Status, NEW other \in SUBSET Status
  PROVE  /\ RollupOne(l, ess, other) \in Status
         /\ RollupOne(l, ess, other) = "FAILING" <=> l = "FAILING" \/ "FAILING" \in ess
         /\ RollupOne(l, ess, other) = "OK" <=> l = "OK" /\ ess \union other \subseteq {"OK"}
BY DEF RollupOne, Status

LEMMA LocalIsStatus ==
  ASSUME TypeOK
  PROVE  \A n \in Node : local[n] \in Status
<1>1. ASSUME NEW n \in Node PROVE local[n] \in Status
  <2>1. local[n] = Local(n, view[n], occupancy[n]) /\ occupancy[n] \in Occupancy
    BY DEF local, TypeOK
  <2>2. \A v : LocalStatus(v) \in Status
    BY DEF LocalStatus, Status
  <2>3. GateOccupancyStatus(occupancy[n]) \in Status
    BY <2>1 DEF GateOccupancyStatus, Occupancy, Status
  <2>4. \A a, b \in Status : WorseStatus(a, b) \in Status
    BY DEF WorseStatus, Status
  <2> QED BY <2>1, <2>2, <2>3, <2>4 DEF Local
<1> QED BY <1>1

LEMMA ChildStatusIsStatus ==
  ASSUME TypeOK
  PROVE  \A n, E : ChildStatuses(n, E) \in SUBSET Status
<1>1. \A m \in Node : ChildStatus(m) \in Status
  BY DEF TypeOK, ChildStatus, Status
<1> QED BY <1>1 DEF ChildStatuses

(* Whoever is evaluated has all its children evaluated.                    *)
LEMMA ChildrenFirst ==
  ASSUME RollupInv, NEW e \in Edge, e[1] \in Evaluated
  PROVE  e[2] \in Evaluated /\ ChildStatus(e[2]) = out[e[2]]
<1>1. PICK i \in 1..(pos-1) : e[1] = Order[i]
  BY DEF RollupInv
<1>2. Len(Order) \in Nat /\ pos \in 1..(Len(Order) + 1)
  BY OrderAssumption DEF RollupInv, TypeOK
<1>3. i \in 1..Len(Order)
  BY <1>1, <1>2
<1>4. PICK j \in 1..(i-1) : Order[j] = e[2]
  BY <1>1, <1>3, OrderAssumption
<1>5. j \in 1..(pos-1)
  BY <1>1, <1>2, <1>4
<1>6. e[2] \in Evaluated
  BY <1>4, <1>5 DEF RollupInv
<1> QED BY <1>6 DEF ChildStatus, Evaluated

(* So each rollup reads: what makes it FAILING, and what makes it OK.       *)
LEMMA RollupReads ==
  ASSUME RollupInv, NEW n \in Evaluated
  PROVE  /\ out[n] = "FAILING" <=> local[n] = "FAILING" \/ "FAILING" \in ChildStatuses(n, essential)
         /\ out[n] = "OK" <=> /\ local[n] = "OK"
                             /\ ChildStatuses(n, essential)
                                  \union ChildStatuses(n, Edge \ essential) \subseteq {"OK"}
<1>1. TypeOK /\ n \in Node
  BY DEF RollupInv, Evaluated
<1>2. local[n] \in Status
  BY <1>1, LocalIsStatus
<1>3. ChildStatuses(n, essential) \in SUBSET Status
  BY <1>1, ChildStatusIsStatus
<1>4. ChildStatuses(n, Edge \ essential) \in SUBSET Status
  BY <1>1, ChildStatusIsStatus
<1>5. out[n] = RollupOne(local[n], ChildStatuses(n, essential), ChildStatuses(n, Edge \ essential))
  BY DEF RollupInv
<1> QED BY <1>2, <1>3, <1>4, <1>5, RollupOneMeaning

(***************************************************************************)
(* One direction needs no induction: the complement of the evaluated nodes *)
(* that are not FAILING (not other than OK) is closed, so it holds every   *)
(* node that is reached.                                                   *)
(***************************************************************************)
LEMMA DoomedFail == ASSUME RollupInv PROVE \A n \in Evaluated : n \in Doomed => out[n] = "FAILING"
<1> DEFINE F == {n \in Node : n \in Evaluated => out[n] = "FAILING"}
           seed == {n \in Node : local[n] = "FAILING"}
<1>0. TypeOK
  BY DEF RollupInv
<1>1. seed \subseteq F
  <2>1. ASSUME NEW n \in Node, local[n] = "FAILING", n \in Evaluated PROVE out[n] = "FAILING"
    BY <2>1, RollupReads
  <2> QED BY <2>1
<1>2. ASSUME NEW e \in essential, e[2] \in F PROVE e[1] \in F
  <2>1. e \in Edge /\ e \in Node \X Node
    BY <1>0, GraphAssumption DEF TypeOK
  <2>2. e[1] \in Node /\ e[2] \in Node /\ e = <<e[1], e[2]>>
    BY <2>1
  <2>3. ASSUME e[1] \in Evaluated PROVE out[e[1]] = "FAILING"
    <3>1. ChildStatus(e[2]) = "FAILING"
      BY <1>2, <2>1, <2>3, ChildrenFirst
    <3>2. "FAILING" \in ChildStatuses(e[1], essential)
      BY <2>2, <3>1 DEF ChildStatuses
    <3> QED
      BY <2>3, <3>2, RollupReads
  <2> QED BY <2>2, <2>3
<1>3. Closed(F, seed, essential)
  BY <1>1, <1>2 DEF Closed
<1>4. ASSUME NEW n \in Node, n \in Doomed PROVE n \in F
  <2>1. F \in SUBSET Node
    OBVIOUS
  <2> QED BY <1>3, <1>4, <2>1 DEF Doomed, Reaching
<1> QED BY <1>4 DEF Evaluated

LEMMA TaintedShow == ASSUME RollupInv PROVE \A n \in Evaluated : n \in Tainted => out[n] # "OK"
<1> DEFINE F == {n \in Node : n \in Evaluated => out[n] # "OK"}
           seed == {n \in Node : local[n] # "OK"}
<1>0. TypeOK
  BY DEF RollupInv
<1>1. seed \subseteq F
  <2>1. ASSUME NEW n \in Node, local[n] # "OK", n \in Evaluated PROVE out[n] # "OK"
    BY <2>1, RollupReads
  <2> QED BY <2>1
<1>2. ASSUME NEW e \in Edge, e[2] \in F PROVE e[1] \in F
  <2>2. e[1] \in Node /\ e[2] \in Node /\ e = <<e[1], e[2]>>
    BY GraphAssumption
  <2>3. ASSUME e[1] \in Evaluated PROVE out[e[1]] # "OK"
    <3>1. ChildStatus(e[2]) # "OK"
      BY <1>2, <2>3, ChildrenFirst
    <3>2. ChildStatus(e[2]) \in ChildStatuses(e[1], essential)
                                \union ChildStatuses(e[1], Edge \ essential)
      BY <2>2 DEF ChildStatuses
    <3> QED
      BY <2>3, <3>1, <3>2, RollupReads
  <2> QED BY <2>2, <2>3
<1>3. Closed(F, seed, Edge)
  BY <1>1, <1>2 DEF Closed
<1>4. ASSUME NEW n \in Node, n \in Tainted PROVE n \in F
  <2>1. F \in SUBSET Node
    OBVIOUS
  <2> QED BY <1>3, <1>4, <2>1 DEF Tainted, Reaching
<1> QED BY <1>4 DEF Evaluated

-----------------------------------------------------------------------------
LEMMA InitInv == Init => RollupInv
<1> SUFFICES ASSUME Init PROVE RollupInv
  OBVIOUS
<1>1. Len(Order) \in Nat
  BY OrderAssumption
<1>2. TypeOK /\ pos = 1
  BY <1>1 DEF Init, TypeOK
<1>3. Evaluated = {}
  BY DEF Init, Evaluated
<1> QED BY <1>2, <1>3 DEF RollupInv

(* What one turn of the loop does to the rollups.                          *)
LEMMA Turn ==
  ASSUME RollupInv, Evaluate
  PROVE  /\ Order[pos] \in Node /\ Order[pos] \notin Evaluated
         /\ TypeOK' /\ Evaluated' = Evaluated \union {Order[pos]}
         /\ \A m \in Node : m # Order[pos] => out'[m] = out[m]
         /\ out'[Order[pos]] = RollupOne(local[Order[pos]], ChildStatuses(Order[pos], essential),
                                         ChildStatuses(Order[pos], Edge \ essential))
<1> DEFINE n == Order[pos]
           r == RollupOne(local[n], ChildStatuses(n, essential), ChildStatuses(n, Edge \ essential))
<1>1. TypeOK /\ Len(Order) \in Nat /\ pos \in 1..Len(Order) /\ n \in Node
  BY OrderAssumption DEF RollupInv, TypeOK, Evaluate
<1>2. n \notin Evaluated
  <2>1. SUFFICES ASSUME n \in Evaluated PROVE FALSE
    OBVIOUS
  <2>2. PICK i \in 1..(pos-1) : Order[pos] = Order[i]
    BY <2>1 DEF RollupInv
  <2>3. i \in 1..Len(Order) /\ i # pos
    BY <1>1
  <2>4. \A j, k \in 1..Len(Order) : Order[j] = Order[k] => j = k
    BY OrderAssumption
  <2> QED BY <1>1, <2>2, <2>3, <2>4
<1>3. out' = [out EXCEPT ![n] = r] /\ pos' = pos + 1 /\ captured' = captured
  BY DEF Evaluate
<1>4. r \in Status
  <2>1. local[n] \in Status
    BY <1>1, LocalIsStatus
  <2>2. ChildStatuses(n, essential) \in SUBSET Status
    BY <1>1, ChildStatusIsStatus
  <2>3. ChildStatuses(n, Edge \ essential) \in SUBSET Status
    BY <1>1, ChildStatusIsStatus
  <2> QED BY <2>1, <2>2, <2>3, RollupOneMeaning
<1>5. out \in [Node -> Status \union {"unset"}]
  BY <1>1 DEF TypeOK
<1> HIDE DEF n, r
<1>6. out' \in [Node -> Status \union {"unset"}]
  BY <1>3, <1>4, <1>5
<1>7. TypeOK'
  BY <1>1, <1>3, <1>6 DEF TypeOK, captured
<1>8. out'[n] = r /\ \A m \in Node : m # n => out'[m] = out[m]
  BY <1>1, <1>3, <1>5
<1>9. Evaluated' = Evaluated \union {n}
  BY <1>1, <1>4, <1>8 DEF Evaluated, Status
<1> QED BY <1>1, <1>2, <1>7, <1>8, <1>9 DEF n, r

(* The children of an evaluated node, and of the next one, were evaluated  *)
(* before it: the turn does not touch their rollups.                       *)
LEMMA ChildrenKeep ==
  ASSUME RollupInv, Evaluate, NEW n \in Evaluated \union {Order[pos]}, NEW E \in SUBSET Edge
  PROVE  ChildStatuses(n, E)' = ChildStatuses(n, E)
<1>1. Len(Order) \in Nat /\ pos \in 1..Len(Order)
  BY OrderAssumption DEF RollupInv, TypeOK, Evaluate
<1>2. PICK i \in 1..pos : n = Order[i]
  <2>1. CASE n = Order[pos]
    BY <1>1, <2>1
  <2>2. CASE n \in Evaluated
    <3>1. PICK i \in 1..(pos-1) : n = Order[i]
      BY <2>2 DEF RollupInv
    <3> QED BY <1>1, <3>1
  <2> QED BY <2>1, <2>2
<1>3. ASSUME NEW m \in Node, <<n, m>> \in E PROVE out'[m] = out[m]
  <2>1. PICK e \in Edge : e = <<n, m>> /\ e[1] = Order[i] /\ e[2] = m
    BY <1>2, <1>3
  <2>2. i \in 1..Len(Order)
    BY <1>1, <1>2
  <2>3. PICK j \in 1..(i-1) : Order[j] = m
    <3>1. \A f \in Edge : f[1] = Order[i] => \E j \in 1..(i-1) : Order[j] = f[2]
      BY <2>2, OrderAssumption
    <3>2. \E j \in 1..(i-1) : Order[j] = e[2]
      BY <2>1, <3>1
    <3> QED BY <2>1, <3>2
  <2>4. j # pos /\ j \in 1..Len(Order)
    BY <1>1, <1>2, <2>3
  <2>5. m # Order[pos]
    <3>1. \A k, l \in 1..Len(Order) : Order[k] = Order[l] => k = l
      BY OrderAssumption
    <3> QED BY <1>1, <2>3, <2>4, <3>1
  <2> QED BY <2>5, Turn
<1>4. \A m \in {c \in Node : <<n, c>> \in E} : ChildStatus(m)' = ChildStatus(m)
  BY <1>3 DEF ChildStatus
<1> QED BY <1>4 DEF ChildStatuses

LEMMA NextInv == RollupInv /\ [Next]_vars => RollupInv'
<1> SUFFICES ASSUME RollupInv, [Next]_vars PROVE RollupInv'
  OBVIOUS
<1>1. CASE Evaluate
  <2> DEFINE n == Order[pos]
  <2>1. captured' = captured /\ essential' = essential /\ pos' = pos + 1
    BY <1>1 DEF Evaluate, captured
  <2>2. local' = local
    BY <2>1 DEF local, captured
  <2>3. essential \in SUBSET Edge /\ Edge \ essential \in SUBSET Edge
    BY DEF RollupInv, TypeOK
  <2>4. TypeOK' /\ Evaluated' = Evaluated \union {n} /\ n \notin Evaluated
    BY <1>1, Turn
  <2>5. Evaluated' = {Order[i] : i \in 1..(pos' - 1)}
    <3>1. Len(Order) \in Nat /\ pos \in 1..Len(Order)
      BY <1>1, OrderAssumption DEF RollupInv, TypeOK, Evaluate
    <3>2. 1..(pos' - 1) = 1..(pos-1) \union {pos}
      BY <2>1, <3>1
    <3> QED BY <2>4, <3>2 DEF RollupInv
  <2>6. ASSUME NEW m \in Evaluated'
        PROVE  out'[m] = RollupOne(local'[m], ChildStatuses(m, essential)',
                                   ChildStatuses(m, Edge \ essential)')
    <3>1. m \in Evaluated \union {n}
      BY <2>4, <2>6
    <3>2. ChildStatuses(m, essential)' = ChildStatuses(m, essential)
      <4>1. \A E \in SUBSET Edge : ChildStatuses(m, E)' = ChildStatuses(m, E)
        BY <1>1, <3>1, ChildrenKeep
      <4> QED BY <2>1, <2>3, <4>1 DEF ChildStatuses
    <3>3. ChildStatuses(m, Edge \ essential)' = ChildStatuses(m, Edge \ essential)
      <4>1. \A E \in SUBSET Edge : ChildStatuses(m, E)' = ChildStatuses(m, E)
        BY <1>1, <3>1, ChildrenKeep
      <4> QED BY <2>1, <2>3, <4>1 DEF ChildStatuses
    <3>4. out'[m] = RollupOne(local[m], ChildStatuses(m, essential),
                              ChildStatuses(m, Edge \ essential))
      <4>1. CASE m = n
        BY <1>1, <4>1, Turn
      <4>2. CASE m # n
        <5>1. m \in Evaluated /\ m \in Node
          BY <3>1, <4>2 DEF Evaluated
        <5> QED BY <1>1, <4>2, <5>1, Turn DEF RollupInv
      <4> QED BY <4>1, <4>2
    <3> QED BY <2>2, <3>2, <3>3, <3>4
  <2> QED BY <2>4, <2>5, <2>6 DEF RollupInv
<1>2. CASE UNCHANGED vars
  <2>1. UNCHANGED <<view, occupancy, essential, pos, out>>
    BY <1>2 DEF vars, captured
  <2>2. local' = local
    BY <2>1 DEF local
  <2>3. TypeOK'
    BY <2>1 DEF RollupInv, TypeOK
  <2>4. Evaluated' = Evaluated
    BY <2>1 DEF Evaluated
  <2>5. \A n \in Node : /\ ChildStatuses(n, essential)' = ChildStatuses(n, essential)
                        /\ ChildStatuses(n, Edge \ essential)' = ChildStatuses(n, Edge \ essential)
    BY <2>1 DEF ChildStatuses, ChildStatus
  <2>6. \A n \in Evaluated : n \in Node
    BY DEF Evaluated
  <2> QED BY <2>1, <2>2, <2>3, <2>4, <2>5, <2>6 DEF RollupInv
<1> QED BY <1>1, <1>2 DEF Next, Done

(* The loop's invariant: the rollups are those of the nodes before the     *)
(* loop's position, each one rollupOne of its children's final rollups.    *)
THEOREM Invariance == Spec => []RollupInv
BY InitInv, NextInv, PTL DEF Spec

-----------------------------------------------------------------------------
(* The other direction is by induction over the loop: a bad rollup has its *)
(* reason in the node or in a child, and the child's reason is older.      *)
Reasons ==
  \A n \in Evaluated : /\ out[n] = "FAILING" => n \in Doomed
                       /\ out[n] # "OK" => n \in Tainted

(* A node that reaches the seed: it is in it, or has a child that does.    *)
LEMMA ReachingHolds ==
  ASSUME NEW seed \in SUBSET Node, NEW E \in SUBSET Edge
  PROVE  /\ seed \subseteq Reaching(seed, E)
         /\ \A e \in E : e[2] \in Reaching(seed, E) => e[1] \in Reaching(seed, E)
<1>1. \A e \in E : e[1] \in Node
  BY GraphAssumption
<1> QED BY <1>1 DEF Reaching, Closed

LEMMA NextReasons == RollupInv /\ Reasons /\ [Next]_vars => Reasons'
<1> SUFFICES ASSUME RollupInv, Reasons, [Next]_vars PROVE Reasons'
  OBVIOUS
<1> DEFINE failed == {n \in Node : local[n] = "FAILING"}
           unwell == {n \in Node : local[n] # "OK"}
<1>0. essential \in SUBSET Edge /\ Edge \in SUBSET Edge
  BY DEF RollupInv, TypeOK
<1>1. CASE Evaluate
  <2> DEFINE n == Order[pos]
  <2>1. essential' = essential /\ local' = local
    BY <1>1 DEF Evaluate, captured, local
  <2>2. Doomed' = Doomed /\ Tainted' = Tainted
    BY <2>1 DEF Doomed, Tainted, Reaching, Closed
  <2>3. TypeOK /\ n \in Node
    BY <1>1, Turn DEF RollupInv
  <2>4. local[n] \in Status
    BY <2>3, LocalIsStatus
  <2>5. ChildStatuses(n, essential) \in SUBSET Status
    BY <2>3, ChildStatusIsStatus
  <2>6. ChildStatuses(n, Edge \ essential) \in SUBSET Status
    BY <2>3, ChildStatusIsStatus
  <2>7. out'[n] = RollupOne(local[n], ChildStatuses(n, essential), ChildStatuses(n, Edge \ essential))
    BY <1>1, Turn
  <2>8. ASSUME out'[n] = "FAILING" PROVE n \in Doomed
    <3>1. local[n] = "FAILING" \/ "FAILING" \in ChildStatuses(n, essential)
      BY <2>4, <2>5, <2>6, <2>7, <2>8, RollupOneMeaning
    <3>2. CASE local[n] = "FAILING"
      <4>1. n \in failed /\ failed \in SUBSET Node
        BY <2>3, <3>2
      <4> QED BY <1>0, <4>1, ReachingHolds DEF Doomed
    <3>3. CASE "FAILING" \in ChildStatuses(n, essential)
      <4>1. PICK c \in Node : <<n, c>> \in essential /\ ChildStatus(c) = "FAILING"
        BY <3>3 DEF ChildStatuses
      <4>2. c \in Evaluated /\ out[c] = "FAILING"
        BY <4>1 DEF ChildStatus, Evaluated
      <4>3. c \in Reaching(failed, essential)
        BY <4>2 DEF Reasons, Doomed
      <4>4. PICK e \in essential : e[1] = n /\ e[2] = c
        BY <4>1
      <4>5. n \in Reaching(failed, essential)
        <5>1. failed \in SUBSET Node
          OBVIOUS
        <5> HIDE DEF failed
        <5> QED BY <1>0, <4>3, <4>4, <5>1, ReachingHolds
      <4> QED BY <4>5 DEF Doomed
    <3> QED BY <3>1, <3>2, <3>3
  <2>9. ASSUME out'[n] # "OK" PROVE n \in Tainted
    <3>1. \/ local[n] # "OK"
          \/ ~(ChildStatuses(n, essential) \union ChildStatuses(n, Edge \ essential) \subseteq {"OK"})
      BY <2>4, <2>5, <2>6, <2>7, <2>9, RollupOneMeaning
    <3>2. CASE local[n] # "OK"
      <4>1. n \in unwell /\ unwell \in SUBSET Node
        BY <2>3, <3>2
      <4> QED BY <1>0, <4>1, ReachingHolds DEF Tainted
    <3>3. CASE ~(ChildStatuses(n, essential) \union ChildStatuses(n, Edge \ essential) \subseteq {"OK"})
      <4>1. PICK c \in Node : <<n, c>> \in Edge /\ ChildStatus(c) # "OK"
        BY <1>0, <3>3 DEF ChildStatuses
      <4>2. c \in Evaluated /\ out[c] # "OK"
        BY <4>1 DEF ChildStatus, Evaluated
      <4>3. c \in Reaching(unwell, Edge)
        BY <4>2 DEF Reasons, Tainted
      <4>4. PICK e \in Edge : e[1] = n /\ e[2] = c
        BY <4>1
      <4>5. n \in Reaching(unwell, Edge)
        <5>1. unwell \in SUBSET Node
          OBVIOUS
        <5> HIDE DEF unwell
        <5> QED BY <1>0, <4>3, <4>4, <5>1, ReachingHolds
      <4> QED BY <4>5 DEF Tainted
    <3> QED BY <3>1, <3>2, <3>3
  <2>10. ASSUME NEW m \in Evaluated, m # n PROVE out'[m] = out[m]
    <3>1. m \in Node
      BY <2>10 DEF Evaluated
    <3> QED BY <1>1, <2>10, <3>1, Turn
  <2>11. ASSUME NEW m \in Evaluated'
         PROVE  (out'[m] = "FAILING" => m \in Doomed) /\ (out'[m] # "OK" => m \in Tainted)
    <3>1. CASE m = n
      BY <2>8, <2>9, <3>1
    <3>2. CASE m # n
      <4>1. m \in Evaluated
        BY <1>1, <2>11, <3>2, Turn
      <4> QED BY <2>10, <3>2, <4>1 DEF Reasons
    <3> QED BY <3>1, <3>2
  <2> QED BY <2>2, <2>11 DEF Reasons
<1>2. CASE UNCHANGED vars
  <2>1. UNCHANGED <<view, occupancy, essential, pos, out>>
    BY <1>2 DEF vars, captured
  <2>2. local' = local
    BY <2>1 DEF local
  <2> QED BY <2>1, <2>2 DEF Reasons, Evaluated, Doomed, Tainted, Reaching, Closed
<1> QED BY <1>1, <1>2 DEF Next, Done

LEMMA ReasonsHold == Spec => []Reasons
<1>1. Init => Reasons
  BY DEF Init, Reasons, Evaluated
<1> QED BY <1>1, NextReasons, Invariance, PTL DEF Spec

(* The thesis of the demo, for every graph: FAILING is exactly what an     *)
(* unbroken chain of essential edges carries up from a failing service.    *)
THEOREM FailingSpreads == Spec => []FailingIffDoomed
<1>1. RollupInv /\ Reasons => FailingIffDoomed
  BY DoomedFail DEF Reasons, FailingIffDoomed
<1> QED BY <1>1, Invariance, ReasonsHold, PTL

(* And a node that shows OK has nothing unhealthy below it.                *)
THEOREM NothingHidden == Spec => []OkIffUntainted
<1>1. RollupInv /\ Reasons => OkIffUntainted
  BY TaintedShow DEF Reasons, OkIffUntainted
<1> QED BY <1>1, Invariance, ReasonsHold, PTL
=============================================================================
