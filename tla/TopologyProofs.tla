-------------------------- MODULE TopologyProofs --------------------------
(***************************************************************************)
(* Kahn's algorithm on every finite graph: the order it returns is         *)
(* parents first, and it reports a cycle exactly when there is one.        *)
(***************************************************************************)
EXTENDS Topology, SequenceTheorems, FiniteSetTheorems, WellFoundedInduction,
        NaturalsInduction, TLAPS

USE NodeAssumption, TierAssumption

LEMMA FiniteParents ==
  ASSUME NEW n
  PROVE  IsFiniteSet(Open(n)) /\ IsFiniteSet(Parents(n)) /\ IsFiniteSet(Placed \cap Node)
<1>1. Parents(n) \in SUBSET Node /\ Open(n) \in SUBSET Node /\ Placed \cap Node \in SUBSET Node
  BY DEF Parents, Open
<1> QED BY <1>1, FS_Subset

LEMMA InitKahn == Init => KahnInv
<1> SUFFICES ASSUME Init PROVE KahnInv
  OBVIOUS
<1>1. out = <<>> /\ Len(out) = 0 /\ out \in Seq(Node) /\ Placed = {}
  BY DEF Init, Placed
<1>2. TypeOK
  <2>1. \A n \in Node : Cardinality(Parents(n)) \in Nat
    BY FiniteParents, FS_CardinalityType
  <2> QED BY <1>1, <2>1 DEF Init, TypeOK
<1>3. \A n \in Node : Open(n) = Parents(n)
  BY <1>1 DEF Open
<1>4. Cardinality(Placed) = Len(out)
  BY <1>1, FS_EmptySet
<1>5. ParentsFirst
  BY <1>1 DEF ParentsFirst
<1> QED BY <1>1, <1>2, <1>3, <1>4, <1>5 DEF Init, KahnInv

LEMMA VisitKahn ==
  ASSUME KahnInv, NEW n \in Node, Visit(n)
  PROVE  KahnInv'
<1>0. /\ TypeOK /\ n \in ready /\ n \notin Placed /\ Open(n) = {}
      /\ out' = Append(out, n) /\ UNCHANGED <<graph, step, valid>> /\ step = "order"
      /\ Len(out) \in Nat
  BY DEF KahnInv, Visit, TypeOK
<1>1. /\ out' \in Seq(Node) /\ Len(out') = Len(out) + 1 /\ out'[Len(out) + 1] = n
      /\ \A i \in 1..Len(out) : out'[i] = out[i]
  BY <1>0, AppendProperties DEF TypeOK
<1>2. Placed' = Placed \union {n}
  <2>1. ASSUME NEW x \in Placed' PROVE x \in Placed \union {n}
    BY <1>0, <1>1, <2>1 DEF Placed
  <2>2. ASSUME NEW x \in Placed PROVE x \in Placed'
    <3>1. PICK i \in 1..Len(out) : x = out[i]
      BY DEF Placed
    <3>2. i \in 1..Len(out') /\ out'[i] = x
      BY <1>0, <1>1, <3>1
    <3> QED BY <3>2 DEF Placed
  <2>3. n \in Placed'
    <3>1. Len(out) + 1 \in 1..Len(out') /\ out'[Len(out) + 1] = n
      BY <1>0, <1>1
    <3> QED BY <3>1 DEF Placed
  <2> QED BY <2>1, <2>2, <2>3
<1>3. Placed \subseteq Node
  BY <1>0 DEF TypeOK, Placed
<1>4. Cardinality(Placed)' = Len(out)'
  <2>1. IsFiniteSet(Placed)
    BY <1>3, FS_Subset
  <2>2. Cardinality(Placed \union {n}) = Cardinality(Placed) + 1
    BY <1>0, <2>1, FS_AddElement
  <2>3. Cardinality(Placed) = Len(out)
    BY DEF KahnInv
  <2> QED BY <1>1, <1>2, <2>2, <2>3
<1>5. /\ \A m : Parents(m)' = Parents(m)
      /\ \A m : n \in Parents(m) <=> m \in Children(n) \/ (m \notin Node /\ n \in Parents(m))
  BY <1>0 DEF graph, Parents, Children
<1>6. \A m \in Node : Open(m)' = Open(m) \ {n}
  BY <1>2, <1>5 DEF Open
<1>7. ASSUME NEW m \in Node
      PROVE  /\ indeg'[m] = Cardinality(Open(m))'
             /\ indeg'[m] \in Nat
             /\ m \in Children(n) => (indeg[m] = 1 <=> Open(m)' = {})
             /\ m \notin Children(n) => Open(m)' = Open(m)
  <2>1. n \in Open(m) <=> m \in Children(n)
    BY <1>0 DEF Open, Parents, Children
  <2>2. indeg[m] = Cardinality(Open(m)) /\ IsFiniteSet(Open(m)) /\ indeg[m] \in Nat
    BY <1>0, FiniteParents DEF KahnInv, TypeOK
  <2>3. Cardinality(Open(m) \ {n}) = IF n \in Open(m) THEN indeg[m] - 1 ELSE indeg[m]
    BY <2>2, FS_RemoveElement
  <2>4. indeg'[m] = Cardinality(Open(m) \ {n})
    BY <2>1, <2>3 DEF Visit
  <2>5. IsFiniteSet(Open(m) \ {n})
    BY <2>2, FS_RemoveElement
  <2>6. indeg'[m] \in Nat
    BY <2>4, <2>5, FS_CardinalityType
  <2>7. Cardinality(Open(m) \ {n}) = 0 <=> Open(m) \ {n} = {}
    BY <2>5, FS_EmptySet
  <2>8. Open(m)' = Open(m) \ {n}
    BY <1>6
  <2>9. m \in Children(n) => (indeg[m] = 1 <=> Open(m) \ {n} = {})
    BY <2>1, <2>2, <2>3, <2>7
  <2>10. m \notin Children(n) => Open(m) \ {n} = Open(m)
    BY <2>1
  <2> QED BY <2>4, <2>6, <2>8, <2>9, <2>10
<1>8. ready' = {m \in Node : m \notin Placed' /\ Open(m)' = {}}
  <2>1. ready' = (ready \ {n}) \union {m \in Children(n) : indeg[m] = 1}
    BY DEF Visit, Released
  <2>2. \A m \in Children(n) : m \in Node /\ m \notin Placed /\ m # n
    <3>1. \A m \in Children(n) : n \in Parents(m) /\ m \in Node
      BY DEF Children, Parents
    <3>2. \A m \in Children(n) : m # n
      BY <1>0, <3>1 DEF Open
    <3>3. \A m \in Children(n) : m \notin Placed
      <4> SUFFICES ASSUME NEW m \in Children(n), m \in Placed PROVE n \in Placed
        BY <1>0
      <4>1. PICK i \in 1..Len(out) : out[i] = m
        BY DEF Placed
      <4>2. PICK j \in 1..(i-1) : out[j] = n
        BY <3>1, <4>1 DEF KahnInv, ParentsFirst
      <4>3. j \in 1..Len(out)
        BY <1>0
      <4> QED BY <4>2, <4>3 DEF Placed
    <3> QED BY <3>1, <3>2, <3>3
  <2>3. ready = {m \in Node : m \notin Placed /\ Open(m) = {}}
    BY DEF KahnInv
  <2>4. ASSUME NEW m \in Node PROVE m \in ready' <=> m \notin Placed' /\ Open(m)' = {}
    <3>1. CASE m \in Children(n)
      <4>1. m \notin Placed'
        BY <1>2, <2>2, <3>1
      <4>2. m \in ready' <=> indeg[m] = 1 \/ m \in ready
        BY <2>1, <2>2, <3>1
      <4>3. m \notin ready
        <5>1. n \in Open(m)
          BY <1>0, <3>1 DEF Open, Parents, Children
        <5> QED BY <2>3, <5>1
      <4> QED BY <1>7, <3>1, <4>1, <4>2, <4>3
    <3>2. CASE m \notin Children(n)
      BY <3>2, <1>2, <1>7, <2>1, <2>3
    <3> QED BY <3>1, <3>2
  <2> QED BY <2>1, <2>2, <2>3, <2>4
<1>9. TypeOK'
  <2>1. indeg' \in [Node -> Nat]
    BY <1>7 DEF Visit
  <2> QED BY <1>0, <1>1, <1>8, <2>1 DEF TypeOK, graph
<1>10. ParentsFirst'
  <2> SUFFICES ASSUME NEW i \in 1..Len(out'), NEW p \in Parents(out'[i])
               PROVE  \E j \in 1..(i-1) : out'[j] = p
    BY <1>5 DEF ParentsFirst
  <2>1. CASE i \in 1..Len(out)
    <3>1. PICK j \in 1..(i-1) : out[j] = p
      BY <1>1, <2>1 DEF KahnInv, ParentsFirst
    <3>2. j \in 1..Len(out)
      BY <1>0, <2>1
    <3> QED BY <1>1, <3>1, <3>2
  <2>2. CASE i = Len(out) + 1
    <3>1. p \in Placed
      BY <1>0, <1>1, <2>2 DEF Open
    <3>2. PICK j \in 1..Len(out) : out[j] = p
      BY <3>1 DEF Placed
    <3>3. j \in 1..(i-1)
      BY <1>0, <2>2
    <3> QED BY <1>1, <3>2, <3>3
  <2> QED BY <1>0, <1>1, <2>1, <2>2
<1>11. \A S \in SUBSET Node : Rootless(S)' => S \cap Placed' = {}
  <2> SUFFICES ASSUME NEW S \in SUBSET Node, Rootless(S)' PROVE S \cap Placed' = {}
    OBVIOUS
  <2>1. Rootless(S)
    BY <1>5 DEF Rootless
  <2>2. S \cap Placed = {}
    BY <2>1 DEF KahnInv
  <2>3. n \notin S
    BY <1>0, <2>1, <2>2 DEF Rootless, Open
  <2> QED BY <1>2, <2>2, <2>3
<1>12. valid' => Declared' /\ \A e \in edges' : Sound(e)'
  BY <1>0 DEF KahnInv, Declared, Sound, graph
<1> QED
  BY <1>0, <1>4, <1>7, <1>8, <1>9, <1>10, <1>11, <1>12 DEF KahnInv

LEMMA NextKahn == KahnInv /\ [Next]_vars => KahnInv'
<1> SUFFICES ASSUME KahnInv, [Next]_vars PROVE KahnInv'
  OBVIOUS
<1>1. ASSUME NEW n \in Node, Visit(n) PROVE KahnInv'
  BY <1>1, VisitKahn
<1>2. CASE Validate \/ Finish \/ Returned \/ UNCHANGED vars
  <2>1. UNCHANGED <<graph, indeg, ready, out>>
    BY <1>2 DEF Validate, Finish, Returned, vars
  <2>2. /\ Placed' = Placed /\ (\A n : Parents(n)' = Parents(n)) /\ (\A n : Open(n)' = Open(n))
        /\ (\A S : Rootless(S)' <=> Rootless(S)) /\ (\A e : Sound(e)' <=> Sound(e))
        /\ (Declared' <=> Declared)
    BY <2>1 DEF graph, Declared, Placed, Parents, Open, Rootless, Sound
  <2>3. TypeOK'
    BY <1>2, <2>1 DEF KahnInv, TypeOK, graph, Validate, Finish, Verdict, Returned, vars
  <2>4. ParentsFirst'
    <3>1. ParentsFirst
      BY DEF KahnInv
    <3>2. out' = out /\ edges' = edges
      BY <2>1 DEF graph
    <3> QED BY <3>1, <3>2 DEF ParentsFirst, Parents
  <2>5. valid' => Declared' /\ \A e \in edges' : Sound(e)'
    BY <1>2, <2>1, <2>2 DEF KahnInv, Validate, Finish, Returned, vars, graph
  <2>6. step' \in {"ordered", "cycle"} =>
          ready' = {} /\ (step' = "ordered" <=> Len(out') = Cardinality(Node))
    BY <1>2, <2>1 DEF KahnInv, Validate, Finish, Verdict, Returned, vars
  <2> QED BY <2>1, <2>2, <2>3, <2>4, <2>5, <2>6 DEF KahnInv
<1> QED BY <1>1, <1>2 DEF Next

LEMMA KahnInvariance == Spec => []KahnInv
BY InitKahn, NextKahn, PTL DEF Spec

(* The order never has a child before one of its parents.                  *)
THEOREM OrderIsParentsFirst == Spec => []ParentsFirst
<1>1. KahnInv => ParentsFirst
  BY DEF KahnInv
<1> QED BY <1>1, KahnInvariance, PTL

(* The verdict is "ordered" exactly for acyclic graphs, with every node.   *)
LEMMA VerdictIsRight == KahnInv => DetectsCycles
<1> SUFFICES ASSUME KahnInv PROVE DetectsCycles
  OBVIOUS
<1>0. Placed \in SUBSET Node /\ TypeOK /\ Len(out) \in Nat
  <2>1. TypeOK /\ Len(out) \in Nat
    BY DEF KahnInv, TypeOK
  <2>2. \A i \in 1..Len(out) : out[i] \in Node
    BY <2>1 DEF TypeOK
  <2> QED BY <2>1, <2>2 DEF Placed
<1>1. ASSUME step = "ordered" PROVE ~Cyclic /\ Placed = Node /\ Len(out) = Cardinality(Node)
  <2>1. Cardinality(Placed) = Cardinality(Node)
    BY <1>1 DEF KahnInv
  <2>2. Placed = Node
    BY <1>0, <2>1, FS_Subset
  <2> QED BY <1>1, <2>2 DEF KahnInv, Cyclic
<1>2. ASSUME step = "cycle" PROVE Cyclic
  <2> DEFINE S == Node \ Placed
  <2>1. S # {}
    <3> SUFFICES ASSUME Node \ Placed = {} PROVE FALSE
      OBVIOUS
    <3>1. Placed = Node
      BY <1>0
    <3> QED BY <1>2, <3>1 DEF KahnInv
  <2>2. \A n \in S : Parents(n) \cap S # {}
    <3> SUFFICES ASSUME NEW n \in S PROVE Open(n) # {}
      BY DEF Open, Parents
    <3> QED BY <1>2 DEF KahnInv
  <2> QED BY <2>1, <2>2 DEF Cyclic, Rootless
<1> QED BY <1>1, <1>2 DEF DetectsCycles

THEOREM CyclesDetected == Spec => []DetectsCycles
BY VerdictIsRight, KahnInvariance, PTL

(* A graph whose edges all descend a tier has no rootless set: its member  *)
(* of least tier would need a parent of a lesser one.                      *)
LEMMA DescentExcludesCycles ==
  ASSUME TypeOK, \A e \in edges : Sound(e)
  PROVE  ~Cyclic
<1> SUFFICES ASSUME NEW S \in SUBSET Node, S # {}, Rootless(S) PROVE FALSE
  BY DEF Cyclic
<1> DEFINE T == {tier[n] : n \in S}
           R == OpToRel(<, Nat)
<1>1. T \subseteq Nat /\ T # {}
  BY DEF TypeOK
<1>2. IsWellFoundedOn(R, Nat)
  BY NatLessThanWellFounded
<1> HIDE DEF R
<1>3. PICK x \in T : \A y \in T : ~(<<y, x>> \in R)
  BY <1>1, <1>2, WFMin
<1>4. PICK n \in S : tier[n] = x
  OBVIOUS
<1>5. PICK p \in S : <<p, n>> \in edges
  BY DEF Rootless, Parents
<1>6. tier[p] < tier[n] /\ tier[p] \in Nat /\ tier[n] \in Nat
  BY <1>5 DEF Sound, TypeOK
<1>7. <<tier[p], x>> \in R
  BY <1>4, <1>6 DEF R, OpToRel
<1> QED BY <1>3, <1>7

(* The tier check of validateTopology makes its cycle check unreachable.   *)
THEOREM CycleCheckIsRedundant == Spec => []TiersExcludeCycles
<1>1. KahnInv => TiersExcludeCycles
  BY VerdictIsRight, DescentExcludesCycles DEF KahnInv, TiersExcludeCycles, DetectsCycles
<1> QED BY <1>1, KahnInvariance, PTL
=============================================================================
