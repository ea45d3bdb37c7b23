--------------------------- MODULE BulkheadProofs ---------------------------
(***************************************************************************)
(* A service implements the bulkhead it promises to be: its first state is *)
(* one of Bulkhead's, and each of its steps is a step of Bulkhead or leaves *)
(* Bulkhead's variables alone.                                             *)
(***************************************************************************)
EXTENDS ServiceProofs

(* Bulkhead's variables, as INSTANCE maps them.                            *)
Phase == [c \in Caller |-> PhaseAt(pc[c])]
Seen  == <<~closed, Phase, Outstanding, result>>

LEMMA InitMaps == Init => Promised!Init
<1> SUFFICES ASSUME Init PROVE Promised!Init
  OBVIOUS
<1>1. \A c \in Caller : ~JobLive(c)
  <2>1. Len(queue) = 0
    BY DEF Init
  <2> QED BY <2>1, NoneAssumption DEF Init, JobLive, Queued
<1> QED BY <1>1 DEF Init, Promised!Init, PhaseAt

(* Bulkhead counts as FiniteSets does.                                     *)
LEMMA SameCount == ASSUME NEW S PROVE Promised!Cardinality(S) = Cardinality(S)
BY DEF Promised!Cardinality, Cardinality

(* A step of one caller changes its own phase only.                        *)
LEMMA PhaseMoves ==
  ASSUME TypeOK, NEW c \in Caller, NEW p, pc' = [pc EXCEPT ![c] = p]
  PROVE  Phase' = [Phase EXCEPT ![c] = PhaseAt(p)]
BY DEF TypeOK, Phase

(* What a step keeps of the placement of jobs, it keeps of what is owed.   *)
LEMMA OwedKept ==
  ASSUME UNCHANGED <<queue, wjob>>
  PROVE  Outstanding' = Outstanding
BY StillLive DEF Outstanding

(* The caller's steps.                                                     *)
Maps == Promised!Next \/ UNCHANGED Seen

LEMMA StartMaps ==
  ASSUME IInv, NEW c \in Caller, NEW p \in Priority, Start(c, p)
  PROVE  Promised!Call(c)
<1> USE DEF gate, callerVars, workerVars
<1>1. Phase' = [Phase EXCEPT ![c] = "asking"]
  <2>1. PhaseAt(Entry(p)) = "asking"
    BY DEF Entry, PhaseAt
  <2>2. TypeOK /\ pc' = [pc EXCEPT ![c] = Entry(p)]
    BY DEF Start, IInv
  <2> HIDE DEF Entry
  <2> QED BY <2>1, <2>2, PhaseMoves
<1>2. Outstanding' = Outstanding
  BY OwedKept DEF Start
<1> QED BY <1>1, <1>2 DEF Promised!Call, Start, Free, Phase, PhaseAt, Outstanding

LEMMA AdmissionMaps ==
  ASSUME IInv, NEW c \in Caller, AdmitRead(c) \/ AdmitStore(c) \/ AdmitLoad(c)
  PROVE  Promised!Refuse(c) \/ UNCHANGED Seen
<1> USE DEF gate, callerVars, workerVars
<1>0. TypeOK /\ UNCHANGED <<closed, queue, wjob>> /\ Outstanding' = Outstanding
  BY OwedKept DEF AdmitRead, AdmitStore, AdmitLoad, IInv
<1>1. pc[c] \in InAdmission /\ Phase[c] = "asking"
  BY DEF AdmitRead, AdmitStore, AdmitLoad, InAdmission, Phase, PhaseAt
<1>2. CASE Refuse(c)
  <2>1. Phase' = [Phase EXCEPT ![c] = "out"]
    BY <1>0, <1>2, PhaseMoves DEF Refuse, PhaseAt
  <2> QED BY <1>0, <1>1, <1>2, <2>1 DEF Promised!Refuse, Refuse, Phase, Outstanding
<1>3. ASSUME NEW p \in InAdmission \union {"gatedSend"}, pc' = [pc EXCEPT ![c] = p], UNCHANGED result
      PROVE  UNCHANGED Seen
  <2>1. Phase' = [Phase EXCEPT ![c] = "asking"]
    BY <1>0, <1>3, PhaseMoves DEF PhaseAt, InAdmission
  <2>2. Phase' = Phase
    BY <1>1, <2>1 DEF Phase
  <2> QED BY <1>0, <1>3, <2>2 DEF Seen
<1> QED
  BY <1>2, <1>3 DEF AdmitRead, AdmitStore, AdmitLoad, Branch, InAdmission

LEMMA EnqueueMaps ==
  ASSUME IInv, NEW c \in Caller, Enqueue(c)
  PROVE  Promised!Refuse(c) \/ Promised!Accept(c)
<1> USE DEF gate, callerVars, workerVars
<1>0. TypeOK /\ UNCHANGED closed /\ Phase[c] = "asking"
  BY DEF IInv, Enqueue, Phase, PhaseAt
<1>1. CASE HasRoom
  <2>1. Phase' = [Phase EXCEPT ![c] = "waiting"]
    BY <1>0, <1>1, PhaseMoves DEF Enqueue, PhaseAt
  <2>2. Outstanding' = Outstanding \union {c}
    BY <1>1, EnqueueRest DEF Outstanding
  <2>3. Cardinality(Outstanding) < QueueCap + Cardinality(Worker)
    <3>1. /\ Len(queue) \in Nat /\ QueueCap \in Nat /\ Cardinality(Worker) \in Nat
          /\ Len(queue) < QueueCap
      BY <1>0, <1>1, QueueAssumption, PoolAssumption, FS_CardinalityType DEF TypeOK, HasRoom
    <3> QED BY <3>1, OutstandingFits
  <2>4. UNCHANGED result
    BY <1>1 DEF Enqueue
  <2>5. /\ [d \in Caller |-> PhaseAt(pc[d])][c] = "asking"
        /\ [d \in Caller |-> PhaseAt(pc'[d])]
             = [[d \in Caller |-> PhaseAt(pc[d])] EXCEPT ![c] = "waiting"]
    BY <1>0, <2>1 DEF Phase
  <2>6. {d \in Caller : JobLive(d)'} = {d \in Caller : JobLive(d)} \union {c}
    BY <2>2 DEF Outstanding
  <2>7. Cardinality({d \in Caller : JobLive(d)}) < QueueCap + Cardinality(Worker)
    BY <2>3 DEF Outstanding
  <2> QED BY <1>0, <2>4, <2>5, <2>6, <2>7, SameCount DEF Promised!Accept
<1>2. CASE ~HasRoom
  <2>1. Refuse(c) /\ UNCHANGED <<queue, wjob>>
    BY <1>2 DEF Enqueue
  <2>2. Phase' = [Phase EXCEPT ![c] = "out"]
    BY <1>0, <2>1, PhaseMoves DEF Refuse, PhaseAt
  <2> QED BY <1>0, <2>1, <2>2, OwedKept DEF Promised!Refuse, Refuse, Phase, Outstanding
<1> QED BY <1>1, <1>2

LEMMA ReturnMaps ==
  ASSUME IInv, NEW c \in Caller, Receive(c) \/ GiveUp(c) \/ Promote(c)
  PROVE  \E o \in {"answered", "dropped", "gave_up", "promoted"} : Promised!Return(c, o)
<1> USE DEF gate, callerVars, workerVars
<1>0. /\ TypeOK /\ UNCHANGED <<closed, queue, wjob>> /\ Outstanding' = Outstanding
      /\ Phase[c] = "waiting"
  BY OwedKept DEF IInv, Receive, GiveUp, Promote, Phase, PhaseAt
<1>1. Phase' = [Phase EXCEPT ![c] = "out"]
  BY <1>0, PhaseMoves DEF Receive, GiveUp, Promote, PhaseAt
<1>2. CASE Receive(c)
  <2>1. done[c] \in {"answered", "dropped"} /\ result' = [result EXCEPT ![c] = done[c]]
    BY <1>0, <1>2 DEF Receive, TypeOK, Answer
  <2>2. c \notin Outstanding
    BY <1>2 DEF Receive, IInv, LiveIsUnanswered, Outstanding
  <2>3. Promised!Return(c, done[c])
    BY <1>0, <1>1, <2>1, <2>2 DEF Promised!Return, Phase, Outstanding
  <2> QED BY <2>1, <2>3
<1>3. CASE GiveUp(c) \/ Promote(c)
  <2>1. PICK o \in {"gave_up", "promoted"} : result' = [result EXCEPT ![c] = o]
    BY <1>3 DEF GiveUp, Promote
  <2>2. Promised!Return(c, o)
    BY <1>0, <1>1, <2>1 DEF Promised!Return, Phase, Outstanding
  <2> QED BY <2>1, <2>2
<1> QED BY <1>2, <1>3

(* A detached goroutine that ends, and a deadline, show nowhere.           *)
LEMMA DetachedHidden ==
  ASSUME IInv, NEW c \in Caller, Release(c) \/ Expire(c)
  PROVE  UNCHANGED Seen
<1> USE DEF gate, callerVars, workerVars
<1>1. UNCHANGED <<closed, queue, wjob, result>> /\ Outstanding' = Outstanding
  BY OwedKept DEF Release, Expire
<1>2. Phase' = Phase
  <2>1. CASE Release(c)
    <3>1. Phase' = [Phase EXCEPT ![c] = "out"]
      BY <2>1, PhaseMoves DEF Release, PhaseAt, IInv
    <3>2. Phase[c] = "out"
      BY <2>1 DEF Release, Phase, PhaseAt
    <3> QED BY <3>1, <3>2 DEF Phase
  <2>2. CASE Expire(c)
    BY <2>2 DEF Expire, Phase
  <2> QED BY <2>1, <2>2
<1> QED BY <1>1, <1>2 DEF Seen

-----------------------------------------------------------------------------
(* The worker's steps: only the delivery shows.                            *)
LEMMA WorkerMaps ==
  ASSUME IInv, NEW w \in Worker, WorkerStep(w)
  PROVE  Maps
<1> USE DEF gate, callerVars, workerVars
<1>0. UNCHANGED <<closed, pc, result>> /\ Phase' = Phase
  BY DEF WorkerStep, WorkerTake, WorkerCheck, WorkerFinish, WorkerDeliver, WorkerExit, Phase
<1>1. CASE WorkerTake(w)
  <2>1. Outstanding' = Outstanding
    BY <1>1, TakeRest DEF Outstanding
  <2> QED BY <1>0, <2>1 DEF Maps, Seen
<1>2. CASE WorkerDeliver(w)
  <2>1. /\ wjob[w] \in Caller /\ wjob[w] \in Outstanding
        /\ Outstanding' = Outstanding \ {wjob[w]}
    BY <1>2, DeliverRest DEF Outstanding
  <2>2. Promised!DealtWith(wjob[w])
    BY <1>0, <2>1 DEF Promised!DealtWith, Phase, Outstanding
  <2> QED BY <2>1, <2>2 DEF Maps, Promised!Next
<1>3. CASE WorkerCheck(w) \/ WorkerFinish(w) \/ WorkerExit(w)
  <2>1. UNCHANGED <<queue, wjob>>
    BY <1>3 DEF WorkerCheck, WorkerFinish, WorkerExit
  <2> QED BY <1>0, <2>1, OwedKept DEF Maps, Seen
<1> QED BY <1>1, <1>2, <1>3 DEF WorkerStep

LEMMA EngineMaps ==
  ASSUME IInv, Shutdown \/ Reset \/ Stopped \/ UNCHANGED vars \/ \E m \in Modes : SetEdgeMode(m)
  PROVE  Maps
<1> USE DEF gate, callerVars, workerVars, vars
<1>1. UNCHANGED <<pc, queue, wjob, result>> /\ Phase' = Phase /\ Outstanding' = Outstanding
  BY OwedKept DEF Shutdown, Reset, Stopped, SetEdgeMode, Phase
<1>2. CASE Shutdown
  <2>1. Promised!Close
    BY <1>1, <1>2 DEF Promised!Close, Shutdown, Phase, PhaseAt, Outstanding
  <2> QED BY <2>1 DEF Maps, Promised!Next
<1>3. CASE UNCHANGED closed
  BY <1>1, <1>3 DEF Maps, Seen
<1> QED BY <1>2, <1>3 DEF Reset, Stopped, SetEdgeMode

LEMMA StepMaps == IInv /\ [Next]_vars => [Promised!Next]_Promised!vars
<1> SUFFICES ASSUME IInv, [Next]_vars PROVE Maps
  BY DEF Maps, Seen, Promised!vars, Phase, Outstanding
<1>1. ASSUME NEW c \in Caller, NEW p \in Priority, Start(c, p) PROVE Maps
  BY <1>1, StartMaps DEF Maps, Promised!Next
<1>2. ASSUME NEW c \in Caller, CallerStep(c) \/ Expire(c) PROVE Maps
  BY <1>2, AdmissionMaps, EnqueueMaps, ReturnMaps, DetachedHidden
     DEF CallerStep, Maps, Promised!Next
<1> QED BY <1>1, <1>2, WorkerMaps, EngineMaps DEF Next

(* To those who call it, a service is a bulkhead of QueueCap + workerCount *)
(* places: nothing is refused once accepted, answered before its time, or  *)
(* taken in beyond the capacity.                                           *)
THEOREM Refinement == Spec => ImplementsBulkhead
<1>1. Promised!Init /\ [][Promised!Next]_Promised!vars => Promised!Spec
  BY DEF Promised!Spec
<1> QED BY <1>1, InitMaps, StepMaps, Invariance, PTL DEF Spec, ImplementsBulkhead
=============================================================================
