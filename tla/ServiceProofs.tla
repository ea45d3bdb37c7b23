--------------------------- MODULE ServiceProofs ---------------------------
(***************************************************************************)
(* What Service promises for every set of callers, every pool and every    *)
(* capacity: the invariant IInv and what follows from it.                  *)
(***************************************************************************)
EXTENDS Service, SequenceTheorems, FiniteSetTheorems, TLAPS

USE QueueAssumption, GateAssumption, ModesAssumption, NoneAssumption

(* Sending c on the channel adds c to the jobs in it, at the far end.      *)
LEMMA SendQueued ==
  ASSUME queue \in Seq(Caller), NEW c \in Caller, queue' = Append(queue, c)
  PROVE  /\ queue' \in Seq(Caller)
         /\ Len(queue') = Len(queue) + 1
         /\ \A i \in 1..Len(queue) : queue'[i] = queue[i]
         /\ queue'[Len(queue) + 1] = c
         /\ \A d : Queued(d)' <=> Queued(d) \/ d = c
<1>1. /\ queue' \in Seq(Caller)
      /\ Len(queue') = Len(queue) + 1
      /\ \A i \in 1..Len(queue) : queue'[i] = queue[i]
      /\ queue'[Len(queue) + 1] = c
  BY AppendProperties
<1>2. Len(queue) \in Nat
  OBVIOUS
<1>3. ASSUME NEW d PROVE Queued(d)' <=> Queued(d) \/ d = c
  <2>1. Queued(d) => Queued(d)'
    BY <1>1, <1>2 DEF Queued
  <2>2. d = c => Queued(d)'
    BY <1>1, <1>2 DEF Queued
  <2>3. ASSUME NEW i \in 1..Len(queue'), queue'[i] = d
        PROVE  Queued(d) \/ d = c
    BY <1>1, <1>2, <2>3 DEF Queued
  <2> QED BY <2>1, <2>2, <2>3 DEF Queued
<1> QED BY <1>1, <1>3

(* Taking the head of a channel without duplicates removes that job only.  *)
LEMMA TakeQueued ==
  ASSUME queue \in Seq(Caller), queue # <<>>, queue' = Tail(queue),
         \A i, j \in 1..Len(queue) : queue[i] = queue[j] => i = j
  PROVE  /\ queue' \in Seq(Caller)
         /\ Head(queue) \in Caller
         /\ Queued(Head(queue))
         /\ Len(queue') = Len(queue) - 1
         /\ \A i \in 1..Len(queue') : queue'[i] = queue[i+1]
         /\ \A d : Queued(d)' <=> Queued(d) /\ d # Head(queue)
<1>1. /\ queue' \in Seq(Caller)
      /\ Len(queue') = Len(queue) - 1
      /\ \A i \in 1..Len(queue') : queue'[i] = queue[i+1]
  BY HeadTailProperties
<1>2. Len(queue) \in Nat /\ Len(queue) > 0
  OBVIOUS
<1>3. Head(queue) = queue[1] /\ Head(queue) \in Caller
  BY <1>2
<1>4. Queued(Head(queue))
  BY <1>2, <1>3 DEF Queued
<1>5. ASSUME NEW d PROVE Queued(d)' <=> Queued(d) /\ d # Head(queue)
  <2>1. ASSUME NEW i \in 1..Len(queue'), queue'[i] = d
        PROVE  Queued(d) /\ d # Head(queue)
    <3>1. i + 1 \in 1..Len(queue) /\ 1 \in 1..Len(queue) /\ i + 1 # 1 /\ queue[i+1] = d
      BY <1>1, <1>2, <2>1
    <3> QED BY <3>1, <1>3 DEF Queued
  <2>2. ASSUME NEW i \in 1..Len(queue), queue[i] = d, d # Head(queue)
        PROVE  Queued(d)'
    <3>1. i # 1 /\ i - 1 \in 1..Len(queue') /\ (i - 1) + 1 = i
      BY <1>1, <1>2, <1>3, <2>2
    <3> QED BY <3>1, <1>1, <2>2 DEF Queued
  <2> QED BY <2>1, <2>2 DEF Queued
<1> QED BY <1>1, <1>3, <1>4, <1>5

-----------------------------------------------------------------------------
LEMMA InitIInv == Init => IInv
<1> SUFFICES ASSUME Init PROVE IInv
  OBVIOUS
<1>1. queue = <<>> /\ Len(queue) = 0 /\ queue \in Seq(Caller)
  BY DEF Init
<1>2. TypeOK
  BY <1>1 DEF Init, TypeOK, Answer, InGated, InAdmission, Priority
<1>3. \A c \in Caller : ~JobLive(c)
  BY <1>1 DEF Init, JobLive, Queued
<1> QED
  BY <1>1, <1>2, <1>3 DEF Init, IInv, JobInOnePlace, WaiterIsOwed, BusyHasJob,
     LiveIsUnanswered, UnsentHasNoJob, WithinCapacity, Queued, InAdmission

(* A step that leaves the channel and the workers' jobs alone leaves every *)
(* job where it is.                                                        *)
LEMMA StillLive ==
  ASSUME UNCHANGED <<queue, wjob>>
  PROVE  /\ \A d : Queued(d)' <=> Queued(d)
         /\ \A d : JobLive(d)' <=> JobLive(d)
BY DEF Queued, JobLive

(* What a refusal does to its caller's variables is well typed.            *)
LEMMA RefuseTyped ==
  ASSUME TypeOK, NEW c \in Caller, Refuse(c)
  PROVE  /\ pc' \in [Caller -> {"idle", "send", "waiting"} \union InGated]
         /\ expired' \in [Caller -> BOOLEAN]
         /\ result' \in [Caller -> Answer \union {"none", "full", "gave_up", "promoted"}]
         /\ sample' \in [Caller -> {"none", "waited", "completed", "abandoned", "rejected"}]
<1>1. pc' \in [Caller -> {"idle", "send", "waiting"} \union InGated]
  BY DEF Refuse, TypeOK
<1>2. expired' \in [Caller -> BOOLEAN]
  BY DEF Refuse, TypeOK
<1>3. result' \in [Caller -> Answer \union {"none", "full", "gave_up", "promoted"}]
  BY DEF Refuse, TypeOK
<1>4. sample' \in [Caller -> {"none", "waited", "completed", "abandoned", "rejected"}]
  BY DEF Refuse, TypeOK
<1> QED BY <1>1, <1>2, <1>3, <1>4

(* TypeOK alone is inductive but for the types of queue and of the job a   *)
(* worker takes.                                                           *)
LEMMA NextTypeOK == IInv /\ [Next]_vars => TypeOK'
<1> SUFFICES ASSUME IInv, [Next]_vars PROVE TypeOK'
  OBVIOUS
<1> USE DEF TypeOK, gate, callerVars, workerVars, Answer, InGated, InAdmission, Priority
<1>0. TypeOK
  BY DEF IInv
<1>1. ASSUME NEW c \in Caller, NEW p \in Priority, Start(c, p) PROVE TypeOK'
  BY <1>0, <1>1 DEF Start, Entry
<1>2. ASSUME NEW c \in Caller, AdmitRead(c) PROVE TypeOK'
  BY <1>0, <1>2 DEF AdmitRead, Branch
<1>3. ASSUME NEW c \in Caller, AdmitStore(c) PROVE TypeOK'
  BY <1>0, <1>3 DEF AdmitStore
<1>4. ASSUME NEW c \in Caller, AdmitLoad(c) PROVE TypeOK'
  <2>1. CASE shedding
    <3>1. Refuse(c) /\ UNCHANGED <<gate, priority, done, workerVars>>
      BY <1>4, <2>1 DEF AdmitLoad
    <3> QED BY <1>0, <3>1, RefuseTyped
  <2>2. CASE ~shedding
    <3>1. /\ pc' = [pc EXCEPT ![c] = "gatedSend"]
          /\ UNCHANGED <<expired, result, sample, gate, priority, done, workerVars>>
      BY <1>4, <2>2 DEF AdmitLoad
    <3> QED BY <1>0, <3>1
  <2> QED BY <2>1, <2>2
<1>5. ASSUME NEW c \in Caller, Enqueue(c) PROVE TypeOK'
  <2>1. CASE HasRoom
    <3>1. /\ queue' = Append(queue, c)
          /\ pc' = [pc EXCEPT ![c] = IF pc[c] = "send" THEN "waiting" ELSE "grace"]
          /\ UNCHANGED <<expired, result, sample, closed, shedding, mode, priority, done, workerVars>>
      BY <1>5, <2>1 DEF Enqueue
    <3>2. queue' \in Seq(Caller)
      BY <1>0, <3>1, SendQueued
    <3>3. pc' \in [Caller -> {"idle", "send", "waiting"} \union InGated]
      BY <1>0, <3>1
    <3> QED BY <1>0, <3>1, <3>2, <3>3
  <2>2. CASE ~HasRoom
    <3>1. Refuse(c) /\ UNCHANGED <<queue, closed, shedding, mode, priority, done, workerVars>>
      BY <1>5, <2>2 DEF Enqueue
    <3> QED BY <1>0, <3>1, RefuseTyped
  <2> QED BY <2>1, <2>2
<1>6. ASSUME NEW c \in Caller, Receive(c) \/ GiveUp(c) \/ Promote(c) \/ Release(c) \/ Expire(c)
      PROVE TypeOK'
  <2>1. CASE Receive(c)
    BY <1>0, <2>1 DEF Receive
  <2>2. CASE GiveUp(c)
    BY <1>0, <2>2 DEF GiveUp
  <2>3. CASE Promote(c)
    BY <1>0, <2>3 DEF Promote
  <2>4. CASE Release(c)
    BY <1>0, <2>4 DEF Release
  <2>5. CASE Expire(c)
    BY <1>0, <2>5 DEF Expire
  <2> QED BY <1>6, <2>1, <2>2, <2>3, <2>4, <2>5
<1>7. ASSUME NEW w \in Worker, WorkerTake(w) PROVE TypeOK'
  BY <1>0, <1>7, TakeQueued DEF WorkerTake, IInv, JobInOnePlace
<1>8. ASSUME NEW w \in Worker,
             WorkerCheck(w) \/ WorkerFinish(w) \/ WorkerDeliver(w) \/ WorkerExit(w)
      PROVE TypeOK'
  <2>1. CASE WorkerCheck(w)
    <3>1. /\ \/ sample' = [sample EXCEPT ![wjob[w]] = "abandoned"]
             \/ sample' = [sample EXCEPT ![wjob[w]] = "waited"]
          /\ wpc' = [wpc EXCEPT ![w] = "drop"] \/ wpc' = [wpc EXCEPT ![w] = "process"]
          /\ UNCHANGED <<gate, pc, priority, expired, done, result, wjob>>
      BY <2>1 DEF WorkerCheck
    <3>2. sample' \in [Caller -> {"none", "waited", "completed", "abandoned", "rejected"}]
      BY <1>0, <3>1
    <3>3. wpc' \in [Worker -> {"range", "check", "process", "reply", "drop", "exited"}]
      BY <1>0, <3>1
    <3> QED BY <1>0, <3>1, <3>2, <3>3
  <2>2. CASE WorkerFinish(w)
    BY <1>0, <2>2 DEF WorkerFinish
  <2>3. CASE WorkerDeliver(w)
    BY <1>0, <2>3 DEF WorkerDeliver
  <2>4. CASE WorkerExit(w)
    BY <1>0, <2>4 DEF WorkerExit
  <2> QED BY <1>8, <2>1, <2>2, <2>3, <2>4
<1>9. ASSUME Shutdown \/ Reset \/ Stopped \/ UNCHANGED vars \/ \E m \in Modes : SetEdgeMode(m)
      PROVE TypeOK'
  <2>1. CASE Shutdown
    BY <1>0, <2>1 DEF Shutdown
  <2>2. CASE Reset
    BY <1>0, <2>2, ModesAssumption DEF Reset
  <2>3. CASE Stopped \/ UNCHANGED vars
    BY <1>0, <2>3 DEF Stopped, vars
  <2>4. ASSUME NEW m \in Modes, SetEdgeMode(m) PROVE TypeOK'
    BY <1>0, <2>4 DEF SetEdgeMode
  <2> QED BY <1>9, <2>1, <2>2, <2>3, <2>4
<1> QED
  BY <1>1, <1>2, <1>3, <1>4, <1>5, <1>6, <1>7, <1>8, <1>9
     DEF Next, CallerStep, WorkerStep

(***************************************************************************)
(* The rest of IInv, action by action.  What each action does to the set   *)
(* of live jobs comes first: only Enqueue adds to it, only WorkerDeliver   *)
(* takes from it.                                                          *)
(***************************************************************************)
Rest == /\ JobInOnePlace /\ WaiterIsOwed /\ BusyHasJob
        /\ LiveIsUnanswered /\ UnsentHasNoJob /\ WithinCapacity

(* Steps that touch neither the channel nor a worker keep the placement.   *)
LEMMA SamePlacement ==
  ASSUME IInv, UNCHANGED <<queue, wjob, wpc>>
  PROVE  JobInOnePlace' /\ BusyHasJob' /\ WithinCapacity'
BY StillLive DEF IInv, JobInOnePlace, BusyHasJob, WithinCapacity, Queued

LEMMA CallerRest ==
  ASSUME IInv, NEW c \in Caller,
         (\E p \in Priority : Start(c, p)) \/ AdmitRead(c) \/ AdmitStore(c) \/ AdmitLoad(c)
           \/ Receive(c) \/ GiveUp(c) \/ Promote(c) \/ Release(c) \/ Expire(c)
  PROVE  Rest'
<1> USE DEF gate, callerVars, workerVars
<1>1. UNCHANGED <<queue, wjob, wpc>>
  BY DEF Start, AdmitRead, AdmitStore, AdmitLoad, Receive, GiveUp, Promote, Release, Expire
<1>2. JobInOnePlace' /\ BusyHasJob' /\ WithinCapacity'
  BY <1>1, SamePlacement
<1>3. \A d : JobLive(d)' <=> JobLive(d)
  BY <1>1, StillLive
<1>4. WaiterIsOwed' /\ LiveIsUnanswered' /\ UnsentHasNoJob'
  <2> USE <1>3 DEF WaiterIsOwed, LiveIsUnanswered, UnsentHasNoJob, IInv, TypeOK, InAdmission
  <2>1. ASSUME NEW p \in Priority, Start(c, p) PROVE WaiterIsOwed' /\ LiveIsUnanswered' /\ UnsentHasNoJob'
    BY <2>1 DEF Start, Free, Entry
  <2>2. CASE AdmitRead(c)
    BY <2>2 DEF AdmitRead, Branch
  <2>3. CASE AdmitStore(c)
    BY <2>3 DEF AdmitStore
  <2>4. CASE AdmitLoad(c)
    BY <2>4 DEF AdmitLoad, Refuse
  <2>5. CASE Receive(c)
    BY <2>5 DEF Receive
  <2>6. CASE GiveUp(c)
    BY <2>6 DEF GiveUp
  <2>7. CASE Promote(c)
    BY <2>7 DEF Promote
  <2>8. CASE Release(c)
    BY <2>8 DEF Release
  <2>9. CASE Expire(c)
    BY <2>9 DEF Expire
  <2> QED BY <2>1, <2>2, <2>3, <2>4, <2>5, <2>6, <2>7, <2>8, <2>9
<1> QED BY <1>2, <1>4 DEF Rest

LEMMA EnqueueRest ==
  ASSUME IInv, NEW c \in Caller, Enqueue(c)
  PROVE  Rest' /\ \A d \in Caller : JobLive(d)' <=> JobLive(d) \/ (HasRoom /\ d = c)
<1> USE DEF gate, callerVars, workerVars
<1>1. CASE ~HasRoom
  <2>1. UNCHANGED <<queue, wjob, wpc>> /\ \A d : JobLive(d)' <=> JobLive(d)
    BY <1>1, StillLive DEF Enqueue
  <2>2. WaiterIsOwed' /\ LiveIsUnanswered' /\ UnsentHasNoJob'
    BY <1>1, <2>1 DEF Enqueue, Refuse, IInv, TypeOK, WaiterIsOwed, LiveIsUnanswered,
       UnsentHasNoJob, InAdmission
  <2> QED BY <1>1, <2>1, <2>2, SamePlacement DEF Rest
<1>2. CASE HasRoom
  <2>0. /\ queue' = Append(queue, c) /\ UNCHANGED <<wjob, wpc, done>>
        /\ pc' = [pc EXCEPT ![c] = IF pc[c] = "send" THEN "waiting" ELSE "grace"]
        /\ pc[c] \in {"send", "gatedSend"}
    BY <1>2 DEF Enqueue
  <2>1. /\ Len(queue') = Len(queue) + 1
        /\ \A i \in 1..Len(queue) : queue'[i] = queue[i]
        /\ queue'[Len(queue) + 1] = c
        /\ \A d : Queued(d)' <=> Queued(d) \/ d = c
    BY <2>0, SendQueued DEF IInv, TypeOK
  <2>2. ~JobLive(c) /\ ~Queued(c) /\ done[c] = "empty" /\ Len(queue) \in Nat
    BY <2>0 DEF IInv, TypeOK, UnsentHasNoJob, JobLive
  <2>3. \A d : JobLive(d)' <=> JobLive(d) \/ d = c
    BY <2>0, <2>1 DEF JobLive
  <2>4. JobInOnePlace'
    <3>1. ASSUME NEW i \in 1..Len(queue'), NEW j \in 1..Len(queue'), queue'[i] = queue'[j]
          PROVE  i = j
      <4>1. CASE i \in 1..Len(queue) /\ j \in 1..Len(queue)
        BY <2>1, <3>1, <4>1 DEF IInv, JobInOnePlace
      <4>2. CASE i = Len(queue) + 1 /\ j \in 1..Len(queue)
        BY <2>1, <2>2, <3>1, <4>2 DEF Queued
      <4>3. CASE j = Len(queue) + 1 /\ i \in 1..Len(queue)
        BY <2>1, <2>2, <3>1, <4>3 DEF Queued
      <4> QED BY <2>1, <2>2, <3>1, <4>1, <4>2, <4>3
    <3>2. \A w \in Worker : wjob[w] # c
      BY <2>2 DEF JobLive
    <3>3. (\A w \in Worker : wjob[w] # None => ~Queued(wjob[w]))'
      BY <2>0, <2>1, <3>2 DEF IInv, JobInOnePlace
    <3>4. \A v, w \in Worker : wjob'[v] = wjob'[w] /\ wjob'[v] # None => v = w
      BY <2>0 DEF IInv, JobInOnePlace
    <3> QED BY <3>1, <3>3, <3>4, <2>0 DEF JobInOnePlace, Queued
  <2>5. BusyHasJob'
    BY <2>0 DEF IInv, BusyHasJob
  <2>6. WaiterIsOwed'
    BY <2>0, <2>3 DEF IInv, TypeOK, WaiterIsOwed
  <2>7. LiveIsUnanswered'
    BY <2>0, <2>2, <2>3 DEF IInv, LiveIsUnanswered
  <2>8. UnsentHasNoJob'
    BY <2>0, <2>3 DEF IInv, TypeOK, UnsentHasNoJob, InAdmission
  <2>9. WithinCapacity'
    BY <1>2, <2>1, <2>2 DEF HasRoom, WithinCapacity
  <2> QED BY <1>2, <2>3, <2>4, <2>5, <2>6, <2>7, <2>8, <2>9 DEF Rest
<1> QED BY <1>1, <1>2

LEMMA TakeRest ==
  ASSUME IInv, NEW w \in Worker, WorkerTake(w)
  PROVE  Rest' /\ \A d \in Caller : JobLive(d)' <=> JobLive(d)
<1> USE DEF gate, callerVars, workerVars
<1>0. /\ queue # <<>> /\ queue' = Tail(queue) /\ wpc[w] = "range"
      /\ wjob' = [wjob EXCEPT ![w] = Head(queue)] /\ wpc' = [wpc EXCEPT ![w] = "check"]
      /\ UNCHANGED <<pc, done>> /\ TypeOK /\ JobInOnePlace
  BY DEF WorkerTake, IInv
<1>1. /\ Head(queue) \in Caller /\ Queued(Head(queue))
      /\ Len(queue') = Len(queue) - 1 /\ Len(queue) \in Nat
      /\ \A i \in 1..Len(queue') : queue'[i] = queue[i+1]
      /\ \A d : Queued(d)' <=> Queued(d) /\ d # Head(queue)
  BY <1>0, TakeQueued DEF TypeOK, JobInOnePlace
<1>2. wjob[w] = None /\ Head(queue) # None
  BY <1>0, <1>1 DEF IInv, BusyHasJob
<1>3. \A v \in Worker : wjob'[v] = IF v = w THEN Head(queue) ELSE wjob[v]
  BY <1>0 DEF TypeOK
<1>4. \A v \in Worker : wjob[v] # Head(queue)
  BY <1>0, <1>1, <1>2 DEF JobInOnePlace
<1>5. \A d \in Caller : JobLive(d)' <=> JobLive(d)
  BY <1>1, <1>2, <1>3 DEF JobLive
<1>6. JobInOnePlace'
  <2>1. \A i, j \in 1..Len(queue') : queue'[i] = queue'[j] => i = j
    <3>1. \A i \in 1..Len(queue') : i + 1 \in 1..Len(queue)
      BY <1>1
    <3> QED BY <3>1, <1>0, <1>1 DEF JobInOnePlace
  <2>2. \A u, v \in Worker : wjob'[u] = wjob'[v] /\ wjob'[u] # None => u = v
    BY <1>0, <1>3, <1>4 DEF JobInOnePlace
  <2>3. (\A v \in Worker : wjob[v] # None => ~Queued(wjob[v]))'
    BY <1>0, <1>1, <1>3 DEF JobInOnePlace
  <2> QED BY <2>1, <2>2, <2>3 DEF JobInOnePlace, Queued
<1>7. BusyHasJob'
  BY <1>0, <1>2, <1>3 DEF IInv, TypeOK, BusyHasJob
<1>8. WaiterIsOwed' /\ LiveIsUnanswered' /\ UnsentHasNoJob'
  BY <1>0, <1>5 DEF IInv, WaiterIsOwed, LiveIsUnanswered, UnsentHasNoJob
<1>9. WithinCapacity'
  BY <1>1 DEF IInv, WithinCapacity
<1> QED BY <1>5, <1>6, <1>7, <1>8, <1>9 DEF Rest

LEMMA DeliverRest ==
  ASSUME IInv, NEW w \in Worker, WorkerDeliver(w)
  PROVE  /\ Rest' /\ wjob[w] \in Caller /\ JobLive(wjob[w])
         /\ \A d \in Caller : JobLive(d)' <=> JobLive(d) /\ d # wjob[w]
<1> USE DEF gate, callerVars, workerVars
<1> DEFINE c == wjob[w]
<1>0. /\ UNCHANGED <<queue, pc>> /\ wpc[w] \in {"reply", "drop"}
      /\ wjob' = [wjob EXCEPT ![w] = None] /\ wpc' = [wpc EXCEPT ![w] = "range"]
      /\ done' = [done EXCEPT ![c] = IF wpc[w] = "reply" THEN "answered" ELSE "dropped"]
      /\ TypeOK /\ JobInOnePlace
  BY DEF WorkerDeliver, IInv
<1>1. c \in Caller /\ c # None
  BY <1>0 DEF IInv, BusyHasJob, TypeOK
<1>2. \A v \in Worker : wjob'[v] = IF v = w THEN None ELSE wjob[v]
  BY <1>0 DEF TypeOK
<1>3. \A d : Queued(d)' <=> Queued(d)
  BY <1>0 DEF Queued
<1>4. \A d \in Caller : JobLive(d)' <=> JobLive(d) /\ d # c
  BY <1>0, <1>1, <1>2, <1>3 DEF JobLive, JobInOnePlace
<1>5. JobInOnePlace'
  BY <1>0, <1>2, <1>3 DEF JobInOnePlace
<1>6. BusyHasJob'
  BY <1>0, <1>2 DEF IInv, TypeOK, BusyHasJob
<1>7. done'[c] # "empty" /\ \A d \in Caller : d # c => done'[d] = done[d]
  BY <1>0, <1>1 DEF TypeOK
<1>8. WaiterIsOwed'
  BY <1>0, <1>4, <1>7 DEF IInv, WaiterIsOwed
<1>9. LiveIsUnanswered'
  BY <1>4, <1>7 DEF IInv, LiveIsUnanswered
<1>10. JobLive(c)
  BY <1>1 DEF JobLive
<1>11. UnsentHasNoJob'
  BY <1>0, <1>1, <1>4, <1>7, <1>10 DEF IInv, UnsentHasNoJob
<1>12. WithinCapacity'
  BY <1>0 DEF IInv, WithinCapacity
<1> QED BY <1>1, <1>4, <1>5, <1>6, <1>8, <1>9, <1>10, <1>11, <1>12 DEF Rest

LEMMA WorkerRest ==
  ASSUME IInv, NEW w \in Worker, WorkerCheck(w) \/ WorkerFinish(w) \/ WorkerExit(w)
  PROVE  Rest'
<1> USE DEF gate, callerVars, workerVars
<1>1. UNCHANGED <<queue, wjob, pc, done>>
  BY DEF WorkerCheck, WorkerFinish, WorkerExit
<1>2. (\A d : Queued(d)' <=> Queued(d)) /\ (\A d : JobLive(d)' <=> JobLive(d))
  BY <1>1, StillLive
<1>3. BusyHasJob'
  BY <1>1 DEF WorkerCheck, WorkerFinish, WorkerExit, IInv, TypeOK, BusyHasJob
<1> QED
  BY <1>1, <1>2, <1>3 DEF Rest, IInv, JobInOnePlace, WaiterIsOwed, LiveIsUnanswered,
     UnsentHasNoJob, WithinCapacity

LEMMA EngineRest ==
  ASSUME IInv, Shutdown \/ Reset \/ Stopped \/ UNCHANGED vars \/ \E m \in Modes : SetEdgeMode(m)
  PROVE  Rest'
<1> USE DEF gate, callerVars, workerVars, vars
<1>1. UNCHANGED <<queue, wjob, wpc, pc, done>>
  BY DEF Shutdown, Reset, Stopped, SetEdgeMode
<1>2. \A d : JobLive(d)' <=> JobLive(d)
  BY <1>1, StillLive
<1> QED
  BY <1>1, <1>2, SamePlacement DEF Rest, IInv, WaiterIsOwed, LiveIsUnanswered, UnsentHasNoJob

LEMMA NextIInv == IInv /\ [Next]_vars => IInv'
<1> SUFFICES ASSUME IInv, [Next]_vars PROVE Rest'
  BY NextTypeOK DEF IInv, Rest
<1> QED
  BY CallerRest, EnqueueRest, TakeRest, DeliverRest, WorkerRest, EngineRest
     DEF Next, CallerStep, WorkerStep

(* IInv is an invariant of every instance.                                 *)
THEOREM Invariance == Spec => []IInv
BY InitIInv, NextIInv, PTL DEF Spec

(* No variable ever leaves its type.                                       *)
THEOREM TypeCorrect == Spec => []TypeOK
<1>1. IInv => TypeOK
  BY DEF IInv
<1> QED BY <1>1, Invariance, PTL

(* A job is in the channel once or with one worker, never both.            *)
THEOREM OnePlace == Spec => []JobInOnePlace
<1>1. IInv => JobInOnePlace
  BY DEF IInv
<1> QED BY <1>1, Invariance, PTL

(* No worker is ever parked on a Done nobody reads.                        *)
THEOREM NeverParks == Spec => []WorkerNeverParks
<1>1. IInv => WorkerNeverParks
  BY DEF IInv, TypeOK, BusyHasJob, LiveIsUnanswered, JobLive, WorkerNeverParks
<1> QED BY <1>1, Invariance, PTL

(* Whoever waits on Done has an answer in the buffer or a job in service.  *)
THEOREM Owed == Spec => []WaiterIsOwed
<1>1. IInv => WaiterIsOwed
  BY DEF IInv
<1> QED BY <1>1, Invariance, PTL

(* Every job in the service takes up a place in the channel or a worker.   *)
Outstanding == {c \in Caller : JobLive(c)}
LEMMA OutstandingFits ==
  ASSUME IInv
  PROVE  /\ IsFiniteSet(Outstanding) /\ Cardinality(Outstanding) \in Nat
         /\ Cardinality(Outstanding) <= Len(queue) + Cardinality(Worker)
<1>1. /\ IsFiniteSet(Outstanding) /\ Cardinality(Outstanding) \in Nat
      /\ Cardinality(Outstanding) <= Len(queue) + Cardinality(Worker)
  <2> DEFINE S == Outstanding
             Slots == 1..Len(queue)
             InQueue == {queue[i] : i \in Slots}
             InPool == {wjob[w] : w \in Worker}
  <2>1. Len(queue) \in Nat /\ Len(queue) <= QueueCap
    BY DEF IInv, TypeOK, WithinCapacity
  <2>2. IsFiniteSet(Slots) /\ Cardinality(Slots) = Len(queue)
    <3>1. 1 \in Int /\ Len(queue) \in Int /\ (1 > Len(queue) <=> Len(queue) = 0)
      BY <2>1
    <3>2. IsFiniteSet(1..Len(queue))
           /\ Cardinality(1..Len(queue)) = IF 1 > Len(queue) THEN 0 ELSE Len(queue) - 1 + 1
      BY <3>1, FS_Interval
    <3> QED BY <2>1, <3>1, <3>2
  <2>3. IsFiniteSet(InQueue) /\ Cardinality(InQueue) <= Cardinality(Slots)
    <3> DEFINE f == [i \in Slots |-> queue[i]]
    <3>1. f \in Surjection(Slots, InQueue)
      BY DEF Surjection
    <3> QED BY <2>2, <3>1, FS_Surjection
  <2>4. IsFiniteSet(InPool) /\ Cardinality(InPool) <= Cardinality(Worker)
    <3> DEFINE f == [w \in Worker |-> wjob[w]]
    <3>1. f \in Surjection(Worker, InPool)
      BY DEF Surjection
    <3> QED BY PoolAssumption, <3>1, FS_Surjection
  <2>5. S \in SUBSET (InQueue \union InPool)
    <3> SUFFICES ASSUME NEW c \in Caller, JobLive(c) PROVE c \in InQueue \/ c \in InPool
      BY DEF Outstanding
    <3>1. CASE \E i \in Slots : queue[i] = c
      BY <3>1
    <3>2. CASE \E w \in Worker : wjob[w] = c
      BY <3>2
    <3> QED BY <3>1, <3>2 DEF JobLive, Queued, Outstanding
  <2> HIDE DEF S, InQueue, InPool
  <2>6. /\ Cardinality(InQueue) \in Nat /\ Cardinality(InPool) \in Nat
        /\ Cardinality(InQueue \cap InPool) \in Nat /\ Cardinality(Worker) \in Nat
    <3>1. IsFiniteSet(InQueue \cap InPool)
      BY <2>3, FS_Subset
    <3> QED BY <2>3, <2>4, <3>1, FS_CardinalityType, PoolAssumption
  <2>7. /\ IsFiniteSet(InQueue \union InPool)
        /\ Cardinality(InQueue \union InPool)
             = Cardinality(InQueue) + Cardinality(InPool) - Cardinality(InQueue \cap InPool)
    BY <2>3, <2>4, FS_Union
  <2>8. /\ Cardinality(S) <= Cardinality(InQueue \union InPool)
        /\ IsFiniteSet(S)
    BY <2>5, <2>7, FS_Subset
  <2>9. Cardinality(S) \in Nat
    BY <2>8, FS_CardinalityType
  <2> QED BY <2>1, <2>2, <2>3, <2>4, <2>6, <2>7, <2>8, <2>9 DEF S
<1> QED BY <1>1

(* At most QueueCap + workerCount calls are in the service at once.        *)
THEOREM Bounded == Spec => []OutstandingBounded
<1>1. ASSUME IInv PROVE OutstandingBounded
  <2>1. Len(queue) \in Nat /\ Len(queue) <= QueueCap /\ Cardinality(Worker) \in Nat
    BY <1>1, FS_CardinalityType, PoolAssumption DEF IInv, TypeOK, WithinCapacity
  <2> QED BY <1>1, <2>1, OutstandingFits DEF OutstandingBounded, Outstanding
<1> QED BY <1>1, Invariance, PTL


-----------------------------------------------------------------------------
(* The accounting.  Steps of one caller first: the samples of the jobs in  *)
(* the channel and with workers are out of their reach.                    *)
LEMMA InitAccounted == Init => Accounted
<1> SUFFICES ASSUME Init PROVE Accounted
  OBVIOUS
<1>1. \A c \in Caller : ~JobLive(c) /\ ~Queued(c)
  BY DEF Init, JobLive, Queued
<1> QED BY <1>1 DEF Init, Accounted, AnswerMatchesSample, InAdmission

LEMMA CallerAccounted ==
  ASSUME IInv, Accounted, NEW c \in Caller,
         (\E p \in Priority : Start(c, p)) \/ AdmitRead(c) \/ AdmitStore(c) \/ AdmitLoad(c)
           \/ Receive(c) \/ GiveUp(c) \/ Promote(c) \/ Release(c) \/ Expire(c)
           \/ (Enqueue(c) /\ ~HasRoom)
  PROVE  Accounted'
<1> USE DEF gate, callerVars, workerVars
<1>1. UNCHANGED <<queue, wjob, wpc>>
  BY DEF Start, AdmitRead, AdmitStore, AdmitLoad, Receive, GiveUp, Promote, Release, Expire, Enqueue
<1>2. (\A d : Queued(d)' <=> Queued(d)) /\ (\A d : JobLive(d)' <=> JobLive(d))
  BY <1>1, StillLive
<1>3. \A d \in Caller : d # c => sample'[d] = sample[d] /\ result'[d] = result[d]
                             /\ pc'[d] = pc[d] /\ priority'[d] = priority[d] /\ done'[d] = done[d]
  BY DEF Start, AdmitRead, AdmitStore, AdmitLoad, Receive, GiveUp, Promote, Release, Expire,
     Enqueue, Refuse, IInv, TypeOK
<1>4. JobLive(c) => sample'[c] = sample[c]
  BY DEF Start, Free, AdmitRead, AdmitStore, AdmitLoad, Receive, GiveUp, Promote, Release, Expire,
     Enqueue, Refuse, IInv, UnsentHasNoJob, InAdmission
<1>5. \A w \in Worker : wjob'[w] # None => sample'[wjob'[w]] = SampleAt[wpc'[w]]
  <2> SUFFICES ASSUME NEW w \in Worker, wjob[w] # None PROVE sample'[wjob[w]] = sample[wjob[w]]
    BY <1>1 DEF Accounted
  <2>1. wjob[w] \in Caller /\ JobLive(wjob[w])
    BY DEF IInv, TypeOK, JobLive
  <2> QED BY <2>1, <1>3, <1>4
<1>6. Queued(c) => JobLive(c)
  BY DEF JobLive
<1> DEFINE Row(d) ==
      /\ pc[d] \in InAdmission \union {"send", "gatedSend"} => sample[d] = "none"
      /\ pc[d] \in InAdmission \union {"send", "gatedSend", "waiting", "grace"} => result[d] = "none"
      /\ pc[d] = "held" => result[d] = "promoted"
      /\ pc[d] \in InAdmission => priority[d] = "normal"
      /\ Queued(d) => sample[d] = "none"
      /\ pc[d] \in {"waiting", "grace", "held"} /\ ~JobLive(d) => sample[d] \in {"completed", "abandoned"}
      /\ result[d] = "full" <=> sample[d] = "rejected"
      /\ sample[d] = "rejected" => ~JobLive(d)
      /\ "answered" \in {result[d], done[d]} => sample[d] = "completed"
      /\ "dropped" \in {result[d], done[d]} => sample[d] = "abandoned"
      /\ result[d] # "none" /\ ~JobLive(d) => sample[d] \in {"rejected", "abandoned", "completed"}
<1>7. \A d \in Caller : Row(d)
  BY DEF Accounted, AnswerMatchesSample
<1>8. \A d \in Caller : d # c => Row(d)'
  BY <1>2, <1>3, <1>7
<1>9. Row(c)'
  <2> USE <1>2, <1>6, <1>7 DEF IInv, TypeOK, InAdmission, UnsentHasNoJob, Answer, InGated
  <2>1. ASSUME NEW p \in Priority, Start(c, p) PROVE Row(c)'
    BY <2>1 DEF Start, Free, Entry
  <2>2. CASE AdmitRead(c)
    BY <2>2 DEF AdmitRead, Branch
  <2>3. CASE AdmitStore(c)
    BY <2>3 DEF AdmitStore
  <2>4. CASE AdmitLoad(c)
    BY <2>4 DEF AdmitLoad, Refuse
  <2>5. CASE Receive(c)
    BY <2>5 DEF Receive, WaiterIsOwed, LiveIsUnanswered
  <2>6. CASE GiveUp(c)
    BY <2>6 DEF GiveUp
  <2>7. CASE Promote(c)
    BY <2>7 DEF Promote
  <2>8. CASE Release(c)
    BY <2>8 DEF Release
  <2>9. CASE Expire(c)
    BY <2>9 DEF Expire
  <2>10. CASE Enqueue(c) /\ ~HasRoom
    BY <2>10 DEF Enqueue, Refuse
  <2> QED BY <2>1, <2>2, <2>3, <2>4, <2>5, <2>6, <2>7, <2>8, <2>9, <2>10
<1> QED BY <1>5, <1>8, <1>9 DEF Accounted, AnswerMatchesSample

LEMMA EnqueueAccounted ==
  ASSUME IInv, Accounted, NEW c \in Caller, Enqueue(c), HasRoom
  PROVE  Accounted'
<1> USE DEF gate, callerVars, workerVars
<1>1. /\ queue' = Append(queue, c) /\ UNCHANGED <<wjob, wpc, done, sample, result, priority>>
      /\ pc' = [pc EXCEPT ![c] = IF pc[c] = "send" THEN "waiting" ELSE "grace"]
      /\ pc[c] \in {"send", "gatedSend"} /\ TypeOK
  BY DEF Enqueue, IInv
<1>2. \A d : Queued(d)' <=> Queued(d) \/ d = c
  BY <1>1, SendQueued DEF TypeOK
<1>3. \A d : JobLive(d)' <=> JobLive(d) \/ d = c
  BY <1>1, <1>2 DEF JobLive
<1>4. pc'[c] \in {"waiting", "grace"} /\ \A d \in Caller : d # c => pc'[d] = pc[d]
  BY <1>1 DEF TypeOK
<1>5. sample[c] = "none" /\ result[c] = "none"
  BY <1>1 DEF Accounted
<1> QED
  BY <1>1, <1>2, <1>3, <1>4, <1>5 DEF Accounted, AnswerMatchesSample, InAdmission

(* Steps of one worker: only the row of the job it has can change.         *)
LEMMA WorkerAccounted ==
  ASSUME IInv, Accounted, NEW w \in Worker, WorkerStep(w)
  PROVE  Accounted'
<1> USE DEF gate, callerVars, workerVars
<1>0. TypeOK /\ JobInOnePlace
  BY DEF IInv
<1>1. CASE WorkerTake(w)
  <2>0. /\ queue # <<>> /\ queue' = Tail(queue) /\ wpc[w] = "range"
        /\ wjob' = [wjob EXCEPT ![w] = Head(queue)] /\ wpc' = [wpc EXCEPT ![w] = "check"]
        /\ UNCHANGED <<pc, done, sample, result, priority>>
    BY <1>1 DEF WorkerTake
  <2>1. /\ Head(queue) \in Caller /\ Queued(Head(queue))
        /\ \A d : Queued(d)' <=> Queued(d) /\ d # Head(queue)
    BY <1>0, <2>0, TakeQueued DEF TypeOK, JobInOnePlace
  <2>2. wjob[w] = None
    BY <2>0 DEF IInv, BusyHasJob
  <2>3. /\ \A v \in Worker : wjob'[v] = IF v = w THEN Head(queue) ELSE wjob[v]
        /\ \A v \in Worker : wpc'[v] = IF v = w THEN "check" ELSE wpc[v]
    BY <1>0, <2>0 DEF TypeOK
  <2>4. \A d \in Caller : JobLive(d)' <=> JobLive(d)
    BY <2>1, <2>2, <2>3 DEF JobLive
  <2> QED BY <2>0, <2>1, <2>3, <2>4 DEF Accounted, AnswerMatchesSample, SampleAt
<1>2. ASSUME ~WorkerTake(w), ~WorkerExit(w) PROVE Accounted'
  <2> DEFINE c == wjob[w]
  <2>0. /\ UNCHANGED <<queue, pc, result, priority>> /\ wpc[w] \in {"check", "process", "reply", "drop"}
    BY <1>2 DEF WorkerStep, WorkerCheck, WorkerFinish, WorkerDeliver
  <2>1. c \in Caller /\ c # None /\ JobLive(c) /\ ~Queued(c)
    BY <1>0, <2>0 DEF IInv, BusyHasJob, TypeOK, JobInOnePlace, JobLive
  <2>2. sample[c] = SampleAt[wpc[w]] /\ \A v \in Worker : v # w => wjob[v] # c
    BY <1>0, <2>0, <2>1 DEF Accounted, JobInOnePlace
  <2>3. \A d : Queued(d)' <=> Queued(d)
    BY <2>0 DEF Queued
  <2>4. CASE WorkerCheck(w) \/ WorkerFinish(w)
    <3>1. UNCHANGED <<wjob, done>> /\ \A d : JobLive(d)' <=> JobLive(d)
      BY <2>0, <2>4, StillLive DEF WorkerCheck, WorkerFinish
    <3>2. /\ \A d \in Caller : d # c => sample'[d] = sample[d]
          /\ \A v \in Worker : v # w => wpc'[v] = wpc[v]
          /\ sample'[c] = SampleAt[wpc'[w]] /\ sample'[c] \in {"waited", "completed", "abandoned"}
      BY <1>0, <2>1, <2>4 DEF WorkerCheck, WorkerFinish, TypeOK, SampleAt
    <3>3. sample[c] \in {"none", "waited"} /\ done[c] = "empty"
      BY <2>1, <2>2, <2>4 DEF WorkerCheck, WorkerFinish, SampleAt, IInv, LiveIsUnanswered
    <3>4. result[c] \in {"none", "gave_up", "promoted"}
      BY <1>0, <2>1, <3>3 DEF Accounted, AnswerMatchesSample, TypeOK, Answer
    <3>5. \A v \in Worker : wjob'[v] # None => sample'[wjob'[v]] = SampleAt[wpc'[v]]
      BY <1>0, <2>2, <3>1, <3>2 DEF Accounted, TypeOK
    <3>6. pc[c] \notin InAdmission \union {"send", "gatedSend"}
      BY <2>1 DEF IInv, UnsentHasNoJob
    <3> QED
      BY <2>0, <2>1, <2>3, <3>1, <3>2, <3>3, <3>4, <3>5, <3>6
         DEF Accounted, AnswerMatchesSample
  <2>5. CASE WorkerDeliver(w)
    <3>0. /\ UNCHANGED sample /\ wpc[w] \in {"reply", "drop"}
          /\ \A v \in Worker : wjob'[v] = IF v = w THEN None ELSE wjob[v]
          /\ \A v \in Worker : wpc'[v] = IF v = w THEN "range" ELSE wpc[v]
          /\ \A d \in Caller : d # c => done'[d] = done[d]
          /\ done'[c] = IF wpc[w] = "reply" THEN "answered" ELSE "dropped"
      BY <1>0, <2>1, <2>5 DEF WorkerDeliver, TypeOK
    <3>1. \A d \in Caller : JobLive(d)' <=> JobLive(d) /\ d # c
      BY <2>1, <2>2, <2>3, <3>0 DEF JobLive
    <3>2. sample[c] = IF wpc[w] = "reply" THEN "completed" ELSE "abandoned"
      BY <2>2, <3>0 DEF SampleAt
    <3> QED
      BY <2>0, <2>1, <2>3, <3>0, <3>1, <3>2 DEF Accounted, AnswerMatchesSample
  <2> QED BY <1>2, <2>4, <2>5 DEF WorkerStep
<1>3. CASE WorkerExit(w)
  <2>1. UNCHANGED <<queue, wjob, pc, done, sample, result, priority>>
    BY <1>3 DEF WorkerExit
  <2>2. (\A d : Queued(d)' <=> Queued(d)) /\ (\A d : JobLive(d)' <=> JobLive(d))
    BY <2>1, StillLive
  <2>3. \A v \in Worker : wjob'[v] # None => wpc'[v] = wpc[v]
    BY <1>0, <1>3, <2>1 DEF WorkerExit, IInv, BusyHasJob, TypeOK
  <2> QED BY <2>1, <2>2, <2>3 DEF Accounted, AnswerMatchesSample
<1> QED BY <1>1, <1>2, <1>3

LEMMA EngineAccounted ==
  ASSUME IInv, Accounted,
         Shutdown \/ Reset \/ Stopped \/ UNCHANGED vars \/ \E m \in Modes : SetEdgeMode(m)
  PROVE  Accounted'
<1> USE DEF gate, callerVars, workerVars, vars
<1>1. UNCHANGED <<queue, wjob, wpc, pc, done, sample, result, priority>>
  BY DEF Shutdown, Reset, Stopped, SetEdgeMode
<1>2. (\A d : Queued(d)' <=> Queued(d)) /\ (\A d : JobLive(d)' <=> JobLive(d))
  BY <1>1, StillLive
<1> QED BY <1>1, <1>2 DEF Accounted, AnswerMatchesSample

LEMMA NextAccounted == IInv /\ Accounted /\ [Next]_vars => Accounted'
BY CallerAccounted, EnqueueAccounted, WorkerAccounted, EngineAccounted
   DEF Next, CallerStep

LEMMA AccountedInvariance == Spec => [](IInv /\ Accounted)
<1>1. Init => IInv /\ Accounted
  BY InitIInv, InitAccounted
<1>2. IInv /\ Accounted /\ [Next]_vars => (IInv /\ Accounted)'
  BY NextIInv, NextAccounted
<1> QED BY <1>1, <1>2, PTL DEF Spec

(* What every caller is told agrees with what the metrics window counts.   *)
THEOREM AnswersAccounted == Spec => []AnswerMatchesSample
<1>1. Accounted => AnswerMatchesSample
  BY DEF Accounted
<1> QED BY <1>1, AccountedInvariance, PTL

(* No call's fate is counted twice, or changed once counted.               *)
THEOREM FateCountedOnce == Spec => CountedOnce
<1> DEFINE Once == \A c \in Caller : sample'[c] # sample[c] =>
       \/ <<sample[c], sample'[c]>> \in {<<"none", "waited">>, <<"waited", "completed">>,
                                         <<"none", "abandoned">>, <<"none", "rejected">>}
       \/ sample'[c] = "none" /\ Free(c)
<1>1. IInv /\ Accounted /\ [Next]_vars => Once
  <2> SUFFICES ASSUME IInv, Accounted, [Next]_vars PROVE Once
    OBVIOUS
  <2> USE DEF gate, callerVars, workerVars
  <2>0. TypeOK
    BY DEF IInv
  <2>1. ASSUME NEW c \in Caller, NEW p \in Priority, Start(c, p) PROVE Once
    BY <2>0, <2>1 DEF Start, TypeOK
  <2>2. ASSUME NEW c \in Caller, AdmitLoad(c) \/ Enqueue(c) PROVE Once
    BY <2>0, <2>2 DEF AdmitLoad, Enqueue, Refuse, Accounted, InAdmission, TypeOK
  <2>3. ASSUME NEW w \in Worker, WorkerCheck(w) \/ WorkerFinish(w) PROVE Once
    <3>1. wjob[w] \in Caller /\ sample[wjob[w]] = SampleAt[wpc[w]]
      BY <2>0, <2>3 DEF WorkerCheck, WorkerFinish, IInv, BusyHasJob, TypeOK, Accounted
    <3> QED BY <2>0, <2>3, <3>1 DEF WorkerCheck, WorkerFinish, SampleAt, TypeOK
  <2>4. CASE UNCHANGED sample
    BY <2>4
  <2>5. \/ UNCHANGED sample
        \/ \E c \in Caller, p \in Priority : Start(c, p)
        \/ \E c \in Caller : AdmitLoad(c) \/ Enqueue(c)
        \/ \E w \in Worker : WorkerCheck(w) \/ WorkerFinish(w)
    BY DEF Next, vars, CallerStep, WorkerStep, AdmitRead, AdmitStore, Receive, GiveUp, Promote,
       Release, Expire, WorkerTake, WorkerDeliver, WorkerExit, SetEdgeMode, Shutdown, Reset, Stopped
  <2> QED BY <2>1, <2>2, <2>3, <2>4, <2>5
<1>2. [][Once]_vars <=> CountedOnce
  BY DEF CountedOnce
<1> QED BY <1>1, <1>2, AccountedInvariance, PTL DEF Spec

(* A release-candidate call is refused by a full channel and nothing else. *)
THEOREM ReleaseShed == Spec => ReleaseShedOnlyWhenFull
<1> DEFINE OnlyFull == \A c \in Caller :
       priority[c] = "release_candidate" /\ sample[c] = "none" /\ sample'[c] = "rejected"
         => Len(queue) = QueueCap
<1>1. IInv /\ Accounted /\ [Next]_vars => OnlyFull
  <2> SUFFICES ASSUME IInv, Accounted, [Next]_vars, NEW c \in Caller,
                      priority[c] = "release_candidate", sample[c] = "none", sample'[c] = "rejected"
               PROVE  Len(queue) = QueueCap
    OBVIOUS
  <2> USE DEF gate, callerVars, workerVars
  <2>0. TypeOK /\ WithinCapacity
    BY DEF IInv
  <2>1. ASSUME NEW d \in Caller, AdmitLoad(d) PROVE FALSE
    <3>1. d = c
      BY <2>0, <2>1 DEF AdmitLoad, Refuse, TypeOK
    <3> QED BY <2>1, <3>1 DEF AdmitLoad, Accounted, InAdmission
  <2>2. ASSUME NEW d \in Caller, Enqueue(d) PROVE ~HasRoom
    BY <2>2 DEF Enqueue
  <2>3. \E d \in Caller : AdmitLoad(d) \/ Enqueue(d)
    BY <2>0 DEF Next, vars, CallerStep, WorkerStep, Start, AdmitRead, AdmitStore, Receive, GiveUp,
       Promote, Release, Expire, WorkerTake, WorkerCheck, WorkerFinish, WorkerDeliver, WorkerExit,
       SetEdgeMode, Shutdown, Reset, Stopped, TypeOK
  <2>4. ~HasRoom
    BY <2>1, <2>2, <2>3
  <2> QED BY <2>0, <2>4 DEF HasRoom, WithinCapacity, TypeOK
<1>2. [][OnlyFull]_vars <=> ReleaseShedOnlyWhenFull
  BY DEF ReleaseShedOnlyWhenFull
<1> QED BY <1>1, <1>2, AccountedInvariance, PTL DEF Spec
=============================================================================
