--------------------------- MODULE PipelineProofs ---------------------------
(***************************************************************************)
(* What Engine.Close promises, and what a run's answer says of the calls   *)
(* below it, for every graph, every set of runs and every size of the      *)
(* pools and channels.                                                     *)
(***************************************************************************)
EXTENDS Pipeline, WellFoundedInduction, TLAPS

(* The channel is open for whoever is about to send on it: its parent is   *)
(* at wg.Wait, in a pool that Close has not passed, so its own pool comes  *)
(* later.                                                                  *)
LEMMA OpenForSenders == IInv => NoSendOnClosed
<1> SUFFICES ASSUME IInv, NEW c \in Call, pc[c] = "send", Svc[c] \in closed
             PROVE  FALSE
  BY DEF NoSendOnClosed
<1>1. stage = "pools" /\ RunsAreBack
  BY DEF IInv, Frontier, RunsAreOver
<1>2. Parent[c] \in Call
  BY <1>1, CallAssumption DEF RunsAreBack, Run
<1>3. job[Parent[c]] = "fanout" /\ Svc[Parent[c]] \in Node /\ Svc[c] \in Node
  BY <1>2, CallAssumption DEF IInv, ParentWaits
<1>4. PICK i \in 1..Len(Order) : Order[i] = Svc[Parent[c]]
  BY <1>3, OrderAssumption
<1>5. PICK j \in 1..Len(Order) : Order[j] = Svc[c]
  BY <1>3, OrderAssumption
<1>6. i < j /\ j <= pos
  <2>1. <<Order[i], Order[j]>> \in Edge
    BY <1>2, <1>4, <1>5, CallAssumption
  <2>2. i < j
    <3>1. <<Order[i], Order[j]>>[1] = Order[i] /\ <<Order[i], Order[j]>>[2] = Order[j]
      OBVIOUS
    <3> QED BY <2>1, <3>1, OrderAssumption
  <2>3. j <= pos
    BY <1>5 DEF IInv, Frontier
  <2> QED BY <2>2, <2>3
<1>7. i < pos /\ pos \in Nat
  BY <1>6 DEF IInv, TypeOK
<1>8. Drained(Order[i])
  BY <1>7 DEF IInv, Frontier
<1>9. Parent[c] \in Busy(Order[i])
  BY <1>2, <1>3, <1>4 DEF Busy
<1> QED BY <1>8, <1>9 DEF Drained

LEMMA NothingLeft == IInv => CloseLeavesNothing
<1> SUFFICES ASSUME IInv, pos > Len(Order), NEW c \in Call
             PROVE  /\ job[c] \in {"none", "done", "failed"}
                    /\ pc[c] \in {"none", "held", "returned"}
                    /\ pc[c] = "held" => Finished(c)
  BY DEF CloseLeavesNothing
<1> USE DEF IInv, TypeOK
<1>0. Len(Order) \in Nat /\ pos \in Nat
  BY OrderAssumption
<1>1. ASSUME NEW n \in Node PROVE Drained(n)
  <2>1. PICK i \in 1..Len(Order) : Order[i] = n
    BY OrderAssumption
  <2>2. i < pos
    BY <1>0
  <2>3. Frontier
    OBVIOUS
  <2> QED BY <2>1, <2>2, <2>3 DEF Frontier
<1>2. ASSUME NEW d \in Call PROVE job[d] \in {"none", "done", "failed"}
  <2>1. Svc[d] \in Node /\ queue[Svc[d]] = <<>> /\ d \notin Busy(Svc[d])
    BY <1>1, CallAssumption DEF Drained
  <2>2. job[d] # "queued"
    BY <2>1 DEF JobInPlace, Waits
  <2>3. job[d] \notin {"working", "fanout"}
    BY <2>1 DEF Busy
  <2> QED BY <2>2, <2>3
<1>3. \E i \in 1..Len(Order) : Order[i] = Root
  BY GraphAssumption, OrderAssumption
<1>4. RunsAreBack
  BY <1>0, <1>3 DEF Frontier, RunsAreOver
<1>5. pc[c] \notin {"send", "waiting", "grace"}
  <2>1. CASE Parent[c] = None
    BY <1>4, <2>1 DEF RunsAreBack, Run
  <2>2. CASE Parent[c] # None
    <3>1. Parent[c] \in Call
      BY <2>2, CallAssumption
    <3>2. job[Parent[c]] # "fanout"
      BY <1>2, <3>1
    <3>3. ParentWaits
      OBVIOUS
    <3> QED BY <2>2, <3>2, <3>3 DEF ParentWaits
  <2> QED BY <2>1, <2>2
<1>6. pc[c] = "held" => Finished(c)
  BY <1>2 DEF JobInPlace, Finished
<1> QED BY <1>2, <1>5, <1>6

-----------------------------------------------------------------------------
LEMMA InitIInv == Init => IInv
<1> SUFFICES ASSUME Init PROVE IInv
  OBVIOUS
<1>1. Order \in Seq(Node) /\ Len(Order) \in Nat
  BY OrderAssumption
<1>2. TypeOK
  <2>1. Ok \in Result /\ <<>> \in Seq(Call) /\ 1 \in 1..(Len(Order) + 1)
    BY <1>1 DEF Ok, Result
  <2> QED BY <2>1, GraphAssumption DEF Init, TypeOK
<1>3. ParentWaits /\ RunsAreOver /\ Frontier
  BY <1>1 DEF Init, ParentWaits, RunsAreOver, Frontier
<1>4. JobInPlace /\ QueuedOnce
  BY DEF Init, JobInPlace, QueuedOnce, Waits
<1> QED BY <1>2, <1>3, <1>4 DEF IInv

(* Sending c on a channel that does not hold it adds c, once.              *)
LEMMA SendKeeps ==
  ASSUME NEW q \in Seq(Call), NEW c \in Call
  PROVE  /\ Append(q, c) \in Seq(Call)
         /\ \A d : (\E i \in 1..Len(Append(q, c)) : Append(q, c)[i] = d)
                   <=> d = c \/ \E i \in 1..Len(q) : q[i] = d
         /\ (\A i \in 1..Len(q) : q[i] # c) /\ (\A i, j \in 1..Len(q) : q[i] = q[j] => i = j)
            => \A i, j \in 1..Len(Append(q, c)) : Append(q, c)[i] = Append(q, c)[j] => i = j
<1>1. /\ Append(q, c) \in Seq(Call)
      /\ Len(Append(q, c)) = Len(q) + 1 /\ Len(q) \in Nat
      /\ \A i \in 1..Len(q) : Append(q, c)[i] = q[i]
      /\ Append(q, c)[Len(q) + 1] = c
  OBVIOUS
<1>2. /\ Len(q) + 1 \in 1..Len(Append(q, c)) /\ 1..Len(q) \subseteq 1..Len(Append(q, c))
      /\ \A i \in 1..Len(Append(q, c)) : i \in 1..Len(q) \/ i = Len(q) + 1
  BY <1>1
<1> QED BY <1>1, <1>2

(* Taking the head of a channel without duplicates removes that job only.  *)
LEMMA TakeKeeps ==
  ASSUME NEW q \in Seq(Call), q # <<>>,
         \A i, j \in 1..Len(q) : q[i] = q[j] => i = j
  PROVE  /\ Tail(q) \in Seq(Call)
         /\ \A d : (\E i \in 1..Len(Tail(q)) : Tail(q)[i] = d)
                   <=> d # Head(q) /\ \E i \in 1..Len(q) : q[i] = d
         /\ \A i, j \in 1..Len(Tail(q)) : Tail(q)[i] = Tail(q)[j] => i = j
<1>1. /\ Tail(q) \in Seq(Call)
      /\ Len(q) \in Nat /\ Len(q) > 0 /\ Len(Tail(q)) = Len(q) - 1
      /\ \A i \in 1..(Len(q)-1) : Tail(q)[i] = q[i+1]
      /\ Head(q) = q[1]
  OBVIOUS
<1>2. ASSUME NEW d, d # Head(q), NEW i \in 1..Len(q), q[i] = d
      PROVE  \E j \in 1..Len(Tail(q)) : Tail(q)[j] = d
  <2>1. i # 1 /\ i - 1 \in 1..Len(Tail(q)) /\ (i - 1) + 1 = i
    BY <1>1, <1>2
  <2> QED BY <2>1, <1>1, <1>2
<1>3. ASSUME NEW i \in 1..Len(Tail(q))
      PROVE  /\ Tail(q)[i] # Head(q)
             /\ \E j \in 1..Len(q) : q[j] = Tail(q)[i]
  <2>1. i + 1 \in 1..Len(q) /\ 1 \in 1..Len(q) /\ i + 1 # 1 /\ Tail(q)[i] = q[i+1]
    BY <1>1
  <2> QED BY <2>1, <1>1
<1>4. ASSUME NEW i \in 1..Len(Tail(q)), NEW j \in 1..Len(Tail(q)), Tail(q)[i] = Tail(q)[j]
      PROVE  i = j
  <2>1. /\ i + 1 \in 1..Len(q) /\ Tail(q)[i] = q[i+1]
        /\ j + 1 \in 1..Len(q) /\ Tail(q)[j] = q[j+1]
    BY <1>1
  <2>2. i + 1 = j + 1
    BY <2>1, <1>4
  <2> QED BY <2>2
<1> QED BY <1>1, <1>2, <1>3, <1>4

LEMMA NextTypeOK == IInv /\ [Next]_vars => TypeOK'
<1> SUFFICES ASSUME IInv, [Next]_vars PROVE TypeOK'
  OBVIOUS
<1> USE DEF TypeOK, callVars, engineVars, Mode, Result, Ok, Failure
<1>0. TypeOK /\ Len(Order) \in Nat
  BY OrderAssumption DEF IInv
<1>1. ASSUME NEW c \in Call, StartRun(c) PROVE TypeOK'
  BY <1>0, <1>1 DEF StartRun
<1>2. ASSUME NEW c \in Call, Dispatch(c) PROVE TypeOK'
  <2>1. ctx[Parent[c]] \in Call /\ mode[<<Svc[Parent[c]], Svc[c]>>] \in Mode
    <3>1. Parent[c] \in Call /\ <<Svc[Parent[c]], Svc[c]>> \in Edge
      BY <1>2, CallAssumption DEF Dispatch
    <3>2. ctx[Parent[c]] \in Call
      BY <1>0, <3>1
    <3>3. \A e \in Edge : mode[e] \in Mode
      BY <1>0
    <3> QED BY <3>1, <3>2, <3>3, Zenon
  <2>2. /\ pc' = [pc EXCEPT ![c] = "send"]
        /\ UNCHANGED <<mode, queue, closed, ended, outcome, job, acc, engineVars>>
    BY <1>2 DEF Dispatch
  <2>3. ctx' \in [Call -> Call]
    BY <1>0, <1>2, <2>1 DEF Dispatch
  <2>4. via' \in [Call -> Mode \union {"run"}]
    BY <1>0, <1>2, <2>1 DEF Dispatch
  <2>5. pc' \in [Call -> {"none", "send", "waiting", "grace", "held", "returned"}]
    BY <1>0, <2>2
  <2> QED BY <1>0, <2>2, <2>3, <2>4, <2>5
<1>3. ASSUME NEW c \in Call, Enqueue(c) PROVE TypeOK'
  <2>1. queue[Svc[c]] \in Seq(Call)
    BY <1>0, CallAssumption
  <2>2. Append(queue[Svc[c]], c) \in Seq(Call)
    BY <2>1
  <2> QED BY <1>0, <1>3, <2>2 DEF Enqueue
<1>4. ASSUME NEW c \in Call, NEW how, NEW r \in Result, Return(c, how, r),
             how \in {"answered", "full", "gave_up", "promoted"},
             NEW p \in {"held", "returned"}, pc' = [pc EXCEPT ![c] = p]
      PROVE  TypeOK'
  <2>1. \A res \in Result : Merged(res, c, r) \in Result
    BY DEF Merged
  <2>2. acc' \in [Call -> Result]
    BY <1>0, <1>4, <2>1 DEF Return
  <2> QED BY <1>0, <1>4, <2>2 DEF Return
<1>5. ASSUME NEW c \in Call, Refused(c) \/ Receive(c) \/ GiveUp(c) \/ Promote(c) PROVE TypeOK'
  <2>1. /\ Failure \in Result /\ acc[c] \in Result
        /\ [err |-> FALSE, degraded |-> TRUE] \in Result
    BY <1>0
  <2>2. CASE Refused(c)
    BY <1>4, <2>1, <2>2 DEF Refused
  <2>3. CASE Receive(c)
    BY <1>4, <2>1, <2>3 DEF Receive
  <2>4. CASE GiveUp(c)
    BY <1>4, <2>1, <2>4 DEF GiveUp
  <2>5. CASE Promote(c)
    BY <1>4, <2>1, <2>5 DEF Promote
  <2> QED BY <1>5, <2>2, <2>3, <2>4, <2>5
<1>6. ASSUME NEW c \in Call, Release(c) \/ Expire(c) PROVE TypeOK'
  BY <1>0, <1>6 DEF Release, Expire
<1>7. ASSUME NEW c \in Call, Take(c) PROVE TypeOK'
  <2>1. queue[Svc[c]] \in Seq(Call) /\ queue[Svc[c]] # <<>>
    BY <1>0, <1>7, CallAssumption DEF Take
  <2>2. Tail(queue[Svc[c]]) \in Seq(Call)
    BY <2>1
  <2>3. queue' \in [Node -> Seq(Call)]
    BY <1>0, <1>7, <2>2 DEF Take
  <2>4. job' \in [Call -> {"none", "queued", "working", "fanout", "done", "failed"}]
    <3>1. job' = [job EXCEPT ![c] = "failed"] \/ job' = [job EXCEPT ![c] = "working"]
      BY <1>7 DEF Take
    <3> QED BY <1>0, <3>1
  <2>5. acc' \in [Call -> Result]
    <3>1. Failure \in Result
      OBVIOUS
    <3>2. acc' = acc \/ acc' = [acc EXCEPT ![c] = Failure]
      BY <1>7 DEF Take
    <3>3. [acc EXCEPT ![c] = Failure] \in [Call -> Result]
      BY <1>0, <3>1
    <3> QED BY <1>0, <3>2, <3>3
  <2>6. UNCHANGED <<mode, closed, pc, via, ctx, ended, outcome, engineVars>>
    BY <1>7 DEF Take
  <2> QED BY <1>0, <2>3, <2>4, <2>5, <2>6
<1>8. ASSUME NEW c \in Call, WorkFails(c) \/ WorkEnds(c) \/ Join(c) PROVE TypeOK'
  <2>1. CASE WorkFails(c)
    BY <1>0, <2>1 DEF WorkFails
  <2>2. CASE WorkEnds(c)
    BY <1>0, <2>2 DEF WorkEnds
  <2>3. CASE Join(c)
    BY <1>0, <2>3 DEF Join
  <2> QED BY <1>8, <2>1, <2>2, <2>3
<1>9. ASSUME NEW t \in Toggled, SetEdgeMode(t[1], t[2]) PROVE TypeOK'
  BY <1>0, <1>9, GraphAssumption DEF SetEdgeMode
<1>10. ASSUME Cancel \/ LoadStop \/ AwaitRuns \/ Stopped \/ UNCHANGED vars PROVE TypeOK'
  <2>1. /\ UNCHANGED <<mode, queue, closed, callVars, pos>>
        /\ stage' \in {stage, "cancelled", "pools"}
        /\ loadDone' \in {loadDone, TRUE}
    BY <1>10 DEF Cancel, LoadStop, AwaitRuns, Stopped, vars
  <2> QED BY <1>0, <2>1
<1>11. ASSUME CloseQueue PROVE TypeOK'
  <2>1. Order[pos] \in Node
    BY <1>0, <1>11, OrderAssumption DEF CloseQueue
  <2>2. closed' = closed \union {Order[pos]} /\ UNCHANGED <<mode, queue, callVars, engineVars>>
    BY <1>11 DEF CloseQueue
  <2> QED BY <1>0, <2>1, <2>2
<1>12. ASSUME PoolDrained PROVE TypeOK'
  BY <1>0, <1>12 DEF PoolDrained
<1> QED
  BY <1>1, <1>2, <1>3, <1>5, <1>6, <1>7, <1>8, <1>9, <1>10, <1>11, <1>12
     DEF Next, CallerStep, PoolStep, WorkStep, CloseStep

(* The jobs in a channel are queued: what a worker takes was not at work.  *)
LEMMA TakesQueued ==
  ASSUME IInv, NEW c \in Call, Take(c)
  PROVE  job[c] = "queued"
<1>1. Svc[c] \in Node /\ queue[Svc[c]] \in Seq(Call) /\ queue[Svc[c]] # <<>>
  BY CallAssumption DEF IInv, TypeOK, Take
<1>2. 1 \in 1..Len(queue[Svc[c]]) /\ queue[Svc[c]][1] = c
  BY <1>1 DEF Take
<1> QED BY <1>1, <1>2 DEF IInv, JobInPlace, Waits

(***************************************************************************)
(* A caller's step keeps its parent at wg.Wait; nobody else moves it.      *)
(***************************************************************************)
LEMMA NextParentWaits == IInv /\ [Next]_vars => ParentWaits'
<1> SUFFICES ASSUME IInv, [Next]_vars, NEW d \in Call,
                    pc'[d] \in {"send", "waiting", "grace"}, Parent[d] # None
             PROVE  job'[Parent[d]] = "fanout"
  BY DEF ParentWaits
<1> USE DEF callVars, engineVars
<1>0. TypeOK /\ Parent[d] \in Call
  BY CallAssumption DEF IInv
<1>1. pc[d] \in {"send", "waiting", "grace"} => job[Parent[d]] = "fanout"
  BY DEF IInv, ParentWaits
<1>2. \A c \in Call : job[c] # "none" => pc[c] \notin {"none", "send"}
  BY DEF IInv, JobInPlace
<1>3. ASSUME NEW c \in Call, StartRun(c) PROVE job'[Parent[d]] = "fanout"
  BY <1>0, <1>1, <1>3 DEF StartRun, Run, TypeOK
<1>4. ASSUME NEW c \in Call, Dispatch(c) PROVE job'[Parent[d]] = "fanout"
  BY <1>0, <1>1, <1>4 DEF Dispatch, TypeOK
<1>5. ASSUME NEW c \in Call, Enqueue(c) PROVE job'[Parent[d]] = "fanout"
  <2>1. pc[d] \in {"send", "waiting", "grace"}
    BY <1>0, <1>5 DEF Enqueue, TypeOK
  <2>2. job[c] = "none"
    BY <1>5, <1>2 DEF Enqueue
  <2>3. Parent[d] # c
    BY <2>1, <2>2, <1>1
  <2> QED BY <1>0, <1>1, <1>5, <2>1, <2>3 DEF Enqueue, TypeOK
<1>6. ASSUME NEW c \in Call, Refused(c) \/ Receive(c) \/ GiveUp(c) \/ Promote(c) \/ Release(c)
      PROVE  job'[Parent[d]] = "fanout"
  <2>1. pc[d] \in {"send", "waiting", "grace"} /\ job' = job
    BY <1>0, <1>6 DEF Refused, Receive, GiveUp, Promote, Release, Return, TypeOK
  <2> QED BY <2>1, <1>1
<1>7. ASSUME NEW c \in Call, Take(c) PROVE job'[Parent[d]] = "fanout"
  <2>1. pc[d] \in {"send", "waiting", "grace"}
    BY <1>7 DEF Take
  <2>2. job[c] = "queued" => Parent[d] # c
    BY <2>1, <1>1
  <2>3. job[c] = "queued" /\ \A e \in Call : e # c => job'[e] = job[e]
    BY <1>0, <1>7, TakesQueued DEF Take, TypeOK
  <2> QED BY <1>0, <1>1, <2>1, <2>2, <2>3
<1>8. ASSUME NEW c \in Call, WorkFails(c) \/ WorkEnds(c) PROVE job'[Parent[d]] = "fanout"
  <2>1. pc[d] \in {"send", "waiting", "grace"} /\ job[c] = "working"
    BY <1>8 DEF WorkFails, WorkEnds
  <2>2. Parent[d] # c /\ job[Parent[d]] = "fanout"
    BY <2>1, <1>1
  <2> QED BY <1>0, <1>8, <2>2 DEF WorkFails, WorkEnds, TypeOK
<1>9. ASSUME NEW c \in Call, Join(c) PROVE job'[Parent[d]] = "fanout"
  <2>1. pc[d] \in {"send", "waiting", "grace"}
    BY <1>9 DEF Join
  <2>2. d \notin Kids(c)
    BY <1>9, <2>1 DEF Join
  <2>3. Parent[d] # c
    BY <2>2 DEF Kids
  <2> QED BY <1>0, <1>1, <1>9, <2>1, <2>3 DEF Join, TypeOK
<1>10. CASE UNCHANGED <<pc, job>>
  BY <1>1, <1>10
<1> QED
  BY <1>3, <1>4, <1>5, <1>6, <1>7, <1>8, <1>9, <1>10
     DEF Next, CallerStep, PoolStep, WorkStep, CloseStep, Expire, SetEdgeMode, Cancel,
         LoadStop, AwaitRuns, CloseQueue, PoolDrained, Stopped, vars

(* No run starts once the load generator has returned, and none comes      *)
(* back to life.                                                           *)
LEMMA NextRunsAreOver == IInv /\ [Next]_vars => RunsAreOver'
<1> SUFFICES ASSUME IInv, [Next]_vars, stage' = "pools" PROVE RunsAreBack'
  BY DEF RunsAreOver
<1> USE DEF callVars, engineVars
<1>0. TypeOK
  BY DEF IInv
<1>1. stage = "pools" => RunsAreBack
  BY DEF IInv, RunsAreOver
<1>2. ASSUME NEW c \in Call, StartRun(c) PROVE RunsAreBack'
  BY <1>1, <1>2 DEF StartRun, RunsAreBack
<1>3. ASSUME NEW c \in Call, Dispatch(c) PROVE RunsAreBack'
  BY <1>0, <1>1, <1>3 DEF Dispatch, RunsAreBack, Run, TypeOK
<1>4. ASSUME NEW c \in Call, Enqueue(c) PROVE RunsAreBack'
  BY <1>0, <1>1, <1>4 DEF Enqueue, RunsAreBack, Run, TypeOK
<1>5. ASSUME NEW c \in Call, Refused(c) \/ Receive(c) \/ GiveUp(c) \/ Promote(c) \/ Release(c)
      PROVE  RunsAreBack'
  <2>1. stage' = stage /\ loadDone' = loadDone /\ pc[c] \notin {"none", "returned"}
        /\ \A d \in Call : d # c => pc'[d] = pc[d]
    BY <1>0, <1>5 DEF Refused, Receive, GiveUp, Promote, Release, Return, TypeOK
  <2>2. c \notin Run
    BY <1>1, <2>1 DEF RunsAreBack
  <2> QED BY <1>1, <2>1, <2>2 DEF RunsAreBack, Run
<1>6. CASE AwaitRuns
  BY <1>6 DEF AwaitRuns, RunsAreBack
<1>7. CASE LoadStop
  BY <1>1, <1>7 DEF LoadStop, RunsAreBack
<1>8. CASE UNCHANGED <<pc, loadDone, stage>>
  BY <1>1, <1>8 DEF RunsAreBack
<1> QED
  BY <1>2, <1>3, <1>4, <1>5, <1>6, <1>7, <1>8
     DEF Next, CallerStep, PoolStep, WorkStep, CloseStep, Expire, SetEdgeMode, Cancel, Take,
         WorkFails, WorkEnds, Join, CloseQueue, PoolDrained, Stopped, vars

(* A drained pool whose channel is closed stays drained: nobody sends.     *)
LEMMA StaysDrained ==
  ASSUME IInv, [Next]_vars, NEW n \in Node, n \in closed, Drained(n)
  PROVE  Drained(n)'
<1> USE DEF callVars, engineVars
<1>0. TypeOK /\ queue[n] = <<>> /\ \A d \in Call : Svc[d] = n => job[d] \notin {"working", "fanout"}
  BY DEF IInv, Drained, Busy
<1>1. SUFFICES /\ queue'[n] = <<>>
               /\ \A d \in Call : Svc[d] = n => job'[d] \notin {"working", "fanout"}
  BY DEF Drained, Busy
<1>2. ASSUME NEW c \in Call, Enqueue(c)
      PROVE  /\ queue'[n] = <<>>
             /\ \A d \in Call : Svc[d] = n => job'[d] \notin {"working", "fanout"}
  <2>1. Svc[c] # n
    BY <1>2, OpenForSenders DEF Enqueue, NoSendOnClosed
  <2> QED BY <1>0, <1>2, <2>1 DEF Enqueue, TypeOK
<1>3. ASSUME NEW c \in Call, Take(c)
      PROVE  /\ queue'[n] = <<>>
             /\ \A d \in Call : Svc[d] = n => job'[d] \notin {"working", "fanout"}
  <2>1. Svc[c] # n
    BY <1>0, <1>3 DEF Take
  <2>2. queue'[n] = <<>>
    BY <1>0, <1>3, <2>1 DEF Take, TypeOK
  <2>3. \A d \in Call : d # c => job'[d] = job[d]
    BY <1>0, <1>3 DEF Take, TypeOK
  <2> QED BY <1>0, <2>1, <2>2, <2>3
<1>4. ASSUME NEW c \in Call, WorkFails(c) \/ WorkEnds(c) \/ Join(c)
      PROVE  /\ queue'[n] = <<>>
             /\ \A d \in Call : Svc[d] = n => job'[d] \notin {"working", "fanout"}
  <2>1. queue' = queue /\ job[c] \in {"working", "fanout"}
        /\ \A d \in Call : d # c => job'[d] = job[d]
    BY <1>0, <1>4 DEF WorkFails, WorkEnds, Join, TypeOK
  <2> QED BY <1>0, <2>1
<1>5. CASE UNCHANGED <<queue, job>>
  BY <1>0, <1>5
<1> QED
  BY <1>2, <1>3, <1>4, <1>5
     DEF Next, CallerStep, PoolStep, WorkStep, CloseStep, StartRun, Dispatch, Refused, Receive,
         GiveUp, Promote, Release, Return, Expire, SetEdgeMode, Cancel, LoadStop, AwaitRuns,
         CloseQueue, PoolDrained, Stopped, vars

LEMMA NextFrontier == IInv /\ [Next]_vars => Frontier'
<1> SUFFICES ASSUME IInv, [Next]_vars PROVE Frontier'
  OBVIOUS
<1> USE DEF callVars, engineVars
<1>0. TypeOK /\ Frontier /\ Len(Order) \in Nat /\ pos \in Nat
  BY OrderAssumption DEF IInv, TypeOK
<1>1. \A i \in 1..Len(Order) : Order[i] \in Node
  BY OrderAssumption
<1>2. \A i \in 1..Len(Order) : i < pos => Drained(Order[i])'
  BY <1>0, <1>1, StaysDrained DEF Frontier
<1>3. CASE CloseQueue
  <2>1. /\ stage' = stage /\ stage = "pools" /\ pos' = pos /\ pos \in 1..Len(Order)
        /\ closed' = closed \union {Order[pos]}
    BY <1>0, <1>3 DEF CloseQueue, TypeOK
  <2>2. \A i \in 1..Len(Order) : Order[i] = Order[pos] => i = pos
    BY <2>1, OrderAssumption
  <2> QED BY <1>0, <1>2, <2>1, <2>2 DEF Frontier
<1>4. CASE PoolDrained
  <2>1. /\ stage' = stage /\ stage = "pools" /\ pos' = pos + 1 /\ closed' = closed
        /\ pos \in 1..Len(Order) /\ Order[pos] \in closed /\ Drained(Order[pos])
    BY <1>0, <1>4 DEF PoolDrained, TypeOK
  <2>2. PICK i \in 1..Len(Order) : i = pos
    BY <2>1
  <2>3. Drained(Order[i])'
    BY <1>1, <2>1, <2>2, StaysDrained
  <2>4. \A j \in 1..Len(Order) : j < pos' => j < pos \/ j = i
    BY <1>0, <2>1, <2>2
  <2> QED BY <1>0, <1>2, <2>1, <2>2, <2>3, <2>4 DEF Frontier
<1>5. CASE UNCHANGED <<closed, pos>> /\ (stage = "pools" => stage' = "pools")
  BY <1>0, <1>2, <1>5 DEF Frontier
<1>6. \A c \in Call : CallerStep(c) \/ PoolStep(c) \/ WorkStep(c) \/ StartRun(c) \/ Expire(c)
                      => UNCHANGED <<closed, pos, stage>>
  BY DEF CallerStep, PoolStep, WorkStep, StartRun, Dispatch, Enqueue, Refused, Receive,
         GiveUp, Promote, Release, Return, Take, WorkFails, WorkEnds, Join, Expire
<1>7. Cancel \/ LoadStop \/ AwaitRuns \/ Stopped \/ UNCHANGED vars \/ (\E t \in Toggled : SetEdgeMode(t[1], t[2]))
      => UNCHANGED <<closed, pos>> /\ (stage = "pools" => stage' = "pools")
  BY DEF Cancel, LoadStop, AwaitRuns, Stopped, SetEdgeMode, vars
<1> QED BY <1>3, <1>4, <1>5, <1>6, <1>7 DEF Next, CloseStep

LEMMA NextQueuedOnce == IInv /\ [Next]_vars => QueuedOnce'
<1> SUFFICES ASSUME IInv, [Next]_vars, NEW n \in Node,
                    NEW i \in 1..Len(queue'[n]), NEW j \in 1..Len(queue'[n]),
                    queue'[n][i] = queue'[n][j]
             PROVE  i = j
  BY DEF QueuedOnce
<1> USE DEF callVars, engineVars
<1>0. /\ TypeOK /\ queue[n] \in Seq(Call)
      /\ \A k, l \in 1..Len(queue[n]) : queue[n][k] = queue[n][l] => k = l
  BY DEF IInv, TypeOK, QueuedOnce
<1>1. ASSUME NEW c \in Call, Enqueue(c) PROVE i = j
  <2>1. CASE Svc[c] = n
    <3>1. \A k \in 1..Len(queue[n]) : queue[n][k] # c
      BY <1>1 DEF Enqueue, IInv, JobInPlace, Waits
    <3>2. queue'[n] = Append(queue[n], c)
      BY <1>0, <1>1, <2>1 DEF Enqueue, TypeOK
    <3>3. \A k, l \in 1..Len(Append(queue[n], c)) :
            Append(queue[n], c)[k] = Append(queue[n], c)[l] => k = l
      BY <1>0, <3>1, SendKeeps
    <3> QED BY <3>2, <3>3
  <2>2. CASE Svc[c] # n
    BY <1>0, <1>1, <2>2 DEF Enqueue, TypeOK
  <2> QED BY <2>1, <2>2
<1>2. ASSUME NEW c \in Call, Take(c) PROVE i = j
  <2>1. CASE Svc[c] = n
    <3>1. queue'[n] = Tail(queue[n]) /\ queue[n] # <<>>
      BY <1>0, <1>2, <2>1 DEF Take, TypeOK
    <3>2. \A k, l \in 1..Len(Tail(queue[n])) : Tail(queue[n])[k] = Tail(queue[n])[l] => k = l
      BY <1>0, <3>1, TakeKeeps
    <3> QED BY <3>1, <3>2
  <2>2. CASE Svc[c] # n
    BY <1>0, <1>2, <2>2 DEF Take, TypeOK
  <2> QED BY <2>1, <2>2
<1>3. CASE UNCHANGED queue
  BY <1>0, <1>3
<1> QED
  BY <1>1, <1>2, <1>3
     DEF Next, CallerStep, PoolStep, WorkStep, CloseStep, StartRun, Dispatch, Refused, Receive,
         GiveUp, Promote, Release, Return, WorkFails, WorkEnds, Join, Expire, SetEdgeMode, Cancel,
         LoadStop, AwaitRuns, CloseQueue, PoolDrained, Stopped, vars

LEMMA NextJobInPlace == IInv /\ [Next]_vars => JobInPlace'
<1> SUFFICES ASSUME IInv, [Next]_vars, NEW d \in Call
             PROVE  /\ pc'[d] \in {"none", "send"} => job'[d] = "none"
                    /\ pc'[d] \in {"waiting", "grace", "held"} => job'[d] # "none"
                    /\ \A n \in Node : Waits(d, n)' <=> Svc[d] = n /\ job'[d] = "queued"
  BY DEF JobInPlace
<1> DEFINE Goal == /\ pc'[d] \in {"none", "send"} => job'[d] = "none"
                   /\ pc'[d] \in {"waiting", "grace", "held"} => job'[d] # "none"
                   /\ \A n \in Node : Waits(d, n)' <=> Svc[d] = n /\ job'[d] = "queued"
<1> USE DEF callVars, engineVars
<1>0. /\ TypeOK
      /\ pc[d] \in {"none", "send"} => job[d] = "none"
      /\ pc[d] \in {"waiting", "grace", "held"} => job[d] # "none"
      /\ \A n \in Node : Waits(d, n) <=> Svc[d] = n /\ job[d] = "queued"
  BY DEF IInv, JobInPlace
<1>1. UNCHANGED queue => \A n \in Node : Waits(d, n)' <=> Waits(d, n)
  BY DEF Waits
<1>2. ASSUME NEW c \in Call, StartRun(c) \/ Dispatch(c) PROVE Goal
  <2>1. /\ job' = job /\ queue' = queue /\ pc[c] = "none"
        /\ pc' = [pc EXCEPT ![c] = "send"]
    BY <1>2 DEF StartRun, Dispatch
  <2>2. pc'[d] = pc[d] \/ (pc[d] = "none" /\ pc'[d] = "send")
    <3>1. pc \in [Call -> {"none", "send", "waiting", "grace", "held", "returned"}]
      BY <1>0 DEF TypeOK
    <3>2. d # c => pc'[d] = pc[d]
      BY <2>1, <3>1
    <3>3. d = c => pc'[d] = "send" /\ pc[d] = "none"
      BY <2>1, <3>1
    <3> QED BY <3>2, <3>3
  <2> QED BY <1>0, <1>1, <2>1, <2>2
<1>3. ASSUME NEW c \in Call, Enqueue(c) PROVE Goal
  <2>1. /\ job'[d] = (IF d = c THEN "queued" ELSE job[d])
        /\ d # c => pc'[d] = pc[d]
        /\ d = c => pc'[d] \in {"waiting", "grace"}
    BY <1>0, <1>3 DEF Enqueue, TypeOK
  <2>2. ASSUME NEW n \in Node PROVE Waits(d, n)' <=> Svc[d] = n /\ job'[d] = "queued"
    <3>1. CASE n = Svc[c]
      <4>1. queue'[n] = Append(queue[n], c) /\ queue[n] \in Seq(Call)
        BY <1>0, <1>3, <3>1 DEF Enqueue, TypeOK
      <4>2. (\E i \in 1..Len(Append(queue[n], c)) : Append(queue[n], c)[i] = d)
              <=> d = c \/ \E i \in 1..Len(queue[n]) : queue[n][i] = d
        BY <4>1, SendKeeps
      <4>3. Waits(d, n)' <=> d = c \/ Waits(d, n)
        BY <4>1, <4>2 DEF Waits
      <4> QED BY <1>0, <2>1, <3>1, <4>3
    <3>2. CASE n # Svc[c]
      <4>1. queue'[n] = queue[n]
        BY <1>0, <1>3, <3>2 DEF Enqueue, TypeOK
      <4>2. Waits(d, n)' <=> Waits(d, n)
        BY <4>1 DEF Waits
      <4> QED BY <1>0, <2>1, <3>2, <4>2
    <3> QED BY <3>1, <3>2
  <2> QED BY <1>0, <2>1, <2>2
<1>4. ASSUME NEW c \in Call, Refused(c) \/ Receive(c) \/ GiveUp(c) \/ Promote(c) \/ Release(c)
      PROVE  Goal
  <2>1. job' = job /\ queue' = queue
    BY <1>4 DEF Refused, Receive, GiveUp, Promote, Release, Return
  <2>2. \/ pc'[d] = pc[d] \/ pc'[d] = "returned"
        \/ pc'[d] = "held" /\ pc[d] = "grace"
    BY <1>0, <1>4 DEF Refused, Receive, GiveUp, Promote, Release, TypeOK
  <2> QED BY <1>0, <1>1, <2>1, <2>2
<1>5. ASSUME NEW c \in Call, Take(c) PROVE Goal
  <2>1. /\ pc' = pc /\ job[c] = "queued"
        /\ d # c => job'[d] = job[d]
        /\ d = c => job'[d] \in {"failed", "working"}
    <3>1. pc' = pc /\ job[c] = "queued"
      BY <1>5, TakesQueued DEF Take
    <3>2. job' = [job EXCEPT ![c] = "failed"] \/ job' = [job EXCEPT ![c] = "working"]
      BY <1>5 DEF Take
    <3>3. DOMAIN job = Call
      BY <1>0 DEF TypeOK
    <3> QED BY <3>1, <3>2, <3>3
  <2>2. ASSUME NEW n \in Node PROVE Waits(d, n)' <=> Svc[d] = n /\ job'[d] = "queued"
    <3>1. CASE n = Svc[c]
      <4>1. /\ queue'[n] = Tail(queue[n]) /\ queue[n] \in Seq(Call) /\ queue[n] # <<>>
            /\ Head(queue[n]) = c
        BY <1>0, <1>5, <3>1 DEF Take, TypeOK
      <4>2. \A i, j \in 1..Len(queue[n]) : queue[n][i] = queue[n][j] => i = j
        BY DEF IInv, QueuedOnce
      <4>3. (\E i \in 1..Len(Tail(queue[n])) : Tail(queue[n])[i] = d)
              <=> d # Head(queue[n]) /\ \E i \in 1..Len(queue[n]) : queue[n][i] = d
        BY <4>1, <4>2, TakeKeeps
      <4>4. Waits(d, n)' <=> d # c /\ Waits(d, n)
        BY <4>1, <4>3 DEF Waits
      <4> QED BY <1>0, <2>1, <3>1, <4>4
    <3>2. CASE n # Svc[c]
      <4>1. queue'[n] = queue[n]
        BY <1>0, <1>5, <3>2 DEF Take, TypeOK
      <4>2. Waits(d, n)' <=> Waits(d, n)
        BY <4>1 DEF Waits
      <4> QED BY <1>0, <2>1, <3>2, <4>2
    <3> QED BY <3>1, <3>2
  <2> QED BY <1>0, <2>1, <2>2
<1>6. ASSUME NEW c \in Call, WorkFails(c) \/ WorkEnds(c) \/ Join(c) PROVE Goal
  <2>1. /\ pc' = pc /\ queue' = queue /\ job[c] \in {"working", "fanout"}
        /\ d # c => job'[d] = job[d]
        /\ d = c => job'[d] \in {"failed", "done", "fanout"}
    BY <1>0, <1>6 DEF WorkFails, WorkEnds, Join, TypeOK
  <2> QED BY <1>0, <1>1, <2>1
<1>7. CASE UNCHANGED <<pc, job, queue>>
  BY <1>0, <1>1, <1>7
<1> QED
  BY <1>2, <1>3, <1>4, <1>5, <1>6, <1>7
     DEF Next, CallerStep, PoolStep, WorkStep, CloseStep, Expire, SetEdgeMode, Cancel,
         LoadStop, AwaitRuns, CloseQueue, PoolDrained, Stopped, vars

-----------------------------------------------------------------------------
(* IInv holds in every reachable state.                                    *)
THEOREM Invariance == Spec => []IInv
<1>1. IInv /\ [Next]_vars => IInv'
  BY NextTypeOK, NextParentWaits, NextRunsAreOver, NextFrontier, NextJobInPlace, NextQueuedOnce
     DEF IInv
<1> QED BY InitIInv, <1>1, PTL DEF Spec

(* Every variable keeps its type.                                          *)
THEOREM TypeCorrect == Spec => []TypeOK
<1>1. IInv => TypeOK
  BY DEF IInv
<1> QED BY Invariance, <1>1, PTL

(* The comment on Close: because it shuts the services down parents first, *)
(* after the load generator and the runs, nobody sends on a closed queue.  *)
THEOREM NobodySendsOnClosed == Spec => []NoSendOnClosed
BY Invariance, OpenForSenders, PTL

(* What Close leaves behind: no job in a queue or with a worker, nobody in *)
(* call, and an answer for every detached goroutine.                       *)
THEOREM ClosedIsEmpty == Spec => []CloseLeavesNothing
BY Invariance, NothingLeft, PTL

-----------------------------------------------------------------------------
(***************************************************************************)
(* What a run's answer says of the calls below it.  Locally: an error in a *)
(* result has a reason in its own job or in one child, a result without    *)
(* one has no essential child that erred, and a result that is clean has   *)
(* only clean children.                                                    *)
(***************************************************************************)
Told == \A c \in Call : outcome[c] = "none" <=> pc[c] \in {"none", "send", "waiting", "grace"}
AnswerIsThere == \A c \in Call : outcome[c] = "answered" => Finished(c)
FailedErrs == \A c \in Call : job[c] = "failed" => acc[c].err
DoneAfterKids == \A c \in Call : job[c] = "done" => \A d \in Kids(c) : outcome[d] # "none"
Blames(d) == /\ via[d] \in Essential
             /\ outcome[d] \in {"full", "gave_up"} \/ (outcome[d] = "answered" /\ acc[d].err)
Explained == \A c \in Call : acc[c].err => job[c] = "failed" \/ \E d \in Kids(c) : Blames(d)
CleanKids ==
  \A c, d \in Call : Parent[d] = c /\ outcome[d] # "none" /\ acc[c] = Ok
                     => outcome[d] = "answered" /\ acc[d] = Ok /\ job[d] = "done"
SoundKids ==
  \A c, d \in Call : Parent[d] = c /\ outcome[d] # "none" /\ ~acc[c].err => ~Blames(d)
RunInv == /\ Told /\ AnswerIsThere /\ FailedErrs /\ DoneAfterKids
          /\ Explained /\ CleanKids /\ SoundKids

(* A result is clean only if both merged ones are, and an error stays, an  *)
(* essential child's too.                                                  *)
LEMMA MergeFacts ==
  ASSUME NEW res \in Result, NEW r \in Result, NEW c
  PROVE  /\ Merged(res, c, r) \in Result
         /\ Merged(res, c, r) = Ok => res = Ok /\ r = Ok
         /\ res.err => Merged(res, c, r).err
         /\ Merged(res, c, r).err <=> res.err \/ (via[c] \in Essential /\ r.err)
BY DEF Merged, Result, Ok

(* No call is its own parent.                                              *)
At(c) == CHOOSE i \in 1..Len(Order) : Order[i] = Svc[c]
LEMMA Deeper ==
  /\ Len(Order) \in Nat
  /\ \A c \in Call : At(c) \in 1..Len(Order)
  /\ \A d \in Call : Parent[d] # None =>
       Parent[d] \in Call /\ Parent[d] # d /\ At(Parent[d]) < At(d)
<1>1. ASSUME NEW c \in Call PROVE At(c) \in 1..Len(Order) /\ Order[At(c)] = Svc[c]
  <2>1. Svc[c] \in Node
    BY CallAssumption
  <2>2. \E i \in 1..Len(Order) : Order[i] = Svc[c]
    BY <2>1, OrderAssumption
  <2> QED BY <2>2 DEF At
<1>2. ASSUME NEW d \in Call, Parent[d] # None
      PROVE  Parent[d] \in Call /\ Parent[d] # d /\ At(Parent[d]) < At(d)
  <2>1. Parent[d] \in Call /\ <<Svc[Parent[d]], Svc[d]>> \in Edge
    BY <1>2, CallAssumption
  <2>2. PICK e \in Edge : e[1] = Svc[Parent[d]] /\ e[2] = Svc[d]
    BY <2>1
  <2>3. At(Parent[d]) < At(d)
    <3>1. Order[At(Parent[d])] = e[1] /\ Order[At(d)] = e[2]
      BY <1>1, <2>1, <2>2
    <3>2. At(Parent[d]) \in 1..Len(Order) /\ At(d) \in 1..Len(Order)
      BY <1>1, <2>1
    <3>3. \A i, j \in 1..Len(Order) : Order[i] = e[1] /\ Order[j] = e[2] => i < j
      BY OrderAssumption
    <3> HIDE DEF At
    <3> QED BY <3>1, <3>2, <3>3
  <2>4. At(d) \in Nat
    BY <1>1
  <2> QED BY <2>1, <2>3, <2>4
<1>3. Len(Order) \in Nat
  BY OrderAssumption
<1> QED BY <1>1, <1>2, <1>3

LEMMA InitRun == Init => RunInv
BY DEF Init, RunInv, Told, AnswerIsThere, FailedErrs, DoneAfterKids, Explained, CleanKids,
       SoundKids, Finished, Ok, Kids

(* The reason for an error stays one: a told call keeps its outcome and    *)
(* its mode, and an error stays in an answer.                              *)
LEMMA BlamesStays ==
  ASSUME NEW d \in Call, Blames(d), outcome'[d] = outcome[d], via'[d] = via[d],
         acc[d].err => acc'[d].err
  PROVE  Blames(d)'
BY DEF Blames

(* A call returns: its parent's job is at wg.Wait, so the merge touches no *)
(* answer already given.                                                   *)
LEMMA ReturnRun ==
  ASSUME IInv, RunInv, NEW c \in Call, NEW how, NEW r \in Result, Return(c, how, r),
         pc[c] \in {"send", "waiting", "grace"},
         NEW p \in {"held", "returned"}, pc' = [pc EXCEPT ![c] = p],
         \/ how \in {"full", "gave_up"} /\ r.err
         \/ how = "answered" /\ Finished(c) /\ r = acc[c]
         \/ how = "promoted" /\ r = [err |-> FALSE, degraded |-> TRUE]
  PROVE  RunInv'
<1>0. TypeOK
  BY DEF IInv
<1>1. /\ outcome'[c] = how /\ how # "none" /\ outcome[c] = "none"
      /\ \A d \in Call : d # c => outcome'[d] = outcome[d]
  BY <1>0 DEF Return, TypeOK, RunInv, Told
<1>2. job' = job /\ via' = via
  BY DEF Return
<1>3. Parent[c] # None => Parent[c] \in Call /\ Parent[c] # c /\ job[Parent[c]] = "fanout"
  BY Deeper DEF IInv, ParentWaits
<1>4. \A d \in Call : d # Parent[c] => acc'[d] = acc[d]
  BY <1>0 DEF Return, TypeOK
<1>5. Parent[c] # None => acc'[Parent[c]] = Merged(acc[Parent[c]], c, r)
  BY <1>0, <1>3 DEF Return, TypeOK
<1>6. ASSUME Parent[c] # None
      PROVE  /\ acc'[Parent[c]] = Ok => acc[Parent[c]] = Ok /\ r = Ok
             /\ acc[Parent[c]].err => acc'[Parent[c]].err
             /\ acc'[Parent[c]].err <=> acc[Parent[c]].err \/ (via[c] \in Essential /\ r.err)
  <2>1. acc[Parent[c]] \in Result
    BY <1>0, <1>3, <1>6 DEF TypeOK
  <2>2. LET m == Merged(acc[Parent[c]], c, r)
        IN  /\ m = Ok => acc[Parent[c]] = Ok /\ r = Ok
            /\ acc[Parent[c]].err => m.err
            /\ m.err <=> acc[Parent[c]].err \/ (via[c] \in Essential /\ r.err)
    BY ONLY <2>1, r \in Result, MergeFacts, Zenon
  <2> QED BY <1>5, <1>6, <2>2
<1>7. \A d \in Call : d # Parent[c] \/ Parent[c] # None
  BY CallAssumption
<1>8. \A d \in Call : acc[d].err => acc'[d].err
  BY <1>4, <1>6, <1>7
<1>9. \A d \in Call : Finished(d) => acc'[d] = acc[d]
  <2>1. \A d \in Call : Finished(d) => d # Parent[c]
    BY <1>3, <1>7 DEF Finished
  <2> QED BY <2>1, <1>4
<1>10. acc'[c] = acc[c]
  BY <1>3, <1>4, <1>7
<1>11. Told'
  <2>1. \A d \in Call : d # c => pc'[d] = pc[d]
    BY <1>0 DEF TypeOK
  <2>2. pc'[c] = p
    BY <1>0 DEF TypeOK
  <2> QED BY <1>1, <2>1, <2>2 DEF RunInv, Told
<1>12. AnswerIsThere'
  BY <1>1, <1>2 DEF RunInv, AnswerIsThere, Finished
<1>13. FailedErrs'
  BY <1>2, <1>8 DEF RunInv, FailedErrs
<1>14. DoneAfterKids'
  BY <1>1, <1>2 DEF RunInv, DoneAfterKids, Kids
<1>15. Explained'
  <2> SUFFICES ASSUME NEW e \in Call, acc'[e].err
               PROVE  job'[e] = "failed" \/ \E d \in Kids(e) : Blames(d)'
    BY DEF Explained, Kids
  <2>1. CASE acc[e].err
    <3>1. job[e] = "failed" \/ \E d \in Kids(e) : Blames(d)
      BY <2>1 DEF RunInv, Explained
    <3>2. \A d \in Kids(e) : Blames(d) => Blames(d)'
      <4>1. ASSUME NEW d \in Kids(e), Blames(d) PROVE Blames(d)'
        <5>1. d \in Call /\ outcome'[d] = outcome[d]
          BY <4>1, <1>1 DEF Kids, Blames
        <5> QED BY <5>1, <4>1, <1>2, <1>8, BlamesStays
      <4> QED BY <4>1
    <3> QED BY <3>1, <3>2, <1>2
  <2>2. CASE ~acc[e].err
    <3>1. e = Parent[c] /\ Parent[c] # None
      BY <2>2, <1>4, <1>7
    <3>2. via[c] \in Essential /\ r.err
      BY <2>2, <3>1, <1>6
    <3>3. Blames(c)'
      BY <3>2, <1>1, <1>2, <1>10 DEF Blames
    <3>4. c \in Kids(e)
      BY <3>1 DEF Kids
    <3> QED BY <3>3, <3>4
  <2> QED BY <2>1, <2>2
<1>16. CleanKids'
  <2> SUFFICES ASSUME NEW e \in Call, NEW d \in Call, Parent[d] = e,
                      outcome'[d] # "none", acc'[e] = Ok
               PROVE  outcome'[d] = "answered" /\ acc'[d] = Ok /\ job'[d] = "done"
    BY DEF CleanKids
  <2>1. acc[e] = Ok
    BY <1>4, <1>6, <1>7
  <2>2. CASE d = c
    <3>1. r = Ok
      BY <2>2, <1>6, <1>7
    <3>2. how = "answered" /\ acc[c] = Ok /\ Finished(c)
      BY <3>1 DEF Ok
    <3>3. job[c] # "failed"
      BY <3>2 DEF RunInv, FailedErrs, Ok
    <3> QED BY <2>2, <3>2, <3>3, <1>1, <1>2, <1>10 DEF Finished
  <2>3. CASE d # c
    <3>1. outcome[d] = "answered" /\ acc[d] = Ok /\ job[d] = "done"
      BY <2>1, <2>3, <1>1 DEF RunInv, CleanKids
    <3> QED BY <2>3, <3>1, <1>1, <1>2, <1>9 DEF Finished
  <2> QED BY <2>2, <2>3
<1>17. SoundKids'
  <2> SUFFICES ASSUME NEW e \in Call, NEW d \in Call, Parent[d] = e,
                      outcome'[d] # "none", ~acc'[e].err, Blames(d)'
               PROVE  FALSE
    BY DEF SoundKids
  <2>1. ~acc[e].err
    BY <1>8
  <2>2. CASE d = c
    <3>1. ~(via[c] \in Essential /\ r.err)
      BY <2>2, <1>6, <1>7
    <3>2. via[c] \in Essential /\ (how \in {"full", "gave_up"} \/ (how = "answered" /\ acc[c].err))
      BY <2>2, <1>1, <1>2, <1>10 DEF Blames
    <3> QED BY <3>1, <3>2
  <2>3. CASE d # c
    <3>1. outcome[d] # "none" /\ outcome'[d] = outcome[d] /\ via'[d] = via[d]
      BY <2>3, <1>1, <1>2
    <3>2. outcome[d] = "answered" => acc'[d] = acc[d]
      BY <1>9 DEF RunInv, AnswerIsThere
    <3>3. Blames(d)
      BY <3>1, <3>2 DEF Blames
    <3> QED BY <2>1, <3>1, <3>3 DEF RunInv, SoundKids
  <2> QED BY <2>2, <2>3
<1> QED BY <1>11, <1>12, <1>13, <1>14, <1>15, <1>16, <1>17 DEF RunInv

(* A job moves: it was not over, so no caller holds its answer yet.        *)
LEMMA JobRun ==
  ASSUME IInv, RunInv, NEW c \in Call, NEW x, job' = [job EXCEPT ![c] = x], ~Finished(c),
         UNCHANGED <<via, outcome>>,
         \/ acc' = acc /\ x # "failed"
         \/ acc' = [acc EXCEPT ![c] = Failure] /\ x = "failed",
         x = "done" => \A d \in Kids(c) : outcome[d] # "none"
  PROVE  AnswerIsThere' /\ FailedErrs' /\ DoneAfterKids' /\ Explained' /\ CleanKids' /\ SoundKids'
<1>0. TypeOK
  BY DEF IInv
<1>1. job'[c] = x /\ \A d \in Call : d # c => job'[d] = job[d]
  BY <1>0 DEF TypeOK
<1>2. \A d \in Call : d # c => acc'[d] = acc[d]
  BY <1>0 DEF TypeOK
<1>3. (acc'[c] = acc[c] /\ x # "failed") \/ (acc'[c] = Failure /\ x = "failed")
  BY <1>0 DEF TypeOK
<1>4. outcome' = outcome /\ via' = via /\ outcome[c] # "answered"
  BY DEF RunInv, AnswerIsThere
<1>5. \A d \in Call : acc[d].err => acc'[d].err
  BY <1>2, <1>3 DEF Failure
<1>6. AnswerIsThere'
  BY <1>1, <1>4 DEF RunInv, AnswerIsThere, Finished
<1>7. FailedErrs'
  BY <1>1, <1>2, <1>3 DEF RunInv, FailedErrs, Failure
<1>8. DoneAfterKids'
  BY <1>1, <1>4 DEF RunInv, DoneAfterKids, Kids
<1>9. Explained'
  <2> SUFFICES ASSUME NEW e \in Call, acc'[e].err
               PROVE  job'[e] = "failed" \/ \E d \in Kids(e) : Blames(d)'
    BY DEF Explained, Kids
  <2>1. CASE acc[e].err /\ job[e] # "failed"
    <3>1. PICK d \in Kids(e) : Blames(d)
      BY <2>1 DEF RunInv, Explained
    <3>2. d \in Call
      BY DEF Kids
    <3>3. Blames(d)'
      BY <3>1, <3>2, <1>4, <1>5, BlamesStays
    <3> QED BY <3>3
  <2>2. CASE job[e] = "failed"
    BY <2>2, <1>1 DEF Finished
  <2>3. CASE ~acc[e].err
    BY <2>3, <1>1, <1>2, <1>3
  <2> QED BY <2>1, <2>2, <2>3
<1>10. CleanKids'
  <2> SUFFICES ASSUME NEW e \in Call, NEW d \in Call, Parent[d] = e,
                      outcome'[d] # "none", acc'[e] = Ok
               PROVE  outcome'[d] = "answered" /\ acc'[d] = Ok /\ job'[d] = "done"
    BY DEF CleanKids
  <2>1. acc[e] = Ok
    BY <1>2, <1>3 DEF Ok, Failure
  <2>2. outcome[d] = "answered" /\ acc[d] = Ok /\ job[d] = "done"
    BY <2>1, <1>4 DEF RunInv, CleanKids
  <2>3. d # c
    BY <2>2, <1>4
  <2> QED BY <2>2, <2>3, <1>1, <1>2, <1>4
<1>11. SoundKids'
  <2> SUFFICES ASSUME NEW e \in Call, NEW d \in Call, Parent[d] = e,
                      outcome'[d] # "none", ~acc'[e].err, Blames(d)'
               PROVE  FALSE
    BY DEF SoundKids
  <2>1. ~acc[e].err /\ outcome[d] # "none"
    BY <1>4, <1>5
  <2>2. outcome[d] = "answered" => acc'[d] = acc[d]
    BY <1>2, <1>4
  <2>3. Blames(d)
    BY <2>2, <1>4 DEF Blames
  <2> QED BY <2>1, <2>3 DEF RunInv, SoundKids
<1> QED BY <1>6, <1>7, <1>8, <1>9, <1>10, <1>11

LEMMA NextRun == IInv /\ RunInv /\ [Next]_vars => RunInv'
<1> SUFFICES ASSUME IInv, RunInv, [Next]_vars PROVE RunInv'
  OBVIOUS
<1> USE DEF callVars, engineVars
<1>0. TypeOK /\ Told
  BY DEF IInv, RunInv
<1>1. ASSUME NEW c \in Call, Refused(c) \/ Receive(c) \/ GiveUp(c) \/ Promote(c) PROVE RunInv'
  <2>1. /\ Failure \in Result /\ acc[c] \in Result /\ Failure.err
        /\ [err |-> FALSE, degraded |-> TRUE] \in Result
    BY <1>0 DEF TypeOK, Result, Failure
  <2>2. CASE Refused(c)
    BY <2>1, <2>2, ReturnRun DEF Refused
  <2>3. CASE Receive(c)
    BY <2>1, <2>3, ReturnRun DEF Receive
  <2>4. CASE GiveUp(c)
    BY <2>1, <2>4, ReturnRun DEF GiveUp
  <2>5. CASE Promote(c)
    BY <2>1, <2>5, ReturnRun DEF Promote
  <2> QED BY <1>1, <2>2, <2>3, <2>4, <2>5
<1>2. ASSUME NEW c \in Call, Enqueue(c) \/ Take(c) \/ WorkFails(c) \/ WorkEnds(c) \/ Join(c)
      PROVE  RunInv'
  <2>1. UNCHANGED <<via, outcome>>
    BY <1>2 DEF Enqueue, Take, WorkFails, WorkEnds, Join
  <2>2. Told'
    <3>1. CASE Enqueue(c)
      <4>1. \A d \in Call : pc'[d] = pc[d] \/ (pc[d] = "send" /\ pc'[d] \in {"waiting", "grace"})
        BY <1>0, <3>1 DEF Enqueue, TypeOK
      <4> QED BY <1>0, <2>1, <4>1 DEF Told
    <3>2. CASE UNCHANGED pc
      BY <1>0, <2>1, <3>2 DEF Told
    <3> QED BY <1>2, <3>1, <3>2 DEF Take, WorkFails, WorkEnds, Join
  <2>3. AnswerIsThere' /\ FailedErrs' /\ DoneAfterKids' /\ Explained' /\ CleanKids' /\ SoundKids'
    <3>1. CASE Enqueue(c)
      <4>1. job[c] = "none"
        BY <3>1 DEF Enqueue, IInv, JobInPlace
      <4> QED BY <3>1, <4>1, <2>1, JobRun DEF Enqueue, Finished
    <3>2. CASE Take(c)
      <4>1. ~Finished(c)
        BY <3>2, TakesQueued DEF Finished
      <4>2. CASE ctx[c] \in ended
        BY <3>2, <4>1, <4>2, <2>1, JobRun DEF Take
      <4>3. CASE ctx[c] \notin ended
        BY <3>2, <4>1, <4>3, <2>1, JobRun DEF Take
      <4> QED BY <4>2, <4>3
    <3>3. CASE WorkFails(c)
      BY <3>3, <2>1, JobRun DEF WorkFails, Finished
    <3>4. CASE WorkEnds(c)
      BY <3>4, <2>1, JobRun DEF WorkEnds, Finished
    <3>5. CASE Join(c)
      <4>1. \A d \in Kids(c) : outcome[d] # "none"
        BY <3>5, <1>0 DEF Join, Told, Kids
      <4> QED BY <3>5, <4>1, <2>1, JobRun DEF Join, Finished
    <3> QED BY <1>2, <3>1, <3>2, <3>3, <3>4, <3>5
  <2> QED BY <2>2, <2>3 DEF RunInv
<1>3. ASSUME UNCHANGED <<outcome, acc, job>>,
             \A d \in Call : via'[d] = via[d] \/ outcome[d] = "none",
             \A d \in Call : pc'[d] \in {"none", "send", "waiting", "grace"}
                              <=> pc[d] \in {"none", "send", "waiting", "grace"}
      PROVE  RunInv'
  <2>1. Told' /\ AnswerIsThere' /\ FailedErrs' /\ DoneAfterKids' /\ CleanKids'
    BY <1>3 DEF RunInv, Told, AnswerIsThere, FailedErrs, DoneAfterKids, CleanKids, Finished
  <2>2. \A d \in Call : Blames(d) <=> Blames(d)'
    BY <1>3 DEF Blames
  <2>3. Explained'
    BY <1>3, <2>2 DEF RunInv, Explained, Kids
  <2>4. SoundKids'
    BY <1>3, <2>2 DEF RunInv, SoundKids
  <2> QED BY <2>1, <2>3, <2>4 DEF RunInv
<1>4. ASSUME NEW c \in Call, StartRun(c) \/ Dispatch(c) \/ Release(c) \/ Expire(c) PROVE RunInv'
  <2>1. UNCHANGED <<outcome, acc, job>>
    BY <1>4 DEF StartRun, Dispatch, Release, Expire
  <2>2. \A d \in Call : via'[d] = via[d] \/ outcome[d] = "none"
    BY <1>0, <1>4 DEF StartRun, Dispatch, Release, Expire, TypeOK, Told
  <2>3. \A d \in Call : \/ pc'[d] = pc[d]
                        \/ pc[d] = "none" /\ pc'[d] = "send"
                        \/ pc[d] = "held" /\ pc'[d] = "returned"
    BY <1>0, <1>4 DEF StartRun, Dispatch, Release, Expire, TypeOK
  <2> QED BY <1>3, <2>1, <2>2, <2>3
<1>5. CASE UNCHANGED <<pc, via, outcome, acc, job>>
  BY <1>3, <1>5
<1> QED
  BY <1>1, <1>2, <1>4, <1>5
     DEF Next, CallerStep, PoolStep, WorkStep, CloseStep, SetEdgeMode, Cancel,
         LoadStop, AwaitRuns, CloseQueue, PoolDrained, Stopped, vars

-----------------------------------------------------------------------------
(* A nonempty set of numbers has a least one.                              *)
LEMMA LeastNat ==
  ASSUME NEW S \in SUBSET Nat, S # {}
  PROVE  \E m \in S : \A j \in S : m <= j
<1>1. PICK m \in S : \A j \in S : ~ (<<j, m>> \in OpToRel(<, Nat))
  BY NatLessThanWellFounded, WFMin
<1>2. \A j \in S : ~ (j < m)
  BY <1>1 DEF OpToRel
<1> QED BY <1>2

(* An answer with an error is followed down: the deepest call reached from *)
(* the run over essential edges whose answer is an error explains it by    *)
(* itself, or by a child that was refused or given up on.                  *)
EssentialPath(S, r) ==
  /\ r \in S
  /\ \A x \in S \ {r} : Parent[x] \in S /\ via[x] \in Essential /\ outcome[x] # "promoted"
LEMMA FollowedDown ==
  ASSUME RunInv, NEW r \in Call, acc[r].err
  PROVE  \E S \in SUBSET Call : EssentialPath(S, r) /\ \E c \in S : Troubled(c)
<1> DEFINE Path(S) == EssentialPath(S, r)
           reach == {c \in Call : acc[c].err /\ \E S \in SUBSET Call : c \in S /\ Path(S)}
           depths == {Len(Order) - At(c) : c \in reach}
<1>1. r \in reach
  <2>1. {r} \in SUBSET Call /\ Path({r})
    BY DEF EssentialPath
  <2> QED BY <2>1
<1>2. depths \subseteq Nat /\ depths # {}
  <2>1. \A c \in reach : Len(Order) - At(c) \in Nat
    <3> HIDE DEF At
    <3>1. \A c \in reach : c \in Call
      OBVIOUS
    <3>2. \A c \in Call : Len(Order) - At(c) \in Nat
      BY Deeper
    <3> QED BY <3>1, <3>2
  <2> HIDE DEF reach, At
  <2> QED BY <1>1, <2>1
<1>3. PICK m \in depths : \A j \in depths : m <= j
  <2> HIDE DEF depths
  <2> QED BY <1>2, LeastNat
<1>4. PICK c \in reach : m = Len(Order) - At(c)
  <2> HIDE DEF reach, At
  <2> QED OBVIOUS
<1>5. c \in Call /\ acc[c].err
  BY <1>4
<1>6. PICK S \in SUBSET Call : c \in S /\ Path(S)
  BY <1>4
<1>7. CASE job[c] = "failed"
  BY <1>6, <1>7 DEF Troubled
<1>8. CASE job[c] # "failed"
  <2>1. PICK d \in Kids(c) : Blames(d)
    BY <1>5, <1>8 DEF RunInv, Explained
  <2>2. d \in Call /\ Parent[d] = c /\ via[d] \in Essential /\ outcome[d] # "promoted"
    BY <2>1 DEF Kids, Blames
  <2>3. S \union {d} \in SUBSET Call /\ Path(S \union {d})
    BY <1>6, <2>2 DEF EssentialPath
  <2>4. CASE outcome[d] \in {"full", "gave_up"}
    <3>1. Troubled(d)
      BY <2>4 DEF Troubled
    <3> QED BY <2>3, <3>1
  <2>5. CASE acc[d].err
    <3>1. d \in reach
      <4> HIDE DEF Path
      <4> QED BY <2>2, <2>3, <2>5
    <3>2. m <= Len(Order) - At(d)
      <4> HIDE DEF reach, At
      <4> QED BY <3>1, <1>3
    <3>3. Parent[d] # None /\ At(c) < At(d)
      BY <1>5, <2>2, Deeper, CallAssumption
    <3>4. At(c) \in Nat /\ At(d) \in Nat /\ Len(Order) \in Nat
      BY <1>5, <2>2, Deeper
    <3> HIDE DEF At
    <3> QED BY <1>4, <3>2, <3>3, <3>4
  <2> QED BY <2>1, <2>4, <2>5 DEF Blames
<1> QED BY <1>7, <1>8

(* Along parents, from the run down: the highest call of a path that is    *)
(* not fine would be a child of one that is.                               *)
LEMMA AllFine ==
  ASSUME NEW r \in Call, NEW path \in SUBSET Call, NEW Fine, r \in Fine,
         \A x \in path \ {r} : Parent[x] # None /\ Parent[x] \in path \union {r},
         \A x \in path \ {r} : Parent[x] \in Fine => x \in Fine
  PROVE  path \subseteq Fine
<1> DEFINE bad == {x \in path : x \notin Fine}
           ats == {At(x) : x \in bad}
<1> SUFFICES ASSUME bad # {} PROVE FALSE
  OBVIOUS
<1>1. \A x \in bad : x \in Call /\ x \in path \ {r} /\ x \notin Fine
  OBVIOUS
<1>2. ats \subseteq Nat /\ ats # {}
  <2> HIDE DEF bad, At
  <2> QED BY <1>1, Deeper
<1>3. PICK m \in ats : \A j \in ats : m <= j
  <2> HIDE DEF ats
  <2> QED BY <1>2, LeastNat
<1>4. PICK x \in bad : m = At(x)
  <2> HIDE DEF bad, At
  <2> QED OBVIOUS
<1> DEFINE p == Parent[x]
<1>5. x \in Call /\ p \in Call /\ p \in path \union {r} /\ At(p) < At(x) /\ p \notin Fine
  BY <1>1, <1>4, Deeper
<1>6. p \in bad
  BY <1>5
<1>7. At(p) \in Nat /\ At(x) \in Nat
  BY <1>5, Deeper
<1>8. At(p) \in ats
  <2> HIDE DEF bad, At
  <2> QED BY <1>6
<1> QED
  <2> HIDE DEF bad, At, ats
  <2> QED BY <1>3, <1>4, <1>5, <1>7, <1>8

(* So an error on the way down would have come up.                         *)
LEMMA FailsIff == IInv /\ RunInv => FailsIffEssentialPath
<1> SUFFICES ASSUME IInv, RunInv, NEW r \in Call, Answered(r)
             PROVE  acc[r].err <=> \E S \in SUBSET Call : EssentialPath(S, r) /\ \E c \in S : Troubled(c)
  BY DEF FailsIffEssentialPath, EssentialPath
<1>0. TypeOK
  BY DEF IInv
<1>1. ASSUME ~acc[r].err, NEW S \in SUBSET Call, EssentialPath(S, r), NEW c \in S, Troubled(c)
      PROVE  FALSE
  <2> DEFINE Fine == {x \in Call : outcome[x] = "answered" /\ ~acc[x].err /\ job[x] = "done"}
  <2>1. r \in Fine
    BY <1>1 DEF Answered, RunInv, AnswerIsThere, FailedErrs, Finished
  <2>2. \A x \in S \ {r} : Parent[x] # None /\ Parent[x] \in S \union {r}
    BY <1>1, CallAssumption DEF EssentialPath
  <2>3. ASSUME NEW x \in S \ {r}, Parent[x] \in Fine PROVE x \in Fine
    <3>1. x \in Call /\ via[x] \in Essential /\ outcome[x] # "promoted"
      BY <1>1, <2>3 DEF EssentialPath
    <3>2. outcome[x] # "none"
      BY <2>3, <3>1 DEF RunInv, DoneAfterKids, Kids
    <3>3. ~Blames(x)
      BY <2>3, <3>1, <3>2 DEF RunInv, SoundKids
    <3>4. outcome[x] = "answered" /\ ~acc[x].err
      BY <3>1, <3>2, <3>3, <1>0 DEF Blames, TypeOK
    <3> QED BY <3>1, <3>4 DEF RunInv, AnswerIsThere, FailedErrs, Finished
  <2> HIDE DEF Fine
  <2>4. S \subseteq Fine
    BY <2>1, <2>2, <2>3, AllFine
  <2> QED BY <1>1, <2>4 DEF Fine, Troubled
<1> QED BY <1>1, FollowedDown

(* And a clean answer is clean all the way down.                           *)
LEMMA CleanAllTheWay == RunInv => CleanRunIsClean
<1> SUFFICES ASSUME RunInv, NEW r \in Call, Answered(r), acc[r] = Ok, NEW b \in Below(r) \ {r}
             PROVE  ~Troubled(b) /\ outcome[b] = "answered"
  BY DEF CleanRunIsClean
<1> DEFINE Fine == {x \in Call : outcome[x] = "answered" /\ acc[x] = Ok /\ job[x] = "done"}
<1>1. PICK path \in SUBSET Call :
        b \in path /\ \A d \in path : d # r => Parent[d] # None /\ Parent[d] \in path \union {r}
  BY DEF Below
<1>2. r \in Fine
  <2>1. outcome[r] = "answered" /\ Finished(r)
    BY DEF Answered, RunInv, AnswerIsThere
  <2>2. job[r] # "failed"
    BY DEF RunInv, FailedErrs, Ok
  <2> QED BY <2>1, <2>2 DEF Finished
<1>3. ASSUME NEW x \in path \ {r}, Parent[x] \in Fine PROVE x \in Fine
  <2>1. x \in Call /\ outcome[x] # "none"
    BY <1>3 DEF RunInv, DoneAfterKids, Kids
  <2> QED BY <1>3, <2>1 DEF RunInv, CleanKids
<1> HIDE DEF Fine
<1>4. path \subseteq Fine
  BY <1>1, <1>2, <1>3, AllFine
<1> QED BY <1>1, <1>4 DEF Fine, Troubled

-----------------------------------------------------------------------------
LEMMA AnswersHold == Spec => []RunInv
BY InitRun, NextRun, Invariance, PTL DEF Spec

(* The bulkhead, per run (process, service.go 309): a run fails exactly    *)
(* when a call went wrong that it reached over edges that were essential   *)
(* when the calls were made, nobody on the way promoted, however the       *)
(* operator reclassifies edges meanwhile and contexts end.                 *)
THEOREM FailuresExplained == Spec => []FailsIffEssentialPath
BY Invariance, AnswersHold, FailsIff, PTL

(* Nothing is swallowed: below a run that ends neither failed nor degraded *)
(* no call went wrong, was given up on or promoted.                        *)
THEOREM CleanMeansClean == Spec => []CleanRunIsClean
BY AnswersHold, CleanAllTheWay, PTL
=============================================================================
