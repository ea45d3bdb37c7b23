------------------------------ MODULE Pipeline ------------------------------
(***************************************************************************)
(* The services of internal/sim composed: runs that enter at the root and  *)
(* fan out along the dependencies (generateLoad, process), the operator    *)
(* who reclassifies edges meanwhile, and Engine.Close.                     *)
(*                                                                         *)
(* A member of Call is one call of one run: the run's entry at the root,   *)
(* or the call process makes over one edge on behalf of the call Parent    *)
(* (so the calls are the paths of the graph, once per run).  It also names *)
(* its job, its context if it made one, and its answer.                    *)
(*                                                                         *)
(* Abstracted here: worker identities (only how many are busy matters) and *)
(* the admission latch (a gated call may be shed at any time); both are in *)
(* module Service.                                                         *)
(***************************************************************************)
EXTENDS Naturals, Sequences, FiniteSets

CONSTANTS
  Node, Edge, Gate,  (* the topology; a gate has a GateHoldBudget          *)
  Root, Order,       (* the entry point and Engine.shutdown                *)
  Workers, QueueCap, (* per service                                        *)
  DefaultMode,       (* per edge                                           *)
  Call, Svc, Parent, (* the calls, where each goes and on whose behalf     *)
  Toggled,           (* <<edge, mode>>: what this instance's operator sets *)
  Faulty,            (* the services with an injected failure rate         *)
  Hung,              (* the services whose own work may never end          *)
  None               (* the parent of a run's entry                        *)

Mode      == {"blocking", "best_effort", "gated"}
Essential == {"blocking", "gated"}

ASSUME GraphAssumption ==
  /\ Root \in Node /\ Gate \subseteq Node /\ Edge \subseteq Node \X Node
  /\ Toggled \subseteq Edge \X Mode /\ DefaultMode \in [Edge -> Mode]
ASSUME OrderAssumption ==
  /\ Order \in Seq(Node)
  /\ \A n \in Node : \E i \in 1..Len(Order) : Order[i] = n
  /\ \A i, j \in 1..Len(Order) : Order[i] = Order[j] => i = j
  /\ \A e \in Edge : \A i, j \in 1..Len(Order) :
       Order[i] = e[1] /\ Order[j] = e[2] => i < j
ASSUME CallAssumption ==
  /\ None \notin Call
  /\ Svc \in [Call -> Node] /\ Parent \in [Call -> Call \union {None}]
  /\ \A c \in Call : Parent[c] # None => <<Svc[Parent[c]], Svc[c]>> \in Edge
ASSUME PoolAssumption ==
  Workers \in [Node -> Nat \ {0}] /\ QueueCap \in [Node -> Nat \ {0}]

Run     == {c \in Call : Parent[c] = None}
Kids(c) == {d \in Call : Parent[d] = c}

VARIABLES
  mode,     (* dependency.mode of every edge                               *)
  queue,    (* the channel of every service                                *)
  closed,   (* the services whose channel is closed                        *)
  (* the calls *)
  pc,       (* where the caller of call or gatedCall is                    *)
  via,      (* the mode its dispatch read                                  *)
  ctx,      (* the context of its job, named by the call that made it      *)
  ended,    (* the contexts that have ended                                *)
  outcome,  (* what the caller was told                                    *)
  job,      (* where its job is; "failed": process did not reach its deps  *)
  acc,      (* process's res, and finally the answer on Done               *)
  (* the engine *)
  stage,    (* how far Close is                                            *)
  loadDone, (* generateLoad has returned                                   *)
  pos       (* Close's position in Engine.shutdown                         *)

callVars   == <<pc, via, ctx, ended, outcome, job, acc>>
engineVars == <<stage, loadDone, pos>>
vars       == <<mode, queue, closed, callVars, engineVars>>

Result  == [err : BOOLEAN, degraded : BOOLEAN]
Ok      == [err |-> FALSE, degraded |-> FALSE]
Failure == [err |-> TRUE, degraded |-> FALSE]

TypeOK ==
  /\ mode \in [Edge -> Mode]
  /\ queue \in [Node -> Seq(Call)]
  /\ closed \in SUBSET Node
  /\ pc \in [Call -> {"none", "send", "waiting", "grace", "held", "returned"}]
  /\ via \in [Call -> Mode \union {"run"}]
  /\ ctx \in [Call -> Call]
  /\ ended \in SUBSET Call
  /\ outcome \in [Call -> {"none", "answered", "full", "gave_up", "promoted"}]
  /\ job \in [Call -> {"none", "queued", "working", "fanout", "done", "failed"}]
  /\ acc \in [Call -> Result]
  /\ stage \in {"open", "cancelled", "pools"}
  /\ loadDone \in BOOLEAN
  /\ pos \in 1..(Len(Order) + 1)

Init ==
  /\ mode = DefaultMode
  /\ queue = [n \in Node |-> <<>>]
  /\ closed = {}
  /\ pc = [c \in Call |-> "none"]
  /\ via = [c \in Call |-> "run"]
  /\ ctx = [c \in Call |-> c]
  /\ ended = {}
  /\ outcome = [c \in Call |-> "none"]
  /\ job = [c \in Call |-> "none"]
  /\ acc = [c \in Call |-> Ok]
  /\ stage = "open"
  /\ loadDone = FALSE
  /\ pos = 1

-----------------------------------------------------------------------------
(* The caller's side.                                                      *)

(* generateLoad's goroutine.  Its select may pick the timer although the   *)
(* engine is cancelled, so a run may start until the loop has returned.    *)
StartRun(r) ==
  /\ r \in Run /\ pc[r] = "none"
  /\ ~loadDone
  /\ pc' = [pc EXCEPT ![r] = "send"]
  /\ UNCHANGED <<mode, queue, closed, via, ctx, ended, outcome, job, acc, engineVars>>

(* process reads the edge's mode and starts the goroutine for one child: a *)
(* blocking child shares the context, the others get one of their own.     *)
Dispatch(c) ==
  /\ pc[c] = "none" /\ Parent[c] # None
  /\ job[Parent[c]] = "fanout"
  /\ LET m == mode[<<Svc[Parent[c]], Svc[c]>>] IN
     /\ via' = [via EXCEPT ![c] = m]
     /\ ctx' = [ctx EXCEPT ![c] = IF m = "blocking" THEN ctx[Parent[c]] ELSE c]
  /\ pc' = [pc EXCEPT ![c] = "send"]
  /\ UNCHANGED <<mode, queue, closed, ended, outcome, job, acc, engineVars>>

HasRoom(n) == Len(queue[n]) < QueueCap[n]

Enqueue(c) ==
  /\ pc[c] = "send"
  /\ HasRoom(Svc[c])
  /\ queue' = [queue EXCEPT ![Svc[c]] = Append(@, c)]
  /\ job' = [job EXCEPT ![c] = "queued"]
  /\ pc' = [pc EXCEPT ![c] = IF via[c] = "gated" THEN "grace" ELSE "waiting"]
  /\ UNCHANGED <<mode, closed, via, ctx, ended, outcome, acc, engineVars>>

(* The critical section after the child's call: the mode is the one read   *)
(* at dispatch, whatever the edge has become.                              *)
MergedRereading(res, c, r) ==
  IF mode[<<Svc[Parent[c]], Svc[c]>>] \in Essential
  THEN [err |-> res.err \/ r.err, degraded |-> res.degraded \/ r.degraded]
  ELSE [err |-> res.err, degraded |-> res.degraded \/ r.err \/ r.degraded]
MergedErrOnly(res, c, r) ==
  IF via[c] \in Essential
  THEN [err |-> res.err \/ r.err, degraded |-> res.degraded]
  ELSE [err |-> res.err, degraded |-> res.degraded \/ r.err \/ r.degraded]
Merged(res, c, r) ==
  IF via[c] \in Essential
  THEN [err |-> res.err \/ r.err, degraded |-> res.degraded \/ r.degraded]
  ELSE [err |-> res.err, degraded |-> res.degraded \/ r.err \/ r.degraded]

(* The call returns r: a run records it, process merges it.                *)
Return(c, how, r) ==
  /\ outcome' = [outcome EXCEPT ![c] = how]
  /\ acc' = IF Parent[c] = None THEN acc
            ELSE [acc EXCEPT ![Parent[c]] = Merged(@, c, r)]
  /\ UNCHANGED <<mode, queue, closed, via, ctx, ended, job, engineVars>>

(* The channel is full, or a gated call is shed by admitCheck.             *)
Refused(c) ==
  /\ pc[c] = "send"
  /\ ~HasRoom(Svc[c]) \/ via[c] = "gated"
  /\ pc' = [pc EXCEPT ![c] = "returned"]
  /\ Return(c, "full", Failure)

Finished(c) == job[c] \in {"done", "failed"}

Receive(c) ==
  /\ pc[c] \in {"waiting", "grace"}
  /\ Finished(c)
  /\ pc' = [pc EXCEPT ![c] = "returned"]
  /\ Return(c, "answered", acc[c])

GiveUpBestEffort(c) ==
  /\ pc[c] = "waiting" /\ via[c] = "best_effort"
  /\ ctx[c] \in ended
  /\ pc' = [pc EXCEPT ![c] = "returned"]
  /\ Return(c, "gave_up", Failure)
GiveUp(c) ==
  /\ pc[c] = "waiting"
  /\ ctx[c] \in ended
  /\ pc' = [pc EXCEPT ![c] = "returned"]
  /\ Return(c, "gave_up", Failure)

(* The grace timer fires, or the caller's context ends first: the caller   *)
(* goes on, a detached goroutine stays.                                    *)
Promote(c) ==
  /\ pc[c] = "grace"
  /\ pc' = [pc EXCEPT ![c] = "held"]
  /\ Return(c, "promoted", [err |-> FALSE, degraded |-> TRUE])

Release(c) ==
  /\ pc[c] = "held"
  /\ Finished(c)
  /\ pc' = [pc EXCEPT ![c] = "returned"]
  /\ UNCHANGED <<mode, queue, closed, via, ctx, ended, outcome, job, acc, engineVars>>

(* A context that some job or caller still looks at ends: run deadline,    *)
(* best-effort budget or hold budget, or the end of the one it derives     *)
(* from.                                                                   *)
Expire(o) ==
  /\ o \notin ended
  /\ \E c \in Call : ctx[c] = o /\ pc[c] # "none" /\ ~Finished(c) /\ outcome[c] # "full"
  /\ ended' = ended \union {o}
  /\ UNCHANGED <<mode, queue, closed, pc, via, ctx, outcome, job, acc, engineVars>>

-----------------------------------------------------------------------------
(* The worker's side.                                                      *)

Busy(n) == {c \in Call : Svc[c] = n /\ job[c] \in {"working", "fanout"}}

(* An idle worker takes the oldest job; one whose context has ended is     *)
(* answered with that error and not run.                                   *)
Take(c) ==
  LET n == Svc[c] IN
  /\ queue[n] # <<>> /\ Head(queue[n]) = c
  /\ Cardinality(Busy(n)) < Workers[n]
  /\ queue' = [queue EXCEPT ![n] = Tail(@)]
  /\ IF ctx[c] \in ended
     THEN /\ job' = [job EXCEPT ![c] = "failed"]
          /\ acc' = [acc EXCEPT ![c] = Failure]
     ELSE job' = [job EXCEPT ![c] = "working"] /\ UNCHANGED acc
  /\ UNCHANGED <<mode, closed, pc, via, ctx, ended, outcome, engineVars>>

(* The node's own work is over: its context ended first, its failure was   *)
(* injected, or process goes on to the dependencies, if there are any.     *)
WorkFails(c) ==
  /\ job[c] = "working"
  /\ ctx[c] \in ended \/ Svc[c] \in Faulty
  /\ job' = [job EXCEPT ![c] = "failed"]
  /\ acc' = [acc EXCEPT ![c] = Failure]
  /\ UNCHANGED <<mode, queue, closed, pc, via, ctx, ended, outcome, engineVars>>
WorkEnds(c) ==
  /\ job[c] = "working"
  /\ job' = [job EXCEPT ![c] = IF Kids(c) = {} THEN "done" ELSE "fanout"]
  /\ UNCHANGED <<mode, queue, closed, pc, via, ctx, ended, outcome, acc, engineVars>>

(* wg.Wait: every child's call has returned (a promoted one too).          *)
JoinFirst(c) ==
  /\ job[c] = "fanout"
  /\ \E d \in Kids(c) : pc[d] \in {"returned", "held"}
  /\ job' = [job EXCEPT ![c] = "done"]
  /\ UNCHANGED <<mode, queue, closed, pc, via, ctx, ended, outcome, acc, engineVars>>
Join(c) ==
  /\ job[c] = "fanout"
  /\ \A d \in Kids(c) : pc[d] \in {"returned", "held"}
  /\ job' = [job EXCEPT ![c] = "done"]
  /\ UNCHANGED <<mode, queue, closed, pc, via, ctx, ended, outcome, acc, engineVars>>

-----------------------------------------------------------------------------
(* The engine's side.                                                      *)

(* SetEdgeMode.  (Reset restores the edges one by one: it is one of these  *)
(* for every edge that is not at its default.)                             *)
SetEdgeMode(e, m) ==
  /\ m # mode[e]
  /\ m = "gated" => e[2] \in Gate
  /\ mode' = [mode EXCEPT ![e] = m]
  /\ UNCHANGED <<queue, closed, callVars, engineVars>>

(* Close: cancel, ...                                                      *)
Cancel ==
  /\ stage = "open"
  /\ stage' = "cancelled"
  /\ UNCHANGED <<mode, queue, closed, callVars, loadDone, pos>>

(* ... wait for the load generator, which sees the cancellation, ...       *)
LoadStopDeaf == FALSE /\ UNCHANGED vars
LoadStop ==
  /\ stage # "open" /\ ~loadDone
  /\ loadDone' = TRUE
  /\ UNCHANGED <<mode, queue, closed, callVars, stage, pos>>

(* ... and for the runs, ...                                               *)
RunsAreBackEarly == \A r \in Run : pc[r] \in {"none", "returned"}
RunsAreBack == loadDone /\ \A r \in Run : pc[r] \in {"none", "returned"}
AwaitRuns ==
  /\ stage = "cancelled"
  /\ RunsAreBack
  /\ stage' = "pools"
  /\ UNCHANGED <<mode, queue, closed, callVars, loadDone, pos>>

(* ... then shut the services down one by one: close the channel, and wait *)
(* until the pool has emptied it and every worker has left.                *)
CloseQueue ==
  /\ stage = "pools" /\ pos <= Len(Order)
  /\ Order[pos] \notin closed
  /\ closed' = closed \union {Order[pos]}
  /\ UNCHANGED <<mode, queue, callVars, engineVars>>

DrainedNoWait(n) == queue[n] = <<>>
Drained(n) == queue[n] = <<>> /\ Busy(n) = {}
PoolDrainedPastEnd ==
  /\ stage = "pools"
  /\ pos <= Len(Order) => Order[pos] \in closed /\ Drained(Order[pos])
  /\ pos' = pos + 1
  /\ UNCHANGED <<mode, queue, closed, callVars, stage, loadDone>>
PoolDrained ==
  /\ stage = "pools" /\ pos <= Len(Order)
  /\ Order[pos] \in closed
  /\ Drained(Order[pos])
  /\ pos' = pos + 1
  /\ UNCHANGED <<mode, queue, closed, callVars, stage, loadDone>>

(* Close has returned and the detached goroutines are gone.                *)
Stopped ==
  /\ pos > Len(Order)
  /\ \A c \in Call : pc[c] \in {"none", "returned"}
  /\ UNCHANGED vars

CallerStep(c) ==
  \/ Dispatch(c) \/ Enqueue(c) \/ Refused(c) \/ Receive(c)
  \/ GiveUp(c) \/ Promote(c) \/ Release(c)
PoolStep(c)   == Take(c) \/ Join(c)
WorkStep(c)   == WorkFails(c) \/ WorkEnds(c)
CloseStep     == LoadStop \/ AwaitRuns \/ CloseQueue \/ PoolDrained

Next ==
  \/ \E c \in Call : \/ StartRun(c) \/ CallerStep(c) \/ PoolStep(c)
                     \/ WorkStep(c) \/ Expire(c)
  \/ \E t \in Toggled : SetEdgeMode(t[1], t[2])
  \/ Cancel \/ CloseStep \/ Stopped

Spec == Init /\ [][Next]_vars

(***************************************************************************)
(* Every runnable goroutine runs, and every context ends: each has a       *)
(* timeout.  A service's own work ends too, unless it is hung: of that     *)
(* nothing is assumed, not even that it ends with its context.             *)
(***************************************************************************)
Fairness ==
  /\ \A c \in Call : WF_vars(CallerStep(c)) /\ WF_vars(PoolStep(c)) /\ WF_vars(Expire(c))
  /\ \A c \in Call : Svc[c] \notin Hung => WF_vars(WorkStep(c))
  /\ WF_vars(CloseStep)
FairSpec == Spec /\ Fairness

-----------------------------------------------------------------------------
(* The comment on Close: nobody sends on a closed channel, however runs,   *)
(* promotions and the drain interleave (it would panic).                   *)
NoSendOnClosed == \A c \in Call : pc[c] = "send" => Svc[c] \notin closed

(* Once Close returns, no job is left in a channel or with a worker, and   *)
(* nobody is left inside call: what a detached goroutine waits for is      *)
(* there.                                                                  *)
CloseLeavesNothing ==
  pos > Len(Order) =>
    \A c \in Call : /\ job[c] \in {"none", "done", "failed"}
                    /\ pc[c] \in {"none", "held", "returned"}
                    /\ pc[c] = "held" => Finished(c)

(***************************************************************************)
(* The strengthening that makes both inductive: who is inside call or      *)
(* gatedCall keeps its parent's job at wg.Wait; Close is past the runs;    *)
(* the pools before its position are closed and drained, those after it    *)
(* open; and a job stays where its caller put it.                          *)
(***************************************************************************)
ParentWaits ==
  \A c \in Call : pc[c] \in {"send", "waiting", "grace"} /\ Parent[c] # None
                  => job[Parent[c]] = "fanout"
RunsAreOver == stage = "pools" => RunsAreBack
Frontier ==
  /\ stage # "pools" => pos = 1 /\ closed = {}
  /\ \A i \in 1..Len(Order) : Order[i] \in closed => i <= pos
  /\ \A i \in 1..Len(Order) : i < pos => Order[i] \in closed /\ Drained(Order[i])
Waits(c, n) == \E i \in 1..Len(queue[n]) : queue[n][i] = c
JobInPlace ==
  \A c \in Call :
    /\ pc[c] \in {"none", "send"} => job[c] = "none"
    /\ pc[c] \in {"waiting", "grace", "held"} => job[c] # "none"
    /\ \A n \in Node : Waits(c, n) <=> Svc[c] = n /\ job[c] = "queued"
QueuedOnce ==
  \A n \in Node : \A i, j \in 1..Len(queue[n]) : queue[n][i] = queue[n][j] => i = j
IInv == TypeOK /\ ParentWaits /\ RunsAreOver /\ Frontier /\ JobInPlace /\ QueuedOnce

(* A call that went wrong by itself: refused, given up on, or answered     *)
(* with an error of its own.                                               *)
Troubled(c) == outcome[c] \in {"full", "gave_up"} \/ job[c] = "failed"
Answered(r) == r \in Run /\ outcome[r] = "answered"

(* The bulkhead, per run: a run fails exactly when a call went wrong that  *)
(* it reached over essential edges only, as they were classified when the  *)
(* calls were made, with nobody on the way promoted.  Neither does it fail *)
(* for anything else, nor is such a failure hidden as degradation.         *)
FailsIffEssentialPath ==
  \A r \in Call : Answered(r) =>
    (acc[r].err <=>
       \E path \in SUBSET Call :
         /\ r \in path /\ \E c \in path : Troubled(c)
         /\ \A c \in path \ {r} : /\ Parent[c] \in path /\ via[c] \in Essential
                                 /\ outcome[c] # "promoted")

(* And nothing is swallowed: a run that ends clean, neither failed nor     *)
(* degraded, has no call below it that went wrong or was promoted.         *)
Below(r) == {c \in Call : \E path \in SUBSET Call :
               c \in path /\ \A d \in path : d # r => Parent[d] # None /\ Parent[d] \in path \union {r}}
CleanRunIsClean ==
  \A r \in Call : Answered(r) /\ acc[r] = Ok =>
    \A c \in Below(r) \ {r} : ~Troubled(c) /\ outcome[c] = "answered"

(* Close returns, whatever is queued, promoted or on hold, unless a hung   *)
(* service keeps on working.                                               *)
HungWork == \E c \in Call : Svc[c] \in Hung /\ job[c] = "working"
CloseReturns == [](stage # "open" => <>(pos > Len(Order)) \/ <>[]HungWork)

(* Though the work of a hung service never ends, every run comes back: it  *)
(* is given up on when the edge to it is blocking or best-effort, promoted *)
(* when it is gated.                                                       *)
RunsReturn == \A r \in Run : pc[r] # "none" ~> pc[r] = "returned"
=============================================================================
