------------------------------ MODULE Service ------------------------------
(***************************************************************************)
(* One simulated service of internal/sim/service.go: a buffered channel    *)
(* (queue), a fixed pool of worker goroutines that drain it, and the two   *)
(* ways into it, call and gatedCall.                                       *)
(*                                                                         *)
(* A member of Caller is a goroutine that makes calls, one after another.  *)
(* It doubles as the name of the job its current call created; a caller    *)
(* starts its next call only when that job is out of the service, so a job *)
(* name in the queue or in a worker is never ambiguous.                    *)
(*                                                                         *)
(* Time is abstracted: a context expires, a grace timer fires or a job     *)
(* finishes at any moment the code allows, and no order between two timers *)
(* is assumed (a throttled instance can wake up with all of them due).     *)
(***************************************************************************)
EXTENDS Naturals, Sequences, FiniteSets

CONSTANTS
  Caller,     (* goroutines that call this service                         *)
  Worker,     (* the pool: workerCount goroutines                          *)
  QueueCap,   (* nodeSpec.QueueCap, the capacity of the channel            *)
  AdmitAt,    (* least depth whose fraction reaches gateAdmitFraction      *)
  ResumeAt,   (* greatest depth whose fraction is gateResumeFraction       *)
  Modes,      (* classifications the operator gives the incoming edge      *)
  DefaultMode,(* the classification the edge is built with                 *)
  None        (* no job                                                    *)

ASSUME QueueAssumption == QueueCap \in Nat \ {0}
ASSUME GateAssumption  == AdmitAt \in 1..QueueCap /\ ResumeAt \in 0..(AdmitAt - 1)
ASSUME ModesAssumption == DefaultMode \in Modes /\ Modes \subseteq {"blocking", "best_effort", "gated"}
ASSUME PoolAssumption  == IsFiniteSet(Worker)
ASSUME NoneAssumption  == None \notin Caller

Priority == {"normal", "release_candidate"}

VARIABLES
  (* the service *)
  queue,      (* s.queue: the jobs in the channel's buffer, oldest first   *)
  closed,     (* close(s.queue) has been called                            *)
  shedding,   (* s.shedding, the hysteresis latch                          *)
  mode,       (* dependency.mode of the edge the callers go through        *)
  (* the callers and their current jobs *)
  pc,         (* where the caller is in call or gatedCall                  *)
  priority,   (* the priority its run was tagged with                      *)
  expired,    (* job.Ctx has ended, or nobody looks at it any more         *)
  done,       (* job.Done, the channel of capacity 1                       *)
  result,     (* what the call returned                                    *)
  sample,     (* what the metrics window has counted of the job            *)
  (* the workers *)
  wpc,        (* where the worker is in its loop                           *)
  wjob        (* the job it took                                           *)

gate       == <<queue, closed, shedding, mode>>
callerVars == <<pc, priority, expired, done, result, sample>>
workerVars == <<wpc, wjob>>
vars       == <<gate, callerVars, workerVars>>

(***************************************************************************)
(* What a worker sends: "answered" is whatever process returned (its own   *)
(* context's error included), "dropped" the error of a context that had    *)
(* ended before the work began.                                            *)
(***************************************************************************)
Answer == {"answered", "dropped"}

(* call: "send", "waiting".  gatedCall: all the others but "idle".         *)
InAdmission == {"admit", "set", "clear", "verdict"}
InGated     == InAdmission \union {"gatedSend", "grace", "held"}

TypeOK ==
  /\ queue \in Seq(Caller)
  /\ closed \in BOOLEAN
  /\ shedding \in BOOLEAN
  /\ mode \in Modes
  /\ pc \in [Caller -> {"idle", "send", "waiting"} \union InGated]
  /\ priority \in [Caller -> Priority]
  /\ expired \in [Caller -> BOOLEAN]
  /\ done \in [Caller -> Answer \union {"empty"}]
  /\ result \in [Caller -> Answer \union {"none", "full", "gave_up", "promoted"}]
  /\ sample \in [Caller -> {"none", "waited", "completed", "abandoned", "rejected"}]
  /\ wpc \in [Worker -> {"range", "check", "process", "reply", "drop", "exited"}]
  /\ wjob \in [Worker -> Caller \union {None}]

Queued(c)  == \E i \in 1..Len(queue) : queue[i] = c
JobLive(c) == Queued(c) \/ \E w \in Worker : wjob[w] = c
Free(c)    == pc[c] = "idle" /\ ~JobLive(c)

Init ==
  /\ queue = <<>>
  /\ closed = FALSE
  /\ shedding = FALSE
  /\ mode = DefaultMode
  /\ pc = [c \in Caller |-> "idle"]
  /\ priority = [c \in Caller |-> "normal"]
  /\ expired = [c \in Caller |-> TRUE]
  /\ done = [c \in Caller |-> "empty"]
  /\ result = [c \in Caller |-> "none"]
  /\ sample = [c \in Caller |-> "none"]
  /\ wpc = [w \in Worker |-> "range"]
  /\ wjob = [w \in Worker |-> None]

-----------------------------------------------------------------------------
(* The caller's side: process's dispatch, call and gatedCall.              *)

(* Where a call begins: only a Normal call through a gated edge has to ask *)
(* for admission.                                                          *)
EntryNoPriority(p) == IF mode = "gated" THEN "admit" ELSE "send"
Entry(p) == IF mode # "gated" THEN "send"
            ELSE IF p = "normal" THEN "admit" ELSE "gatedSend"

(* The caller reads the edge's mode, once, and enters call or gatedCall    *)
(* with a fresh context and a fresh Done channel.                          *)
Start(c, p) ==
  /\ ~closed
  /\ Free(c)
  /\ pc' = [pc EXCEPT ![c] = Entry(p)]
  /\ priority' = [priority EXCEPT ![c] = p]
  /\ expired' = [expired EXCEPT ![c] = FALSE]
  /\ done' = [done EXCEPT ![c] = "empty"]
  /\ result' = [result EXCEPT ![c] = "none"]
  /\ sample' = [sample EXCEPT ![c] = "none"]
  /\ UNCHANGED <<gate, workerVars>>

(* The three cases of admitCheck's switch on the occupancy.                *)
BranchOffByOne(depth) == IF depth >= AdmitAt THEN "set"
                         ELSE IF depth < ResumeAt THEN "clear" ELSE "verdict"
Branch(depth) == IF depth >= AdmitAt THEN "set"
                 ELSE IF depth <= ResumeAt THEN "clear" ELSE "verdict"

(* admitCheck reads the depth and picks the branch of its switch ...       *)
AdmitRead(c) ==
  /\ pc[c] = "admit"
  /\ pc' = [pc EXCEPT ![c] = Branch(Len(queue))]
  /\ UNCHANGED <<gate, priority, expired, done, result, sample, workerVars>>

(* ... stores into the latch what that branch says ...                     *)
AdmitStore(c) ==
  /\ pc[c] \in {"set", "clear"}
  /\ shedding' = (pc[c] = "set")
  /\ pc' = [pc EXCEPT ![c] = "verdict"]
  /\ UNCHANGED <<queue, closed, mode, priority, expired, done, result, sample, workerVars>>

(* Every refusal: RecordRejected, then ErrQueueFull.                       *)
RefuseUncounted(c) ==
  /\ pc' = [pc EXCEPT ![c] = "idle"]
  /\ expired' = [expired EXCEPT ![c] = TRUE]
  /\ result' = [result EXCEPT ![c] = "full"]
  /\ UNCHANGED sample
Refuse(c) ==
  /\ pc' = [pc EXCEPT ![c] = "idle"]
  /\ expired' = [expired EXCEPT ![c] = TRUE]
  /\ result' = [result EXCEPT ![c] = "full"]
  /\ sample' = [sample EXCEPT ![c] = "rejected"]

(* ... and loads the latch: that value, not the one it stored, decides.    *)
AdmitLoad(c) ==
  /\ pc[c] = "verdict"
  /\ \/ shedding /\ Refuse(c)
     \/ /\ ~shedding
        /\ pc' = [pc EXCEPT ![c] = "gatedSend"]
        /\ UNCHANGED <<expired, result, sample>>
  /\ UNCHANGED <<gate, priority, done, workerVars>>

(* The select with a default: a full buffer refuses at once.               *)
HasRoomOffByOne == Len(queue) <= QueueCap
HasRoom == Len(queue) < QueueCap

Enqueue(c) ==
  /\ pc[c] \in {"send", "gatedSend"}
  /\ \/ /\ HasRoom
        /\ queue' = Append(queue, c)
        /\ pc' = [pc EXCEPT ![c] = IF pc[c] = "send" THEN "waiting" ELSE "grace"]
        /\ UNCHANGED <<expired, result, sample>>
     \/ /\ ~HasRoom
        /\ Refuse(c)
        /\ UNCHANGED queue
  /\ UNCHANGED <<closed, shedding, mode, priority, done, workerVars>>

(* The wait ends because the worker answered ...                           *)
ReceiveNonBlocking(c) ==
  /\ pc[c] \in {"waiting", "grace"}
  /\ result' = [result EXCEPT ![c] = done[c]]
  /\ done' = [done EXCEPT ![c] = "empty"]
  /\ pc' = [pc EXCEPT ![c] = "idle"]
  /\ expired' = [expired EXCEPT ![c] = TRUE]
  /\ UNCHANGED <<gate, priority, sample, workerVars>>
Receive(c) ==
  /\ pc[c] \in {"waiting", "grace"}
  /\ done[c] # "empty"
  /\ result' = [result EXCEPT ![c] = done[c]]
  /\ done' = [done EXCEPT ![c] = "empty"]
  /\ pc' = [pc EXCEPT ![c] = "idle"]
  /\ expired' = [expired EXCEPT ![c] = TRUE]
  /\ UNCHANGED <<gate, priority, sample, workerVars>>

(* ... or, in call, because the context ended: the job stays where it is.  *)
GiveUp(c) ==
  /\ pc[c] = "waiting"
  /\ expired[c]
  /\ result' = [result EXCEPT ![c] = "gave_up"]
  /\ pc' = [pc EXCEPT ![c] = "idle"]
  /\ UNCHANGED <<gate, priority, expired, done, sample, workerVars>>

(***************************************************************************)
(* In gatedCall the grace timer, or the end of the caller's own context,   *)
(* promotes the call: the caller is told Degraded and leaves, and a        *)
(* detached goroutine (pc "held") goes on waiting for the job.             *)
(***************************************************************************)
Promote(c) ==
  /\ pc[c] = "grace"
  /\ result' = [result EXCEPT ![c] = "promoted"]
  /\ pc' = [pc EXCEPT ![c] = "held"]
  /\ UNCHANGED <<gate, priority, expired, done, sample, workerVars>>

(* The detached goroutine gets its answer, drops it and ends.              *)
Release(c) ==
  /\ pc[c] = "held"
  /\ done[c] # "empty"
  /\ done' = [done EXCEPT ![c] = "empty"]
  /\ pc' = [pc EXCEPT ![c] = "idle"]
  /\ expired' = [expired EXCEPT ![c] = TRUE]
  /\ UNCHANGED <<gate, priority, result, sample, workerVars>>

(***************************************************************************)
(* The job's context ends: in call the caller's (run deadline, best-effort *)
(* timeout, cancellation), from the moment of the call; in gatedCall the   *)
(* hold budget of a context created with the job, whatever becomes of the  *)
(* caller.                                                                 *)
(***************************************************************************)
Expire(c) ==
  /\ ~expired[c]
  /\ JobLive(c) \/ pc[c] \in {"send", "waiting"}
  /\ expired' = [expired EXCEPT ![c] = TRUE]
  /\ UNCHANGED <<gate, pc, priority, done, result, sample, workerVars>>

-----------------------------------------------------------------------------
(* The worker's side.                                                      *)

WorkerTakePeek(w) ==
  /\ wpc[w] = "range"
  /\ queue # <<>>
  /\ wjob' = [wjob EXCEPT ![w] = Head(queue)]
  /\ wpc' = [wpc EXCEPT ![w] = "check"]
  /\ UNCHANGED <<gate, callerVars>>
WorkerTake(w) ==
  /\ wpc[w] = "range"
  /\ queue # <<>>
  /\ wjob' = [wjob EXCEPT ![w] = Head(queue)]
  /\ queue' = Tail(queue)
  /\ wpc' = [wpc EXCEPT ![w] = "check"]
  /\ UNCHANGED <<closed, shedding, mode, callerVars>>

(* A job whose context has ended is counted as abandoned and not run; any  *)
(* other has its queue wait counted and goes to process.                   *)
WorkerCheckMute(w) ==
  /\ wpc[w] = "check"
  /\ \/ /\ expired[wjob[w]]
        /\ sample' = [sample EXCEPT ![wjob[w]] = "abandoned"]
        /\ wpc' = [wpc EXCEPT ![w] = "range"]
        /\ wjob' = [wjob EXCEPT ![w] = None]
     \/ /\ ~expired[wjob[w]]
        /\ sample' = [sample EXCEPT ![wjob[w]] = "waited"]
        /\ wpc' = [wpc EXCEPT ![w] = "process"]
        /\ UNCHANGED wjob
  /\ UNCHANGED <<gate, pc, priority, expired, done, result>>
WorkerCheck(w) ==
  /\ wpc[w] = "check"
  /\ \/ /\ expired[wjob[w]]
        /\ sample' = [sample EXCEPT ![wjob[w]] = "abandoned"]
        /\ wpc' = [wpc EXCEPT ![w] = "drop"]
     \/ /\ ~expired[wjob[w]]
        /\ sample' = [sample EXCEPT ![wjob[w]] = "waited"]
        /\ wpc' = [wpc EXCEPT ![w] = "process"]
  /\ UNCHANGED <<gate, pc, priority, expired, done, result, wjob>>

(* process returns, and RecordCompleted counts the job before anyone is    *)
(* told.                                                                   *)
WorkerFinish(w) ==
  /\ wpc[w] = "process"
  /\ sample' = [sample EXCEPT ![wjob[w]] = "completed"]
  /\ wpc' = [wpc EXCEPT ![w] = "reply"]
  /\ UNCHANGED <<gate, pc, priority, expired, done, result, wjob>>

(* j.Done <- res, which blocks while the buffer of one is taken; dropped   *)
(* jobs then go on to the next (continue), like all others.                *)
WorkerDeliverNoContinue(w) ==
  /\ wpc[w] \in {"reply", "drop"}
  /\ done[wjob[w]] = "empty"
  /\ done' = [done EXCEPT ![wjob[w]] = IF wpc[w] = "reply" THEN "answered" ELSE "dropped"]
  /\ wjob' = [wjob EXCEPT ![w] = IF wpc[w] = "reply" THEN None ELSE wjob[w]]
  /\ wpc' = [wpc EXCEPT ![w] = IF wpc[w] = "reply" THEN "range" ELSE "process"]
  /\ UNCHANGED <<gate, pc, priority, expired, result, sample>>
WorkerDeliver(w) ==
  /\ wpc[w] \in {"reply", "drop"}
  /\ done[wjob[w]] = "empty"
  /\ done' = [done EXCEPT ![wjob[w]] = IF wpc[w] = "reply" THEN "answered" ELSE "dropped"]
  /\ wjob' = [wjob EXCEPT ![w] = None]
  /\ wpc' = [wpc EXCEPT ![w] = "range"]
  /\ UNCHANGED <<gate, pc, priority, expired, result, sample>>

(* The range loop ends on a channel that is closed and drained.            *)
WorkerExitOnClose(w) ==
  /\ wpc[w] = "range"
  /\ closed
  /\ wpc' = [wpc EXCEPT ![w] = "exited"]
  /\ UNCHANGED <<gate, callerVars, wjob>>
WorkerExit(w) ==
  /\ wpc[w] = "range"
  /\ closed /\ queue = <<>>
  /\ wpc' = [wpc EXCEPT ![w] = "exited"]
  /\ UNCHANGED <<gate, callerVars, wjob>>

-----------------------------------------------------------------------------
(* The engine's side.                                                      *)

(* shutdown closes the channel.  Engine.Close calls it only when every     *)
(* caller has returned for good; detached goroutines may still wait.       *)
Shutdown ==
  /\ ~closed
  /\ \A c \in Caller : pc[c] \in {"idle", "held"}
  /\ closed' = TRUE
  /\ UNCHANGED <<queue, shedding, mode, callerVars, workerVars>>

(* What Engine.reset does here: the latch is cleared and the edge gets its *)
(* default back.  (Nothing else of Reset, or of a scenario, shows here.)   *)
Reset ==
  /\ shedding \/ mode # DefaultMode
  /\ shedding' = FALSE
  /\ mode' = DefaultMode
  /\ UNCHANGED <<queue, closed, callerVars, workerVars>>

(* Engine.SetEdgeMode; the mode the edge already has is a no-op.           *)
SetEdgeMode(m) ==
  /\ m # mode
  /\ mode' = m
  /\ UNCHANGED <<queue, closed, shedding, callerVars, workerVars>>

(* Shut down and drained: nothing is left to do.                           *)
Stopped ==
  /\ closed
  /\ \A w \in Worker : wpc[w] = "exited"
  /\ \A c \in Caller : pc[c] = "idle"
  /\ UNCHANGED vars

CallerStep(c) ==
  \/ AdmitRead(c) \/ AdmitStore(c) \/ AdmitLoad(c) \/ Enqueue(c)
  \/ Receive(c) \/ GiveUp(c) \/ Promote(c) \/ Release(c)

WorkerStep(w) ==
  \/ WorkerTake(w) \/ WorkerCheck(w) \/ WorkerFinish(w)
  \/ WorkerDeliver(w) \/ WorkerExit(w)

Next ==
  \/ \E c \in Caller, p \in Priority : Start(c, p)
  \/ \E c \in Caller : CallerStep(c) \/ Expire(c)
  \/ \E w \in Worker : WorkerStep(w)
  \/ \E m \in Modes : SetEdgeMode(m)
  \/ Shutdown \/ Reset \/ Stopped

Spec == Init /\ [][Next]_vars

(***************************************************************************)
(* The Go scheduler runs every runnable goroutine eventually, and process  *)
(* takes finite time.  Nothing is assumed of the operator, of the engine's *)
(* shutdown, of new calls or of the deadlines.                             *)
(***************************************************************************)
Fairness ==
  /\ \A c \in Caller : WF_vars(CallerStep(c))
  /\ \A w \in Worker : WF_vars(WorkerStep(w))

FairSpec == Spec /\ Fairness

(* As above, with the load generator's arrivals never drying up while the  *)
(* engine is open.                                                         *)
BusySpec == FairSpec /\ SF_vars(\E c \in Caller : Start(c, "normal"))

-----------------------------------------------------------------------------
(* A job is in one place: once in the channel, or with one worker.         *)
JobInOnePlace ==
  /\ \A i, j \in 1..Len(queue) : queue[i] = queue[j] => i = j
  /\ \A v, w \in Worker : wjob[v] = wjob[w] /\ wjob[v] # None => v = w
  /\ \A w \in Worker : wjob[w] # None => ~Queued(wjob[w])

(* A worker about to send on Done finds the buffer of one empty, whoever   *)
(* has timed out, promoted or left: no worker is ever parked on a call     *)
(* (the comment on job.Done).                                              *)
WorkerNeverParks ==
  \A w \in Worker : wpc[w] \in {"reply", "drop"} => done[wjob[w]] = "empty"

(* A caller that waits on Done, and a detached goroutine that does, has a  *)
(* job still in the service or an answer in the buffer: nobody waits for   *)
(* an answer no worker owes.                                               *)
WaiterIsOwed ==
  \A c \in Caller : pc[c] \in {"waiting", "grace", "held"} => JobLive(c) \/ done[c] # "empty"

(* The strengthening that makes the three above inductive: only a busy     *)
(* worker has a job, a job in the service is unanswered, and a call that   *)
(* has not sent yet has no job.                                            *)
BusyHasJob ==
  \A w \in Worker : wjob[w] # None <=> wpc[w] \in {"check", "process", "reply", "drop"}
LiveIsUnanswered == \A c \in Caller : JobLive(c) => done[c] = "empty"
UnsentHasNoJob ==
  \A c \in Caller : pc[c] \in InAdmission \union {"send", "gatedSend"} =>
                      ~JobLive(c) /\ done[c] = "empty"
WithinCapacity == Len(queue) <= QueueCap
IInv ==
  /\ TypeOK /\ JobInOnePlace /\ WaiterIsOwed
  /\ BusyHasJob /\ LiveIsUnanswered /\ UnsentHasNoJob /\ WithinCapacity

(* What a caller is told agrees with what the metrics window counts: it is *)
(* told ErrQueueFull exactly when the call is counted as rejected, and the *)
(* call then holds no place; an answer from process was counted first; and *)
(* a call whose job is gone has been counted under one final heading.      *)
AnswerMatchesSample ==
  \A c \in Caller :
    /\ result[c] = "full" <=> sample[c] = "rejected"
    /\ sample[c] = "rejected" => ~JobLive(c)
    /\ "answered" \in {result[c], done[c]} => sample[c] = "completed"
    /\ "dropped" \in {result[c], done[c]} => sample[c] = "abandoned"
    /\ result[c] # "none" /\ ~JobLive(c) =>
         sample[c] \in {"rejected", "abandoned", "completed"}

(* The bookkeeping behind it, caller by caller and worker by worker; with  *)
(* IInv it is inductive.                                                   *)
SampleAt == [check |-> "none", process |-> "waited", reply |-> "completed", drop |-> "abandoned"]
Accounted ==
  /\ \A c \in Caller :
       /\ pc[c] \in InAdmission \union {"send", "gatedSend"} => sample[c] = "none"
       /\ pc[c] \in InAdmission \union {"send", "gatedSend", "waiting", "grace"} => result[c] = "none"
       /\ pc[c] = "held" => result[c] = "promoted"
       /\ pc[c] \in InAdmission => priority[c] = "normal"
       /\ Queued(c) => sample[c] = "none"
       /\ pc[c] \in {"waiting", "grace", "held"} /\ ~JobLive(c) =>
            sample[c] \in {"completed", "abandoned"}
  /\ \A w \in Worker : wjob[w] # None => sample[wjob[w]] = SampleAt[wpc[w]]
  /\ AnswerMatchesSample

(* At most QueueCap + workerCount calls are outstanding, so at most that   *)
(* many detached goroutines still wait for a worker.                       *)
OutstandingBounded ==
  Cardinality({c \in Caller : JobLive(c)}) <= QueueCap + Cardinality(Worker)

(* The window counts a call's fate once: queue wait then completion,       *)
(* abandonment alone, or rejection alone.                                  *)
CountedOnce ==
  [][\A c \in Caller : sample'[c] # sample[c] =>
       \/ <<sample[c], sample'[c]>> \in {<<"none", "waited">>, <<"waited", "completed">>,
                                         <<"none", "abandoned">>, <<"none", "rejected">>}
       \/ sample'[c] = "none" /\ Free(c)]_vars

(* A release-candidate call is refused only by a channel at its hard       *)
(* capacity, however the latch flaps and the edge is reclassified.         *)
ReleaseShedOnlyWhenFull ==
  [][\A c \in Caller :
       priority[c] = "release_candidate" /\ sample[c] = "none" /\ sample'[c] = "rejected"
         => Len(queue) = QueueCap]_vars

(* The service is the bulkhead of module Bulkhead to those who call it: a  *)
(* call is out of it once it has returned or is only waited for by a       *)
(* detached goroutine, and owed work while its job is in the service.      *)
PhaseAt(p) == IF p \in {"idle", "held"} THEN "out"
              ELSE IF p \in {"waiting", "grace"} THEN "waiting" ELSE "asking"
Promised == INSTANCE Bulkhead WITH
  Capacity <- QueueCap + Cardinality(Worker),
  open     <- ~closed,
  phase    <- [c \in Caller |-> PhaseAt(pc[c])],
  owed     <- {c \in Caller : JobLive(c)},
  outcome  <- result
ImplementsBulkhead == Promised!Spec

(* Every call ends, and so does every detached goroutine.                  *)
CallsSettle == \A c \in Caller : pc[c] # "idle" ~> pc[c] = "idle"

(* After close(queue) the pool drains the backlog and every worker exits:  *)
(* shutdown's wg.Wait returns, and no detached goroutine is left behind.   *)
ShutdownDrains ==
  closed ~> /\ \A w \in Worker : wpc[w] = "exited"
            /\ \A c \in Caller : pc[c] = "idle" /\ ~JobLive(c)

(* While Normal calls keep asking for admission, the latch (and the FAILING *)
(* status tick derives from it) does not outlive the overload: the gate is *)
(* not shut for ever over a backlog that stays at the resume line or below.*)
Overloaded == Len(queue) > ResumeAt
Asked == \E c \in Caller : pc[c] \in InAdmission
LatchFollowsBacklog == []<>Asked => []<>(~shedding \/ Overloaded \/ closed)

(* The same when the operator moves the edge from gated to best-effort and *)
(* leaves it there: the README's "best_effort recovers immediately", and   *)
(* rollup.go's "the banner reads FAILING" and "shedding is actually        *)
(* happening" never reading differently.                                   *)
LatchFollowsReclassification ==
  <>[](mode = "best_effort") => []<>(~shedding \/ Overloaded \/ closed)
=============================================================================
