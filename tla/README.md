# A verification of retries-demo

retries-demo simulates a CI pipeline of nine services as real goroutines and
channels: a load generator fires runs at a root service, the runs fan out along
a dependency graph whose edges are *blocking*, *best-effort* or *gated*, an
operator slows services down or reclassifies edges, and a browser watches the
health that results.  This directory holds TLA+ models of that program, the TLC
configurations that check them and TLAPS proofs.  Paths below are relative to
`src/`.

## Inventory

| Part | State | Operations | What makes it correct |
|---|---|---|---|
| Service, `internal/sim/service.go` | buffered channel `queue`, worker pool, `shedding` latch, metrics | `call`, `gatedCall`, `admitCheck`, `worker`, `shutdown` | every accepted job is answered once, no worker blocks on an answer, what a caller is told is what is counted, the latch follows the backlog |
| Fan-out, `service.go` `process` | mode per edge, one result per call | dispatch, merge, `wg.Wait` | a best-effort failure never becomes a hard one, nothing is swallowed, no wait is endless |
| Engine life cycle, `internal/sim/engine.go` | context, `runWG`, closed channels | `generateLoad`, `Close` | nobody sends on a closed channel, nothing is left behind, `Close` returns |
| Topology, `internal/sim/topology.go` | none (data) | `validateTopology`, `topoOrder` | parents first, cycles found |
| Health, `internal/sim/rollup.go` | `prevRollup` | `localStatus`, `rollupOne`, `computeRollups` | FAILING spreads over essential edges and over nothing else |
| Control plane, `engine.go`, `scenarios.go` | injections, modes, event ring, kick channel, snapshot | `Inject`, `SetEdgeMode`, `Reset`, `ApplyScenario`, `tick` | ring gapless, log and banner agree, no kick lost, presets reproduce |
| Metrics, `metrics.go` | four slices of samples and one of runs, each struct under a mutex | `Record...`, `Read`, `pruneLocked` | pruning loses nothing live and bounds what nobody reads; a read counts each sample once |
| Stream, `internal/api/sse.go`, `cmd/server/main.go` | semaphore, one handler per connection, contexts, the phase of `main` | `handleStream`, shutdown, a listener that fails, kill and restart | slots come back on every way out, a shutdown ends by itself |
| HTTP handlers, `internal/api` | none | decoding, validation | stateless |
| Stream client, `web/src/hooks/useSimulationStream.ts`, `lib/transport.ts` | EventSource, retry timer, connection, watchdog's verdict, last snapshot | connect, open, message, error, watchdog | one stream or one attempt, quiet is noticed, the page comes back |
| Event log, `web/src/hooks/useEventLog.ts` | log, IDs seen, high-water mark | the effect after each snapshot | nothing twice, nothing lost that the ring still has |

How they interact: HTTP handlers, each on its own goroutine, call the engine,
which shares atomics with the workers and two mutexes (ring, snapshot) with the
tick goroutine.  Services call each other through channels; a job carries a
context and a `Done` channel of capacity one.  Handlers wake the tick goroutine
through a channel of capacity one.  Streams only read the published snapshot
and write it to a connection with no write deadline; the page at the other end
closes its EventSource at every error and opens another after a delay.

What is hard: a worker's answer racing with the caller's deadline, the grace
timer and promotion; the latch, a cached verdict that several callers update
without a lock; edges reclassified while calls are in flight; closing channels
while runs are returning; handlers interleaving with one another and with a
tick; a clock that moves between a call and its lock; connections that die without
telling either end; and servers that restart and count their events from one
again.  Every such hazard is listed with its line in `PROJECT.json`.

## Modules

`Service` - one service.  A `Caller` is a goroutine that makes calls and names
the job of its current call.  `pc` is its place in `call` or `gatedCall`,
`queue` the channel, `done` the buffer of `Done`, `wpc` a worker's place in its
loop, `sample` what the metrics window has counted of the job.  `admitCheck` is
three actions (read the depth, store the latch, load the latch) because the code
holds no lock.  Time is abstracted: `Expire` and `Promote` may happen whenever
the code's timers are armed, in any order.  `Reset` shows only what it does to
the latch and the edge; it is one step here, and store by store in `Control`.

`Bulkhead` - what a service promises its callers, and all that they see of it: a
call is refused at once or the service owes it work, it owes no more than workers
and channel hold, and an answer comes only when that work is over, while a caller
may leave early.  Channel, workers, latch, jobs and `Done` are hidden:
`Service!ImplementsBulkhead` is the instance that counts outstanding work from
them, checked by `MCServiceLive` and proved.

`Pipeline` - the services composed.  A `Call` is one call of one run, that is, a
path of the graph; `Parent` links it to the call on whose behalf it is made.
`Dispatch`, `Merged` and `Join` are `process`'s loop, critical section and
`wg.Wait`; `Cancel`, `LoadStop`, `AwaitRuns`, `CloseQueue`, `PoolDrained` are
`Engine.Close`.  Two things are abstracted, both towards more behaviours: the
latch (a gated call may be shed at any time) and the order in which contexts end
(a derived one may outlive its parent).  The tick loop, whose end `Close` also
waits for, only depends on the cancellation and is not in it.

`Topology` - `validateTopology`'s structural checks and Kahn's algorithm, on any
graph.  The queue of ready nodes is a set, so the results hold for every order of
declaration.  Of the checks of single nodes it keeps the tier and whether workers
and queue are there at all (`sized`); nodes and edges are sets, so duplicate and
dangling declarations do not arise.

`Health`, `Rollup` - the pure functions of `rollup.go`, and `computeRollups` as
a loop over the evaluation order.  A rate is reduced to its level: up to the
degraded threshold, above it, above the failing one.

`Metrics` - one service's window and the runs' window.  A recorder's call and what
it does under the mutex are two steps, so time can pass between them, and a tick
takes its time before its reads.  A sample is the slice it goes to, a small number
(latency or wait) and three bits (error, degraded, release candidate); percentiles,
rates and the mean wait are computed from them.
`history` is auxiliary: it remembers everything ever recorded.

`Stream` - the server's side of the event stream in the process that serves it.  A
connection holds a few writes; a handler whose connection is full blocks in its
write.  A connection may go dark, with neither end told, and the server's kernel
gives up on it some time later (`Reap`).  `phase` is where `main` is between
serving, cancelling the contexts, `Shutdown` and exit; `Kill` and `Restart` are
the operating system's.

`Viewer` - the page: `useSimulationStream` and `useEventLog`, a callback, timer or
effect per action.  Time is the age of the last message: none, fresh, old.

`Dashboard` - `Stream` with `Viewer` as its client.  Subscribing and connecting,
reading and the callback it triggers, an error and the teardown that hangs up are
joint steps.

`Control` - requests and ticks as lists of steps, each of which touches one
shared thing once, with two exceptions: `Capture` loads a node's status and the
modes of its edges, and `ReadInjections` a node's two injections, in one step; the
code's loads follow each other, and no property tells their orders apart.  `TickSteps` is `tick`'s program, in its order.  It uses
`Health!RollupOne` for the fold.  A gate's latch and a service's failing window are
one set, `sick`, that the traffic flips.

`Feed` - what the engine promises those who read its snapshots, and all that
`Stream`'s event counter and `Viewer`'s `Events` take of it: IDs count up from one,
a snapshot carries exactly the newest of them up to its latest, and its latest
never goes back.  No ring, tick, copy or operator: `Control!ImplementsFeed` is the
instance that takes the IDs from `nextEvID` and the published snapshot, checked by
`MCControl` and proved.

`MC...` modules give the instances; `...Proofs` modules hold the theorems.
Operators whose name extends that of a neighbour (`ReceiveNonBlocking` before
`Receive`) are plausible bugs of that definition: with one of them in its place
the property named in `PROJECT.json` is violated.

## Runs

| Run | Instance | Shows |
|---|---|---|
| `MCService` | 3 callers, 2 workers, channel of 2, gated and best-effort | `JobInOnePlace`, `WorkerNeverParks`, `WaiterIsOwed`, `AnswerMatchesSample`, `CountedOnce`, `ReleaseShedOnlyWhenFull`, and the invariants that the proofs use |
| `MCServiceLive` | 2 callers, 1 worker, channel of 1, gated and blocking | the service implements `Bulkhead`; every call and detached goroutine ends; a closed service drains; the latch does not outlive the backlog while Normal calls come |
| `MCServiceStuck` | an edge reclassified while its gate sheds | violated: see Findings |
| `MCTopology` | all graphs on 3 nodes, 3 tiers or none | parents first, cycles found exactly, tiers exclude cycles |
| `MCRollup` | 5 services, 1 gate, all statuses and modes | FAILING and OK mean what the paths say |
| `MCPipeline` | a run through a diamond, all pools and channels of size 1, two edges reclassified, `Close` | no send on a closed channel, nothing left behind, failures and clean runs explained |
| `MCPipelineLive` | 2 runs to a gate whose work may hang | every run returns; `Close` returns unless work hangs for ever |
| `MCControl` | 2 requests, 1 gate below the root, ring of 3, 1 flip | ring, log, banner and kick; the engine implements `Feed` |
| `MCControlScenario` | 2 presets at once | violated: see Findings |
| `MCMetrics` | 2 recorders, three slices and the runs', a window of 1, a high-water mark of 1, a clock to 3, 3 samples | a window is the ordered recent end of what was recorded, and what a tick reads counts each of its samples once, under its own heading |
| `MCDashboard` | 1 slot, 2 connections, one of which may be dark at a time, 2 server processes of up to 3 events, ring and log of 2 | no slot leaks, a shutdown ends, one lifeline, the log covers the snapshot, quiet is noticed, the page comes back |
| `MCLogRestart` | the same, without fairness | violated: see Findings |

Why the bounds are enough to mean something.  Channels of one or two fill and
overflow; more callers than places and workers means that refusal, queueing,
expiry in the queue, promotion and shutdown over a backlog all occur.  With two
workers, two jobs finish in either order.  A latch needs a depth that sets it,
one that clears it and (`MCService`) one between; `AdmitAt` and `ResumeAt` stand
for the fractions 0.9 and 0.3.  The diamond is the shape of the real graph that
matters (build and test share the artifact store), and one place per pool makes
the shared leaf refuse.  A ring of three overflows within one request and one
tick.  Three nodes hold every kind of cycle and diamond edge Kahn's algorithm
distinguishes; the theorems remove that bound.

With two callers the bulkhead's bound on the work it owes, here two, cannot be
passed; the theorem holds for any number.  In `MCMetrics` a window of one and a clock to three
let a sample be live, at the edge and dead, and a mark of one lets the valve prune
on the second sample of a slice.  In `MCDashboard` one slot and two connections
make the page, reconnecting, meet the handler of its own dead connection; a
connection takes one write beyond what is read (`WireCap` 0), so handlers do block;
two processes (`MaxInc`) are one restart; three events (`MaxTop`) overflow ring,
log and the memory of IDs.  The real sizes keep the order ring <= log <= memory
that the instance has; the first half is `Viewer`'s `SizeAssumption`.  In a bounded run events stop at `MaxTop`, restarts at
`MaxInc`: the liveness properties speak of what the page does with snapshots, which
handlers push for ever, not of new events.

Deadlock is checked everywhere; `Stopped`, `Returned` and `Done` are where a
component has rightly come to an end.

## Fairness

`Service` and `Pipeline`: weak fairness of each goroutine's own steps, because
the Go scheduler runs what is runnable; of `Expire` in `Pipeline`, because every
context there is made with a timeout; of the service's own work, a timer in
`process`, except in the services the instance calls `Hung`, of which nothing is
assumed.  Nothing is assumed of operators, of new calls or of `Shutdown` and
`Cancel`.  `BusySpec` adds strong fairness of new Normal calls: the load
generator's loop never dries up, and only with traffic does the latch move.
`Control`: weak fairness of handlers and of a tick in progress; strong fairness
of taking a kick, since the loop's `select` chooses at random among what is
ready.  The ticker gets none on purpose, for it would paper over a lost kick.
`Stream`: weak fairness of each handler's steps and of `main`'s; strong fairness of
`ContextDone`, because the handler's `select` chooses at random and the ticker's
case is ready now and again; weak fairness of `Reap`, because TCP does not retransmit
for ever; none of `Shutdown`'s deadline (it must not be needed), of signals, kills
and restarts.  `Dashboard`: weak fairness of the page's timers, of its effects and
of reading what has arrived; none of `Notice`, since a browser may never find out
that a connection is dark.  `ComesBack` therefore asks that the page's own
connection is not dark for ever: on one that is, the hook shows a stream that is
not live (`QuietIsNoticed`), and does not reconnect.

## Proofs

All proofs are by TLAPS, for any value of the constants that meets the named
assumptions.

- `ServiceProofs`: `IInv` is inductive.  That no worker parks, for instance, is
  not inductive alone: one must know that a job still in the service is
  unanswered (`LiveIsUnanswered`), that it is there once (`JobInOnePlace`), that
  a busy worker has a job (`BusyHasJob`) and that a caller that has not sent has
  none (`UnsentHasNoJob`).  With `Accounted` it also gives that answers and
  metrics agree, that a call's fate is counted once, and that a release candidate
  is refused only by a full channel.  `OutstandingBounded` is proved and not
  run: every job outstanding is in the channel or with a worker of its own
  (`OutstandingFits`).
- `BulkheadProofs`: every step of `Service` is a step of `Bulkhead` or none, so
  the service implements the bulkhead.  Of `Service` it needs `IInv` and that same
  `OutstandingFits`; each action is mapped to the one its callers see.
- `PipelineProofs`: why `Close` cannot panic.  Whoever is inside `call` keeps the
  job of its parent at `wg.Wait` (`ParentWaits`); a pool that `Close` has passed
  is drained, hence has no job at `wg.Wait` (`Frontier`); the shutdown order puts
  parents first (`OrderAssumption`, which `TopologyProofs` establishes of
  `topoOrder`).  So the channel of a sender lies after `Close`'s position, and is
  open.
  What a run's answer means (`RunInv`) is first said call by call: an answer with
  an error has a reason next to it, its own failure or a child merged as essential
  (`Explained`), an answer without one has merged no error over an essential edge
  (`SoundKids`), and a clean answer has only clean children (`CleanKids`); all three
  survive because a parent merges at `wg.Wait`, before anybody holds its answer
  (`DoneAfterKids`).  The properties speak of paths.  Paths are finite because
  calls descend the shutdown order (`Deeper`), so the deepest call reached over
  essential errors must be at fault itself (`FollowedDown`); on a path from a run
  that did not fail to a troubled call, the highest call in error would be the
  child of one that merged it (`FailsIff`); and the highest unclean call below a clean run would be the child of a clean one
  (`CleanAllTheWay`): a least element stands in for the induction.
- `TopologyProofs`: Kahn's bookkeeping (`KahnInv`) is inductive; from it, the
  order is parents first, a cycle is reported exactly when there is one, and
  edges that descend a tier exclude one.
- `RollupProofs`: each rollup, once written, is `rollupOne` of its children's
  final ones (`RollupInv`).  That a node on an unbroken chain of essential edges
  is FAILING follows by closure; that a FAILING node has such a chain goes by
  induction over the loop (`Reasons`).
- `MetricsProofs`: `WindowInv` is inductive with the types.  Stamps are in order
  because they are taken under the mutex, so dropping from the front drops the
  oldest (`PruneStops`, `PruneKeeps`); nothing is dropped too early because nobody
  prunes at a time to come (`now <= clock`, `LiveFades`).
  `ReadIsHonest` is about one step: what a read keeps is at least what is live now
  and at most what was live when the tick took its time (`PruneCounts`), counting
  samples, not stamps, since several may share one, and each kind of sample by
  itself: errors, degraded calls, runs of either priority.  That `percentile`'s choice
  exists and is the nearest rank (`PercentileHonest`) takes, among the samples of
  a window, the least latency that enough others do not exceed.  The sum of the
  waits is a recursive function: that it exists (`SumExists`) and lies between as
  many times the least and the greatest of them (`SumBetween`) is shown by a least
  counterexample.
- `ControlProofs`: `Log`, a ring that is gapless and either full or complete from
  the first event, survives any emission (`LogAppend`); its IDs are the newest
  there are up to its end, as many as it holds (`LogIDs`, `LogIsNewest`).  So every
  emission and every publication is a step of `Feed`, all else a stutter
  (`FeedStep`).  That the latest never goes back rests on where the tick is in its
  program (`InProgram`): the copy is taken right before publication, the one step
  that changes the snapshot, hence after the last snapshot was published.
  That log and banner agree (`BannerInv`) is a race between the ring, which the
  handlers fill too, and a fold that is old by the time its transitions are
  emitted: of each signal the ring's latest transition is what `prev` holds,
  whoever emits (`EmitAgrees`), and `prev` is the fold's verdict for the signals
  whose turn has passed (`Passed`).  All turns come between the fold and the copy
  (`TickOrder`).  `SignalAssumption`, that no node is called by the name of
  another origin of events, makes signals distinct.
  `NothingUnseen` is the safe half of `NoKickLost`: when nothing is left to do
  the snapshot is up to date (`UpToDate`, stated in `Control` and proved, not run).
  `FreshInv` says why: a request's last step is its kick, so while one is under
  way something is pending (`EndsInKick`, `Pending`); and once nothing is, what a
  tick has passed in its program (`Did`) it holds as it is now (`Fresh`).  A tick
  that had read half of what a request stored meets its kick when it ends.
  The fold is a recursive function, whose value must be shown to exist before
  anything is known of it: one more round makes right what is one higher
  (`FoldEnds`), which needs `AcyclicAssumption`, what `validateTopology` checks
  and `TopologyProofs` establishes of it.  From it come `TypeOK` and that the
  first snapshot is consistent (`HealthyFold`).  `RequestAssumption` types the
  requests the handlers let through.
- `DashboardProofs`: admitted handlers and slots rise and fall together (`Enter`,
  `Leave`, `Stay`), for the server alone and with the page as its client; the page
  has one stream, or none and one attempt to come (`Lifeline`).  `Covered` says the
  log holds the snapshot's ring: after the union and the cut to the newest, an ID
  of the ring can only be gone if more than a log's worth of newer ones stayed,
  and the ring, whose IDs are the newest, is no longer than the log
  (`SizeAssumption`, both 100: `topology.go:31`, `useEventLog.ts:4`).

Only model-checked: every liveness property, which is outside the prover's reach.
Every invariant and action property of the passing runs is proved.  That an
invariant is proved says nothing of liveness: a `Service` that never answered
would implement `Bulkhead` as well.

## Findings

1. `internal/sim/service.go:393` - once an edge is moved away from *gated* while
   its gate sheds, nobody runs `admitCheck` any more and the gate reads FAILING
   for ever, over an empty queue (`MCServiceStuck`).  README.md:130: "`best_effort`
   recovers immediately".
2. `web/src/hooks/useEventLog.ts:26` - a restart is noticed only if the new
   server's latest ID is below the old one's.  A page that is away until the new
   server has caught up keeps the old entries and drops the new server's events
   with the same IDs (`MCLogRestart`).  useEventLog.ts:23-24 promises to drop the
   history "rather than silently swallowing everything that follows".
3. `internal/sim/scenarios.go:87` - two presets applied at the same time may both
   reset before either injects, and both injections stay (`MCControlScenario`).
   `scenarios.go:58` says a preset "always reproduces".

Seen in passing, and checked by no run of its own: README.md:39 says release
candidates are never shed, and a full channel does refuse them (the code's comment at
`service.go:182` says so; `ReleaseShedOnlyWhenFull` is the true statement);
`gatedCall` makes its context from `context.Background()`, so a priority would
not travel past a gate, which has no effect while gates have no dependencies;
a gate's own error rate can make the headline FAILING with an empty backlog
(`engine.go:249`), while README.md:62 promises FAILING "only once it's genuinely
saturated"; and useSimulationStream.ts:12 says `live` is "Never true on stale
data", but right after `onOpen` of a new connection it is true over the old
snapshot, until the watchdog looks again (at most a second).

## Not modelled

The random draws (arrival times, jitter, priority) are free choices.  The HTTP
layer is stateless decoding, validation and routing in front of `Control`; the
semaphore that `api.go` makes is `Stream`'s `slots`.  Rendering, layout, wording of
events, the mock engine and the table of nodes have nothing to check.  Of the
stream, keepalive comments, headers and a writer that cannot flush are left out; of
the page, the length of the backoff (any delay), malformed frames, unmounting, and
a change of transport.  Of the metrics, throughput (a count over a constant).  Of
the control plane, the sanitising of numbers, the targets of each preset and the
tick loop's exit.  A snapshot's rates, depths and latencies are carried and never
acted upon.

## Plan

Done, in this order: `Service` (the heart: every call goes through it),
`Topology`, `Rollup`, `Pipeline` (composition and `Close`), `Control`, then
`Metrics`, `Stream`, `Viewer`, their composition `Dashboard`, `Bulkhead` and `Feed`.  Left:

1. An abstract specification of a run, its result as a function of its calls'
   outcomes, that `Pipeline` implements; `RunInv` already relates the two call by
   call.
2. `Stream` and `Viewer` on `Feed`: their counter of events and the list a page is
   sent as one more instance of it, so that `Feed` joins the two halves by a theorem.
