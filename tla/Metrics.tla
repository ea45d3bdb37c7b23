------------------------------ MODULE Metrics ------------------------------
(***************************************************************************)
(* The rolling windows of internal/sim/metrics.go: a service's metrics,    *)
(* four slices of samples under one mutex, and the engine's runMetrics,    *)
(* one slice under its own.  Workers and callers record, the tick reads.   *)
(*                                                                         *)
(* A recorder's call and the part of it that runs under the mutex are two  *)
(* steps, so the clock may move while it waits for the lock; so may it     *)
(* between the moment a tick takes its time and its reads.  The clock is a *)
(* bounded integer and a sample keeps only what Read makes a number of.    *)
(***************************************************************************)
EXTENDS Naturals, Sequences, FiniteSets

CONSTANTS
  Recorder,    (* the goroutines that record                               *)
  Slice,       (* the slices of metrics this instance has                  *)
  Sample,      (* what a recorder may hand over                            *)
  Window,      (* metricsWindow                                            *)
  HighWater,   (* pruneHighWater                                           *)
  MaxClock,    (* bound: how far the clock runs                            *)
  MaxRecords,  (* bound: how many samples are recorded                     *)
  None

Slices == Slice \union {"runs"}

ASSUME WindowAssumption == Window \in Nat /\ HighWater \in Nat
ASSUME SliceAssumption  == Slice \subseteq {"completed", "waits", "rejected", "abandoned"}
ASSUME SampleAssumption ==
  /\ Sample \subseteq [slice : Slices, took : Nat, bad : BOOLEAN, degraded : BOOLEAN, rc : BOOLEAN]
  /\ None \notin Sample

VARIABLES
  clock,     (* m.now()                                                    *)
  kept,      (* the slices, oldest first: a stamp and the sample           *)
  calling,   (* the sample each recorder is about to record, or None       *)
  began,     (* the time at which its call began                           *)
  tick,      (* where the tick is: "idle", "metrics", "runs"               *)
  now,       (* the time it took when it began                             *)
  view,      (* the last metricsView                                       *)
  runView,   (* the last runView                                           *)
  history    (* everything ever recorded, in that order (auxiliary)        *)

vars == <<clock, kept, calling, began, tick, now, view, runView, history>>

Records == Cardinality({p \in Slices \X (1..MaxRecords) : p[2] <= Len(history[p[1]])})
           + Cardinality({r \in Recorder : calling[r] # None})

-----------------------------------------------------------------------------
(* pruneLocked drops the samples in front that are before the cutoff, and  *)
(* stops at the first that is not.  (now - window, without a negative time)*)
Live(entry, at) == entry.at + Window >= at
FirstLive(s, at) ==
  CHOOSE i \in 1..(Len(s) + 1) : /\ \A j \in 1..(i - 1) : ~Live(s[j], at)
                                 /\ i <= Len(s) => Live(s[i], at)
Prune(s, at) == SubSeq(s, FirstLive(s, at), Len(s))

(* The slices that share a struct, and so a mutex and a pruning.           *)
Owner(k) == IF k = "runs" THEN {"runs"} ELSE Slice
PruneOwner(k, slices, at) ==
  [j \in Slices |-> IF j \in Owner(k) THEN Prune(slices[j], at) ELSE slices[j]]

(* percentile, nearest rank: the value at the (1-based) rank ceil(p * n) of *)
(* the ascending order, clamped to the slice; p is in percent.             *)
RankOffByOne(p, n) == LET r == (p * n + 99) \div 100 IN
  IF r + 1 > n THEN n ELSE r + 1
Rank(p, n) == LET r == (p * n + 99) \div 100 IN
  IF r < 1 THEN 1 ELSE IF r > n THEN n ELSE r
Percentile(s, p) ==
  IF s = <<>> THEN 0
  ELSE CHOOSE v \in {s[i].sample.took : i \in 1..Len(s)} :
         /\ Cardinality({i \in 1..Len(s) : s[i].sample.took < v}) < Rank(p, Len(s))
         /\ Rank(p, Len(s)) <= Cardinality({i \in 1..Len(s) : s[i].sample.took <= v})

(* How many of a slice's samples are of a kind: of these priorities and so *)
(* ended, or degraded.                                                     *)
Ended(rcs, bads) == {x \in Sample : x.rc \in rcs /\ x.bad \in bads}
Degraded == {x \in Sample : x.degraded}
Count(s, kind) == Cardinality({i \in 1..Len(s) : s[i].sample \in kind})

(* Read's reduction: a rate is a numerator over all attempts, the mean wait *)
(* a sum over the number of waits.                                         *)
Held(slices, k) == IF k \in Slice THEN slices[k] ELSE <<>>
Size(slices, k) == Len(Held(slices, k))
Total(s) ==
  LET sum[i \in 0..Len(s)] == IF i = 0 THEN 0 ELSE sum[i - 1] + s[i].sample.took
  IN sum[Len(s)]
View(slices) ==
  LET done == Held(slices, "completed")
  IN [errored  |-> Count(done, Ended(BOOLEAN, {TRUE})), degraded |-> Count(done, Degraded),
      rejected |-> Size(slices, "rejected"), abandoned |-> Size(slices, "abandoned"),
      attempts |-> Size(slices, "completed") + Size(slices, "rejected") + Size(slices, "abandoned"),
      wait |-> <<Total(Held(slices, "waits")), Size(slices, "waits")>>,
      p50 |-> Percentile(done, 50), p95 |-> Percentile(done, 95)]

(* runMetrics.Read: successes and runs, per priority.                      *)
RunView(s) ==
  [rc |-> <<Count(s, Ended({TRUE}, {FALSE})), Count(s, Ended({TRUE}, BOOLEAN))>>,
   normal |-> <<Count(s, Ended({FALSE}, {FALSE})), Count(s, Ended({FALSE}, BOOLEAN))>>,
   p95 |-> Percentile(s, 95)]

Init ==
  /\ clock = 0
  /\ kept = [k \in Slices |-> <<>>]
  /\ calling = [r \in Recorder |-> None]
  /\ began = [r \in Recorder |-> 0]
  /\ tick = "idle" /\ now = 0
  /\ view = View(kept)
  /\ runView = RunView(<<>>)
  /\ history = kept

(* Time passes.                                                            *)
Advance ==
  /\ clock < MaxClock
  /\ clock' = clock + 1
  /\ UNCHANGED <<kept, calling, began, tick, now, view, runView, history>>

(* A worker, a refused caller or a finished run calls one of the Record    *)
(* functions and waits for the mutex.                                      *)
Call(r, s) ==
  /\ calling[r] = None
  /\ Records < MaxRecords
  /\ calling' = [calling EXCEPT ![r] = s]
  /\ began' = [began EXCEPT ![r] = clock]
  /\ UNCHANGED <<clock, kept, tick, now, view, runView, history>>

(* The stamp is taken under the mutex.                                     *)
StampOutside(r) == began[r]
Stamp(r) == clock

(* Append, and prune when the slice has grown beyond the high-water mark.  *)
Valve(slices, k, at) ==
  IF Len(slices[k]) > HighWater THEN PruneOwner(k, slices, at) ELSE slices
ValveSpared(slices, k, at) == slices
Record(r) ==
  /\ calling[r] # None
  /\ LET k == calling[r].slice
         entry == [at |-> Stamp(r), sample |-> calling[r]]
     IN /\ kept' = Valve([kept EXCEPT ![k] = Append(@, entry)], k, Stamp(r))
        /\ history' = [history EXCEPT ![k] = Append(@, entry)]
  /\ calling' = [calling EXCEPT ![r] = None]
  /\ UNCHANGED <<clock, began, tick, now, view, runView>>

(* tick takes its time once ...                                            *)
TickBegin ==
  /\ tick = "idle"
  /\ tick' = "metrics"
  /\ now' = clock
  /\ UNCHANGED <<clock, kept, calling, began, view, runView, history>>

(* ... and with it reads the service's window, then the runs'.             *)
ReadMetrics ==
  /\ tick = "metrics"
  /\ tick' = "runs"
  /\ kept' = [k \in Slices |-> IF k \in Slice THEN Prune(kept[k], now) ELSE kept[k]]
  /\ view' = View(kept')
  /\ UNCHANGED <<clock, calling, began, now, runView, history>>

ReadRuns ==
  /\ tick = "runs"
  /\ tick' = "idle"
  /\ kept' = PruneOwner("runs", kept, now)
  /\ runView' = RunView(kept'["runs"])
  /\ UNCHANGED <<clock, calling, began, now, view, history>>

Next ==
  \/ Advance
  \/ \E r \in Recorder, s \in Sample : Call(r, s)
  \/ \E r \in Recorder : Record(r)
  \/ TickBegin \/ ReadMetrics \/ ReadRuns

Spec == Init /\ [][Next]_vars

-----------------------------------------------------------------------------
(* A slice is the recent end of what was recorded in it, in the order of   *)
(* the stamps; nothing that is still in the window has been dropped by any *)
(* pruning, a recorder's or the tick's; and beyond the high-water mark it  *)
(* holds only samples that were live when the last of them was recorded,   *)
(* so a window nobody reads does not grow without bound (the comments on   *)
(* metrics).                                                               *)
Ordered(s) == \A i, j \in 1..Len(s) : i <= j => s[i].at <= s[j].at
Dropped(k) == Len(history[k]) - Len(kept[k])
WindowInv ==
  \A k \in Slices :
    /\ Len(kept[k]) <= Len(history[k])
    /\ \A i \in 1..Len(kept[k]) : kept[k][i] = history[k][Dropped(k) + i]
    /\ Ordered(history[k])
    /\ \A i \in 1..Len(history[k]) : history[k][i].at <= clock
    /\ \A i \in 1..Dropped(k) : ~Live(history[k][i], clock)
    /\ Len(kept[k]) > HighWater => Live(kept[k][1], kept[k][Len(kept[k])].at)

(* What a tick publishes counts every sample of the last window, none that *)
(* was older when the tick began, each once and under its own heading;     *)
(* half, or 95 percent, of the completed calls took no longer than the     *)
(* percentile says, which no smaller latency can claim; and the mean wait  *)
(* lies between two of the waits.                                          *)
InLast(k, kind, at) ==
  Cardinality({i \in 1..Len(history[k]) : Live(history[k][i], at) /\ history[k][i].sample \in kind})
Between(x, k, kind) == InLast(k, kind, clock) <= x /\ x <= InLast(k, kind, now)
NearestRank(v, p, s) ==
  LET n == Len(s)
      Within(x) == Cardinality({i \in 1..n : s[i].sample.took <= x})
  IN s # <<>> => /\ 100 * Within(v) >= p * n
                 /\ \A i \in 1..n : s[i].sample.took < v => 100 * Within(s[i].sample.took) < p * n
Mean(total, n, s) ==
  /\ n = Len(s)
  /\ s # <<>> => \E i, j \in 1..n : n * s[i].sample.took <= total /\ total <= n * s[j].sample.took

Reported(v) == [completed |-> v.attempts - v.rejected - v.abandoned, rejected |-> v.rejected,
                abandoned |-> v.abandoned, waits |-> v.wait[2]]
ViewIsHonest(v) ==
  /\ \A k \in Slice : Between(Reported(v)[k], k, Sample)
  /\ "completed" \in Slice => /\ Between(v.errored, "completed", Ended(BOOLEAN, {TRUE}))
                              /\ Between(v.degraded, "completed", Degraded)
RunViewIsHonest(v) ==
  /\ Between(v.rc[1], "runs", Ended({TRUE}, {FALSE}))
  /\ Between(v.normal[1], "runs", Ended({FALSE}, {FALSE}))
  /\ Between(v.rc[2], "runs", Ended({TRUE}, BOOLEAN))
  /\ Between(v.rc[2] + v.normal[2], "runs", Sample)
ReadIsHonest ==
  [][/\ tick = "metrics" /\ tick' = "runs" =>
          /\ ViewIsHonest(view')
          /\ NearestRank(view'.p50, 50, Held(kept', "completed"))
          /\ NearestRank(view'.p95, 95, Held(kept', "completed"))
          /\ Mean(view'.wait[1], view'.wait[2], Held(kept', "waits"))
     /\ tick = "runs" /\ tick' = "idle" =>
          /\ RunViewIsHonest(runView')
          /\ NearestRank(runView'.p95, 95, kept'["runs"])]_vars
=============================================================================
