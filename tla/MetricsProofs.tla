--------------------------- MODULE MetricsProofs ---------------------------
(***************************************************************************)
(* What pruning keeps and what a tick reads, for every window and every    *)
(* high-water mark: WindowInv is inductive, because the stamps of a slice  *)
(* are in order and no pruning is done at a time to come.                  *)
(***************************************************************************)
EXTENDS Metrics, SequenceTheorems, FiniteSetTheorems, WellFoundedInduction, TLAPS

Entry == [at : Nat, sample : Sample]

(* A nonempty set of numbers has a least one.                              *)
LEMMA LeastNat ==
  ASSUME NEW S \in SUBSET Nat, S # {}
  PROVE  \E m \in S : \A j \in S : m <= j
<1>1. PICK m \in S : \A j \in S : ~ (<<j, m>> \in OpToRel(<, Nat))
  BY NatLessThanWellFounded, WFMin
<1>2. \A j \in S : ~ (j < m)
  BY <1>1 DEF OpToRel
<1> QED BY <1>2

(* Pruning stops at the first entry that is in the window.                 *)
LEMMA PruneStops ==
  ASSUME NEW s \in Seq(Entry), NEW at \in Nat
  PROVE  \E f \in 1..(Len(s) + 1) :
           /\ Prune(s, at) = SubSeq(s, f, Len(s))
           /\ \A j \in 1..(f - 1) : ~Live(s[j], at)
           /\ f <= Len(s) => Live(s[f], at)
<1> DEFINE stops == {i \in 1..(Len(s) + 1) : i <= Len(s) => Live(s[i], at)}
           f == FirstLive(s, at)
<1>1. Len(s) \in Nat
  OBVIOUS
<1>2. stops \subseteq Nat /\ stops # {}
  BY <1>1
<1>3. PICK i \in stops : \A j \in stops : i <= j
  <2> HIDE DEF stops
  <2> QED BY <1>2, LeastNat
<1>4. \A j \in stops : ~ (j < i)
  BY <1>2, <1>3
<1>5. \A j \in 1..(i - 1) : ~Live(s[j], at)
  BY <1>1, <1>4
<1>6. /\ f \in 1..(Len(s) + 1)
      /\ \A j \in 1..(f - 1) : ~Live(s[j], at)
      /\ f <= Len(s) => Live(s[f], at)
  BY <1>5, <1>3 DEF FirstLive
<1> QED BY <1>6 DEF Prune

(* A slice s, what was ever recorded in it, h, at time c.                  *)
Recent(s, h, c) ==
  /\ Len(s) <= Len(h)
  /\ \A i \in 1..Len(s) : s[i] = h[(Len(h) - Len(s)) + i]
  /\ Ordered(h)
  /\ \A i \in 1..Len(h) : h[i].at <= c
  /\ \A i \in 1..(Len(h) - Len(s)) : ~Live(h[i], c)
Bounded(s) == Len(s) > HighWater => Live(s[1], s[Len(s)].at)

LEMMA WindowParts ==
  WindowInv <=> \A k \in Slices : Recent(kept[k], history[k], clock) /\ Bounded(kept[k])
<1>1. ASSUME NEW k \in Slices, Recent(kept[k], history[k], clock), Bounded(kept[k])
      PROVE  /\ Len(kept[k]) <= Len(history[k])
             /\ \A i \in 1..Len(kept[k]) : kept[k][i] = history[k][Dropped(k) + i]
             /\ Ordered(history[k])
             /\ \A i \in 1..Len(history[k]) : history[k][i].at <= clock
             /\ \A i \in 1..Dropped(k) : ~Live(history[k][i], clock)
             /\ Len(kept[k]) > HighWater => Live(kept[k][1], kept[k][Len(kept[k])].at)
  BY <1>1, Zenon DEF Recent, Bounded, Dropped
<1>2. ASSUME NEW k \in Slices, WindowInv
      PROVE  Recent(kept[k], history[k], clock) /\ Bounded(kept[k])
  BY <1>2, Zenon DEF WindowInv, Recent, Bounded, Dropped
<1>3. (\A k \in Slices : Recent(kept[k], history[k], clock) /\ Bounded(kept[k])) => WindowInv
  BY <1>1, Zenon DEF WindowInv
<1> QED BY <1>2, <1>3, Zenon

(* An entry that is out of the window stays out of it.                     *)
LEMMA LiveFades ==
  ASSUME NEW e \in Entry, NEW at \in Nat, NEW c \in Nat, at <= c, Live(e, c)
  PROVE  Live(e, at)
BY WindowAssumption DEF Live, Entry

(* What was recorded after a live entry is live.                           *)
LEMMA LiveLater ==
  ASSUME NEW e \in Entry, NEW f \in Entry, NEW at \in Nat, e.at <= f.at, Live(e, at)
  PROVE  Live(f, at)
BY WindowAssumption DEF Live, Entry

(* A slice is as ordered as its history.                                   *)
LEMMA RecentOrdered ==
  ASSUME NEW s \in Seq(Entry), NEW h \in Seq(Entry), NEW c \in Nat, Recent(s, h, c)
  PROVE  Ordered(s)
<1> SUFFICES ASSUME NEW i \in 1..Len(s), NEW j \in 1..Len(s), i <= j
             PROVE  s[i].at <= s[j].at
  BY DEF Ordered
<1> DEFINE d == Len(h) - Len(s)
<1>1. Len(s) \in Nat /\ Len(h) \in Nat /\ Len(s) <= Len(h)
  BY DEF Recent
<1>2. d + i \in 1..Len(h) /\ d + j \in 1..Len(h) /\ d + i <= d + j
  BY <1>1
<1>3. h[d + i].at <= h[d + j].at
  BY <1>2 DEF Recent, Ordered
<1> QED BY <1>3 DEF Recent

(* Pruning at a time that has come drops what no one will miss.            *)
LEMMA PruneKeeps ==
  ASSUME NEW s \in Seq(Entry), NEW h \in Seq(Entry), NEW c \in Nat, NEW at \in Nat,
         at <= c, Recent(s, h, c)
  PROVE  /\ Prune(s, at) \in Seq(Entry)
         /\ Recent(Prune(s, at), h, c)
         /\ Bounded(s) => Bounded(Prune(s, at))
         /\ s # <<>> /\ s[Len(s)].at = at => Bounded(Prune(s, at))
<1>1. PICK f \in 1..(Len(s) + 1) :
        /\ Prune(s, at) = SubSeq(s, f, Len(s))
        /\ \A j \in 1..(f - 1) : ~Live(s[j], at)
        /\ f <= Len(s) => Live(s[f], at)
  BY PruneStops
<1> DEFINE p == SubSeq(s, f, Len(s))
<1>2. Len(s) \in Nat /\ Len(h) \in Nat /\ Len(s) <= Len(h) /\ f \in Nat /\ f >= 1
  BY DEF Recent
<1>3. /\ p \in Seq(Entry)
      /\ Len(p) = (Len(s) - f) + 1
      /\ \A i \in 1..Len(p) : p[i] = s[(f + i) - 1]
  <2>1. \A i \in f..Len(s) : s[i] \in Entry
    BY <1>2
  <2>2. /\ p \in Seq(Entry)
        /\ Len(p) = IF f <= Len(s) THEN Len(s) - f + 1 ELSE 0
        /\ \A i \in 1..(Len(s) - f + 1) : p[i] = s[f + i - 1]
    BY <1>2, <2>1, SubSeqProperties
  <2> QED BY <1>2, <2>2
<1> HIDE DEF p
<1>4. Recent(p, h, c)
  <2>1. ASSUME NEW i \in 1..Len(p) PROVE p[i] = h[(Len(h) - Len(p)) + i]
    <3>1. (f + i) - 1 \in 1..Len(s)
      BY <1>2, <1>3
    <3>2. s[(f + i) - 1] = h[(Len(h) - Len(s)) + ((f + i) - 1)]
      BY <3>1 DEF Recent
    <3>3. (Len(h) - Len(s)) + ((f + i) - 1) = (Len(h) - Len(p)) + i
      BY <1>2, <1>3
    <3> QED BY <1>3, <3>2, <3>3
  <2>2. ASSUME NEW i \in 1..(Len(h) - Len(p)) PROVE ~Live(h[i], c)
    <3>1. CASE i <= Len(h) - Len(s)
      BY <1>2, <3>1 DEF Recent
    <3>2. CASE i > Len(h) - Len(s)
      <4> DEFINE j == i - (Len(h) - Len(s))
      <4>1. j \in 1..(f - 1) /\ j \in 1..Len(s) /\ (Len(h) - Len(s)) + j = i
        BY <1>2, <1>3, <3>2
      <4>2. s[j] = h[i] /\ s[j] \in Entry
        BY <4>1 DEF Recent
      <4>3. ~Live(s[j], at)
        BY <1>1, <4>1
      <4> QED BY <4>2, <4>3, LiveFades
    <3> QED BY <1>2, <3>1, <3>2
  <2> QED BY <1>2, <1>3, <2>1, <2>2 DEF Recent
<1>5. ASSUME Len(p) > 0
      PROVE  /\ p[1] = s[f] /\ p[Len(p)] = s[Len(s)] /\ f \in 1..Len(s) /\ Len(s) \in 1..Len(s)
             /\ Len(p) <= Len(s) /\ Live(s[f], at)
  <2>1. 1 \in 1..Len(p) /\ Len(p) \in 1..Len(p) /\ f <= Len(s)
    BY <1>2, <1>3, <1>5
  <2>2. (f + 1) - 1 = f /\ (f + Len(p)) - 1 = Len(s)
    BY <1>2, <1>3
  <2> QED BY <1>1, <1>2, <1>3, <2>1, <2>2
<1>6. ASSUME Bounded(s) PROVE Bounded(p)
  <2> SUFFICES ASSUME Len(p) > HighWater PROVE Live(p[1], p[Len(p)].at)
    BY DEF Bounded
  <2>1. Len(p) > 0 /\ Len(s) > HighWater
    BY <1>2, <1>3, WindowAssumption
  <2>2. Live(s[1], s[Len(s)].at) /\ 1 \in 1..Len(s)
    BY <1>2, <1>5, <1>6, <2>1 DEF Bounded
  <2>3. s[1].at <= s[f].at
    BY <1>2, <1>5, <2>1, <2>2, RecentOrdered DEF Ordered
  <2>4. s[1] \in Entry /\ s[f] \in Entry /\ s[Len(s)] \in Entry
    BY <1>5, <2>1, <2>2
  <2>5. Live(s[f], s[Len(s)].at)
    <3>1. s[Len(s)].at \in Nat
      BY <2>4 DEF Entry
    <3> QED BY <2>2, <2>3, <2>4, <3>1, LiveLater
  <2> QED BY <1>5, <2>1, <2>5
<1>7. ASSUME s # <<>>, s[Len(s)].at = at PROVE Bounded(p)
  BY <1>2, <1>3, <1>5, <1>7, WindowAssumption DEF Bounded
<1> QED BY <1>1, <1>3, <1>4, <1>6, <1>7 DEF p

(* Time passes.                                                            *)
LEMMA AdvanceKeeps ==
  ASSUME NEW s \in Seq(Entry), NEW h \in Seq(Entry), NEW c \in Nat, Recent(s, h, c)
  PROVE  Recent(s, h, c + 1)
<1>1. Len(s) \in Nat /\ Len(h) \in Nat /\ Len(s) <= Len(h)
  BY DEF Recent
<1>2. \A i \in 1..Len(h) : h[i] \in Entry
  OBVIOUS
<1>3. ASSUME NEW i \in 1..(Len(h) - Len(s)) PROVE ~Live(h[i], c + 1)
  <2>1. i \in 1..Len(h)
    BY <1>1
  <2> QED BY <1>2, <2>1, LiveFades DEF Recent
<1>4. ASSUME NEW i \in 1..Len(h) PROVE h[i].at <= c + 1
  <2>1. h[i].at \in Nat
    BY <1>2 DEF Entry
  <2> QED BY <2>1 DEF Recent
<1> QED BY <1>1, <1>3, <1>4 DEF Recent

(* A sample is appended to the slice and to its history.                   *)
LEMMA AppendKeeps ==
  ASSUME NEW s \in Seq(Entry), NEW h \in Seq(Entry), NEW c \in Nat, Recent(s, h, c),
         NEW e \in Entry, e.at = c
  PROVE  /\ Recent(Append(s, e), Append(h, e), c)
         /\ Append(s, e) \in Seq(Entry) /\ Append(h, e) \in Seq(Entry)
         /\ Append(s, e) # <<>> /\ Append(s, e)[Len(Append(s, e))].at = c
<1> DEFINE t == Append(s, e)
           g == Append(h, e)
<1>1. Len(s) \in Nat /\ Len(h) \in Nat /\ Len(s) <= Len(h)
  BY DEF Recent
<1>2. /\ t \in Seq(Entry) /\ t # <<>> /\ Len(t) = Len(s) + 1
      /\ \A i \in 1..Len(s) : t[i] = s[i]
      /\ t[Len(s) + 1] = e
  BY AppendProperties
<1>3. /\ g \in Seq(Entry) /\ Len(g) = Len(h) + 1
      /\ \A i \in 1..Len(h) : g[i] = h[i]
      /\ g[Len(h) + 1] = e
  BY AppendProperties
<1> HIDE DEF t, g
<1>4. ASSUME NEW i \in 1..Len(t) PROVE t[i] = g[(Len(g) - Len(t)) + i]
  <2>1. CASE i <= Len(s)
    <3>1. i \in 1..Len(s) /\ (Len(h) - Len(s)) + i \in 1..Len(h)
      BY <1>1, <2>1
    <3>2. (Len(g) - Len(t)) + i = (Len(h) - Len(s)) + i
      BY <1>1, <1>2, <1>3
    <3> QED BY <1>2, <1>3, <3>1, <3>2 DEF Recent
  <2>2. CASE i = Len(s) + 1
    <3>1. (Len(g) - Len(t)) + i = Len(h) + 1
      BY <1>1, <1>2, <1>3, <2>2
    <3> QED BY <1>2, <1>3, <2>2, <3>1
  <2> QED BY <1>1, <1>2, <2>1, <2>2
<1>0. /\ \A i \in 1..Len(h) : h[i].at <= c
      /\ \A i, j \in 1..Len(h) : i <= j => h[i].at <= h[j].at
      /\ \A i \in 1..(Len(h) - Len(s)) : ~Live(h[i], c)
  BY Zenon DEF Recent, Ordered
<1>5. ASSUME NEW i \in 1..Len(g) PROVE g[i].at <= c
  <2>1. CASE i \in 1..Len(h)
    BY <1>0, <1>3, <2>1
  <2>2. CASE i = Len(h) + 1
    BY <1>3, <2>2
  <2> QED BY <1>1, <1>3, <2>1, <2>2
<1>6. Ordered(g)
  <2> SUFFICES ASSUME NEW i \in 1..Len(g), NEW j \in 1..Len(g), i <= j
               PROVE  g[i].at <= g[j].at
    BY DEF Ordered
  <2>1. CASE j <= Len(h)
    <3>1. i \in 1..Len(h) /\ j \in 1..Len(h)
      BY <1>1, <1>3, <2>1
    <3> QED BY <1>0, <1>3, <3>1
  <2>2. CASE j = Len(h) + 1
    BY <1>3, <1>5, <2>2
  <2> QED BY <1>1, <1>3, <2>1, <2>2
<1>7. ASSUME NEW i \in 1..(Len(g) - Len(t)) PROVE ~Live(g[i], c)
  <2>1. i \in 1..(Len(h) - Len(s)) /\ i \in 1..Len(h)
    BY <1>1, <1>2, <1>3
  <2> QED BY <1>0, <1>3, <2>1
<1>8. Recent(t, g, c)
  BY <1>1, <1>2, <1>3, <1>4, <1>5, <1>6, <1>7 DEF Recent
<1> QED BY <1>2, <1>3, <1>8 DEF t, g
-----------------------------------------------------------------------------
IInv ==
  /\ clock \in Nat /\ now \in Nat /\ now <= clock
  /\ kept \in [Slices -> Seq(Entry)] /\ history \in [Slices -> Seq(Entry)]
  /\ calling \in [Recorder -> Sample \union {None}]
  /\ \A k \in Slices : Recent(kept[k], history[k], clock) /\ Bounded(kept[k])

LEMMA InitHolds == Init => IInv
<1> SUFFICES ASSUME Init PROVE IInv
  OBVIOUS
<1>1. <<>> \in Seq(Entry) /\ Len(<<>>) = 0
  OBVIOUS
<1>2. kept = [k \in Slices |-> <<>>] /\ history = [k \in Slices |-> <<>>]
  BY DEF Init
<1>3. \A k \in Slices : kept[k] = <<>> /\ history[k] = <<>>
  BY <1>2
<1>4. ASSUME NEW k \in Slices PROVE Recent(kept[k], history[k], clock) /\ Bounded(kept[k])
  <2>1. Len(kept[k]) = 0 /\ Len(history[k]) = 0
    BY <1>1, <1>3
  <2> QED BY <2>1, WindowAssumption DEF Recent, Bounded, Ordered
<1>5. kept \in [Slices -> Seq(Entry)] /\ history \in [Slices -> Seq(Entry)]
  BY <1>1, <1>2
<1> QED BY <1>4, <1>5 DEF Init, IInv

(* A recorder, with the valve.                                             *)
LEMMA RecordKeeps ==
  ASSUME IInv, NEW r \in Recorder, Record(r)
  PROVE  IInv'
<1> DEFINE k == calling[r].slice
           e == [at |-> clock, sample |-> calling[r]]
           appended == [kept EXCEPT ![k] = Append(@, e)]
<1>1. calling[r] \in Sample /\ k \in Slices /\ e \in Entry /\ e.at = clock
  BY SampleAssumption DEF IInv, Record, Entry
<1>2. /\ kept' = Valve(appended, k, clock)
      /\ history' = [history EXCEPT ![k] = Append(@, e)]
      /\ calling' = [calling EXCEPT ![r] = None]
      /\ clock' = clock /\ now' = now
  BY DEF Record, Stamp
<1> HIDE DEF k, e
<1>3. clock \in Nat /\ kept[k] \in Seq(Entry) /\ history[k] \in Seq(Entry)
      /\ Recent(kept[k], history[k], clock)
  BY <1>1 DEF IInv
<1>4. /\ Recent(Append(kept[k], e), Append(history[k], e), clock)
      /\ Append(kept[k], e) \in Seq(Entry) /\ Append(history[k], e) \in Seq(Entry)
      /\ Append(kept[k], e) # <<>> /\ Append(kept[k], e)[Len(Append(kept[k], e))].at = clock
  BY <1>1, <1>3, AppendKeeps
<1>5. \A j \in Slices : /\ appended[j] = IF j = k THEN Append(kept[k], e) ELSE kept[j]
                        /\ history'[j] = IF j = k THEN Append(history[k], e) ELSE history[j]
  BY <1>1, <1>2 DEF IInv
<1>6. appended \in [Slices -> Seq(Entry)] /\ history' \in [Slices -> Seq(Entry)]
  BY <1>1, <1>2, <1>4 DEF IInv
<1> HIDE DEF appended
<1>7. \A j \in Slices : Recent(appended[j], history'[j], clock)
  BY <1>4, <1>5, Zenon DEF IInv
<1>8. \A j \in Slices : j # k => Bounded(appended[j])
  BY <1>5, Zenon DEF IInv
<1>9. /\ kept' \in [Slices -> Seq(Entry)]
      /\ \A j \in Slices : Recent(kept'[j], history'[j], clock) /\ Bounded(kept'[j])
  <2>1. CASE Len(appended[k]) > HighWater
    <3>1. kept' = [j \in Slices |-> IF j \in Owner(k) THEN Prune(appended[j], clock) ELSE appended[j]]
      BY <1>2, <2>1 DEF Valve, PruneOwner
    <3>2. ASSUME NEW j \in Slices
          PROVE  /\ Prune(appended[j], clock) \in Seq(Entry)
                 /\ Recent(Prune(appended[j], clock), history'[j], clock)
                 /\ Bounded(Prune(appended[j], clock))
      <4>1. appended[j] \in Seq(Entry) /\ history'[j] \in Seq(Entry)
        BY <1>6
      <4>2. /\ Prune(appended[j], clock) \in Seq(Entry)
            /\ Recent(Prune(appended[j], clock), history'[j], clock)
            /\ Bounded(appended[j]) => Bounded(Prune(appended[j], clock))
            /\ appended[j] # <<>> /\ appended[j][Len(appended[j])].at = clock
                 => Bounded(Prune(appended[j], clock))
        BY <1>3, <1>7, <4>1, PruneKeeps
      <4> QED BY <1>4, <1>5, <1>8, <4>2
    <3>3. k \in Owner(k)
      BY <1>1 DEF Owner, Slices
    <3>4. ASSUME NEW j \in Slices
          PROVE  kept'[j] \in Seq(Entry) /\ Recent(kept'[j], history'[j], clock) /\ Bounded(kept'[j])
      <4>1. CASE j \in Owner(k)
        BY <3>1, <3>2, <4>1
      <4>2. CASE j \notin Owner(k)
        BY <1>6, <1>7, <1>8, <3>1, <3>3, <4>2
      <4> QED BY <4>1, <4>2
    <3> QED BY <3>1, <3>4
  <2>2. CASE ~(Len(appended[k]) > HighWater)
    <3>1. kept' = appended
      BY <1>2, <2>2 DEF Valve
    <3>2. Bounded(appended[k])
      BY <2>2 DEF Bounded
    <3> QED BY <1>6, <1>7, <1>8, <3>1, <3>2
  <2> QED BY <2>1, <2>2
<1> QED BY <1>2, <1>6, <1>9 DEF IInv

(* The tick's reads.                                                       *)
LEMMA PrunedKeeps ==
  ASSUME IInv, NEW S, kept' = [k \in Slices |-> IF k \in S THEN Prune(kept[k], now) ELSE kept[k]],
         UNCHANGED <<clock, now, calling, history>>
  PROVE  IInv'
<1>1. ASSUME NEW k \in Slices
      PROVE  kept'[k] \in Seq(Entry) /\ Recent(kept'[k], history[k], clock) /\ Bounded(kept'[k])
  <2>1. kept[k] \in Seq(Entry) /\ history[k] \in Seq(Entry)
        /\ Recent(kept[k], history[k], clock) /\ Bounded(kept[k])
    BY DEF IInv
  <2>2. /\ Prune(kept[k], now) \in Seq(Entry)
        /\ Recent(Prune(kept[k], now), history[k], clock)
        /\ Bounded(Prune(kept[k], now))
    BY <2>1, PruneKeeps DEF IInv
  <2> QED BY <2>1, <2>2
<1>2. kept' \in [Slices -> Seq(Entry)]
  BY <1>1
<1> QED BY <1>1, <1>2 DEF IInv

LEMMA NextHolds == IInv /\ [Next]_vars => IInv'
<1> SUFFICES ASSUME IInv, [Next]_vars PROVE IInv'
  OBVIOUS
<1>1. CASE Advance
  <2>1. \A k \in Slices : Recent(kept[k], history[k], clock + 1)
    BY AdvanceKeeps DEF IInv
  <2> QED BY <1>1, <2>1 DEF Advance, IInv
<1>2. ASSUME NEW r \in Recorder, NEW s \in Sample, Call(r, s) PROVE IInv'
  BY <1>2 DEF Call, IInv
<1>3. ASSUME NEW r \in Recorder, Record(r) PROVE IInv'
  BY <1>3, RecordKeeps
<1>4. CASE TickBegin
  BY <1>4 DEF TickBegin, IInv
<1>5. CASE ReadMetrics
  BY <1>5, PrunedKeeps DEF ReadMetrics
<1>6. CASE ReadRuns
  BY <1>6, PrunedKeeps DEF ReadRuns, PruneOwner
<1>7. CASE UNCHANGED vars
  BY <1>7 DEF vars, IInv
<1> QED BY <1>1, <1>2, <1>3, <1>4, <1>5, <1>6, <1>7 DEF Next

(* A window is the recent end of what was recorded, in order; nothing live *)
(* has been dropped from it, and beyond the high-water mark nothing dead   *)
(* was kept (pruneLocked, metrics.go 105), whatever the window, the mark   *)
(* and the order in which recorders and ticks get the lock.                *)
THEOREM Windowed == Spec => []WindowInv
<1>1. IInv => WindowInv
  BY WindowParts DEF IInv
<1> QED BY <1>1, InitHolds, NextHolds, PTL DEF Spec
-----------------------------------------------------------------------------
(* What a tick reads of a window: what it counts, and its percentiles.     *)

(* A set of entries has one that took longest: one at or below which most  *)
(* of them are.                                                            *)
Took(s, i) == s[i].sample.took
Within(s, x) == {i \in 1..Len(s) : Took(s, i) <= x}
Quicker(s, x) == {i \in 1..Len(s) : Took(s, i) < x}

LEMMA TookFacts ==
  ASSUME NEW s \in Seq(Entry)
  PROVE  /\ Len(s) \in Nat /\ IsFiniteSet(1..Len(s)) /\ Cardinality(1..Len(s)) = Len(s)
         /\ \A i \in 1..Len(s) : Took(s, i) \in Nat
         /\ \A I \in SUBSET (1..Len(s)) :
              IsFiniteSet(I) /\ Cardinality(I) \in Nat /\ Cardinality(I) <= Len(s)
<1>1. Len(s) \in Nat
  OBVIOUS
<1>2. IsFiniteSet(1..Len(s)) /\ Cardinality(1..Len(s)) = Len(s)
  <2>1. \A n \in Nat : IsFiniteSet(1..n) /\ Cardinality(1..n) = n
    BY FS_Interval
  <2> QED BY <1>1, <2>1, Zenon
<1>3. ASSUME NEW i \in 1..Len(s) PROVE Took(s, i) \in Nat
  <2>1. s[i] \in Entry
    OBVIOUS
  <2>2. s[i].sample \in Sample
    BY <2>1 DEF Entry
  <2>3. s[i].sample \in [slice : Slices, took : Nat, bad : BOOLEAN, degraded : BOOLEAN, rc : BOOLEAN]
    BY <2>2, SampleAssumption
  <2>4. s[i].sample.took \in Nat
    BY <2>3
  <2> QED BY <2>4 DEF Took
<1>4. ASSUME NEW I \in SUBSET (1..Len(s))
      PROVE  IsFiniteSet(I) /\ Cardinality(I) \in Nat /\ Cardinality(I) <= Len(s)
  BY <1>2, FS_Subset, FS_CardinalityType
<1> QED BY <1>1, <1>2, <1>3, <1>4

LEMMA Longest ==
  ASSUME NEW s \in Seq(Entry), NEW I \in SUBSET (1..Len(s)), I # {}
  PROVE  \E j \in I : \A i \in I : Took(s, i) <= Took(s, j)
<1> DEFINE Low(j) == {i \in I : Took(s, i) <= Took(s, j)}
           gaps == {Len(s) - Cardinality(Low(j)) : j \in I}
<1>1. \A j \in I : /\ IsFiniteSet(Low(j)) /\ Cardinality(Low(j)) \in Nat
                   /\ Cardinality(Low(j)) <= Len(s) /\ Len(s) - Cardinality(Low(j)) \in Nat
  <2>1. \A j \in I : Low(j) \in SUBSET (1..Len(s))
    OBVIOUS
  <2> HIDE DEF Low
  <2> QED BY <2>1, TookFacts
<1>2. gaps \subseteq Nat /\ gaps # {}
  <2> HIDE DEF Low
  <2> QED BY <1>1
<1>3. PICK m \in gaps : \A k \in gaps : m <= k
  <2> HIDE DEF gaps
  <2> QED BY <1>2, LeastNat
<1>4. PICK j \in I : m = Len(s) - Cardinality(Low(j))
  <2> HIDE DEF Low
  <2> QED OBVIOUS
<1>5. ASSUME NEW i \in I, ~(Took(s, i) <= Took(s, j)) PROVE FALSE
  <2>1. Took(s, i) \in Nat /\ Took(s, j) \in Nat /\ \A k \in I : Took(s, k) \in Nat
    BY TookFacts
  <2>2. Low(j) \subseteq Low(i) \ {i} /\ i \in Low(i)
    <3>1. i \in Low(i)
      BY <2>1
    <3>2. ASSUME NEW k \in Low(j) PROVE k \in Low(i) /\ k # i
      <4>1. k \in I /\ Took(s, k) <= Took(s, j) /\ Took(s, k) \in Nat
        BY <2>1
      <4>2. Took(s, k) <= Took(s, i)
        BY <1>5, <2>1, <4>1
      <4> QED BY <1>5, <4>1, <4>2
    <3> QED BY <3>1, <3>2
  <2> HIDE DEF Low
  <2>3. Cardinality(Low(i) \ {i}) = Cardinality(Low(i)) - 1 /\ IsFiniteSet(Low(i) \ {i})
    BY <1>1, <2>2, FS_RemoveElement
  <2>4. Cardinality(Low(j)) <= Cardinality(Low(i)) - 1
    <3>1. Low(j) \in SUBSET (Low(i) \ {i})
      BY <2>2
    <3> QED BY <2>3, <3>1, FS_Subset
  <2>5. Len(s) - Cardinality(Low(j)) <= Len(s) - Cardinality(Low(i))
    <3>1. Len(s) - Cardinality(Low(i)) \in gaps
      OBVIOUS
    <3> HIDE DEF gaps
    <3> QED BY <1>3, <1>4, <3>1
  <2>6. Len(s) \in Nat /\ Cardinality(Low(i)) \in Nat /\ Cardinality(Low(j)) \in Nat
    BY <1>1
  <2> QED BY <2>4, <2>5, <2>6
<1> QED BY <1>5

(* There is a value at every rank, so percentile finds one: the least of   *)
(* which enough entries are within.                                        *)
LEMMA RankHasValue ==
  ASSUME NEW s \in Seq(Entry), NEW r \in 1..Len(s)
  PROVE  \E v \in {Took(s, i) : i \in 1..Len(s)} :
           Cardinality(Quicker(s, v)) < r /\ r <= Cardinality(Within(s, v))
<1> DEFINE enough == {i \in 1..Len(s) : r <= Cardinality(Within(s, Took(s, i)))}
           values == {Took(s, i) : i \in enough}
<1>0. \A i \in 1..Len(s) : Took(s, i) \in Nat
  BY TookFacts
<1>1. enough # {}
  <2>1. 1..Len(s) # {}
    OBVIOUS
  <2>2. PICK j \in 1..Len(s) : \A i \in 1..Len(s) : Took(s, i) <= Took(s, j)
    BY <2>1, Longest
  <2>3. Within(s, Took(s, j)) = 1..Len(s)
    BY <2>2 DEF Within
  <2> QED BY <2>2, <2>3, TookFacts
<1>2. values \subseteq Nat /\ values # {}
  <2>1. \A i \in enough : i \in 1..Len(s)
    OBVIOUS
  <2> HIDE DEF enough
  <2> QED BY <1>0, <1>1, <2>1
<1>3. PICK v \in values : \A w \in values : v <= w
  <2> HIDE DEF values
  <2> QED BY <1>2, LeastNat
<1>4. PICK k \in enough : v = Took(s, k)
  <2> HIDE DEF enough
  <2> QED OBVIOUS
<1>5. k \in 1..Len(s) /\ r <= Cardinality(Within(s, v)) /\ v \in Nat
  BY <1>0, <1>4
<1>6. Cardinality(Quicker(s, v)) < r
  <2>1. CASE Quicker(s, v) = {}
    BY <2>1, FS_EmptySet
  <2>2. CASE Quicker(s, v) # {}
    <3>1. Quicker(s, v) \in SUBSET (1..Len(s))
      BY DEF Quicker
    <3>2. PICK j \in Quicker(s, v) : \A i \in Quicker(s, v) : Took(s, i) <= Took(s, j)
      BY <2>2, <3>1, Longest
    <3>3. j \in 1..Len(s) /\ Took(s, j) < v /\ Took(s, j) \in Nat
      BY <1>0, <3>2 DEF Quicker
    <3>4. j \notin enough
      <4> SUFFICES ASSUME j \in enough PROVE FALSE
        OBVIOUS
      <4>1. Took(s, j) \in values
        <5> HIDE DEF enough
        <5> QED OBVIOUS
      <4> QED BY <1>3, <1>5, <3>3, <4>1
    <3>5. ~(r <= Cardinality(Within(s, Took(s, j))))
      BY <3>3, <3>4
    <3>6. Quicker(s, v) \subseteq Within(s, Took(s, j)) /\ Within(s, Took(s, j)) \in SUBSET (1..Len(s))
      BY <3>2 DEF Quicker, Within
    <3>7. Cardinality(Quicker(s, v)) <= Cardinality(Within(s, Took(s, j)))
      BY <3>6, TookFacts, FS_Subset
    <3>8. Cardinality(Quicker(s, v)) \in Nat /\ Cardinality(Within(s, Took(s, j))) \in Nat
      BY <3>1, <3>6, TookFacts
    <3> QED BY <3>5, <3>7, <3>8
  <2> QED BY <2>1, <2>2
<1>7. v \in {Took(s, i) : i \in 1..Len(s)}
  BY <1>4, <1>5
<1> QED BY <1>5, <1>6, <1>7

(* The rank is in the slice, and is the p-th percent of it, rounded up.    *)
RankOf(r, p, n) == r \in 1..n /\ 100 * r >= p * n /\ 100 * (r - 1) < p * n
LEMMA RankFacts ==
  ASSUME NEW n \in Nat \ {0}, NEW p \in {50, 95}
  PROVE  RankOf(Rank(p, n), p, n)
<1> USE DEF RankOf
<1>1. CASE p = 50
  <2> DEFINE q == (50 * n + 99) \div 100
  <2>1. q \in Nat /\ 100 * q <= 50 * n + 99 /\ 50 * n + 99 < 100 * q + 100
    OBVIOUS
  <2>2. Rank(p, n) = IF q < 1 THEN 1 ELSE IF q > n THEN n ELSE q
    BY <1>1 DEF Rank
  <2> HIDE DEF q
  <2> QED BY <1>1, <2>1, <2>2
<1>2. CASE p = 95
  <2> DEFINE q == (95 * n + 99) \div 100
  <2>1. q \in Nat /\ 100 * q <= 95 * n + 99 /\ 95 * n + 99 < 100 * q + 100
    OBVIOUS
  <2>2. Rank(p, n) = IF q < 1 THEN 1 ELSE IF q > n THEN n ELSE q
    BY <1>2 DEF Rank
  <2> HIDE DEF q
  <2> QED BY <1>2, <2>1, <2>2
<1> QED BY <1>1, <1>2
(* What the percentile at 50 and 95 percent says, of any slice.            *)
LEMMA PercentileHonest ==
  ASSUME NEW s \in Seq(Entry), NEW p \in {50, 95}
  PROVE  NearestRank(Percentile(s, p), p, s)
<1> SUFFICES ASSUME s # <<>> PROVE NearestRank(Percentile(s, p), p, s)
  BY DEF NearestRank
<1> DEFINE v == Percentile(s, p)
           r == Rank(p, Len(s))
<1>1. Len(s) \in Nat \ {0}
  OBVIOUS
<1>2. RankOf(r, p, Len(s))
  BY <1>1, RankFacts, Zenon
<1> HIDE DEF r
<1>0. r \in 1..Len(s) /\ 100 * r >= p * Len(s) /\ 100 * (r - 1) < p * Len(s)
  BY <1>2, Zenon DEF RankOf
<1>3. \E w \in {Took(s, i) : i \in 1..Len(s)} :
        Cardinality(Quicker(s, w)) < r /\ r <= Cardinality(Within(s, w))
  BY <1>0, RankHasValue
<1>4. v = CHOOSE w \in {Took(s, i) : i \in 1..Len(s)} :
            Cardinality(Quicker(s, w)) < r /\ r <= Cardinality(Within(s, w))
  BY Zenon DEF Percentile, Took, Quicker, Within, r
<1> HIDE DEF v
<1>5. /\ v \in {Took(s, i) : i \in 1..Len(s)}
      /\ Cardinality(Quicker(s, v)) < r /\ r <= Cardinality(Within(s, v))
  <2> DEFINE values == {Took(s, i) : i \in 1..Len(s)}
  <2> HIDE DEF values
  <2> QED BY <1>3, <1>4, Zenon
<1>6. v \in Nat
  BY <1>5, TookFacts
<1>7. Within(s, v) \in SUBSET (1..Len(s)) /\ Quicker(s, v) \in SUBSET (1..Len(s))
  BY DEF Within, Quicker
<1>8. Cardinality(Within(s, v)) \in Nat /\ Cardinality(Quicker(s, v)) \in Nat
  BY <1>7, TookFacts
<1>9. 100 * Cardinality(Within(s, v)) >= p * Len(s)
  <2> DEFINE w == Cardinality(Within(s, v))
             n == p * Len(s)
  <2>1. r \in Nat /\ r <= w /\ w \in Nat /\ 100 * r >= n /\ n \in Int
    BY <1>0, <1>1, <1>5, <1>8
  <2> HIDE DEF w, n
  <2>2. 100 * w >= n
    BY <2>1
  <2> QED BY <2>2 DEF w, n
<1>10. ASSUME NEW i \in 1..Len(s), Took(s, i) < v
       PROVE  100 * Cardinality(Within(s, Took(s, i))) < p * Len(s)
  <2> DEFINE w == Cardinality(Within(s, Took(s, i)))
             q == Cardinality(Quicker(s, v))
             n == p * Len(s)
  <2>1. Took(s, i) \in Nat /\ \A j \in 1..Len(s) : Took(s, j) \in Nat
    BY TookFacts
  <2>2. Within(s, Took(s, i)) \subseteq Quicker(s, v)
    BY <1>6, <1>10, <2>1 DEF Within, Quicker
  <2>3. w <= q
    BY <1>7, <2>2, TookFacts, FS_Subset
  <2>4. w \in Nat /\ q \in Nat
    BY <1>7, <2>2, TookFacts
  <2>5. q < r /\ r \in Nat /\ 100 * (r - 1) < n /\ n \in Int
    BY <1>0, <1>1, <1>5
  <2> HIDE DEF w, q, n
  <2>6. 100 * w < n
    BY <2>3, <2>4, <2>5
  <2> QED BY <2>6 DEF w, n
<1> QED BY <1>9, <1>10, Zenon DEF NearestRank, Within, Took, v

(* A pruning at a time that has come leaves, of every kind of sample, all  *)
(* that is live then, and nothing that was dead at its own time.           *)
Alive(h, kind, at) == {i \in 1..Len(h) : Live(h[i], at) /\ h[i].sample \in kind}
LEMMA PruneCounts ==
  ASSUME NEW s \in Seq(Entry), NEW h \in Seq(Entry), NEW c \in Nat, NEW at \in Nat,
         at <= c, Recent(s, h, c), NEW kind
  PROVE  /\ Cardinality(Alive(h, kind, c)) <= Count(Prune(s, at), kind)
         /\ Count(Prune(s, at), kind) <= Cardinality(Alive(h, kind, at))
<1> DEFINE p == Prune(s, at)
           d == Len(h) - Len(p)
<1>1. p \in Seq(Entry) /\ Recent(p, h, c)
  BY PruneKeeps
<1>2. Len(p) \in Nat /\ Len(h) \in Nat /\ Len(p) <= Len(h) /\ d \in Nat /\ d = Len(h) - Len(p)
  <2> HIDE DEF p
  <2> QED BY <1>1 DEF Recent
<1>3. p = <<>> \/ (1 \in 1..Len(p) /\ Live(p[1], at))
  <2>1. PICK f \in 1..(Len(s) + 1) :
          /\ p = SubSeq(s, f, Len(s))
          /\ f <= Len(s) => Live(s[f], at)
    BY PruneStops
  <2>2. /\ Len(p) = IF f <= Len(s) THEN Len(s) - f + 1 ELSE 0
        /\ \A i \in 1..(Len(s) - f + 1) : p[i] = s[f + i - 1]
    BY <2>1, SubSeqProperties
  <2> HIDE DEF p
  <2>3. CASE f <= Len(s)
    <3>1. 1 \in 1..(Len(s) - f + 1) /\ f + 1 - 1 = f /\ Len(p) = Len(s) - f + 1
      BY <2>2, <2>3
    <3> QED BY <2>1, <2>2, <2>3, <3>1
  <2>4. CASE ~(f <= Len(s))
    BY <1>1, <2>2, <2>4
  <2> QED BY <2>3, <2>4
<1> HIDE DEF p, d
<1>4. \A i \in (d + 1)..Len(h) : i - d \in 1..Len(p) /\ h[i] = p[i - d]
  <2> SUFFICES ASSUME NEW i \in (d + 1)..Len(h)
               PROVE  i - d \in 1..Len(p) /\ h[i] = p[i - d]
    OBVIOUS
  <2>1. i - d \in 1..Len(p) /\ d + (i - d) = i
    BY <1>2
  <2>2. p[i - d] = h[(Len(h) - Len(p)) + (i - d)]
    BY <1>1, <2>1 DEF Recent
  <2> QED BY <2>1, <2>2, <1>2
<1> DEFINE own  == {i \in 1..Len(p) : p[i].sample \in kind}
           tail == {i \in (d + 1)..Len(h) : h[i].sample \in kind}
<1>5. IsFiniteSet(own) /\ Cardinality(tail) = Cardinality(own) /\ IsFiniteSet(tail)
  <2>1. IsFiniteSet(own)
    <3>1. own \in SUBSET (1..Len(p))
      OBVIOUS
    <3> QED BY <1>1, <3>1, TookFacts
  <2> DEFINE shift == [i \in own |-> d + i]
  <2>2. ASSUME NEW i \in own PROVE d + i \in tail
    <3>1. i \in 1..Len(p) /\ d + i \in (d + 1)..Len(h) /\ (d + i) - d = i
      BY <1>2
    <3> QED BY <1>4, <3>1
  <2>3. ASSUME NEW j \in tail PROVE \E i \in own : d + i = j
    <3>1. j - d \in own /\ d + (j - d) = j
      BY <1>2, <1>4
    <3> QED BY <3>1
  <2>4. \A i \in own : i \in Nat
    OBVIOUS
  <2> HIDE DEF own, tail
  <2>5. shift \in Injection(own, tail)
    <3>1. shift \in [own -> tail]
      BY <2>2
    <3>2. ASSUME NEW i \in own, NEW j \in own, shift[i] = shift[j] PROVE i = j
      BY <1>2, <2>4, <3>2
    <3> HIDE DEF shift
    <3> QED BY <3>1, <3>2 DEF Injection, IsInjective
  <2>6. shift \in Surjection(own, tail)
    <3>1. shift \in [own -> tail]
      BY <2>2
    <3>2. \A j \in tail : \E i \in own : shift[i] = j
      BY <2>3
    <3> HIDE DEF shift
    <3> QED BY <3>1, <3>2 DEF Surjection
  <2>7. ExistsBijection(own, tail)
    <3> HIDE DEF shift
    <3> QED BY <2>5, <2>6 DEF ExistsBijection, Bijection
  <2> QED BY <2>1, <2>7, FS_Bijection
<1>6. Alive(h, kind, c) \subseteq tail
  <2> SUFFICES ASSUME NEW i \in 1..Len(h), Live(h[i], c), ~(i >= d + 1) PROVE FALSE
    BY <1>2 DEF Alive
  <2>1. i \in 1..(Len(h) - Len(p))
    BY <1>2
  <2> QED BY <1>1, <2>1 DEF Recent
<1>7. tail \subseteq Alive(h, kind, at)
  <2> SUFFICES ASSUME NEW i \in (d + 1)..Len(h) PROVE i \in 1..Len(h) /\ Live(h[i], at)
    BY DEF Alive
  <2>1. i \in 1..Len(h) /\ i - d \in 1..Len(p) /\ h[i] = p[i - d]
    BY <1>2, <1>4
  <2>2. 1 \in 1..Len(p) /\ Live(p[1], at) /\ 1 <= i - d
    BY <1>2, <1>3, <2>1
  <2>3. p[1].at <= p[i - d].at
    BY <1>1, <2>1, <2>2, RecentOrdered DEF Ordered
  <2>4. p[1] \in Entry /\ p[i - d] \in Entry
    BY <1>1, <2>1, <2>2
  <2>5. Live(p[i - d], at)
    BY <2>2, <2>3, <2>4, LiveLater
  <2> QED BY <2>1, <2>5
<1>8. IsFiniteSet(Alive(h, kind, at))
  <2>1. Alive(h, kind, at) \in SUBSET (1..Len(h))
    BY DEF Alive
  <2> QED BY <2>1, TookFacts, Zenon
<1>9. Count(p, kind) = Cardinality(tail)
  BY <1>5 DEF Count
<1> HIDE DEF own, tail
<1>10. Cardinality(Alive(h, kind, c)) <= Cardinality(tail)
  BY <1>5, <1>6, FS_Subset
<1>11. Cardinality(tail) <= Cardinality(Alive(h, kind, at))
  BY <1>7, <1>8, FS_Subset
<1> QED BY <1>9, <1>10, <1>11 DEF p

(* Every entry is of the kind Sample.                                      *)
LEMMA CountAll ==
  ASSUME NEW s \in Seq(Entry)
  PROVE  Count(s, Sample) = Len(s)
<1>1. ASSUME NEW i \in 1..Len(s) PROVE s[i].sample \in Sample
  <2>1. s[i] \in Entry
    OBVIOUS
  <2> QED BY <2>1 DEF Entry
<1>2. {i \in 1..Len(s) : s[i].sample \in Sample} = 1..Len(s)
  BY <1>1, Zenon
<1> QED BY <1>2, TookFacts DEF Count
-----------------------------------------------------------------------------
(* The sum of the waits: what Total chooses exists, and lies between as    *)
(* many times the least of them and as many times the greatest.            *)
Sums(s, sum) == sum = [i \in 0..Len(s) |-> IF i = 0 THEN 0 ELSE sum[i - 1] + Took(s, i)]
SumsUpTo(s, n, g) == g[0] = 0 /\ \A i \in 1..n : g[i] = g[i - 1] + Took(s, i)

LEMMA SumExists ==
  ASSUME NEW s \in Seq(Entry)
  PROVE  \E g : Sums(s, g)
<1> DEFINE missing == {n \in 0..Len(s) : ~ \E g \in [0..n -> Nat] : SumsUpTo(s, n, g)}
<1>1. Len(s) \in Nat /\ \A i \in 1..Len(s) : Took(s, i) \in Nat
  BY TookFacts
<1>2. missing = {}
  <2> SUFFICES ASSUME missing # {} PROVE FALSE
    OBVIOUS
  <2>1. missing \in SUBSET Nat
    BY <1>1
  <2>2. PICK m \in missing : \A k \in missing : m <= k
    <3> HIDE DEF missing
    <3> QED BY <2>1, LeastNat
  <2>3. m # 0
    <3> SUFFICES ASSUME m = 0 PROVE FALSE
      OBVIOUS
    <3> DEFINE g == [i \in 0..0 |-> 0]
    <3>1. g \in [0..0 -> Nat] /\ SumsUpTo(s, 0, g)
      BY DEF SumsUpTo
    <3> HIDE DEF g
    <3> QED BY <3>1
  <2>4. m \in 1..Len(s) /\ m - 1 \in 0..Len(s) /\ ~(m <= m - 1) /\ m \in Nat
    BY <1>1, <2>3
  <2>5. PICK g \in [0..(m - 1) -> Nat] : SumsUpTo(s, m - 1, g)
    BY <2>2, <2>4
  <2> DEFINE h == [i \in 0..m |-> IF i = m THEN g[m - 1] + Took(s, m) ELSE g[i]]
  <2>6. h \in [0..m -> Nat]
    <3>1. \A i \in 0..m : i = m \/ i \in 0..(m - 1)
      BY <2>4
    <3>2. g[m - 1] \in Nat /\ Took(s, m) \in Nat
      BY <1>1, <2>4
    <3> QED BY <3>1, <3>2
  <2>7. SumsUpTo(s, m, h)
    <3>1. h[0] = 0
      BY <2>4, <2>5 DEF SumsUpTo
    <3>2. ASSUME NEW i \in 1..m PROVE h[i] = h[i - 1] + Took(s, i)
      <4>1. i - 1 \in 0..m /\ i - 1 # m /\ h[i - 1] = g[i - 1]
        BY <2>4
      <4>2. CASE i = m
        BY <2>4, <4>1, <4>2
      <4>3. CASE i # m
        <5>1. i \in 1..(m - 1) /\ h[i] = g[i]
          BY <2>4, <4>3
        <5> QED BY <2>5, <4>1, <5>1 DEF SumsUpTo
      <4> QED BY <4>2, <4>3
    <3> QED BY <3>1, <3>2 DEF SumsUpTo
  <2> HIDE DEF h
  <2> QED BY <2>6, <2>7
<1>3. PICK g \in [0..Len(s) -> Nat] : SumsUpTo(s, Len(s), g)
  BY <1>1, <1>2
<1>4. \A i \in 0..Len(s) : g[i] = IF i = 0 THEN 0 ELSE g[i - 1] + Took(s, i)
  BY <1>1, <1>3 DEF SumsUpTo
<1> QED BY <1>3, <1>4 DEF Sums

(* n + 1 times a number is once more than n times it.                      *)
LEMMA OnceMore ==
  ASSUME NEW n \in Nat \ {0}, NEW x \in Nat
  PROVE  n * x = (n - 1) * x + x /\ n * x \in Nat /\ (n - 1) * x \in Nat /\ n - 1 \in Nat
OBVIOUS

LEMMA SumBetween ==
  ASSUME NEW s \in Seq(Entry), NEW g, Sums(s, g), NEW lo \in Nat, NEW hi \in Nat,
         \A i \in 1..Len(s) : lo <= Took(s, i) /\ Took(s, i) <= hi
  PROVE  g[Len(s)] \in Nat /\ Len(s) * lo <= g[Len(s)] /\ g[Len(s)] <= Len(s) * hi
<1> DEFINE Fine(n) == g[n] \in Nat /\ n * lo <= g[n] /\ g[n] <= n * hi
           wrong == {n \in 0..Len(s) : ~Fine(n)}
<1>1. /\ Len(s) \in Nat /\ \A i \in 1..Len(s) : Took(s, i) \in Nat
      /\ \A i \in 0..Len(s) : g[i] = IF i = 0 THEN 0 ELSE g[i - 1] + Took(s, i)
  <2>1. \A i \in 0..Len(s) : g[i] = IF i = 0 THEN 0 ELSE g[i - 1] + Took(s, i)
    BY Zenon DEF Sums
  <2> QED BY <2>1, TookFacts
<1>2. wrong = {}
  <2> SUFFICES ASSUME wrong # {} PROVE FALSE
    OBVIOUS
  <2>1. wrong \in SUBSET Nat
    BY <1>1
  <2>2. PICK m \in wrong : \A k \in wrong : m <= k
    <3> HIDE DEF wrong
    <3> QED BY <2>1, LeastNat
  <2>3. m # 0
    <3>1. 0 \in 0..Len(s) /\ 0 * lo = 0 /\ 0 * hi = 0
      BY <1>1
    <3>2. g[0] = 0
      BY <1>1, <3>1
    <3>3. Fine(0)
      BY <3>1, <3>2
    <3> HIDE DEF Fine
    <3> QED BY <3>3
  <2>4. /\ m \in 1..Len(s) /\ m \in Nat \ {0} /\ m - 1 \in 0..Len(s) /\ ~(m <= m - 1)
        /\ ~Fine(m)
    <3> HIDE DEF Fine
    <3> QED BY <1>1, <2>1, <2>3
  <2>5. Fine(m - 1)
    <3> HIDE DEF Fine
    <3> QED BY <2>2, <2>4
  <2>6. /\ m * lo = (m - 1) * lo + lo /\ m * lo \in Nat /\ (m - 1) * lo \in Nat
        /\ m * hi = (m - 1) * hi + hi /\ m * hi \in Nat /\ (m - 1) * hi \in Nat
    BY <2>4, OnceMore
  <2>7. g[m] = g[m - 1] + Took(s, m) /\ Took(s, m) \in Nat /\ lo <= Took(s, m) /\ Took(s, m) <= hi
    BY <1>1, <2>4
  <2>8. Fine(m)
    <3> DEFINE a == (m - 1) * lo
               b == (m - 1) * hi
               t == Took(s, m)
               q == g[m - 1]
    <3>1. q \in Nat /\ a <= q /\ q <= b /\ a \in Nat /\ b \in Nat
      BY <2>5, <2>6
    <3>2. t \in Nat /\ lo <= t /\ t <= hi
      BY <2>7
    <3> HIDE DEF a, b, t, q
    <3>3. q + t \in Nat /\ a + lo <= q + t /\ q + t <= b + hi
      BY <3>1, <3>2
    <3>4. g[m] = q + t /\ m * lo = a + lo /\ m * hi = b + hi
      BY <2>6, <2>7 DEF a, b, t, q
    <3> QED BY <3>3, <3>4
  <2> QED BY <2>4, <2>8
<1>3. Len(s) \in 0..Len(s)
  BY <1>1
<1>4. Fine(Len(s))
  <2> HIDE DEF Fine
  <2> QED BY <1>2, <1>3
<1> QED BY <1>4

LEMMA MeanHonest ==
  ASSUME NEW s \in Seq(Entry)
  PROVE  Mean(Total(s), Len(s), s)
<1> SUFFICES ASSUME s # <<>>
             PROVE  \E i, j \in 1..Len(s) : /\ Len(s) * Took(s, i) <= Total(s)
                                            /\ Total(s) <= Len(s) * Took(s, j)
  BY Zenon DEF Mean, Took
<1> DEFINE g == CHOOSE f : Sums(s, f)
           values == {Took(s, i) : i \in 1..Len(s)}
<1>1. Total(s) = g[Len(s)]
  BY Zenon DEF Total, Sums, Took
<1>2. Sums(s, g)
  BY SumExists, Zenon
<1>3. 1..Len(s) # {} /\ values # {} /\ values \in SUBSET Nat
  <2>1. 1 \in 1..Len(s)
    OBVIOUS
  <2> QED BY <2>1, TookFacts
<1> HIDE DEF g
<1>4. PICK lo \in values : \A x \in values : lo <= x
  <2> HIDE DEF values
  <2> QED BY <1>3, LeastNat
<1>5. PICK i \in 1..Len(s) : lo = Took(s, i)
  OBVIOUS
<1>6. PICK j \in 1..Len(s) : \A k \in 1..Len(s) : Took(s, k) <= Took(s, j)
  BY <1>3, Longest
<1>7. /\ lo \in Nat /\ Took(s, j) \in Nat
      /\ \A k \in 1..Len(s) : lo <= Took(s, k) /\ Took(s, k) <= Took(s, j)
  BY <1>4, <1>5, <1>6, TookFacts
<1>8. Len(s) * lo <= g[Len(s)] /\ g[Len(s)] <= Len(s) * Took(s, j)
  BY <1>2, <1>7, SumBetween
<1> QED BY <1>1, <1>5, <1>8, Zenon
-----------------------------------------------------------------------------
(* The two reads.                                                          *)
LEMMA WindowRead ==
  ASSUME IInv, NEW k \in Slices
  PROVE  /\ \A kind : Between(Count(Prune(kept[k], now), kind), k, kind)
         /\ Between(Len(Prune(kept[k], now)), k, Sample)
<1>1. /\ kept[k] \in Seq(Entry) /\ history[k] \in Seq(Entry)
      /\ clock \in Nat /\ now \in Nat /\ now <= clock /\ Recent(kept[k], history[k], clock)
  BY DEF IInv
<1>2. ASSUME NEW kind PROVE Between(Count(Prune(kept[k], now), kind), k, kind)
  <2>1. /\ Cardinality(Alive(history[k], kind, clock)) <= Count(Prune(kept[k], now), kind)
        /\ Count(Prune(kept[k], now), kind) <= Cardinality(Alive(history[k], kind, now))
    BY <1>1, PruneCounts
  <2> QED BY <2>1, Zenon DEF Between, InLast, Alive
<1>3. Prune(kept[k], now) \in Seq(Entry)
  BY <1>1, PruneKeeps
<1>4. Count(Prune(kept[k], now), Sample) = Len(Prune(kept[k], now))
  BY <1>3, CountAll
<1> QED BY <1>2, <1>4

LEMMA ServiceRead ==
  ASSUME IInv, IInv', ReadMetrics
  PROVE  /\ ViewIsHonest(view')
         /\ NearestRank(view'.p50, 50, Held(kept', "completed"))
         /\ NearestRank(view'.p95, 95, Held(kept', "completed"))
         /\ Mean(view'.wait[1], view'.wait[2], Held(kept', "waits"))
<1> DEFINE done  == Held(kept', "completed")
           waits == Held(kept', "waits")
<1>1. ASSUME NEW k \in Slice
      PROVE  /\ \A kind : Between(Count(kept'[k], kind), k, kind)
             /\ Between(Len(kept'[k]), k, Sample)
  <2>1. k \in Slices
    BY DEF Slices
  <2>2. kept'[k] = Prune(kept[k], now)
    BY <2>1 DEF ReadMetrics
  <2> QED BY <2>1, <2>2, WindowRead
<1>2. /\ view'.rejected = Size(kept', "rejected") /\ view'.abandoned = Size(kept', "abandoned")
      /\ view'.attempts = Size(kept', "completed") + Size(kept', "rejected") + Size(kept', "abandoned")
      /\ view'.errored = Count(done, Ended(BOOLEAN, {TRUE})) /\ view'.degraded = Count(done, Degraded)
      /\ view'.p50 = Percentile(done, 50) /\ view'.p95 = Percentile(done, 95)
      /\ view'.wait[1] = Total(waits) /\ view'.wait[2] = Size(kept', "waits")
  BY DEF ReadMetrics, View
<1>3. \A k : Held(kept', k) \in Seq(Entry) /\ Size(kept', k) = Len(Held(kept', k))
  <2>1. <<>> \in Seq(Entry) /\ \A k \in Slice : kept'[k] \in Seq(Entry)
    BY DEF IInv, Slices
  <2> QED BY <2>1 DEF Held, Size
<1>4. \A k \in Slice : Held(kept', k) = kept'[k] /\ Size(kept', k) = Len(kept'[k])
  BY DEF Held, Size
<1>5. ASSUME NEW k \in Slice PROVE Between(Reported(view')[k], k, Sample)
  <2>1. /\ Size(kept', "completed") \in Nat /\ Size(kept', "rejected") \in Nat
        /\ Size(kept', "abandoned") \in Nat
    BY <1>3
  <2>2. view'.attempts - view'.rejected - view'.abandoned = Size(kept', "completed")
    BY <1>2, <2>1
  <2>3. /\ Reported(view')["completed"] = Size(kept', "completed")
        /\ Reported(view')["rejected"] = Size(kept', "rejected")
        /\ Reported(view')["abandoned"] = Size(kept', "abandoned")
        /\ Reported(view')["waits"] = Size(kept', "waits")
    BY <1>2, <2>2 DEF Reported
  <2>4. Reported(view')[k] = Size(kept', k)
    BY <2>3, SliceAssumption
  <2>5. Reported(view')[k] = Len(kept'[k])
    BY <1>4, <2>4
  <2> QED BY <1>1, <2>5
<1>6. ASSUME "completed" \in Slice
      PROVE  /\ Between(view'.errored, "completed", Ended(BOOLEAN, {TRUE}))
             /\ Between(view'.degraded, "completed", Degraded)
  <2>1. done = kept'["completed"]
    BY <1>4, <1>6
  <2> HIDE DEF done
  <2> QED BY <1>1, <1>2, <1>6, <2>1
<1>7. ViewIsHonest(view')
  BY <1>5, <1>6, Zenon DEF ViewIsHonest
<1>8. done \in Seq(Entry) /\ waits \in Seq(Entry) /\ Size(kept', "waits") = Len(waits)
  BY <1>3
<1> HIDE DEF done, waits
<1>9. NearestRank(view'.p50, 50, done) /\ NearestRank(view'.p95, 95, done)
  <2>1. NearestRank(Percentile(done, 50), 50, done) /\ NearestRank(Percentile(done, 95), 95, done)
    BY <1>8, PercentileHonest
  <2> QED BY <1>2, <2>1
<1>10. Mean(view'.wait[1], view'.wait[2], waits)
  <2>1. Mean(Total(waits), Len(waits), waits)
    BY <1>8, MeanHonest
  <2> QED BY <1>2, <1>8, <2>1
<1> QED BY <1>7, <1>9, <1>10 DEF done, waits

(* Every run is of one priority.                                           *)
LEMMA RunsSplit ==
  ASSUME NEW s \in Seq(Entry)
  PROVE  Count(s, Ended({TRUE}, BOOLEAN)) + Count(s, Ended({FALSE}, BOOLEAN)) = Len(s)
<1> DEFINE A == {i \in 1..Len(s) : s[i].sample \in Ended({TRUE}, BOOLEAN)}
           B == {i \in 1..Len(s) : s[i].sample \in Ended({FALSE}, BOOLEAN)}
<1>1. ASSUME NEW i \in 1..Len(s)
      PROVE  /\ s[i].sample \in Sample
             /\ s[i].sample.rc \in BOOLEAN /\ s[i].sample.bad \in BOOLEAN
  <2>1. s[i] \in Entry
    OBVIOUS
  <2>2. s[i].sample \in Sample
    BY <2>1 DEF Entry
  <2>3. s[i].sample \in [slice : Slices, took : Nat, bad : BOOLEAN, degraded : BOOLEAN, rc : BOOLEAN]
    BY <2>2, SampleAssumption
  <2> QED BY <2>2, <2>3
<1>2. A \union B = 1..Len(s)
  BY <1>1 DEF Ended
<1>3. A \cap B = {}
  BY DEF Ended
<1>4. A \in SUBSET (1..Len(s)) /\ B \in SUBSET (1..Len(s))
  OBVIOUS
<1>5. /\ Count(s, Ended({TRUE}, BOOLEAN)) = Cardinality(A)
      /\ Count(s, Ended({FALSE}, BOOLEAN)) = Cardinality(B)
  BY DEF Count
<1> HIDE DEF A, B
<1>6. IsFiniteSet(A) /\ IsFiniteSet(B) /\ Cardinality(A) \in Nat /\ Cardinality(B) \in Nat
  BY <1>4, TookFacts
<1>7. Cardinality(A \union B) = Cardinality(A) + Cardinality(B) - Cardinality(A \cap B)
  BY <1>6, FS_Union
<1>8. Cardinality(A \union B) = Len(s) /\ Cardinality(A \cap B) = 0
  BY <1>2, <1>3, TookFacts, FS_EmptySet
<1> QED BY <1>5, <1>6, <1>7, <1>8

LEMMA RunsRead ==
  ASSUME IInv, IInv', ReadRuns
  PROVE  RunViewIsHonest(runView') /\ NearestRank(runView'.p95, 95, kept'["runs"])
<1> DEFINE s == kept'["runs"]
<1>1. "runs" \in Slices /\ "runs" \in Owner("runs")
  BY DEF Slices, Owner
<1>2. (\A kind : Between(Count(s, kind), "runs", kind)) /\ Between(Len(s), "runs", Sample)
  <2>1. s = Prune(kept["runs"], now)
    BY <1>1 DEF ReadRuns, PruneOwner
  <2> QED BY <1>1, <2>1, WindowRead
<1>3. s \in Seq(Entry)
  BY <1>1 DEF IInv
<1>4. runView' = RunView(s)
  BY DEF ReadRuns
<1> HIDE DEF s
<1>5. /\ runView'.rc[1] = Count(s, Ended({TRUE}, {FALSE}))
      /\ runView'.normal[1] = Count(s, Ended({FALSE}, {FALSE}))
      /\ runView'.rc[2] = Count(s, Ended({TRUE}, BOOLEAN))
      /\ runView'.normal[2] = Count(s, Ended({FALSE}, BOOLEAN))
      /\ runView'.p95 = Percentile(s, 95)
  BY <1>4 DEF RunView
<1>6. runView'.rc[2] + runView'.normal[2] = Len(s)
  BY <1>3, <1>5, RunsSplit
<1>7. NearestRank(Percentile(s, 95), 95, s)
  BY <1>3, PercentileHonest
<1>8. RunViewIsHonest(runView')
  BY <1>2, <1>5, <1>6 DEF RunViewIsHonest
<1> QED BY <1>5, <1>7, <1>8 DEF s

(* What a tick publishes counts every sample of the last window and none   *)
(* that was older when the tick began, by heading; its percentiles are     *)
(* nearest ranks and its mean wait lies between two of the waits (Read,    *)
(* metrics.go 152; percentile, 209; runMetrics.Read, 266), for every       *)
(* window, mark and interleaving of recorders with the tick.               *)
THEOREM HonestReads == Spec => ReadIsHonest
<1> DEFINE Honest ==
      /\ tick = "metrics" /\ tick' = "runs" =>
           /\ ViewIsHonest(view')
           /\ NearestRank(view'.p50, 50, Held(kept', "completed"))
           /\ NearestRank(view'.p95, 95, Held(kept', "completed"))
           /\ Mean(view'.wait[1], view'.wait[2], Held(kept', "waits"))
      /\ tick = "runs" /\ tick' = "idle" =>
           /\ RunViewIsHonest(runView')
           /\ NearestRank(runView'.p95, 95, kept'["runs"])
<1>1. IInv /\ [Next]_vars => [Honest]_vars
  <2> SUFFICES ASSUME IInv, Next PROVE Honest
    OBVIOUS
  <2>1. IInv'
    BY NextHolds
  <2>2. CASE ReadMetrics
    <3>1. tick' = "runs" /\ tick = "metrics"
      BY <2>2 DEF ReadMetrics
    <3> QED BY <2>1, <2>2, <3>1, ServiceRead
  <2>3. CASE ReadRuns
    <3>1. tick' = "idle" /\ tick = "runs"
      BY <2>3 DEF ReadRuns
    <3> QED BY <2>1, <2>3, <3>1, RunsRead
  <2>4. CASE TickBegin
    BY <2>4 DEF TickBegin
  <2>5. CASE UNCHANGED tick
    BY <2>5
  <2> QED BY <2>2, <2>3, <2>4, <2>5 DEF Next, Advance, Call, Record
<1> QED BY <1>1, InitHolds, NextHolds, PTL DEF Spec, ReadIsHonest
=============================================================================
