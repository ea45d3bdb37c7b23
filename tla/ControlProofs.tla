--------------------------- MODULE ControlProofs ---------------------------
(***************************************************************************)
(* What Control's event log promises for any topology, any requests and    *)
(* any size of the ring.                                                   *)
(***************************************************************************)
EXTENDS Control, SequenceTheorems, WellFoundedInduction, TLAPS

(* A log as the ring keeps it: IDs in steps of one, full or complete from  *)
(* the first event on.                                                     *)
Log(l) ==
  /\ \E S : l \in Seq(S)
  /\ Len(l) \in 1..MaxEvents
  /\ \A i \in 1..Len(l) : l[i].id \in Nat \ {0}
  /\ \A i \in 1..(Len(l) - 1) : l[i+1].id = l[i].id + 1
  /\ Len(l) = MaxEvents \/ l[1].id = 1
End(l) == l[Len(l)].id

LEMMA LogAssumption == MaxEvents \in Nat /\ MaxEvents >= 1
BY RingAssumption

(* One more event, and the trim.                                           *)
LEMMA LogAppend ==
  ASSUME NEW l, Log(l), NEW e, e.id = End(l) + 1
  PROVE  LET all == Append(l, e)
             cut == IF Len(all) > MaxEvents THEN SubSeq(all, Len(all) - MaxEvents + 1, Len(all))
                                            ELSE all
         IN Log(cut) /\ End(cut) = e.id
<1> DEFINE all == Append(l, e)
<1>1. PICK S : l \in Seq(S)
  BY DEF Log
<1> DEFINE T == S \union {e}
<1>2. l \in Seq(T) /\ e \in T
  BY <1>1, SeqMonotonic
<1>3. /\ all \in Seq(T) /\ Len(all) = Len(l) + 1
      /\ \A i \in 1..Len(l) : all[i] = l[i]
      /\ all[Len(l) + 1] = e
  BY <1>2, AppendProperties
<1>4. Len(l) \in 1..MaxEvents /\ Len(l) \in Nat /\ Len(all) \in Nat
  BY <1>3, LogAssumption DEF Log
<1> HIDE DEF all, T
<1>5. ASSUME NEW i \in 1..Len(all) PROVE all[i].id \in Nat \ {0}
  <2>1. CASE i \in 1..Len(l)
    BY <1>3, <2>1 DEF Log
  <2>2. CASE i = Len(l) + 1
    <3>1. l[Len(l)].id \in Nat \ {0}
      BY <1>4 DEF Log
    <3> QED BY <1>3, <2>2, <3>1 DEF End
  <2> QED BY <1>3, <1>4, <2>1, <2>2
<1>6. ASSUME NEW i \in 1..(Len(all) - 1) PROVE all[i + 1].id = all[i].id + 1
  <2>1. CASE i = Len(l)
    BY <1>3, <1>4, <2>1 DEF End
  <2>2. CASE i # Len(l)
    <3>1. i \in 1..(Len(l) - 1) /\ i \in 1..Len(l) /\ i + 1 \in 1..Len(l)
      BY <1>3, <1>4, <2>2
    <3> QED BY <1>3, <3>1 DEF Log
  <2> QED BY <2>1, <2>2
<1>7. CASE Len(all) > MaxEvents
  <2> DEFINE m == Len(all) - MaxEvents + 1
             cut == SubSeq(all, m, Len(all))
  <2>1. m = 2 /\ Len(all) = MaxEvents + 1
    BY <1>3, <1>4, <1>7, LogAssumption
  <2>2. \A i \in m..Len(all) : all[i] \in T
    BY <1>3, <1>4, <2>1
  <2>3. /\ cut \in Seq(T)
        /\ Len(cut) = IF m <= Len(all) THEN Len(all) - m + 1 ELSE 0
        /\ \A i \in 1..(Len(all) - m + 1) : cut[i] = all[m + i - 1]
    BY <1>4, <2>1, <2>2, SubSeqProperties
  <2>4. Len(cut) = MaxEvents
    BY <1>4, <2>1, <2>3, LogAssumption
  <2>5. \A i \in 1..MaxEvents : cut[i] = all[i + 1]
    BY <1>4, <2>1, <2>3, LogAssumption
  <2> HIDE DEF cut
  <2>6. \A i \in 1..MaxEvents : cut[i].id \in Nat \ {0}
    BY <1>5, <2>1, <2>5, LogAssumption
  <2>7. ASSUME NEW i \in 1..(MaxEvents - 1) PROVE cut[i + 1].id = cut[i].id + 1
    <3>1. i \in 1..MaxEvents /\ i + 1 \in 1..MaxEvents /\ i + 1 \in 1..(Len(all) - 1)
      BY <2>1, LogAssumption
    <3> QED BY <1>6, <2>5, <3>1
  <2>8. cut[MaxEvents] = e
    BY <1>3, <1>4, <2>1, <2>5, LogAssumption
  <2>9. Log(cut) /\ End(cut) = e.id
    BY <2>3, <2>4, <2>6, <2>7, <2>8, LogAssumption DEF Log, End
  <2> QED BY <1>7, <2>9 DEF cut, all
<1>8. CASE ~(Len(all) > MaxEvents)
  <2>1. Len(l) # MaxEvents /\ 1 \in 1..Len(l)
    BY <1>3, <1>4, <1>8, LogAssumption
  <2>2. all[1].id = 1
    BY <1>3, <2>1 DEF Log
  <2>3. Log(all) /\ End(all) = e.id
    BY <1>3, <1>4, <1>5, <1>6, <1>8, <2>2, LogAssumption DEF Log, End
  <2> QED BY <1>8, <2>3 DEF all
<1> QED BY <1>7, <1>8

(* emit keeps the ring.                                                    *)
LEMMA EmitKeeps ==
  ASSUME nextEvID \in Nat, Log(events), End(events) = nextEvID, NEW of, NEW status, Emit(of, status)
  PROVE  /\ nextEvID' = nextEvID + 1
         /\ Log(events') /\ End(events') = nextEvID'
<1> DEFINE e == [id |-> nextEvID + 1, of |-> of, status |-> status]
<1>1. e.id = End(events) + 1
  OBVIOUS
<1> HIDE DEF e
<1>2. LET all == Append(events, e)
          cut == IF Len(all) > MaxEvents THEN SubSeq(all, Len(all) - MaxEvents + 1, Len(all))
                                         ELSE all
      IN Log(cut) /\ End(cut) = e.id
  BY <1>1, LogAppend
<1> QED BY <1>2 DEF Emit, e

-----------------------------------------------------------------------------
(* The tick's program: it copies the ring just before it publishes, and it *)
(* publishes last.                                                         *)
CopyStep == <<"copy", "", "">>
PublishStep == <<"publish", "", "">>
Quiet == {"capture", "fold", "injections", "edge", "transition"}
           \X (Node \union Edge \union {"", "headline"}) \X {""}

LEMMA EachQuiet ==
  ASSUME NEW S \in SUBSET (Node \union Edge), NEW list \in Seq(S),
         NEW kind \in {"capture", "injections", "edge", "transition"}
  PROVE  Each(kind, list) \in Seq(Quiet)
<1>1. Len(list) \in Nat /\ \A i \in 1..Len(list) : list[i] \in S
  OBVIOUS
<1>2. \A i \in 1..Len(list) : <<kind, list[i], "">> \in Quiet
  BY <1>1 DEF Quiet
<1> DEFINE n == Len(list)
<1>3. Each(kind, list) \in [1..n -> Quiet]
  BY <1>2 DEF Each
<1>4. n \in Nat
  BY <1>1
<1> HIDE DEF n
<1> QED BY <1>3, <1>4, SeqDef

(* A short list of steps is a sequence of them, whatever the steps are.    *)
LEMMA OneStep ==
  ASSUME NEW S, NEW a \in S
  PROVE  <<a>> \in Seq(S)
OBVIOUS

LEMMA ThreeSteps ==
  ASSUME NEW S, NEW a \in S, NEW b \in S, NEW c \in S
  PROVE  /\ <<a, b, c>> \in Seq(S) /\ Len(<<a, b, c>>) = 3
         /\ <<a, b, c>>[1] = a /\ <<a, b, c>>[2] = b /\ <<a, b, c>>[3] = c
OBVIOUS

LEMMA TickLayout ==
  /\ TickSteps \in Seq(Quiet \union {CopyStep, PublishStep})
  /\ Len(TickSteps) \in Nat /\ Len(TickSteps) >= 2
  /\ TickSteps[Len(TickSteps) - 1] = CopyStep
  /\ TickSteps[Len(TickSteps)] = PublishStep
  /\ \A i \in 1..(Len(TickSteps) - 1) : TickSteps[i][1] # "publish"
<1> DEFINE fold == <<"fold", "", "">>
           headline == <<"transition", "headline", "">>
           A == Each("capture", Nodes) \o <<fold>>
                  \o Each("injections", Nodes) \o Each("edge", Edges) \o Each("transition", Nodes)
           Z == <<headline, CopyStep, PublishStep>>
           Q == Quiet \union {CopyStep, PublishStep}
           n == Len(A)
<1>1. TickSteps = A \o Z
  BY DEF TickSteps, CopyStep, PublishStep
<1>2. fold \in Quiet /\ headline \in Quiet
  BY DEF Quiet
<1>3. headline[1] # "publish" /\ CopyStep[1] # "publish"
  BY DEF CopyStep
<1>4. \A t \in Quiet : t[1] # "publish"
  BY DEF Quiet
<1> HIDE DEF fold, headline
<1>5. <<fold>> \in Seq(Quiet)
  BY <1>2, OneStep
<1>6. A \in Seq(Quiet)
  <2>1. \A s, t \in Seq(Quiet) : s \o t \in Seq(Quiet)
    BY ConcatProperties
  <2>2. Nodes \in Seq(Node) /\ Edges \in Seq(Edge)
    BY GraphAssumption
  <2>3. /\ Each("capture", Nodes) \in Seq(Quiet) /\ Each("injections", Nodes) \in Seq(Quiet)
        /\ Each("edge", Edges) \in Seq(Quiet) /\ Each("transition", Nodes) \in Seq(Quiet)
    BY <2>2, EachQuiet
  <2> QED BY <1>5, <2>1, <2>3
<1>7. headline \in Q /\ CopyStep \in Q /\ PublishStep \in Q
  BY <1>2
<1> HIDE DEF A
<1>8. A \in Seq(Q)
  BY <1>6, SeqMonotonic
<1> HIDE DEF Q
<1>9. Z \in Seq(Q) /\ Len(Z) = 3 /\ Z[1] = headline /\ Z[2] = CopyStep /\ Z[3] = PublishStep
  BY <1>7, ThreeSteps
<1> HIDE DEF Z
<1>10. /\ TickSteps \in Seq(Q)
       /\ Len(TickSteps) = n + 3
       /\ \A i \in 1..(n + 3) : TickSteps[i] = IF i <= n THEN A[i] ELSE Z[i - n]
  <2>1. /\ A \o Z \in Seq(Q)
        /\ Len(A \o Z) = Len(A) + Len(Z)
        /\ \A i \in 1..(Len(A) + Len(Z)) : (A \o Z)[i] = IF i <= Len(A) THEN A[i] ELSE Z[i - Len(A)]
    BY <1>8, <1>9, ConcatProperties
  <2>2. Len(Z) = 3
    BY <1>9
  <2> QED BY <1>1, <2>1, <2>2
<1>11. n \in Nat /\ \A i \in 1..n : A[i] \in Quiet
  BY <1>6, ElementOfSeq, LenProperties
<1> HIDE DEF n
<1>12. /\ \A i \in 1..n : TickSteps[i] = A[i]
       /\ TickSteps[n + 1] = Z[1] /\ TickSteps[n + 2] = Z[2] /\ TickSteps[n + 3] = Z[3]
  BY <1>10, <1>11
<1>13. ASSUME NEW i \in 1..(n + 2) PROVE TickSteps[i][1] # "publish"
  <2>1. CASE i \in 1..n
    BY <1>4, <1>11, <1>12, <2>1
  <2>2. CASE i = n + 1 \/ i = n + 2
    BY <1>3, <1>9, <1>12, <2>2
  <2> QED BY <1>11, <2>1, <2>2
<1>14. Len(TickSteps) - 1 = n + 2 /\ Len(TickSteps) \in Nat /\ Len(TickSteps) >= 2
  BY <1>10, <1>11
<1> QED BY <1>9, <1>10, <1>12, <1>13, <1>14 DEF Q
-----------------------------------------------------------------------------
(* The tick is somewhere in its program.                                   *)
From(i) == SubSeq(TickSteps, i, Len(TickSteps))
InProgram == tickTodo = <<>> \/ \E i \in 1..Len(TickSteps) : tickTodo = From(i)

LEMMA FromFacts ==
  ASSUME NEW i \in 1..Len(TickSteps)
  PROVE  /\ From(i) # <<>> /\ Head(From(i)) = TickSteps[i]
         /\ Tail(From(i)) = IF i = Len(TickSteps) THEN <<>> ELSE From(i + 1)
         /\ Len(From(i)) = Len(TickSteps) - i + 1
<1> DEFINE n == Len(TickSteps)
           Q == Quiet \union {CopyStep, PublishStep}
<1>1. TickSteps \in Seq(Q) /\ n \in Nat
  BY TickLayout
<1> HIDE DEF Q
<1>2. ASSUME NEW j \in 1..(n + 1)
      PROVE  /\ From(j) \in Seq(Q) /\ Len(From(j)) = n - j + 1
             /\ \A k \in 1..(n - j + 1) : From(j)[k] = TickSteps[j + k - 1]
  <2>1. \A k \in j..n : TickSteps[k] \in Q
    BY <1>1
  <2>2. /\ From(j) \in Seq(Q)
        /\ Len(From(j)) = IF j <= n THEN n - j + 1 ELSE 0
        /\ \A k \in 1..(n - j + 1) : From(j)[k] = TickSteps[j + k - 1]
    BY <1>1, <2>1, SubSeqProperties DEF From
  <2> QED BY <1>1, <2>2
<1>3. /\ From(i) \in Seq(Q) /\ Len(From(i)) = n - i + 1 /\ From(i)[1] = TickSteps[i]
  BY <1>1, <1>2
<1>4. From(i) # <<>> /\ Head(From(i)) = TickSteps[i]
  BY <1>1, <1>3
<1>5. /\ Tail(From(i)) \in Seq(Q) /\ Len(Tail(From(i))) = n - i
      /\ \A k \in 1..(n - i) : Tail(From(i))[k] = From(i)[k + 1]
  BY <1>1, <1>3, <1>4, HeadTailProperties
<1>6. CASE i = n
  <2>1. Len(Tail(From(i))) = 0
    BY <1>1, <1>5, <1>6
  <2>2. Tail(From(i)) = <<>>
    BY <1>5, <2>1, EmptySeq
  <2> QED BY <1>3, <1>4, <1>6, <2>2
<1>7. CASE i # n
  <2>1. /\ From(i + 1) \in Seq(Q) /\ Len(From(i + 1)) = n - i
        /\ \A k \in 1..(n - i) : From(i + 1)[k] = TickSteps[i + k]
    <3>0. n \in Nat /\ i \in 1..n /\ i # n
      BY <1>1, <1>7
    <3>1. i + 1 \in 1..(n + 1) /\ n - (i + 1) + 1 = n - i
      BY <3>0
    <3>2. /\ From(i + 1) \in Seq(Q) /\ Len(From(i + 1)) = n - i
          /\ \A k \in 1..(n - i) : From(i + 1)[k] = TickSteps[(i + 1) + k - 1]
      BY <1>2, <3>1, Zenon
    <3>3. \A k \in 1..(n - i) : (i + 1) + k - 1 = i + k
      BY <1>1
    <3> QED BY <3>2, <3>3
  <2>2. \A k \in 1..(n - i) : Tail(From(i))[k] = TickSteps[i + k]
    <3>1. \A k \in 1..(n - i + 1) : From(i)[k] = TickSteps[i + k - 1]
      <4>1. i \in 1..(n + 1)
        BY <1>1
      <4> QED BY <1>2, <4>1
    <3> SUFFICES ASSUME NEW k \in 1..(n - i) PROVE Tail(From(i))[k] = TickSteps[i + k]
      OBVIOUS
    <3>2. k + 1 \in 1..(n - i + 1) /\ i + (k + 1) - 1 = i + k
      BY <1>1
    <3>3. From(i)[k + 1] = TickSteps[i + k]
      BY <3>1, <3>2
    <3> QED BY <1>5, <3>3
  <2>3. Tail(From(i)) = From(i + 1)
    BY <1>5, <2>1, <2>2, SeqEqual
  <2> QED BY <1>3, <1>4, <1>7, <2>3
<1> QED BY <1>6, <1>7

(* The copy is taken while no other snapshot is published, so what the tick *)
(* is about to publish is newer than what is shown.                        *)
IInv ==
  /\ nextEvID \in Nat
  /\ Log(events) /\ End(events) = nextEvID
  /\ Log(snap.events) /\ End(snap.events) <= nextEvID
  /\ "events" \in DOMAIN seen
  /\ InProgram
  /\ tickTodo = From(Len(TickSteps)) =>
       Log(seen.events) /\ End(snap.events) <= End(seen.events) /\ End(seen.events) <= nextEvID

LEMMA LogEnd == \A l : Log(l) => End(l) \in Nat
BY DEF Log, End

LEMMA InitHolds == Init => IInv
<1> SUFFICES ASSUME Init PROVE IInv
  OBVIOUS
<1> DEFINE l == <<Started>>
<1>1. Log(l) /\ End(l) = 1
  <2>1. l \in Seq({Started}) /\ Len(l) = 1 /\ l[1] = Started
    OBVIOUS
  <2>2. Started.id = 1
    BY DEF Started
  <2> HIDE DEF l
  <2>3. \A i \in 1..Len(l) : l[i].id \in Nat \ {0}
    BY <2>1, <2>2
  <2>4. \A i \in 1..(Len(l) - 1) : l[i+1].id = l[i].id + 1
    BY <2>1
  <2> QED BY <2>1, <2>2, <2>3, <2>4, LogAssumption DEF Log, End
<1>2. events = l /\ nextEvID = 1 /\ tickTodo = <<>> /\ seen = Blank
  BY DEF Init
<1>3. snap.events = l
  BY DEF Init, Blank
<1>4. "events" \in DOMAIN seen
  BY <1>2 DEF Blank
<1>5. From(Len(TickSteps)) # <<>>
  BY FromFacts, TickLayout
<1> HIDE DEF l
<1> QED BY <1>1, <1>2, <1>3, <1>4, <1>5 DEF IInv, InProgram

(* What a step of another goroutine does to the log.                       *)
LEMMA RingKeeps ==
  ASSUME IInv, UNCHANGED ring \/ \E of, status : Emit(of, status)
  PROVE  /\ nextEvID' \in Nat /\ nextEvID' >= nextEvID
         /\ Log(events') /\ End(events') = nextEvID'
<1>1. CASE UNCHANGED ring
  BY <1>1 DEF IInv, ring
<1>2. ASSUME NEW of, NEW status, Emit(of, status)
      PROVE  /\ nextEvID' = nextEvID + 1
             /\ Log(events') /\ End(events') = nextEvID'
  BY <1>2, EmitKeeps DEF IInv
<1> QED BY <1>1, <1>2 DEF IInv

LEMMA OthersKeep ==
  ASSUME IInv, UNCHANGED tickVars, UNCHANGED ring \/ \E of, status : Emit(of, status)
  PROVE  IInv'
<1>1. /\ nextEvID' \in Nat /\ nextEvID' >= nextEvID
      /\ Log(events') /\ End(events') = nextEvID'
  BY RingKeeps
<1>2. nextEvID \in Nat /\ (Log(snap.events) => End(snap.events) \in Nat)
      /\ (Log(seen.events) => End(seen.events) \in Nat)
  BY LogEnd DEF IInv
<1>3. tickTodo' = tickTodo /\ seen' = seen /\ snap' = snap
  BY DEF tickVars
<1> QED BY <1>1, <1>2, <1>3 DEF IInv, InProgram

LEMMA TickKeeps ==
  ASSUME IInv, TickStep
  PROVE  IInv'
<1> DEFINE n == Len(TickSteps)
<1>1. PICK i \in 1..n : tickTodo = From(i)
  BY DEF IInv, InProgram, TickStep
<1>2. n \in Nat /\ n >= 2
  BY TickLayout
<1>3. /\ Head(tickTodo) = TickSteps[i]
      /\ tickTodo' = IF i = n THEN <<>> ELSE From(i + 1)
  BY <1>1, FromFacts DEF TickStep
<1>4. InProgram'
  BY <1>2, <1>3 DEF InProgram
<1>5. ASSUME tickTodo' = From(n) PROVE i = n - 1 /\ TickSteps[i] = CopyStep
  <2>1. i # n
    BY <1>2, <1>3, <1>5, FromFacts
  <2>2. i + 1 \in 1..n /\ n \in 1..n /\ From(i + 1) = From(n)
    BY <1>2, <1>3, <1>5, <2>1
  <2>3. n - (i + 1) + 1 = n - n + 1
    BY <2>2, FromFacts
  <2> QED BY <1>2, <2>1, <2>3, TickLayout
<1>6. TickSteps[i][1] = "publish" => i = n
  BY <1>2, TickLayout
<1>7. ASSUME UNCHANGED ring \/ (\E of, status : Emit(of, status)), snap' = snap,
             "events" \in DOMAIN seen', TickSteps[i] # CopyStep
      PROVE  IInv'
  <2>1. /\ nextEvID' \in Nat /\ nextEvID' >= nextEvID
        /\ Log(events') /\ End(events') = nextEvID'
    BY <1>7, RingKeeps
  <2>2. nextEvID \in Nat /\ End(snap.events) \in Nat
    BY LogEnd DEF IInv
  <2>3. tickTodo' # From(n)
    BY <1>5, <1>7
  <2> QED BY <1>4, <1>7, <2>1, <2>2, <2>3 DEF IInv
<1> DEFINE s == TickSteps[i]
<1>8. CASE \/ s[1] = "capture" /\ Capture(s[2])
           \/ s[1] = "fold" /\ Fold
           \/ s[1] = "injections" /\ ReadInjections(s[2])
           \/ s[1] = "edge" /\ ReadEdge(s[2])
           \/ s[1] = "transition" /\ Transition(s[2])
  <2>1. snap' = snap /\ (UNCHANGED ring \/ \E of, status : Emit(of, status))
    BY <1>8, Zenon DEF Capture, Fold, ReadInjections, ReadEdge, Transition
  <2>2. "events" \in DOMAIN seen'
    BY <1>8 DEF Capture, Fold, ReadInjections, ReadEdge, Transition, IInv
  <2>3. s[1] # "copy"
    BY <1>8
  <2>4. CopyStep[1] = "copy"
    BY DEF CopyStep
  <2> QED BY <1>7, <2>1, <2>2, <2>3, <2>4
<1>9. CASE CopyEvents
  <2>1. seen'.events = events /\ "events" \in DOMAIN seen'
    BY <1>9 DEF CopyEvents, IInv
  <2>2. snap' = snap /\ events' = events /\ nextEvID' = nextEvID
    BY <1>9 DEF CopyEvents, ring
  <2> QED BY <1>4, <2>1, <2>2 DEF IInv
<1>10. CASE s[1] = "publish" /\ Publish
  <2>1. i = n /\ tickTodo = From(n) /\ tickTodo' = <<>>
    BY <1>1, <1>3, <1>6, <1>10
  <2>2. snap'.events = seen.events /\ "events" \in DOMAIN seen'
    BY <1>10 DEF Publish, Blank
  <2>3. events' = events /\ nextEvID' = nextEvID
    BY <1>10 DEF Publish, ring
  <2>4. tickTodo' # From(n)
    BY <1>2, <2>1, FromFacts
  <2> QED BY <1>4, <2>1, <2>2, <2>3, <2>4 DEF IInv
<1> QED BY <1>3, <1>8, <1>9, <1>10 DEF TickStep

LEMMA NextHolds == IInv /\ [Next]_vars => IInv'
<1> SUFFICES ASSUME IInv, [Next]_vars PROVE IInv'
  OBVIOUS
<1>1. ASSUME NEW o \in Operator, OpStep(o) PROVE IInv'
  <2>1. UNCHANGED ring \/ Emit("operator", "OK")
    BY <1>1, Zenon DEF OpStep
  <2> QED BY <1>1, <2>1, OthersKeep DEF OpStep
<1>2. ASSUME NEW o \in Operator, NEW r \in Request, Ask(o, r) PROVE IInv'
  BY <1>2, OthersKeep DEF Ask
<1>3. CASE TickOnTimer \/ TickOnKick
  <2>1. tickTodo' = TickSteps /\ UNCHANGED <<ring, seen, snap>>
    BY <1>3 DEF TickOnTimer, TickOnKick
  <2>2. TickSteps = From(1) /\ 1 \in 1..Len(TickSteps)
    BY TickLayout, SubSeqFull DEF From
  <2>3. From(1) # From(Len(TickSteps))
    <3>1. Len(From(1)) # Len(From(Len(TickSteps)))
      BY <2>2, FromFacts, TickLayout
    <3> QED BY <3>1
  <2> QED BY <2>1, <2>2, <2>3 DEF IInv, InProgram, ring
<1>4. CASE TickStep
  BY <1>4, TickKeeps
<1>5. ASSUME NEW m \in Node, Flip(m) PROVE IInv'
  BY <1>5, OthersKeep DEF Flip
<1>6. CASE UNCHANGED vars
  BY <1>6, OthersKeep DEF vars
<1> QED BY <1>1, <1>2, <1>3, <1>4, <1>5, <1>6 DEF Next

(* The ring, and every snapshot's copy of it, is a run of consecutive IDs  *)
(* that ends with the newest (emit, eventsCopy, engine.go 418-440),        *)
(* whoever emits and whenever the copy is taken.                           *)
THEOREM Gapless == Spec => []RingIsGapless
<1>1. \A l : Log(l) => Consecutive(l)
  BY DEF Log, Consecutive
<1>2. IInv => RingIsGapless
  BY <1>1 DEF IInv, RingIsGapless, End, Last
<1> QED BY <1>2, InitHolds, NextHolds, PTL DEF Spec

-----------------------------------------------------------------------------
(* A nonempty set of numbers has a least one.                              *)
LEMMA LeastNat ==
  ASSUME NEW S \in SUBSET Nat, S # {}
  PROVE  \E m \in S : \A j \in S : m <= j
<1>1. PICK m \in S : \A j \in S : ~ (<<j, m>> \in OpToRel(<, Nat))
  BY NatLessThanWellFounded, WFMin
<1>2. \A j \in S : ~ (j < m)
  BY <1>1 DEF OpToRel
<1> QED BY <1>2

(* A log's IDs are the newest there are up to its end, as many as it holds. *)
LEMMA LogIDs ==
  ASSUME NEW l, Log(l)
  PROVE  \A i \in 1..Len(l) : l[i].id = End(l) - (Len(l) - i)
<1> DEFINE n == Len(l)
           Bad == {d \in 0..(n - 1) : l[n - d].id # End(l) - d}
<1>1. n \in Nat /\ n >= 1
  BY LogAssumption DEF Log
<1>2. \A i \in 1..n : l[i].id \in Nat
  BY DEF Log
<1>3. \A i \in 1..(n - 1) : l[i + 1].id = l[i].id + 1
  BY DEF Log
<1> HIDE DEF n
<1>4. ASSUME Bad # {} PROVE FALSE
  <2>0. Bad \in SUBSET Nat
    BY <1>1
  <2> HIDE DEF Bad
  <2>1. PICK d \in Bad : \A j \in Bad : d <= j
    BY <1>4, <2>0, LeastNat
  <2> USE DEF Bad
  <2>2. d # 0 /\ d \in 0..(n - 1)
    <3>1. d \in 0..(n - 1) /\ l[n - d].id # End(l) - d
      BY <2>1
    <3>2. l[n].id = End(l) /\ n \in 1..n /\ l[n].id \in Nat
      BY <1>1, <1>2 DEF End, n
    <3>3. n - 0 = n /\ End(l) - 0 = End(l)
      BY <1>1, <3>2
    <3> QED BY <3>1, <3>2, <3>3
  <2>3. d - 1 \in 0..(n - 1) /\ d - 1 \notin Bad
    BY <1>1, <2>1, <2>2
  <2>4. n - d \in 1..(n - 1) /\ (n - d) + 1 = n - (d - 1) /\ n - d \in 1..n
    BY <1>1, <2>2
  <2>5. l[n - (d - 1)].id = l[n - d].id + 1
    BY <1>3, <2>4
  <2>6. l[n - (d - 1)].id = End(l) - (d - 1)
    BY <2>3
  <2>7. End(l) \in Nat
    BY <1>1, <1>2 DEF End, n
  <2> HIDE DEF Bad
  <2>8. l[n - d].id = End(l) - d
    BY <1>2, <2>2, <2>4, <2>5, <2>6, <2>7
  <2> QED BY <2>1, <2>8 DEF Bad
<1>5. ASSUME NEW i \in 1..n PROVE l[i].id = End(l) - (n - i)
  <2>1. n - i \in 0..(n - 1) /\ n - (n - i) = i
    BY <1>1, <1>5
  <2>2. n - i \notin Bad
    BY <1>4
  <2> QED BY <2>1, <2>2
<1> QED BY <1>5 DEF n

LEMMA LogIsNewest ==
  ASSUME NEW l, Log(l)
  PROVE  EventIDs(l) = Promised!Newest(End(l))
<1> DEFINE n == Len(l)
           k == End(l)
<1>1. n \in 1..MaxEvents /\ MaxEvents \in Nat /\ k \in Nat \ {0} /\ n \in Nat
  BY LogAssumption DEF Log, End
<1>2. \A i \in 1..n : l[i].id = k - (n - i) /\ l[i].id \in Nat \ {0}
  BY LogIDs DEF Log
<1>3. n = MaxEvents \/ k = n
  <2>1. l[1].id = k - (n - 1)
    BY <1>1, <1>2
  <2>2. n = MaxEvents \/ l[1].id = 1
    BY DEF Log
  <2> QED BY <1>1, <2>1, <2>2
<1> HIDE DEF n, k
<1>4. ASSUME NEW id \in EventIDs(l) PROVE id \in Promised!Newest(k)
  <2>1. PICK i \in 1..n : id = l[i].id
    BY DEF EventIDs, n
  <2>2. id = k - (n - i) /\ id \in Nat \ {0}
    BY <1>2, <2>1
  <2>3. id \in 1..k /\ id + MaxEvents > k
    BY <1>1, <2>2
  <2> QED BY <2>3 DEF Promised!Newest
<1>5. ASSUME NEW id \in Promised!Newest(k) PROVE id \in EventIDs(l)
  <2>1. id \in 1..k /\ id + MaxEvents > k
    BY DEF Promised!Newest
  <2> DEFINE i == n - (k - id)
  <2>2. i \in 1..n /\ k - (n - i) = id
    BY <1>1, <1>3, <2>1
  <2> HIDE DEF i
  <2>3. l[i].id = id
    BY <1>2, <2>2
  <2> QED BY <2>2, <2>3 DEF EventIDs, n
<1>6. EventIDs(l) = Promised!Newest(k)
  BY <1>4, <1>5
<1> QED BY <1>6 DEF k

(* A step on the ring is an event of the feed, or none.                    *)
FeedMaps == Promised!Next \/ UNCHANGED <<nextEvID, EventIDs(snap.events)>>

LEMMA RingMaps ==
  ASSUME IInv, snap' = snap, UNCHANGED ring \/ \E of, status : Emit(of, status)
  PROVE  FeedMaps
<1>1. EventIDs(snap.events)' = EventIDs(snap.events)
  BY DEF EventIDs
<1>2. CASE UNCHANGED ring
  BY <1>1, <1>2 DEF FeedMaps, ring
<1>3. ASSUME NEW of, NEW status, Emit(of, status) PROVE FeedMaps
  <2>1. nextEvID' = nextEvID + 1
    BY <1>3 DEF Emit
  <2> QED BY <1>1, <2>1 DEF FeedMaps, Promised!Next, Promised!Happen
<1> QED BY <1>2, <1>3

(* What is published was copied after the last snapshot was.               *)
LEMMA PublishMaps ==
  ASSUME IInv, TickStep, Head(tickTodo)[1] = "publish", Publish
  PROVE  Promised!Publish
<1>1. PICK i \in 1..Len(TickSteps) : tickTodo = From(i)
  BY DEF IInv, InProgram, TickStep
<1>2. i = Len(TickSteps)
  <2>1. TickSteps[i][1] = "publish"
    BY <1>1, FromFacts
  <2> QED BY <2>1, TickLayout
<1>3. /\ Log(seen.events) /\ End(snap.events) <= End(seen.events) /\ End(seen.events) <= nextEvID
      /\ Log(snap.events) /\ nextEvID \in Nat
  BY <1>1, <1>2 DEF IInv
<1>4. snap'.events = seen.events /\ nextEvID' = nextEvID
  BY DEF Publish, ring
<1> DEFINE k == End(seen.events)
           old == End(snap.events)
<1>5. k \in Nat \ {0} /\ old \in Nat \ {0}
  <2>1. \A l : Log(l) => End(l) \in Nat \ {0}
    BY LogAssumption DEF Log, End
  <2> QED BY <1>3, <2>1
<1>6. EventIDs(snap.events)' = Promised!Newest(k)
  <2>1. EventIDs(seen.events) = Promised!Newest(k)
    BY <1>3, LogIsNewest
  <2>2. EventIDs(snap.events)' = EventIDs(seen.events)
    BY <1>4 DEF EventIDs
  <2> QED BY <2>1, <2>2
<1>7. EventIDs(snap.events) = Promised!Newest(old)
  BY <1>3, LogIsNewest
<1>8. k \in 1..nextEvID /\ old <= k
  BY <1>3, <1>5
<1> HIDE DEF k, old
<1>9. \A id \in EventIDs(snap.events) : id <= k
  BY <1>5, <1>7, <1>8 DEF Promised!Newest
<1> QED BY <1>4, <1>6, <1>8, <1>9 DEF Promised!Publish

LEMMA FeedStep == IInv /\ [Next]_vars => FeedMaps
<1> SUFFICES ASSUME IInv, [Next]_vars PROVE FeedMaps
  OBVIOUS
<1>1. CASE TickStep
  <2>1. CASE Head(tickTodo)[1] = "publish" /\ Publish
    BY <1>1, <2>1, PublishMaps DEF FeedMaps, Promised!Next
  <2>2. CASE ~(Head(tickTodo)[1] = "publish" /\ Publish)
    <3> DEFINE s == Head(tickTodo)
    <3>1. \/ Capture(s[2]) \/ Fold \/ ReadInjections(s[2]) \/ ReadEdge(s[2])
          \/ Transition(s[2]) \/ CopyEvents
      BY <1>1, <2>2 DEF TickStep
    <3>2. snap' = snap /\ (UNCHANGED ring \/ \E of, status : Emit(of, status))
      BY <3>1, Zenon DEF Capture, Fold, ReadInjections, ReadEdge, Transition, CopyEvents
    <3> QED BY <3>2, RingMaps
  <2> QED BY <2>1, <2>2
<1>2. ASSUME NEW o \in Operator, OpStep(o) PROVE FeedMaps
  <2>1. (UNCHANGED ring \/ Emit("operator", "OK")) /\ snap' = snap
    BY <1>2, Zenon DEF OpStep, tickVars
  <2> QED BY <2>1, RingMaps
<1>3. CASE \/ \E o \in Operator, r \in Request : Ask(o, r)
           \/ TickOnTimer \/ TickOnKick
           \/ \E m \in Node : Flip(m)
           \/ UNCHANGED vars
  <2>1. UNCHANGED ring /\ snap' = snap
    BY <1>3 DEF Ask, TickOnTimer, TickOnKick, Flip, vars, tickVars
  <2> QED BY <2>1, RingMaps
<1> QED BY <1>1, <1>2, <1>3 DEF Next

(* To its readers the engine is a feed: every snapshot carries exactly the *)
(* newest events up to its latest, as many as the ring holds, and none is  *)
(* older than the one before it (emit, eventsCopy and the publication in   *)
(* tick, engine.go 318-346 and 418-440).                                   *)
THEOREM FeedRefinement == Spec => ImplementsFeed
<1>1. Init => Promised!Init
  <2> SUFFICES ASSUME Init PROVE Promised!Init
    OBVIOUS
  <2>1. IInv
    BY InitHolds
  <2>2. snap.events = <<Started>> /\ nextEvID = 1
    BY DEF Init, Blank
  <2>3. End(snap.events) = 1
    BY <2>2 DEF End, Started
  <2>4. EventIDs(snap.events) = Promised!Newest(1)
    BY <2>1, <2>3, LogIsNewest DEF IInv
  <2> QED BY <2>2, <2>4 DEF Promised!Init
<1>2. IInv /\ [Next]_vars => [Promised!Next]_<<nextEvID, EventIDs(snap.events)>>
  BY FeedStep DEF FeedMaps
<1>3. Promised!Init /\ [][Promised!Next]_<<nextEvID, EventIDs(snap.events)>> => Promised!Spec
  BY DEF Promised!Spec
<1> QED BY <1>1, <1>2, <1>3, InitHolds, NextHolds, PTL DEF Spec, ImplementsFeed

-----------------------------------------------------------------------------
(* One more event leaves the verdict on other signals, and settles its own. *)
LEMMA AgreesAppend ==
  ASSUME NEW l, Log(l), NEW e, NEW of, NEW status,
         IF e.of = of THEN e.status = status ELSE Agrees(l, of, status)
  PROVE  LET all == Append(l, e)
             cut == IF Len(all) > MaxEvents THEN SubSeq(all, Len(all) - MaxEvents + 1, Len(all))
                                            ELSE all
         IN Agrees(cut, of, status)
<1> DEFINE all == Append(l, e)
<1>1. PICK S : l \in Seq(S)
  BY DEF Log
<1> DEFINE T == S \union {e}
<1>2. l \in Seq(T) /\ e \in T
  BY <1>1, SeqMonotonic
<1>3. /\ all \in Seq(T) /\ Len(all) = Len(l) + 1
      /\ \A i \in 1..Len(l) : all[i] = l[i]
      /\ all[Len(l) + 1] = e
  BY <1>2, AppendProperties
<1>4. Len(l) \in 1..MaxEvents /\ Len(l) \in Nat /\ Len(all) \in Nat
  BY <1>3, LogAssumption DEF Log
<1> HIDE DEF all, T
<1>5. ASSUME NEW i \in 1..Len(all), all[i].of = of,
             \A j \in (i + 1)..Len(all) : all[j].of # of
      PROVE  all[i].status = status
  <2>1. CASE i = Len(all)
    <3>1. all[i] = e
      BY <1>3, <2>1
    <3> QED BY <1>5, <3>1
  <2>2. CASE i # Len(all)
    <3>1. i \in 1..Len(l) /\ Len(all) \in (i + 1)..Len(all)
      BY <1>3, <1>4, <2>2
    <3>2. all[Len(all)] = e
      BY <1>3
    <3>3. e.of # of
      BY <1>5, <3>1, <3>2
    <3>4. \A j \in (i + 1)..Len(l) : l[j].of # of
      <4> SUFFICES ASSUME NEW j \in (i + 1)..Len(l) PROVE l[j].of # of
        OBVIOUS
      <4>1. j \in (i + 1)..Len(all) /\ j \in 1..Len(l)
        BY <1>3, <1>4, <3>1
      <4> QED BY <1>3, <1>5, <4>1
    <3>5. l[i].of = of /\ all[i] = l[i]
      BY <1>3, <1>5, <3>1
    <3>6. Agrees(l, of, status)
      BY <3>3
    <3> QED BY <3>1, <3>4, <3>5, <3>6 DEF Agrees
  <2> QED BY <2>1, <2>2
<1>6. CASE Len(all) > MaxEvents
  <2> DEFINE m == Len(all) - MaxEvents + 1
             cut == SubSeq(all, m, Len(all))
  <2>1. m = 2 /\ Len(all) = MaxEvents + 1
    BY <1>3, <1>4, <1>6, LogAssumption
  <2>2. \A i \in m..Len(all) : all[i] \in T
    BY <1>3, <1>4, <2>1
  <2>3. /\ cut \in Seq(T)
        /\ Len(cut) = IF m <= Len(all) THEN Len(all) - m + 1 ELSE 0
        /\ \A i \in 1..(Len(all) - m + 1) : cut[i] = all[m + i - 1]
    BY <1>4, <2>1, <2>2, SubSeqProperties
  <2>4. Len(cut) = MaxEvents
    BY <1>4, <2>1, <2>3, LogAssumption
  <2>5. \A i \in 1..MaxEvents : cut[i] = all[i + 1]
    BY <1>4, <2>1, <2>3, LogAssumption
  <2> HIDE DEF cut, m
  <2>6. ASSUME NEW i \in 1..MaxEvents, cut[i].of = of,
               \A j \in (i + 1)..MaxEvents : cut[j].of # of
        PROVE  cut[i].status = status
    <3>1. i + 1 \in 1..Len(all) /\ cut[i] = all[i + 1]
      BY <2>1, <2>5, LogAssumption
    <3>2. ASSUME NEW j \in ((i + 1) + 1)..Len(all) PROVE all[j].of # of
      <4>1. j - 1 \in (i + 1)..MaxEvents /\ j - 1 \in 1..MaxEvents /\ (j - 1) + 1 = j
        BY <2>1, LogAssumption
      <4>2. cut[j - 1] = all[j]
        BY <2>5, <4>1
      <4> QED BY <2>6, <4>1, <4>2
    <3> QED BY <1>5, <2>6, <3>1, <3>2
  <2>7. Agrees(cut, of, status)
    BY <2>4, <2>6 DEF Agrees
  <2> QED BY <1>6, <2>7 DEF cut, m, all
<1>7. CASE ~(Len(all) > MaxEvents)
  <2>1. Agrees(all, of, status)
    BY <1>5 DEF Agrees
  <2> QED BY <1>7, <2>1 DEF all
<1> QED BY <1>6, <1>7

LEMMA EmitAgrees ==
  ASSUME Log(events), NEW f, NEW st, Emit(f, st), NEW of, NEW status,
         IF f = of THEN st = status ELSE Agrees(events, of, status)
  PROVE  Agrees(events', of, status)
<1> DEFINE e == [id |-> nextEvID + 1, of |-> f, status |-> st]
<1>1. IF e.of = of THEN e.status = status ELSE Agrees(events, of, status)
  OBVIOUS
<1> HIDE DEF e
<1>2. LET all == Append(events, e)
          cut == IF Len(all) > MaxEvents THEN SubSeq(all, Len(all) - MaxEvents + 1, Len(all))
                                         ELSE all
      IN Agrees(cut, of, status)
  BY <1>1, AgreesAppend
<1> QED BY <1>2 DEF Emit, e

(* Where the transitions are in the tick's program: the fold comes before  *)
(* all of them, and the copy after every one.                              *)
FoldFirst(s) == \A i \in 1..Len(s) : \A j \in 1..(i - 1) : s[i][1] = "fold" => s[j][1] # "transition"
Without(kind, s) == \A i \in 1..Len(s) : s[i][1] # kind

LEMMA FoldFirstConcat ==
  ASSUME NEW S, NEW s \in Seq(S), NEW t \in Seq(S), FoldFirst(s), FoldFirst(t),
         Without("fold", t) \/ Without("transition", s)
  PROVE  FoldFirst(s \o t)
<1> DEFINE u == s \o t
           m == Len(s)
<1>1. /\ Len(u) = m + Len(t) /\ m \in Nat /\ Len(t) \in Nat
      /\ \A i \in 1..(m + Len(t)) : u[i] = IF i <= m THEN s[i] ELSE t[i - m]
  BY ConcatProperties
<1> SUFFICES ASSUME NEW i \in 1..Len(u), NEW j \in 1..(i - 1), u[i][1] = "fold"
             PROVE  u[j][1] # "transition"
  BY DEF FoldFirst
<1> HIDE DEF u, m
<1>2. i \in 1..(m + Len(t)) /\ j \in 1..(m + Len(t)) /\ j < i
  BY <1>1
<1>3. CASE i <= m
  <2>1. u[i] = s[i] /\ u[j] = s[j] /\ i \in 1..m /\ j \in 1..(i - 1)
    BY <1>1, <1>2, <1>3
  <2> QED BY <2>1 DEF FoldFirst, m
<1>4. CASE i > m
  <2>1. u[i] = t[i - m] /\ i - m \in 1..Len(t)
    BY <1>1, <1>2, <1>4
  <2>2. Without("transition", s)
    BY <2>1 DEF Without
  <2>3. CASE j <= m
    <3>1. u[j] = s[j] /\ j \in 1..m
      BY <1>1, <1>2, <2>3
    <3> QED BY <2>2, <3>1 DEF Without, m
  <2>4. CASE j > m
    <3>1. u[j] = t[j - m] /\ j - m \in 1..((i - m) - 1)
      BY <1>1, <1>2, <2>4
    <3> QED BY <2>1, <3>1 DEF FoldFirst
  <2> QED BY <1>1, <1>2, <2>3, <2>4
<1> QED BY <1>1, <1>2, <1>3, <1>4

LEMMA WithoutConcat ==
  ASSUME NEW S, NEW s \in Seq(S), NEW t \in Seq(S), NEW kind, Without(kind, s), Without(kind, t)
  PROVE  Without(kind, s \o t)
<1> DEFINE u == s \o t
           m == Len(s)
<1>1. /\ Len(u) = m + Len(t) /\ m \in Nat /\ Len(t) \in Nat
      /\ \A i \in 1..(m + Len(t)) : u[i] = IF i <= m THEN s[i] ELSE t[i - m]
  BY ConcatProperties
<1> SUFFICES ASSUME NEW i \in 1..Len(u) PROVE u[i][1] # kind
  BY DEF Without
<1> HIDE DEF u
<1>2. CASE i <= m
  BY <1>1, <1>2 DEF Without
<1>3. CASE i > m
  <2>1. u[i] = t[i - m] /\ i - m \in 1..Len(t)
    BY <1>1, <1>3
  <2> QED BY <2>1 DEF Without
<1> QED BY <1>1, <1>2, <1>3

LEMMA EachWithout ==
  ASSUME NEW S, NEW list \in Seq(S), NEW kind, NEW other, kind # other
  PROVE  /\ Without(other, Each(kind, list))
         /\ Len(Each(kind, list)) = Len(list)
         /\ \A i \in 1..Len(list) : Each(kind, list)[i] = <<kind, list[i], "">>
<1> DEFINE n == Len(list)
           u == Each(kind, list)
           R == {u[i] : i \in 1..n}
<1>1. n \in Nat
  OBVIOUS
<1>2. u = [i \in 1..n |-> <<kind, list[i], "">>]
  BY DEF Each
<1>3. \A i \in 1..n : u[i] = <<kind, list[i], "">> /\ u[i][1] = kind
  <2>1. \A i \in 1..n : u[i] = <<kind, list[i], "">>
    BY <1>2
  <2>2. \A x : <<kind, x, "">>[1] = kind
    OBVIOUS
  <2> HIDE DEF u
  <2> QED BY <2>1, <2>2, Zenon
<1>4. DOMAIN u = 1..n /\ u \in [1..n -> R]
  <2>1. DOMAIN u = 1..n /\ u = [i \in 1..n |-> u[i]]
    BY <1>2
  <2> HIDE DEF u
  <2> QED BY <2>1
<1> HIDE DEF n, u, R
<1>5. u \in Seq(R)
  BY <1>1, <1>4, SeqDef
<1>6. Len(u) = n
  <2>1. Len(u) \in Nat /\ DOMAIN u = 1..Len(u)
    BY <1>5, LenProperties
  <2> QED BY <1>1, <1>4, <2>1
<1>7. Without(other, u)
  BY <1>3, <1>6 DEF Without
<1> QED BY <1>3, <1>6, <1>7 DEF u, n

LEMMA TickOrder ==
  /\ FoldFirst(TickSteps)
  /\ \A of \in Signals : \E j \in 1..(Len(TickSteps) - 2) :
       TickSteps[j][1] = "transition" /\ TickSteps[j][2] = of
  /\ \A j \in 1..Len(TickSteps) : TickSteps[j][1] = "transition" => TickSteps[j][2] \in Signals
<1> DEFINE fold == <<"fold", "", "">>
           headline == <<"transition", "headline", "">>
           K == Each("capture", Nodes)
           I == Each("injections", Nodes)
           E == Each("edge", Edges)
           X == Each("transition", Nodes)
           F == <<fold>>
           Z == <<headline, CopyStep, PublishStep>>
           Q == Quiet \union {CopyStep, PublishStep}
           B == K \o F \o I \o E
           n == Len(Nodes)
<1>1. TickSteps = (B \o X) \o Z
  BY DEF TickSteps, CopyStep, PublishStep
<1>2. fold \in Quiet /\ headline \in Quiet
  BY DEF Quiet
<1>3. Nodes \in Seq(Node) /\ Edges \in Seq(Edge)
  BY GraphAssumption
<1>4. K \in Seq(Quiet) /\ I \in Seq(Quiet) /\ E \in Seq(Quiet) /\ X \in Seq(Quiet)
  BY <1>3, EachQuiet
<1>5. /\ Without("transition", K) /\ Without("fold", K)
      /\ Without("fold", I) /\ Without("fold", E) /\ Without("fold", X)
      /\ Without("transition", I) /\ Without("transition", E)
  BY <1>3, EachWithout
<1>6. Len(X) = n /\ \A k \in 1..n : X[k] = <<"transition", Nodes[k], "">>
  <2>1. "transition" # "fold"
    OBVIOUS
  <2> QED BY <1>3, <2>1, EachWithout, Zenon
<1>7. \A k \in 1..n : X[k][1] = "transition" /\ X[k][2] = Nodes[k]
  <2>1. \A x : <<"transition", x, "">>[1] = "transition" /\ <<"transition", x, "">>[2] = x
    OBVIOUS
  <2> HIDE DEF X, n
  <2> SUFFICES ASSUME NEW k \in 1..n PROVE X[k][1] = "transition" /\ X[k][2] = Nodes[k]
    BY Zenon
  <2>2. X[k] = <<"transition", Nodes[k], "">>
    BY <1>6, Zenon
  <2> QED BY <2>1, <2>2, Zenon
<1>8. n \in Nat /\ (\A k \in 1..n : Nodes[k] \in Node) /\ \A m \in Node : \E k \in 1..n : Nodes[k] = m
  <2>1. Range(Nodes) = Node
    BY GraphAssumption
  <2> QED BY <1>3, <2>1 DEF Range
<1>9. fold[1] = "fold" /\ headline[1] = "transition" /\ headline[2] = "headline"
      /\ CopyStep[1] = "copy" /\ PublishStep[1] = "publish"
  BY DEF CopyStep, PublishStep
<1> HIDE DEF fold, headline, K, I, E, X
<1>10. F \in Seq(Quiet) /\ Len(F) = 1 /\ F[1] = fold
  BY <1>2, OneStep
<1>11. Z \in Seq(Q) /\ Len(Z) = 3 /\ Z[1] = headline /\ Z[2] = CopyStep /\ Z[3] = PublishStep
  BY <1>2, ThreeSteps
<1> HIDE DEF F, Z
<1>12. Without("fold", Z)
  BY <1>9, <1>11 DEF Without
<1>13. FoldFirst(F) /\ Without("transition", F)
  BY <1>9, <1>10 DEF FoldFirst, Without
<1>14. \A s : Without("fold", s) => FoldFirst(s)
  BY Zenon DEF Without, FoldFirst
<1>15. B \in Seq(Quiet) /\ FoldFirst(B) /\ Without("transition", B)
  <2>1. K \o F \in Seq(Quiet) /\ FoldFirst(K \o F) /\ Without("transition", K \o F)
    BY <1>4, <1>5, <1>10, <1>13, <1>14, ConcatProperties, FoldFirstConcat, WithoutConcat
  <2> DEFINE G == K \o F
  <2> HIDE DEF G
  <2>2. G \o I \in Seq(Quiet) /\ FoldFirst(G \o I) /\ Without("transition", G \o I)
    BY <1>4, <1>5, <1>14, <2>1, ConcatProperties, FoldFirstConcat, WithoutConcat DEF G
  <2> DEFINE H == G \o I
  <2> HIDE DEF H
  <2>3. H \o E \in Seq(Quiet) /\ FoldFirst(H \o E) /\ Without("transition", H \o E)
    BY <1>4, <1>5, <1>14, <2>2, ConcatProperties, FoldFirstConcat, WithoutConcat DEF H
  <2> QED BY <2>3 DEF G, H
<1> HIDE DEF B
<1> DEFINE A == B \o X
           b == Len(B)
<1>16. A \in Seq(Quiet) /\ FoldFirst(A)
  BY <1>4, <1>5, <1>14, <1>15, ConcatProperties, FoldFirstConcat
<1>17. /\ Len(A) = b + n /\ b \in Nat
       /\ \A i \in 1..(b + n) : A[i] = IF i <= b THEN B[i] ELSE X[i - b]
  <2>1. /\ Len(B \o X) = Len(B) + Len(X)
        /\ \A i \in 1..(Len(B) + Len(X)) : (B \o X)[i] = IF i <= Len(B) THEN B[i] ELSE X[i - Len(B)]
    BY <1>4, <1>15, ConcatProperties
  <2>2. Len(B) \in Nat
    BY <1>15
  <2> HIDE DEF n
  <2> QED BY <1>6, <2>1, <2>2
<1> HIDE DEF A
<1>18. A \in Seq(Q) /\ TickSteps = A \o Z
  BY <1>1, <1>16, SeqMonotonic DEF A
<1> HIDE DEF Q
<1>19. FoldFirst(TickSteps)
  BY <1>11, <1>12, <1>14, <1>16, <1>18, FoldFirstConcat
<1>20. /\ Len(TickSteps) = b + n + 3
       /\ \A i \in 1..(b + n + 3) : TickSteps[i] = IF i <= b + n THEN A[i] ELSE Z[i - (b + n)]
  <2>1. /\ Len(A \o Z) = Len(A) + Len(Z)
        /\ \A i \in 1..(Len(A) + Len(Z)) : (A \o Z)[i] = IF i <= Len(A) THEN A[i] ELSE Z[i - Len(A)]
    BY <1>11, <1>18, ConcatProperties
  <2>2. Len(Z) = 3 /\ Len(A) = b + n
    BY <1>11, <1>17
  <2> QED BY <1>18, <2>1, <2>2
<1> HIDE DEF n, b
<1>21. /\ \A k \in 1..n : TickSteps[b + k] = X[k]
       /\ TickSteps[b + n + 1] = headline
       /\ TickSteps[b + n + 2] = CopyStep /\ TickSteps[b + n + 3] = PublishStep
       /\ \A i \in 1..b : TickSteps[i] = B[i]
  <2>1. ASSUME NEW k \in 1..n PROVE TickSteps[b + k] = X[k]
    <3>1. b + k \in 1..(b + n + 3) /\ b + k \in 1..(b + n) /\ b + k <= b + n /\ ~(b + k <= b) /\ (b + k) - b = k
      BY <1>8, <1>17
    <3>2. TickSteps[b + k] = A[b + k]
      BY <1>20, <3>1
    <3> QED BY <1>17, <3>1, <3>2
  <2>2. ASSUME NEW d \in 1..3 PROVE TickSteps[b + n + d] = Z[d]
    <3>1. b + n + d \in 1..(b + n + 3) /\ ~(b + n + d <= b + n) /\ (b + n + d) - (b + n) = d
      BY <1>8, <1>17
    <3> QED BY <1>20, <3>1
  <2>3. ASSUME NEW i \in 1..b PROVE TickSteps[i] = B[i]
    <3>1. i \in 1..(b + n + 3) /\ i \in 1..(b + n) /\ i <= b + n /\ i <= b
      BY <1>8, <1>17
    <3> QED BY <1>17, <1>20, <3>1
  <2>4. 1 \in 1..3 /\ 2 \in 1..3 /\ 3 \in 1..3
    OBVIOUS
  <2> QED BY <1>11, <2>1, <2>2, <2>3, <2>4
<1>22. ASSUME NEW of \in Signals
       PROVE  \E j \in 1..(Len(TickSteps) - 2) : TickSteps[j][1] = "transition" /\ TickSteps[j][2] = of
  <2>1. CASE of = "headline"
    <3>1. b + n + 1 \in 1..(Len(TickSteps) - 2)
      BY <1>8, <1>17, <1>20
    <3> QED BY <1>9, <1>21, <2>1, <3>1
  <2>2. CASE of \in Node
    <3>1. PICK k \in 1..n : Nodes[k] = of
      BY <1>8, <2>2
    <3>2. b + k \in 1..(Len(TickSteps) - 2)
      BY <1>8, <1>17, <1>20
    <3> QED BY <1>7, <1>21, <3>1, <3>2
  <2> QED BY <2>1, <2>2 DEF Signals
<1>23. ASSUME NEW j \in 1..Len(TickSteps), TickSteps[j][1] = "transition"
       PROVE  TickSteps[j][2] \in Signals
  <2>1. CASE j \in 1..b
    BY <1>15, <1>21, <1>23, <2>1 DEF Without, b
  <2>2. CASE j \in (b + 1)..(b + n)
    <3>1. j - b \in 1..n /\ b + (j - b) = j
      BY <1>8, <1>17, <2>2
    <3>2. TickSteps[j] = X[j - b]
      BY <1>21, <3>1
    <3> QED BY <1>7, <1>8, <3>1, <3>2 DEF Signals
  <2>3. CASE j \in (b + n + 1)..(b + n + 3)
    <3>1. j = b + n + 1 \/ j = b + n + 2 \/ j = b + n + 3
      BY <1>8, <1>17, <2>3
    <3>2. j = b + n + 1
      BY <1>9, <1>21, <1>23, <3>1
    <3> QED BY <1>9, <1>21, <3>2 DEF Signals
  <2> QED BY <1>8, <1>17, <1>20, <2>1, <2>2, <2>3
<1> QED BY <1>19, <1>22, <1>23

-----------------------------------------------------------------------------
(* The ring's latest transition of a signal is what prev holds for it; for *)
(* those the tick has passed, that is what the fold found; and the copy    *)
(* comes when it has passed them all.                                      *)
Passed(i, of) == \E j \in 1..(i - 1) : TickSteps[j][1] = "transition" /\ TickSteps[j][2] = of
BannerInv ==
  /\ DOMAIN prev = Signals /\ "rollup" \in DOMAIN seen
  /\ \A of \in Signals : Agrees(events, of, prev[of])
  /\ \A of \in Signals : Agrees(snap.events, of, Banner(snap.rollup, of))
  /\ \A i \in 1..Len(TickSteps) : tickTodo = From(i) =>
       \A of \in Signals : Passed(i, of) => prev[of] = Banner(seen.rollup, of)
  /\ tickTodo = From(Len(TickSteps)) =>
       \A of \in Signals : Agrees(seen.events, of, Banner(seen.rollup, of))

LEMMA FromInjective ==
  ASSUME NEW i \in 1..Len(TickSteps), NEW j \in 1..Len(TickSteps), From(i) = From(j)
  PROVE  i = j
<1>1. Len(TickSteps) - i + 1 = Len(TickSteps) - j + 1
  BY FromFacts
<1> QED BY <1>1, TickLayout

LEMMA BannerInit == Init => BannerInv
<1> SUFFICES ASSUME Init PROVE BannerInv
  OBVIOUS
<1> DEFINE l == <<Started>>
<1>1. ASSUME NEW of \in Signals, NEW status PROVE Agrees(l, of, status)
  <2>1. Len(l) = 1 /\ l[1] = Started
    OBVIOUS
  <2>2. Started.of = "engine" /\ of # "engine"
    BY SignalAssumption DEF Started, Signals
  <2> HIDE DEF l
  <2>3. \A i \in 1..Len(l) : l[i].of # of
    BY <2>1, <2>2
  <2> QED BY <2>3 DEF Agrees
<1>2. events = l /\ tickTodo = <<>> /\ seen = Blank /\ prev = [of \in Signals |-> "OK"]
  BY DEF Init
<1>3. snap.events = l
  BY DEF Init, Blank
<1>4. "rollup" \in DOMAIN seen
  BY <1>2 DEF Blank
<1>5. \A i \in 1..Len(TickSteps) : tickTodo # From(i)
  BY <1>2, FromFacts
<1>6. Len(TickSteps) \in 1..Len(TickSteps)
  BY TickLayout
<1> HIDE DEF l
<1> QED BY <1>1, <1>2, <1>3, <1>4, <1>5, <1>6 DEF BannerInv

LEMMA BannerOthers ==
  ASSUME IInv, BannerInv, UNCHANGED tickVars, UNCHANGED ring \/ Emit("operator", "OK")
  PROVE  BannerInv'
<1>1. tickTodo' = tickTodo /\ seen' = seen /\ snap' = snap /\ prev' = prev
  BY DEF tickVars
<1>2. ASSUME NEW of \in Signals PROVE Agrees(events', of, prev[of])
  <2>1. CASE UNCHANGED ring
    BY <2>1 DEF ring, BannerInv
  <2>2. CASE Emit("operator", "OK")
    <3>1. "operator" # of
      BY SignalAssumption DEF Signals
    <3> QED BY <2>2, <3>1, EmitAgrees DEF BannerInv, IInv
  <2> QED BY <2>1, <2>2
<1> QED BY <1>1, <1>2 DEF BannerInv, Passed

LEMMA BannerTick ==
  ASSUME IInv, BannerInv, TickStep
  PROVE  BannerInv'
<1> DEFINE n == Len(TickSteps)
<1>1. PICK i \in 1..n : tickTodo = From(i)
  BY DEF IInv, InProgram, TickStep
<1>2. n \in Nat /\ n >= 2
  BY TickLayout
<1> DEFINE s == TickSteps[i]
<1>3. Head(tickTodo) = s /\ tickTodo' = IF i = n THEN <<>> ELSE From(i + 1)
  BY <1>1, FromFacts DEF TickStep
<1>4. ASSUME NEW k \in 1..n, tickTodo' = From(k) PROVE k = i + 1 /\ i # n
  <2>1. i # n
    BY <1>3, <1>4, FromFacts
  <2>2. i + 1 \in 1..n /\ From(i + 1) = From(k)
    BY <1>2, <1>3, <1>4, <2>1
  <2> QED BY <2>1, <2>2, FromInjective
<1>5. ASSUME NEW of, Passed(i + 1, of)
      PROVE  Passed(i, of) \/ (s[1] = "transition" /\ s[2] = of)
  BY <1>2, <1>5 DEF Passed
<1>6. \A of \in Signals : Passed(i, of) => prev[of] = Banner(seen.rollup, of)
  BY <1>1 DEF BannerInv
<1>7. \A of \in Signals : Agrees(events, of, prev[of])
  BY DEF BannerInv
<1>8. \A of \in Signals : Agrees(snap.events, of, Banner(snap.rollup, of))
  BY DEF BannerInv
<1>9. ASSUME tickTodo' = From(n) PROVE s = CopyStep /\ \A of \in Signals : Passed(i, of)
  <2>1. n \in 1..n /\ n = i + 1
    BY <1>2, <1>4, <1>9
  <2>2. s = CopyStep
    BY <1>2, <2>1, TickLayout
  <2>3. i - 1 = n - 2
    BY <1>2, <2>1
  <2> QED BY <2>2, <2>3, TickOrder DEF Passed
<1>10. s[1] = "copy" \/ s[1] # "copy"
  OBVIOUS
<1>11. CopyStep[1] = "copy"
  BY DEF CopyStep
(* Steps that leave ring, prev and the snapshot alone.                     *)
<1>12. ASSUME s[1] # "copy", s[1] # "transition", UNCHANGED <<ring, prev, snap>>, "rollup" \in DOMAIN seen',
              \A of \in Signals : Passed(i, of) => prev[of] = Banner(seen'.rollup, of)
       PROVE  BannerInv'
  <2>1. events' = events /\ prev' = prev /\ snap' = snap
    BY <1>12 DEF ring
  <2>2. tickTodo' # From(n)
    BY <1>9, <1>11, <1>12
  <2>3. ASSUME NEW k \in 1..n, tickTodo' = From(k), NEW of \in Signals, Passed(k, of)
        PROVE  prev'[of] = Banner(seen'.rollup, of)
    BY <1>4, <1>5, <1>12, <2>1, <2>3
  <2>4. DOMAIN prev' = Signals
    BY <2>1 DEF BannerInv
  <2> QED BY <1>7, <1>8, <1>12, <2>1, <2>2, <2>3, <2>4 DEF BannerInv, Passed
<1>13. CASE \/ s[1] = "capture" /\ Capture(s[2])
            \/ s[1] = "injections" /\ ReadInjections(s[2])
            \/ s[1] = "edge" /\ ReadEdge(s[2])
  <2>1. seen'.rollup = seen.rollup /\ "rollup" \in DOMAIN seen'
    BY <1>13 DEF Capture, ReadInjections, ReadEdge, BannerInv
  <2>2. UNCHANGED <<ring, prev, snap>> /\ s[1] # "copy" /\ s[1] # "transition"
    BY <1>13 DEF Capture, ReadInjections, ReadEdge
  <2> QED BY <1>6, <1>12, <2>1, <2>2
<1>14. CASE s[1] = "fold" /\ Fold
  <2>1. "rollup" \in DOMAIN seen' /\ UNCHANGED <<ring, prev, snap>>
    BY <1>14 DEF Fold, BannerInv
  <2>2. \A of : ~Passed(i, of)
    BY <1>14, TickOrder DEF Passed, FoldFirst
  <2> QED BY <1>12, <1>14, <2>1, <2>2
<1>15. CASE s[1] = "transition" /\ Transition(s[2])
  <2> DEFINE f == s[2]
             cur == Banner(seen.rollup, f)
  <2>1. f \in Signals
    BY <1>15, TickOrder
  <2>2. /\ IF prev[f] # cur THEN Emit(f, cur) ELSE UNCHANGED ring
        /\ prev' = [prev EXCEPT ![f] = cur]
        /\ seen' = seen /\ snap' = snap
    BY <1>15 DEF Transition
  <2> HIDE DEF f, cur
  <2>3. DOMAIN prev' = Signals /\ \A of \in Signals : prev'[of] = IF of = f THEN cur ELSE prev[of]
    BY <2>1, <2>2 DEF BannerInv
  <2>4. ASSUME NEW of \in Signals PROVE Agrees(events', of, prev'[of])
    <3>1. CASE prev[f] = cur
      BY <1>7, <2>2, <2>3, <3>1 DEF ring
    <3>2. CASE prev[f] # cur
      <4>1. Emit(f, cur) /\ Log(events)
        BY <2>2, <3>2 DEF IInv
      <4>2. IF f = of THEN cur = prev'[of] ELSE Agrees(events, of, prev'[of])
        BY <1>7, <2>3
      <4> QED BY <4>1, <4>2, EmitAgrees
    <3> QED BY <3>1, <3>2
  <2>5. ASSUME NEW k \in 1..n, tickTodo' = From(k), NEW of \in Signals, Passed(k, of)
        PROVE  prev'[of] = Banner(seen'.rollup, of)
    <3>1. Passed(i, of) \/ of = f
      BY <1>4, <1>5, <2>5 DEF f
    <3> QED BY <1>6, <2>2, <2>3, <3>1 DEF cur
  <2>6. tickTodo' # From(n)
    BY <1>9, <1>11, <1>15
  <2> QED BY <1>8, <2>2, <2>3, <2>4, <2>5, <2>6 DEF BannerInv, Passed
<1>16. CASE s[1] = "copy" /\ CopyEvents
  <2>1. seen'.events = events /\ seen'.rollup = seen.rollup /\ "rollup" \in DOMAIN seen'
    BY <1>16 DEF CopyEvents, BannerInv, IInv
  <2>2. events' = events /\ prev' = prev /\ snap' = snap
    BY <1>16 DEF CopyEvents, ring
  <2>3. ASSUME NEW k \in 1..n, tickTodo' = From(k), NEW of \in Signals, Passed(k, of)
        PROVE  prev'[of] = Banner(seen'.rollup, of)
    BY <1>4, <1>5, <1>6, <1>16, <2>1, <2>2, <2>3
  <2>4. ASSUME tickTodo' = From(n), NEW of \in Signals
        PROVE  Agrees(seen'.events, of, Banner(seen'.rollup, of))
    <3>1. prev[of] = Banner(seen.rollup, of)
      BY <1>6, <1>9, <2>4
    <3> QED BY <1>7, <2>1, <3>1
  <2>5. DOMAIN prev' = Signals
    BY <2>2 DEF BannerInv
  <2> QED BY <1>7, <1>8, <2>1, <2>2, <2>3, <2>4, <2>5 DEF BannerInv, Passed
<1>17. CASE s[1] = "publish" /\ Publish
  <2>1. i = n /\ tickTodo' = <<>>
    BY <1>2, <1>3, <1>17, TickLayout
  <2>2. snap' = seen /\ seen' = Blank /\ events' = events /\ prev' = prev
    BY <1>17 DEF Publish, ring
  <2>3. \A of \in Signals : Agrees(seen.events, of, Banner(seen.rollup, of))
    BY <1>1, <2>1 DEF BannerInv
  <2>4. n \in 1..n /\ \A k \in 1..n : tickTodo' # From(k)
    BY <1>2, <2>1, FromFacts
  <2>5. "rollup" \in DOMAIN seen' /\ DOMAIN prev' = Signals
    BY <2>2 DEF Blank, BannerInv
  <2> QED BY <1>7, <2>2, <2>3, <2>4, <2>5 DEF BannerInv
<1> QED BY <1>3, <1>13, <1>14, <1>15, <1>16, <1>17 DEF TickStep

LEMMA BannerNext == IInv /\ BannerInv /\ [Next]_vars => BannerInv'
<1> SUFFICES ASSUME IInv, BannerInv, [Next]_vars PROVE BannerInv'
  OBVIOUS
<1>1. ASSUME NEW o \in Operator, OpStep(o) PROVE BannerInv'
  <2>1. UNCHANGED ring \/ Emit("operator", "OK")
    BY <1>1, Zenon DEF OpStep
  <2> QED BY <1>1, <2>1, BannerOthers DEF OpStep
<1>2. ASSUME NEW o \in Operator, NEW r \in Request, Ask(o, r) PROVE BannerInv'
  BY <1>2, BannerOthers DEF Ask
<1>3. CASE TickOnTimer \/ TickOnKick
  <2>1. tickTodo' = TickSteps /\ UNCHANGED <<ring, seen, snap, prev>>
    BY <1>3 DEF TickOnTimer, TickOnKick
  <2>2. TickSteps = From(1) /\ 1 \in 1..Len(TickSteps) /\ Len(TickSteps) \in 1..Len(TickSteps)
    BY TickLayout, SubSeqFull DEF From
  <2>3. \A k \in 1..Len(TickSteps) : tickTodo' = From(k) => k = 1
    BY <2>1, <2>2, FromInjective
  <2>4. \A of : ~Passed(1, of)
    BY DEF Passed
  <2>5. Len(TickSteps) # 1
    BY TickLayout
  <2> QED BY <2>1, <2>2, <2>3, <2>4, <2>5 DEF BannerInv, ring, Passed
<1>4. CASE TickStep
  BY <1>4, BannerTick
<1>5. ASSUME NEW m \in Node, Flip(m) PROVE BannerInv'
  BY <1>5, BannerOthers DEF Flip
<1>6. CASE UNCHANGED vars
  BY <1>6, BannerOthers DEF vars
<1> QED BY <1>1, <1>2, <1>3, <1>4, <1>5, <1>6 DEF Next

(* In every snapshot the latest transition of a node, and of the headline, *)
(* that its event list still holds is the status the snapshot shows (tick, *)
(* engine.go 300-336), whatever operators emit while the tick runs.        *)
THEOREM BannerAgrees == Spec => []LogMatchesBanner
<1>1. BannerInv => LogMatchesBanner
  BY DEF BannerInv, LogMatchesBanner
<1> QED BY <1>1, InitHolds, NextHolds, BannerInit, BannerNext, PTL DEF Spec

-----------------------------------------------------------------------------
(* What a request consists of.                                             *)
OpSteps ==
  ({"mult"} \X Node \X {"x1", "x10"}) \union ({"fail"} \X Node \X {"none", "some"})
    \union ({"latch"} \X Node \X {"open"})
    \union {s \in {"mode"} \X Edge \X Modes : s[3] = "gated" => s[2][2] \in Gate}
    \union {EmitEvent, Kick}
EndsInKick(t) == t # <<>> => t[Len(t)] = Kick

LEMMA StepForms ==
  ASSUME NEW s \in OpSteps
  PROVE  /\ s[1] = "mult" => s[2] \in Node /\ s[3] \in {"x1", "x10"}
         /\ s[1] = "fail" => s[2] \in Node /\ s[3] \in {"none", "some"}
         /\ s[1] = "mode" => s[2] \in Edge /\ s[3] \in Modes /\ (s[3] = "gated" => s[2][2] \in Gate)
<1>1. CASE s \in {"mult"} \X Node \X {"x1", "x10"}
  BY <1>1
<1>2. CASE s \in {"fail"} \X Node \X {"none", "some"}
  BY <1>2
<1>3. CASE s \in {"latch"} \X Node \X {"open"}
  BY <1>3
<1>4. CASE s \in {t \in {"mode"} \X Edge \X Modes : t[3] = "gated" => t[2][2] \in Gate}
  BY <1>4
<1>5. CASE s \in {EmitEvent, Kick}
  <2>1. EmitEvent[1] = "emit" /\ Kick[1] = "kick"
    BY DEF EmitEvent, Kick
  <2> QED BY <1>5, <2>1
<1> QED BY <1>1, <1>2, <1>3, <1>4, <1>5 DEF OpSteps

LEMMA SetSteps ==
  /\ \A n \in Node : \A v \in {"x1", "x10"} : SetMult(n, v) \in OpSteps
  /\ \A n \in Node : \A v \in {"none", "some"} : SetFail(n, v) \in OpSteps
  /\ \A n \in Node : ClearLatch(n) \in OpSteps
  /\ \A e \in Edge : \A m \in Modes : (m = "gated" => e[2] \in Gate) => SetMode(e, m) \in OpSteps
  /\ EmitEvent \in OpSteps /\ Kick \in OpSteps
<1>1. \A n \in Node : \A v \in {"x1", "x10"} : SetMult(n, v) \in {"mult"} \X Node \X {"x1", "x10"}
  BY DEF SetMult
<1>2. \A n \in Node : \A v \in {"none", "some"} : SetFail(n, v) \in {"fail"} \X Node \X {"none", "some"}
  BY DEF SetFail
<1>3. \A n \in Node : ClearLatch(n) \in {"latch"} \X Node \X {"open"}
  BY DEF ClearLatch
<1>4. ASSUME NEW e \in Edge, NEW m \in Modes, m = "gated" => e[2] \in Gate
      PROVE  SetMode(e, m) \in {t \in {"mode"} \X Edge \X Modes : t[3] = "gated" => t[2][2] \in Gate}
  <2>1. SetMode(e, m) = <<"mode", e, m>>
    BY DEF SetMode
  <2>2. <<"mode", e, m>> \in {"mode"} \X Edge \X Modes
    OBVIOUS
  <2>3. <<"mode", e, m>>[2] = e /\ <<"mode", e, m>>[3] = m
    OBVIOUS
  <2> QED BY <1>4, <2>1, <2>2, <2>3, Zenon
<1> QED BY <1>1, <1>2, <1>3, <1>4 DEF OpSteps

LEMMA ResetTyped == ResetSteps \in Seq(OpSteps)
<1> DEFINE Clear(n) == <<SetMult(n, "x1"), SetFail(n, "none"), ClearLatch(n)>>
           c == 3 * Len(Nodes)
           d == Len(Edges)
           A == [i \in 1..c |-> Clear(Nodes[(i + 2) \div 3])[((i + 2) % 3) + 1]]
           M == [i \in 1..d |-> SetMode(Edges[i], DefaultMode[Edges[i]])]
<1>1. /\ Nodes \in Seq(Node) /\ Len(Nodes) \in Nat /\ (\A k \in 1..Len(Nodes) : Nodes[k] \in Node)
      /\ Edges \in Seq(Edge) /\ Len(Edges) \in Nat /\ (\A k \in 1..Len(Edges) : Edges[k] \in Edge)
  BY GraphAssumption
<1>2. ASSUME NEW n \in Node, NEW k \in 1..3 PROVE Clear(n)[k] \in OpSteps
  <2>1. SetMult(n, "x1") \in OpSteps /\ SetFail(n, "none") \in OpSteps /\ ClearLatch(n) \in OpSteps
    BY SetSteps
  <2>2. Clear(n)[1] = SetMult(n, "x1") /\ Clear(n)[2] = SetFail(n, "none") /\ Clear(n)[3] = ClearLatch(n)
    OBVIOUS
  <2> HIDE DEF Clear
  <2>3. k = 1 \/ k = 2 \/ k = 3
    OBVIOUS
  <2> QED BY <2>1, <2>2, <2>3
<1> HIDE DEF Clear
<1>3. A \in [1..c -> OpSteps]
  <2> SUFFICES ASSUME NEW i \in 1..c PROVE Clear(Nodes[(i + 2) \div 3])[((i + 2) % 3) + 1] \in OpSteps
    OBVIOUS
  <2>1. (i + 2) \div 3 \in 1..Len(Nodes) /\ ((i + 2) % 3) + 1 \in 1..3
    BY <1>1
  <2> QED BY <1>1, <1>2, <2>1
<1>4. M \in [1..d -> OpSteps]
  <2> SUFFICES ASSUME NEW i \in 1..d PROVE SetMode(Edges[i], DefaultMode[Edges[i]]) \in OpSteps
    OBVIOUS
  <2> DEFINE e == Edges[i]
  <2>1. e \in Edge
    BY <1>1
  <2> HIDE DEF e
  <2>2. DefaultMode[e] \in Modes /\ (DefaultMode[e] = "gated" => e[2] \in Gate)
    BY <2>1, RequestAssumption
  <2> QED BY <2>1, <2>2, SetSteps DEF e
<1>5. c \in Nat /\ d \in Nat
  BY <1>1
<1>6. ResetSteps = A \o M
  BY DEF ResetSteps, Clear
<1> HIDE DEF A, M, c, d
<1>7. A \in Seq(OpSteps) /\ M \in Seq(OpSteps)
  BY <1>3, <1>4, <1>5, SeqDef
<1> QED BY <1>6, <1>7, ConcatProperties

(* Whoever announces a change kicks last.                                  *)
LEMMA Announced ==
  ASSUME NEW s \in Seq(OpSteps)
  PROVE  s \o Announce \in Seq(OpSteps) /\ EndsInKick(s \o Announce)
<1>1. EmitEvent \in OpSteps /\ Kick \in OpSteps
  BY SetSteps
<1>2. Announce \in Seq(OpSteps) /\ Len(Announce) = 2 /\ Announce[2] = Kick
  <2>1. \A a, b \in OpSteps : <<a, b>> \in Seq(OpSteps) /\ Len(<<a, b>>) = 2 /\ <<a, b>>[2] = b
    OBVIOUS
  <2> QED BY <1>1, <2>1 DEF Announce
<1>3. /\ s \o Announce \in Seq(OpSteps)
      /\ Len(s \o Announce) = Len(s) + Len(Announce)
      /\ \A i \in 1..(Len(s) + Len(Announce)) :
           (s \o Announce)[i] = IF i <= Len(s) THEN s[i] ELSE Announce[i - Len(s)]
  BY <1>2, ConcatProperties
<1>4. Len(s) \in Nat
  OBVIOUS
<1> DEFINE n == Len(s)
           u == s \o Announce
<1> HIDE DEF n
<1>5. n + 2 \in 1..(n + 2) /\ ~(n + 2 <= n) /\ (n + 2) - n = 2
  BY <1>4 DEF n
<1>6. u[n + 2] = Kick
  BY <1>2, <1>3, <1>5 DEF n
<1>7. Len(u) = n + 2
  BY <1>2, <1>3 DEF n
<1> QED BY <1>3, <1>6, <1>7 DEF EndsInKick

LEMMA StepsTyped ==
  ASSUME NEW r \in Request
  PROVE  Steps(r) \in Seq(OpSteps) /\ EndsInKick(Steps(r))
<1>0. \A a \in OpSteps : <<a>> \in Seq(OpSteps)
  BY OneStep
<1>1. CASE r \in [op : {"inject"}, at : Node, mult : {"x1", "x10"}, fail : {"none", "some"}]
  <2>1. Steps(r) = InjectSteps(r)
    BY <1>1 DEF Steps
  <2>2. r.at \in Node /\ r.mult \in {"x1", "x10"} /\ r.fail \in {"none", "some"}
    BY <1>1
  <2>3. SetMult(r.at, r.mult) \in OpSteps /\ SetFail(r.at, r.fail) \in OpSteps
    BY <2>2, SetSteps
  <2>4. \A a, b \in OpSteps : <<a, b>> \in Seq(OpSteps)
    OBVIOUS
  <2> QED BY <2>1, <2>3, <2>4, Announced DEF InjectSteps
<1>2. CASE r \in [op : {"edge"}, at : Edge, mode : Modes]
  <2>1. Steps(r) = EdgeSteps(r)
    BY <1>2 DEF Steps
  <2>2. r.at \in Edge /\ r.mode \in Modes
    BY <1>2
  <2>3. CASE mode[r.at] = r.mode \/ (r.mode = "gated" /\ r.at[2] \notin Gate)
    <3>1. Steps(r) = <<>>
      BY <2>1, <2>3 DEF EdgeSteps
    <3> QED BY <3>1 DEF EndsInKick
  <2>4. CASE ~(mode[r.at] = r.mode \/ (r.mode = "gated" /\ r.at[2] \notin Gate))
    <3>1. Steps(r) = <<SetMode(r.at, r.mode)>> \o Announce
      BY <2>1, <2>4 DEF EdgeSteps
    <3>2. SetMode(r.at, r.mode) \in OpSteps
      BY <2>2, <2>4, SetSteps
    <3> QED BY <1>0, <3>1, <3>2, Announced
  <2> QED BY <2>3, <2>4
<1>3. CASE r \in [op : {"reset"}]
  <2>1. Steps(r) = ResetSteps \o Announce
    BY <1>3 DEF Steps
  <2> QED BY <2>1, ResetTyped, Announced
<1>4. CASE r \in [op : {"scenario"}, at : Node]
  <2>1. Steps(r) = ResetSteps \o <<SetMult(r.at, "x10")>> \o Announce
    BY <1>4 DEF Steps, ScenarioSteps
  <2>2. SetMult(r.at, "x10") \in OpSteps
    BY <1>4, SetSteps
  <2>3. ResetSteps \o <<SetMult(r.at, "x10")>> \in Seq(OpSteps)
    BY <1>0, <2>2, ResetTyped, ConcatProperties
  <2> QED BY <2>1, <2>3, Announced
<1> QED BY <1>1, <1>2, <1>3, <1>4, RequestAssumption

-----------------------------------------------------------------------------
(* One round of the fold; Rollups is what it leaves alone.                 *)
Under(n, E) == {m \in Node : <<n, m>> \in E}
Round(f, local, E) ==
  [n \in Node |-> RollupOne(local[n], {f[m] : m \in Under(n, E)}, {f[m] : m \in Under(n, Edge \ E)})]

LEMMA RollupsChoice ==
  ASSUME NEW local, NEW E
  PROVE  Rollups(local, E) = CHOOSE f : f = Round(f, local, E)
BY DEF Rollups, Round, Under

LEMMA RoundTyped ==
  ASSUME NEW f, NEW local, NEW E
  PROVE  Round(f, local, E) \in [Node -> Status]
<1>1. \A l, s, t : RollupOne(l, s, t) \in Status
  BY DEF RollupOne, Status
<1> QED BY <1>1 DEF Round

(* What a node depends on is lower than it is, whatever is essential.      *)
LEMMA Heights ==
  \E height \in [Node -> 1..Len(Nodes)] :
    \A E \in SUBSET Edge : \A n \in Node : \A m \in Under(n, E) \union Under(n, Edge \ E) :
      height[m] < height[n]
<1>1. PICK height \in [Node -> 1..Len(Nodes)] : \A e \in Edge : height[e[2]] < height[e[1]]
  BY AcyclicAssumption
<1>2. ASSUME NEW E \in SUBSET Edge, NEW n \in Node, NEW m \in Under(n, E) \union Under(n, Edge \ E)
      PROVE  height[m] < height[n]
  <2>1. PICK e \in Edge : e = <<n, m>>
    BY <1>2 DEF Under
  <2>2. e[1] = n /\ e[2] = m
    BY <2>1
  <2> QED BY <1>1, <2>2
<1> QED BY <1>1, <1>2

(* On a graph without cycles the fold comes to an end: what is right up to *)
(* a height becomes right one higher with one more round.                  *)
LEMMA FoldEnds ==
  ASSUME NEW local, NEW E \in SUBSET Edge
  PROVE  \E f : f = Round(f, local, E)
<1>1. PICK height \in [Node -> 1..Len(Nodes)] :
        \A F \in SUBSET Edge : \A n \in Node : \A m \in Under(n, F) \union Under(n, Edge \ F) :
          height[m] < height[n]
  BY Heights
<1> DEFINE Right(f, k) == \A n \in Node : height[n] < k => f[n] = Round(f, local, E)[n]
           Good(k) == \E f \in [Node -> Status] : Right(f, k)
           Bad == {k \in Nat : ~Good(k)}
<1>2. ASSUME NEW k \in Nat, NEW f \in [Node -> Status], Right(f, k)
      PROVE  Right(Round(f, local, E), k + 1)
  <2> DEFINE g == Round(f, local, E)
  <2> SUFFICES ASSUME NEW n \in Node, height[n] < k + 1 PROVE g[n] = Round(g, local, E)[n]
    OBVIOUS
  <2>1. ASSUME NEW m \in Under(n, E) \union Under(n, Edge \ E) PROVE f[m] = g[m]
    <3>1. height[m] < height[n] /\ m \in Node
      BY <1>1 DEF Under
    <3>2. height[m] \in Nat /\ height[n] \in Nat
      BY <3>1
    <3>3. height[m] < k
      BY <3>1, <3>2
    <3> QED BY <1>2, <3>1, <3>3
  <2> HIDE DEF g
  <2>2. /\ {f[m] : m \in Under(n, E)} = {g[m] : m \in Under(n, E)}
        /\ {f[m] : m \in Under(n, Edge \ E)} = {g[m] : m \in Under(n, Edge \ E)}
    BY <2>1
  <2>3. g[n] = RollupOne(local[n], {f[m] : m \in Under(n, E)}, {f[m] : m \in Under(n, Edge \ E)})
    BY DEF g, Round
  <2>4. Round(g, local, E)[n] =
          RollupOne(local[n], {g[m] : m \in Under(n, E)}, {g[m] : m \in Under(n, Edge \ E)})
    BY DEF Round
  <2> QED BY <2>2, <2>3, <2>4, Zenon
<1>3. Good(0)
  <2>1. \A n \in Node : ~(height[n] < 0)
    OBVIOUS
  <2>2. [n \in Node |-> "OK"] \in [Node -> Status]
    BY DEF Status
  <2> QED BY <2>1, <2>2
<1>4. ASSUME NEW k \in Nat, Good(k) PROVE Good(k + 1)
  <2> HIDE DEF Right
  <2>1. PICK f \in [Node -> Status] : Right(f, k)
    BY <1>4
  <2> QED BY <1>2, <2>1, RoundTyped
<1> HIDE DEF Good
<1>5. Bad = {}
  <2> SUFFICES ASSUME Bad # {} PROVE FALSE
    OBVIOUS
  <2>1. PICK k \in Bad : \A j \in Bad : k <= j
    BY LeastNat
  <2>2. k # 0 /\ k \in Nat
    BY <1>3
  <2>3. k - 1 \in Nat /\ k - 1 \notin Bad /\ (k - 1) + 1 = k
    BY <2>1, <2>2
  <2> QED BY <1>4, <2>3
<1>6. Len(Nodes) \in Nat /\ \A n \in Node : height[n] < Len(Nodes) + 1
  <2>1. Len(Nodes) \in Nat
    BY GraphAssumption
  <2> QED BY <2>1
<1>7. Good(Len(Nodes) + 1)
  BY <1>5, <1>6
<1>8. PICK f \in [Node -> Status] : \A n \in Node : f[n] = Round(f, local, E)[n]
  BY <1>6, <1>7 DEF Good
<1> DEFINE g == Round(f, local, E)
<1>9. g \in [Node -> Status]
  BY RoundTyped
<1> HIDE DEF g
<1>10. f = g
  BY <1>8, <1>9 DEF g
<1> QED BY <1>10 DEF g

LEMMA RollupsFixed ==
  ASSUME NEW local, NEW E \in SUBSET Edge
  PROVE  /\ Rollups(local, E) = Round(Rollups(local, E), local, E)
         /\ Rollups(local, E) \in [Node -> Status]
<1>1. Rollups(local, E) = Round(Rollups(local, E), local, E)
  <2> DEFINE R == CHOOSE f : f = Round(f, local, E)
  <2>1. R = Round(R, local, E)
    BY FoldEnds, Zenon
  <2> QED BY <2>1, RollupsChoice, Zenon
<1> QED BY <1>1, RoundTyped

(* Where everybody is well, everything is.                                 *)
LEMMA HealthyFold ==
  ASSUME NEW E \in SUBSET Edge
  PROVE  Rollups(Healthy, E) = Healthy
<1> DEFINE R == Rollups(Healthy, E)
<1>1. R = Round(R, Healthy, E) /\ R \in [Node -> Status]
  BY RollupsFixed
<1> HIDE DEF R
<1>2. PICK height \in [Node -> 1..Len(Nodes)] :
        \A F \in SUBSET Edge : \A n \in Node : \A m \in Under(n, F) \union Under(n, Edge \ F) :
          height[m] < height[n]
  BY Heights
<1> DEFINE Ill == {n \in Node : R[n] # "OK"}
           H == {height[n] : n \in Ill}
<1>3. ASSUME NEW n \in Node, \A m \in Under(n, E) \union Under(n, Edge \ E) : R[m] = "OK"
      PROVE  R[n] = "OK"
  <2> DEFINE ess == {R[m] : m \in Under(n, E)}
             other == {R[m] : m \in Under(n, Edge \ E)}
  <2>1. ess \subseteq {"OK"} /\ other \subseteq {"OK"}
    BY <1>3
  <2>2. R[n] = RollupOne(Healthy[n], ess, other)
    BY <1>1 DEF Round
  <2>3. Healthy[n] = "OK"
    BY DEF Healthy
  <2> HIDE DEF ess, other
  <2> QED BY <2>1, <2>2, <2>3 DEF RollupOne
<1>4. Ill = {}
  <2> SUFFICES ASSUME Ill # {} PROVE FALSE
    OBVIOUS
  <2>1. H \in SUBSET Nat /\ H # {}
    BY GraphAssumption
  <2>2. PICK k \in H : \A j \in H : k <= j
    BY <2>1, LeastNat
  <2>3. PICK n \in Ill : k = height[n]
    BY <2>2
  <2>4. PICK m \in Under(n, E) \union Under(n, Edge \ E) : R[m] # "OK"
    BY <1>3, <2>3
  <2>5. m \in Node /\ height[m] \in H /\ height[m] < height[n]
    BY <1>2, <2>3, <2>4 DEF Under
  <2>6. height[m] \in Nat /\ height[n] \in Nat
    BY <2>3, <2>5
  <2> HIDE DEF H, Ill
  <2>7. height[n] <= height[m]
    BY <2>2, <2>3, <2>5
  <2> QED BY <2>5, <2>6, <2>7
<1>5. R = Healthy
  BY <1>1, <1>4 DEF Healthy
<1> QED BY <1>5 DEF R

-----------------------------------------------------------------------------
(* The tick's program, place by place.                                     *)
Joined(u, s, t) == /\ Len(u) = Len(s) + Len(t)
                   /\ \A k \in 1..Len(s) : u[k] = s[k]
                   /\ \A k \in 1..Len(t) : u[Len(s) + k] = t[k]
LEMMA ConcatAt ==
  ASSUME NEW S, NEW s \in Seq(S), NEW t \in Seq(S)
  PROVE  s \o t \in Seq(S) /\ Joined(s \o t, s, t)
<1> DEFINE u == s \o t
           m == Len(s)
           n == Len(t)
<1>1. /\ u \in Seq(S) /\ Len(u) = m + n /\ m \in Nat /\ n \in Nat
      /\ \A i \in 1..(m + n) : u[i] = IF i <= m THEN s[i] ELSE t[i - m]
  BY ConcatProperties
<1> HIDE DEF u, m, n
<1>2. \A k \in 1..m : u[k] = s[k]
  BY <1>1
<1>3. ASSUME NEW k \in 1..n PROVE u[m + k] = t[k]
  <2>1. m + k \in 1..(m + n) /\ ~(m + k <= m) /\ (m + k) - m = k
    BY <1>1
  <2> QED BY <1>1, <2>1
<1> QED BY <1>1, <1>2, <1>3 DEF u, m, n, Joined

IsStep(s, kind, what) == s[1] = kind /\ s[2] = what
LEMMA TickPlan ==
  LET n == Len(Nodes)
      m == Len(Edges)
  IN  /\ n \in Nat /\ m \in Nat /\ Len(TickSteps) = n + 1 + n + m + n + 3
      /\ \A k \in 1..n : IsStep(TickSteps[k], "capture", Nodes[k])
      /\ IsStep(TickSteps[n + 1], "fold", "")
      /\ \A k \in 1..n : IsStep(TickSteps[n + 1 + k], "injections", Nodes[k])
      /\ \A k \in 1..m : IsStep(TickSteps[n + 1 + n + k], "edge", Edges[k])
      /\ \A k \in 1..n : IsStep(TickSteps[n + 1 + n + m + k], "transition", Nodes[k])
      /\ IsStep(TickSteps[n + 1 + n + m + n + 1], "transition", "headline")
      /\ IsStep(TickSteps[n + 1 + n + m + n + 2], "copy", "")
      /\ IsStep(TickSteps[n + 1 + n + m + n + 3], "publish", "")
<1>0. \A s, a, b : s = <<a, b, "">> => IsStep(s, a, b)
  <2> SUFFICES ASSUME NEW a, NEW b PROVE IsStep(<<a, b, "">>, a, b)
    BY Zenon
  <2>1. <<a, b, "">>[1] = a /\ <<a, b, "">>[2] = b
    OBVIOUS
  <2> QED BY <2>1, Zenon DEF IsStep
<1> DEFINE fold == <<"fold", "", "">>
           headline == <<"transition", "headline", "">>
           K == Each("capture", Nodes)
           I == Each("injections", Nodes)
           E == Each("edge", Edges)
           X == Each("transition", Nodes)
           F == <<fold>>
           Z == <<headline, CopyStep, PublishStep>>
           Q == Quiet \union {CopyStep, PublishStep}
           n == Len(Nodes)
           m == Len(Edges)
<1>1. TickSteps = ((((K \o F) \o I) \o E) \o X) \o Z
  BY DEF TickSteps, CopyStep, PublishStep
<1>2. fold \in Q /\ headline \in Q /\ CopyStep \in Q /\ PublishStep \in Q
  BY DEF Quiet
<1>3. Nodes \in Seq(Node) /\ Edges \in Seq(Edge) /\ n \in Nat /\ m \in Nat
  BY GraphAssumption
<1>4. K \in Seq(Quiet) /\ I \in Seq(Quiet) /\ E \in Seq(Quiet) /\ X \in Seq(Quiet)
  BY <1>3, EachQuiet
<1>5. K \in Seq(Q) /\ I \in Seq(Q) /\ E \in Seq(Q) /\ X \in Seq(Q)
  BY <1>4, SeqMonotonic
<1>6. /\ Len(K) = n /\ \A k \in 1..n : K[k] = <<"capture", Nodes[k], "">>
      /\ Len(I) = n /\ \A k \in 1..n : I[k] = <<"injections", Nodes[k], "">>
      /\ Len(E) = m /\ \A k \in 1..m : E[k] = <<"edge", Edges[k], "">>
      /\ Len(X) = n /\ \A k \in 1..n : X[k] = <<"transition", Nodes[k], "">>
  <2>1. "capture" # "fold" /\ "injections" # "fold" /\ "edge" # "fold" /\ "transition" # "fold"
    OBVIOUS
  <2> QED BY <1>3, <2>1, EachWithout, Zenon
<1> HIDE DEF K, I, E, X, n, m
<1> HIDE DEF fold, headline, Q
<1>7. F \in Seq(Q) /\ Len(F) = 1 /\ F[1] = fold
  BY <1>2, OneStep
<1>8. Z \in Seq(Q) /\ Len(Z) = 3 /\ Z[1] = headline /\ Z[2] = CopyStep /\ Z[3] = PublishStep
  BY <1>2, ThreeSteps
<1> HIDE DEF F, Z
<1> DEFINE A == K \o F
<1>9. /\ A \in Seq(Q) /\ Len(A) = n + 1
      /\ \A k \in 1..n : A[k] = K[k]
      /\ A[n + 1] = fold
  <2>1. A \in Seq(Q) /\ Joined(A, K, F)
    BY <1>5, <1>7, ConcatAt
  <2> HIDE DEF A
  <2>2. Len(K) = n /\ Len(F) = 1 /\ F[1] = fold /\ 1 \in 1..1
    <3>1. 1 \in 1..1
      OBVIOUS
    <3> QED BY <1>6, <1>7, <3>1, Zenon
  <2> QED BY <1>3, <2>1, <2>2 DEF Joined
<1> HIDE DEF A
<1> DEFINE B == A \o I
<1>10. /\ B \in Seq(Q) /\ Len(B) = n + 1 + n
       /\ \A k \in 1..(n + 1) : B[k] = A[k]
       /\ \A k \in 1..n : B[n + 1 + k] = I[k]
  <2>1. B \in Seq(Q) /\ Joined(B, A, I)
    BY <1>5, <1>9, ConcatAt
  <2> HIDE DEF B
  <2> QED BY <1>3, <1>6, <1>9, <2>1 DEF Joined
<1> HIDE DEF B
<1> DEFINE C == B \o E
<1>11. /\ C \in Seq(Q) /\ Len(C) = n + 1 + n + m
       /\ \A k \in 1..(n + 1 + n) : C[k] = B[k]
       /\ \A k \in 1..m : C[n + 1 + n + k] = E[k]
  <2>1. C \in Seq(Q) /\ Joined(C, B, E)
    BY <1>5, <1>10, ConcatAt
  <2> HIDE DEF C
  <2> QED BY <1>3, <1>6, <1>10, <2>1 DEF Joined
<1> HIDE DEF C
<1> DEFINE D == C \o X
<1>12. /\ D \in Seq(Q) /\ Len(D) = n + 1 + n + m + n
       /\ \A k \in 1..(n + 1 + n + m) : D[k] = C[k]
       /\ \A k \in 1..n : D[n + 1 + n + m + k] = X[k]
  <2>1. D \in Seq(Q) /\ Joined(D, C, X)
    BY <1>5, <1>11, ConcatAt
  <2> HIDE DEF D
  <2> QED BY <1>3, <1>6, <1>11, <2>1 DEF Joined
<1> HIDE DEF D
<1>13. /\ TickSteps \in Seq(Q) /\ Len(TickSteps) = n + 1 + n + m + n + 3
       /\ \A k \in 1..(n + 1 + n + m + n) : TickSteps[k] = D[k]
       /\ \A k \in 1..3 : TickSteps[n + 1 + n + m + n + k] = Z[k]
  <2> DEFINE T == D \o Z
  <2>1. T \in Seq(Q) /\ Joined(T, D, Z)
    BY <1>8, <1>12, ConcatAt
  <2>2. TickSteps = T
    BY <1>1 DEF A, B, C, D
  <2> HIDE DEF T
  <2> QED BY <1>3, <1>8, <1>12, <2>1, <2>2 DEF Joined
<1>14. \A k \in 1..(n + 1 + n + m) : TickSteps[k] = C[k]
  BY <1>3, <1>12, <1>13
<1>15. \A k \in 1..(n + 1 + n) : TickSteps[k] = B[k]
  BY <1>3, <1>11, <1>14
<1>16. \A k \in 1..(n + 1) : TickSteps[k] = A[k]
  BY <1>3, <1>10, <1>15
<1>17. ASSUME NEW k \in 1..n PROVE IsStep(TickSteps[k], "capture", Nodes[k])
  <2>1. k \in 1..(n + 1)
    BY <1>3
  <2>2. TickSteps[k] = K[k]
    BY <1>9, <1>16, <2>1
  <2> QED BY <1>0, <1>6, <2>2, Zenon
<1>18. TickSteps[n + 1] = fold
  BY <1>3, <1>9, <1>16
<1>19. ASSUME NEW k \in 1..n PROVE IsStep(TickSteps[n + 1 + k], "injections", Nodes[k])
  <2>1. n + 1 + k \in 1..(n + 1 + n)
    BY <1>3
  <2>2. TickSteps[n + 1 + k] = I[k]
    BY <1>10, <1>15, <2>1
  <2> QED BY <1>0, <1>6, <2>2, Zenon
<1>20. ASSUME NEW k \in 1..m PROVE IsStep(TickSteps[n + 1 + n + k], "edge", Edges[k])
  <2>1. n + 1 + n + k \in 1..(n + 1 + n + m)
    BY <1>3
  <2>2. TickSteps[n + 1 + n + k] = E[k]
    BY <1>11, <1>14, <2>1
  <2> QED BY <1>0, <1>6, <2>2, Zenon
<1>21. ASSUME NEW k \in 1..n PROVE IsStep(TickSteps[n + 1 + n + m + k], "transition", Nodes[k])
  <2>1. n + 1 + n + m + k \in 1..(n + 1 + n + m + n)
    BY <1>3
  <2>2. TickSteps[n + 1 + n + m + k] = X[k]
    BY <1>12, <1>13, <2>1
  <2> QED BY <1>0, <1>6, <2>2, Zenon
<1>22. /\ IsStep(TickSteps[n + 1], "fold", "")
       /\ IsStep(TickSteps[n + 1 + n + m + n + 1], "transition", "headline")
       /\ IsStep(TickSteps[n + 1 + n + m + n + 2], "copy", "")
       /\ IsStep(TickSteps[n + 1 + n + m + n + 3], "publish", "")
  <2>1. 1 \in 1..3 /\ 2 \in 1..3 /\ 3 \in 1..3
    OBVIOUS
  <2>2. /\ TickSteps[n + 1 + n + m + n + 1] = headline
        /\ TickSteps[n + 1 + n + m + n + 2] = CopyStep
        /\ TickSteps[n + 1 + n + m + n + 3] = PublishStep
    BY <1>8, <1>13, <2>1
  <2>3. IsStep(fold, "fold", "") /\ IsStep(headline, "transition", "headline")
        /\ IsStep(CopyStep, "copy", "") /\ IsStep(PublishStep, "publish", "")
    BY DEF IsStep, fold, headline, CopyStep, PublishStep
  <2> QED BY <1>18, <2>2, <2>3
<1>23. n \in Nat /\ m \in Nat /\ Len(TickSteps) = n + 1 + n + m + n + 3
  BY <1>3, <1>13
<1> QED BY <1>17, <1>19, <1>20, <1>21, <1>22, <1>23, Zenon DEF n, m

(* The i-th place, and what has been done before it.                       *)
Did(i, kind, what) == \E j \in 1..(i - 1) : IsStep(TickSteps[j], kind, what)

LEMMA StepKinds ==
  ASSUME NEW i \in 1..Len(TickSteps)
  PROVE  /\ TickSteps[i][1] \in {"capture", "injections"} => TickSteps[i][2] \in Node
         /\ TickSteps[i][1] = "edge" => TickSteps[i][2] \in Edge
         /\ TickSteps[i][1] \in {"fold", "copy"} => TickSteps[i][2] = ""
         /\ TickSteps[i][1] = "capture" => ~Did(i, "fold", "")
         /\ TickSteps[i][1] = "transition" => ~Did(i, "copy", "")
<1> DEFINE n == Len(Nodes)
           m == Len(Edges)
           f == n + 1
           g == n + 1 + n
           h == n + 1 + n + m
           z == n + 1 + n + m + n
<1>1. /\ Nodes \in Seq(Node) /\ (\A k \in 1..n : Nodes[k] \in Node)
      /\ Edges \in Seq(Edge) /\ (\A k \in 1..m : Edges[k] \in Edge)
  BY GraphAssumption
<1>3. n \in Nat /\ m \in Nat /\ Len(TickSteps) = z + 3
  BY TickPlan, Zenon
<1>2. /\ \A k \in 1..n : IsStep(TickSteps[k], "capture", Nodes[k])
      /\ IsStep(TickSteps[f], "fold", "")
      /\ \A k \in 1..n : IsStep(TickSteps[f + k], "injections", Nodes[k])
      /\ \A k \in 1..m : IsStep(TickSteps[g + k], "edge", Edges[k])
      /\ \A k \in 1..n : IsStep(TickSteps[h + k], "transition", Nodes[k])
      /\ IsStep(TickSteps[z + 1], "transition", "headline")
      /\ IsStep(TickSteps[z + 2], "copy", "")
      /\ IsStep(TickSteps[z + 3], "publish", "")
  BY TickPlan, Zenon
<1>4. /\ f = n + 1 /\ g = f + n /\ h = g + m /\ z = h + n
      /\ f \in Nat /\ g \in Nat /\ h \in Nat /\ z \in Nat
  BY <1>3
<1> HIDE DEF n, m, f, g, h, z
<1>5. ASSUME NEW k \in 1..n
      PROVE  /\ TickSteps[k][1] = "capture" /\ TickSteps[k][2] = Nodes[k]
             /\ TickSteps[f + k][1] = "injections" /\ TickSteps[f + k][2] = Nodes[k]
             /\ TickSteps[h + k][1] = "transition"
  <2>1. /\ IsStep(TickSteps[k], "capture", Nodes[k])
        /\ IsStep(TickSteps[f + k], "injections", Nodes[k])
        /\ IsStep(TickSteps[h + k], "transition", Nodes[k])
    BY <1>2, Zenon
  <2> QED BY <2>1, Zenon DEF IsStep
<1>6. \A k \in 1..m : TickSteps[g + k][1] = "edge" /\ TickSteps[g + k][2] = Edges[k]
  BY <1>2 DEF IsStep
<1>7. /\ TickSteps[f][1] = "fold" /\ TickSteps[f][2] = ""
      /\ TickSteps[z + 1][1] = "transition"
      /\ TickSteps[z + 2][1] = "copy" /\ TickSteps[z + 2][2] = ""
      /\ TickSteps[z + 3][1] = "publish"
  BY <1>2 DEF IsStep
(* Each place is in one part of the program.                               *)
<1>8. ASSUME NEW j \in 1..(z + 3)
      PROVE  \/ j \in 1..n /\ TickSteps[j][1] = "capture" /\ TickSteps[j][2] \in Node
             \/ j = f
             \/ j > f /\ TickSteps[j][1] = "injections" /\ TickSteps[j][2] \in Node
             \/ j > f /\ TickSteps[j][1] = "edge" /\ TickSteps[j][2] \in Edge
             \/ j > f /\ j <= z + 1 /\ TickSteps[j][1] = "transition"
             \/ j = z + 2
             \/ j = z + 3
  <2>1. CASE j \in 1..n
    BY <1>1, <1>5, <2>1
  <2>2. CASE j \in (f + 1)..g
    <3>1. j - f \in 1..n /\ f + (j - f) = j /\ j > f
      BY <1>3, <1>4, <2>2
    <3>2. TickSteps[f + (j - f)][1] = "injections" /\ TickSteps[f + (j - f)][2] \in Node
      BY <1>1, <1>5, <3>1
    <3> QED BY <3>1, <3>2
  <2>3. CASE j \in (g + 1)..h
    <3>1. j - g \in 1..m /\ g + (j - g) = j /\ j > f
      BY <1>3, <1>4, <2>3
    <3>2. TickSteps[g + (j - g)][1] = "edge" /\ TickSteps[g + (j - g)][2] \in Edge
      BY <1>1, <1>6, <3>1
    <3> QED BY <3>1, <3>2
  <2>4. CASE j \in (h + 1)..z
    <3>1. j - h \in 1..n /\ h + (j - h) = j /\ j > f /\ j <= z + 1
      BY <1>3, <1>4, <2>4
    <3>2. TickSteps[h + (j - h)][1] = "transition"
      BY <1>5, <3>1
    <3> QED BY <3>1, <3>2
  <2>5. CASE j = z + 1
    <3>1. j > f /\ j <= z + 1
      BY <1>3, <1>4, <2>5
    <3>2. TickSteps[j][1] = "transition"
      BY <1>7, <2>5
    <3> QED BY <3>1, <3>2
  <2>6. \/ j \in 1..n \/ j = f \/ j \in (f + 1)..g \/ j \in (g + 1)..h \/ j \in (h + 1)..z
        \/ j = z + 1 \/ j = z + 2 \/ j = z + 3
    BY <1>3, <1>4
  <2> QED BY <2>1, <2>2, <2>3, <2>4, <2>5, <2>6
<1>9. i \in 1..(z + 3)
  BY <1>3
<1>10. ASSUME NEW j \in 1..(z + 3), TickSteps[j][1] = "fold" PROVE j = f
  BY <1>7, <1>8, <1>10
<1>11. ASSUME NEW j \in 1..(z + 3), TickSteps[j][1] = "copy" PROVE j = z + 2
  BY <1>7, <1>8, <1>11
<1>12. TickSteps[i][1] = "capture" => i \in 1..n
  BY <1>7, <1>8, <1>9
<1>13. TickSteps[i][1] = "transition" => i <= z + 1
  BY <1>7, <1>8, <1>9
<1>14. \A j \in 1..(i - 1) : j \in 1..(z + 3) /\ j < i
  BY <1>4, <1>9
<1>15. TickSteps[i][1] = "capture" => ~Did(i, "fold", "")
  <2> SUFFICES ASSUME TickSteps[i][1] = "capture", NEW j \in 1..(i - 1), TickSteps[j][1] = "fold" PROVE FALSE
    BY DEF Did, IsStep
  <2>1. i \in 1..n /\ j = f /\ j < i
    BY <1>10, <1>12, <1>14
  <2> QED BY <1>3, <1>4, <2>1
<1>16. TickSteps[i][1] = "transition" => ~Did(i, "copy", "")
  <2> SUFFICES ASSUME TickSteps[i][1] = "transition", NEW j \in 1..(i - 1), TickSteps[j][1] = "copy" PROVE FALSE
    BY DEF Did, IsStep
  <2>1. i <= z + 1 /\ j = z + 2 /\ j < i
    BY <1>11, <1>13, <1>14
  <2> QED BY <1>4, <1>9, <2>1
<1>17. /\ TickSteps[i][1] \in {"capture", "injections"} => TickSteps[i][2] \in Node
       /\ TickSteps[i][1] = "edge" => TickSteps[i][2] \in Edge
       /\ TickSteps[i][1] \in {"fold", "copy"} => TickSteps[i][2] = ""
  BY <1>7, <1>8, <1>9
<1> QED BY <1>15, <1>16, <1>17

(* By the time it publishes, a tick has done it all.                       *)
LEMMA AllDone ==
  LET N == Len(TickSteps) IN
  /\ \A n \in Node : Did(N, "capture", n) /\ Did(N, "injections", n)
  /\ \A e \in Edge : Did(N, "edge", e)
  /\ Did(N, "fold", "") /\ Did(N, "copy", "")
<1> DEFINE n == Len(Nodes)
           m == Len(Edges)
           f == n + 1
           g == n + 1 + n
           z == n + 1 + n + m + n
           N == Len(TickSteps)
<1>1. /\ (\A x \in Node : \E k \in 1..n : Nodes[k] = x)
      /\ (\A e \in Edge : \E k \in 1..m : Edges[k] = e)
  <2>1. Nodes \in Seq(Node) /\ Edges \in Seq(Edge) /\ Range(Nodes) = Node /\ Range(Edges) = Edge
    BY GraphAssumption
  <2>2. DOMAIN Nodes = 1..n /\ DOMAIN Edges = 1..m
    BY <2>1
  <2> HIDE DEF n, m
  <2> QED BY <2>1, <2>2 DEF Range
<1>3. n \in Nat /\ m \in Nat /\ N = z + 3
  BY TickPlan, Zenon
<1>2. /\ \A k \in 1..n : IsStep(TickSteps[k], "capture", Nodes[k])
      /\ IsStep(TickSteps[f], "fold", "")
      /\ \A k \in 1..n : IsStep(TickSteps[f + k], "injections", Nodes[k])
      /\ \A k \in 1..m : IsStep(TickSteps[g + k], "edge", Edges[k])
      /\ IsStep(TickSteps[z + 2], "copy", "")
  BY TickPlan, Zenon
<1>4. /\ f = n + 1 /\ g = f + n /\ z = g + m + n
      /\ f \in Nat /\ g \in Nat /\ z \in Nat
  BY <1>3
<1> HIDE DEF n, m, f, g, z
<1>5. /\ \A k \in 1..n : k \in 1..(N - 1) /\ f + k \in 1..(N - 1)
      /\ \A k \in 1..m : g + k \in 1..(N - 1)
      /\ f \in 1..(N - 1) /\ z + 2 \in 1..(N - 1)
  BY <1>3, <1>4
<1> HIDE DEF N
<1>6. ASSUME NEW x \in Node PROVE Did(N, "capture", x) /\ Did(N, "injections", x)
  <2>1. PICK k \in 1..n : Nodes[k] = x
    BY <1>1
  <2>2. /\ IsStep(TickSteps[k], "capture", x)
        /\ IsStep(TickSteps[f + k], "injections", x)
    BY <1>2, <2>1
  <2> QED BY <1>5, <2>2 DEF Did
<1>7. ASSUME NEW e \in Edge PROVE Did(N, "edge", e)
  <2>1. PICK k \in 1..m : Edges[k] = e
    BY <1>1
  <2>2. IsStep(TickSteps[g + k], "edge", e)
    BY <1>2, <2>1
  <2> QED BY <1>5, <2>2 DEF Did
<1>8. /\ IsStep(TickSteps[f], "fold", "")
      /\ IsStep(TickSteps[z + 2], "copy", "")
  BY <1>2
<1>9. Did(N, "fold", "") /\ Did(N, "copy", "")
  BY <1>5, <1>8 DEF Did
<1> QED BY <1>6, <1>7, <1>9 DEF N

-----------------------------------------------------------------------------
(* The types.                                                              *)
SnapOK(v) ==
  /\ DOMAIN v = DOMAIN Blank
  /\ v.local \in [Node -> Status] /\ v.rollup \in [Node -> Status] /\ v.essential \subseteq Edge
  /\ v.mult \in [Node -> {"x1", "x10"}] /\ v.fail \in [Node -> {"none", "some"}]
  /\ v.mode \in [Edge -> Modes]
TypeInv ==
  /\ mult \in [Node -> {"x1", "x10"}] /\ fail \in [Node -> {"none", "some"}]
  /\ mode \in [Edge -> Modes] /\ \A e \in Edge : mode[e] = "gated" => e[2] \in Gate
  /\ sick \subseteq Node /\ asked \subseteq Operator /\ kicked \in BOOLEAN
  /\ todo \in [Operator -> Seq(OpSteps)]
  /\ SnapOK(seen) /\ SnapOK(snap)

LEMMA StoreTyped ==
  ASSUME TypeInv, NEW s \in OpSteps, Store(s)
  PROVE  /\ mult' \in [Node -> {"x1", "x10"}] /\ fail' \in [Node -> {"none", "some"}]
         /\ mode' \in [Edge -> Modes] /\ (\A e \in Edge : mode'[e] = "gated" => e[2] \in Gate)
         /\ sick' \subseteq Node
<1>1. mult' \in [Node -> {"x1", "x10"}]
  <2>1. CASE s[1] = "mult"
    BY <2>1, StepForms DEF Store, TypeInv
  <2>2. CASE s[1] # "mult"
    BY <2>2 DEF Store, TypeInv
  <2> QED BY <2>1, <2>2
<1>2. fail' \in [Node -> {"none", "some"}]
  <2>1. CASE s[1] = "fail"
    BY <2>1, StepForms DEF Store, TypeInv
  <2>2. CASE s[1] # "fail"
    BY <2>2 DEF Store, TypeInv
  <2> QED BY <2>1, <2>2
<1>3. mode' \in [Edge -> Modes] /\ \A e \in Edge : mode'[e] = "gated" => e[2] \in Gate
  <2>1. CASE s[1] = "mode"
    <3> DEFINE d == s[2]
               v == s[3]
    <3>1. d \in Edge /\ v \in Modes /\ (v = "gated" => d[2] \in Gate)
      BY <2>1, StepForms
    <3>2. mode' = [mode EXCEPT ![d] = v]
      BY <2>1 DEF Store
    <3> HIDE DEF d, v
    <3>3. mode' \in [Edge -> Modes] /\ \A e \in Edge : mode'[e] = IF e = d THEN v ELSE mode[e]
      BY <3>1, <3>2 DEF TypeInv
    <3> QED BY <3>1, <3>3, Zenon DEF TypeInv
  <2>2. CASE s[1] # "mode"
    BY <2>2 DEF Store, TypeInv
  <2> QED BY <2>1, <2>2
<1>4. sick' \subseteq Node
  BY DEF Store, TypeInv
<1> QED BY <1>1, <1>2, <1>3, <1>4

(* What a step of the tick does to what the tick has gathered.             *)
LEMMA SeenTyped ==
  ASSUME IInv, TypeInv, TickStep
  PROVE  SnapOK(seen') /\ SnapOK(snap')
<1>1. PICK i \in 1..Len(TickSteps) : tickTodo = From(i)
  BY DEF IInv, InProgram, TickStep
<1> DEFINE s == TickSteps[i]
<1>2. Head(tickTodo) = s
  BY <1>1, FromFacts
<1>3. /\ s[1] \in {"capture", "injections"} => s[2] \in Node
      /\ s[1] = "edge" => s[2] \in Edge
  BY StepKinds
<1> HIDE DEF s
<1> USE DEF TypeInv
<1>4. SnapOK(seen) /\ SnapOK(snap)
  OBVIOUS
<1>5. CASE s[1] = "capture" /\ Capture(s[2])
  <2>1. {"FAILING", "OK"} \subseteq Status
    BY DEF Status
  <2>2. SnapOK(seen')
    BY <1>3, <1>4, <1>5, <2>1 DEF Capture, SnapOK, Blank
  <2> QED BY <1>4, <1>5, <2>2 DEF Capture
<1>6. CASE s[1] = "fold" /\ Fold
  <2>1. Rollups(seen.local, seen.essential) \in [Node -> Status]
    BY <1>4, RollupsFixed DEF SnapOK
  <2>2. SnapOK(seen')
    BY <1>4, <1>6, <2>1 DEF Fold, SnapOK, Blank
  <2> QED BY <1>4, <1>6, <2>2 DEF Fold
<1>7. CASE s[1] = "injections" /\ ReadInjections(s[2])
  <2>1. SnapOK(seen')
    BY <1>3, <1>4, <1>7 DEF ReadInjections, SnapOK, Blank
  <2> QED BY <1>4, <1>7, <2>1 DEF ReadInjections
<1>8. CASE s[1] = "edge" /\ ReadEdge(s[2])
  <2>1. SnapOK(seen')
    BY <1>3, <1>4, <1>8 DEF ReadEdge, SnapOK, Blank
  <2> QED BY <1>4, <1>8, <2>1 DEF ReadEdge
<1>9. CASE s[1] = "transition" /\ Transition(s[2])
  BY <1>4, <1>9 DEF Transition
<1>10. CASE s[1] = "copy" /\ CopyEvents
  <2>1. SnapOK(seen')
    BY <1>4, <1>10 DEF CopyEvents, SnapOK, Blank
  <2> QED BY <1>4, <1>10, <2>1 DEF CopyEvents
<1>11. CASE s[1] = "publish" /\ Publish
  <2>1. SnapOK(Blank)
    BY RequestAssumption DEF SnapOK, Blank, Healthy, Status
  <2> QED BY <1>4, <1>11, <2>1 DEF Publish
<1> QED BY <1>2, <1>5, <1>6, <1>7, <1>8, <1>9, <1>10, <1>11 DEF TickStep

LEMMA TypeInit == Init => TypeInv
<1> SUFFICES ASSUME Init PROVE TypeInv
  OBVIOUS
<1>1. SnapOK(Blank)
  BY RequestAssumption DEF SnapOK, Blank, Healthy, Status
<1>2. SnapOK(seen) /\ seen = Blank
  BY <1>1 DEF Init
<1>3. SnapOK(snap)
  BY <1>1 DEF Init, SnapOK, Blank
<1>4. mult = [n \in Node |-> "x1"] /\ fail = [n \in Node |-> "none"] /\ mode = DefaultMode
  BY DEF Init, Blank
<1>5. todo \in [Operator -> Seq(OpSteps)]
  BY DEF Init
<1> QED BY <1>2, <1>3, <1>4, <1>5, RequestAssumption DEF Init, TypeInv

LEMMA TypeNext == IInv /\ TypeInv /\ [Next]_vars => TypeInv'
<1> SUFFICES ASSUME IInv, TypeInv, [Next]_vars PROVE TypeInv'
  OBVIOUS
<1>1. ASSUME NEW o \in Operator, OpStep(o) PROVE TypeInv'
  <2> DEFINE s == Head(todo[o])
  <2>1. todo[o] \in Seq(OpSteps) /\ todo[o] # <<>>
    BY <1>1 DEF TypeInv, OpStep
  <2>2. s \in OpSteps /\ Tail(todo[o]) \in Seq(OpSteps)
    BY <2>1, HeadTailProperties
  <2>3. Store(s) /\ kicked' = (kicked \/ s[1] = "kick")
    BY <1>1 DEF OpStep
  <2>4. todo' = [todo EXCEPT ![o] = Tail(todo[o])] /\ asked' = asked /\ seen' = seen /\ snap' = snap
    BY <1>1 DEF OpStep, tickVars
  <2> HIDE DEF s
  <2>5. todo' \in [Operator -> Seq(OpSteps)]
    BY <2>2, <2>4 DEF TypeInv
  <2>6. kicked' \in BOOLEAN
    BY <2>3
  <2>7. /\ mult' \in [Node -> {"x1", "x10"}] /\ fail' \in [Node -> {"none", "some"}]
        /\ mode' \in [Edge -> Modes] /\ (\A e \in Edge : mode'[e] = "gated" => e[2] \in Gate)
        /\ sick' \subseteq Node
    BY <2>2, <2>3, StoreTyped
  <2> QED BY <2>4, <2>5, <2>6, <2>7 DEF TypeInv
<1>2. ASSUME NEW o \in Operator, NEW r \in Request, Ask(o, r) PROVE TypeInv'
  <2>1. Steps(r) \in Seq(OpSteps)
    BY StepsTyped
  <2>2. todo' \in [Operator -> Seq(OpSteps)] /\ asked' \subseteq Operator
    BY <1>2, <2>1 DEF Ask, TypeInv
  <2> QED BY <1>2, <2>2 DEF Ask, TypeInv, settings, tickVars
<1>3. CASE TickOnTimer
  BY <1>3 DEF TickOnTimer, TypeInv, settings, opVars
<1>4. CASE TickOnKick
  BY <1>4 DEF TickOnKick, TypeInv, settings, opVars
<1>5. CASE TickStep
  <2>1. SnapOK(seen') /\ SnapOK(snap')
    BY <1>5, SeenTyped
  <2> QED BY <1>5, <2>1 DEF TickStep, TypeInv, settings, opVars
<1>6. ASSUME NEW m \in Node, Flip(m) PROVE TypeInv'
  BY <1>6 DEF Flip, TypeInv, opVars, tickVars
<1>7. CASE UNCHANGED vars
  BY <1>7 DEF vars, TypeInv, settings, opVars, tickVars
<1> QED BY <1>1, <1>2, <1>3, <1>4, <1>5, <1>6, <1>7 DEF Next

(* Whatever operators ask and however their steps fall between those of a  *)
(* tick, only gates are gated (SetEdgeMode, engine.go 383-385) and a       *)
(* snapshot's rollups are statuses.                                        *)
THEOREM TypeCorrect == Spec => []TypeOK
<1>1. IInv /\ TypeInv => TypeOK
  <2> SUFFICES ASSUME IInv, TypeInv PROVE TypeOK
    OBVIOUS
  <2>1. {snap.rollup[n] : n \in Node} \subseteq Status
    BY DEF TypeInv, SnapOK
  <2> QED BY <2>1 DEF IInv, TypeInv, TypeOK
<1> QED BY <1>1, InitHolds, NextHolds, TypeInit, TypeNext, PTL DEF Spec

-----------------------------------------------------------------------------
(* No change goes unseen.  What keeps it: while anybody has something left *)
(* to do, a kick is still to come, for it is a request's last step; and    *)
(* once it has been taken and nothing is pending, what the tick has passed *)
(* it has read as it is now.                                               *)
Pending == kicked \/ \E o \in Operator : todo[o] # <<>>
Settled(i) ==
  /\ \A e \in seen.essential : Did(i, "capture", e[1])
  /\ Did(i, "fold", "") => seen.rollup = Rollups(seen.local, seen.essential)
Fresh(i) ==
  /\ \A n \in Node : Did(i, "injections", n) => seen.mult[n] = mult[n] /\ seen.fail[n] = fail[n]
  /\ \A e \in Edge : Did(i, "edge", e) => seen.mode[e] = mode[e]
  /\ \A e \in Edge : Did(i, "capture", e[1]) => (e \in seen.essential <=> mode[e] # "best_effort")
  /\ Did(i, "copy", "") => seen.events = events
FreshInv ==
  /\ \A o \in Operator : todo[o] # <<>> => o \in asked /\ EndsInKick(todo[o])
  /\ tickTodo = <<>> => seen = Blank /\ (Pending \/ Shown)
  /\ \A i \in 1..Len(TickSteps) : tickTodo = From(i) => Settled(i) /\ (Pending \/ Fresh(i))
  /\ snap.rollup = Rollups(snap.local, snap.essential)

(* With nothing in between, a step forward is one more thing done.         *)
LEMMA DidNext ==
  ASSUME NEW i \in 1..Len(TickSteps), NEW kind, NEW what
  PROVE  Did(i + 1, kind, what) <=> Did(i, kind, what) \/ IsStep(TickSteps[i], kind, what)
<1>1. Len(TickSteps) \in Nat
  BY TickLayout
<1>2. \A j : j \in 1..((i + 1) - 1) <=> j \in 1..(i - 1) \/ j = i
  BY <1>1
<1> QED BY <1>2, Zenon DEF Did

LEMMA FreshInit == Init => FreshInv
<1> SUFFICES ASSUME Init PROVE FreshInv
  OBVIOUS
<1> DEFINE ess == {e \in Edge : DefaultMode[e] # "best_effort"}
<1>1. tickTodo = <<>> /\ seen = Blank /\ \A o \in Operator : todo[o] = <<>>
  BY DEF Init
<1>2. /\ snap.local = Healthy /\ snap.rollup = Healthy /\ snap.essential = ess
      /\ snap.mult = Blank.mult /\ snap.fail = Blank.fail /\ snap.mode = DefaultMode
      /\ snap.events = <<Started>>
  BY DEF Init, Blank
<1>3. Rollups(Healthy, ess) = Healthy
  BY HealthyFold
<1>4. mult = Blank.mult /\ fail = Blank.fail /\ mode = DefaultMode /\ events = <<Started>>
  BY DEF Init
<1> HIDE DEF ess
<1>5. snap.rollup = Rollups(snap.local, snap.essential)
  BY <1>2, <1>3
<1>6. Shown
  BY <1>2, <1>4, <1>5 DEF Shown, ess
<1>7. \A i \in 1..Len(TickSteps) : tickTodo # From(i)
  BY <1>1, FromFacts
<1> QED BY <1>1, <1>5, <1>6, <1>7 DEF FreshInv

(* Steps of others: they leave something pending, or change nothing of     *)
(* what the tick reads.                                                    *)
LEMMA FreshOthers ==
  ASSUME FreshInv, UNCHANGED tickVars,
         \A o \in Operator : todo'[o] # <<>> => o \in asked' /\ EndsInKick(todo'[o]),
         Pending' \/ (~Pending /\ UNCHANGED <<mult, fail, mode, events>>)
  PROVE  FreshInv'
<1>1. tickTodo' = tickTodo /\ seen' = seen /\ snap' = snap
  BY DEF tickVars
<1>2. ASSUME NEW i \in 1..Len(TickSteps), tickTodo' = From(i)
      PROVE  Settled(i)' /\ (Pending' \/ Fresh(i)')
  <2>1. Settled(i) /\ (Pending \/ Fresh(i))
    BY <1>1, <1>2 DEF FreshInv
  <2>2. Settled(i)'
    BY <1>1, <2>1 DEF Settled, Did
  <2>3. Pending' \/ Fresh(i)'
    BY <1>1, <2>1 DEF Fresh, Did
  <2> QED BY <2>2, <2>3
<1>3. tickTodo' = <<>> => seen' = Blank /\ (Pending' \/ Shown')
  BY <1>1 DEF FreshInv, Shown
<1>4. snap'.rollup = Rollups(snap'.local, snap'.essential)
  BY <1>1 DEF FreshInv
<1> QED BY <1>2, <1>3, <1>4 DEF FreshInv

(* A request's next step: a kick stays to come until it is done.           *)
LEMMA FreshOp ==
  ASSUME TypeInv, FreshInv, NEW o \in Operator, OpStep(o)
  PROVE  FreshInv'
<1> DEFINE t == todo[o]
           n == Len(t)
<1>1. t \in Seq(OpSteps) /\ t # <<>>
  BY DEF TypeInv, OpStep
<1>2. o \in asked /\ EndsInKick(t)
  BY <1>1 DEF FreshInv
<1>3. todo' = [todo EXCEPT ![o] = Tail(t)] /\ asked' = asked /\ UNCHANGED tickVars
  BY DEF OpStep
<1>4. kicked' = (kicked \/ Head(t)[1] = "kick")
  BY DEF OpStep
<1>5. DOMAIN todo = Operator
  BY DEF TypeInv
<1> HIDE DEF t
<1>6. n \in Nat /\ n >= 1 /\ Head(t) = t[1] /\ t[n] = Kick
  BY <1>1, <1>2 DEF EndsInKick
<1>7. /\ Tail(t) \in Seq(OpSteps) /\ Len(Tail(t)) = n - 1
      /\ \A k \in 1..(n - 1) : Tail(t)[k] = t[k + 1]
  BY <1>1, HeadTailProperties
<1> HIDE DEF n
<1>8. EndsInKick(Tail(t))
  <2> SUFFICES ASSUME Tail(t) # <<>> PROVE Tail(t)[n - 1] = Kick
    BY <1>7 DEF EndsInKick
  <2>1. n - 1 # 0
    BY <1>7, EmptySeq
  <2>2. n - 1 \in 1..(n - 1) /\ (n - 1) + 1 = n
    BY <1>6, <2>1
  <2> QED BY <1>6, <1>7, <2>2
<1>9. Pending'
  <2>1. CASE n = 1
    <3>1. Kick[1] = "kick"
      BY DEF Kick
    <3> QED BY <1>4, <1>6, <2>1, <3>1 DEF Pending
  <2>2. CASE n # 1
    <3>1. Tail(t) # <<>>
      BY <1>6, <1>7, <2>2
    <3>2. todo'[o] = Tail(t)
      BY <1>3, <1>5
    <3> QED BY <3>1, <3>2 DEF Pending
  <2> QED BY <2>1, <2>2
<1>10. \A p \in Operator : todo'[p] # <<>> => p \in asked' /\ EndsInKick(todo'[p])
  <2>1. \A p \in Operator : todo'[p] = IF p = o THEN Tail(t) ELSE todo[p]
    BY <1>3, <1>5
  <2>2. asked' = asked
    BY <1>3
  <2> QED BY <1>2, <1>8, <2>1, <2>2, Zenon DEF FreshInv
<1> QED BY <1>3, <1>9, <1>10, FreshOthers

LEMMA FreshAsk ==
  ASSUME TypeInv, FreshInv, NEW o \in Operator, NEW r \in Request, Ask(o, r)
  PROVE  FreshInv'
<1> DEFINE t == Steps(r)
<1>1. EndsInKick(t)
  BY StepsTyped
<1> HIDE DEF t
<1>2. /\ o \notin asked /\ asked' = asked \union {o}
      /\ todo' = [todo EXCEPT ![o] = t] /\ kicked' = kicked
      /\ UNCHANGED tickVars /\ UNCHANGED <<mult, fail, mode, events>>
  BY DEF Ask, t, settings, ring
<1>3. DOMAIN todo = Operator
  BY DEF TypeInv
<1>4. \A p \in Operator : todo'[p] = IF p = o THEN t ELSE todo[p]
  BY <1>2, <1>3
<1>5. todo[o] = <<>>
  BY <1>2 DEF FreshInv
<1>6. Pending => Pending'
  BY <1>2, <1>4, <1>5 DEF Pending
<1>7. \A p \in Operator : todo'[p] # <<>> => p \in asked' /\ EndsInKick(todo'[p])
  BY <1>1, <1>2, <1>4 DEF FreshInv
<1> QED BY <1>2, <1>6, <1>7, FreshOthers

(* A tick begins: it has done nothing yet.                                 *)
LEMMA FreshBegin ==
  ASSUME FreshInv, TickOnTimer \/ TickOnKick
  PROVE  FreshInv'
<1>1. /\ tickTodo = <<>> /\ tickTodo' = TickSteps /\ seen' = seen /\ snap' = snap
      /\ todo' = todo /\ asked' = asked
  BY DEF TickOnTimer, TickOnKick, opVars
<1>2. TickSteps = From(1) /\ 1 \in 1..Len(TickSteps)
  BY TickLayout, SubSeqFull DEF From
<1>3. \A k \in 1..Len(TickSteps) : tickTodo' = From(k) => k = 1
  BY <1>1, <1>2, FromInjective
<1>4. \A kind, what : ~Did(1, kind, what)
  BY DEF Did
<1>5. seen' = Blank
  BY <1>1 DEF FreshInv
<1>6. Settled(1)'
  <2>1. seen'.essential = {}
    BY <1>5 DEF Blank
  <2> QED BY <1>4, <2>1 DEF Settled
<1>7. Fresh(1)'
  BY <1>4 DEF Fresh
<1>8. tickTodo' # <<>>
  BY <1>1, <1>2, FromFacts
<1> QED BY <1>1, <1>3, <1>6, <1>7, <1>8 DEF FreshInv

(* The tick's own steps, all but the last, keep what it has gathered fresh. *)
LEMMA FreshGather ==
  ASSUME TypeInv, NEW i \in 1..Len(TickSteps), Settled(i),
         UNCHANGED <<mult, fail, mode>>,
         LET s == TickSteps[i] IN
           \/ s[1] = "capture" /\ Capture(s[2])
           \/ s[1] = "fold" /\ Fold
           \/ s[1] = "injections" /\ ReadInjections(s[2])
           \/ s[1] = "edge" /\ ReadEdge(s[2])
           \/ s[1] = "transition" /\ Transition(s[2])
           \/ s[1] = "copy" /\ CopyEvents
  PROVE  Settled(i + 1)' /\ (Fresh(i) => Fresh(i + 1)')
<1> DEFINE s == TickSteps[i]
           w == s[2]
<1>1. \A kind, what : Did(i + 1, kind, what) <=> Did(i, kind, what) \/ (s[1] = kind /\ w = what)
  BY DidNext DEF IsStep
<1>2. /\ s[1] \in {"capture", "injections"} => w \in Node
      /\ s[1] = "edge" => w \in Edge
      /\ s[1] = "capture" => ~Did(i, "fold", "")
      /\ s[1] = "transition" => ~Did(i, "copy", "")
  BY StepKinds
<1>3. SnapOK(seen)
  BY DEF TypeInv
<1>4. mult' = mult /\ fail' = fail /\ mode' = mode
  OBVIOUS
<1>5. \/ s[1] = "capture" /\ Capture(w)
      \/ s[1] = "fold" /\ Fold
      \/ s[1] = "injections" /\ ReadInjections(w)
      \/ s[1] = "edge" /\ ReadEdge(w)
      \/ s[1] = "transition" /\ Transition(w)
      \/ s[1] = "copy" /\ CopyEvents
  OBVIOUS
<1> HIDE DEF s, w
<1>6. CASE s[1] = "capture" /\ Capture(w)
  <2>1. /\ seen'.essential = seen.essential \union {e \in Edge : e[1] = w /\ mode[e] # "best_effort"}
        /\ seen'.rollup = seen.rollup /\ seen'.mult = seen.mult /\ seen'.fail = seen.fail
        /\ seen'.mode = seen.mode /\ seen'.events = seen.events
    BY <1>3, <1>6 DEF Capture, SnapOK, Blank
  <2>2. events' = events
    BY <1>6 DEF Capture, ring
  <2>0. \A kind, what : kind # "capture" => (Did(i + 1, kind, what) <=> Did(i, kind, what))
    BY <1>1, <1>6
  <2>3. ~Did(i + 1, "fold", "")
    BY <1>2, <1>6, <2>0
  <2>4. \A e \in seen'.essential : Did(i + 1, "capture", e[1])
    BY <1>1, <1>6, <2>1 DEF Settled
  <2>5. ASSUME Fresh(i), NEW e \in Edge, Did(i + 1, "capture", e[1])
        PROVE  e \in seen'.essential <=> mode[e] # "best_effort"
    <3>1. CASE Did(i, "capture", e[1])
      <4>1. e \in seen.essential <=> mode[e] # "best_effort"
        BY <2>5, <3>1 DEF Fresh
      <4> QED BY <2>1, <4>1
    <3>2. CASE ~Did(i, "capture", e[1])
      <4>1. e \notin seen.essential
        BY <3>2 DEF Settled
      <4>2. e[1] = w
        BY <1>1, <2>5, <3>2
      <4> QED BY <2>1, <4>1, <4>2
    <3> QED BY <3>1, <3>2
  <2>6. ASSUME Fresh(i) PROVE Fresh(i + 1)'
    BY <1>4, <2>0, <2>1, <2>2, <2>5, <2>6 DEF Fresh
  <2> QED BY <2>3, <2>4, <2>6 DEF Settled
<1>7. CASE s[1] = "fold" /\ Fold
  <2>1. /\ seen'.essential = seen.essential /\ seen'.local = seen.local
        /\ seen'.rollup = Rollups(seen.local, seen.essential)
        /\ seen'.mult = seen.mult /\ seen'.fail = seen.fail
        /\ seen'.mode = seen.mode /\ seen'.events = seen.events
    BY <1>3, <1>7 DEF Fold, SnapOK, Blank
  <2>2. events' = events
    BY <1>7 DEF Fold, ring
  <2>3. \A kind, what : kind # "fold" => (Did(i + 1, kind, what) <=> Did(i, kind, what))
    BY <1>1, <1>7
  <2>4. Settled(i + 1)'
    BY <2>1, <2>3 DEF Settled
  <2>5. ASSUME Fresh(i) PROVE Fresh(i + 1)'
    BY <1>4, <2>1, <2>2, <2>3, <2>5 DEF Fresh
  <2> QED BY <2>4, <2>5
<1>8. CASE s[1] = "injections" /\ ReadInjections(w)
  <2>1. /\ seen'.essential = seen.essential /\ seen'.local = seen.local
        /\ seen'.rollup = seen.rollup
        /\ seen'.mult = [seen.mult EXCEPT ![w] = mult[w]] /\ seen'.fail = [seen.fail EXCEPT ![w] = fail[w]]
        /\ seen'.mode = seen.mode /\ seen'.events = seen.events
    BY <1>3, <1>8 DEF ReadInjections, SnapOK, Blank
  <2>2. events' = events
    BY <1>8 DEF ReadInjections, ring
  <2>3. \A kind, what : kind # "injections" => (Did(i + 1, kind, what) <=> Did(i, kind, what))
    BY <1>1, <1>8
  <2>4. Settled(i + 1)'
    BY <2>1, <2>3 DEF Settled
  <2>5. ASSUME Fresh(i), NEW n \in Node, Did(i + 1, "injections", n)
        PROVE  seen'.mult[n] = mult[n] /\ seen'.fail[n] = fail[n]
    <3>0. DOMAIN seen.mult = Node /\ DOMAIN seen.fail = Node
      BY <1>3 DEF SnapOK
    <3>1. /\ seen'.mult[n] = IF n = w THEN mult[w] ELSE seen.mult[n]
          /\ seen'.fail[n] = IF n = w THEN fail[w] ELSE seen.fail[n]
      <4>1. \A f, v : DOMAIN f = Node => [f EXCEPT ![w] = v][n] = IF n = w THEN v ELSE f[n]
        OBVIOUS
      <4>2. seen'.mult[n] = IF n = w THEN mult[w] ELSE seen.mult[n]
        BY <2>1, <3>0, <4>1, Zenon
      <4>3. seen'.fail[n] = IF n = w THEN fail[w] ELSE seen.fail[n]
        BY <2>1, <3>0, <4>1, Zenon
      <4> QED BY <4>2, <4>3
    <3>2. n = w \/ Did(i, "injections", n)
      BY <1>1, <2>5
    <3> QED BY <2>5, <3>1, <3>2 DEF Fresh
  <2>6. ASSUME Fresh(i) PROVE Fresh(i + 1)'
    BY <1>4, <2>1, <2>2, <2>3, <2>5, <2>6 DEF Fresh
  <2> QED BY <2>4, <2>6
<1>9. CASE s[1] = "edge" /\ ReadEdge(w)
  <2>1. /\ seen'.essential = seen.essential /\ seen'.local = seen.local
        /\ seen'.rollup = seen.rollup /\ seen'.mult = seen.mult /\ seen'.fail = seen.fail
        /\ seen'.mode = [seen.mode EXCEPT ![w] = mode[w]] /\ seen'.events = seen.events
    BY <1>3, <1>9 DEF ReadEdge, SnapOK, Blank
  <2>2. events' = events
    BY <1>9 DEF ReadEdge, ring
  <2>3. \A kind, what : kind # "edge" => (Did(i + 1, kind, what) <=> Did(i, kind, what))
    BY <1>1, <1>9
  <2>4. Settled(i + 1)'
    BY <2>1, <2>3 DEF Settled
  <2>5. ASSUME Fresh(i), NEW e \in Edge, Did(i + 1, "edge", e)
        PROVE  seen'.mode[e] = mode[e]
    <3>1. seen'.mode[e] = IF e = w THEN mode[w] ELSE seen.mode[e]
      BY <1>3, <2>1 DEF SnapOK
    <3>2. e = w \/ Did(i, "edge", e)
      BY <1>1, <2>5
    <3> QED BY <2>5, <3>1, <3>2 DEF Fresh
  <2>6. ASSUME Fresh(i) PROVE Fresh(i + 1)'
    BY <1>4, <2>1, <2>2, <2>3, <2>5, <2>6 DEF Fresh
  <2> QED BY <2>4, <2>6
<1>10. CASE s[1] = "transition" /\ Transition(w)
  <2>1. seen' = seen
    BY <1>10 DEF Transition
  <2>2. \A kind, what : kind # "transition" => (Did(i + 1, kind, what) <=> Did(i, kind, what))
    BY <1>1, <1>10
  <2>3. ~Did(i + 1, "copy", "")
    BY <1>2, <1>10, <2>2
  <2>4. Settled(i + 1)'
    BY <2>1, <2>2 DEF Settled
  <2>5. ASSUME Fresh(i) PROVE Fresh(i + 1)'
    BY <1>4, <2>1, <2>2, <2>3, <2>5 DEF Fresh
  <2> QED BY <2>4, <2>5
<1>11. CASE s[1] = "copy" /\ CopyEvents
  <2>1. /\ seen'.essential = seen.essential /\ seen'.local = seen.local
        /\ seen'.rollup = seen.rollup /\ seen'.mult = seen.mult /\ seen'.fail = seen.fail
        /\ seen'.mode = seen.mode /\ seen'.events = events
    BY <1>3, <1>11 DEF CopyEvents, SnapOK, Blank
  <2>2. events' = events
    BY <1>11 DEF CopyEvents, ring
  <2>3. \A kind, what : kind # "copy" => (Did(i + 1, kind, what) <=> Did(i, kind, what))
    BY <1>1, <1>11
  <2>4. Settled(i + 1)'
    BY <2>1, <2>3 DEF Settled
  <2>5. ASSUME Fresh(i) PROVE Fresh(i + 1)'
    BY <1>4, <2>1, <2>2, <2>3, <2>5 DEF Fresh
  <2> QED BY <2>4, <2>5
<1> QED BY <1>5, <1>6, <1>7, <1>8, <1>9, <1>10, <1>11

(* What has all been read is shown.                                        *)
LEMMA FreshShown ==
  ASSUME TypeInv, Settled(Len(TickSteps)), Publish, UNCHANGED <<mult, fail, mode>>
  PROVE  /\ snap'.rollup = Rollups(snap'.local, snap'.essential)
         /\ Fresh(Len(TickSteps)) => Shown'
<1> DEFINE N == Len(TickSteps)
<1>1. snap' = seen /\ events' = events /\ mult' = mult /\ fail' = fail /\ mode' = mode
  BY DEF Publish, ring
<1>2. /\ \A n \in Node : Did(N, "capture", n) /\ Did(N, "injections", n)
      /\ \A e \in Edge : Did(N, "edge", e)
      /\ Did(N, "fold", "") /\ Did(N, "copy", "")
  BY AllDone
<1>3. SnapOK(seen)
  BY DEF TypeInv
<1>4. \A e \in Edge : e[1] \in Node
  BY GraphAssumption
<1>5. /\ mult \in [Node -> {"x1", "x10"}] /\ fail \in [Node -> {"none", "some"}]
      /\ mode \in [Edge -> Modes]
  BY DEF TypeInv
<1> HIDE DEF N
<1>6. seen.rollup = Rollups(seen.local, seen.essential)
  BY <1>2 DEF Settled, N
<1>7. ASSUME Fresh(N) PROVE Shown'
  <2>1. seen.mult = mult
    <3>1. \A n \in Node : seen.mult[n] = mult[n]
      BY <1>2, <1>7 DEF Fresh
    <3> QED BY <1>3, <1>5, <3>1 DEF SnapOK
  <2>2. seen.fail = fail
    <3>1. \A n \in Node : seen.fail[n] = fail[n]
      BY <1>2, <1>7 DEF Fresh
    <3> QED BY <1>3, <1>5, <3>1 DEF SnapOK
  <2>3. seen.mode = mode
    <3>1. \A e \in Edge : seen.mode[e] = mode[e]
      BY <1>2, <1>7 DEF Fresh
    <3> QED BY <1>3, <1>5, <3>1 DEF SnapOK
  <2>4. seen.essential = {e \in Edge : mode[e] # "best_effort"}
    <3>1. \A e \in Edge : e \in seen.essential <=> mode[e] # "best_effort"
      BY <1>2, <1>4, <1>7 DEF Fresh
    <3>2. seen.essential \subseteq Edge
      BY <1>3 DEF SnapOK
    <3> QED BY <3>1, <3>2
  <2>5. seen.events = events
    BY <1>2, <1>7 DEF Fresh
  <2> QED BY <1>1, <1>6, <2>1, <2>2, <2>3, <2>4, <2>5 DEF Shown
<1> QED BY <1>1, <1>6, <1>7 DEF N

LEMMA FreshTick ==
  ASSUME IInv, TypeInv, FreshInv, TickStep
  PROVE  FreshInv'
<1> DEFINE n == Len(TickSteps)
<1>1. PICK i \in 1..n : tickTodo = From(i)
  BY DEF IInv, InProgram, TickStep
<1>2. n \in Nat /\ n >= 2
  BY TickLayout
<1> DEFINE s == TickSteps[i]
<1>3. Head(tickTodo) = s /\ tickTodo' = IF i = n THEN <<>> ELSE From(i + 1)
  BY <1>1, FromFacts DEF TickStep
<1>4. Settled(i) /\ (Pending \/ Fresh(i))
  BY <1>1 DEF FreshInv
<1>5. /\ mult' = mult /\ fail' = fail /\ mode' = mode
      /\ kicked' = kicked /\ todo' = todo /\ asked' = asked
  BY DEF TickStep, settings, opVars
<1>6. Pending' <=> Pending
  BY <1>5 DEF Pending
<1>7. \A o \in Operator : todo'[o] # <<>> => o \in asked' /\ EndsInKick(todo'[o])
  BY <1>5 DEF FreshInv
<1>8. CASE s[1] = "publish" /\ Publish
  <2>1. i = n /\ tickTodo' = <<>>
    BY <1>2, <1>3, <1>8, TickLayout
  <2>2. snap'.rollup = Rollups(snap'.local, snap'.essential) /\ (Fresh(n) => Shown')
    BY <1>4, <1>5, <1>8, <2>1, FreshShown
  <2>3. seen' = Blank
    BY <1>8 DEF Publish
  <2>4. \A k \in 1..n : tickTodo' # From(k)
    BY <2>1, FromFacts
  <2> QED BY <1>4, <1>6, <1>7, <2>1, <2>2, <2>3, <2>4 DEF FreshInv
<1>9. CASE ~(s[1] = "publish" /\ Publish)
  <2>1. \/ s[1] = "capture" /\ Capture(s[2])
        \/ s[1] = "fold" /\ Fold
        \/ s[1] = "injections" /\ ReadInjections(s[2])
        \/ s[1] = "edge" /\ ReadEdge(s[2])
        \/ s[1] = "transition" /\ Transition(s[2])
        \/ s[1] = "copy" /\ CopyEvents
    BY <1>3, <1>9 DEF TickStep
  <2>2. Settled(i + 1)' /\ (Fresh(i) => Fresh(i + 1)')
    BY <1>4, <1>5, <2>1, FreshGather
  <2>3. snap' = snap
    BY <2>1 DEF Capture, Fold, ReadInjections, ReadEdge, Transition, CopyEvents
  <2>4. s[1] # "publish"
    BY <2>1
  <2>5. i # n
    <3>1. TickSteps[n] = PublishStep /\ PublishStep[1] = "publish"
      BY TickLayout DEF PublishStep
    <3> QED BY <2>4, <3>1
  <2>6. i + 1 \in 1..n /\ tickTodo' = From(i + 1)
    BY <1>2, <1>3, <2>5
  <2>7. tickTodo' # <<>> /\ \A k \in 1..n : tickTodo' = From(k) => k = i + 1
    BY <2>6, FromFacts, FromInjective
  <2> QED BY <1>4, <1>6, <1>7, <2>2, <2>3, <2>7 DEF FreshInv
<1> QED BY <1>8, <1>9

LEMMA FreshNext == IInv /\ TypeInv /\ FreshInv /\ [Next]_vars => FreshInv'
<1> SUFFICES ASSUME IInv, TypeInv, FreshInv, [Next]_vars PROVE FreshInv'
  OBVIOUS
<1>1. ASSUME UNCHANGED <<mult, fail, mode, ring, kicked, opVars, tickVars>> PROVE FreshInv'
  <2>1. /\ kicked' = kicked /\ todo' = todo /\ asked' = asked
        /\ UNCHANGED tickVars /\ UNCHANGED <<mult, fail, mode, events>>
    BY <1>1 DEF ring, opVars
  <2>2. Pending' <=> Pending
    BY <2>1 DEF Pending
  <2>3. \A o \in Operator : todo'[o] # <<>> => o \in asked' /\ EndsInKick(todo'[o])
    BY <2>1 DEF FreshInv
  <2> QED BY <2>1, <2>2, <2>3, FreshOthers
<1>2. CASE UNCHANGED vars
  BY <1>1, <1>2 DEF vars, settings
<1>3. ASSUME NEW m \in Node, Flip(m) PROVE FreshInv'
  BY <1>1, <1>3 DEF Flip
<1> QED BY <1>2, <1>3, FreshOp, FreshAsk, FreshBegin, FreshTick DEF Next

(* No change goes unseen: whenever no request, kick or tick is left, the   *)
(* snapshot shows every setting, rollups folded over those very modes, and *)
(* the whole log (kick and tickLoop, engine.go 188-219), however requests  *)
(* fall between the steps of a tick that has read half of what they store. *)
THEOREM NothingUnseen == Spec => []UpToDate
<1>1. FreshInv => UpToDate
  BY DEF FreshInv, Pending, UpToDate
<1> QED BY <1>1, InitHolds, NextHolds, TypeInit, TypeNext, FreshInit, FreshNext, PTL DEF Spec
=============================================================================
