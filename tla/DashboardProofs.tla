-------------------------- MODULE DashboardProofs --------------------------
(***************************************************************************)
(* What Stream and Dashboard promise for every set of connections and      *)
(* every cap: no slot of the semaphore leaks, and the page has one         *)
(* lifeline.                                                               *)
(***************************************************************************)
EXTENDS Dashboard, FiniteSetTheorems, TLAPS

(* The handlers that have been admitted.                                   *)
Admitted == {"opening", "looping"}
Holding == {c \in Conn : handler[c] \in Admitted}

LEMMA HoldingFinite ==
  /\ IsFiniteSet(Holding) /\ Cardinality(Holding) \in Nat
  /\ SlotsHeld <=> slots = Cardinality(Holding) /\ slots <= Slots
<1>1. IsFiniteSet(Holding)
  BY ConnAssumption, FS_Subset DEF Holding
<1> QED BY <1>1, FS_CardinalityType DEF SlotsHeld, Holding, Admitted

(* A handler that is admitted takes one slot, ...                          *)
LEMMA Enter ==
  ASSUME StreamTypeOK, NEW c \in Conn, handler[c] \notin Admitted,
         handler' = [handler EXCEPT ![c] = "opening"]
  PROVE  Cardinality(Holding') = Cardinality(Holding) + 1
<1>1. Holding' = Holding \union {c} /\ c \notin Holding
  BY DEF Holding, Admitted, StreamTypeOK
<1> QED BY <1>1, HoldingFinite, FS_AddElement

(* ... one that returns gives one back, ...                                *)
LEMMA Leave ==
  ASSUME StreamTypeOK, NEW c \in Conn, handler[c] \in Admitted,
         handler' = [handler EXCEPT ![c] = "none"]
  PROVE  Cardinality(Holding') = Cardinality(Holding) - 1
<1>1. Holding' = Holding \ {c} /\ c \in Holding
  BY DEF Holding, Admitted, StreamTypeOK
<1> QED BY <1>1, HoldingFinite, FS_RemoveElement

(* ... and a step inside one, or outside all, changes nothing.             *)
LEMMA Stay ==
  ASSUME SlotsHeld, slots' = slots,
         \A c \in Conn : handler'[c] \in Admitted <=> handler[c] \in Admitted
  PROVE  SlotsHeld'
<1>1. Holding' = Holding
  BY DEF Holding
<1> QED BY <1>1 DEF SlotsHeld, Holding, Admitted

(* What is written is a frame.                                             *)
LEMMA FrameFacts ==
  ASSUME inc \in 1..MaxInc, top \in 1..MaxTop
  PROVE  Header \in Frame /\ Snapshot \in Frame
BY DEF Header, Snapshot, Frame

LEMMA WriteTyped ==
  ASSUME StreamTypeOK, NEW c \in Conn, NEW frame \in Frame, Write(c, frame)
  PROVE  wire' \in [Conn -> Seq(Frame)]
<1>1. Append(wire[c], frame) \in Seq(Frame)
  BY DEF StreamTypeOK
<1> QED BY <1>1 DEF StreamTypeOK, Write

(* A handler that returns on its deferred way out.                         *)
LEMMA ReturnHolds ==
  ASSUME StreamTypeOK, SlotsHeld, NEW c \in Conn, handler[c] \in Admitted,
         Return(c), Release
  PROVE  SlotsHeld' /\ slots' \in 0..Slots
<1>1. Cardinality(Holding') = Cardinality(Holding) - 1
  BY Leave DEF Return
<1>2. Cardinality(Holding') \in Nat
  <2>1. IsFiniteSet(Holding')
    BY ConnAssumption, FS_Subset DEF Holding
  <2> QED BY <2>1, FS_CardinalityType
<1>3. slots = Cardinality(Holding) /\ slots <= Slots
  BY HoldingFinite
<1>4. slots' = Cardinality(Holding') /\ slots' <= Slots
  BY <1>1, <1>2, <1>3, BoundAssumption DEF Release, StreamTypeOK
<1> QED BY <1>2, <1>4, BoundAssumption DEF SlotsHeld, Holding, Admitted

LEMMA ReturnTyped ==
  ASSUME StreamTypeOK, NEW c \in Conn, Return(c)
  PROVE  /\ handler' \in [Conn -> {"none", "arrived", "opening", "looping"}]
         /\ link' \in [Conn -> {"up", "dark", "reaped", "gone", "ended"}]
BY DEF StreamTypeOK, Return, Ended

(* The server's handlers.                                                  *)
LEMMA ServeKeeps ==
  ASSUME StreamTypeOK, SlotsHeld, NEW c \in Conn, Serve(c)
  PROVE  StreamTypeOK' /\ SlotsHeld'
<1>1. CASE Refuse(c)
  <2>1. StreamTypeOK'
    BY <1>1, ReturnTyped DEF Refuse, StreamTypeOK, main
  <2>2. SlotsHeld'
    BY <1>1, Stay DEF Refuse, Return, Admitted, StreamTypeOK
  <2> QED BY <2>1, <2>2
<1>2. CASE Admit(c)
  <2>1. wire' \in [Conn -> Seq(Frame)]
    BY <1>2, WriteTyped, FrameFacts DEF Admit, StreamTypeOK
  <2>2. Cardinality(Holding') = Cardinality(Holding) + 1
    BY <1>2, Enter DEF Admit, Admitted
  <2>3. slots' = Cardinality(Holding') /\ slots' <= Slots
    BY <1>2, <2>2, HoldingFinite, BoundAssumption DEF Admit
  <2>4. slots' \in 0..Slots
    BY <1>2, BoundAssumption DEF Admit, StreamTypeOK
  <2>5. handler' \in [Conn -> {"none", "arrived", "opening", "looping"}]
    BY <1>2 DEF Admit, StreamTypeOK
  <2>6. StreamTypeOK'
    BY <1>2, <2>1, <2>4, <2>5 DEF Admit, StreamTypeOK, main, Frame
  <2> QED BY <2>3, <2>6 DEF SlotsHeld, Holding, Admitted
<1>3. CASE SendFirst(c)
  <2>1. wire' \in [Conn -> Seq(Frame)]
    BY <1>3, WriteTyped, FrameFacts DEF SendFirst, StreamTypeOK
  <2>2. SlotsHeld'
    BY <1>3, Stay DEF SendFirst, Admitted, StreamTypeOK
  <2> QED BY <1>3, <2>1, <2>2 DEF SendFirst, StreamTypeOK, main
<1>4. CASE Push(c)
  <2>1. wire' \in [Conn -> Seq(Frame)]
    BY <1>4, WriteTyped, FrameFacts DEF Push, StreamTypeOK
  <2>2. SlotsHeld'
    BY <1>4, Stay DEF Push
  <2> QED BY <1>4, <2>1, <2>2 DEF Push, StreamTypeOK, main
<1>5. CASE ContextDone(c)
  BY <1>5, ReturnHolds, ReturnTyped DEF ContextDone, Admitted, StreamTypeOK, main
<1>6. CASE HungUp(c)
  BY <1>6, ReturnHolds, ReturnTyped DEF HungUp, Admitted, StreamTypeOK, main
<1> QED BY <1>1, <1>2, <1>3, <1>4, <1>5, <1>6 DEF Serve

(* The process.                                                            *)
LEMMA ProcessKeeps ==
  ASSUME StreamTypeOK, SlotsHeld, Process
  PROVE  StreamTypeOK' /\ SlotsHeld'
<1>1. CASE EmitEvent
  <2>1. SlotsHeld'
    BY <1>1, Stay DEF EmitEvent
  <2> QED BY <1>1, <2>1, BoundAssumption DEF EmitEvent, StreamTypeOK, Frame
<1>2. CASE Signal \/ Shutdown \/ Drained \/ Deadline \/ ServeFails
  <2>1. SlotsHeld'
    BY <1>2, Stay DEF Signal, Shutdown, Drained, Deadline, ServeFails, Turn
  <2> QED BY <1>2, <2>1 DEF Signal, Shutdown, Drained, Deadline, ServeFails, Turn,
                            StreamTypeOK, Frame
<1>3. CASE Exit \/ Kill
  <2>1. Die
    BY <1>3 DEF Exit, Kill
  <2>2. Holding' = {}
    BY <2>1 DEF Die, Holding, Admitted
  <2>3. SlotsHeld'
    BY <2>1, <2>2, FS_EmptySet, BoundAssumption DEF Die, SlotsHeld, Holding, Admitted
  <2>4. link' \in [Conn -> {"up", "dark", "reaped", "gone", "ended"}]
    BY <2>1 DEF Die, Ended, StreamTypeOK
  <2> QED BY <2>1, <2>3, <2>4, BoundAssumption DEF Die, StreamTypeOK, Frame
<1>4. CASE Restart
  <2>1. SlotsHeld'
    BY <1>4, Stay DEF Restart
  <2> QED BY <1>4, <2>1, BoundAssumption DEF Restart, StreamTypeOK, Frame
<1> QED BY <1>1, <1>2, <1>3, <1>4 DEF Process

(* The network and the client.                                             *)
LEMMA NetworkKeeps ==
  ASSUME StreamTypeOK, SlotsHeld, NEW c \in Conn, Network(c)
  PROVE  StreamTypeOK' /\ SlotsHeld'
<1>1. SlotsHeld'
  BY Stay DEF Network, GoDark, Reap
<1>2. CASE GoDark(c)
  <2>1. <<>> \in Seq(Frame)
    OBVIOUS
  <2> QED BY <1>1, <1>2, <2>1 DEF GoDark, StreamTypeOK, main
<1>3. CASE Reap(c)
  BY <1>1, <1>3 DEF Reap, StreamTypeOK, main
<1> QED BY <1>2, <1>3 DEF Network

LEMMA ConnectKeeps ==
  ASSUME StreamTypeOK, SlotsHeld, NEW c \in Conn, Connect(c)
  PROVE  StreamTypeOK' /\ SlotsHeld'
<1>1. SlotsHeld'
  BY Stay DEF Connect, Admitted, StreamTypeOK
<1>2. <<>> \in Seq(Frame)
  OBVIOUS
<1> QED BY <1>1, <1>2 DEF Connect, StreamTypeOK, main

LEMMA ReadKeeps ==
  ASSUME StreamTypeOK, SlotsHeld, NEW c \in Conn, Read(c)
  PROVE  StreamTypeOK' /\ SlotsHeld' /\ Head(wire[c]) \in Frame
<1>1. SlotsHeld'
  BY Stay DEF Read
<1>2. wire[c] \in Seq(Frame) /\ wire[c] # <<>>
  BY DEF Read, StreamTypeOK
<1>3. Tail(wire[c]) \in Seq(Frame) /\ Head(wire[c]) \in Frame
  BY <1>2
<1> QED BY <1>1, <1>3 DEF Read, StreamTypeOK, main

LEMMA HangUpKeeps ==
  ASSUME StreamTypeOK, SlotsHeld, NEW c \in Conn, HangUp(c)
  PROVE  StreamTypeOK' /\ SlotsHeld'
<1>1. SlotsHeld'
  BY Stay DEF HangUp
<1>2. <<>> \in Seq(Frame)
  OBVIOUS
<1> QED BY <1>1, <1>2 DEF HangUp, StreamTypeOK, main

LEMMA StreamStart ==
  ASSUME StreamInit
  PROVE  StreamTypeOK /\ SlotsHeld
<1>1. Holding = {}
  BY DEF Holding, Admitted, StreamInit
<1>2. <<>> \in Seq(Frame)
  OBVIOUS
<1>3. wire \in [Conn -> Seq(Frame)]
  BY <1>2 DEF StreamInit
<1>4. StreamTypeOK
  BY <1>3, BoundAssumption DEF StreamInit, StreamTypeOK
<1>5. slots = Cardinality(Holding) /\ slots <= Slots
  BY <1>1, FS_EmptySet, BoundAssumption DEF StreamInit
<1> QED BY <1>4, <1>5, HoldingFinite

LEMMA StreamStutter ==
  ASSUME StreamTypeOK, SlotsHeld, UNCHANGED streamVars
  PROVE  StreamTypeOK' /\ SlotsHeld'
<1>1. SlotsHeld'
  BY Stay DEF streamVars, main
<1> QED BY <1>1 DEF streamVars, main, StreamTypeOK, Frame

(* Whoever the clients are and whatever they do, no slot of the semaphore  *)
(* leaks and the cap is not passed (sse.go 34-42): the server alone.       *)
THEOREM StreamSlots == StreamSpec => []SlotsHeld
<1>1. StreamInit => StreamTypeOK /\ SlotsHeld
  BY StreamStart
<1>2. StreamTypeOK /\ SlotsHeld /\ [StreamNext]_streamVars => (StreamTypeOK /\ SlotsHeld)'
  BY StreamStutter, ServeKeeps, ProcessKeeps, NetworkKeeps, ConnectKeeps, ReadKeeps, HangUpKeeps
     DEF StreamNext, Client
<1> QED BY <1>1, <1>2, PTL DEF StreamSpec
-----------------------------------------------------------------------------
(* The page: either a stream is open or one attempt is to come.            *)
LEMMA Lifeline ==
  ASSUME retry \in Nat
  PROVE  OneLifeline <=> \/ sources = {} /\ retry = 1
                         \/ sources = {current} /\ retry = 0
<1>1. ASSUME OneLifeline PROVE \/ sources = {} /\ retry = 1
                               \/ sources = {current} /\ retry = 0
  <2>1. sources = {} \/ sources = {current}
    BY <1>1 DEF OneLifeline
  <2>2. CASE sources = {}
    BY <1>1, <2>2, FS_EmptySet DEF OneLifeline
  <2>3. CASE sources = {current}
    <3>1. Cardinality(sources) = 1
      BY <2>3, FS_Singleton
    <3> QED BY <1>1, <2>3, <3>1 DEF OneLifeline
  <2> QED BY <2>1, <2>2, <2>3
<1>2. ASSUME sources = {} /\ retry = 1 PROVE OneLifeline
  BY <1>2, FS_EmptySet DEF OneLifeline
<1>3. ASSUME sources = {current} /\ retry = 0 PROVE OneLifeline
  <2>1. Cardinality(sources) = 1
    BY <1>3, FS_Singleton
  <2> QED BY <1>3, <2>1 DEF OneLifeline
<1> QED BY <1>1, <1>2, <1>3

(* What the page keeps, whoever takes the step.                            *)
PageInv ==
  /\ ViewerTypeOK /\ OneLifeline
  /\ sources \subseteq Conn /\ current \in Conn \union {None}
  /\ snapshot = None => shown = None

LEMMA SubscribeKeeps ==
  ASSUME PageInv, NEW c \in Conn, Subscribe(c)
  PROVE  PageInv'
<1>1. retry \in Nat /\ retry' \in Nat
  BY DEF PageInv, ViewerTypeOK, Subscribe
<1>2. sources = {} /\ retry = 1
  BY <1>1, Lifeline DEF PageInv, Subscribe
<1>3. sources' = {c} /\ current' = c /\ retry' = 0
  BY <1>2 DEF Subscribe
<1>4. OneLifeline'
  <2>1. Cardinality(sources') = 1
    BY <1>3, FS_Singleton
  <2> QED BY <1>3, <2>1 DEF OneLifeline
<1> QED BY <1>1, <1>3, <1>4 DEF PageInv, ViewerTypeOK, Subscribe, eventLog

LEMMA OnErrorKeeps ==
  ASSUME PageInv, NEW c \in Conn, OnError(c)
  PROVE  PageInv'
<1>1. retry \in Nat /\ retry' \in Nat
  BY DEF PageInv, ViewerTypeOK, OnError
<1>2. sources = {current} /\ retry = 0
  BY <1>1, Lifeline DEF PageInv, OnError
<1>3. sources' = {} /\ current' = None /\ retry' = 1
  BY <1>2 DEF OnError, Teardown
<1>4. OneLifeline'
  BY <1>1, <1>3, FS_EmptySet DEF OneLifeline
<1> QED BY <1>1, <1>3, <1>4 DEF PageInv, ViewerTypeOK, OnError, eventLog

LEMMA DeliverKeeps ==
  ASSUME PageInv, StreamTypeOK, SlotsHeld, NEW c \in Conn, Deliver(c)
  PROVE  PageInv'
<1>1. Head(wire[c]) \in Frame
  BY ReadKeeps DEF Deliver
<1>2. Head(wire[c]) # Header => Head(wire[c]) \in Nat \X Nat
  BY <1>1, BoundAssumption DEF Frame
<1>3. CASE OnOpen(c)
  BY <1>3 DEF OnOpen, PageInv, ViewerTypeOK, OneLifeline, eventLog
<1>4. CASE Head(wire[c]) # Header /\ OnMessage(c, Head(wire[c]))
  BY <1>2, <1>4, NoneAssumption DEF OnMessage, PageInv, ViewerTypeOK, OneLifeline, eventLog
<1> QED BY <1>3, <1>4 DEF Deliver

(* The events of a snapshot are events, and what the log makes of them.    *)
LEMMA CollectKeeps ==
  ASSUME PageInv, Collect, snapshot \in Nat \X Nat
  PROVE  PageInv'
<1>1. Events(snapshot) \subseteq Nat \X Nat
  BY DEF Events
<1> DEFINE known == IF Rewound(snapshot) THEN {} ELSE seen
           before == IF Rewound(snapshot) THEN {} ELSE log
           fresh == {e \in Events(snapshot) : e[2] \notin known}
           merged == Newest(fresh \union before, Limit)
           all == known \union IDs(fresh)
<1>2. /\ log' = IF fresh = {} THEN before ELSE merged
      /\ seen' = IF fresh # {} /\ Cardinality(all) > SeenCap THEN IDs(merged) ELSE all
      /\ high' = IF high < snapshot[2] \/ Rewound(snapshot) THEN snapshot[2] ELSE high
  BY DEF Collect
<1>3. fresh \subseteq Nat \X Nat /\ before \subseteq Nat \X Nat /\ known \subseteq Nat
  BY <1>1 DEF PageInv, ViewerTypeOK
<1>4. merged \subseteq Nat \X Nat
  BY <1>3 DEF Newest
<1>5. IDs(fresh) \subseteq Nat /\ IDs(merged) \subseteq Nat
  BY <1>3, <1>4 DEF IDs
<1>6. log' \subseteq Nat \X Nat /\ seen' \subseteq Nat
  <2> HIDE DEF known, before, fresh, merged, all
  <2>1. all \subseteq Nat
    BY <1>3, <1>5 DEF all
  <2> QED BY <1>2, <1>3, <1>4, <1>5, <2>1
<1>7. high' \in Nat
  BY <1>2 DEF PageInv, ViewerTypeOK
<1>8. shown' = snapshot /\ UNCHANGED hook
  BY DEF Collect
<1> QED BY <1>6, <1>7, <1>8, NoneAssumption DEF PageInv, ViewerTypeOK, OneLifeline, hook

LEMMA PageKeeps ==
  ASSUME PageInv, Page
  PROVE  PageInv'
<1>1. CASE GrowOld \/ Watchdog
  BY <1>1 DEF GrowOld, Watchdog, Verdict, PageInv, ViewerTypeOK, OneLifeline, eventLog
<1>2. CASE Collect
  <2>1. snapshot # None
    BY <1>2 DEF Collect, PageInv
  <2> QED BY <1>2, <2>1, CollectKeeps DEF PageInv, ViewerTypeOK
<1> QED BY <1>1, <1>2 DEF Page

(* Together.                                                               *)
DashInv == StreamTypeOK /\ SlotsHeld /\ PageInv

LEMMA DashStart == Init => DashInv
<1> SUFFICES ASSUME Init PROVE DashInv
  OBVIOUS
<1>1. StreamTypeOK /\ SlotsHeld
  BY StreamStart DEF Init
<1>2. retry \in Nat /\ OneLifeline
  BY FS_EmptySet DEF Init, ViewerInit, OneLifeline
<1> QED BY <1>1, <1>2 DEF Init, ViewerInit, DashInv, PageInv, ViewerTypeOK

LEMMA DashStep == DashInv /\ [Next]_vars => DashInv'
<1> SUFFICES ASSUME DashInv, [Next]_vars PROVE DashInv'
  OBVIOUS
<1>0. StreamTypeOK /\ SlotsHeld /\ PageInv
  BY DEF DashInv
<1>1. UNCHANGED viewerVars => PageInv'
  BY <1>0 DEF PageInv, ViewerTypeOK, OneLifeline, viewerVars, hook, eventLog
<1>2. CASE Server
  BY <1>0, <1>1, <1>2, ProcessKeeps DEF Server, DashInv
<1>3. CASE Page
  <2>1. StreamTypeOK' /\ SlotsHeld'
    BY <1>0, <1>3, StreamStutter DEF Page
  <2> QED BY <1>0, <1>3, <2>1, PageKeeps DEF DashInv
<1>4. ASSUME NEW c \in Conn, Handle(c) PROVE DashInv'
  BY <1>0, <1>1, <1>4, ServeKeeps, NetworkKeeps DEF Handle, DashInv
<1>5. ASSUME NEW c \in Conn, Reconnect(c) PROVE DashInv'
  BY <1>0, <1>5, ConnectKeeps, SubscribeKeeps DEF Reconnect, DashInv
<1>6. ASSUME NEW c \in Conn, Deliver(c) PROVE DashInv'
  <2>1. StreamTypeOK' /\ SlotsHeld'
    BY <1>0, <1>6, ReadKeeps DEF Deliver
  <2> QED BY <1>0, <1>6, <2>1, DeliverKeeps DEF DashInv
<1>7. ASSUME NEW c \in Conn, Lose(c) \/ Notice(c) PROVE DashInv'
  BY <1>0, <1>7, HangUpKeeps, OnErrorKeeps DEF Lose, Notice, DashInv
<1>8. CASE UNCHANGED vars
  BY <1>0, <1>1, <1>8, StreamStutter DEF vars, DashInv
<1> QED BY <1>2, <1>3, <1>4, <1>5, <1>6, <1>7, <1>8 DEF Next

LEMMA DashAlways == Spec => []DashInv
BY DashStart, DashStep, PTL DEF Spec

(* Every state of server, network and page together is of its type.        *)
THEOREM TypeCorrect == Spec => []TypeOK
<1>1. DashInv => TypeOK
  BY DEF DashInv, PageInv, TypeOK
<1> QED BY <1>1, DashAlways, PTL

(* With a page that reconnects, as with any other client, every slot is    *)
(* held by one running handler (sse.go 34-42).                             *)
THEOREM Slotted == Spec => []SlotsHeld
<1>1. DashInv => SlotsHeld
  BY DEF DashInv
<1> QED BY <1>1, DashAlways, PTL

(* The page never has two streams, nor none without an attempt to come     *)
(* (useSimulationStream.ts 105-130).                                       *)
THEOREM Lifelines == Spec => []OneLifeline
<1>1. DashInv => OneLifeline
  BY DEF DashInv, PageInv
<1> QED BY <1>1, DashAlways, PTL

-----------------------------------------------------------------------------
(* The log.  Events with different IDs ...                                 *)
Distinct(S) == \A e, f \in S : e[2] = f[2] => e = f

(* ... are as many as their IDs, ...                                       *)
LEMMA CountIDs ==
  ASSUME NEW S, IsFiniteSet(S), Distinct(S)
  PROVE  Cardinality(S) = Cardinality(IDs(S))
<1> DEFINE id == [e \in S |-> e[2]]
<1>1. id \in Surjection(S, IDs(S))
  BY DEF Surjection, IDs
<1>2. id \in Injection(S, IDs(S))
  BY <1>1 DEF Injection, Surjection, Distinct, IsInjective
<1> QED BY <1>1, <1>2, FS_Surjection

(* A set of numbers has a least one.                                       *)
LEMMA LeastNat ==
  ASSUME NEW S \in SUBSET Nat, S # {}
  PROVE  \E m \in S : \A j \in S : m <= j
<1>1. PICK m \in S : \A j \in S : ~ (<<j, m>> \in OpToRel(<, Nat))
  BY NatLessThanWellFounded, WFMin
<1>2. \A j \in S : ~ (j < m)
  BY <1>1 DEF OpToRel
<1> QED BY <1>2

(* ... of which n may be kept, ...                                         *)
LEMMA NewestBounded ==
  ASSUME NEW S \in SUBSET (Nat \X Nat), IsFiniteSet(S), Distinct(S), NEW n \in Nat
  PROVE  /\ IsFiniteSet(Newest(S, n)) /\ Cardinality(Newest(S, n)) <= n
<1> DEFINE M == Newest(S, n)
           ids == {e[2] : e \in M}
           Later(e) == {f \in S : f[2] > e[2]}
<1>1. M \subseteq S /\ IsFiniteSet(M)
  BY FS_Subset DEF Newest
<1>2. CASE M = {}
  BY <1>1, <1>2, FS_EmptySet
<1>3. CASE M # {}
  <2>1. ids \subseteq Nat /\ ids # {}
    BY <1>1, <1>3
  <2>3. PICK m \in ids : \A j \in ids : m <= j
    <3> HIDE DEF ids
    <3> QED BY <2>1, LeastNat
  <2>4. PICK e \in M : e[2] = m
    OBVIOUS
  <2>5. M \ {e} \subseteq Later(e)
    <3> SUFFICES ASSUME NEW f \in M, f # e PROVE f \in Later(e)
      OBVIOUS
    <3>1. f[2] # e[2]
      BY <1>1 DEF Distinct
    <3>2. e[2] <= f[2]
      BY <2>3, <2>4
    <3>3. f \in S /\ f[2] \in Nat /\ e[2] \in Nat
      BY <1>1
    <3> QED BY <3>1, <3>2, <3>3
  <2>6. IsFiniteSet(Later(e)) /\ Cardinality(Later(e)) < n /\ Cardinality(Later(e)) \in Nat
    <3>1. IsFiniteSet(Later(e))
      BY FS_Subset
    <3>2. Cardinality(Later(e)) < n
      BY <2>4 DEF Newest
    <3> QED BY <3>1, <3>2, FS_CardinalityType
  <2>7. Cardinality(M \ {e}) <= Cardinality(Later(e))
    BY <2>5, <2>6, FS_Subset
  <2>8. Cardinality(M \ {e}) = Cardinality(M) - 1 /\ Cardinality(M) \in Nat
    BY <1>1, <2>4, FS_RemoveElement, FS_CardinalityType
  <2> QED BY <1>1, <2>6, <2>7, <2>8
<1> QED BY <1>2, <1>3

(* ... and those within n of the top are.                                  *)
LEMMA NewestRecent ==
  ASSUME NEW S \in SUBSET (Nat \X Nat), IsFiniteSet(S), Distinct(S), NEW n \in Nat,
         NEW max \in Nat, \A f \in S : f[2] <= max,
         NEW e \in S, e[2] + n > max
  PROVE  e \in Newest(S, n)
<1> DEFINE Later == {f \in S : f[2] > e[2]}
           id == [f \in Later |-> f[2]]
           T == (e[2] + 1)..max
<1>1. IsFiniteSet(Later)
  BY FS_Subset
<1>2. e[2] \in Nat
  OBVIOUS
<1>3. id \in Injection(Later, T)
  <2>1. ASSUME NEW f \in Later PROVE f[2] \in T
    BY <1>2
  <2>2. id \in [Later -> T]
    BY <2>1
  <2>3. \A f, g \in Later : f[2] = g[2] => f = g
    BY DEF Distinct
  <2> QED BY <2>2, <2>3 DEF Injection, IsInjective
<1>4. IsFiniteSet(T) /\ Cardinality(T) = IF e[2] + 1 > max THEN 0 ELSE max - (e[2] + 1) + 1
  <2>1. e[2] + 1 \in Int /\ max \in Int
    BY <1>2
  <2> QED BY ONLY <2>1, FS_Interval
<1>5. Cardinality(Later) <= Cardinality(T)
  <2> HIDE DEF id, Later, T
  <2> QED BY <1>3, <1>4, FS_Injection
<1>6. Cardinality(T) < n
  <2> HIDE DEF T
  <2>1. e[2] <= max
    OBVIOUS
  <2> QED BY <1>2, <1>4, <2>1
<1>7. Cardinality(Later) \in Nat /\ Cardinality(T) \in Nat
  BY <1>1, <1>4, FS_CardinalityType
<1>8. Cardinality(Later) < n
  <2> HIDE DEF T, Later
  <2> QED BY <1>5, <1>6, <1>7
<1> QED BY <1>8 DEF Newest

(* The log has each ID once and remembers it; what it remembers reaches up *)
(* to the last snapshot, and so does the log without a gap over the ring.  *)
LogInv ==
  /\ IsFiniteSet(log) /\ Cardinality(log) <= Limit /\ Distinct(log)
  /\ IDs(log) \subseteq seen /\ \A i \in seen : i <= high
  /\ shown = None => log = {} /\ seen = {} /\ high = 0
  /\ shown # None => high = shown[2] /\ IDs(Events(shown)) \subseteq IDs(log)

LEMMA LogInvCovers == PageInv /\ LogInv => LogCovers
<1> SUFFICES ASSUME PageInv, LogInv, shown # None PROVE LogCovers
  BY DEF LogCovers
<1>1. Cardinality(log) = Cardinality(IDs(log))
  BY CountIDs DEF LogInv
<1>2. \A e \in log : e[2] <= shown[2]
  BY DEF LogInv, IDs
<1> QED BY <1>1, <1>2 DEF LogInv, LogCovers

LEMMA EventsFacts ==
  ASSUME NEW s \in Nat \X Nat
  PROVE  /\ IsFiniteSet(Events(s)) /\ Events(s) \subseteq Nat \X Nat /\ Distinct(Events(s))
         /\ IDs(Events(s)) = {i \in 1..s[2] : i + Ring > s[2]}
<1> DEFINE D == {j \in 1..s[2] : j + Ring > s[2]}
           event == [i \in D |-> <<s[1], i>>]
<1>1. Events(s) \subseteq Nat \X Nat /\ Distinct(Events(s))
  BY DEF Events, Distinct
<1>2. IsFiniteSet(D)
  <2>1. IsFiniteSet(1..s[2])
    BY FS_Interval
  <2> QED BY <2>1, FS_Subset
<1>3. event \in Surjection(D, Events(s))
  BY DEF Surjection, Events
<1>4. IsFiniteSet(Events(s))
  <2> HIDE DEF D, event
  <2> QED BY <1>2, <1>3, FS_Surjection
<1>5. IDs(Events(s)) = D
  <2>1. \A e \in Events(s) : e[2] \in D
    BY DEF Events
  <2>2. ASSUME NEW i \in D PROVE \E e \in Events(s) : e[2] = i
    <3>1. <<s[1], i>> \in Events(s) /\ <<s[1], i>>[2] = i
      BY DEF Events
    <3> QED BY <3>1
  <2> QED BY <2>1, <2>2 DEF IDs
<1> QED BY <1>1, <1>4, <1>5

LEMMA CollectLog ==
  ASSUME PageInv, LogInv, Collect, snapshot \in Nat \X Nat
  PROVE  LogInv'
<1> DEFINE s == snapshot
           known == IF Rewound(s) THEN {} ELSE seen
           before == IF Rewound(s) THEN {} ELSE log
           fresh == {e \in Events(s) : e[2] \notin known}
           both == fresh \union before
           merged == Newest(both, Limit)
           all == known \union IDs(fresh)
<1>1. /\ log' = IF fresh = {} THEN before ELSE merged
      /\ seen' = IF fresh # {} /\ Cardinality(all) > SeenCap THEN IDs(merged) ELSE all
      /\ high' = IF high < s[2] \/ Rewound(s) THEN s[2] ELSE high
      /\ shown' = s /\ s # None
  BY NoneAssumption DEF Collect
<1>2. /\ known \subseteq Nat /\ before \subseteq Nat \X Nat /\ high \in Nat /\ s[2] \in Nat
      /\ IsFiniteSet(before) /\ Distinct(before) /\ Cardinality(before) <= Limit
      /\ IDs(before) \subseteq known
  <2>1. high \in Nat /\ s[2] \in Nat
    BY DEF PageInv, ViewerTypeOK
  <2>2. CASE Rewound(s)
    <3>1. known = {} /\ before = {}
      BY <2>2
    <3> HIDE DEF known, before
    <3>2. IsFiniteSet(before) /\ Cardinality(before) = 0
      BY <3>1, FS_EmptySet
    <3>3. IDs(before) = {} /\ Distinct(before)
      BY <3>1 DEF IDs, Distinct
    <3>4. 0 <= Limit
      BY SizeAssumption
    <3> QED BY <2>1, <3>1, <3>2, <3>3, <3>4
  <2>3. CASE ~Rewound(s)
    <3>1. known = seen /\ before = log
      BY <2>3
    <3> HIDE DEF known, before, s
    <3> QED BY <2>1, <3>1 DEF PageInv, ViewerTypeOK, LogInv
  <2> QED BY <2>2, <2>3
<1>3. high' = s[2] /\ \A i \in known : i <= s[2]
  BY <1>1, <1>2 DEF Rewound, LogInv
<1>4. /\ IsFiniteSet(Events(s)) /\ Events(s) \subseteq Nat \X Nat /\ Distinct(Events(s))
      /\ IDs(Events(s)) = {i \in 1..s[2] : i + Ring > s[2]}
  BY EventsFacts
(* What the window of the new snapshot shares with what is known is in the *)
(* window of the last one, too.                                            *)
<1>5. ASSUME NEW i \in IDs(Events(s)), i \in known PROVE i \in IDs(before)
  <2>1. ~Rewound(s) /\ known = seen /\ before = log
    BY <1>5
  <2>2. shown # None /\ shown \in Nat \X Nat
    BY <1>5, <2>1 DEF LogInv, PageInv, ViewerTypeOK
  <2>3. IDs(Events(shown)) = {j \in 1..shown[2] : j + Ring > shown[2]}
    BY <2>2, EventsFacts
  <2>4. high = shown[2] /\ i <= high /\ high <= s[2]
    BY <1>2, <1>5, <2>1, <2>2 DEF LogInv, Rewound
  <2>5. i \in 1..s[2] /\ i + Ring > s[2]
    BY <1>4
  <2>6. i \in IDs(Events(shown))
    BY <1>2, <2>3, <2>4, <2>5, SizeAssumption
  <2> QED BY <2>1, <2>2, <2>6 DEF LogInv
<1> HIDE DEF s, known, before
<1>6. fresh \subseteq Events(s) /\ IsFiniteSet(fresh)
  BY <1>4, FS_Subset
<1>7. /\ both \in SUBSET (Nat \X Nat) /\ IsFiniteSet(both)
      /\ \A e \in both : e[2] <= s[2]
  <2>1. IsFiniteSet(both)
    BY <1>2, <1>6, FS_Union
  <2>2. \A e \in before : e[2] <= s[2]
    BY <1>2, <1>3 DEF IDs
  <2>3. \A e \in fresh : e[2] <= s[2]
    BY <1>4, <1>6 DEF IDs
  <2> QED BY <1>2, <1>4, <1>6, <2>1, <2>2, <2>3
<1>8. Distinct(both)
  <2>1. \A e \in fresh, f \in before : e[2] # f[2]
    BY <1>2 DEF IDs
  <2>2. Distinct(fresh)
    BY <1>4, <1>6 DEF Distinct
  <2> HIDE DEF fresh
  <2> QED BY <1>2, <2>1, <2>2 DEF Distinct
<1>9. merged \subseteq both /\ IsFiniteSet(merged) /\ Cardinality(merged) <= Limit
  <2>1. merged \subseteq both
    BY DEF Newest
  <2> HIDE DEF both
  <2> QED BY <1>7, <1>8, <2>1, NewestBounded, SizeAssumption
<1>10. ASSUME NEW i \in IDs(Events(s)) PROVE \E e \in both : e[2] = i /\ e \in merged
  <2>1. PICK e \in both : e[2] = i
    <3>1. CASE i \in known
      BY <1>5, <3>1 DEF IDs
    <3>2. CASE i \notin known
      <4>1. PICK e \in Events(s) : e[2] = i
        BY DEF IDs
      <4> QED BY <3>2, <4>1
    <3> QED BY <3>1, <3>2
  <2>2. i \in Nat /\ i + Ring > s[2]
    BY <1>4
  <2>3. e[2] + Limit > s[2]
    BY <1>2, <2>1, <2>2, SizeAssumption
  <2> HIDE DEF both
  <2> QED BY <1>2, <1>7, <1>8, <2>1, <2>3, NewestRecent, SizeAssumption
<1> HIDE DEF merged
<1>11. IsFiniteSet(log') /\ Cardinality(log') <= Limit /\ log' \subseteq both
  BY <1>1, <1>2, <1>9
<1>12. Distinct(log')
  BY <1>8, <1>11 DEF Distinct
<1>13. IDs(log') \subseteq seen' /\ \A i \in seen' : i <= high'
  <2>1. \A S, T : S \subseteq T => IDs(S) \subseteq IDs(T)
    BY DEF IDs
  <2>2. IDs(both) \subseteq all
    BY <1>2 DEF IDs
  <2>3. \A i \in all : i <= s[2]
    <3>1. \A i \in IDs(both) : i <= s[2]
      BY <1>7 DEF IDs
    <3>2. IDs(fresh) \subseteq IDs(both)
      BY <2>1
    <3> QED BY <1>3, <3>1, <3>2
  <2>4. IDs(merged) \subseteq IDs(both) /\ IDs(log') \subseteq IDs(both)
    BY <1>9, <1>11, <2>1
  <2> HIDE DEF both, all
  <2>5. CASE seen' = all
    BY <1>3, <2>2, <2>3, <2>4, <2>5
  <2>6. CASE seen' # all
    <3>1. seen' = IDs(merged) /\ log' = merged
      BY <1>1, <2>6
    <3> QED BY <1>3, <2>2, <2>3, <2>4, <3>1
  <2> QED BY <2>5, <2>6
<1>14. IDs(Events(s)) \subseteq IDs(log')
  <2> SUFFICES ASSUME NEW i \in IDs(Events(s)) PROVE i \in IDs(log')
    OBVIOUS
  <2>1. PICK e \in both : e[2] = i /\ e \in merged
    BY <1>10
  <2>2. e \in log'
    BY <1>1, <2>1
  <2> QED BY <2>1, <2>2 DEF IDs
<1> QED BY <1>1, <1>3, <1>11, <1>12, <1>13, <1>14 DEF LogInv

LEMMA LogKeeps ==
  ASSUME DashInv, LogInv, [Next]_vars
  PROVE  LogInv'
<1>1. CASE UNCHANGED eventLog
  BY <1>1 DEF LogInv, eventLog
<1>2. CASE Collect
  <2>1. snapshot # None
    BY <1>2 DEF Collect, DashInv, PageInv
  <2>2. PageInv /\ snapshot \in Nat \X Nat
    BY <2>1 DEF DashInv, PageInv, ViewerTypeOK
  <2> QED BY <1>2, <2>2, CollectLog
<1>3. Collect \/ UNCHANGED eventLog
  BY DEF Next, Server, Page, Handle, Reconnect, Deliver, Lose, Notice, GrowOld, Watchdog,
         Subscribe, OnOpen, OnMessage, OnError, vars, viewerVars
<1> QED BY <1>1, <1>2, <1>3

(* The log always shows the ring of the snapshot beside it, each ID once   *)
(* and never more than its limit, through reconnections, restarts and the  *)
(* forgetting of old IDs (useEventLog.ts 6-14).                            *)
THEOREM Covered == Spec => []LogCovers
<1>1. Init => LogInv
  BY FS_EmptySet, SizeAssumption DEF Init, ViewerInit, LogInv, Distinct, IDs
<1>2. DashInv /\ LogInv => LogCovers
  BY LogInvCovers DEF DashInv
<1>3. Spec => []LogInv
  BY <1>1, LogKeeps, DashAlways, PTL DEF Spec
<1> QED BY <1>2, <1>3, DashAlways, PTL
=============================================================================
