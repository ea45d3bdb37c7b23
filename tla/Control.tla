------------------------------ MODULE Control ------------------------------
(***************************************************************************)
(* The control plane of internal/sim/engine.go: the operators' requests,   *)
(* which arrive on HTTP handlers of their own and share no lock, the event *)
(* ring, the kick channel, and the tick goroutine that publishes the       *)
(* snapshot.                                                               *)
(*                                                                         *)
(* A request, and a tick, is a list of steps still to do, each of which    *)
(* touches one shared thing once: an atomic store or load, the ring under  *)
(* evMu, the kick channel, the snapshot under snapMu.  Two steps of tick   *)
(* group loads that follow each other: ReadInjections a node's multiplier  *)
(* and fail rate, Capture a node's status and the modes of its edges.      *)
(* Between any two nodes, and between a mode's two readings, everything    *)
(* may move.  The engine stays open: Close is in module Pipeline.          *)
(***************************************************************************)
EXTENDS Health, SequencesExt

CONSTANTS
  Node, Edge, Gate, Root,  (* the topology                                 *)
  Nodes, Edges,     (* the nodes and the edges in declaration order        *)
  DefaultMode,      (* per edge                                            *)
  Operator,         (* the handlers, one request each                      *)
  Request,          (* what this instance's operators ask for              *)
  MaxEvents,        (* the size of the event ring                          *)
  MaxFlips          (* bound: how often the traffic changes a node's health*)

ASSUME GraphAssumption ==
  /\ Root \in Node /\ Gate \subseteq Node /\ Edge \subseteq Node \X Node
  /\ Nodes \in Seq(Node) /\ Range(Nodes) = Node /\ Edges \in Seq(Edge) /\ Range(Edges) = Edge
(* What an event may be about: a transition's signal, or none of these.    *)
Signals == Node \union {"headline"}
ASSUME SignalAssumption == {"headline", "operator", "engine"} \cap Node = {}
(* validateTopology rejects cycles.                                        *)
ASSUME AcyclicAssumption ==
  \E height \in [Node -> 1..Len(Nodes)] : \A e \in Edge : height[e[2]] < height[e[1]]
(* What the handlers let through.  No default gates an edge to a service    *)
(* that is no gate.                                                        *)
Modes == {"blocking", "best_effort", "gated"}
ASSUME RequestAssumption ==
  /\ DefaultMode \in [Edge -> Modes]
  /\ \A e \in Edge : DefaultMode[e] = "gated" => e[2] \in Gate
  /\ Request \subseteq
       [op : {"inject"}, at : Node, mult : {"x1", "x10"}, fail : {"none", "some"}]
         \union [op : {"edge"}, at : Edge, mode : Modes]
         \union [op : {"reset"}] \union [op : {"scenario"}, at : Node]
ASSUME RingAssumption == MaxEvents \in Nat \ {0} /\ MaxFlips \in Nat

VARIABLES
  mult, fail,  (* the injections: "x1" and "x10", "none" and "some"        *)
  mode,        (* of every edge                                            *)
  sick,        (* services whose window, gates whose latch, says FAILING   *)
  flips,       (* how often that has changed                               *)
  events,      (* the ring, oldest first                                   *)
  nextEvID,
  kicked,      (* the token in kickCh                                      *)
  todo,        (* what is left of each operator's request                  *)
  asked,       (* the operators whose request has arrived                  *)
  tickTodo,    (* what is left of the tick in progress                     *)
  seen,        (* what that tick has gathered                              *)
  prev,        (* prevRollup and, at "headline", prevGlobal                *)
  snap         (* the published snapshot                                   *)

settings == <<mult, fail, mode, sick>>
ring     == <<events, nextEvID>>
opVars   == <<todo, asked>>
tickVars == <<tickTodo, seen, prev, snap>>
vars     == <<settings, flips, ring, kicked, opVars, tickVars>>

Healthy == [n \in Node |-> "OK"]
Blank == [local |-> Healthy, essential |-> {}, rollup |-> Healthy,
          mult |-> [n \in Node |-> "x1"], fail |-> [n \in Node |-> "none"],
          mode |-> DefaultMode, events |-> <<>>]

(* New has emitted its first event and published a first snapshot.         *)
Started == [id |-> 1, of |-> "engine", status |-> "OK"]
Init ==
  /\ mult = Blank.mult /\ fail = Blank.fail /\ mode = DefaultMode
  /\ sick = {} /\ flips = 0
  /\ events = <<Started>> /\ nextEvID = 1
  /\ kicked = FALSE
  /\ todo = [o \in Operator |-> <<>>] /\ asked = {}
  /\ tickTodo = <<>> /\ seen = Blank
  /\ prev = [of \in Signals |-> "OK"]
  /\ snap = [Blank EXCEPT !.essential = {e \in Edge : DefaultMode[e] # "best_effort"},
                          !.events = <<Started>>]

-----------------------------------------------------------------------------
(* emit: the ring keeps the newest maxEvents.                              *)
EmitTrimOne(of, status) ==
  LET all == Append(events, [id |-> nextEvID + 1, of |-> of, status |-> status]) IN
  /\ nextEvID' = nextEvID + 1
  /\ events' = IF Len(all) > MaxEvents THEN SubSeq(all, Len(all) - MaxEvents + 2, Len(all)) ELSE all
EmitKeepOldest(of, status) ==
  LET all == Append(events, [id |-> nextEvID + 1, of |-> of, status |-> status]) IN
  /\ nextEvID' = nextEvID + 1
  /\ events' = SubSeq(all, 1, IF Len(all) > MaxEvents THEN MaxEvents ELSE Len(all))
Emit(of, status) ==
  LET all == Append(events, [id |-> nextEvID + 1, of |-> of, status |-> status]) IN
  /\ nextEvID' = nextEvID + 1
  /\ events' = IF Len(all) > MaxEvents THEN SubSeq(all, Len(all) - MaxEvents + 1, Len(all)) ELSE all

(* The steps.                                                              *)
SetMult(n, v) == <<"mult", n, v>>
SetFail(n, v) == <<"fail", n, v>>
ClearLatch(n) == <<"latch", n, "open">>
SetMode(e, m) == <<"mode", e, m>>
EmitEvent == <<"emit", "", "">>
Kick == <<"kick", "", "">>

(* reset: node by node, then edge by edge.                                 *)
ResetSteps ==
  LET Clear(n) == <<SetMult(n, "x1"), SetFail(n, "none"), ClearLatch(n)>> IN
  [i \in 1..(3 * Len(Nodes)) |-> Clear(Nodes[(i + 2) \div 3])[((i + 2) % 3) + 1]]
    \o [i \in 1..Len(Edges) |-> SetMode(Edges[i], DefaultMode[Edges[i]])]

(* What a request does once it is accepted.  SetEdgeMode refuses to gate   *)
(* an edge to a service that is no gate, and does nothing to an edge that  *)
(* has the mode already; ApplyScenario is a reset and one injection.       *)
Announce == <<EmitEvent, Kick>>
InjectKickFirst(r) ==
  <<SetMult(r.at, r.mult), Kick, SetFail(r.at, r.fail), EmitEvent>>
InjectSteps(r) == <<SetMult(r.at, r.mult), SetFail(r.at, r.fail)>> \o Announce
EdgeSteps(r) ==
  IF mode[r.at] = r.mode \/ (r.mode = "gated" /\ r.at[2] \notin Gate) THEN <<>>
  ELSE <<SetMode(r.at, r.mode)>> \o Announce
ScenarioSteps(r) == ResetSteps \o <<SetMult(r.at, "x10")>> \o Announce

Steps(r) ==
  CASE r.op = "inject"   -> InjectSteps(r)
    [] r.op = "edge"     -> EdgeSteps(r)
    [] r.op = "reset"    -> ResetSteps \o Announce
    [] r.op = "scenario" -> ScenarioSteps(r)

Ask(o, r) ==
  /\ o \notin asked
  /\ asked' = asked \union {o}
  /\ todo' = [todo EXCEPT ![o] = Steps(r)]
  /\ UNCHANGED <<settings, flips, ring, kicked, tickVars>>

(* An operator's next step.  kick never blocks: one token is enough.       *)
StoreSwapped(s) ==
  /\ mult' = IF s[1] = "fail" THEN [mult EXCEPT ![s[2]] = s[3]] ELSE mult
  /\ fail' = IF s[1] = "mult" THEN [fail EXCEPT ![s[2]] = s[3]] ELSE fail
  /\ mode' = IF s[1] = "mode" THEN [mode EXCEPT ![s[2]] = s[3]] ELSE mode
  /\ sick' = IF s[1] = "latch" /\ s[2] \in Gate THEN sick \ {s[2]} ELSE sick
Store(s) ==
  /\ mult' = IF s[1] = "mult" THEN [mult EXCEPT ![s[2]] = s[3]] ELSE mult
  /\ fail' = IF s[1] = "fail" THEN [fail EXCEPT ![s[2]] = s[3]] ELSE fail
  /\ mode' = IF s[1] = "mode" THEN [mode EXCEPT ![s[2]] = s[3]] ELSE mode
  /\ sick' = IF s[1] = "latch" /\ s[2] \in Gate THEN sick \ {s[2]} ELSE sick

OpStep(o) ==
  /\ todo[o] # <<>>
  /\ LET s == Head(todo[o]) IN
     /\ Store(s)
     /\ IF s[1] = "emit" THEN Emit("operator", "OK") ELSE UNCHANGED ring
     /\ kicked' = (kicked \/ s[1] = "kick")
  /\ todo' = [todo EXCEPT ![o] = Tail(@)]
  /\ UNCHANGED <<flips, asked, tickVars>>

-----------------------------------------------------------------------------
(* tick.                                                                   *)

(* All it does, in order: capture every node, fold, read the injections and *)
(* the edges, emit what has changed, copy the ring, publish.               *)
Each(kind, list) == [i \in 1..Len(list) |-> <<kind, list[i], "">>]
TickStepsCopyFirst ==
  Each("capture", Nodes) \o <<<<"fold", "", "">>>>
    \o Each("injections", Nodes) \o Each("edge", Edges) \o <<<<"copy", "", "">>>>
    \o Each("transition", Nodes) \o <<<<"transition", "headline", "">>, <<"publish", "", "">>>>
TickSteps ==
  Each("capture", Nodes) \o <<<<"fold", "", "">>>>
    \o Each("injections", Nodes) \o Each("edge", Edges) \o Each("transition", Nodes)
    \o <<<<"transition", "headline", "">>, <<"copy", "", "">>, <<"publish", "", "">>>>

(* The loop wakes up on the ticker or on a kick.                           *)
TickOnTimer ==
  /\ tickTodo = <<>>
  /\ tickTodo' = TickSteps
  /\ UNCHANGED <<settings, flips, ring, kicked, opVars, seen, prev, snap>>
TickOnKick ==
  /\ tickTodo = <<>>
  /\ kicked
  /\ kicked' = FALSE
  /\ tickTodo' = TickSteps
  /\ UNCHANGED <<settings, flips, ring, opVars, seen, prev, snap>>

(* One node's local status and the modes of its dependencies, in one step  *)
(* (the code's loads follow each other; no property tells their orders     *)
(* apart).                                                                 *)
Capture(n) ==
  /\ seen' = [seen EXCEPT
       !.local[n] = IF n \in sick THEN "FAILING" ELSE "OK",
       !.essential = @ \union {e \in Edge : e[1] = n /\ mode[e] # "best_effort"}]
  /\ UNCHANGED <<ring, prev, snap>>

(* The fold over the captured statuses and modes (module Rollup shows what *)
(* computeRollups, leaves first, comes to).                                *)
Rollups(local, essential) ==
  LET kids(n, E) == {m \in Node : <<n, m>> \in E}
      up[n \in Node] == RollupOne(local[n], {up[m] : m \in kids(n, essential)},
                                            {up[m] : m \in kids(n, Edge \ essential)})
  IN up
Fold ==
  /\ seen' = [seen EXCEPT !.rollup = Rollups(seen.local, seen.essential)]
  /\ UNCHANGED <<ring, prev, snap>>

ReadInjections(n) ==
  /\ seen' = [seen EXCEPT !.mult[n] = mult[n], !.fail[n] = fail[n]]
  /\ UNCHANGED <<ring, prev, snap>>
ReadEdge(e) ==
  /\ seen' = [seen EXCEPT !.mode[e] = mode[e]]
  /\ UNCHANGED <<ring, prev, snap>>

(* A node's transition, or the headline's, is an event when the status is  *)
(* not the last one that was looked at.                                    *)
Banner(rollup, of) == rollup[IF of = "headline" THEN Root ELSE of]
Transition(of) ==
  LET cur == Banner(seen.rollup, of) IN
  /\ IF prev[of] # cur THEN Emit(of, cur) ELSE UNCHANGED ring
  /\ prev' = [prev EXCEPT ![of] = cur]
  /\ UNCHANGED <<seen, snap>>

CopyEvents ==
  /\ seen' = [seen EXCEPT !.events = events]
  /\ UNCHANGED <<ring, prev, snap>>
Publish ==
  /\ snap' = seen
  /\ seen' = Blank
  /\ UNCHANGED <<ring, prev>>

TickStep ==
  /\ tickTodo # <<>>
  /\ LET s == Head(tickTodo) IN
     \/ s[1] = "capture" /\ Capture(s[2])
     \/ s[1] = "fold" /\ Fold
     \/ s[1] = "injections" /\ ReadInjections(s[2])
     \/ s[1] = "edge" /\ ReadEdge(s[2])
     \/ s[1] = "transition" /\ Transition(s[2])
     \/ s[1] = "copy" /\ CopyEvents
     \/ s[1] = "publish" /\ Publish
  /\ tickTodo' = Tail(tickTodo)
  /\ UNCHANGED <<settings, flips, kicked, opVars>>

(* The traffic makes a node sick or lets it recover.                       *)
Flip(n) ==
  /\ flips < MaxFlips
  /\ flips' = flips + 1
  /\ sick' = IF n \in sick THEN sick \ {n} ELSE sick \union {n}
  /\ UNCHANGED <<mult, fail, mode, ring, kicked, opVars, tickVars>>

Next ==
  \/ \E o \in Operator : OpStep(o) \/ \E r \in Request : Ask(o, r)
  \/ TickOnTimer \/ TickOnKick \/ TickStep
  \/ \E n \in Node : Flip(n)

Spec == Init /\ [][Next]_vars

(* Handlers and the tick goroutine run; the loop's select takes a kick     *)
(* that stays.  Nothing is assumed of the ticker: it would hide a lost     *)
(* kick.                                                                   *)
Fairness ==
  /\ \A o \in Operator : WF_vars(OpStep(o))
  /\ WF_vars(TickStep)
  /\ SF_vars(TickOnKick)
FairSpec == Spec /\ Fairness

-----------------------------------------------------------------------------
TypeOK ==
  /\ mult \in [Node -> {"x1", "x10"}] /\ fail \in [Node -> {"none", "some"}]
  /\ \A e \in Edge : mode[e] = "gated" => e[2] \in Gate
  /\ sick \subseteq Node /\ asked \subseteq Operator
  /\ {snap.rollup[n] : n \in Node} \subseteq Status
  /\ kicked \in BOOLEAN /\ nextEvID \in Nat

(* The ring, and every published copy of it, is a run of consecutive IDs   *)
(* of at most MaxEvents, and the ring ends with the newest: a gap between  *)
(* two snapshots is exactly what a reader has missed.                      *)
Consecutive(log) == /\ Len(log) \in 1..MaxEvents
                    /\ \A i \in 1..(Len(log)-1) : log[i+1].id = log[i].id + 1
RingIsGapless == /\ Consecutive(events) /\ Last(events).id = nextEvID
                 /\ Consecutive(snap.events)

(* The event list of a snapshot agrees with its own banner: its latest     *)
(* headline, and its latest transition of each node, is the status the     *)
(* same snapshot shows.                                                    *)
Agrees(log, of, status) ==
  \A i \in 1..Len(log) :
    log[i].of = of /\ (\A j \in (i + 1)..Len(log) : log[j].of # of) => log[i].status = status
LogMatchesBanner == \A of \in Signals : Agrees(snap.events, of, Banner(snap.rollup, of))

(* To its readers the engine is a feed: each snapshot carries exactly the  *)
(* newest MaxEvents events up to some point, and the next one takes it from *)
(* there or further on, so a gap is never wider than what the ring cannot  *)
(* hold (emit, eventsCopy and the publication in tick).                    *)
EventIDs(log) == {log[i].id : i \in 1..Len(log)}
Promised == INSTANCE Feed WITH
  Size <- MaxEvents, last <- nextEvID, shown <- EventIDs(snap.events)
ImplementsFeed == Promised!Spec

(* No kick is lost: once the operators are done, the snapshot comes to     *)
(* show their settings, rollups that were folded over the modes it shows,  *)
(* and the whole log, though the ticker never ticks again.                 *)
Shown ==
  /\ snap.mult = mult /\ snap.fail = fail /\ snap.mode = mode
  /\ snap.essential = {e \in Edge : mode[e] # "best_effort"}
  /\ snap.rollup = Rollups(snap.local, snap.essential)
  /\ snap.events = events
NoKickLost == <>[]Shown

(* Its safe half: whenever nothing is left to do, no request, kick or tick, *)
(* the snapshot shows all that the operators have done.                    *)
UpToDate == (\A o \in Operator : todo[o] = <<>>) /\ ~kicked /\ tickTodo = <<>> => Shown

(* ApplyScenario's comment: a preset always reproduces the behaviour its   *)
(* text describes, regardless of what the operator was fiddling with.  It  *)
(* says so of a preset that another handler is applying, too: whatever the *)
(* order, the settings in the end are those of one preset.                 *)
Preset(r) == /\ mult = [n \in Node |-> IF n = r.at THEN "x10" ELSE "x1"]
             /\ fail = Blank.fail /\ mode = DefaultMode
ScenarioReproduces ==
  asked = Operator /\ (\A o \in Operator : todo[o] = <<>>) =>
    \E r \in Request : r.op = "scenario" /\ Preset(r)
=============================================================================
