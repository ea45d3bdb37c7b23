------------------------------- MODULE Stream -------------------------------
(***************************************************************************)
(* The server's side of GET /api/stream (internal/api/sse.go) inside the   *)
(* process that serves it (cmd/server/main.go): the semaphore that caps    *)
(* the streams, one handler per connection, the order of a shutdown, a     *)
(* failure of the listener, a kill and a restart.                          *)
(*                                                                         *)
(* A connection is a pipe that holds a few writes: a handler's next write  *)
(* waits for the last one to fit, with no deadline (WriteTimeout is zero). *)
(* It may go dark, lost with neither end told; the client here connects,   *)
(* reads and hangs up as it likes (module Dashboard puts the browser in    *)
(* its place).  Of a snapshot a frame keeps which server process made it   *)
(* and the ID of its latest event.  Keepalive comments, which carry        *)
(* nothing, and the tickers' periods are left out.                         *)
(***************************************************************************)
EXTENDS Naturals, Sequences, FiniteSets

CONSTANTS
  Conn,      (* connections, a name of one is used again once both ends are done *)
  Slots,     (* maxStreamConnections                                       *)
  WireCap,   (* writes a connection takes in without the client reading    *)
  MaxInc,    (* bound: how many times the server is started                *)
  MaxTop,    (* bound: how many events one server emits                    *)
  MaxDark    (* bound: how many connections are dark at a time             *)

ASSUME ConnAssumption  == IsFiniteSet(Conn)
ASSUME BoundAssumption == {Slots, WireCap, MaxDark} \subseteq Nat /\ {MaxInc, MaxTop} \subseteq Nat \ {0}

VARIABLES
  phase,     (* where main is: "serving", "failed", "cancelled",           *)
             (* "draining", "closing", "down"                              *)
  inc, top,  (* which server process this is; its latest event's ID        *)
  slots,     (* len(a.streamSem)                                           *)
  handler,   (* each connection's handler: "none", "arrived", "opening",   *)
             (* "looping"                                                  *)
  link,      (* each connection: "up"; "dark"; "reaped" (dark, and the     *)
             (* server knows); "gone" (the client left); "ended"           *)
  wire       (* what was written to it and not yet read                    *)

main == <<phase, inc, top>>
streamVars == <<main, slots, handler, link, wire>>

(* What a response begins with, and what Controller.Snapshot has to show.  *)
Header   == <<0, 0>>
Snapshot == <<inc, top>>
Frame    == {Header} \union ((1..MaxInc) \X (1..MaxTop))

StreamTypeOK ==
  /\ phase \in {"serving", "failed", "cancelled", "draining", "closing", "down"}
  /\ inc \in 1..MaxInc /\ top \in 1..MaxTop
  /\ slots \in 0..Slots
  /\ handler \in [Conn -> {"none", "arrived", "opening", "looping"}]
  /\ link \in [Conn -> {"up", "dark", "reaped", "gone", "ended"}]
  /\ wire \in [Conn -> Seq(Frame)]

StreamInit ==
  /\ phase = "serving" /\ inc = 1 /\ top = 1
  /\ slots = 0
  /\ handler = [c \in Conn |-> "none"]
  /\ link = [c \in Conn |-> "ended"]
  /\ wire = [c \in Conn |-> <<>>]

-----------------------------------------------------------------------------
(* handleStream.                                                           *)
Listening == phase \in {"serving", "cancelled"}
NeverCancelled == FALSE
Cancelled == phase \in {"cancelled", "draining", "closing"}

(* A write can begin: all the earlier ones have gone out.  On a dark       *)
(* connection nobody sees whether it does or is blocked for good.          *)
Room(c) == Len(wire[c]) <= WireCap
Unheard(c) == link[c] \in {"reaped", "gone"}
Write(c, frame) ==
  /\ ~Unheard(c)
  /\ Room(c)
  /\ wire' = [wire EXCEPT ![c] = IF link[c] = "up" THEN Append(@, frame) ELSE @]

(* A client's request arrives while somebody listens, or is refused.       *)
Connect(c) ==
  /\ handler[c] = "none"
  /\ handler' = [handler EXCEPT ![c] = IF Listening THEN "arrived" ELSE "none"]
  /\ link' = [link EXCEPT ![c] = IF Listening THEN "up" ELSE "ended"]
  /\ wire' = [wire EXCEPT ![c] = <<>>]
  /\ UNCHANGED <<main, slots>>

(* What the client sees when a handler returns: nothing, on a dark one.    *)
Ended(l) == IF l \in {"up", "gone"} THEN "ended" ELSE l

(* The deferred receive from the semaphore, on every way out.              *)
ReleaseNothing == slots' = slots
Release == slots' = slots - 1
Return(c) ==
  /\ handler' = [handler EXCEPT ![c] = "none"]
  /\ link' = [link EXCEPT ![c] = Ended(@)]

(* Past the cap: 503.                                                      *)
RefuseReleasing(c) ==
  /\ handler[c] = "arrived"
  /\ slots >= Slots
  /\ Return(c) /\ Release
  /\ UNCHANGED <<main, wire>>
Refuse(c) ==
  /\ handler[c] = "arrived"
  /\ slots >= Slots
  /\ Return(c)
  /\ UNCHANGED <<main, slots, wire>>

Admit(c) ==
  /\ handler[c] = "arrived"
  /\ slots < Slots
  /\ slots' = slots + 1
  /\ handler' = [handler EXCEPT ![c] = "opening"]
  /\ Write(c, Header) \/ (Unheard(c) /\ UNCHANGED wire)
  /\ UNCHANGED <<main, link>>

SendFirst(c) ==
  /\ handler[c] = "opening"
  /\ Write(c, Snapshot)
  /\ handler' = [handler EXCEPT ![c] = "looping"]
  /\ UNCHANGED <<main, slots, link>>

(* The select: the ticker, ...                                             *)
Push(c) ==
  /\ handler[c] = "looping"
  /\ Write(c, Snapshot)
  /\ UNCHANGED <<main, slots, handler, link>>

(* ... or the request's context, which ends with main's.                   *)
ContextDone(c) ==
  /\ handler[c] = "looping"
  /\ Room(c)
  /\ Cancelled
  /\ Return(c) /\ Release
  /\ UNCHANGED <<main, wire>>

(* The client has left: the context is done, or a write fails, a blocked   *)
(* one too.                                                                *)
HungUp(c) ==
  /\ handler[c] \in {"opening", "looping"}
  /\ Unheard(c)
  /\ Return(c) /\ Release
  /\ UNCHANGED <<main, wire>>

-----------------------------------------------------------------------------
(* The process.                                                            *)
EmitEvent ==
  /\ phase # "down"
  /\ top < MaxTop
  /\ top' = top + 1
  /\ UNCHANGED <<phase, inc, slots, handler, link, wire>>

Turn(from, to) ==
  /\ phase = from
  /\ phase' = to
  /\ UNCHANGED <<inc, top, slots, handler, link, wire>>

(* SIGTERM: the request contexts are cancelled before Shutdown closes the  *)
(* listener and waits for the handlers, or for its deadline.               *)
Signal   == Turn("serving", "cancelled")
Shutdown == Turn("cancelled", "draining")
Drained  == (\A c \in Conn : handler[c] = "none") /\ Turn("draining", "closing")
Deadline == Turn("draining", "closing")

(* ListenAndServe fails: the engine is closed and the process exits.       *)
ServeFails == Turn("serving", "failed")

(* The process ends: closeEngine has returned, or something killed it.  Its *)
(* connections end with it.                                                *)
Die ==
  /\ phase' = "down"
  /\ slots' = 0
  /\ handler' = [c \in Conn |-> "none"]
  /\ link' = [c \in Conn |-> Ended(link[c])]
  /\ UNCHANGED <<inc, top, wire>>
Exit == phase \in {"failed", "closing"} /\ Die
Kill == phase # "down" /\ Die

(* A new process counts its events from one.                               *)
Restart ==
  /\ phase = "down"
  /\ inc < MaxInc
  /\ phase' = "serving" /\ inc' = inc + 1 /\ top' = 1
  /\ UNCHANGED <<slots, handler, link, wire>>

-----------------------------------------------------------------------------
(* The network and the client's end of a connection.                       *)
GoDark(c) ==
  /\ link[c] = "up"
  /\ Cardinality({d \in Conn : link[d] \in {"dark", "reaped"}}) < MaxDark
  /\ link' = [link EXCEPT ![c] = "dark"]
  /\ wire' = [wire EXCEPT ![c] = <<>>]
  /\ UNCHANGED <<main, slots, handler>>

(* The server's kernel gives up on a connection nobody acknowledges.       *)
Reap(c) ==
  /\ link[c] = "dark" /\ handler[c] # "none"
  /\ link' = [link EXCEPT ![c] = "reaped"]
  /\ UNCHANGED <<main, slots, handler, wire>>

Read(c) ==
  /\ link[c] \in {"up", "ended"}
  /\ wire[c] # <<>>
  /\ wire' = [wire EXCEPT ![c] = Tail(@)]
  /\ UNCHANGED <<main, slots, handler, link>>

HangUp(c) ==
  /\ link' = [link EXCEPT ![c] = IF @ = "dark" /\ handler[c] # "none" THEN @
                                 ELSE IF handler[c] = "none" THEN "ended" ELSE "gone"]
  /\ wire' = [wire EXCEPT ![c] = <<>>]
  /\ UNCHANGED <<main, slots, handler>>

Process == EmitEvent \/ Signal \/ Shutdown \/ Drained \/ Deadline \/ ServeFails
             \/ Exit \/ Kill \/ Restart
Serve(c) == Refuse(c) \/ Admit(c) \/ SendFirst(c) \/ Push(c) \/ ContextDone(c) \/ HungUp(c)
Network(c) == GoDark(c) \/ Reap(c)
Client(c) == Connect(c) \/ Read(c) \/ HangUp(c)

StreamNext == Process \/ \E c \in Conn : Serve(c) \/ Network(c) \/ Client(c)
StreamSpec == StreamInit /\ [][StreamNext]_streamVars

(* A handler runs on while it can; select picks at random among the cases  *)
(* that are ready, so a done context is not passed over for ever.  Time is *)
(* on nobody's side: nothing is assumed of Shutdown's deadline.            *)
StreamFairness ==
  /\ \A c \in Conn : /\ WF_streamVars(Refuse(c) \/ Admit(c) \/ SendFirst(c) \/ HungUp(c))
                     /\ WF_streamVars(Push(c))
                     /\ SF_streamVars(link[c] = "up" /\ ContextDone(c))
                     /\ WF_streamVars(Reap(c))
  /\ WF_streamVars(Shutdown) /\ WF_streamVars(Drained) /\ WF_streamVars(Exit)

-----------------------------------------------------------------------------
(* Every slot of the semaphore is held by a handler that is still running, *)
(* and by one only, whichever way handlers return and however the process  *)
(* ends: none leaks, and the cap is never passed (sse.go 34-42).           *)
SlotsHeld ==
  /\ slots = Cardinality({c \in Conn : handler[c] \in {"opening", "looping"}})
  /\ slots <= Slots

(* A shutdown ends by itself: the streams are cancelled first, so Shutdown *)
(* has nobody to wait for until its deadline (main.go 45-47, 102).         *)
ShutdownEnds == phase = "draining" ~> phase = "down"
=============================================================================
