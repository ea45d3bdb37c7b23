----------------------------- MODULE Dashboard -----------------------------
(***************************************************************************)
(* One page watching the server: the stream of module Stream read by the   *)
(* hooks of module Viewer.  A step here is a step of the server, of the    *)
(* network, of the page, or of the page and its connection together.       *)
(***************************************************************************)
EXTENDS Stream, Viewer

vars == <<streamVars, viewerVars>>

Init == StreamInit /\ ViewerInit
TypeOK ==
  /\ StreamTypeOK /\ ViewerTypeOK
  /\ sources \subseteq Conn /\ current \in Conn \union {None}

Server == Process /\ UNCHANGED viewerVars
Handle(c) == (Serve(c) \/ Network(c)) /\ UNCHANGED viewerVars
Page == (GrowOld \/ Watchdog \/ Collect) /\ UNCHANGED streamVars

(* new EventSource(url).                                                   *)
Reconnect(c) == Subscribe(c) /\ Connect(c)

(* The page reads what the connection has for it.                          *)
Deliver(c) ==
  /\ Read(c)
  /\ IF Head(wire[c]) = Header THEN OnOpen(c) ELSE OnMessage(c, Head(wire[c]))

(* The connection ends or was refused, or the browser finds that it leads  *)
(* nowhere: the teardown hangs up.                                         *)
Finished(c) == link[c] = "ended" /\ wire[c] = <<>>
Lost(c) == link[c] \in {"dark", "reaped"}
Lose(c) == Finished(c) /\ OnError(c) /\ HangUp(c)
Notice(c) == Lost(c) /\ OnError(c) /\ HangUp(c)

Next ==
  \/ Server \/ Page
  \/ \E c \in Conn : Handle(c) \/ Reconnect(c) \/ Deliver(c) \/ Lose(c) \/ Notice(c)

(* The page's timers fire, its effects run, and it reads what arrives.     *)
(* That the browser ever notices a dark connection is not assumed.         *)
Fairness ==
  /\ StreamFairness
  /\ WF_vars(GrowOld /\ UNCHANGED streamVars)
  /\ WF_vars(Watchdog /\ UNCHANGED streamVars)
  /\ WF_vars(\E c \in Conn : Reconnect(c))
  /\ \A c \in Conn : WF_vars(Deliver(c)) /\ WF_vars(Lose(c))

Spec == Init /\ [][Next]_vars
FairSpec == Spec /\ Fairness

-----------------------------------------------------------------------------
(* A stream that has gone quiet is not called live for ever: if the page's *)
(* connection is dark, live ends, whatever the browser notices             *)
(* (useSimulationStream.ts 68-71, 178).                                    *)
QuietIsNoticed ==
  (\E c \in sources : Lost(c)) ~> (~Live \/ \A c \in sources : ~Lost(c))

(* While a server is up and the page's own connection is not dark, the     *)
(* page comes back to live, whatever became of the connections before and  *)
(* of the slots they held.                                                 *)
Reachable == phase = "serving" /\ \A c \in sources : ~Lost(c)
ComesBack == <>[]Reachable => []<>Live
=============================================================================
