------------------------------- MODULE Viewer -------------------------------
(***************************************************************************)
(* The browser's side of the stream: useSimulationStream with the          *)
(* EventSource of createSseTransport, and useEventLog, which merges the    *)
(* ring of events every snapshot carries.                                  *)
(*                                                                         *)
(* lastMessageAt is abstracted to an age, the reconnection's delay to none: *)
(* its timer may fire at any time.  Frames are well formed.  The hook is   *)
(* mounted for as long as the page is.  React runs an effect after a       *)
(* commit, and one commit may stand for several snapshots: only the last   *)
(* of them reaches the log.                                                *)
(***************************************************************************)
EXTENDS Naturals, FiniteSets

CONSTANTS
  Ring,      (* maxEvents: how many events a snapshot carries              *)
  Limit,     (* EVENT_LOG_LIMIT                                            *)
  SeenCap,   (* EVENT_LOG_LIMIT * 8                                        *)
  None

ASSUME NoneAssumption == None \notin Nat \X Nat
ASSUME SizeAssumption == {Ring, Limit} \subseteq Nat /\ Ring <= Limit

VARIABLES
  sources,     (* the EventSources that are not closed                     *)
  current,     (* the one unsubscribe would close, or None                 *)
  retry,       (* how many reconnection timers are armed                   *)
  connection,  (* "connecting", "live", "reconnecting"                     *)
  starved,     (* the watchdog's verdict                                   *)
  age,         (* of lastMessageAt: "none", "fresh", "old" (staleAfterMs)  *)
  snapshot,    (* the last one received: <<server process, latest ID>>     *)
  shown,       (* the one the log's effect ran for last                    *)
  log,         (* events, as <<server process, ID>>                        *)
  seen, high   (* seenRef, highWaterRef                                    *)

hook       == <<sources, current, retry, connection, starved, age, snapshot>>
eventLog   == <<shown, log, seen, high>>
viewerVars == <<hook, eventLog>>

(* live, as the hook returns it.                                           *)
Live == connection = "live" /\ ~starved /\ age # "none"

(* events of a snapshot: the ring, which New has put a first event in.     *)
Events(s) == {<<s[1], i>> : i \in {j \in 1..s[2] : j + Ring > s[2]}}
IDs(events) == {e[2] : e \in events}

ViewerInit ==
  /\ sources = {} /\ current = None
  /\ retry = 1       (* the effect that connects for the first time        *)
  /\ connection = "connecting"
  /\ starved = FALSE /\ age = "none" /\ snapshot = None
  /\ shown = None /\ log = {} /\ seen = {} /\ high = 0

ViewerTypeOK ==
  /\ retry \in Nat
  /\ connection \in {"connecting", "live", "reconnecting"}
  /\ starved \in BOOLEAN /\ age \in {"none", "fresh", "old"}
  /\ {snapshot, shown} \ {None} \subseteq Nat \X Nat
  /\ log \subseteq Nat \X Nat /\ seen \subseteq Nat /\ high \in Nat

-----------------------------------------------------------------------------
(* connect, when the timer fires.                                          *)
Subscribe(c) ==
  /\ retry > 0 /\ c \notin sources
  /\ retry' = retry - 1
  /\ sources' = sources \union {c} /\ current' = c
  /\ UNCHANGED <<connection, starved, age, snapshot, eventLog>>

OnOpen(c) ==
  /\ c \in sources
  /\ connection' = "live" /\ starved' = FALSE
  /\ UNCHANGED <<sources, current, retry, age, snapshot, eventLog>>

OnMessage(c, s) ==
  /\ c \in sources
  /\ connection' = "live" /\ starved' = FALSE
  /\ age' = "fresh" /\ snapshot' = s
  /\ UNCHANGED <<sources, current, retry, eventLog>>

(* teardown closes the EventSource, and its handlers with it.              *)
TeardownNothing == sources' = sources /\ current' = None
Teardown == sources' = sources \ {current} /\ current' = None

(* scheduleReconnect.                                                      *)
OnError(c) ==
  /\ c \in sources
  /\ Teardown
  /\ retry' = retry + 1
  /\ connection' = "reconnecting" /\ starved' = FALSE
  /\ UNCHANGED <<age, snapshot, eventLog>>

(* Time passes without a message; the watchdog looks.                      *)
GrowOld ==
  /\ age = "fresh"
  /\ age' = "old"
  /\ UNCHANGED <<sources, current, retry, connection, starved, snapshot, eventLog>>

VerdictNull == age = "none"
Verdict == age # "fresh"
Watchdog ==
  /\ connection = "live"
  /\ starved # Verdict
  /\ starved' = Verdict
  /\ UNCHANGED <<sources, current, retry, connection, age, snapshot, eventLog>>

-----------------------------------------------------------------------------
(* useEventLog's effect.                                                   *)
Newest(events, n) == {e \in events : Cardinality({f \in events : f[2] > e[2]}) < n}
NeverRewound(s) == FALSE
Rewound(s) == s[2] < high
Collect ==
  /\ snapshot # shown
  /\ shown' = snapshot
  /\ LET known  == IF Rewound(snapshot) THEN {} ELSE seen
         before == IF Rewound(snapshot) THEN {} ELSE log
         fresh  == {e \in Events(snapshot) : e[2] \notin known}
         merged == Newest(fresh \union before, Limit)
         all    == known \union IDs(fresh)
     IN /\ log'  = IF fresh = {} THEN before ELSE merged
        /\ seen' = IF fresh # {} /\ Cardinality(all) > SeenCap THEN IDs(merged) ELSE all
        /\ high' = IF high < snapshot[2] \/ Rewound(snapshot) THEN snapshot[2] ELSE high
  /\ UNCHANGED hook

-----------------------------------------------------------------------------
(* Exactly one stream is open, or else exactly one attempt to open it is   *)
(* to come: an error never leaves a second EventSource behind nor the page *)
(* without a next attempt (useSimulationStream.ts 66).                     *)
OneLifeline == Cardinality(sources) + retry = 1 /\ sources \subseteq {current}

(* The log always shows what the ring of the snapshot beside it holds: each *)
(* of its IDs, no ID twice, nothing beyond the limit; after a restart that *)
(* is noticed nothing of the old server stays (useEventLog.ts 6-14).       *)
LogCovers ==
  shown # None =>
    /\ IDs(Events(shown)) \subseteq IDs(log)
    /\ Cardinality(log) = Cardinality(IDs(log)) /\ Cardinality(log) <= Limit
    /\ \A e \in log : e[2] <= shown[2]

(* After a restart the log holds the new server's events: what a snapshot  *)
(* carries is not swallowed because the old server used the same IDs       *)
(* (useEventLog.ts 23-24).                                                 *)
NothingSwallowed == shown # None => Events(shown) \subseteq log
=============================================================================
