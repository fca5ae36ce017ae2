--------------------------- MODULE WorkcellCamera ---------------------------
(***************************************************************************)
(* The camera channel of the workcell controller (cli/src/harness/         *)
(* workcell-controller.js) against the Node's camera.  Reads, one Start    *)
(* and any number of exact-session Stops are in flight at once; each       *)
(* request is bounded by the client's timeout, so each may fail with or    *)
(* without having reached the Node.  Other clients of the Node start and   *)
(* stop captures too.                                                      *)
(*                                                                         *)
(* cameraEpoch is only ever compared with the value captured when a read   *)
(* or a stop was issued: `fresh` holds that comparison, and whatever       *)
(* advances the epoch makes what is in flight stale.  `start` is           *)
(* cameraStart, cameraActionPending and cameraActionDone in one.           *)
(***************************************************************************)
EXTENDS Integers, FiniteSets

CONSTANTS
  MaxSessions,     \* bound of the model: captures the Node ever opens
  None

ASSUME CameraAssumption == MaxSessions \in Nat

VARIABLES
  node,            \* external: the Node's current capture
  opened,          \* external: captures opened so far
  lateStart,       \* a Start the client gave up on is still under way to the Node
  disposed,
  teardown,        \* progress of dispose()
  status,          \* camera.status
  frame,           \* capture session of the retained preview frame
  read,            \* cameraPending
  inventory,       \* inventoryPending, with the status it brings
  start,           \* the pending Start
  startUnconfirmed,
  stopId,          \* stopCaptureSessionId
  owned,           \* ownedCaptureSessions
  stopRequested,   \* stopRequestedSessions
  unconfirmed,     \* unconfirmedStops
  stops,           \* pendingStops
  told,            \* history: captures that a Start reply named
  everStopped      \* history: captures a Stop was ever requested for

external == <<node, opened, lateStart>>
stopping == <<stopId, owned, stopRequested, unconfirmed>>
view     == <<status, frame>>
history  == <<told, everStopped>>
vars == <<external, disposed, teardown, view, read, inventory, start, startUnconfirmed,
          stopping, stops, history>>

NoSession == 0
Session   == 1..MaxSessions
Status    == [session : Session \cup {NoSession},
              phase : {"unchecked", "idle", "live", "stopped", "stop-unconfirmed"}]
Read      == [fresh : BOOLEAN, reply : Status \cup {None}]
Start     == [cancelled : BOOLEAN, stage : {"queued", "sent", "answered", "stopping"},
              session : Session \cup {NoSession}]
Stop      == [fresh : BOOLEAN, reply : {"none", "refused", "stopped", "stop-unconfirmed"}]

TypeOK ==
  /\ node \in Status /\ opened \in 0..MaxSessions /\ lateStart \in BOOLEAN
  /\ disposed \in BOOLEAN /\ teardown \in {"none", "waiting", "stopping", "done"}
  /\ status \in Status /\ frame \in Session \cup {NoSession}
  /\ read \in Read \cup {None} /\ inventory \in Status \cup {None}
  /\ start \in Start \cup {None} /\ startUnconfirmed \in BOOLEAN
  /\ stopId \in Session \cup {NoSession}
  /\ owned \cup stopRequested \cup unconfirmed \cup told \cup everStopped \subseteq Session
  /\ DOMAIN stops \subseteq Session
  /\ \A s \in DOMAIN stops : stops[s] \in Stop

Init ==
  /\ node = [session |-> NoSession, phase |-> "idle"] /\ opened = 0 /\ lateStart = FALSE
  /\ disposed = FALSE /\ teardown = "none"
  /\ status = [session |-> NoSession, phase |-> "unchecked"] /\ frame = NoSession
  /\ read = None /\ inventory = None
  /\ start = None /\ startUnconfirmed = FALSE
  /\ stopId = NoSession /\ owned = {} /\ stopRequested = {} /\ unconfirmed = {}
  /\ stops = [s \in {} |-> [fresh |-> TRUE, reply |-> "none"]]
  /\ told = {} /\ everStopped = {}

-----------------------------------------------------------------------------
(* The Node                                                                *)

Running(s) == node.session = s /\ node.phase \in {"live", "stop-unconfirmed"}
Free       == node.phase \in {"idle", "stopped"}

\* One capture at a time: a Start is refused while another is at work.
NodeOpens ==
  /\ Free
  /\ opened < MaxSessions
  /\ opened' = opened + 1
  /\ node' = [session |-> opened + 1, phase |-> "live"]

NodeStart ==
  /\ start # None
  /\ start.stage = "sent"
  /\ \/ NodeOpens /\ start' = [start EXCEPT !.stage = "answered", !.session = opened + 1]
     \/ /\ ~Free
        /\ start' = [start EXCEPT !.stage = "answered"]
        /\ UNCHANGED <<node, opened>>
  /\ UNCHANGED <<lateStart, disposed, teardown, view, read, inventory, startUnconfirmed,
                 stopping, stops, history>>

NodeStartLate ==
  /\ lateStart
  /\ lateStart' = FALSE
  /\ NodeOpens \/ UNCHANGED <<node, opened>>
  /\ UNCHANGED <<disposed, teardown, view, read, inventory, start, startUnconfirmed,
                 stopping, stops, history>>

\* Another client starts a capture, or the current one ends on its own.
NodeForeign ==
  /\ \/ NodeOpens
     \/ ~Free /\ node' = [node EXCEPT !.phase = "stopped"] /\ UNCHANGED opened
  /\ UNCHANGED <<lateStart, disposed, teardown, view, read, inventory, start, startUnconfirmed,
                 stopping, stops, history>>

NodeStop(s) ==
  /\ s \in DOMAIN stops
  /\ stops[s].reply = "none"
  /\ \E answer \in {"stopped", "stop-unconfirmed", "refused"} :
       /\ answer = "refused" <=> node.session # s
       /\ answer = "stop-unconfirmed" => Running(s)
       /\ stops' = [stops EXCEPT ![s].reply = answer]
       /\ node' = IF answer = "refused" THEN node ELSE [node EXCEPT !.phase = answer]
  /\ UNCHANGED <<opened, lateStart, disposed, teardown, view, read, inventory, start,
                 startUnconfirmed, stopping, history>>

NodeFrame ==
  /\ read # None
  /\ read.reply = None
  /\ read' = [read EXCEPT !.reply = node]
  /\ UNCHANGED <<external, disposed, teardown, view, inventory, start, startUnconfirmed,
                 stopping, stops, history>>

-----------------------------------------------------------------------------
(* Reads                                                                   *)

Stale(request) == IF request = None THEN None ELSE [request EXCEPT !.fresh = FALSE]
AllStale       == [s \in DOMAIN stops |-> Stale(stops[s])]

\* Mutant: a status that names the session releases it, stopped or not.
StoppedByName(s, phase) == {s}

\* acceptStopped: the sessions that a status releases.
Stopped(s, phase) == IF phase = "stopped" THEN {s} ELSE {}

AcceptStopped(s, phase) ==
  /\ owned' = owned \ Stopped(s, phase)
  /\ stopId' = IF stopId \in Stopped(s, phase) THEN NoSession ELSE stopId

PollCamera ==
  /\ ~disposed
  /\ read = None
  /\ start = None
  /\ DOMAIN stops = {}
  /\ read' = [fresh |-> TRUE, reply |-> None]
  /\ UNCHANGED <<external, disposed, teardown, view, inventory, start, startUnconfirmed,
                 stopping, stops, history>>

\* What a current read makes of the view and of the stops that are still owed.
ShowPacket(packet) ==
  LET s     == packet.session
      owing == s \in stopRequested /\ packet.phase # "stopped"
  IN  /\ owned' = owned \ Stopped(s, packet.phase)
      /\ unconfirmed' = (unconfirmed \ Stopped(s, packet.phase)) \cup (IF owing THEN {s} ELSE {})
      /\ stopId' = CASE stopId \in Stopped(s, packet.phase) -> NoSession
                     [] owing /\ stopId = NoSession -> s
                     [] OTHER -> stopId
      /\ startUnconfirmed' = (startUnconfirmed /\ packet.phase \notin {"idle", "stopped"})
      /\ frame' = IF packet.phase = "live" /\ ~owing THEN s ELSE NoSession
      /\ status' = IF owing THEN [packet EXCEPT !.phase = "stop-unconfirmed"] ELSE packet
      /\ UNCHANGED stopRequested

\* Mutant: the epoch of the read is not compared.
PollRepliesStale ==
  /\ read # None
  /\ read.reply # None
  /\ read' = None
  /\ IF ~disposed
       THEN ShowPacket(read.reply)
       ELSE UNCHANGED <<view, startUnconfirmed, stopping>>
  /\ UNCHANGED <<external, disposed, teardown, inventory, start, stops, history>>

PollReplies ==
  /\ read # None
  /\ read.reply # None
  /\ read' = None
  /\ IF ~disposed /\ read.fresh
       THEN ShowPacket(read.reply)
       ELSE UNCHANGED <<view, startUnconfirmed, stopping>>
  /\ UNCHANGED <<external, disposed, teardown, inventory, start, stops, history>>

PollFails ==
  /\ read # None
  /\ read' = None
  /\ frame' = IF ~disposed /\ read.fresh THEN NoSession ELSE frame
  /\ UNCHANGED <<external, disposed, teardown, status, inventory, start, startUnconfirmed,
                 stopping, stops, history>>

\* refreshCameras asks for the inventory: nothing here depends on when it was
\* asked, only on when the Node answered.
RefreshCameras ==
  /\ ~disposed
  /\ inventory = None
  /\ inventory' = node
  /\ UNCHANGED <<external, disposed, teardown, view, read, start, startUnconfirmed,
                 stopping, stops, history>>

\* The inventory brings a status only where there is none.
InventoryReplies ==
  /\ inventory # None
  /\ inventory' = None
  /\ status' = IF ~disposed /\ status.phase = "unchecked" THEN inventory ELSE status
  /\ UNCHANGED <<external, disposed, teardown, frame, read, start, startUnconfirmed,
                 stopping, stops, history>>

-----------------------------------------------------------------------------
(* Stop                                                                    *)

\* stopCapture: a Stop that is pending for the session is shared.
StopCapture(s) ==
  IF s \in DOMAIN stops
    THEN UNCHANGED <<frame, read, stopId, stopRequested, stops, everStopped>>
    ELSE /\ stopId' = s
         /\ stopRequested' = stopRequested \cup {s}
         /\ everStopped' = everStopped \cup {s}
         /\ frame' = NoSession
         /\ read' = Stale(read)
         /\ stops' = [t \in DOMAIN stops \cup {s} |->
                        IF t = s THEN [fresh |-> TRUE, reply |-> "none"] ELSE AllStale[t]]

\* Stop without a session: cancels the pending Start, whatever it will open.
StopPendingStart ==
  /\ ~disposed
  /\ start # None
  /\ start' = [start EXCEPT !.cancelled = TRUE]
  /\ read' = Stale(read)
  /\ stops' = AllStale
  /\ frame' = NoSession
  /\ UNCHANGED <<external, disposed, teardown, status, inventory, startUnconfirmed,
                 stopping, history>>

\* Mutant: an exact Stop lets the pending Start go on.
StopExactOnly(s) ==
  /\ ~disposed
  /\ s \in owned \cup {status.session, stopId}
  /\ StopCapture(s)
  /\ UNCHANGED <<external, disposed, teardown, status, inventory, start, startUnconfirmed, owned,
                 unconfirmed, told>>

StopExact(s) ==
  /\ ~disposed
  /\ s \in owned \cup {status.session, stopId}
  /\ start' = IF start = None THEN None ELSE [start EXCEPT !.cancelled = TRUE]
  /\ StopCapture(s)
  /\ UNCHANGED <<external, disposed, teardown, status, inventory, startUnconfirmed, owned,
                 unconfirmed, told>>

\* What waits for the Stop of s: a cancelled Start, or dispose().
Release(s) ==
  /\ start' = IF start # None /\ start.stage = "stopping" /\ start.session = s
                THEN None ELSE start
  /\ teardown' = IF teardown = "stopping" THEN "done" ELSE teardown

StopEnds(s, phase) ==
  /\ stops' = [t \in DOMAIN stops \ {s} |-> stops[t]]
  /\ AcceptStopped(s, phase)
  /\ unconfirmed' = IF phase = "stopped" THEN unconfirmed \ {s} ELSE unconfirmed \cup {s}
  /\ status' = IF stops[s].fresh THEN [session |-> s, phase |-> phase] ELSE status
  /\ Release(s)
  /\ UNCHANGED <<external, disposed, frame, read, inventory, startUnconfirmed, stopRequested,
                 history>>

StopReplies(s) ==
  /\ s \in DOMAIN stops
  /\ stops[s].reply \in {"stopped", "stop-unconfirmed"}
  /\ StopEnds(s, stops[s].reply)

StopFails(s) ==
  /\ s \in DOMAIN stops
  /\ StopEnds(s, "stop-unconfirmed")

-----------------------------------------------------------------------------
(* Start                                                                   *)

StartCamera ==
  /\ ~disposed
  /\ start = None
  /\ DOMAIN stops = {}
  /\ unconfirmed = {} /\ ~startUnconfirmed
  /\ owned = {}
  /\ status.session # NoSession => status.phase \in {"idle", "stopped"}
  /\ start' = [cancelled |-> FALSE, stage |-> "queued", session |-> NoSession]
  /\ read' = Stale(read)
  /\ stopRequested' = {}
  /\ UNCHANGED <<external, disposed, teardown, view, inventory, startUnconfirmed, stopId, owned,
                 unconfirmed, stops, history>>

\* Mutant: a Start that is not to be sent any more never settles.
StartSendsOnly ==
  /\ start # None
  /\ start.stage = "queued"
  /\ read = None
  /\ ~disposed /\ ~start.cancelled
  /\ start' = [start EXCEPT !.stage = "sent"] /\ frame' = NoSession
  /\ UNCHANGED <<external, disposed, teardown, status, read, inventory, startUnconfirmed,
                 stopping, stops, history>>

\* The Start awaits the pending read, then looks again before it is sent.
StartSends ==
  /\ start # None
  /\ start.stage = "queued"
  /\ read = None
  /\ IF ~disposed /\ ~start.cancelled
       THEN start' = [start EXCEPT !.stage = "sent"] /\ frame' = NoSession
       ELSE start' = None /\ UNCHANGED frame
  /\ UNCHANGED <<external, disposed, teardown, status, read, inventory, startUnconfirmed,
                 stopping, stops, history>>

\* The reply names a capture: it is owned, and stopped if nobody wants it now.
StartReplies ==
  LET s == start.session IN
  /\ start # None
  /\ start.stage = "answered" /\ s # NoSession
  /\ owned' = owned \cup {s}
  /\ told' = told \cup {s}
  /\ IF disposed \/ start.cancelled
       THEN /\ start' = [start EXCEPT !.stage = "stopping"]
            /\ StopCapture(s)
            /\ UNCHANGED status
       ELSE /\ start' = None
            /\ status' = [session |-> s, phase |-> "live"]
            /\ read' = [fresh |-> TRUE, reply |-> None]
            /\ UNCHANGED <<frame, stopId, stopRequested, stops, everStopped>>
  /\ UNCHANGED <<external, disposed, teardown, inventory, startUnconfirmed, unconfirmed>>

\* Refused, timed out or lost: it may have opened a capture, or may open one yet.
StartFails ==
  /\ start # None
  /\ start.stage \in {"sent", "answered"}
  /\ startUnconfirmed' = TRUE
  /\ start' = None
  /\ lateStart' = (lateStart \/ start.stage = "sent")
  /\ UNCHANGED <<node, opened, disposed, teardown, view, read, inventory, stopping, stops, history>>

-----------------------------------------------------------------------------
(* dispose()                                                               *)

Dispose ==
  /\ ~disposed
  /\ disposed' = TRUE
  /\ teardown' = "waiting"
  /\ frame' = NoSession
  /\ UNCHANGED <<external, status, read, inventory, start, startUnconfirmed, stopping, stops,
                 history>>

\* Mutant: the pending Start is not awaited.
DisposeStopsAtOnce ==
  /\ teardown = "waiting"
  /\ DOMAIN stops = {}
  /\ IF owned = {}
       THEN /\ teardown' = "done"
            /\ UNCHANGED <<frame, read, stopId, stopRequested, stops, everStopped>>
       ELSE /\ teardown' = "stopping"
            /\ \E s \in owned : StopCapture(s)
  /\ UNCHANGED <<external, disposed, status, inventory, start, startUnconfirmed, owned,
                 unconfirmed, told>>

\* The pending Start, then the pending Stops are awaited; what is still owned
\* (one capture at most) is stopped once more.
DisposeStops ==
  /\ teardown = "waiting"
  /\ start = None
  /\ DOMAIN stops = {}
  /\ IF owned = {}
       THEN /\ teardown' = "done"
            /\ UNCHANGED <<frame, read, stopId, stopRequested, stops, everStopped>>
       ELSE /\ teardown' = "stopping"
            /\ \E s \in owned : StopCapture(s)
  /\ UNCHANGED <<external, disposed, status, inventory, start, startUnconfirmed, owned,
                 unconfirmed, told>>

-----------------------------------------------------------------------------

Next ==
  \/ NodeStart \/ NodeStartLate \/ NodeForeign \/ NodeFrame
  \/ PollCamera \/ PollReplies \/ PollFails \/ RefreshCameras \/ InventoryReplies
  \/ StopPendingStart
  \/ \E s \in Session : NodeStop(s) \/ StopExact(s) \/ StopReplies(s) \/ StopFails(s)
  \/ StartCamera \/ StartSends \/ StartReplies \/ StartFails
  \/ Dispose \/ DisposeStops

\* Every request of the camera client ends within its five seconds, and what
\* awaits it then continues.  The Node is not assumed to answer.
Spec == Init /\ [][Next]_vars
             /\ WF_vars(PollReplies \/ PollFails)
             /\ \A s \in Session : WF_vars(StopReplies(s) \/ StopFails(s))
             /\ WF_vars(StartSends) /\ WF_vars(StartReplies \/ StartFails)
             /\ WF_vars(DisposeStops)

-----------------------------------------------------------------------------
(* Properties                                                              *)

\* A capture this controller was told of stays owned as long as it runs: only
\* the Node's word that this very session stopped releases it.
OwnedUntilStopped == \A s \in told : Running(s) => s \in owned

\* No frame of a capture is shown once its Stop was requested, whichever reads,
\* stops and starts are answered afterwards, and in whichever order.
StoppedNeverShown == frame \notin everStopped

\* A Start is not sent while a Stop is pending or unconfirmed, although both
\* were looked at before the Start awaited the pending read.
StartNeverOvertakesStop ==
  [][start' # None /\ start'.stage = "sent" /\ ~(start # None /\ start.stage = "sent") =>
       DOMAIN stops = {} /\ unconfirmed = {} /\ owned = {}
       /\ \A s \in told : ~Running(s)]_vars

\* The Stop loop of dispose() finds one capture at most, and when it is done no
\* capture of this controller runs but one whose Stop stayed unconfirmed.
CleanupCovers ==
  /\ Cardinality(owned) <= 1
  /\ teardown = "done" => /\ start = None /\ DOMAIN stops = {}
                          /\ \A s \in told : Running(s) => s \in unconfirmed

\* dispose() comes to its end though it waits for a Start that waits for a read.
DisposeEnds == disposed ~> teardown = "done"
=============================================================================
