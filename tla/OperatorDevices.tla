--------------------------- MODULE OperatorDevices ---------------------------
(***************************************************************************)
(* Who owns the devices of one project of the operator service             *)
(* (packages/operator-service/src/service.js): the connection, the         *)
(* workcell controller that one conversation at a time holds on it, the    *)
(* journal of owned operations that is written before a request goes out   *)
(* and survives a restart, and Stop, which waits for no request.           *)
(*                                                                         *)
(* The operation is a camera capture; runs and gripper trials use the same *)
(* journal.  What happens inside the controller is the WorkcellCamera      *)
(* module's; here it is reduced to what the service reads of it: pending,  *)
(* the capture to stop, the error, and whether a status has come yet.      *)
(* The awaits of physicalContext() and withPhysical() end in the turn in   *)
(* which they began (only a resolved controller is disposed), so a command *)
(* is one step up to its first request to the Node.  Not modelled: a       *)
(* connect or a disconnect of the link beside a device request.            *)
(***************************************************************************)
EXTENDS Naturals, FiniteSets

CONSTANTS
  Conversation,    \* the conversations bound to the project
  MaxStarts,       \* captures asked for (bound)
  None

ASSUME DeviceAssumption ==
  /\ MaxStarts \in Nat
  /\ None \notin Conversation \cup Nat

Start == 1..MaxStarts

VARIABLES
  node,        \* what became of each Start at the Node
  records,     \* saved.ownership
  disk,        \* the ownership the store holds
  failed,      \* storageFailed
  link,        \* the project's link: its status, a connect or a disconnect under way
  request,     \* link.mutation: the conversation whose device request is under way
  controller,  \* link.physical, with its physicalOwner
  recovering   \* the record that a Stop after a restart is about

vars == <<node, records, disk, failed, link, request, controller, recovering>>

journal == <<records, disk, failed>>

Record == [conversation : Conversation, capture : Start \cup {None},
           unknown : BOOLEAN, recovered : BOOLEAN]

NoLink == [status |-> "none", busy |-> "no"]

\* The link has no controller.
NoController ==
  [owner |-> None, live |-> FALSE, seen |-> FALSE, error |-> FALSE, phase |-> "none",
   capture |-> None, cancelled |-> FALSE, stopping |-> FALSE]

\* Just created: no status has come yet.
New(c) == [NoController EXCEPT !.owner = c, !.live = TRUE, !.phase = "idle"]

View == [owner : Conversation \cup {None}, live : BOOLEAN, seen : BOOLEAN, error : BOOLEAN,
         phase : {"none", "idle", "waiting", "asked", "held", "doubt"},
         capture : Start \cup {None}, cancelled : BOOLEAN, stopping : BOOLEAN]

\* Types, and when a controller has an owner and a capture a name.
TypeOK ==
  /\ node \in [Start -> {"unused", "asked", "refused", "open", "closed"}]
  /\ records \subseteq Record /\ disk \subseteq Record /\ failed \in BOOLEAN
  /\ link \in [status : {"none", "connected", "offline"}, busy : {"no", "connecting", "leaving"}]
  /\ request \in Conversation \cup {None}
  /\ controller \in View
  /\ recovering \in Record \cup {None}
  /\ (controller.phase = "none") <=> (controller.owner = None)
  /\ (controller.capture # None) <=> (controller.phase \in {"asked", "held"})

Init ==
  /\ node = [s \in Start |-> "unused"]
  /\ records = {} /\ disk = {} /\ failed = FALSE
  /\ link = NoLink
  /\ request = None
  /\ controller = NoController
  /\ recovering = None

-----------------------------------------------------------------------------
(* The journal of owned operations                                         *)

\* requiresRecovery: written before a restart, or an outcome without an identity.
NeedsRecovery(r) == r.recovered \/ (r.unknown /\ r.capture = None)

Blocked == \E r \in records : NeedsRecovery(r)

\* The camera action of a controller has not ended.
Pending(view) == view.phase \in {"waiting", "asked"} \/ (view.phase = "held" /\ view.cancelled)

\* unresolved(view): what keeps the device from another conversation.
Unresolved(view) == Pending(view) \/ view.phase = "held"

\* save() writes all of it or latches the failure.
Saves(new) ==
  /\ records' = new
  /\ \/ ~failed /\ disk' = new /\ failed' = FALSE
     \/ disk' = disk /\ failed' = TRUE

\* What the view of a controller shows as owned by its conversation.
Owned(view) ==
  IF Unresolved(view)
    THEN {[conversation |-> view.owner, capture |-> IF view.phase = "held" THEN view.capture ELSE None,
           unknown |-> ~view.seen, recovered |-> FALSE]}
    ELSE {}

\* Mutant: only what the view shows and what needs recovery already is kept.
RewrittenShown(old, view) == {r \in old : NeedsRecovery(r)} \cup Owned(view)

\* The journal rewritten from the view of a controller: what needs recovery stays;
\* a request without an identity whose controller reports an error stays and becomes
\* unknown once it has ended; what the view shows as owned is written again.
Rewritten(old, view) ==
  LET unnamed == {r \in old : ~NeedsRecovery(r) /\ r.capture = None /\ view.error} IN
  {r \in old : NeedsRecovery(r)} \cup Owned(view) \cup
  {IF Pending(view) THEN r ELSE [r EXCEPT !.unknown = TRUE] : r \in unnamed}

\* The controller tells its listener, journalPhysical(), which swallows a failing save.
Changes(view) ==
  /\ controller' = view
  /\ LET new == Rewritten(records, view) IN
     IF new = records THEN UNCHANGED journal ELSE Saves(new)

-----------------------------------------------------------------------------
(* Device requests                                                         *)

\* scope(), withContext(), withPhysical() and physicalContext(): one device request of a
\* link at a time, and none while a record needs recovery or another conversation owns
\* something unresolved.
Admitted(c) ==
  /\ ~failed /\ request = None
  /\ link.status = "connected" /\ link.busy # "leaving"
  /\ ~Blocked
  /\ controller.owner = c \/ ~Unresolved(controller)

\* The controller this conversation has, or a new one in the place of a resolved one.
Taken(c) == IF controller.owner = c THEN controller ELSE New(c)

\* Any request but a start: a refresh, a read, an agent's tool.
Request(c) ==
  /\ Admitted(c)
  /\ controller' = Taken(c)
  /\ request' = c
  /\ UNCHANGED <<node, journal, link, recovering>>

RequestEnds ==
  /\ request # None
  /\ ~Pending(controller)
  /\ request' = None
  /\ UNCHANGED <<node, journal, link, controller, recovering>>

Unnamed(c) == [conversation |-> c, capture |-> None, unknown |-> FALSE, recovered |-> FALSE]

\* What cameraAction() requires of a start.
MayStart(view) == view.live /\ view.phase = "idle"

Waiting(view) == [view EXCEPT !.phase = "waiting", !.cancelled = FALSE]

\* camera.start: the journal names the request before the controller is asked, and the
\* start is refused if it cannot be written.  The controller may refuse it too (busy).
CameraStart(c) ==
  /\ Admitted(c)
  /\ LET written == records \cup {Unnamed(c)} IN
     \/ /\ Saves(written)
        /\ controller' = Taken(c)
        /\ UNCHANGED request
     \/ /\ MayStart(Taken(c))
        /\ controller' = Waiting(Taken(c))
        /\ records' = Rewritten(written, controller')
        /\ \/ disk' = records' /\ failed' = FALSE
           \/ disk' = written /\ failed' = TRUE
        /\ request' = c
  /\ UNCHANGED <<node, link, recovering>>

-----------------------------------------------------------------------------
(* The Node and the controller, as the service sees it                     *)

\* The previous read has ended: the Start goes out, unless it was cancelled meanwhile.
Sends ==
  /\ controller.phase = "waiting"
  /\ IF controller.cancelled
       THEN /\ Changes([controller EXCEPT !.phase = "idle", !.cancelled = FALSE])
            /\ request' = None /\ UNCHANGED node
       ELSE \E s \in Start :
            /\ node[s] = "unused" /\ \A r \in Start : r < s => node[r] # "unused"
            /\ node' = [node EXCEPT ![s] = "asked"]
            /\ Changes([controller EXCEPT !.phase = "asked", !.capture = s])
            /\ UNCHANGED request
  /\ UNCHANGED <<link, recovering>>

NodeOpens(s) ==
  /\ node[s] = "asked"
  /\ \A r \in Start : node[r] # "open"
  /\ node' = [node EXCEPT ![s] = "open"]
  /\ UNCHANGED <<journal, link, request, controller, recovering>>

NodeRefuses(s) ==
  /\ node[s] = "asked"
  /\ node' = [node EXCEPT ![s] = "refused"]
  /\ UNCHANGED <<journal, link, request, controller, recovering>>

\* By itself, or at the request of another client.
NodeCloses(s) ==
  /\ node[s] = "open"
  /\ node' = [node EXCEPT ![s] = "closed"]
  /\ UNCHANGED <<journal, link, request, controller, recovering>>

\* A Start that was cancelled meanwhile is stopped as soon as it has a name.
StartReplies ==
  /\ controller.phase = "asked"
  /\ node[controller.capture] \in {"open", "closed"}
  /\ Changes([controller EXCEPT !.phase = "held", !.stopping = controller.cancelled,
                                !.seen = TRUE, !.error = FALSE])
  /\ request' = IF controller.cancelled THEN request ELSE None
  /\ UNCHANGED <<node, link, recovering>>

\* Refused, lost or timed out: the outcome has no identity.
StartFails ==
  /\ controller.phase = "asked"
  /\ Changes([controller EXCEPT !.phase = "doubt", !.capture = None, !.cancelled = FALSE,
                                !.error = TRUE])
  /\ request' = None
  /\ UNCHANGED <<node, link, recovering>>

\* The Node confirms the exact capture.
StopReplies ==
  /\ controller.stopping
  /\ node' = [node EXCEPT ![controller.capture] = "closed"]
  /\ Changes([controller EXCEPT !.phase = "idle", !.capture = None, !.stopping = FALSE,
                                !.cancelled = FALSE, !.seen = TRUE, !.error = FALSE])
  /\ request' = IF controller.cancelled THEN None ELSE request
  /\ UNCHANGED <<link, recovering>>

\* The answer is lost, or says stop-unconfirmed: the capture stays owned.
StopFails ==
  /\ controller.stopping
  /\ node' \in {node, [node EXCEPT ![controller.capture] = "closed"]}
  /\ Changes([controller EXCEPT !.stopping = FALSE, !.cancelled = FALSE, !.seen = TRUE,
                                !.error = TRUE])
  /\ request' = IF controller.cancelled THEN None ELSE request
  /\ UNCHANGED <<link, recovering>>

\* A poll shows the Node's capture: one that ended is let go, and a start in doubt is
\* settled by a camera at rest.
PollReads ==
  LET ended == \/ controller.phase = "held" /\ node[controller.capture] = "closed"
               \/ controller.phase = "doubt" /\ \A s \in Start : node[s] # "open"
  IN  /\ controller.live /\ ~Pending(controller) /\ ~controller.stopping
      /\ Changes([controller EXCEPT !.seen = TRUE, !.error = FALSE,
                                    !.phase = IF ended THEN "idle" ELSE @,
                                    !.capture = IF ended THEN None ELSE @])
      /\ UNCHANGED <<node, link, request, recovering>>

\* The camera list comes beside anything else; this read and the poll may fail.
ListReads ==
  /\ controller.live
  /\ \/ Changes([controller EXCEPT !.seen = TRUE])
     \/ Changes([controller EXCEPT !.error = TRUE])
  /\ UNCHANGED <<node, link, request, recovering>>

-----------------------------------------------------------------------------
(* Stop                                                                    *)

\* Stop of the device this conversation owns: the pending start, or the exact capture.
\* It is admitted beside any request, but not while a record needs recovery.
CameraStop(c) ==
  /\ controller.owner = c /\ controller.live
  /\ ~Blocked
  /\ \/ /\ controller.phase \in {"waiting", "asked"}
        /\ Changes([controller EXCEPT !.cancelled = TRUE])
     \/ /\ controller.phase = "held"
        /\ Changes([controller EXCEPT !.stopping = TRUE])
  /\ UNCHANGED <<node, link, request, recovering>>

\* recoveredStop(): after a restart the record itself names what to stop.
StopRecovered(c) ==
  /\ recovering = None
  /\ link.status = "connected"
  /\ \E r \in records : /\ r.recovered /\ r.conversation = c /\ r.capture # None
                        /\ recovering' = r
  /\ UNCHANGED <<node, journal, link, request, controller>>

\* The record is released when the Node confirms the exact capture, and kept otherwise.
RecoveredEnds ==
  /\ recovering # None
  /\ recovering' = None
  /\ \/ /\ node' = [node EXCEPT ![recovering.capture] = "closed"]
        /\ IF failed THEN records' = records \ {recovering} /\ UNCHANGED <<disk, failed>>
                     ELSE Saves(records \ {recovering})
     \/ /\ node' \in {node, [node EXCEPT ![recovering.capture] = "closed"]}
        /\ UNCHANGED journal
  /\ UNCHANGED <<link, request, controller>>

-----------------------------------------------------------------------------
(* The connection, and the service                                         *)

Connect ==
  /\ ~failed
  /\ link.status # "connected" /\ link.busy = "no"
  /\ request = None
  /\ link' = [link EXCEPT !.busy = "connecting"]
  /\ UNCHANGED <<node, journal, request, controller, recovering>>

\* The authenticated Node is saved with the project; the link keeps what it owned.
Connected ==
  /\ link.busy = "connecting"
  /\ Saves(records)
  /\ link' = [link EXCEPT !.busy = "no", !.status = IF failed' THEN @ ELSE "connected"]
  /\ UNCHANGED <<node, request, controller, recovering>>

\* The transport is lost, or a health check failed.
Drops ==
  /\ link.status = "connected"
  /\ link' = [link EXCEPT !.status = "offline"]
  /\ UNCHANGED <<node, journal, request, controller, recovering>>

\* A later health check finds the Node again.
Returns ==
  /\ link.status = "offline" /\ link.busy # "connecting"
  /\ link' = [link EXCEPT !.status = "connected"]
  /\ UNCHANGED <<node, journal, request, controller, recovering>>

\* Disconnect is refused while anything is owned or recorded; then it disposes the
\* controller and awaits close() ...
Disconnect ==
  /\ ~failed
  /\ link.status # "none" /\ link.busy = "no"
  /\ ~Unresolved(controller) /\ records = {}
  /\ request = None
  /\ controller' = [controller EXCEPT !.live = FALSE]
  /\ link' = [link EXCEPT !.busy = "leaving"]
  /\ UNCHANGED <<node, journal, request, recovering>>

\* ... and forgets the link.
Leaves ==
  /\ link.busy = "leaving"
  /\ link' = NoLink
  /\ controller' = NoController
  /\ Saves(records)
  /\ UNCHANGED <<node, request, recovering>>

\* A connect or a disconnect that is not confirmed keeps the link, the disconnect with
\* the controller that was disposed.
LinkFails ==
  /\ link.busy # "no"
  /\ link' = [link EXCEPT !.busy = "no"]
  /\ UNCHANGED <<node, journal, request, controller, recovering>>

\* Mutant: what was written before the restart is not marked.
RestartUnmarked ==
  /\ records' = disk
  /\ disk' = records' /\ failed' = FALSE
  /\ link' = NoLink /\ request' = None
  /\ controller' = NoController
  /\ recovering' = None
  /\ UNCHANGED node

\* The process ends at any point and starts again: what the store holds is marked
\* recovered and saved before anything else.
Restart ==
  /\ records' = {[r EXCEPT !.recovered = TRUE] : r \in disk}
  /\ disk' = records' /\ failed' = FALSE
  /\ link' = NoLink /\ request' = None
  /\ controller' = NoController
  /\ recovering' = None
  /\ UNCHANGED node

-----------------------------------------------------------------------------

Next ==
  \/ \E c \in Conversation : \/ Request(c) \/ CameraStart(c)
                             \/ CameraStop(c) \/ StopRecovered(c)
  \/ RequestEnds
  \/ Sends \/ StartReplies \/ StartFails \/ StopReplies \/ StopFails \/ PollReads \/ ListReads
  \/ \E s \in Start : NodeOpens(s) \/ NodeRefuses(s) \/ NodeCloses(s)
  \/ RecoveredEnds \/ Connect \/ Connected \/ Drops \/ Returns
  \/ Disconnect \/ Leaves \/ LinkFails \/ Restart

Spec == Init /\ [][Next]_vars

-----------------------------------------------------------------------------
(* Properties                                                              *)

\* Whatever may be running at the Node because of this service is in its store, by name
\* or as a request without one, at every moment at which it could crash.
RunningIsOnDisk ==
  \A s \in Start : node[s] \in {"asked", "open"} => \E r \in disk : r.capture \in {s, None}

\* A running capture that the store names is held by a controller, where Stop finds it, or
\* it keeps every conversation of the project from a controller: neither another
\* conversation nor a restart can turn it into one that nobody looks at.
NamedIsHeldOrBlocks ==
  \A s \in Start : /\ node[s] = "open"
                   /\ \E r \in disk : r.capture = s
                   => controller.capture = s \/ Blocked \/ failed

\* "Stop remains available": a capture whose name the service knows can be stopped while
\* its Node is connected.
StopReaches ==
  \A s \in Start :
    node[s] = "open" /\ controller.capture = s /\ controller.phase = "held"
                     /\ link.status = "connected"
    => ~Blocked /\ controller.live

-----------------------------------------------------------------------------
(* The ledger that the store keeps                                         *)

EntryOf(r) == [conversation |-> r.conversation, capture |-> r.capture]

Entries == {EntryOf(r) : r \in disk}

Ledger == INSTANCE CaptureLedger WITH
  Capture <- Start,
  world   <- node,
  ledger  <- Entries

\* Whatever the service, its controllers and the Node do, and whenever the process ends,
\* the store is written as CaptureLedger says: noted before it is asked for, in it while
\* it may be running, named once for the conversation that asked, and by that name until
\* it is closed.
RefinesLedger == Ledger!LedgerSpec
=============================================================================
