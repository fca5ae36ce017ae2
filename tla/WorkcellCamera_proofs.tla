------------------------ MODULE WorkcellCamera_proofs ------------------------
(***************************************************************************)
(* The safety of the camera channel, for any number of captures.  The      *)
(* inductive invariant says which captures may be named where, what the    *)
(* answers under way mean for the Node, which stops are still owed, and    *)
(* how far a pending Start or dispose() has come.                          *)
(***************************************************************************)
EXTENDS WorkcellCamera, FiniteSetTheorems, TLAPS

\* Whatever names a capture names one that the Node has opened.
NamedInv ==
  /\ node.session = opened
  /\ status.session <= opened /\ stopId <= opened
  /\ read # None /\ read.reply # None => read.reply.session <= opened
  /\ inventory # None => inventory.session <= opened
  /\ start # None => start.session <= opened
  /\ \A s \in told \cup owned \cup everStopped : s <= opened

\* A "stopped" on its way to the controller is still true when it arrives.
AnswerInv ==
  /\ read # None /\ read.reply # None /\ read.reply.phase = "stopped" =>
       ~Running(read.reply.session)
  /\ \A s \in DOMAIN stops : stops[s].reply = "stopped" => ~Running(s)

\* A Stop that was requested is pending, unconfirmed or achieved; a read that
\* still counts was asked for after the last request.
OwedInv ==
  /\ stopRequested \subseteq everStopped
  /\ DOMAIN stops \cup unconfirmed \subseteq stopRequested
  /\ \A s \in everStopped : Running(s) => s \in DOMAIN stops \cup unconfirmed
  /\ read # None /\ read.reply # None /\ read.fresh /\ read.reply.phase = "live" =>
       (read.reply.session \in everStopped => read.reply.session \in stopRequested)

\* A Start is pending only while nothing is owned, and is on its way to the Node
\* only if no Stop was requested since it was asked for.
StartInv ==
  /\ \A s, t \in owned : s = t
  /\ start # None /\ start.stage # "stopping" => owned = {}
  /\ start # None /\ start.stage = "queued" /\ ~start.cancelled => stopRequested = {}

\* dispose() stops the one capture that is owned when nothing else is pending.
TeardownInv ==
  /\ disposed <=> teardown # "none"
  /\ teardown \in {"stopping", "done"} => start = None
  /\ teardown = "stopping" => /\ \A s, t \in DOMAIN stops : s = t
                              /\ owned \subseteq DOMAIN stops
  /\ teardown = "done" => /\ DOMAIN stops = {}
                          /\ \A s \in told : Running(s) => s \in unconfirmed

IInv ==
  /\ TypeOK /\ NamedInv /\ AnswerInv /\ OwnedUntilStopped /\ OwedInv /\ StoppedNeverShown
  /\ StartInv /\ TeardownInv

-----------------------------------------------------------------------------
\* A new capture is named by no one yet, and it is the one at work.
Opening ==
  /\ node' \in Status /\ opened' \in 0..MaxSessions
  /\ opened' = opened + 1 /\ opened \in Nat /\ opened' \in Session
  /\ node'.session = opened' /\ node'.phase = "live"

\* What the Node does when it opens a session.
LEMMA OpenFacts == TypeOK /\ NodeOpens => Opening
BY CameraAssumption DEF TypeOK, Opening, NodeOpens, Status, Session

\* Advancing the epoch keeps the requests in flight, and what answered them.
Aging ==
  /\ Stale(read) \in Read \cup {None} /\ (Stale(read) # None => read # None)
  /\ read # None => Stale(read).reply = read.reply /\ ~Stale(read).fresh
  /\ DOMAIN AllStale = DOMAIN stops
  /\ \A t \in DOMAIN stops : AllStale[t] \in Stop /\ AllStale[t].reply = stops[t].reply

\* Advancing the epoch does no more than that.
LEMMA StaleFacts == TypeOK => Aging
BY DEF TypeOK, Aging, Stale, AllStale, Read, Stop

\* What stopCapture(s) does, whether its Stop is shared or new.
Capturing(s) ==
  /\ \/ frame' = NoSession
     \/ frame' = frame /\ s \in DOMAIN stops
  /\ stopId' \in {stopId, s}
  /\ \/ read' = read /\ s \in DOMAIN stops
     \/ /\ read' \in Read \cup {None} /\ (read' # None => read # None)
        /\ read # None => read'.reply = read.reply /\ ~read'.fresh
  /\ \/ s \in DOMAIN stops /\ stopRequested' = stopRequested /\ everStopped' = everStopped
     \/ stopRequested' = stopRequested \cup {s} /\ everStopped' = everStopped \cup {s}
  /\ DOMAIN stops' = DOMAIN stops \cup {s}
  /\ \A t \in DOMAIN stops' :
       /\ stops'[t] \in Stop
       /\ stops'[t].reply = "stopped" => t \in DOMAIN stops /\ stops[t].reply = "stopped"

\* Nor does stopCapture(s) do more than its two branches have in common.
LEMMA CaptureFacts == ASSUME TypeOK, NEW s \in Session, StopCapture(s) PROVE Capturing(s)
<1>1. CASE s \in DOMAIN stops
  BY <1>1 DEF StopCapture, Capturing, TypeOK
<1>2. CASE s \notin DOMAIN stops
  <2>1. read' = Stale(read) /\ frame' = NoSession /\ stopId' = s
        /\ stopRequested' = stopRequested \cup {s} /\ everStopped' = everStopped \cup {s}
        /\ stops' = [t \in DOMAIN stops \cup {s} |->
                       IF t = s THEN [fresh |-> TRUE, reply |-> "none"] ELSE AllStale[t]]
    BY <1>2 DEF StopCapture
  <2>2. read' \in Read \cup {None} /\ (read' # None => read # None)
        /\ (read # None => read'.reply = read.reply /\ ~read'.fresh)
    BY <2>1, StaleFacts DEF Aging
  <2>3. \A t \in DOMAIN stops \cup {s} :
          /\ stops'[t] \in Stop
          /\ stops'[t].reply = "stopped" => t \in DOMAIN stops /\ stops[t].reply = "stopped"
    BY <2>1, StaleFacts DEF Aging, Stop
  <2>. QED
    BY <2>1, <2>2, <2>3 DEF Capturing
<1>. QED
  BY <1>1, <1>2

\* Every step keeps the types.
LEMMA TypeOKStep == TypeOK /\ [Next]_vars => TypeOK'
<1>. SUFFICES ASSUME TypeOK, [Next]_vars
             PROVE  TypeOK'
  OBVIOUS
<1>1. CASE NodeStart
  <2>1. start \in Start
    BY <1>1 DEF NodeStart, TypeOK
  <2>2. CASE NodeOpens /\ start' = [start EXCEPT !.stage = "answered", !.session = opened + 1]
    <3>1. Opening
      BY <2>2, OpenFacts
    <3>2. start' \in Start
      BY <2>1, <2>2, <3>1 DEF Opening, Start
    <3>. QED
      BY <1>1, <3>1, <3>2 DEF NodeStart, Opening, TypeOK, stopping, view, history
  <2>3. CASE start' = [start EXCEPT !.stage = "answered"] /\ UNCHANGED <<node, opened>>
    <3>1. start' \in Start
      BY <2>1, <2>3 DEF Start
    <3>. QED
      BY <1>1, <2>3, <3>1 DEF NodeStart, TypeOK, stopping, view, history
  <2>. QED
    BY <1>1, <2>2, <2>3 DEF NodeStart
<1>2. CASE NodeStartLate
  <2>1. NodeOpens => Opening
    BY OpenFacts
  <2>. QED
    BY <1>2, <2>1 DEF NodeStartLate, Opening, TypeOK, stopping, view, history
<1>3. CASE NodeForeign
  <2>1. NodeOpens => Opening
    BY OpenFacts
  <2>. QED
    BY <1>3, <2>1 DEF NodeForeign, Opening, TypeOK, Status, stopping, view, history
<1>4. CASE NodeFrame
  BY <1>4 DEF NodeFrame, TypeOK, Read, external, stopping, view, history
<1>5. CASE PollCamera
  BY <1>5 DEF PollCamera, TypeOK, Read, external, stopping, view, history
<1>6. CASE PollReplies
  BY <1>6 DEF PollReplies, ShowPacket, TypeOK, Status, Read, external, stopping, view,
    history
<1>7. CASE PollFails
  BY <1>7 DEF PollFails, TypeOK, external, stopping, history
<1>8. CASE RefreshCameras
  BY <1>8 DEF RefreshCameras, TypeOK, external, stopping, view, history
<1>9. CASE InventoryReplies
  BY <1>9 DEF InventoryReplies, TypeOK, external, stopping, history
<1>10. CASE StopPendingStart
  <2>1. Aging
    BY StaleFacts
  <2>2. start' \in Start
    BY <1>10 DEF StopPendingStart, TypeOK, Start
  <2>. QED
    BY <1>10, <2>1, <2>2 DEF StopPendingStart, Aging, TypeOK, external, stopping,
      history
<1>11. ASSUME NEW s \in Session, NodeStop(s) PROVE TypeOK'
  BY <1>11 DEF NodeStop, TypeOK, Status, Stop, stopping, view, history
<1>12. ASSUME NEW s \in Session, StopExact(s) PROVE TypeOK'
  <2>1. Capturing(s)
    BY <1>12, CaptureFacts DEF StopExact
  <2>2. start' \in Start \cup {None}
    BY <1>12 DEF StopExact, TypeOK, Start
  <2>. QED
    BY <1>12, <2>1, <2>2 DEF StopExact, Capturing, TypeOK, external
<1>13. ASSUME NEW s \in Session, StopReplies(s) PROVE TypeOK'
  BY <1>13 DEF StopReplies, StopEnds, AcceptStopped, Release, TypeOK, Status, external,
    history
<1>14. ASSUME NEW s \in Session, StopFails(s) PROVE TypeOK'
  BY <1>14 DEF StopFails, StopEnds, AcceptStopped, Release, TypeOK, Status, external,
    history
<1>15. CASE StartCamera
  <2>1. Aging
    BY StaleFacts
  <2>. QED
    BY <1>15, <2>1 DEF StartCamera, Aging, TypeOK, Start, external, view, history
<1>16. CASE StartSends
  BY <1>16 DEF StartSends, TypeOK, Start, external, stopping, history
<1>17. CASE StartReplies
  <2>. DEFINE s == start.session
  <2>1. start \in Start /\ s \in Session
    BY <1>17 DEF StartReplies, TypeOK, Start
  <2>2. CASE disposed \/ start.cancelled
    <3>1. Capturing(s)
      BY <1>17, <2>1, <2>2, CaptureFacts DEF StartReplies
    <3>2. start' \in Start
      BY <1>17, <2>1, <2>2 DEF StartReplies, Start
    <3>. QED
      BY <1>17, <2>1, <2>2, <3>1, <3>2 DEF StartReplies, Capturing, TypeOK, external
  <2>3. CASE ~(disposed \/ start.cancelled)
    <3>1. start' = None /\ status' = [session |-> s, phase |-> "live"]
          /\ read' = [fresh |-> TRUE, reply |-> None]
      BY <1>17, <2>3 DEF StartReplies
    <3>2. status' \in Status /\ read' \in Read
      BY <2>1, <3>1 DEF Status, Read
    <3>. QED
      BY <1>17, <2>1, <2>3, <3>1, <3>2 DEF StartReplies, TypeOK, external
  <2>. QED
    BY <2>2, <2>3
<1>18. CASE StartFails
  BY <1>18 DEF StartFails, TypeOK, stopping, view, history
<1>19. CASE Dispose
  BY <1>19 DEF Dispose, TypeOK, external, stopping, history
<1>20. CASE DisposeStops
  <2>1. CASE owned = {}
    BY <1>20, <2>1 DEF DisposeStops, TypeOK, external
  <2>2. CASE owned # {}
    <3>1. PICK s \in owned : StopCapture(s)
      BY <1>20, <2>2 DEF DisposeStops
    <3>2. s \in Session /\ Capturing(s)
      BY <3>1, CaptureFacts DEF TypeOK
    <3>. QED
      BY <1>20, <2>2, <3>1, <3>2 DEF DisposeStops, Capturing, TypeOK, external
  <2>. QED
    BY <2>1, <2>2
<1>21. CASE UNCHANGED vars
  BY <1>21 DEF TypeOK, vars, external, stopping, view, history
<1>. QED
  BY <1>1, <1>2, <1>3, <1>4, <1>5, <1>6, <1>7, <1>8, <1>9, <1>10, <1>11, <1>12, <1>13,
    <1>14, <1>15, <1>16, <1>17, <1>18, <1>19, <1>20, <1>21 DEF Next

\* Only NodeOpens makes a name, and it names the capture that it opens.
LEMMA NamedInvStep == TypeOK /\ NamedInv /\ OwedInv /\ [Next]_vars => NamedInv'
<1>. SUFFICES ASSUME TypeOK, NamedInv, OwedInv, [Next]_vars
             PROVE  NamedInv'
  OBVIOUS
<1>1. CASE NodeStart
  <2>1. start \in Start
    BY <1>1 DEF NodeStart, TypeOK
  <2>2. NodeOpens => Opening
    BY OpenFacts
  <2>3. \/ NodeOpens /\ start' = [start EXCEPT !.stage = "answered", !.session = opened + 1]
        \/ start' = [start EXCEPT !.stage = "answered"] /\ UNCHANGED <<node, opened>>
    BY <1>1 DEF NodeStart
  <2>4. start'.session <= opened'
    <3>1. CASE NodeOpens /\ start' = [start EXCEPT !.stage = "answered", !.session = opened + 1]
      BY <2>1, <2>2, <3>1 DEF Opening
    <3>2. CASE start' = [start EXCEPT !.stage = "answered"] /\ UNCHANGED <<node, opened>>
      BY <1>1, <2>1, <3>2 DEF NodeStart, NamedInv
    <3>. QED
      BY <2>3, <3>1, <3>2
  <2>. QED
    BY <1>1, <2>2, <2>3, <2>4 DEF NodeStart, Opening, NamedInv, TypeOK, Session,
      NoSession, Status, Read, stopping, view, history
<1>2. CASE NodeStartLate
  <2>1. NodeOpens => Opening
    BY OpenFacts
  <2>. QED
    BY <1>2, <2>1 DEF NodeStartLate, Opening, NamedInv, TypeOK, Session, NoSession,
      Status, Read, Start, stopping, view, history
<1>3. CASE NodeForeign
  <2>1. NodeOpens => Opening
    BY OpenFacts
  <2>. QED
    BY <1>3, <2>1 DEF NodeForeign, Opening, NamedInv, TypeOK, Session, NoSession,
      Status, Read, Start, stopping, view, history
<1>4. CASE NodeFrame
  BY <1>4 DEF NodeFrame, NamedInv, TypeOK, external, stopping, view, history
<1>5. CASE PollCamera
  BY <1>5 DEF PollCamera, NamedInv, external, stopping, view, history
<1>6. CASE PollReplies
  BY <1>6 DEF PollReplies, ShowPacket, NamedInv, TypeOK, NoSession, Status, Read,
    external, stopping, view, history
<1>7. CASE PollFails
  BY <1>7 DEF PollFails, NamedInv, external, stopping, history
<1>8. CASE RefreshCameras
  BY <1>8 DEF RefreshCameras, NamedInv, TypeOK, external, stopping, view, history
<1>9. CASE InventoryReplies
  BY <1>9 DEF InventoryReplies, NamedInv, external, stopping, history
<1>10. CASE StopPendingStart
  <2>1. Aging
    BY StaleFacts
  <2>. QED
    BY <1>10, <2>1 DEF StopPendingStart, Aging, NamedInv, external, stopping, history
<1>11. ASSUME NEW s \in Session, NodeStop(s) PROVE NamedInv'
  BY <1>11 DEF NodeStop, NamedInv, stopping, view, history
<1>12. ASSUME NEW s \in Session, StopExact(s) PROVE NamedInv'
  <2>1. Capturing(s)
    BY <1>12, CaptureFacts DEF StopExact
  <2>. QED
    BY <1>12, <2>1 DEF StopExact, Capturing, NamedInv, external
<1>13. ASSUME NEW s \in Session, StopReplies(s) PROVE NamedInv'
  BY <1>13 DEF StopReplies, StopEnds, AcceptStopped, Release, NamedInv, OwedInv, TypeOK,
    NoSession, external, history
<1>14. ASSUME NEW s \in Session, StopFails(s) PROVE NamedInv'
  BY <1>14 DEF StopFails, StopEnds, AcceptStopped, Stopped, Release, NamedInv, OwedInv,
    external, history
<1>15. CASE StartCamera
  <2>1. Aging
    BY StaleFacts
  <2>. QED
    BY <1>15, <2>1 DEF StartCamera, Aging, NamedInv, TypeOK, NoSession, external, view,
      history
<1>16. CASE StartSends
  BY <1>16 DEF StartSends, NamedInv, TypeOK, Start, external, stopping, history
<1>17. CASE StartReplies
  <2>. DEFINE s == start.session
  <2>1. s \in Session
    BY <1>17 DEF StartReplies, TypeOK, Start
  <2>2. StopCapture(s) => Capturing(s)
    BY <2>1, CaptureFacts
  <2>. QED
    BY <1>17, <2>1, <2>2 DEF StartReplies, Capturing, NamedInv, TypeOK, Start, external
<1>18. CASE StartFails
  BY <1>18 DEF StartFails, NamedInv, stopping, view, history
<1>19. CASE Dispose
  BY <1>19 DEF Dispose, NamedInv, external, stopping, history
<1>20. CASE DisposeStops
  <2>1. CASE owned = {}
    BY <1>20, <2>1 DEF DisposeStops, NamedInv, external
  <2>2. CASE owned # {}
    <3>1. PICK s \in owned : StopCapture(s)
      BY <1>20, <2>2 DEF DisposeStops
    <3>2. s \in Session /\ Capturing(s)
      BY <3>1, CaptureFacts DEF TypeOK
    <3>. QED
      BY <1>20, <2>2, <3>1, <3>2 DEF DisposeStops, Capturing, NamedInv, external
  <2>. QED
    BY <2>1, <2>2
<1>21. CASE UNCHANGED vars
  BY <1>21 DEF NamedInv, vars, external, stopping, view, history
<1>. QED
  BY <1>1, <1>2, <1>3, <1>4, <1>5, <1>6, <1>7, <1>8, <1>9, <1>10, <1>11, <1>12, <1>13,
    <1>14, <1>15, <1>16, <1>17, <1>18, <1>19, <1>20, <1>21 DEF Next

\* A stopped capture does not run again: a new one has a new name.
LEMMA AnswerInvStep ==
  TypeOK /\ NamedInv /\ OwedInv /\ AnswerInv /\ [Next]_vars => AnswerInv'
<1>. SUFFICES ASSUME TypeOK, NamedInv, OwedInv, AnswerInv, [Next]_vars
             PROVE  AnswerInv'
  OBVIOUS
<1>1. CASE NodeStart
  <2>1. NodeOpens => Opening
    BY OpenFacts
  <2>. QED
    BY <1>1, <2>1 DEF NodeStart, Opening, AnswerInv, OwedInv, Running, NamedInv
<1>2. CASE NodeStartLate
  <2>1. NodeOpens => Opening
    BY OpenFacts
  <2>. QED
    BY <1>2, <2>1 DEF NodeStartLate, Opening, AnswerInv, OwedInv, Running, NamedInv
<1>3. CASE NodeForeign
  <2>1. NodeOpens => Opening
    BY OpenFacts
  <2>. QED
    BY <1>3, <2>1 DEF NodeForeign, Opening, AnswerInv, OwedInv, Running, NamedInv,
      TypeOK, Status
<1>4. CASE NodeFrame
  BY <1>4 DEF NodeFrame, AnswerInv, Running, external
<1>5. CASE PollCamera
  BY <1>5 DEF PollCamera, AnswerInv
<1>6. CASE PollReplies
  BY <1>6 DEF PollReplies, ShowPacket, AnswerInv, Running, external
<1>7. CASE PollFails
  BY <1>7 DEF PollFails, AnswerInv, Running, external
<1>8. CASE RefreshCameras
  BY <1>8 DEF RefreshCameras, AnswerInv, Running, external
<1>9. CASE InventoryReplies
  BY <1>9 DEF InventoryReplies, AnswerInv, Running, external
<1>10. CASE StopPendingStart
  <2>1. Aging
    BY StaleFacts
  <2>. QED
    BY <1>10, <2>1 DEF StopPendingStart, Aging, AnswerInv, Running, external
<1>11. ASSUME NEW s \in Session, NodeStop(s) PROVE AnswerInv'
  BY <1>11 DEF NodeStop, AnswerInv, Running
<1>12. ASSUME NEW s \in Session, StopExact(s) PROVE AnswerInv'
  <2>1. Capturing(s)
    BY <1>12, CaptureFacts DEF StopExact
  <2>. QED
    BY <1>12, <2>1 DEF StopExact, Capturing, AnswerInv, Running, external
<1>13. ASSUME NEW s \in Session, StopReplies(s) PROVE AnswerInv'
  BY <1>13 DEF StopReplies, StopEnds, AcceptStopped, AnswerInv, Running, external
<1>14. ASSUME NEW s \in Session, StopFails(s) PROVE AnswerInv'
  BY <1>14 DEF StopFails, StopEnds, AcceptStopped, AnswerInv, Running, external
<1>15. CASE StartCamera
  <2>1. Aging
    BY StaleFacts
  <2>. QED
    BY <1>15, <2>1 DEF StartCamera, Aging, AnswerInv, Running, external
<1>16. CASE StartSends
  BY <1>16 DEF StartSends, AnswerInv, Running, external
<1>17. CASE StartReplies
  <2>. DEFINE s == start.session
  <2>1. s \in Session
    BY <1>17 DEF StartReplies, TypeOK, Start
  <2>2. StopCapture(s) => Capturing(s)
    BY <2>1, CaptureFacts
  <2>. QED
    BY <1>17, <2>1, <2>2 DEF StartReplies, Capturing, AnswerInv, Running, external
<1>18. CASE StartFails
  BY <1>18 DEF StartFails, AnswerInv, Running
<1>19. CASE Dispose
  BY <1>19 DEF Dispose, AnswerInv, Running, external
<1>20. CASE DisposeStops
  <2>1. CASE owned = {}
    BY <1>20, <2>1 DEF DisposeStops, AnswerInv, Running, external
  <2>2. CASE owned # {}
    <3>1. PICK s \in owned : StopCapture(s)
      BY <1>20, <2>2 DEF DisposeStops
    <3>2. s \in Session /\ Capturing(s)
      BY <3>1, CaptureFacts DEF TypeOK
    <3>. QED
      BY <1>20, <2>2, <3>1, <3>2 DEF DisposeStops, Capturing, AnswerInv, Running,
        external
  <2>. QED
    BY <2>1, <2>2
<1>21. CASE UNCHANGED vars
  BY <1>21 DEF AnswerInv, Running, vars, external
<1>. QED
  BY <1>1, <1>2, <1>3, <1>4, <1>5, <1>6, <1>7, <1>8, <1>9, <1>10, <1>11, <1>12, <1>13,
    <1>14, <1>15, <1>16, <1>17, <1>18, <1>19, <1>20, <1>21 DEF Next

\* A capture is released by an answer "stopped" only, and that is still true.
LEMMA OwnedStep ==
  TypeOK /\ NamedInv /\ AnswerInv /\ OwnedUntilStopped /\ [Next]_vars => OwnedUntilStopped'
<1>. SUFFICES ASSUME TypeOK, NamedInv, AnswerInv, OwnedUntilStopped, [Next]_vars
             PROVE  OwnedUntilStopped'
  OBVIOUS
<1>1. CASE NodeStart
  <2>1. NodeOpens => Opening
    BY OpenFacts
  <2>. QED
    BY <1>1, <2>1 DEF NodeStart, Opening, OwnedUntilStopped, Running, NamedInv,
      stopping, history
<1>2. CASE NodeStartLate
  <2>1. NodeOpens => Opening
    BY OpenFacts
  <2>. QED
    BY <1>2, <2>1 DEF NodeStartLate, Opening, OwnedUntilStopped, Running, NamedInv,
      stopping, history
<1>3. CASE NodeForeign
  <2>1. NodeOpens => Opening
    BY OpenFacts
  <2>. QED
    BY <1>3, <2>1 DEF NodeForeign, Opening, OwnedUntilStopped, Running, NamedInv,
      TypeOK, Status, history
<1>4. CASE NodeFrame
  BY <1>4 DEF NodeFrame, OwnedUntilStopped, Running, external, stopping, history
<1>5. CASE PollCamera
  BY <1>5 DEF PollCamera, OwnedUntilStopped, Running, external, stopping, history
<1>6. CASE PollReplies
  BY <1>6 DEF PollReplies, ShowPacket, Stopped, OwnedUntilStopped, AnswerInv, Running,
    external, stopping, history
<1>7. CASE PollFails
  BY <1>7 DEF PollFails, OwnedUntilStopped, Running, external, stopping, history
<1>8. CASE RefreshCameras
  BY <1>8 DEF RefreshCameras, OwnedUntilStopped, Running, external, stopping, history
<1>9. CASE InventoryReplies
  BY <1>9 DEF InventoryReplies, OwnedUntilStopped, Running, external, stopping, history
<1>10. CASE StopPendingStart
  <2>1. Aging
    BY StaleFacts
  <2>. QED
    BY <1>10, <2>1 DEF StopPendingStart, Aging, OwnedUntilStopped, Running, external,
      stopping, history
<1>11. ASSUME NEW s \in Session, NodeStop(s) PROVE OwnedUntilStopped'
  BY <1>11 DEF NodeStop, OwnedUntilStopped, Running, stopping, history
<1>12. ASSUME NEW s \in Session, StopExact(s) PROVE OwnedUntilStopped'
  <2>1. Capturing(s)
    BY <1>12, CaptureFacts DEF StopExact
  <2>. QED
    BY <1>12, <2>1 DEF StopExact, Capturing, OwnedUntilStopped, Running, external
<1>13. ASSUME NEW s \in Session, StopReplies(s) PROVE OwnedUntilStopped'
  BY <1>13 DEF StopReplies, StopEnds, AcceptStopped, Stopped, OwnedUntilStopped,
    AnswerInv, Running, external, history
<1>14. ASSUME NEW s \in Session, StopFails(s) PROVE OwnedUntilStopped'
  BY <1>14 DEF StopFails, StopEnds, AcceptStopped, Stopped, OwnedUntilStopped, Running,
    external, history
<1>15. CASE StartCamera
  <2>1. Aging
    BY StaleFacts
  <2>. QED
    BY <1>15, <2>1 DEF StartCamera, Aging, OwnedUntilStopped, Running, external, history
<1>16. CASE StartSends
  BY <1>16 DEF StartSends, OwnedUntilStopped, Running, external, stopping, history
<1>17. CASE StartReplies
  <2>. DEFINE s == start.session
  <2>1. s \in Session
    BY <1>17 DEF StartReplies, TypeOK, Start
  <2>2. StopCapture(s) => Capturing(s)
    BY <2>1, CaptureFacts
  <2>. QED
    BY <1>17, <2>1, <2>2 DEF StartReplies, Capturing, OwnedUntilStopped, Running,
      external
<1>18. CASE StartFails
  BY <1>18 DEF StartFails, OwnedUntilStopped, Running, stopping, history
<1>19. CASE Dispose
  BY <1>19 DEF Dispose, OwnedUntilStopped, Running, external, stopping, history
<1>20. CASE DisposeStops
  <2>1. CASE owned = {}
    BY <1>20, <2>1 DEF DisposeStops, OwnedUntilStopped, Running, external
  <2>2. CASE owned # {}
    <3>1. PICK s \in owned : StopCapture(s)
      BY <1>20, <2>2 DEF DisposeStops
    <3>2. s \in Session /\ Capturing(s)
      BY <3>1, CaptureFacts DEF TypeOK
    <3>. QED
      BY <1>20, <2>2, <3>1, <3>2 DEF DisposeStops, Capturing, OwnedUntilStopped,
        Running, external
  <2>. QED
    BY <2>1, <2>2
<1>21. CASE UNCHANGED vars
  BY <1>21 DEF OwnedUntilStopped, Running, vars, external, stopping, history
<1>. QED
  BY <1>1, <1>2, <1>3, <1>4, <1>5, <1>6, <1>7, <1>8, <1>9, <1>10, <1>11, <1>12, <1>13,
    <1>14, <1>15, <1>16, <1>17, <1>18, <1>19, <1>20, <1>21 DEF Next

\* A Stop ceases to be owed by an answer "stopped" only; forgetting the requests
\* makes the read under way stale.
LEMMA OwedInvStep ==
  TypeOK /\ NamedInv /\ AnswerInv /\ OwedInv /\ [Next]_vars => OwedInv'
<1>. SUFFICES ASSUME TypeOK, NamedInv, AnswerInv, OwedInv, [Next]_vars
             PROVE  OwedInv'
  OBVIOUS
<1>1. CASE NodeStart
  <2>1. NodeOpens => Opening
    BY OpenFacts
  <2>. QED
    BY <1>1, <2>1 DEF NodeStart, Opening, OwedInv, Running, NamedInv, stopping, history
<1>2. CASE NodeStartLate
  <2>1. NodeOpens => Opening
    BY OpenFacts
  <2>. QED
    BY <1>2, <2>1 DEF NodeStartLate, Opening, OwedInv, Running, NamedInv, stopping,
      history
<1>3. CASE NodeForeign
  <2>1. NodeOpens => Opening
    BY OpenFacts
  <2>. QED
    BY <1>3, <2>1 DEF NodeForeign, Opening, OwedInv, Running, NamedInv, TypeOK, Status,
      stopping, history
<1>4. CASE NodeFrame
  BY <1>4 DEF NodeFrame, OwedInv, Running, external, stopping, history
<1>5. CASE PollCamera
  BY <1>5 DEF PollCamera, OwedInv, Running, external, stopping, history
<1>6. CASE PollReplies
  BY <1>6 DEF PollReplies, ShowPacket, Stopped, OwedInv, AnswerInv, Running, external,
    stopping, history
<1>7. CASE PollFails
  BY <1>7 DEF PollFails, OwedInv, Running, external, stopping, history
<1>8. CASE RefreshCameras
  BY <1>8 DEF RefreshCameras, OwedInv, Running, external, stopping, history
<1>9. CASE InventoryReplies
  BY <1>9 DEF InventoryReplies, OwedInv, Running, external, stopping, history
<1>10. CASE StopPendingStart
  <2>1. Aging
    BY StaleFacts
  <2>. QED
    BY <1>10, <2>1 DEF StopPendingStart, Aging, OwedInv, Running, external, stopping,
      history
<1>11. ASSUME NEW s \in Session, NodeStop(s) PROVE OwedInv'
  BY <1>11 DEF NodeStop, OwedInv, Running, stopping, history
<1>12. ASSUME NEW s \in Session, StopExact(s) PROVE OwedInv'
  <2>1. Capturing(s)
    BY <1>12, CaptureFacts DEF StopExact
  <2>. QED
    BY <1>12, <2>1 DEF StopExact, Capturing, OwedInv, Running, external
<1>13. ASSUME NEW s \in Session, StopReplies(s) PROVE OwedInv'
  BY <1>13 DEF StopReplies, StopEnds, AcceptStopped, OwedInv, AnswerInv, Running,
    external, history
<1>14. ASSUME NEW s \in Session, StopFails(s) PROVE OwedInv'
  BY <1>14 DEF StopFails, StopEnds, AcceptStopped, OwedInv, Running, external, history
<1>15. CASE StartCamera
  <2>1. Aging
    BY StaleFacts
  <2>. QED
    BY <1>15, <2>1 DEF StartCamera, Aging, OwedInv, Running, external, history
<1>16. CASE StartSends
  BY <1>16 DEF StartSends, OwedInv, Running, external, stopping, history
<1>17. CASE StartReplies
  <2>. DEFINE s == start.session
  <2>1. s \in Session
    BY <1>17 DEF StartReplies, TypeOK, Start
  <2>2. StopCapture(s) => Capturing(s)
    BY <2>1, CaptureFacts
  <2>. QED
    BY <1>17, <2>1, <2>2 DEF StartReplies, Capturing, OwedInv, Running, external
<1>18. CASE StartFails
  BY <1>18 DEF StartFails, OwedInv, Running, stopping, history
<1>19. CASE Dispose
  BY <1>19 DEF Dispose, OwedInv, Running, external, stopping, history
<1>20. CASE DisposeStops
  <2>1. CASE owned = {}
    BY <1>20, <2>1 DEF DisposeStops, OwedInv, Running, external
  <2>2. CASE owned # {}
    <3>1. PICK s \in owned : StopCapture(s)
      BY <1>20, <2>2 DEF DisposeStops
    <3>2. s \in Session /\ Capturing(s)
      BY <3>1, CaptureFacts DEF TypeOK
    <3>. QED
      BY <1>20, <2>2, <3>1, <3>2 DEF DisposeStops, Capturing, OwedInv, Running, external
  <2>. QED
    BY <2>1, <2>2
<1>21. CASE UNCHANGED vars
  BY <1>21 DEF OwedInv, Running, vars, external, stopping, history
<1>. QED
  BY <1>1, <1>2, <1>3, <1>4, <1>5, <1>6, <1>7, <1>8, <1>9, <1>10, <1>11, <1>12, <1>13,
    <1>14, <1>15, <1>16, <1>17, <1>18, <1>19, <1>20, <1>21 DEF Next

\* A Stop clears the frame, and only a read that still counts brings one.
LEMMA ShownStep ==
  TypeOK /\ OwedInv /\ StoppedNeverShown /\ [Next]_vars => StoppedNeverShown'
<1>. SUFFICES ASSUME TypeOK, OwedInv, StoppedNeverShown, [Next]_vars
             PROVE  StoppedNeverShown'
  OBVIOUS
<1>1. CASE NodeStart
  <2>1. NodeOpens => Opening
    BY OpenFacts
  <2>. QED
    BY <1>1, <2>1 DEF NodeStart, Opening, StoppedNeverShown, view, history
<1>2. CASE NodeStartLate
  <2>1. NodeOpens => Opening
    BY OpenFacts
  <2>. QED
    BY <1>2, <2>1 DEF NodeStartLate, Opening, StoppedNeverShown, view, history
<1>3. CASE NodeForeign
  <2>1. NodeOpens => Opening
    BY OpenFacts
  <2>. QED
    BY <1>3, <2>1 DEF NodeForeign, Opening, StoppedNeverShown, view, history
<1>4. CASE NodeFrame
  BY <1>4 DEF NodeFrame, StoppedNeverShown, view, history
<1>5. CASE PollCamera
  BY <1>5 DEF PollCamera, StoppedNeverShown, view, history
<1>6. CASE PollReplies
  BY <1>6 DEF PollReplies, ShowPacket, StoppedNeverShown, OwedInv, TypeOK, Session,
    NoSession, view, history
<1>7. CASE PollFails
  BY <1>7 DEF PollFails, StoppedNeverShown, TypeOK, Session, NoSession, history
<1>8. CASE RefreshCameras
  BY <1>8 DEF RefreshCameras, StoppedNeverShown, view, history
<1>9. CASE InventoryReplies
  BY <1>9 DEF InventoryReplies, StoppedNeverShown, history
<1>10. CASE StopPendingStart
  <2>1. Aging
    BY StaleFacts
  <2>. QED
    BY <1>10, <2>1 DEF StopPendingStart, Aging, StoppedNeverShown, TypeOK, Session,
      NoSession, history
<1>11. ASSUME NEW s \in Session, NodeStop(s) PROVE StoppedNeverShown'
  BY <1>11 DEF NodeStop, StoppedNeverShown, view, history
<1>12. ASSUME NEW s \in Session, StopExact(s) PROVE StoppedNeverShown'
  <2>1. Capturing(s)
    BY <1>12, CaptureFacts DEF StopExact
  <2>. QED
    BY <1>12, <2>1 DEF StopExact, Capturing, StoppedNeverShown, OwedInv, TypeOK,
      Session, NoSession
<1>13. ASSUME NEW s \in Session, StopReplies(s) PROVE StoppedNeverShown'
  BY <1>13 DEF StopReplies, StopEnds, AcceptStopped, StoppedNeverShown, history
<1>14. ASSUME NEW s \in Session, StopFails(s) PROVE StoppedNeverShown'
  BY <1>14 DEF StopFails, StopEnds, AcceptStopped, StoppedNeverShown, history
<1>15. CASE StartCamera
  <2>1. Aging
    BY StaleFacts
  <2>. QED
    BY <1>15, <2>1 DEF StartCamera, Aging, StoppedNeverShown, view, history
<1>16. CASE StartSends
  BY <1>16 DEF StartSends, StoppedNeverShown, TypeOK, Session, NoSession, history
<1>17. CASE StartReplies
  <2>. DEFINE s == start.session
  <2>1. s \in Session
    BY <1>17 DEF StartReplies, TypeOK, Start
  <2>2. StopCapture(s) => Capturing(s)
    BY <2>1, CaptureFacts
  <2>. QED
    BY <1>17, <2>1, <2>2 DEF StartReplies, Capturing, StoppedNeverShown, OwedInv,
      TypeOK, Session, NoSession
<1>18. CASE StartFails
  BY <1>18 DEF StartFails, StoppedNeverShown, view, history
<1>19. CASE Dispose
  BY <1>19 DEF Dispose, StoppedNeverShown, TypeOK, Session, NoSession, history
<1>20. CASE DisposeStops
  <2>1. CASE owned = {}
    BY <1>20, <2>1 DEF DisposeStops, StoppedNeverShown
  <2>2. CASE owned # {}
    <3>1. PICK s \in owned : StopCapture(s)
      BY <1>20, <2>2 DEF DisposeStops
    <3>2. s \in Session /\ Capturing(s)
      BY <3>1, CaptureFacts DEF TypeOK
    <3>. QED
      BY <1>20, <2>2, <3>1, <3>2 DEF DisposeStops, Capturing, StoppedNeverShown, TypeOK,
        Session, NoSession
  <2>. QED
    BY <2>1, <2>2
<1>21. CASE UNCHANGED vars
  BY <1>21 DEF StoppedNeverShown, vars, view, history
<1>. QED
  BY <1>1, <1>2, <1>3, <1>4, <1>5, <1>6, <1>7, <1>8, <1>9, <1>10, <1>11, <1>12, <1>13,
    <1>14, <1>15, <1>16, <1>17, <1>18, <1>19, <1>20, <1>21 DEF Next

\* Nothing becomes owned while a Start is pending but what it opens.
LEMMA StartInvStep == TypeOK /\ OwedInv /\ StartInv /\ [Next]_vars => StartInv'
<1>. SUFFICES ASSUME TypeOK, OwedInv, StartInv, [Next]_vars
             PROVE  StartInv'
  OBVIOUS
<1>1. CASE NodeStart
  <2>1. NodeOpens => Opening
    BY OpenFacts
  <2>. QED
    BY <1>1, <2>1 DEF NodeStart, Opening, TypeOK, Start, stopping, StartInv
<1>2. CASE NodeStartLate
  <2>1. NodeOpens => Opening
    BY OpenFacts
  <2>. QED
    BY <1>2, <2>1 DEF NodeStartLate, Opening, stopping, StartInv
<1>3. CASE NodeForeign
  <2>1. NodeOpens => Opening
    BY OpenFacts
  <2>. QED
    BY <1>3, <2>1 DEF NodeForeign, Opening, stopping, StartInv
<1>4. CASE NodeFrame
  BY <1>4 DEF NodeFrame, stopping, StartInv
<1>5. CASE PollCamera
  BY <1>5 DEF PollCamera, stopping, StartInv
<1>6. CASE PollReplies
  BY <1>6 DEF PollReplies, ShowPacket, stopping, StartInv
<1>7. CASE PollFails
  BY <1>7 DEF PollFails, stopping, StartInv
<1>8. CASE RefreshCameras
  BY <1>8 DEF RefreshCameras, stopping, StartInv
<1>9. CASE InventoryReplies
  BY <1>9 DEF InventoryReplies, stopping, StartInv
<1>10. CASE StopPendingStart
  <2>1. Aging
    BY StaleFacts
  <2>. QED
    BY <1>10, <2>1 DEF StopPendingStart, Aging, stopping, StartInv
<1>11. ASSUME NEW s \in Session, NodeStop(s) PROVE StartInv'
  BY <1>11 DEF NodeStop, stopping, StartInv
<1>12. ASSUME NEW s \in Session, StopExact(s) PROVE StartInv'
  <2>1. Capturing(s)
    BY <1>12, CaptureFacts DEF StopExact
  <2>. QED
    BY <1>12, <2>1 DEF StopExact, Capturing, StartInv
<1>13. ASSUME NEW s \in Session, StopReplies(s) PROVE StartInv'
  BY <1>13 DEF StopReplies, StopEnds, AcceptStopped, Release, StartInv
<1>14. ASSUME NEW s \in Session, StopFails(s) PROVE StartInv'
  BY <1>14 DEF StopFails, StopEnds, AcceptStopped, Release, StartInv
<1>15. CASE StartCamera
  <2>1. Aging
    BY StaleFacts
  <2>. QED
    BY <1>15, <2>1 DEF StartCamera, Aging, StartInv
<1>16. CASE StartSends
  BY <1>16 DEF StartSends, stopping, StartInv
<1>17. CASE StartReplies
  <2>. DEFINE s == start.session
  <2>1. s \in Session
    BY <1>17 DEF StartReplies, TypeOK, Start
  <2>2. StopCapture(s) => Capturing(s)
    BY <2>1, CaptureFacts
  <2>. QED
    BY <1>17, <2>1, <2>2 DEF StartReplies, Capturing, TypeOK, Start, StartInv
<1>18. CASE StartFails
  BY <1>18 DEF StartFails, stopping, StartInv
<1>19. CASE Dispose
  BY <1>19 DEF Dispose, stopping, StartInv
<1>20. CASE DisposeStops
  <2>1. CASE owned = {}
    BY <1>20, <2>1 DEF DisposeStops, StartInv
  <2>2. CASE owned # {}
    <3>1. PICK s \in owned : StopCapture(s)
      BY <1>20, <2>2 DEF DisposeStops
    <3>2. s \in Session /\ Capturing(s)
      BY <3>1, CaptureFacts DEF TypeOK
    <3>. QED
      BY <1>20, <2>2, <3>1, <3>2 DEF DisposeStops, Capturing, StartInv
  <2>. QED
    BY <2>1, <2>2
<1>21. CASE UNCHANGED vars
  BY <1>21 DEF vars, stopping, StartInv
<1>. QED
  BY <1>1, <1>2, <1>3, <1>4, <1>5, <1>6, <1>7, <1>8, <1>9, <1>10, <1>11, <1>12, <1>13,
    <1>14, <1>15, <1>16, <1>17, <1>18, <1>19, <1>20, <1>21 DEF Next

\* Once disposed, no request begins but the Stop of dispose() itself.
LEMMA TeardownInvStep ==
  TypeOK /\ NamedInv /\ AnswerInv /\ OwnedUntilStopped /\ StartInv /\ TeardownInv /\ [Next]_vars
    => TeardownInv'
<1>. SUFFICES ASSUME TypeOK, NamedInv, AnswerInv, OwnedUntilStopped, StartInv, TeardownInv,
                    [Next]_vars
             PROVE  TeardownInv'
  OBVIOUS
<1>1. CASE NodeStart
  <2>1. NodeOpens => Opening
    BY OpenFacts
  <2>. QED
    BY <1>1, <2>1 DEF NodeStart, Opening, TeardownInv
<1>2. CASE NodeStartLate
  <2>1. NodeOpens => Opening
    BY OpenFacts
  <2>. QED
    BY <1>2, <2>1 DEF NodeStartLate, Opening, TeardownInv, NamedInv, Running, stopping,
      history
<1>3. CASE NodeForeign
  <2>1. NodeOpens => Opening
    BY OpenFacts
  <2>. QED
    BY <1>3, <2>1 DEF NodeForeign, Opening, TeardownInv, NamedInv, Running, TypeOK,
      Status, stopping, history
<1>4. CASE NodeFrame
  BY <1>4 DEF NodeFrame, TeardownInv, Running, external, stopping, history
<1>5. CASE PollCamera
  BY <1>5 DEF PollCamera, TeardownInv
<1>6. CASE PollReplies
  BY <1>6 DEF PollReplies, ShowPacket, TeardownInv, Running, external, stopping, history
<1>7. CASE PollFails
  BY <1>7 DEF PollFails, TeardownInv, Running, external, stopping, history
<1>8. CASE RefreshCameras
  BY <1>8 DEF RefreshCameras, TeardownInv
<1>9. CASE InventoryReplies
  BY <1>9 DEF InventoryReplies, TeardownInv, Running, external, stopping, history
<1>10. CASE StopPendingStart
  <2>1. Aging
    BY StaleFacts
  <2>. QED
    BY <1>10, <2>1 DEF StopPendingStart, Aging, TeardownInv
<1>11. ASSUME NEW s \in Session, NodeStop(s) PROVE TeardownInv'
  BY <1>11 DEF NodeStop, TeardownInv, stopping
<1>12. ASSUME NEW s \in Session, StopExact(s) PROVE TeardownInv'
  <2>1. Capturing(s)
    BY <1>12, CaptureFacts DEF StopExact
  <2>. QED
    BY <1>12, <2>1 DEF StopExact, Capturing, TeardownInv
<1>13. ASSUME NEW s \in Session, StopReplies(s) PROVE TeardownInv'
  BY <1>13 DEF StopReplies, StopEnds, AcceptStopped, Release, TeardownInv, AnswerInv,
    OwnedUntilStopped, Running, external, history
<1>14. ASSUME NEW s \in Session, StopFails(s) PROVE TeardownInv'
  BY <1>14 DEF StopFails, StopEnds, AcceptStopped, Release, TeardownInv,
    OwnedUntilStopped, Running, external, history
<1>15. CASE StartCamera
  <2>1. Aging
    BY StaleFacts
  <2>. QED
    BY <1>15, <2>1 DEF StartCamera, Aging, TeardownInv
<1>16. CASE StartSends
  BY <1>16 DEF StartSends, TeardownInv
<1>17. CASE StartReplies
  <2>. DEFINE s == start.session
  <2>1. s \in Session
    BY <1>17 DEF StartReplies, TypeOK, Start
  <2>2. StopCapture(s) => Capturing(s)
    BY <2>1, CaptureFacts
  <2>. QED
    BY <1>17, <2>1, <2>2 DEF StartReplies, Capturing, TeardownInv
<1>18. CASE StartFails
  BY <1>18 DEF StartFails, TeardownInv
<1>19. CASE Dispose
  BY <1>19 DEF Dispose, TeardownInv
<1>20. CASE DisposeStops
  <2>1. CASE owned = {}
    BY <1>20, <2>1 DEF DisposeStops, TeardownInv, OwnedUntilStopped, Running, external
  <2>2. CASE owned # {}
    <3>1. PICK s \in owned : StopCapture(s)
      BY <1>20, <2>2 DEF DisposeStops
    <3>2. s \in Session /\ Capturing(s)
      BY <3>1, CaptureFacts DEF TypeOK
    <3>. QED
      BY <1>20, <2>2, <3>1, <3>2 DEF DisposeStops, Capturing, TeardownInv, StartInv
  <2>. QED
    BY <2>1, <2>2
<1>21. CASE UNCHANGED vars
  BY <1>21 DEF TeardownInv, Running, vars, external, stopping, history
<1>. QED
  BY <1>1, <1>2, <1>3, <1>4, <1>5, <1>6, <1>7, <1>8, <1>9, <1>10, <1>11, <1>12, <1>13,
    <1>14, <1>15, <1>16, <1>17, <1>18, <1>19, <1>20, <1>21 DEF Next

\* The invariant holds at first.
LEMMA InitIInv == Init => IInv
<1>. SUFFICES ASSUME Init PROVE IInv
  OBVIOUS
<1>1. DOMAIN stops = {}
  BY DEF Init
<1>2. TypeOK
  <2>1. node \in Status /\ status \in Status
    BY DEF Init, Status, NoSession
  <2>2. opened \in 0..MaxSessions
    BY CameraAssumption DEF Init
  <2>. QED
    BY <1>1, <2>1, <2>2 DEF Init, TypeOK
<1>3. NamedInv /\ AnswerInv /\ OwnedUntilStopped
  BY <1>1 DEF Init, NamedInv, AnswerInv, OwnedUntilStopped, NoSession
<1>4. OwedInv /\ StoppedNeverShown /\ StartInv /\ TeardownInv
  BY <1>1 DEF Init, OwedInv, StoppedNeverShown, TeardownInv, StartInv
<1>. QED
  BY <1>2, <1>3, <1>4 DEF IInv

-----------------------------------------------------------------------------
(* Theorems                                                                *)

\* The inductive invariant: names, answers under way, owed Stops, the pending
\* Start and the progress of dispose() agree in every reachable state.
THEOREM Invariance == Spec => []IInv
<1>1. IInv /\ [Next]_vars => IInv'
  BY TypeOKStep, NamedInvStep, AnswerInvStep, OwnedStep, OwedInvStep, ShownStep,
    StartInvStep,
     TeardownInvStep DEF IInv
<1>. QED
  BY InitIInv, <1>1, PTL DEF Spec

\* Every variable of the camera channel keeps its type.
THEOREM TypeCorrect == Spec => []TypeOK
<1>1. IInv => TypeOK
  BY DEF IInv
<1>. QED
  BY Invariance, <1>1, PTL

\* acceptStopped: a capture the controller was told of stays owned while it runs.
THEOREM CapturesStayOwned == Spec => []OwnedUntilStopped
<1>1. IInv => OwnedUntilStopped
  BY DEF IInv
<1>. QED
  BY Invariance, <1>1, PTL

\* The epoch and stopRequestedSessions: no frame of a capture whose Stop was
\* requested is shown again.
THEOREM StoppedFramesStayHidden == Spec => []StoppedNeverShown
<1>1. IInv => StoppedNeverShown
  BY DEF IInv
<1>. QED
  BY Invariance, <1>1, PTL

\* dispose(): when it is done no capture of this controller runs unaccounted for,
\* and it never had more than one to stop.
THEOREM CleanupIsComplete == Spec => []CleanupCovers
<1>1. StartInv => Cardinality(owned) <= 1
  <2>1. CASE owned = {}
    BY <2>1, FS_EmptySet
  <2>2. ASSUME StartInv, NEW s \in owned PROVE Cardinality(owned) <= 1
    <3>1. owned = {s}
      BY <2>2 DEF StartInv
    <3>. QED
      BY <3>1, FS_Singleton
  <2>. QED
    BY <2>1, <2>2
<1>2. IInv => CleanupCovers
  BY <1>1 DEF IInv, TeardownInv, CleanupCovers
<1>. QED
  BY Invariance, <1>2, PTL

\* startCamera() sends its request only after every Stop has been achieved,
\* although it awaits the pending read after it has looked.
THEOREM StartsFollowStops == Spec => StartNeverOvertakesStop
<1>. DEFINE Sends == start' # None /\ start'.stage = "sent"
                     /\ ~(start # None /\ start.stage = "sent")
            Clear == DOMAIN stops = {} /\ unconfirmed = {} /\ owned = {}
                     /\ \A s \in told : ~Running(s)
<1>1. IInv /\ StartSends /\ Sends => Clear
  BY DEF IInv, StartSends, StartInv, OwedInv, OwnedUntilStopped
<1>2. IInv /\ [Next]_vars /\ Sends => StartSends
  <2>. SUFFICES ASSUME IInv, [Next]_vars, Sends PROVE StartSends
    OBVIOUS
  <2>1. start \in Start \cup {None}
    BY DEF IInv, TypeOK
  <2>2. CASE UNCHANGED start
    BY <2>2
  <2>3. ~NodeStart /\ ~StopPendingStart /\ ~StartCamera /\ ~StartReplies /\ ~StartFails
    BY <2>1 DEF NodeStart, StopPendingStart, StartCamera, StartReplies, StartFails,
      Start
  <2>4. ASSUME NEW s \in Session PROVE ~StopExact(s)
    BY <2>1 DEF StopExact, Start
  <2>5. ASSUME NEW s \in Session, StopReplies(s) \/ StopFails(s) PROVE UNCHANGED start
    BY <2>1, <2>5 DEF StopReplies, StopFails, StopEnds, Release
  <2>6. NodeStartLate \/ NodeForeign \/ NodeFrame \/ Dispose \/ DisposeStops
        \/ PollCamera \/ PollReplies \/ PollFails \/ RefreshCameras \/ InventoryReplies
        \/ UNCHANGED vars
        => UNCHANGED start
    BY DEF NodeStartLate, NodeForeign, NodeFrame, Dispose, DisposeStops, PollCamera,
      PollReplies,
      PollFails, RefreshCameras, InventoryReplies, vars
  <2>7. ASSUME NEW s \in Session, NodeStop(s) PROVE UNCHANGED start
    BY <2>7 DEF NodeStop
  <2>. QED
    BY <2>2, <2>3, <2>4, <2>5, <2>6, <2>7 DEF Next
<1>3. IInv /\ [Next]_vars => [Sends => Clear]_vars
  BY <1>1, <1>2
<1>. QED
  BY Invariance, <1>3, PTL DEF Spec, StartNeverOvertakesStop
=============================================================================
