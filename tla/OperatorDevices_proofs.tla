------------------------ MODULE OperatorDevices_proofs ------------------------
(***************************************************************************)
(* Proofs about OperatorDevices: its types, that whatever may be running   *)
(* at the Node is in the service's store, that a running capture is held   *)
(* where Stop finds it or blocks every conversation, and that the store is *)
(* the ledger of CaptureLedger, for any conversations and any number of    *)
(* starts.                                                                 *)
(***************************************************************************)
EXTENDS OperatorDevices, TLAPS

\* What is on disk is what memory holds, until a save fails.
SavedInv == ~failed => disk = records

\* A start that has no name yet was written, in memory and on disk, before it went out.
WrittenInv ==
  controller.phase \in {"waiting", "asked"} =>
    /\ \E r \in records : r.capture = None
    /\ \E r \in disk : r.capture = None

\* Only a capture that is held is being stopped; only a named record is recovered; and a
\* link that is left owns nothing.
ActingInv ==
  /\ controller.stopping => controller.phase = "held"
  /\ recovering # None => recovering.recovered /\ recovering.capture # None
  /\ link.busy = "leaving" => ~Unresolved(controller)

\* Whatever the Node may be running is the capture of the controller, or recorded as
\* something to recover.
CoveredInv ==
  \A s \in Start : node[s] \in {"asked", "open"} =>
    \/ controller.capture = s
    \/ \E r \in records : NeedsRecovery(r) /\ r.capture \in {s, None}

IInv == TypeOK /\ SavedInv /\ WrittenInv /\ ActingInv /\ CoveredInv /\ RunningIsOnDisk

\* A view of a controller, as TypeOK has it.
IsView(view) ==
  /\ view \in View
  /\ (view.phase = "none") <=> (view.owner = None)
  /\ (view.capture # None) <=> (view.phase \in {"asked", "held"})

-----------------------------------------------------------------------------
(* Rewriting the journal                                                   *)

\* What a view shows as owned is a record.
LEMMA OwnedType ==
  ASSUME NEW view, IsView(view)
  PROVE  Owned(view) \subseteq Record
<1>1. CASE Unresolved(view)
  <2>1. view.owner \in Conversation
    <3>1. view.phase \in {"waiting", "asked", "held"}
      BY <1>1 DEF Unresolved, Pending
    <3> QED BY <3>1 DEF IsView, View
  <2>2. view.capture \in Start \cup {None} /\ (~view.seen) \in BOOLEAN
    BY DEF IsView, View
  <2> QED BY <1>1, <2>1, <2>2 DEF Owned, Record
<1>2. CASE ~Unresolved(view)
  BY <1>2 DEF Owned
<1> QED BY <1>1, <1>2

\* The journal that is rewritten keeps what needs recovery, names a held capture, keeps a
\* request without a name while one is pending, and makes it unknown after an error.
LEMMA RewrittenFacts ==
  ASSUME NEW old \in SUBSET Record, NEW view, IsView(view)
  PROVE  /\ Rewritten(old, view) \in SUBSET Record
         /\ \A r \in old : NeedsRecovery(r) => r \in Rewritten(old, view)
         /\ view.phase \in {"waiting", "asked"} => \E r \in Rewritten(old, view) : r.capture = None
         /\ view.phase = "held" => \E r \in Rewritten(old, view) : r.capture = view.capture
         /\ view.error /\ ~Pending(view) /\ (\E r \in old : r.capture = None) =>
              \E r \in Rewritten(old, view) : NeedsRecovery(r) /\ r.capture = None
<1> DEFINE unnamed == {r \in old : ~NeedsRecovery(r) /\ r.capture = None /\ view.error}
           kept    == {r \in old : NeedsRecovery(r)}
           ended   == {IF Pending(view) THEN r ELSE [r EXCEPT !.unknown = TRUE] : r \in unnamed}
<1>1. Rewritten(old, view) = kept \cup Owned(view) \cup ended
  BY DEF Rewritten
<1>2. \A r \in old : [r EXCEPT !.unknown = TRUE] \in Record
                   /\ [r EXCEPT !.unknown = TRUE].capture = r.capture
                   /\ [r EXCEPT !.unknown = TRUE].unknown = TRUE
  BY DEF Record
<1>3. ended \subseteq Record
  BY <1>2
<1>4. Rewritten(old, view) \in SUBSET Record
  BY <1>1, <1>3, OwnedType
<1>5. \A r \in old : NeedsRecovery(r) => r \in Rewritten(old, view)
  BY <1>1
<1>6. view.phase \in {"waiting", "asked"} => \E r \in Rewritten(old, view) : r.capture = None
  <2> SUFFICES ASSUME view.phase \in {"waiting", "asked"}
               PROVE  \E r \in Rewritten(old, view) : r.capture = None
    OBVIOUS
  <2> DEFINE r == [conversation |-> view.owner, capture |-> None, unknown |-> ~view.seen,
                   recovered |-> FALSE]
  <2>1. Owned(view) = {r}
    BY DEF Owned, Unresolved, Pending
  <2>2. r \in Rewritten(old, view) /\ r.capture = None
    BY <1>1, <2>1
  <2> QED BY <2>2
<1>7. view.phase = "held" => \E r \in Rewritten(old, view) : r.capture = view.capture
  <2> SUFFICES ASSUME view.phase = "held"
               PROVE  \E r \in Rewritten(old, view) : r.capture = view.capture
    OBVIOUS
  <2> DEFINE r == [conversation |-> view.owner, capture |-> view.capture, unknown |-> ~view.seen,
                   recovered |-> FALSE]
  <2>1. Owned(view) = {r}
    BY DEF Owned, Unresolved
  <2>2. r \in Rewritten(old, view) /\ r.capture = view.capture
    BY <1>1, <2>1
  <2> QED BY <2>2
<1>8. ASSUME view.error, ~Pending(view), NEW r \in old, r.capture = None
      PROVE  \E q \in Rewritten(old, view) : NeedsRecovery(q) /\ q.capture = None
  <2>1. CASE NeedsRecovery(r)
    BY <1>5, <1>8, <2>1
  <2>2. CASE ~NeedsRecovery(r)
    <3>1. r \in unnamed
      BY <1>8, <2>2
    <3>2. [r EXCEPT !.unknown = TRUE] \in ended
      BY <1>8, <3>1
    <3>3. NeedsRecovery([r EXCEPT !.unknown = TRUE])
      BY <1>2, <1>8 DEF NeedsRecovery
    <3> QED BY <1>1, <1>2, <1>8, <3>2, <3>3
  <2> QED BY <2>1, <2>2
<1> QED BY <1>4, <1>5, <1>6, <1>7, <1>8

\* Writing a journal: the store follows until a write fails.
LEMMA SavesFacts ==
  ASSUME IInv, NEW new \in SUBSET Record, Saves(new)
  PROVE  /\ records' = new /\ disk' \in SUBSET Record /\ failed' \in BOOLEAN
         /\ (disk' = new /\ ~failed') \/ (disk' = disk /\ failed')
BY DEF IInv, TypeOK, Saves

\* What a change of the controller's view does to memory and store.
LEMMA ChangesFacts ==
  ASSUME IInv, NEW view, IsView(view), Changes(view)
  PROVE  /\ controller' = view /\ records' = Rewritten(records, view)
         /\ records' \in SUBSET Record /\ disk' \in SUBSET Record /\ failed' \in BOOLEAN
         /\ SavedInv'
         /\ disk' = disk \/ disk' = records'
<1>1. records \in SUBSET Record /\ disk \in SUBSET Record /\ failed \in BOOLEAN
  BY DEF IInv, TypeOK
<1>2. PICK new : new = Rewritten(records, view)
  OBVIOUS
<1>3. new \in SUBSET Record
  BY <1>1, <1>2, RewrittenFacts
<1>4. controller' = view /\ IF new = records THEN UNCHANGED journal ELSE Saves(new)
  BY <1>2 DEF Changes
<1>5. CASE new = records
  BY <1>1, <1>2, <1>3, <1>4, <1>5 DEF journal, IInv, SavedInv
<1>6. CASE new # records
  <2>1. Saves(new)
    BY <1>4, <1>6
  <2> QED BY <1>2, <1>3, <1>4, <2>1, SavesFacts DEF SavedInv
<1> QED BY <1>5, <1>6

-----------------------------------------------------------------------------
(* Steps of the controller                                                 *)

\* What the Node runs stays covered when the view of a controller changes: a capture is let
\* go when it is not running, or with an error after a start without an answer; and a start
\* is sent by a controller that was waiting.
LEMMA ChangesKeep ==
  ASSUME IInv, NEW view, IsView(view), Changes(view),
         node' \in [Start -> {"unused", "asked", "refused", "open", "closed"}],
         request' \in Conversation \cup {None}, link' = link, recovering' = recovering,
         view.phase \in {"waiting", "asked"} => controller.phase \in {"waiting", "asked"},
         view.stopping => view.phase = "held",
         Unresolved(view) => Unresolved(controller),
         \A s \in Start : node'[s] \in {"asked", "open"} =>
           \/ view.capture = s /\ controller.phase = "waiting"
           \/ /\ node[s] \in {"asked", "open"}
              /\ controller.capture = s =>
                   \/ view.capture = s
                   \/ controller.phase = "asked" /\ view.error /\ ~Pending(view)
  PROVE  IInv'
<1>0. None \notin Nat
  BY DeviceAssumption
<1>1. /\ controller' = view /\ records' = Rewritten(records, view)
      /\ records' \in SUBSET Record /\ disk' \in SUBSET Record /\ failed' \in BOOLEAN
      /\ SavedInv'
      /\ disk' = disk \/ disk' = records'
  BY ChangesFacts
<1>2. records \in SUBSET Record
  BY DEF IInv, TypeOK
<1>3. /\ \A r \in records : NeedsRecovery(r) => r \in records'
      /\ view.phase \in {"waiting", "asked"} => \E r \in records' : r.capture = None
      /\ view.phase = "held" => \E r \in records' : r.capture = view.capture
      /\ view.error /\ ~Pending(view) /\ (\E r \in records : r.capture = None) =>
           \E r \in records' : NeedsRecovery(r) /\ r.capture = None
  BY <1>1, <1>2, RewrittenFacts
<1>4. TypeOK'
  BY <1>1 DEF IInv, TypeOK, IsView
<1>5. WrittenInv'
  BY <1>1, <1>3 DEF IInv, WrittenInv
<1>6. ActingInv'
  BY <1>1 DEF IInv, ActingInv
<1>7. CoveredInv'
  <2> SUFFICES ASSUME NEW s \in Start, node'[s] \in {"asked", "open"}
               PROVE  \/ controller'.capture = s
                      \/ \E r \in records' : NeedsRecovery(r) /\ r.capture \in {s, None}
    BY DEF CoveredInv, NeedsRecovery
  <2>1. CASE view.capture = s
    BY <1>1, <2>1
  <2>2. CASE view.capture # s /\ controller.capture = s
    <3>1. controller.phase = "asked" /\ view.error /\ ~Pending(view)
      BY <2>2
    <3> QED BY <1>3, <3>1 DEF IInv, WrittenInv
  <2>3. CASE view.capture # s /\ controller.capture # s
    BY <1>3, <2>3 DEF IInv, CoveredInv
  <2> QED BY <2>1, <2>2, <2>3
<1>8. RunningIsOnDisk'
  <2> SUFFICES ASSUME NEW s \in Start, node'[s] \in {"asked", "open"}
               PROVE  \E r \in disk' : r.capture \in {s, None}
    BY DEF RunningIsOnDisk
  <2>1. CASE disk' = records'
    <3>1. CASE view.capture = s
      <4>1. view.phase \in {"asked", "held"}
        BY <1>0, <3>1 DEF IsView, Start
      <4> QED BY <1>3, <2>1, <3>1, <4>1
    <3>2. CASE view.capture # s
      BY <1>1, <1>7, <2>1, <3>2 DEF CoveredInv, NeedsRecovery
    <3> QED BY <3>1, <3>2
  <2>2. CASE disk' = disk
    <3>1. CASE view.capture = s /\ controller.phase = "waiting"
      BY <2>2, <3>1 DEF IInv, WrittenInv
    <3>2. CASE node[s] \in {"asked", "open"}
      BY <2>2, <3>2 DEF IInv, RunningIsOnDisk
    <3> QED BY <3>1, <3>2
  <2> QED BY <1>1, <2>1, <2>2
<1> QED BY <1>1, <1>4, <1>5, <1>6, <1>7, <1>8 DEF IInv

\* The steps that change the view of the controller, and nothing of the link.
LEMMA ControllerKeeps ==
  ASSUME IInv, \/ Sends \/ StartReplies \/ StartFails \/ StopReplies \/ StopFails
               \/ PollReads \/ ListReads \/ \E c \in Conversation : CameraStop(c)
  PROVE  IInv'
<1>0. None \notin Nat /\ None \notin Conversation
  BY DeviceAssumption
<1>1. /\ IsView(controller) /\ controller.seen \in BOOLEAN /\ controller.cancelled \in BOOLEAN
      /\ controller.phase \in {"none", "idle", "waiting", "asked", "held", "doubt"}
      /\ node \in [Start -> {"unused", "asked", "refused", "open", "closed"}]
      /\ request \in Conversation \cup {None} /\ controller.stopping \in BOOLEAN
      /\ controller.capture \in Start \cup {None}
      /\ controller.stopping => controller.phase = "held"
      /\ controller.phase \in {"asked", "held"} => controller.capture \in Start
  BY DEF IInv, TypeOK, ActingInv, IsView, View
<1>2. \A s \in Start : s # None
  BY <1>0 DEF Start
<1>3. CASE Sends
  <2>1. controller.phase = "waiting" /\ controller.capture = None /\ link' = link
        /\ recovering' = recovering
    BY <1>1, <1>3 DEF Sends, IsView
  <2>2. CASE controller.cancelled
    <3> DEFINE view == [controller EXCEPT !.phase = "idle", !.cancelled = FALSE]
    <3>1. Changes(view) /\ request' = None /\ node' = node
      BY <1>3, <2>2 DEF Sends
    <3>2. /\ IsView(view) /\ view.phase = "idle" /\ view.stopping = controller.stopping
          /\ ~Unresolved(view)
      BY <1>1, <2>1 DEF IsView, View, Unresolved, Pending
    <3> HIDE DEF view
    <3> QED BY <1>1, <1>2, <2>1, <3>1, <3>2, ChangesKeep
  <2>3. CASE ~controller.cancelled
    <3>1. PICK s \in Start :
            /\ node' = [node EXCEPT ![s] = "asked"]
            /\ Changes([controller EXCEPT !.phase = "asked", !.capture = s])
            /\ UNCHANGED request
      BY <1>3, <2>3 DEF Sends
    <3> DEFINE view == [controller EXCEPT !.phase = "asked", !.capture = s]
    <3>2. /\ IsView(view) /\ view.phase = "asked" /\ view.stopping = controller.stopping
          /\ view.capture = s
      BY <1>1, <1>2, <2>1 DEF IsView, View
    <3>3. Changes(view) /\ request' = request
      BY <3>1
    <3>4. ~view.stopping /\ Unresolved(controller)
      BY <1>1, <2>1, <3>2 DEF Unresolved, Pending
    <3>5. /\ node' \in [Start -> {"unused", "asked", "refused", "open", "closed"}]
          /\ \A q \in Start : q # s => node'[q] = node[q]
      BY <1>1, <3>1
    <3> HIDE DEF view
    <3> QED BY <1>1, <1>2, <2>1, <3>2, <3>3, <3>4, <3>5, ChangesKeep
  <2> QED BY <2>2, <2>3
<1>4. CASE StartReplies
  <2> DEFINE view == [controller EXCEPT !.phase = "held", !.stopping = controller.cancelled,
                                        !.seen = TRUE, !.error = FALSE]
  <2>1. /\ Changes(view) /\ request' \in {request, None}
        /\ node' = node /\ link' = link /\ recovering' = recovering /\ controller.phase = "asked"
    BY <1>4 DEF StartReplies
  <2>2. IsView(view) /\ view.phase = "held" /\ view.capture = controller.capture
    BY <1>1, <2>1 DEF IsView, View
  <2>3. Unresolved(controller)
    BY <2>1 DEF Unresolved, Pending
  <2> HIDE DEF view
  <2> QED BY <1>1, <2>1, <2>2, <2>3, ChangesKeep
<1>5. CASE StartFails
  <2> DEFINE view == [controller EXCEPT !.phase = "doubt", !.capture = None, !.cancelled = FALSE,
                                        !.error = TRUE]
  <2>1. /\ Changes(view) /\ request' = None
        /\ node' = node /\ link' = link /\ recovering' = recovering /\ controller.phase = "asked"
    BY <1>5 DEF StartFails
  <2>2. /\ IsView(view) /\ view.phase = "doubt" /\ view.stopping = controller.stopping
        /\ view.error = TRUE
    BY <1>1, <2>1 DEF IsView, View
  <2>3. ~Unresolved(view) /\ ~Pending(view) /\ ~view.stopping
    BY <1>1, <2>1, <2>2 DEF Unresolved, Pending
  <2> HIDE DEF view
  <2> QED BY <1>1, <2>1, <2>2, <2>3, ChangesKeep
<1>6. CASE StopReplies
  <2> DEFINE view == [controller EXCEPT !.phase = "idle", !.capture = None, !.stopping = FALSE,
                                        !.cancelled = FALSE, !.seen = TRUE, !.error = FALSE]
  <2>1. /\ Changes(view) /\ request' \in {request, None}
        /\ node' = [node EXCEPT ![controller.capture] = "closed"]
        /\ link' = link /\ recovering' = recovering /\ controller.phase = "held"
    BY <1>1, <1>6 DEF StopReplies
  <2>2. IsView(view) /\ view.phase = "idle" /\ view.stopping = FALSE
    BY <1>1, <2>1 DEF IsView, View
  <2>3. ~Unresolved(view)
    BY <2>2 DEF Unresolved, Pending
  <2>4. /\ node' \in [Start -> {"unused", "asked", "refused", "open", "closed"}]
        /\ \A s \in Start : node'[s] \in {"asked", "open"} =>
             s # controller.capture /\ node'[s] = node[s]
    BY <1>1, <2>1
  <2> HIDE DEF view
  <2> QED BY <1>1, <2>1, <2>2, <2>3, <2>4, ChangesKeep
<1>7. CASE StopFails
  <2> DEFINE view == [controller EXCEPT !.stopping = FALSE, !.cancelled = FALSE, !.seen = TRUE,
                                        !.error = TRUE]
  <2>1. /\ Changes(view) /\ request' \in {request, None}
        /\ node' \in {node, [node EXCEPT ![controller.capture] = "closed"]}
        /\ link' = link /\ recovering' = recovering /\ controller.phase = "held"
    BY <1>1, <1>7 DEF StopFails
  <2>2. IsView(view) /\ view.phase = "held" /\ view.capture = controller.capture
    BY <1>1, <2>1 DEF IsView, View
  <2>3. Unresolved(controller)
    BY <2>1 DEF Unresolved
  <2>4. /\ node' \in [Start -> {"unused", "asked", "refused", "open", "closed"}]
        /\ \A s \in Start : node'[s] \in {"asked", "open"} => node'[s] = node[s]
    BY <1>1, <2>1
  <2> HIDE DEF view
  <2> QED BY <1>1, <2>1, <2>2, <2>3, <2>4, ChangesKeep
<1>8. CASE PollReads
  <2>1. PICK ended \in BOOLEAN :
          /\ ended => \/ controller.phase = "held" /\ node[controller.capture] = "closed"
                      \/ controller.phase = "doubt"
          /\ Changes([controller EXCEPT !.seen = TRUE, !.error = FALSE,
                                        !.phase = IF ended THEN "idle" ELSE @,
                                        !.capture = IF ended THEN None ELSE @])
    BY <1>8 DEF PollReads
  <2>2. /\ ~Pending(controller) /\ ~controller.stopping
        /\ node' = node /\ link' = link /\ request' = request /\ recovering' = recovering
    BY <1>8 DEF PollReads
  <2>3. CASE ended
    <3> DEFINE view == [controller EXCEPT !.seen = TRUE, !.error = FALSE, !.phase = "idle",
                                          !.capture = None]
    <3>1. Changes(view)
      BY <2>1, <2>3
    <3>2. IsView(view) /\ view.phase = "idle" /\ view.stopping = controller.stopping
      BY <1>1, <2>1, <2>3 DEF IsView, View
    <3>3. ~Unresolved(view)
      BY <3>2 DEF Unresolved, Pending
    <3>4. \A s \in Start : node[s] \in {"asked", "open"} => controller.capture # s
      BY <1>1, <1>2, <2>1, <2>3 DEF IsView
    <3> HIDE DEF view
    <3> QED BY <1>1, <2>2, <3>1, <3>2, <3>3, <3>4, ChangesKeep
  <2>4. CASE ~ended
    <3> DEFINE view == [controller EXCEPT !.seen = TRUE, !.error = FALSE,
                                          !.phase = controller.phase, !.capture = controller.capture]
    <3>1. Changes(view)
      BY <2>1, <2>4
    <3>2. /\ IsView(view) /\ view.phase = controller.phase /\ view.stopping = controller.stopping
          /\ view.capture = controller.capture /\ view.cancelled = controller.cancelled
      BY <1>1, <2>1 DEF IsView, View
    <3>3. Unresolved(view) => Unresolved(controller)
      BY <3>2 DEF Unresolved, Pending
    <3> HIDE DEF view
    <3> QED BY <1>1, <2>2, <3>1, <3>2, <3>3, ChangesKeep
  <2> QED BY <2>3, <2>4
<1>9. CASE ListReads
  <2>1. PICK view \in {[controller EXCEPT !.seen = TRUE], [controller EXCEPT !.error = TRUE]} :
          Changes(view)
    BY <1>9 DEF ListReads
  <2>2. node' = node /\ link' = link /\ request' = request /\ recovering' = recovering
    BY <1>9 DEF ListReads
  <2>3. /\ IsView(view) /\ view.phase = controller.phase /\ view.stopping = controller.stopping
        /\ view.capture = controller.capture /\ view.cancelled = controller.cancelled
    <3>1. CASE view = [controller EXCEPT !.seen = TRUE]
      BY <1>1, <3>1 DEF IsView, View
    <3>2. CASE view = [controller EXCEPT !.error = TRUE]
      BY <1>1, <3>2 DEF IsView, View
    <3> QED BY <2>1, <3>1, <3>2
  <2>4. Unresolved(view) => Unresolved(controller)
    BY <2>3 DEF Unresolved, Pending
  <2> QED BY <1>1, <2>1, <2>2, <2>3, <2>4, ChangesKeep
<1>10. CASE \E c \in Conversation : CameraStop(c)
  <2>1. /\ node' = node /\ link' = link /\ request' = request /\ recovering' = recovering
        /\ \/ /\ controller.phase \in {"waiting", "asked"}
              /\ Changes([controller EXCEPT !.cancelled = TRUE])
           \/ /\ controller.phase = "held"
              /\ Changes([controller EXCEPT !.stopping = TRUE])
    BY <1>10 DEF CameraStop
  <2>2. PICK view \in {[controller EXCEPT !.cancelled = TRUE], [controller EXCEPT !.stopping = TRUE]} :
          /\ Changes(view)
          /\ controller.phase \in {"waiting", "asked", "held"}
          /\ view.stopping => controller.phase = "held"
    <3>1. CASE controller.phase \in {"waiting", "asked"}
      <4>1. [controller EXCEPT !.cancelled = TRUE].stopping = controller.stopping
        BY <1>1 DEF IsView, View
      <4> QED BY <1>1, <2>1, <3>1, <4>1
    <3>2. CASE controller.phase = "held"
      BY <2>1, <3>2
    <3> QED BY <2>1, <3>1, <3>2
  <2>3. /\ IsView(view) /\ view.phase = controller.phase /\ view.capture = controller.capture
    BY <1>1, <2>2 DEF IsView, View
  <2>4. Unresolved(controller)
    BY <2>2 DEF Unresolved, Pending
  <2> QED BY <1>1, <2>1, <2>2, <2>3, <2>4, ChangesKeep
<1> QED BY <1>3, <1>4, <1>5, <1>6, <1>7, <1>8, <1>9, <1>10

-----------------------------------------------------------------------------
(* Steps of the Node, of requests and of the link                          *)

\* A step that takes nothing from the journal, starts nothing at the Node and leaves the
\* capture of the controller.
LEMMA QuietKeeps ==
  ASSUME IInv,
         records \subseteq records', disk \subseteq disk', SavedInv',
         records' \in SUBSET Record, disk' \in SUBSET Record, failed' \in BOOLEAN,
         IsView(controller)', controller'.capture = controller.capture,
         controller'.phase \in {"waiting", "asked"} => controller.phase \in {"waiting", "asked"},
         node' \in [Start -> {"unused", "asked", "refused", "open", "closed"}],
         \A s \in Start : node'[s] \in {"asked", "open"} => node[s] \in {"asked", "open"},
         link' \in [status : {"none", "connected", "offline"}, busy : {"no", "connecting", "leaving"}],
         request' \in Conversation \cup {None}, recovering' \in Record \cup {None},
         ActingInv'
  PROVE  IInv'
<1>1. TypeOK'
  BY DEF IInv, TypeOK, IsView
<1>2. WrittenInv'
  BY DEF IInv, WrittenInv
<1>3. CoveredInv'
  BY DEF IInv, CoveredInv, NeedsRecovery
<1>4. RunningIsOnDisk'
  BY DEF IInv, RunningIsOnDisk
<1> QED BY <1>1, <1>2, <1>3, <1>4 DEF IInv

\* The same with the journal and the controller as they were.
LEMMA StillKeeps ==
  ASSUME IInv, UNCHANGED journal, controller' = controller,
         node' \in [Start -> {"unused", "asked", "refused", "open", "closed"}],
         \A s \in Start : node'[s] \in {"asked", "open"} => node[s] \in {"asked", "open"},
         link' \in [status : {"none", "connected", "offline"}, busy : {"no", "connecting", "leaving"}],
         link'.busy = "leaving" => link.busy = "leaving",
         request' \in Conversation \cup {None}, recovering' \in Record \cup {None},
         recovering' # None => recovering'.recovered /\ recovering'.capture # None
  PROVE  IInv'
<1>1. records' = records /\ disk' = disk /\ failed' = failed
  BY DEF journal
<1>2. SavedInv' /\ ActingInv'
  BY <1>1 DEF IInv, SavedInv, ActingInv
<1>3. /\ records' \in SUBSET Record /\ disk' \in SUBSET Record /\ failed' \in BOOLEAN
      /\ IsView(controller)'
  BY <1>1 DEF IInv, TypeOK, IsView
<1> QED BY <1>1, <1>2, <1>3, QuietKeeps

\* What the Node does by itself, and a link that is asked for, dropped, found again or kept.
LEMMA NodeKeeps ==
  ASSUME IInv, \/ \E s \in Start : NodeOpens(s) \/ NodeRefuses(s) \/ NodeCloses(s)
               \/ RequestEnds \/ (\E c \in Conversation : StopRecovered(c))
               \/ Connect \/ Drops \/ Returns \/ LinkFails
  PROVE  IInv'
<1>1. /\ node \in [Start -> {"unused", "asked", "refused", "open", "closed"}]
      /\ link \in [status : {"none", "connected", "offline"}, busy : {"no", "connecting", "leaving"}]
      /\ request \in Conversation \cup {None} /\ recovering \in Record \cup {None}
      /\ records \in SUBSET Record
      /\ recovering # None => recovering.recovered /\ recovering.capture # None
  BY DEF IInv, TypeOK, ActingInv
<1>2. CASE \E s \in Start : NodeOpens(s) \/ NodeRefuses(s) \/ NodeCloses(s)
  <2>1. PICK s \in Start, to \in {"open", "refused", "closed"} :
          node[s] \in {"asked", "open"} /\ node' = [node EXCEPT ![s] = to]
    BY <1>2 DEF NodeOpens, NodeRefuses, NodeCloses
  <2>2. UNCHANGED <<journal, link, request, controller, recovering>>
    BY <1>2 DEF NodeOpens, NodeRefuses, NodeCloses
  <2>3. /\ node' \in [Start -> {"unused", "asked", "refused", "open", "closed"}]
        /\ \A q \in Start : node'[q] \in {"asked", "open"} => node[q] \in {"asked", "open"}
    BY <1>1, <2>1
  <2> QED BY <1>1, <2>2, <2>3, StillKeeps
<1>3. CASE RequestEnds
  BY <1>1, <1>3, StillKeeps DEF RequestEnds
<1>4. CASE \E c \in Conversation : StopRecovered(c)
  <2>1. PICK r \in records : r.recovered /\ r.capture # None /\ recovering' = r
    BY <1>4 DEF StopRecovered
  <2>2. UNCHANGED <<node, journal, link, request, controller>>
    BY <1>4 DEF StopRecovered
  <2> QED BY <1>1, <2>1, <2>2, StillKeeps
<1>5. CASE Connect \/ Drops \/ Returns \/ LinkFails
  <2>1. UNCHANGED <<node, journal, request, controller, recovering>>
    BY <1>5 DEF Connect, Drops, Returns, LinkFails
  <2>2. /\ link' \in [status : {"none", "connected", "offline"}, busy : {"no", "connecting", "leaving"}]
        /\ link'.busy = "leaving" => link.busy = "leaving"
    BY <1>1, <1>5 DEF Connect, Drops, Returns, LinkFails
  <2> QED BY <1>1, <2>1, <2>2, StillKeeps
<1> QED BY <1>2, <1>3, <1>4, <1>5

\* The controller that a request finds or creates has the capture of the one before.
LEMMA TakenFacts ==
  ASSUME IInv, NEW c \in Conversation, Admitted(c)
  PROVE  /\ IsView(Taken(c)) /\ Taken(c).capture = controller.capture
         /\ Taken(c).phase \in {"waiting", "asked", "held"} => Taken(c) = controller
         /\ Taken(c).stopping => Taken(c).phase = "held"
         /\ Taken(c).phase = "idle" => controller.capture = None
         /\ ~failed /\ link.busy # "leaving"
<1>0. None \notin Conversation
  BY DeviceAssumption
<1>1. IsView(controller) /\ (controller.stopping => controller.phase = "held")
  BY DEF IInv, TypeOK, ActingInv, IsView
<1>2. ~failed /\ link.busy # "leaving" /\ (controller.owner = c \/ ~Unresolved(controller))
  BY DEF Admitted
<1>3. CASE controller.owner = c
  BY <1>1, <1>2, <1>3 DEF Taken, IsView
<1>4. CASE controller.owner # c
  <2>1. Taken(c) = New(c)
    BY <1>4 DEF Taken
  <2>2. /\ IsView(New(c)) /\ New(c).capture = None /\ New(c).phase = "idle"
        /\ New(c).stopping = FALSE
    BY <1>0 DEF New, NoController, IsView, View
  <2>3. controller.capture = None
    BY <1>1, <1>2, <1>4 DEF IsView, Unresolved, Pending
  <2> QED BY <1>2, <2>1, <2>2, <2>3
<1> QED BY <1>3, <1>4

\* A request changes who holds the controller, at most.
LEMMA RequestKeeps ==
  ASSUME IInv, NEW c \in Conversation, Request(c)
  PROVE  IInv'
<1>1. /\ Admitted(c) /\ controller' = Taken(c) /\ request' = c
      /\ node' = node /\ link' = link /\ recovering' = recovering
      /\ records' = records /\ disk' = disk /\ failed' = failed
  BY DEF Request, journal
<1>2. /\ IsView(Taken(c)) /\ Taken(c).capture = controller.capture
      /\ Taken(c).phase \in {"waiting", "asked", "held"} => Taken(c) = controller
      /\ Taken(c).stopping => Taken(c).phase = "held"
      /\ link.busy # "leaving"
  BY <1>1, TakenFacts
<1>3. SavedInv' /\ ActingInv'
  BY <1>1, <1>2 DEF IInv, SavedInv, ActingInv
<1>4. /\ records' \in SUBSET Record /\ disk' \in SUBSET Record /\ failed' \in BOOLEAN
      /\ node' \in [Start -> {"unused", "asked", "refused", "open", "closed"}]
      /\ link' \in [status : {"none", "connected", "offline"}, busy : {"no", "connecting", "leaving"}]
      /\ recovering' \in Record \cup {None} /\ request' \in Conversation \cup {None}
      /\ IsView(controller)'
  BY <1>1, <1>2 DEF IInv, TypeOK, IsView
<1> QED BY <1>1, <1>2, <1>3, <1>4, QuietKeeps

\* A start is on disk before it goes out.
LEMMA CameraStartKeeps ==
  ASSUME IInv, NEW c \in Conversation, CameraStart(c)
  PROVE  IInv'
<1> DEFINE written == records \cup {Unnamed(c)}
<1>1. /\ Admitted(c) /\ node' = node /\ link' = link /\ recovering' = recovering
  BY DEF CameraStart
<1>2. /\ IsView(Taken(c)) /\ Taken(c).capture = controller.capture
      /\ Taken(c).phase \in {"waiting", "asked", "held"} => Taken(c) = controller
      /\ Taken(c).stopping => Taken(c).phase = "held"
      /\ Taken(c).phase = "idle" => controller.capture = None
      /\ ~failed /\ link.busy # "leaving"
  BY <1>1, TakenFacts
<1>3. /\ Unnamed(c) \in Record /\ Unnamed(c).capture = None
  BY DEF Unnamed, Record
<1>4. /\ records \in SUBSET Record /\ disk = records
      /\ node \in [Start -> {"unused", "asked", "refused", "open", "closed"}]
      /\ link \in [status : {"none", "connected", "offline"}, busy : {"no", "connecting", "leaving"}]
      /\ recovering \in Record \cup {None} /\ request \in Conversation \cup {None}
  BY <1>2 DEF IInv, TypeOK, SavedInv
<1>5. written \in SUBSET Record /\ records \subseteq written
  BY <1>3, <1>4
<1>6. CASE Saves(written) /\ controller' = Taken(c) /\ UNCHANGED request
  <2> HIDE DEF written
  <2>1. /\ records' = written /\ disk' \in SUBSET Record /\ failed' \in BOOLEAN
        /\ (disk' = written /\ ~failed') \/ (disk' = disk /\ failed')
    BY <1>5, <1>6, SavesFacts
  <2>2. SavedInv'
    BY <2>1 DEF SavedInv
  <2>3. ActingInv' /\ IsView(controller)'
    BY <1>1, <1>2, <1>6 DEF IInv, ActingInv, IsView
  <2> QED BY <1>1, <1>2, <1>4, <1>5, <1>6, <2>1, <2>2, <2>3, QuietKeeps
<1>7. CASE /\ MayStart(Taken(c))
           /\ controller' = Waiting(Taken(c))
           /\ records' = Rewritten(written, controller')
           /\ \/ disk' = records' /\ failed' = FALSE
              \/ disk' = written /\ failed' = TRUE
           /\ request' = c
  <2>1. PICK view : view = Waiting(Taken(c))
    OBVIOUS
  <2>2. /\ IsView(view) /\ view.phase = "waiting" /\ view.capture = None /\ ~view.stopping
        /\ controller.capture = None
    BY <1>2, <1>7, <2>1 DEF Waiting, MayStart, IsView, View
  <2>3. controller' = view /\ records' = Rewritten(written, view)
    BY <1>7, <2>1
  <2>4. /\ records' \in SUBSET Record
        /\ \A r \in written : NeedsRecovery(r) => r \in records'
        /\ \E r \in records' : r.capture = None
    <3> HIDE DEF written
    <3> QED BY <1>5, <2>2, <2>3, RewrittenFacts
  <2>5. \E r \in written : r.capture = None
    BY <1>3
  <2> HIDE DEF written
  <2>6. /\ disk' \in SUBSET Record /\ failed' \in BOOLEAN /\ SavedInv'
        /\ disk' = records' \/ disk' = written
    BY <1>5, <1>7, <2>4 DEF SavedInv
  <2>7. TypeOK'
    BY <1>1, <1>4, <1>7, <2>2, <2>3, <2>4, <2>6 DEF TypeOK, IsView
  <2>8. WrittenInv'
    BY <2>4, <2>5, <2>6 DEF WrittenInv
  <2>9. ActingInv'
    BY <1>1, <1>2, <2>2, <2>3 DEF IInv, ActingInv
  <2>10. CoveredInv'
    <3> SUFFICES ASSUME NEW s \in Start, node[s] \in {"asked", "open"}
                 PROVE  \E r \in records' : NeedsRecovery(r) /\ r.capture \in {s, None}
      BY <1>1 DEF CoveredInv, NeedsRecovery
    <3>1. s # None
      BY DeviceAssumption DEF Start
    <3>2. PICK r \in records : NeedsRecovery(r) /\ r.capture \in {s, None}
      BY <2>2, <3>1 DEF IInv, CoveredInv
    <3> QED BY <1>5, <2>4, <3>2
  <2>11. RunningIsOnDisk'
    BY <1>1, <2>4, <2>5, <2>6 DEF RunningIsOnDisk
  <2> QED BY <2>6, <2>7, <2>8, <2>9, <2>10, <2>11 DEF IInv
<1> QED BY <1>6, <1>7 DEF CameraStart

-----------------------------------------------------------------------------
(* Recovery, the connection and the service                                *)

\* A record is released with the capture it names, and covers no other.
LEMMA RecoveredKeeps ==
  ASSUME IInv, RecoveredEnds
  PROVE  IInv'
<1> DEFINE named == recovering.capture
<1>0. None \notin Nat
  BY DeviceAssumption
<1>1. /\ recovering \in Record /\ named \in Start /\ recovering' = None
      /\ link' = link /\ request' = request /\ controller' = controller
  BY DEF RecoveredEnds, IInv, TypeOK, ActingInv, Record
<1>2. /\ node \in [Start -> {"unused", "asked", "refused", "open", "closed"}]
      /\ records \in SUBSET Record /\ disk \in SUBSET Record /\ failed \in BOOLEAN
      /\ link \in [status : {"none", "connected", "offline"}, busy : {"no", "connecting", "leaving"}]
      /\ request \in Conversation \cup {None}
  BY DEF IInv, TypeOK
<1>3. CASE UNCHANGED journal
  <2>1. node' \in {node, [node EXCEPT ![named] = "closed"]}
    BY <1>3 DEF RecoveredEnds
  <2>2. /\ node' \in [Start -> {"unused", "asked", "refused", "open", "closed"}]
        /\ \A s \in Start : node'[s] \in {"asked", "open"} => node[s] \in {"asked", "open"}
    BY <1>1, <1>2, <2>1
  <2> QED BY <1>1, <1>2, <1>3, <2>2, StillKeeps
<1>4. CASE /\ node' = [node EXCEPT ![named] = "closed"]
           /\ IF failed THEN records' = records \ {recovering} /\ UNCHANGED <<disk, failed>>
                        ELSE Saves(records \ {recovering})
  <2>1. /\ node' \in [Start -> {"unused", "asked", "refused", "open", "closed"}]
        /\ \A s \in Start : node'[s] \in {"asked", "open"} =>
             node[s] \in {"asked", "open"} /\ s # named
    BY <1>1, <1>2, <1>4
  <2>2. /\ records' = records \ {recovering} /\ disk' \in SUBSET Record /\ failed' \in BOOLEAN
        /\ disk' = disk \/ (disk = records /\ disk' = records')
        /\ SavedInv'
    <3>1. CASE failed
      BY <1>2, <1>4, <3>1 DEF SavedInv
    <3>2. CASE ~failed
      <4>1. Saves(records \ {recovering}) /\ disk = records
        BY <1>4, <3>2 DEF IInv, SavedInv
      <4>2. records \ {recovering} \in SUBSET Record
        BY <1>2
      <4>3. /\ records' = records \ {recovering} /\ disk' \in SUBSET Record /\ failed' \in BOOLEAN
            /\ (disk' = records \ {recovering} /\ ~failed') \/ (disk' = disk /\ failed')
        BY <4>1, <4>2, SavesFacts
      <4> QED BY <4>1, <4>3 DEF SavedInv
    <3> QED BY <1>2, <3>1, <3>2
  <2>3. named # None
    BY <1>0, <1>1 DEF Start
  <2>4. TypeOK'
    BY <1>1, <1>2, <2>1, <2>2 DEF IInv, TypeOK
  <2>5. WrittenInv'
    BY <1>1, <2>2, <2>3 DEF IInv, WrittenInv
  <2>6. ActingInv'
    BY <1>1 DEF IInv, ActingInv
  <2>7. CoveredInv'
    BY <1>1, <2>1, <2>2, <2>3 DEF IInv, CoveredInv, NeedsRecovery
  <2>8. RunningIsOnDisk'
    <3> SUFFICES ASSUME NEW s \in Start, node'[s] \in {"asked", "open"}
                 PROVE  \E r \in disk' : r.capture \in {s, None}
      BY DEF RunningIsOnDisk
    <3>1. PICK r \in disk : r.capture \in {s, None}
      BY <2>1 DEF IInv, RunningIsOnDisk
    <3>2. r # recovering
      BY <2>1, <2>3, <3>1
    <3> QED BY <2>2, <3>1, <3>2
  <2> QED BY <2>2, <2>4, <2>5, <2>6, <2>7, <2>8 DEF IInv
<1> QED BY <1>3, <1>4 DEF RecoveredEnds

\* Connecting saves the journal it has; disconnecting disposes a controller that owns
\* nothing, and forgets it.
LEMMA LinkKeeps ==
  ASSUME IInv, Connected \/ Disconnect \/ Leaves
  PROVE  IInv'
<1>1. /\ records \in SUBSET Record /\ disk \in SUBSET Record /\ failed \in BOOLEAN
      /\ node \in [Start -> {"unused", "asked", "refused", "open", "closed"}]
      /\ link \in [status : {"none", "connected", "offline"}, busy : {"no", "connecting", "leaving"}]
      /\ request \in Conversation \cup {None} /\ recovering \in Record \cup {None}
      /\ IsView(controller)
  BY DEF IInv, TypeOK, IsView
<1>2. node' = node /\ request' = request /\ recovering' = recovering
  BY DEF Connected, Disconnect, Leaves
<1>3. Saves(records) \/ UNCHANGED journal
  BY DEF Connected, Disconnect, Leaves
<1>4. /\ records' = records /\ disk' \in SUBSET Record /\ failed' \in BOOLEAN
      /\ disk \subseteq disk' /\ SavedInv'
  <2>1. CASE Saves(records)
    <3>1. /\ records' = records /\ disk' \in SUBSET Record /\ failed' \in BOOLEAN
          /\ (disk' = records /\ ~failed') \/ (disk' = disk /\ failed')
      BY <1>1, <2>1, SavesFacts
    <3>2. ~failed' => disk = records
      BY <2>1 DEF Saves, IInv, SavedInv
    <3> QED BY <3>1, <3>2 DEF SavedInv
  <2>2. CASE UNCHANGED journal
    BY <1>1, <2>2 DEF journal, IInv, SavedInv
  <2> QED BY <1>3, <2>1, <2>2
<1>5. CASE Connected
  <2>1. /\ controller' = controller /\ link' \in [status : {"none", "connected", "offline"},
                                                busy : {"no", "connecting", "leaving"}]
        /\ link'.busy = "no"
    BY <1>1, <1>5 DEF Connected
  <2>2. ActingInv'
    BY <1>2, <2>1 DEF IInv, ActingInv
  <2> QED BY <1>1, <1>2, <1>4, <2>1, <2>2, QuietKeeps DEF IsView
<1>6. CASE Disconnect
  <2>1. /\ controller' = [controller EXCEPT !.live = FALSE] /\ ~Unresolved(controller)
        /\ link' \in [status : {"none", "connected", "offline"}, busy : {"no", "connecting", "leaving"}]
    BY <1>1, <1>6 DEF Disconnect
  <2>2. /\ IsView(controller)' /\ controller'.capture = controller.capture
        /\ controller'.phase = controller.phase /\ controller'.stopping = controller.stopping
        /\ controller'.cancelled = controller.cancelled
    BY <1>1, <2>1 DEF IsView, View
  <2>3. ActingInv'
    BY <1>2, <2>1, <2>2 DEF IInv, ActingInv, Unresolved, Pending
  <2> QED BY <1>1, <1>2, <1>4, <2>1, <2>2, <2>3, QuietKeeps
<1>7. CASE Leaves
  <2>1. controller' = NoController /\ link' = NoLink /\ ~Unresolved(controller)
    BY <1>7 DEF Leaves, IInv, ActingInv
  <2>2. /\ IsView(controller)' /\ controller'.capture = None /\ controller'.phase = "none"
        /\ controller'.stopping = FALSE
        /\ link' \in [status : {"none", "connected", "offline"}, busy : {"no", "connecting", "leaving"}]
        /\ link'.busy = "no"
    BY <2>1 DEF NoController, NoLink, IsView, View
  <2>3. controller.capture = None
    BY <1>1, <2>1 DEF IsView, Unresolved, Pending
  <2>4. ActingInv'
    BY <1>2, <2>2 DEF IInv, ActingInv
  <2> QED BY <1>1, <1>2, <1>4, <2>2, <2>3, <2>4, QuietKeeps
<1> QED BY <1>5, <1>6, <1>7

\* After a restart whatever may be running is in the store as something to recover.
LEMMA RestartKeeps ==
  ASSUME IInv, Restart
  PROVE  IInv'
<1>0. None \notin Nat
  BY DeviceAssumption
<1>1. /\ records' = {[r EXCEPT !.recovered = TRUE] : r \in disk} /\ disk' = records'
      /\ failed' = FALSE /\ link' = NoLink /\ request' = None /\ controller' = NoController
      /\ recovering' = None /\ node' = node
  BY DEF Restart
<1>2. \A r \in disk : /\ [r EXCEPT !.recovered = TRUE] \in Record
                    /\ [r EXCEPT !.recovered = TRUE].recovered = TRUE
                    /\ [r EXCEPT !.recovered = TRUE].capture = r.capture
  <2>1. disk \subseteq Record
    BY DEF IInv, TypeOK
  <2> QED BY <2>1 DEF Record
<1>3. /\ controller'.phase = "none" /\ controller'.stopping = FALSE /\ IsView(controller)'
      /\ link' \in [status : {"none", "connected", "offline"}, busy : {"no", "connecting", "leaving"}]
      /\ link'.busy = "no"
  BY <1>1 DEF NoController, NoLink, IsView, View
<1>4. TypeOK'
  <2>1. records' \subseteq Record
    BY <1>1, <1>2
  <2> QED BY <1>1, <1>3, <2>1 DEF IInv, TypeOK, IsView
<1>5. SavedInv' /\ WrittenInv' /\ ActingInv'
  BY <1>1, <1>3 DEF SavedInv, WrittenInv, ActingInv
<1>6. ASSUME NEW s \in Start, node[s] \in {"asked", "open"}
      PROVE  \E r \in records' : NeedsRecovery(r) /\ r.capture \in {s, None}
  <2>1. PICK r \in disk : r.capture \in {s, None}
    BY <1>6 DEF IInv, RunningIsOnDisk
  <2>2. [r EXCEPT !.recovered = TRUE] \in records'
    BY <1>1
  <2> QED BY <1>2, <2>1, <2>2 DEF NeedsRecovery
<1>7. CoveredInv' /\ RunningIsOnDisk'
  BY <1>1, <1>6 DEF CoveredInv, RunningIsOnDisk, NeedsRecovery
<1> QED BY <1>4, <1>5, <1>7 DEF IInv

-----------------------------------------------------------------------------
(* The invariant                                                           *)

\* The service starts with nothing owned.
LEMMA InitInv == Init => IInv
<1> SUFFICES ASSUME Init PROVE IInv
  OBVIOUS
<1>1. IsView(NoController) /\ NoController.phase = "none" /\ NoController.stopping = FALSE
  BY DEF IsView, View, NoController
<1>2. NoLink \in [status : {"none", "connected", "offline"}, busy : {"no", "connecting", "leaving"}]
  BY DEF NoLink
<1>3. TypeOK
  BY <1>1, <1>2 DEF Init, TypeOK, IsView
<1>4. SavedInv /\ WrittenInv /\ CoveredInv /\ RunningIsOnDisk
  BY <1>1 DEF Init, SavedInv, WrittenInv, CoveredInv, RunningIsOnDisk
<1>5. ActingInv
  BY <1>1 DEF Init, ActingInv, NoLink
<1> QED BY <1>3, <1>4, <1>5 DEF IInv

\* No step of the service, its controllers, the Node or the process breaks it.
LEMMA NextInv == IInv /\ [Next]_vars => IInv'
<1> SUFFICES ASSUME IInv, [Next]_vars PROVE IInv'
  OBVIOUS
<1>1. CASE \E c \in Conversation : Request(c) \/ CameraStart(c)
  BY <1>1, RequestKeeps, CameraStartKeeps
<1>2. CASE \/ Sends \/ StartReplies \/ StartFails \/ StopReplies \/ StopFails
           \/ PollReads \/ ListReads \/ \E c \in Conversation : CameraStop(c)
  BY <1>2, ControllerKeeps
<1>3. CASE \/ \E s \in Start : NodeOpens(s) \/ NodeRefuses(s) \/ NodeCloses(s)
           \/ RequestEnds \/ (\E c \in Conversation : StopRecovered(c))
           \/ Connect \/ Drops \/ Returns \/ LinkFails
  BY <1>3, NodeKeeps
<1>4. CASE RecoveredEnds
  BY <1>4, RecoveredKeeps
<1>5. CASE Connected \/ Disconnect \/ Leaves
  BY <1>5, LinkKeeps
<1>6. CASE Restart
  BY <1>6, RestartKeeps
<1>7. CASE UNCHANGED vars
  BY <1>7 DEF IInv, TypeOK, SavedInv, WrittenInv, ActingInv, CoveredInv, RunningIsOnDisk,
              vars, journal, NeedsRecovery, Unresolved, Pending
<1> QED BY <1>1, <1>2, <1>3, <1>4, <1>5, <1>6, <1>7 DEF Next

\* The invariant holds in every state the service reaches.
THEOREM Invariance == Spec => []IInv
<1>1. Init => IInv
  BY InitInv
<1>2. IInv /\ [Next]_vars => IInv'
  BY NextInv
<1> QED BY <1>1, <1>2, PTL DEF Spec

\* Every variable keeps its type.
THEOREM TypeCorrect == Spec => []TypeOK
<1>1. IInv => TypeOK
  BY DEF IInv
<1> QED BY <1>1, Invariance, PTL

\* Whatever may be running at the Node because of this service is in its store, by name or
\* as a request without one, at every moment at which it could crash.
THEOREM RunningIsRecorded == Spec => []RunningIsOnDisk
<1>1. IInv => RunningIsOnDisk
  BY DEF IInv
<1> QED BY <1>1, Invariance, PTL

\* A running capture that the store names is held by a controller, where Stop finds it, or
\* it keeps every conversation of the project from a controller.
THEOREM NamedIsNeverForgotten == Spec => []NamedIsHeldOrBlocks
<1>1. IInv => NamedIsHeldOrBlocks
  BY DEF IInv, CoveredInv, NamedIsHeldOrBlocks, Blocked
<1> QED BY <1>1, Invariance, PTL

\* It is so even where the store failed, or names no capture yet.
THEOREM RunningIsHeldOrBlocks ==
  Spec => [](\A s \in Start : node[s] \in {"asked", "open"} => controller.capture = s \/ Blocked)
<1>1. IInv => \A s \in Start : node[s] \in {"asked", "open"} => controller.capture = s \/ Blocked
  BY DEF IInv, CoveredInv, Blocked
<1> QED BY <1>1, Invariance, PTL

-----------------------------------------------------------------------------
(* The store is a ledger                                                   *)

\* What waits or was asked is in the journal as a request of the conversation that owns
\* the controller, and what is held under its name.
RequestedInv ==
  /\ controller.phase \in {"waiting", "asked"} =>
       \E r \in records : r.capture = None /\ r.conversation = controller.owner
  /\ controller.phase = "held" =>
       \E r \in records : ~r.recovered /\ EntryOf(r) = [conversation |-> controller.owner,
                                                        capture |-> controller.capture]

\* A name in the journal is the held capture or was there before the restart, and never
\* that of a capture without an answer.
NamedInv ==
  /\ \A r \in records : r.capture # None /\ ~r.recovered =>
       /\ controller.phase = "held"
       /\ EntryOf(r) = [conversation |-> controller.owner, capture |-> controller.capture]
  /\ controller.phase = "asked" => \A r \in records : r.capture # controller.capture

\* What has a name was opened.
OpenedInv ==
  /\ \A r \in records \cup disk : r.capture # None => node[r.capture] \in {"open", "closed"}
  /\ controller.phase = "held" => node[controller.capture] \in {"open", "closed"}
  /\ recovering # None => node[recovering.capture] \in {"open", "closed"}

LInv == RequestedInv /\ NamedInv /\ OpenedInv

\* A step of one capture at the Node.
World == node' = node \/ \E s \in Start : Ledger!Ask(s) \/ Ledger!Answer(s) \/ Ledger!Close(s)

\* What was opened stays so or is closed.
LEMMA WorldFacts ==
  ASSUME IInv, World
  PROVE  \A s \in Start : node[s] \in {"open", "closed"} => node'[s] \in {"open", "closed"}
<1>1. node \in [Start -> {"unused", "asked", "refused", "open", "closed"}]
  BY DEF IInv, TypeOK
<1>2. CASE node' = node
  BY <1>2
<1>3. CASE \E s \in Start : Ledger!Ask(s) \/ Ledger!Answer(s) \/ Ledger!Close(s)
  <2>1. PICK s \in Start, to \in {"asked", "open", "refused", "closed"} :
          /\ node' = [node EXCEPT ![s] = to]
          /\ to = "closed" \/ node[s] \in {"unused", "asked"}
    BY <1>3 DEF Ledger!Ask, Ledger!Answer, Ledger!Close
  <2> QED BY <1>1, <2>1
<1> QED BY <1>2, <1>3 DEF World

\* Closing what was opened is a step of that capture.
LEMMA ClosesIt ==
  ASSUME IInv, NEW s \in Start, node[s] \in {"open", "closed"}, node' = [node EXCEPT ![s] = "closed"]
  PROVE  World /\ node'[s] = "closed"
<1>1. node \in [Start -> {"unused", "asked", "refused", "open", "closed"}]
  BY DEF IInv, TypeOK
<1>2. CASE node[s] = "open"
  BY <1>1, <1>2 DEF World, Ledger!Close
<1>3. CASE node[s] = "closed"
  <2>1. node' = node
    BY <1>1, <1>3
  <2> QED BY <1>3, <2>1 DEF World
<1> QED BY <1>2, <1>3

\* The store is written as the ledger is: at most one entry of it has a new name, and no
\* entry of a capture that stays open is lost.
LEMMA Writes ==
  ASSUME IInv', World, NEW x,
         \A r \in disk' : r.capture # None =>
           EntryOf(r) \in Entries \/ (EntryOf(r) = x /\ Ledger!Names(x)),
         \A r \in disk : r.capture # None /\ node'[r.capture] = "open" => EntryOf(r) \in Entries'
  PROVE  Ledger!LedgerNext
<1>1. /\ \A e \in Entries : \E r \in disk : e = EntryOf(r)
      /\ \A e \in Entries' : \E r \in disk' : e = EntryOf(r)
      /\ \A r \in disk' : EntryOf(r) \in Entries'
  BY DEF Entries
<1>2. \A r : EntryOf(r).conversation = r.conversation /\ EntryOf(r).capture = r.capture
  BY DEF EntryOf
<1>3. Entries' \subseteq Ledger!Entry
  <2>1. disk' \subseteq Record
    BY DEF IInv, TypeOK
  <2>2. \A r \in Record : EntryOf(r) \in Ledger!Entry
    BY DEF EntryOf, Record, Ledger!Entry
  <2> QED BY <1>1, <2>1, <2>2
<1>4. \A e \in Entries' : e.capture = None \/ e \in Entries \/ (e = x /\ Ledger!Names(x))
  BY <1>1, <1>2
<1>5. Ledger!Write
  <2>1. \A e \in Entries' \ Entries : e.capture = None \/ Ledger!Names(e)
    BY <1>4
  <2>2. \A e \in Entries' : Ledger!Names(e) => e = x
    <3>1. \A e : Ledger!Names(e) => e.capture # None /\ e \notin Entries
      BY DEF Ledger!Names
    <3> QED BY <1>4, <3>1
  <2>3. \A e \in Entries : e.capture # None /\ node'[e.capture] = "open" => e \in Entries'
    BY <1>1, <1>2
  <2> QED BY <2>1, <2>2, <2>3 DEF Ledger!Write
<1>6. Ledger!Accounted'
  <2> SUFFICES ASSUME NEW s \in Start, node'[s] \in {"asked", "open"}
               PROVE  \E e \in Entries' : e.capture \in {s, None}
    BY DEF Ledger!Accounted
  <2>1. PICK r \in disk' : r.capture \in {s, None}
    BY DEF IInv, RunningIsOnDisk
  <2> QED BY <1>1, <1>2, <2>1
<1> QED BY <1>3, <1>5, <1>6 DEF Ledger!LedgerNext, World

\* A rewritten journal has the names it had from before a restart, and the held capture.
LEMMA RewrittenNames ==
  ASSUME NEW old \in SUBSET Record, NEW view
  PROVE  /\ \A r \in Rewritten(old, view) : r.capture # None =>
              \/ r \in old /\ r.recovered
              \/ /\ view.phase = "held" /\ ~r.recovered
                 /\ EntryOf(r) = [conversation |-> view.owner, capture |-> view.capture]
         /\ \A r \in old : r.recovered => r \in Rewritten(old, view)
         /\ view.phase \in {"waiting", "asked"} =>
              \E r \in Rewritten(old, view) : r.capture = None /\ r.conversation = view.owner
         /\ view.phase = "held" =>
              \E r \in Rewritten(old, view) :
                ~r.recovered /\ EntryOf(r) = [conversation |-> view.owner, capture |-> view.capture]
<1> DEFINE unnamed == {r \in old : ~NeedsRecovery(r) /\ r.capture = None /\ view.error}
           kept    == {r \in old : NeedsRecovery(r)}
           ended   == {IF Pending(view) THEN r ELSE [r EXCEPT !.unknown = TRUE] : r \in unnamed}
           name    == IF view.phase = "held" THEN view.capture ELSE None
           own     == [conversation |-> view.owner, capture |-> name, unknown |-> ~view.seen,
                       recovered |-> FALSE]
<1>1. Rewritten(old, view) = kept \cup Owned(view) \cup ended
  BY DEF Rewritten
<1>2. \A r \in ended : r.capture = None
  BY DEF Record
<1>3. Owned(view) = IF Unresolved(view) THEN {own} ELSE {}
  BY DEF Owned
<1>4. /\ own.capture = name /\ own.conversation = view.owner /\ ~own.recovered
      /\ EntryOf(own) = [conversation |-> view.owner, capture |-> name]
  BY DEF EntryOf
<1>5. view.phase \in {"waiting", "asked", "held"} => own \in Rewritten(old, view)
  BY <1>1, <1>3 DEF Unresolved, Pending
<1>6. \A r \in kept : r \in old /\ (r.capture # None => r.recovered)
  BY DEF NeedsRecovery
<1>7. \A r \in old : r.recovered => r \in kept
  BY DEF NeedsRecovery
<1> HIDE DEF unnamed, kept, ended, own
<1>8. \A r \in Rewritten(old, view) : r.capture # None =>
        \/ r \in old /\ r.recovered
        \/ /\ view.phase = "held" /\ ~r.recovered
           /\ EntryOf(r) = [conversation |-> view.owner, capture |-> view.capture]
  BY <1>1, <1>2, <1>3, <1>4, <1>6
<1> QED BY <1>1, <1>4, <1>5, <1>7, <1>8

\* What a change of a controller's view leaves in the store.
LEMMA ChangesStore ==
  ASSUME IInv, NEW view, Changes(view)
  PROVE  /\ controller' = view /\ records' = Rewritten(records, view)
         /\ disk' = disk \/ (disk = records /\ disk' = records')
<1>1. controller' = view
  BY DEF Changes
<1>2. CASE Rewritten(records, view) = records
  <2>1. UNCHANGED journal
    BY <1>2 DEF Changes
  <2> QED BY <1>1, <1>2, <2>1 DEF journal
<1>3. CASE Rewritten(records, view) # records
  <2>1. Saves(Rewritten(records, view))
    BY <1>3 DEF Changes
  <2> QED BY <1>1, <2>1 DEF Saves, IInv, SavedInv
<1> QED BY <1>2, <1>3

\* A change of a controller's view writes the store as the ledger is written: a capture is
\* held after it was asked for, and let go when it is not open any more.
LEMMA ChangesWrite ==
  ASSUME IInv, IInv', LInv, NEW view, Changes(view), World, recovering' = recovering,
         view.phase = "held" =>
           /\ controller.phase \in {"asked", "held"}
           /\ view.capture = controller.capture /\ view.owner = controller.owner
           /\ node[view.capture] \in {"open", "closed"},
         controller.phase = "held" /\ node'[controller.capture] = "open" => view.phase = "held",
         view.phase = "asked" => \/ controller.phase = "asked" /\ view.capture = controller.capture
                                 \/ node[view.capture] = "unused"
  PROVE  LInv' /\ Ledger!LedgerNext
<1>0. None \notin Nat
  BY DeviceAssumption
<1>1. /\ controller' = view /\ records' = Rewritten(records, view)
      /\ disk' = disk \/ (disk = records /\ disk' = records')
  BY ChangesStore
<1>2. records \in SUBSET Record /\ disk \in SUBSET Record
  BY DEF IInv, TypeOK
<1>3. /\ \A r \in records' : r.capture # None =>
           \/ r \in records /\ r.recovered
           \/ /\ view.phase = "held" /\ ~r.recovered
              /\ EntryOf(r) = [conversation |-> view.owner, capture |-> view.capture]
      /\ \A r \in records : r.recovered => r \in records'
      /\ view.phase \in {"waiting", "asked"} =>
           \E r \in records' : r.capture = None /\ r.conversation = view.owner
      /\ view.phase = "held" =>
           \E r \in records' :
             ~r.recovered /\ EntryOf(r) = [conversation |-> view.owner, capture |-> view.capture]
  BY <1>1, <1>2, RewrittenNames
<1>4. \A s \in Start : node[s] \in {"open", "closed"} => node'[s] \in {"open", "closed"}
  BY WorldFacts
<1>5. \A r : EntryOf(r).conversation = r.conversation /\ EntryOf(r).capture = r.capture
  BY DEF EntryOf
<1>6. /\ view.phase = "held" => view.capture \in Start
      /\ \A r \in Record : r.capture # None => r.capture \in Start
      /\ recovering # None => recovering \in Record /\ recovering.capture # None
  BY DEF IInv, TypeOK, ActingInv, View, Record
<1>7. RequestedInv'
  <2>1. view.phase \in {"waiting", "asked"} =>
          \E r \in records' : r.capture = None /\ r.conversation = view.owner
    BY <1>3
  <2> QED BY <1>1, <1>3, <2>1 DEF RequestedInv, EntryOf
<1>8. NamedInv'
  <2>1. \A r \in records' : r.capture # None /\ ~r.recovered =>
          /\ view.phase = "held"
          /\ EntryOf(r) = [conversation |-> view.owner, capture |-> view.capture]
    BY <1>3
  <2>2. ASSUME view.phase = "asked", NEW r \in records', r.capture = view.capture
        PROVE  FALSE
    <3>1. view.capture # None
      BY <1>1, <2>2 DEF IInv, TypeOK
    <3>2. r \in records /\ r.capture # None
      BY <1>3, <2>2, <3>1
    <3> QED BY <2>2, <3>2 DEF LInv, NamedInv, OpenedInv
  <2> QED BY <1>1, <2>1, <2>2 DEF NamedInv, EntryOf
<1>9. OpenedInv'
  <2>1. \A r \in records \cup disk : r.capture # None => node'[r.capture] \in {"open", "closed"}
    BY <1>2, <1>4, <1>6 DEF LInv, OpenedInv
  <2>2. view.phase = "held" => node'[view.capture] \in {"open", "closed"}
    BY <1>4, <1>6
  <2>3. \A r \in records' : r.capture # None => node'[r.capture] \in {"open", "closed"}
    BY <1>3, <1>5, <2>1, <2>2
  <2>4. recovering # None => node'[recovering.capture] \in {"open", "closed"}
    BY <1>4, <1>6 DEF LInv, OpenedInv
  <2> QED BY <1>1, <2>1, <2>2, <2>3, <2>4 DEF OpenedInv
<1>10. Ledger!LedgerNext
  <2> DEFINE x == [conversation |-> view.owner, capture |-> view.capture]
  <2>1. CASE disk' = disk
    <3>1. Entries' = Entries
      BY <2>1 DEF Entries
    <3>2. \A r \in disk : EntryOf(r) \in Entries
      BY DEF Entries
    <3> QED BY <2>1, <3>1, <3>2, Writes
  <2>2. CASE disk = records /\ disk' = records'
    <3>1. /\ \A r \in records : EntryOf(r) \in Entries
          /\ \A r \in records' : EntryOf(r) \in Entries'
          /\ \A e \in Entries : \E r \in records : e = EntryOf(r)
      BY <2>2 DEF Entries
    <3>2. view.phase = "held" => x \in Entries \/ Ledger!Names(x)
      <4>1. CASE controller.phase = "held"
        BY <3>1, <4>1 DEF LInv, RequestedInv
      <4>2. CASE controller.phase = "asked" /\ view.phase = "held"
        <5>1. x.capture # None /\ x.capture = view.capture /\ x.conversation = view.owner
          BY <1>0, <1>6, <4>2 DEF Start
        <5>2. PICK r \in records : r.capture = None /\ r.conversation = view.owner
          BY <4>2 DEF LInv, RequestedInv
        <5>3. [x EXCEPT !.capture = None] = EntryOf(r)
          BY <5>2 DEF EntryOf
        <5>4. \A f \in Entries : f.capture # x.capture
          BY <1>5, <3>1, <4>2, <5>1 DEF LInv, NamedInv
        <5> HIDE DEF x
        <5> QED BY <3>1, <4>2, <5>1, <5>3, <5>4 DEF Ledger!Names
      <4> QED BY <4>1, <4>2
    <3>3. \A r \in disk' : r.capture # None =>
            EntryOf(r) \in Entries \/ (EntryOf(r) = x /\ Ledger!Names(x))
      BY <1>3, <2>2, <3>1, <3>2
    <3>4. ASSUME NEW r \in disk, r.capture # None, node'[r.capture] = "open"
          PROVE  EntryOf(r) \in Entries'
      <4>1. CASE r.recovered
        BY <1>3, <2>2, <3>1, <3>4, <4>1
      <4>2. CASE ~r.recovered
        <5>1. /\ controller.phase = "held"
              /\ EntryOf(r) = [conversation |-> controller.owner, capture |-> controller.capture]
          BY <2>2, <3>4, <4>2 DEF LInv, NamedInv
        <5>2. r.capture = controller.capture
          BY <5>1 DEF EntryOf
        <5>3. view.phase = "held" /\ EntryOf(r) = x
          BY <3>4, <5>1, <5>2
        <5>4. PICK q \in records' : EntryOf(q) = x
          BY <1>3, <5>3
        <5> QED BY <3>1, <5>3, <5>4
      <4> QED BY <4>1, <4>2
    <3> HIDE DEF x
    <3> QED BY <3>3, <3>4, Writes
  <2> QED BY <1>1, <2>1, <2>2
<1> QED BY <1>7, <1>8, <1>9, <1>10 DEF LInv

\* A step of a controller is a step of one capture, and a change of the store the ledger allows.
LEMMA ControllerWrites ==
  ASSUME IInv, IInv', LInv,
         \/ Sends \/ StartReplies \/ StartFails \/ StopReplies \/ StopFails
         \/ PollReads \/ ListReads \/ \E c \in Conversation : CameraStop(c)
  PROVE  LInv' /\ Ledger!LedgerNext
<1>1. /\ controller \in View
      /\ controller.stopping => controller.phase = "held"
      /\ controller.phase \in {"asked", "held"} => controller.capture \in Start
      /\ controller.phase = "held" => node[controller.capture] \in {"open", "closed"}
  BY DEF IInv, TypeOK, ActingInv, View, LInv, OpenedInv
<1>2. recovering' = recovering
  BY DEF Sends, StartReplies, StartFails, StopReplies, StopFails, PollReads, ListReads, CameraStop
<1>3. node' = node => World
  BY DEF World
<1>4. CASE Sends
  <2>1. controller.phase = "waiting"
    BY <1>4 DEF Sends
  <2>2. CASE controller.cancelled
    <3> DEFINE view == [controller EXCEPT !.phase = "idle", !.cancelled = FALSE]
    <3>1. Changes(view) /\ node' = node
      BY <1>4, <2>2 DEF Sends
    <3>2. view.phase = "idle"
      BY <1>1 DEF View
    <3> HIDE DEF view
    <3> QED BY <1>2, <1>3, <2>1, <3>1, <3>2, ChangesWrite
  <2>3. CASE ~controller.cancelled
    <3>1. PICK s \in Start :
            /\ node[s] = "unused" /\ node' = [node EXCEPT ![s] = "asked"]
            /\ Changes([controller EXCEPT !.phase = "asked", !.capture = s])
      BY <1>4, <2>3 DEF Sends
    <3> DEFINE view == [controller EXCEPT !.phase = "asked", !.capture = s]
    <3>2. view.phase = "asked" /\ view.capture = s
      BY <1>1 DEF View
    <3>3. World
      <4>1. PICK r \in disk : r.capture = None
        BY <2>1 DEF IInv, WrittenInv
      <4>2. EntryOf(r) \in Entries /\ EntryOf(r).capture = None
        BY <4>1 DEF Entries, EntryOf
      <4> QED BY <3>1, <4>2 DEF World, Ledger!Ask
    <3> HIDE DEF view
    <3>4. Changes(view)
      BY <3>1 DEF view
    <3>5. node[view.capture] = "unused"
      BY <3>1, <3>2
    <3>6. view.phase # "held" /\ controller.phase # "held"
      BY <2>1, <3>2
    <3> QED BY <1>2, <3>3, <3>4, <3>5, <3>6, ChangesWrite
  <2> QED BY <2>2, <2>3
<1>5. CASE StartReplies
  <2> DEFINE view == [controller EXCEPT !.phase = "held", !.stopping = controller.cancelled,
                                        !.seen = TRUE, !.error = FALSE]
  <2>1. /\ Changes(view) /\ node' = node /\ controller.phase = "asked"
        /\ node[controller.capture] \in {"open", "closed"}
    BY <1>5 DEF StartReplies
  <2>2. /\ view.phase = "held" /\ view.capture = controller.capture
        /\ view.owner = controller.owner
    BY <1>1 DEF View
  <2> HIDE DEF view
  <2> QED BY <1>2, <1>3, <2>1, <2>2, ChangesWrite
<1>6. CASE StartFails
  <2> DEFINE view == [controller EXCEPT !.phase = "doubt", !.capture = None, !.cancelled = FALSE,
                                        !.error = TRUE]
  <2>1. Changes(view) /\ node' = node /\ controller.phase = "asked"
    BY <1>6 DEF StartFails
  <2>2. view.phase = "doubt"
    BY <1>1 DEF View
  <2> HIDE DEF view
  <2> QED BY <1>2, <1>3, <2>1, <2>2, ChangesWrite
<1>7. CASE StopReplies
  <2> DEFINE view == [controller EXCEPT !.phase = "idle", !.capture = None, !.stopping = FALSE,
                                        !.cancelled = FALSE, !.seen = TRUE, !.error = FALSE]
  <2>1. /\ Changes(view) /\ controller.phase = "held"
        /\ node' = [node EXCEPT ![controller.capture] = "closed"]
    BY <1>1, <1>7 DEF StopReplies
  <2>2. view.phase = "idle"
    BY <1>1 DEF View
  <2>3. World /\ node'[controller.capture] = "closed"
    BY <1>1, <2>1, ClosesIt
  <2> HIDE DEF view
  <2> QED BY <1>2, <2>1, <2>2, <2>3, ChangesWrite
<1>8. CASE StopFails
  <2> DEFINE view == [controller EXCEPT !.stopping = FALSE, !.cancelled = FALSE, !.seen = TRUE,
                                        !.error = TRUE]
  <2>1. /\ Changes(view) /\ controller.phase = "held"
        /\ node' \in {node, [node EXCEPT ![controller.capture] = "closed"]}
    BY <1>1, <1>8 DEF StopFails
  <2>2. /\ view.phase = "held" /\ view.capture = controller.capture
        /\ view.owner = controller.owner
    BY <1>1, <2>1 DEF View
  <2>3. World
    BY <1>1, <1>3, <2>1, ClosesIt
  <2> HIDE DEF view
  <2> QED BY <1>1, <1>2, <2>1, <2>2, <2>3, ChangesWrite
<1>9. CASE PollReads
  <2>1. PICK ended \in BOOLEAN :
          /\ ended => \/ controller.phase = "held" /\ node[controller.capture] = "closed"
                      \/ controller.phase = "doubt"
          /\ Changes([controller EXCEPT !.seen = TRUE, !.error = FALSE,
                                        !.phase = IF ended THEN "idle" ELSE @,
                                        !.capture = IF ended THEN None ELSE @])
    BY <1>9 DEF PollReads
  <2>2. node' = node /\ ~Pending(controller)
    BY <1>9 DEF PollReads
  <2> DEFINE view == [controller EXCEPT !.seen = TRUE, !.error = FALSE,
                                        !.phase = IF ended THEN "idle" ELSE controller.phase,
                                        !.capture = IF ended THEN None ELSE controller.capture]
  <2>3. /\ view.phase = IF ended THEN "idle" ELSE controller.phase
        /\ view.capture = IF ended THEN None ELSE controller.capture
        /\ view.owner = controller.owner
    BY <1>1 DEF View
  <2>4. Changes(view)
    BY <2>1
  <2>5. controller.phase # "asked"
    BY <2>2 DEF Pending
  <2> HIDE DEF view
  <2>6. CASE ended
    BY <1>2, <1>3, <2>1, <2>2, <2>3, <2>4, <2>6, ChangesWrite
  <2>7. CASE ~ended
    BY <1>1, <1>2, <1>3, <2>2, <2>3, <2>4, <2>5, <2>7, ChangesWrite
  <2> QED BY <2>6, <2>7
<1>10. CASE ListReads \/ \E c \in Conversation : CameraStop(c)
  <2>1. PICK view \in {[controller EXCEPT !.seen = TRUE], [controller EXCEPT !.error = TRUE],
                       [controller EXCEPT !.cancelled = TRUE], [controller EXCEPT !.stopping = TRUE]} :
          Changes(view)
    BY <1>10 DEF ListReads, CameraStop
  <2>2. node' = node
    BY <1>10 DEF ListReads, CameraStop
  <2>3. /\ view.phase = controller.phase /\ view.capture = controller.capture
        /\ view.owner = controller.owner
    BY <1>1, <2>1 DEF View
  <2> QED BY <1>1, <1>2, <1>3, <2>1, <2>2, <2>3, ChangesWrite
<1> QED BY <1>4, <1>5, <1>6, <1>7, <1>8, <1>9, <1>10

\* A step that adds requests to the journal at most, and lets go of nothing that the
\* controller holds or waits for.
LEMMA QuietWrites ==
  ASSUME IInv, IInv', LInv, World,
         records \subseteq records', disk \subseteq disk',
         \A r \in records' : r \in records \/ r.capture = None,
         \A r \in disk' : r \in disk \/ r.capture = None,
         \/ controller' = controller
         \/ controller'.phase = controller.phase /\ controller'.capture = controller.capture
              /\ controller'.owner = controller.owner
         \/ /\ controller.phase # "held"
            /\ controller'.phase \notin {"waiting", "asked", "held"},
         recovering' \in {recovering, None} \/ recovering' \in records
  PROVE  LInv' /\ Ledger!LedgerNext
<1>1. \A s \in Start : node[s] \in {"open", "closed"} => node'[s] \in {"open", "closed"}
  BY WorldFacts
<1>2. /\ \A r \in records \cup disk : r.capture # None => r.capture \in Start
      /\ controller.phase = "held" => controller.capture \in Start
      /\ recovering # None => recovering.capture \in Start
      /\ recovering' # None => recovering'.capture # None
  BY DEF IInv, TypeOK, ActingInv, View, Record
<1>3. /\ \A r \in records \cup disk : r.capture # None => node'[r.capture] \in {"open", "closed"}
      /\ controller.phase = "held" => node'[controller.capture] \in {"open", "closed"}
      /\ recovering # None => node'[recovering.capture] \in {"open", "closed"}
  BY <1>1, <1>2 DEF LInv, OpenedInv
<1>4. RequestedInv'
  BY DEF LInv, RequestedInv, EntryOf
<1>5. NamedInv'
  <2>1. \A r \in records' : r.capture # None => r \in records
    OBVIOUS
  <2>2. controller'.phase = "asked" =>
          controller.phase = "asked" /\ controller'.capture = controller.capture
    OBVIOUS
  <2>3. controller.phase = "asked" => controller.capture # None
    BY DEF IInv, TypeOK
  <2> QED BY <2>1, <2>2, <2>3 DEF LInv, NamedInv, EntryOf
<1>6. OpenedInv'
  BY <1>2, <1>3 DEF OpenedInv
<1>7. Ledger!LedgerNext
  <2>1. \A r \in disk : EntryOf(r) \in Entries /\ EntryOf(r) \in Entries'
    BY DEF Entries
  <2> QED BY <2>1, Writes
<1> QED BY <1>4, <1>5, <1>6, <1>7 DEF LInv

\* What the Node does by itself is a step of one capture.
LEMMA NodeWrites ==
  ASSUME IInv, IInv', LInv,
         \/ \E s \in Start : NodeOpens(s) \/ NodeRefuses(s) \/ NodeCloses(s)
         \/ RequestEnds \/ (\E c \in Conversation : StopRecovered(c))
         \/ Connect \/ Drops \/ Returns \/ LinkFails
  PROVE  LInv' /\ Ledger!LedgerNext
<1>1. UNCHANGED journal /\ controller' = controller
  BY DEF NodeOpens, NodeRefuses, NodeCloses, RequestEnds, StopRecovered,
         Connect, Drops, Returns, LinkFails
<1>2. World
  BY DEF NodeOpens, NodeRefuses, NodeCloses, RequestEnds, StopRecovered,
         Connect, Drops, Returns, LinkFails, World, Ledger!Answer, Ledger!Close
<1>3. recovering' = recovering \/ recovering' \in records
  BY DEF NodeOpens, NodeRefuses, NodeCloses, RequestEnds, StopRecovered,
         Connect, Drops, Returns, LinkFails
<1> QED BY <1>1, <1>2, <1>3, QuietWrites DEF journal

\* A request is admitted to the conversation that owns what is held or waits.
LEMMA TakenKeeps ==
  ASSUME NEW c \in Conversation, Admitted(c)
  PROVE  Taken(c) = controller \/ (controller.phase # "held" /\ Taken(c).phase = "idle")
BY DEF Admitted, Taken, Unresolved, New, NoController

\* A start is noted in the store, or refused before it can go out.
LEMMA CameraStartWrites ==
  ASSUME IInv, IInv', LInv, NEW c \in Conversation, CameraStart(c)
  PROVE  LInv' /\ Ledger!LedgerNext
<1> DEFINE written == records \cup {Unnamed(c)}
<1>1. Admitted(c) /\ node' = node /\ recovering' = recovering /\ World
  BY DEF CameraStart, World
<1>2. disk = records /\ records \in SUBSET Record /\ disk' \in SUBSET Record /\ ~failed
  BY <1>1 DEF Admitted, IInv, SavedInv, TypeOK
<1>3. /\ Unnamed(c) \in Record /\ Unnamed(c).capture = None
      /\ ~Unnamed(c).recovered
  BY DEF Unnamed, Record
<1>4. \A r \in written : r \in records \/ r.capture = None
  BY <1>3
<1>5. CASE Saves(written) /\ controller' = Taken(c)
  <2>1. records' = written /\ disk' \in {written, disk}
    BY <1>5 DEF Saves
  <2>2. /\ records \subseteq records' /\ disk \subseteq disk'
        /\ \A r \in records' : r \in records \/ r.capture = None
        /\ \A r \in disk' : r \in disk \/ r.capture = None
    BY <1>2, <1>4, <2>1
  <2>3. \/ controller' = controller
        \/ controller.phase # "held" /\ controller'.phase = "idle"
    BY <1>1, <1>5, TakenKeeps
  <2> QED BY <1>1, <2>2, <2>3, QuietWrites
<1>6. CASE /\ MayStart(Taken(c))
           /\ controller' = Waiting(Taken(c))
           /\ records' = Rewritten(written, controller')
           /\ disk' = records' \/ disk' = written
  <2>1. PICK view : view = Waiting(Taken(c))
    OBVIOUS
  <2>2. controller.phase # "held"
    BY <1>1, <1>6, TakenKeeps DEF MayStart
  <2>3. Taken(c) \in View
    BY TakenFacts, <1>1 DEF IsView
  <2>4. view.phase = "waiting" /\ controller' = view /\ records' = Rewritten(written, view)
    BY <1>6, <2>1, <2>3 DEF Waiting, View
  <2>5. written \in SUBSET Record
    BY <1>2, <1>3
  <2> HIDE DEF written
  <2>6. /\ \A r \in records' : r.capture # None => r \in written /\ r.recovered
        /\ \A r \in written : r.recovered => r \in records'
        /\ \E r \in records' : r.capture = None /\ r.conversation = view.owner
    BY <2>4, <2>5, RewrittenNames
  <2>7. /\ \A r \in records' : r.capture # None => r \in records /\ r.recovered
        /\ \A r \in disk' : r.capture # None => r \in records
    BY <1>4, <1>6, <2>6
  <2>8. \A r \in records : r.capture # None => r.recovered
    BY <2>2 DEF LInv, NamedInv
  <2>9. RequestedInv' /\ NamedInv'
    BY <2>4, <2>6, <2>7 DEF RequestedInv, NamedInv
  <2>10. OpenedInv'
    BY <1>1, <1>2, <2>4, <2>7 DEF LInv, OpenedInv
  <2>11. Ledger!LedgerNext
    <3>1. \A r \in disk' : r.capture # None => EntryOf(r) \in Entries
      BY <1>2, <2>7 DEF Entries
    <3>2. \A r \in disk : r.capture # None => r \in disk'
      BY <1>2, <1>6, <2>6, <2>8 DEF written
    <3>3. \A r \in disk' : EntryOf(r) \in Entries'
      BY DEF Entries
    <3> QED BY <1>1, <3>1, <3>2, <3>3, Writes
  <2> QED BY <2>9, <2>10, <2>11 DEF LInv
<1> QED BY <1>5, <1>6 DEF CameraStart

\* A record that is released takes its name out of the ledger when the capture is closed.
LEMMA RecoveredWrites ==
  ASSUME IInv, IInv', LInv, RecoveredEnds
  PROVE  LInv' /\ Ledger!LedgerNext
<1> DEFINE named == recovering.capture
<1>1. /\ recovering \in Record /\ recovering.recovered /\ named \in Start /\ named # None
      /\ recovering' = None /\ controller' = controller
      /\ node[named] \in {"open", "closed"}
  BY DEF RecoveredEnds, IInv, TypeOK, ActingInv, Record, LInv, OpenedInv
<1>2. CASE UNCHANGED journal /\ node' \in {node, [node EXCEPT ![named] = "closed"]}
  <2>1. World
    BY <1>1, <1>2, ClosesIt DEF World
  <2> QED BY <1>1, <1>2, <2>1, QuietWrites DEF journal
<1>3. CASE /\ node' = [node EXCEPT ![named] = "closed"]
           /\ IF failed THEN records' = records \ {recovering} /\ UNCHANGED <<disk, failed>>
                        ELSE Saves(records \ {recovering})
  <2>1. World /\ node'[named] = "closed"
    BY <1>1, <1>3, ClosesIt
  <2>2. /\ records' = records \ {recovering}
        /\ disk' = disk \/ (disk = records /\ disk' = records')
    BY <1>3 DEF Saves, IInv, SavedInv
  <2>3. \A s \in Start : node[s] \in {"open", "closed"} => node'[s] \in {"open", "closed"}
    BY <2>1, WorldFacts
  <2>4. RequestedInv'
    BY <1>1, <2>2 DEF LInv, RequestedInv
  <2>5. NamedInv'
    BY <1>1, <2>2 DEF LInv, NamedInv
  <2>6. OpenedInv'
    <3>1. /\ \A r \in records \cup disk : r.capture # None => r.capture \in Start
          /\ controller.phase = "held" => controller.capture \in Start
      BY DEF IInv, TypeOK, View, Record
    <3> QED BY <1>1, <2>2, <2>3, <3>1 DEF LInv, OpenedInv
  <2>7. Ledger!LedgerNext
    <3>1. \A r \in disk' : r \in disk /\ EntryOf(r) \in Entries /\ EntryOf(r) \in Entries'
      BY <2>2 DEF Entries
    <3>2. \A r \in disk : node'[r.capture] = "open" => r \in disk'
      BY <2>1, <2>2
    <3> QED BY <2>1, <3>1, <3>2, Writes
  <2> QED BY <2>4, <2>5, <2>6, <2>7 DEF LInv
<1> QED BY <1>2, <1>3 DEF RecoveredEnds

\* Requests and the connection leave the ledger as it is.
LEMMA LinkWrites ==
  ASSUME IInv, IInv', LInv,
         (\E c \in Conversation : Request(c)) \/ Connected \/ Disconnect \/ Leaves
  PROVE  LInv' /\ Ledger!LedgerNext
<1>1. World /\ recovering' = recovering
  BY DEF Request, Connected, Disconnect, Leaves, World
<1>2. records' = records /\ disk' = disk
  BY DEF Request, Connected, Disconnect, Leaves, Saves, journal, IInv, SavedInv
<1>3. \/ controller' = controller
      \/ controller'.phase = controller.phase /\ controller'.capture = controller.capture
           /\ controller'.owner = controller.owner
      \/ controller.phase # "held" /\ controller'.phase \in {"none", "idle"}
  <2>1. CASE \E c \in Conversation : Request(c)
    BY <2>1, TakenKeeps DEF Request
  <2>2. CASE Connected
    BY <2>2 DEF Connected
  <2>3. CASE Disconnect
    BY <2>3 DEF Disconnect, IInv, TypeOK, View
  <2>4. CASE Leaves
    BY <2>4 DEF Leaves, NoController, IInv, ActingInv, Unresolved
  <2> QED BY <2>1, <2>2, <2>3, <2>4
<1> QED BY <1>1, <1>2, <1>3, QuietWrites

\* A restart marks the store and leaves its entries.
LEMMA RestartWrites ==
  ASSUME IInv, IInv', LInv, Restart
  PROVE  LInv' /\ Ledger!LedgerNext
<1>1. /\ records' = {[r EXCEPT !.recovered = TRUE] : r \in disk} /\ disk' = records'
      /\ controller' = NoController /\ recovering' = None /\ node' = node
  BY DEF Restart
<1>2. \A r \in disk : /\ [r EXCEPT !.recovered = TRUE].recovered
                      /\ [r EXCEPT !.recovered = TRUE].capture = r.capture
                      /\ EntryOf([r EXCEPT !.recovered = TRUE]) = EntryOf(r)
  BY DEF IInv, TypeOK, Record, EntryOf
<1>3. \A r \in records' : r.recovered /\ \E q \in disk : EntryOf(r) = EntryOf(q) /\ r.capture = q.capture
  BY <1>1, <1>2
<1>4. controller'.phase = "none"
  BY <1>1 DEF NoController
<1>5. RequestedInv' /\ NamedInv' /\ OpenedInv'
  BY <1>1, <1>3, <1>4 DEF LInv, OpenedInv, RequestedInv, NamedInv
<1>6. Ledger!LedgerNext
  <2>1. \A r \in disk' : EntryOf(r) \in Entries
    BY <1>1, <1>3 DEF Entries
  <2>2. \A r \in disk : EntryOf(r) \in Entries'
    <3> SUFFICES ASSUME NEW r \in disk PROVE EntryOf(r) \in Entries'
      OBVIOUS
    <3>1. [r EXCEPT !.recovered = TRUE] \in disk'
      BY <1>1
    <3> QED BY <1>2, <3>1 DEF Entries
  <2> QED BY <1>1, <2>1, <2>2, Writes DEF World
<1> QED BY <1>5, <1>6 DEF LInv

\* Every step keeps the names of the journal right, and is a step of the ledger or leaves
\* it alone.
LEMMA StepWrites == IInv /\ LInv /\ [Next]_vars => LInv' /\ [Ledger!LedgerNext]_(Ledger!ledgerVars)
<1> SUFFICES ASSUME IInv, LInv, [Next]_vars
             PROVE  LInv' /\ (Ledger!LedgerNext \/ UNCHANGED Ledger!ledgerVars)
  OBVIOUS
<1>1. IInv'
  BY NextInv
<1>2. CASE \/ Sends \/ StartReplies \/ StartFails \/ StopReplies \/ StopFails
           \/ PollReads \/ ListReads \/ \E c \in Conversation : CameraStop(c)
  BY <1>1, <1>2, ControllerWrites
<1>3. CASE \/ \E s \in Start : NodeOpens(s) \/ NodeRefuses(s) \/ NodeCloses(s)
           \/ RequestEnds \/ (\E c \in Conversation : StopRecovered(c))
           \/ Connect \/ Drops \/ Returns \/ LinkFails
  BY <1>1, <1>3, NodeWrites
<1>4. CASE \E c \in Conversation : CameraStart(c)
  BY <1>1, <1>4, CameraStartWrites
<1>5. CASE (\E c \in Conversation : Request(c)) \/ Connected \/ Disconnect \/ Leaves
  BY <1>1, <1>5, LinkWrites
<1>6. CASE RecoveredEnds
  BY <1>1, <1>6, RecoveredWrites
<1>7. CASE Restart
  BY <1>1, <1>7, RestartWrites
<1>8. CASE UNCHANGED vars
  <2>1. UNCHANGED Ledger!ledgerVars
    BY <1>8 DEF vars, journal, Ledger!ledgerVars, Entries
  <2>2. LInv'
    BY <1>8 DEF LInv, RequestedInv, NamedInv, OpenedInv, vars, journal, EntryOf
  <2> QED BY <2>1, <2>2
<1> QED BY <1>2, <1>3, <1>4, <1>5, <1>6, <1>7, <1>8 DEF Next

\* The service starts with an empty ledger.
LEMMA InitWrites == Init => LInv /\ Ledger!LedgerInit
BY DEF Init, NoController, LInv, RequestedInv, NamedInv, OpenedInv, Entries, Ledger!LedgerInit

\* The store of the service is the ledger of CaptureLedger: noted before it is asked for,
\* in it while it may be running, named once and until it is closed.
THEOREM ServiceKeepsLedger == Spec => RefinesLedger
<1>1. Init => IInv /\ LInv /\ Ledger!LedgerInit
  BY InitInv, InitWrites
<1>2. IInv /\ LInv /\ [Next]_vars => IInv' /\ LInv' /\ [Ledger!LedgerNext]_(Ledger!ledgerVars)
  BY NextInv, StepWrites
<1> QED BY <1>1, <1>2, PTL DEF Spec, RefinesLedger, Ledger!LedgerSpec

\* In a ledger no capture is recorded for two conversations, whoever keeps it.
LEMMA LedgerHasOneConversation ==
  Ledger!OneConversation /\ [Ledger!LedgerNext]_(Ledger!ledgerVars) => Ledger!OneConversation'
<1> SUFFICES ASSUME Ledger!OneConversation, Ledger!LedgerNext \/ UNCHANGED Ledger!ledgerVars
             PROVE  Ledger!OneConversation'
  OBVIOUS
<1>1. CASE UNCHANGED Ledger!ledgerVars
  BY <1>1 DEF Ledger!ledgerVars, Ledger!OneConversation
<1>2. CASE Ledger!LedgerNext
  <2> SUFFICES ASSUME NEW e \in Entries', NEW f \in Entries', e.capture = f.capture, e.capture # None
               PROVE  e.conversation = f.conversation
    BY DEF Ledger!OneConversation
  <2>1. /\ e \in Entries \/ Ledger!Names(e)
        /\ f \in Entries \/ Ledger!Names(f)
        /\ Ledger!Names(e) /\ Ledger!Names(f) => e = f
    BY <1>2 DEF Ledger!LedgerNext, Ledger!Write
  <2>2. CASE e \in Entries /\ f \in Entries
    BY <2>2 DEF Ledger!OneConversation
  <2>3. CASE e \notin Entries \/ f \notin Entries
    BY <2>1, <2>3 DEF Ledger!Names
  <2> QED BY <2>2, <2>3
<1> QED BY <1>1, <1>2

\* No capture is ever in the store for two conversations, whatever crashes between.
THEOREM OneConversationPerCapture == Spec => []Ledger!OneConversation
<1>1. Ledger!LedgerInit => Ledger!OneConversation
  BY DEF Ledger!LedgerInit, Ledger!OneConversation
<1> QED BY <1>1, LedgerHasOneConversation, ServiceKeepsLedger, PTL DEF RefinesLedger, Ledger!LedgerSpec
=============================================================================
