--------------------------- MODULE RuntimeSession ---------------------------
(***************************************************************************)
(* RuntimeSession of packages/runtime (session.py): one synchronous        *)
(* session over a sensor, a model and a robot adapter.  `pc` is the        *)
(* adapter, clock or cancellation call the session is blocked in; an       *)
(* action is the return of that call and the code up to the next one.      *)
(*                                                                         *)
(* The re-checks of the fence in step() exist because such a call may      *)
(* itself close the session (an operator stop delivered on the session's   *)
(* thread): NestedClose is that close(), run while the outer call waits.   *)
(* `stopping` holds while robot.safe_stop runs, `closing` while the        *)
(* closers do.  A closer does not call back: nested closes inside one      *)
(* would only find `opened` shorter.                                       *)
(*                                                                         *)
(* prepare() and arm() have no such re-check: an adapter that a close      *)
(* overtook while it was being opened is acquired when its open returns,   *)
(* after its closer has run, and a robot may be armed after its stop.  The *)
(* history variable `overtaken` records where that may have happened.      *)
(***************************************************************************)
EXTENDS Integers, FiniteSets

CONSTANTS
  ObservationId,      \* names of observations
  Observation,        \* the envelopes the sensor may return
  ActionChunk,        \* the chunks the model may return
  Instant,            \* readings of the monotonic clock
  MaxObservationAge,  \* plan.safety.max_observation_age_ns
  MaxActionAge,       \* plan.safety.max_action_age_ns
  MaxTracked,         \* _MAX_TRACKED_OBSERVATIONS
  MaxSteps,           \* bound of the model: calls of step()
  Reentrant,          \* whether adapter calls may close the session
  None                \* no observation, no chunk

(* What the wire contracts say of time (contracts/models.py): no receipt before
   the capture, and a window of validity that begins after the inference. *)
ObservationAccepted(o) == o.captured <= o.received
ChunkAccepted(a) == a.created <= a.validFrom /\ a.validFrom < a.expires

ASSUME SessionAssumption ==
  /\ Observation \subseteq [id : ObservationId, sequence : Nat, captured : Nat, received : Nat]
  /\ \A o \in Observation : ObservationAccepted(o)
  /\ ActionChunk \subseteq [source : ObservationId, created : Nat, validFrom : Nat,
                            expires : Nat, matches : BOOLEAN, inLimits : BOOLEAN]
  /\ \A a \in ActionChunk : ChunkAccepted(a)
  /\ Instant \subseteq Nat
  /\ MaxObservationAge \in Nat /\ MaxActionAge \in Nat
  /\ MaxTracked \in Nat /\ MaxSteps \in Nat
  /\ Reentrant \in BOOLEAN
  /\ None \notin Observation \cup ActionChunk

VARIABLES
  state, opened, robotOpen, failures,        \* life cycle, closers still to run
  fenced, stopAttempted, stopConfirmed,      \* the output fence and safe stop
  lastClock, lastSequence, lastCaptured, lastReceived, seen,  \* replay guards
  attempted, succeeded, rejected, stale,     \* telemetry counters
  pc, stopping, closing,                     \* where the caller waits
  overtaken,                                 \* history: the calls a close landed in
  observation, chunk,                        \* locals of step()
  held, armed, stopCalls, uses, output       \* what the adapters saw

lifecycle == <<state, opened, robotOpen, failures>>
fence     == <<fenced, stopAttempted, stopConfirmed>>
replay    == <<lastSequence, lastCaptured, lastReceived, seen>>
counters  == <<attempted, succeeded, rejected, stale>>
frames    == <<stopping, closing, overtaken>>
locals    == <<observation, chunk>>
adapters  == <<held, armed, stopCalls, uses, output>>
vars      == <<lifecycle, fence, lastClock, replay, counters, pc, frames, locals, adapters>>

Adapter      == {"sensor", "model", "robot"}
RuntimeState == {"VALIDATED", "PREPARED", "ARMED", "RUNNING", "SAFE_STOPPED", "CLOSED"}
Live         == {"PREPARED", "ARMED", "RUNNING"}

OpenCall   == {"open_sensor", "open_model", "open_robot"}
CancelCall == {"cancel_arm", "cancel_read", "cancel_infer", "cancel_inferred",
               "cancel_output", "cancel_apply"}
ClockCall  == {"clock_observed", "clock_infer", "clock_inferred", "clock_output"}
StepCall   == (CancelCall \ {"cancel_arm"}) \cup ClockCall \cup {"read", "predict", "apply"}
OpenCallOf == [sensor |-> "open_sensor", model |-> "open_model", robot |-> "open_robot"]
RobotCall  == {"open_robot", "cancel_arm", "arm"}
Unguarded  == OpenCall \cup RobotCall  \* nothing looks at the fence when they return
Callback   == OpenCall \cup CancelCall \cup ClockCall \cup {"arm", "read", "predict", "apply"}

\* No frame of close() or _abort() is on top of the waiting call.
Unwound == ~stopping /\ ~closing

At(point) == pc = point /\ Unwound

\* The adapter that is being opened.
Opening == {a \in Adapter : pc = OpenCallOf[a]}

TypeOK ==
  /\ state \in RuntimeState
  /\ opened \in SUBSET Adapter
  /\ robotOpen \in BOOLEAN
  /\ failures \in SUBSET (Adapter \cup {"safe_stop"})
  /\ fenced \in BOOLEAN /\ stopAttempted \in BOOLEAN
  /\ stopConfirmed \in {"none", "confirmed", "failed"}
  /\ lastClock \in Int /\ lastSequence \in Int
  /\ lastCaptured \in Int /\ lastReceived \in Int
  /\ seen \in SUBSET ObservationId
  /\ attempted \in Nat /\ succeeded \in Nat /\ rejected \in Nat /\ stale \in Nat
  /\ pc \in Callback \cup {"idle", "ending"}
  /\ stopping \in BOOLEAN /\ closing \in BOOLEAN
  /\ overtaken \in SUBSET Unguarded
  /\ observation \in Observation \cup {None}
  /\ chunk \in ActionChunk \cup {None}
  /\ held \in SUBSET Adapter
  /\ armed \in BOOLEAN
  /\ stopCalls \in Nat
  /\ uses \in [ObservationId -> Nat]
  /\ output \in [observation : Observation, chunk : ActionChunk, now : Int] \cup {None}

\* -1 stands for the None of a guard that has seen nothing: every reading exceeds it.
Init ==
  /\ state = "VALIDATED" /\ opened = {} /\ robotOpen = FALSE /\ failures = {}
  /\ fenced = FALSE /\ stopAttempted = FALSE /\ stopConfirmed = "none"
  /\ lastClock = -1 /\ lastSequence = -1 /\ lastCaptured = -1 /\ lastReceived = -1
  /\ seen = {}
  /\ attempted = 0 /\ succeeded = 0 /\ rejected = 0 /\ stale = 0
  /\ pc = "idle" /\ stopping = FALSE /\ closing = FALSE /\ overtaken = {}
  /\ observation = None /\ chunk = None
  /\ held = {} /\ armed = FALSE /\ stopCalls = 0
  /\ uses = [id \in ObservationId |-> 0]
  /\ output = None

-----------------------------------------------------------------------------
(* Stop and cleanup: _safe_stop_once, _close_resources, _abort, close.     *)

StopDue == robotOpen /\ ~stopAttempted

\* Fence, count and call robot.safe_stop, or go straight to the closers.
BeginCleanup ==
  /\ IF StopDue
       THEN /\ fenced' = TRUE /\ stopAttempted' = TRUE
            /\ stopCalls' = stopCalls + 1
            /\ stopping' = TRUE
            /\ UNCHANGED closing
       ELSE /\ closing' = TRUE
            /\ UNCHANGED <<fenced, stopAttempted, stopCalls, stopping>>
  /\ UNCHANGED <<stopConfirmed, lifecycle, uses, output>>

Shutdown == BeginCleanup /\ UNCHANGED <<held, armed>>

\* The call in progress fails: it ends once its cleanup has.
Abort == pc' = "ending" /\ Shutdown /\ UNCHANGED overtaken

\* close() and the exit of the context manager, when the caller has control.
Close ==
  /\ At("idle")
  /\ state # "CLOSED"
  /\ Abort
  /\ UNCHANGED <<lastClock, replay, counters, locals>>

\* An operation its state does not allow (every live state refuses one) closes a
\* live session; before prepare() and after close() it only raises.
InvalidCall ==
  /\ At("idle")
  /\ state \in Live
  /\ Abort
  /\ UNCHANGED <<lastClock, replay, counters, locals>>

\* An adapter, clock or cancellation call in progress closes the session.
NestedClose ==
  /\ Reentrant
  /\ pc \in Callback \/ stopping
  /\ ~closing
  /\ state # "CLOSED"
  /\ Shutdown
  /\ overtaken' = overtaken \cup ({pc} \cap Unguarded)
  /\ UNCHANGED <<pc, lastClock, replay, counters, locals>>

\* Mutant: a failed stop is not recorded.
SafeStopUnrecorded ==
  /\ stopping /\ ~closing
  /\ stopping' = FALSE /\ closing' = TRUE
  /\ stopConfirmed' = "failed"
  /\ UNCHANGED <<lifecycle, fenced, stopAttempted, lastClock, replay, counters, pc, overtaken,
                 locals, adapters>>

SafeStopReturns ==
  /\ stopping /\ ~closing
  /\ stopping' = FALSE /\ closing' = TRUE
  /\ \/ /\ stopConfirmed' = "confirmed"
        /\ state' = "SAFE_STOPPED"
        /\ armed' = FALSE
        /\ UNCHANGED failures
     \/ /\ stopConfirmed' = "failed"
        /\ failures' = failures \cup {"safe_stop"}
        /\ UNCHANGED <<state, armed>>
  /\ UNCHANGED <<opened, robotOpen, fenced, stopAttempted, lastClock, replay, counters,
                 pc, overtaken, locals, held, stopCalls, uses, output>>

\* The closers form a stack; opens run in a fixed order, so its top is this one.
LastOpened ==
  CASE "robot" \in opened -> "robot"
    [] "model" \in opened /\ "robot" \notin opened -> "model"
    [] OTHER -> "sensor"

CloseNext ==
  /\ closing
  /\ opened # {}
  /\ opened' = opened \ {LastOpened}
  /\ held' = held \ {LastOpened}
  /\ \/ /\ armed' = IF LastOpened = "robot" THEN FALSE ELSE armed
        /\ UNCHANGED failures
     \/ /\ failures' = failures \cup {LastOpened}
        /\ UNCHANGED armed
  /\ UNCHANGED <<state, robotOpen, fence, lastClock, replay, counters, pc, frames, locals,
                 stopCalls, uses, output>>

CleanupEnds ==
  /\ closing
  /\ opened = {}
  /\ closing' = FALSE
  /\ robotOpen' = FALSE
  /\ fenced' = TRUE
  /\ state' = "CLOSED"
  /\ pc' = IF pc = "ending" /\ ~stopping THEN "idle" ELSE pc
  /\ UNCHANGED <<opened, failures, stopAttempted, stopConfirmed, lastClock, replay,
                 counters, stopping, overtaken, locals, adapters>>

-----------------------------------------------------------------------------
(* prepare and arm                                                         *)

\* Mutant: the closer is registered only once open has returned.
CallOpenUnregistered(a, point) ==
  /\ opened' = IF a = "model" THEN opened ELSE opened \cup {a}
  /\ held' = held \cup Opening \cup {a}
  /\ pc' = point

\* The open in progress, if any, has returned with its device.  Register the next
\* closer, then call open: it may hold something from here on, even if it fails.
CallOpen(a, point) ==
  /\ opened' = opened \cup {a}
  /\ held' = held \cup Opening \cup {a}
  /\ pc' = point

Prepare ==
  /\ At("idle")
  /\ state = "VALIDATED"
  /\ CallOpen("sensor", "open_sensor")
  /\ UNCHANGED <<state, robotOpen, failures, fence, lastClock, replay, counters, frames,
                 locals, armed, stopCalls, uses, output>>

SensorOpens ==
  /\ At("open_sensor")
  /\ CallOpen("model", "open_model")
  /\ UNCHANGED <<state, robotOpen, failures, fence, lastClock, replay, counters, frames,
                 locals, armed, stopCalls, uses, output>>

ModelOpens ==
  /\ At("open_model")
  /\ CallOpen("robot", "open_robot")
  /\ robotOpen' = TRUE
  /\ UNCHANGED <<state, failures, fence, lastClock, replay, counters, frames,
                 locals, armed, stopCalls, uses, output>>

\* The assignment does not look at the state a nested close has left.
RobotOpens ==
  /\ At("open_robot")
  /\ held' = held \cup Opening
  /\ state' = "PREPARED"
  /\ pc' = "idle"
  /\ UNCHANGED <<opened, robotOpen, failures, fence, lastClock, replay, counters, frames,
                 locals, armed, stopCalls, uses, output>>

Arm ==
  /\ At("idle")
  /\ state = "PREPARED"
  /\ pc' = "cancel_arm"
  /\ UNCHANGED <<lifecycle, fence, lastClock, replay, counters, frames, locals, adapters>>

RobotArms ==
  /\ At("arm")
  /\ armed' = TRUE
  /\ state' = "ARMED"
  /\ pc' = "idle"
  /\ UNCHANGED <<opened, robotOpen, failures, fence, lastClock, replay, counters, frames,
                 locals, held, stopCalls, uses, output>>

-----------------------------------------------------------------------------
(* step                                                                    *)

stepFrame == <<opened, robotOpen, failures, fence, frames, held, armed, stopCalls>>

\* A fenced session raises instead, and changes nothing.
Step ==
  /\ At("idle")
  /\ state \in {"ARMED", "RUNNING"}
  /\ ~fenced
  /\ attempted < MaxSteps
  /\ attempted' = attempted + 1
  /\ state' = "RUNNING"
  /\ pc' = "cancel_read"
  /\ UNCHANGED <<stepFrame, lastClock, replay, succeeded, rejected, stale, locals, uses,
                 output>>

\* Identity, order and history checks, made before the clock is read.
ObservationAdmissible(o) ==
  /\ o.sequence > lastSequence
  /\ o.id \notin seen
  /\ Cardinality(seen) < MaxTracked
  /\ o.captured > lastCaptured
  /\ o.received >= lastReceived

Fresh(o, now) == o.received <= now /\ now - o.captured <= MaxObservationAge

\* Contract fields, source, age and validity window, and the declared limits.
Acceptable(a, o, now) ==
  /\ a.source = o.id
  /\ a.matches
  /\ o.received <= a.created /\ a.created <= now
  /\ now - a.created <= MaxActionAge
  /\ a.validFrom <= now /\ now < a.expires
  /\ a.inLimits

SensorReturns(o) ==
  /\ At("read")
  /\ ObservationAdmissible(o)
  /\ observation' = o
  /\ pc' = "clock_observed"
  /\ UNCHANGED <<stepFrame, state, lastClock, replay, counters, chunk, uses, output>>

\* The step goes on to its next call.
Advance(point) ==
  /\ pc' = point
  /\ UNCHANGED <<stepFrame, state>>

\* An observation too old is counted stale; one received later than now is not.
RefuseObservation(o, now) ==
  /\ stale' = stale + (IF o.received <= now THEN 1 ELSE 0)
  /\ Abort
  /\ UNCHANGED rejected

RefuseAction ==
  /\ rejected' = rejected + 1
  /\ Abort
  /\ UNCHANGED stale

\* The reading that ends validation records the observation or refuses it.
ObservationTimed(now) ==
  /\ At("clock_observed")
  /\ now >= lastClock
  /\ lastClock' = now
  /\ IF Fresh(observation, now)
       THEN /\ lastSequence' = observation.sequence
            /\ lastCaptured' = observation.captured
            /\ lastReceived' = observation.received
            /\ seen' = seen \cup {observation.id}
            /\ Advance("cancel_infer")
            /\ UNCHANGED <<stale, rejected>>
       ELSE /\ RefuseObservation(observation, now)
            /\ UNCHANGED replay
  /\ UNCHANGED <<attempted, succeeded, locals, uses, output>>

\* The readings around predict only bound its duration and must not go back.
InferenceTimed(now) ==
  /\ \/ At("clock_infer") /\ Advance("predict")
     \/ At("clock_inferred") /\ Advance("cancel_inferred")
  /\ now >= lastClock
  /\ lastClock' = now
  /\ UNCHANGED <<replay, counters, locals, uses, output>>

ModelReturns(a) ==
  /\ At("predict")
  /\ chunk' = a
  /\ Advance("clock_inferred")
  /\ UNCHANGED <<lastClock, replay, counters, observation, uses, output>>

\* A cancellation check that finds nothing, where only the next call follows.
NotCancelled ==
  /\ \/ At("cancel_arm") /\ Advance("arm")
     \/ At("cancel_read") /\ Advance("read")
     \/ At("cancel_infer") /\ Advance("clock_infer")
     \/ At("cancel_output") /\ ~fenced /\ Advance("clock_output")
     \/ At("cancel_output") /\ fenced /\ Abort
  /\ UNCHANGED <<lastClock, replay, counters, locals, uses, output>>

\* after_model_inference: the chunk is judged at the end of the inference.
ActionJudged ==
  /\ At("cancel_inferred")
  /\ IF Acceptable(chunk, observation, lastClock)
       THEN Advance("cancel_output") /\ UNCHANGED <<rejected, stale>>
       ELSE RefuseAction
  /\ UNCHANGED <<lastClock, replay, attempted, succeeded, locals, uses, output>>

\* Mutant: the output boundary trusts the verdict reached after inference.
OutputTimedOnce(now) ==
  /\ At("clock_output")
  /\ now >= lastClock
  /\ lastClock' = now
  /\ Advance("cancel_apply")
  /\ UNCHANGED <<replay, counters, locals, uses, output>>

\* Both are judged again at the instant of the output.
OutputTimed(now) ==
  /\ At("clock_output")
  /\ now >= lastClock
  /\ lastClock' = now
  /\ CASE ~Fresh(observation, now) -> RefuseObservation(observation, now)
       [] Fresh(observation, now) /\ ~Acceptable(chunk, observation, now) -> RefuseAction
       [] OTHER -> Advance("cancel_apply") /\ UNCHANGED <<rejected, stale>>
  /\ UNCHANGED <<replay, attempted, succeeded, locals, uses, output>>

\* Mutant: the fence is not looked at again after the last cancellation check.
ApplyUnfenced ==
  /\ At("cancel_apply")
  /\ Advance("apply")
  /\ uses' = [uses EXCEPT ![observation.id] = @ + 1]
  /\ output' = [observation |-> observation, chunk |-> chunk, now |-> lastClock]
  /\ UNCHANGED <<lastClock, replay, counters, locals>>

Apply ==
  /\ At("cancel_apply")
  /\ IF fenced
       THEN Abort
       ELSE /\ Advance("apply")
            /\ uses' = [uses EXCEPT ![observation.id] = @ + 1]
            /\ output' = [observation |-> observation, chunk |-> chunk, now |-> lastClock]
  /\ UNCHANGED <<lastClock, replay, counters, locals>>

ApplyReturns ==
  /\ At("apply")
  /\ succeeded' = succeeded + 1
  /\ Advance("idle")
  /\ UNCHANGED <<lastClock, replay, attempted, rejected, stale, locals, uses, output>>

\* Any call may fail: the adapter raises or returns something else than its
\* contract, the observation is inadmissible, the caller has cancelled, the
\* clock goes back or is out of bounds.  An open that raises may hold its device, and
\* an arm that raises may have armed the robot.
CallFails ==
  /\ pc \in Callback
  /\ Unwound
  /\ pc' = "ending"
  /\ BeginCleanup
  /\ held' = held \cup Opening
  /\ armed' = (armed \/ pc = "arm")
  /\ UNCHANGED <<overtaken, lastClock, replay, counters, locals>>

-----------------------------------------------------------------------------

(* RuntimeTelemetrySummary.from_dict *)
TelemetryContract ==
  /\ succeeded + rejected + stale <= attempted
  /\ stopCalls <= 1
  /\ stopCalls = 0 <=> stopConfirmed = "none"
  /\ state = "SAFE_STOPPED" => stopCalls = 1 /\ stopConfirmed = "confirmed"

StepReturns ==
  \/ \E o \in Observation : SensorReturns(o)
  \/ \E now \in Instant : ObservationTimed(now) \/ InferenceTimed(now) \/ OutputTimed(now)
  \/ \E a \in ActionChunk : ModelReturns(a)
  \/ NotCancelled \/ ActionJudged \/ Apply \/ ApplyReturns

CallReturns ==
  \/ SensorOpens \/ ModelOpens \/ RobotOpens \/ RobotArms
  \/ StepReturns
  \/ CallFails

Cleanup == SafeStopReturns \/ CloseNext \/ CleanupEnds

Next ==
  \/ Prepare \/ Arm \/ Step \/ InvalidCall \/ Close
  \/ NestedClose
  \/ CallReturns
  \/ Cleanup

\* Adapter calls return or raise, the cleanup loop runs to its end, and a session
\* used as a context manager is left in the end.
Fairness == WF_vars(CallReturns) /\ WF_vars(Cleanup) /\ SF_vars(Close)

Spec == Init /\ [][Next]_vars /\ Fairness

-----------------------------------------------------------------------------
(* Properties                                                              *)

\* The robot's life as the abstract lease sees it: from the registration of its closer,
\* right before open is called, until that closer is run.
Lease == INSTANCE RobotLease WITH
  phase <- IF "robot" \in opened
             THEN IF stopCalls = 0 THEN "live" ELSE "stopped"
             ELSE IF stopCalls = 0 THEN "unopened" ELSE "closed"

\* Whatever the calls do and wherever a nested close lands, the session drives
\* the robot as RobotLease says: no output once a stop has been requested, one
\* stop, before the robot's closer, one output at most per observation.
RefinesLease == Lease!LeaseSpec

\* A chunk that reached the robot was, at the reading of the output boundary,
\* inside its validity window and limits, computed from the observation named,
\* and neither it nor the observation was older than the plan allows.
FreshOutput ==
  output # None =>
    /\ output.now - output.observation.captured <= MaxObservationAge
    /\ output.now - output.chunk.created <= MaxActionAge
    /\ output.chunk.validFrom <= output.now /\ output.now < output.chunk.expires
    /\ output.chunk.source = output.observation.id
    /\ output.chunk.matches /\ output.chunk.inLimits

\* The closers run in the reverse order of the opens: one is run only when no closer
\* registered after it is still to run.
Later(a) == CASE a = "sensor" -> {"model", "robot"} [] a = "model" -> {"robot"} [] OTHER -> {}

ReverseOrder == [][\A a \in opened \ opened' : opened' \cap Later(a) = {}]_vars

\* The adapters that a close overtook while they were being opened: the close ran their
\* closer, and prepare() registers no other (session.py:142-149).
OpenedLate == {a \in Adapter : OpenCallOf[a] \in overtaken}

\* A session that has come to rest in CLOSED holds nothing that any open, even a failed
\* one, may have acquired, but for the adapters that a close overtook in their open.
\* Where no call closes the session it holds nothing at all.
OnlyLateOpensHeld ==
  pc = "idle" /\ state = "CLOSED" =>
    held \subseteq OpenedLate /\ (Reentrant \/ held = {})

\* Unless read by the stop itself, while it has no verdict, RuntimeTelemetrySummary
\* accepts the session's counters (it raises otherwise): an attempted step has one
\* outcome at most, and a stop is counted, judged and shown in step.
TelemetryAccepted == ~stopping => TelemetryContract

\* What was opened is let go in the end, after a failure as after a close, but for an
\* adapter that a close overtook in its open.
EventuallyReleased == held # {} ~> held \subseteq OpenedLate

\* A robot whose closer has run and whose stop is over is disarmed, or else it was
\* reported: both the safe stop and the closer failed, in either order, and
\* RuntimeCleanupError names them.  This is not so for a robot that a close overtook
\* while it was opened or armed: arm() arms it after its stop and reports nothing.
ArmedIsReported ==
  armed /\ "robot" \notin opened /\ ~stopping /\ overtaken \cap RobotCall = {}
    => {"safe_stop", "robot"} \subseteq failures
=============================================================================
