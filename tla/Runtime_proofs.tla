----------------------------- MODULE Runtime_proofs -----------------------------
(***************************************************************************)
(* Proofs about the runtime package.  Safety of RuntimeSession for every    *)
(* set of observations, chunks and clock readings and every bound, with or  *)
(* without nested closes; then, of the contracts that share no state with    *)
(* it, the soundness of the admission of a run (PhysicalRun) for every       *)
(* manifest and protocol, the resolution of a plan (RuntimeRegistry) for     *)
(* all bundles, targets and adapters, and the routing of a skill             *)
(* (SkillRouting) for all catalogs, projections and questions.              *)
(***************************************************************************)
EXTENDS RuntimeSession, RuntimeContracts, FiniteSetTheorems,
        WellFoundedInduction, TLAPS

\* The part of prepare() in which the robot has not been touched.
Before == pc \in {"open_sensor", "open_model"} \/ (pc = "idle" /\ state = "VALIDATED")

\* The calls during which, unless the fence is up, the robot is open.
Driving == pc \in {"open_robot", "cancel_arm", "arm"} \cup StepCall \/ (pc = "idle" /\ state \in Live)

\* The robot's closer, robotOpen and the stop: what each says of the others.
LeaseInv ==
  /\ stopCalls = IF stopAttempted THEN 1 ELSE 0
  /\ "robot" \in opened => robotOpen
  /\ robotOpen /\ ~stopAttempted => "robot" \in opened
  /\ closing /\ robotOpen => stopAttempted
  /\ stopping => stopAttempted
  /\ stopAttempted => fenced
  /\ Before => ~robotOpen /\ ~stopAttempted
  /\ Driving /\ ~fenced => robotOpen
  /\ pc = "idle" => Unwound
  /\ pc \in StepCall => state \notin {"VALIDATED", "PREPARED"}

\* What may be held is on the closers' stack, or was opened late; and the adapter that is
\* being opened is on the stack until a close lands in that call.
HeldInv ==
  /\ held \subseteq opened \cup OpenedLate
  /\ pc \in OpenCall /\ ~Unwound => pc \in overtaken
  /\ Opening \subseteq opened \cup OpenedLate
  /\ ~Reentrant => overtaken = {}

Recorded == {"cancel_infer", "clock_infer", "predict", "clock_inferred", "cancel_inferred",
             "cancel_output", "clock_output", "cancel_apply"}

Predicted == {"clock_inferred", "cancel_inferred", "cancel_output", "clock_output",
              "cancel_apply"}

\* An observation is new until it is recorded, and unused until it is applied.
ReplayInv ==
  /\ \A id \in ObservationId : uses[id] # 0 => id \in seen
  /\ pc = "clock_observed" => observation \in Observation /\ observation.id \notin seen
  /\ pc \in Recorded =>
       observation \in Observation /\ observation.id \in seen /\ uses[observation.id] = 0
  /\ pc \in Predicted => chunk \in ActionChunk
  /\ pc = "cancel_apply" =>
       Fresh(observation, lastClock) /\ Acceptable(chunk, observation, lastClock)

\* A step in progress has not been counted yet, nor has a stop its verdict.
CounterInv ==
  /\ succeeded + rejected + stale <= attempted
  /\ pc \in StepCall => succeeded + rejected + stale < attempted
  /\ stopping => stopConfirmed = "none"
  /\ ~stopping => (stopAttempted <=> stopConfirmed # "none")
  /\ state = "SAFE_STOPPED" => stopConfirmed = "confirmed"

\* Once closed, only prepare() can put something into the closers' stack.
ClosedInv == state = "CLOSED" /\ pc \in StepCall \cup {"idle"} => opened = {}

IInv == TypeOK /\ LeaseInv /\ HeldInv /\ ReplayInv /\ CounterInv /\ FreshOutput /\ ClosedInv

-----------------------------------------------------------------------------
\* The variables a shutdown, and only a shutdown, writes while a step runs.
FrameTypeOK ==
  /\ state \in RuntimeState
  /\ opened \in SUBSET Adapter
  /\ robotOpen \in BOOLEAN
  /\ failures \in SUBSET (Adapter \cup {"safe_stop"})
  /\ fenced \in BOOLEAN /\ stopAttempted \in BOOLEAN
  /\ stopConfirmed \in {"none", "confirmed", "failed"}
  /\ stopping \in BOOLEAN /\ closing \in BOOLEAN
  /\ held \in SUBSET Adapter
  /\ armed \in BOOLEAN
  /\ stopCalls \in Nat

\* A shutdown keeps their types, whether or not a stop is due.
LEMMA ShutdownTypes == TypeOK /\ Shutdown => FrameTypeOK' /\ UNCHANGED <<uses, output>>
<1> SUFFICES ASSUME TypeOK, Shutdown PROVE FrameTypeOK' /\ UNCHANGED <<uses, output>>
  OBVIOUS
<1> USE DEF TypeOK, FrameTypeOK, Shutdown, BeginCleanup, lifecycle
<1>1. CASE StopDue
  BY <1>1
<1>2. CASE ~StopDue
  BY <1>2
<1>3. QED
  BY <1>1, <1>2

\* So does a step that only goes on to its next call.
LEMMA AdvanceTypes ==
  ASSUME NEW point, TypeOK, Advance(point)
  PROVE  FrameTypeOK' /\ UNCHANGED overtaken /\ pc' = point
BY DEF TypeOK, FrameTypeOK, Advance, stepFrame, fence, frames

\* Only adapters are opened.
LEMMA OpeningType == Opening \in SUBSET Adapter
BY DEF Opening

\* Every action keeps the types.
LEMMA TypeOKStep == TypeOK /\ ReplayInv /\ [Next]_vars => TypeOK'
<1> SUFFICES ASSUME TypeOK /\ ReplayInv, [Next]_vars PROVE TypeOK'
  OBVIOUS
<1> USE SessionAssumption DEF ObservationAccepted, ChunkAccepted, TypeOK, ReplayInv, Recorded, Predicted, FrameTypeOK, At, Unwound, lifecycle, fence, replay, counters, frames, locals, adapters, Adapter, RuntimeState, Live, OpenCall, CancelCall, ClockCall, StepCall, Callback
<1>1. CASE Prepare
  BY <1>1, OpeningType DEF Prepare, CallOpen
<1>2. CASE Arm
  BY <1>2 DEF Arm
<1>3. CASE Step
  BY <1>3 DEF Step, stepFrame
<1>4. CASE InvalidCall
  BY <1>4, ShutdownTypes DEF InvalidCall, Abort
<1>5. CASE Close
  BY <1>5, ShutdownTypes DEF Close, Abort
<1>6. CASE NestedClose
  BY <1>6, ShutdownTypes DEF NestedClose
<1>7. CASE SensorOpens
  BY <1>7, OpeningType DEF SensorOpens, CallOpen
<1>8. CASE ModelOpens
  BY <1>8, OpeningType DEF ModelOpens, CallOpen
<1>9. CASE RobotOpens
  BY <1>9, OpeningType DEF RobotOpens
<1>10. CASE RobotArms
  BY <1>10 DEF RobotArms
<1>11. ASSUME NEW o \in Observation, SensorReturns(o) PROVE TypeOK'
  BY <1>11 DEF SensorReturns, ObservationAdmissible, stepFrame
<1>12. ASSUME NEW now \in Instant, ObservationTimed(now) PROVE TypeOK'
  <2>1. CASE Fresh(observation, now)
    BY <1>12, <2>1, ShutdownTypes, AdvanceTypes DEF ObservationTimed, RefuseObservation, Abort, Fresh, stepFrame
  <2>2. CASE ~Fresh(observation, now)
    BY <1>12, <2>2, ShutdownTypes, AdvanceTypes DEF ObservationTimed, RefuseObservation, Abort, Fresh, stepFrame
  <2>3. QED
    BY <2>1, <2>2
<1>13. ASSUME NEW now \in Instant, InferenceTimed(now) PROVE TypeOK'
  <2>1. CASE At("clock_infer") /\ Advance("predict")
    BY <1>13, <2>1, AdvanceTypes DEF InferenceTimed
  <2>2. CASE At("clock_inferred") /\ Advance("cancel_inferred")
    BY <1>13, <2>2, AdvanceTypes DEF InferenceTimed
  <2>3. QED
    BY <1>13, <2>1, <2>2 DEF InferenceTimed
<1>14. ASSUME NEW now \in Instant, OutputTimed(now) PROVE TypeOK'
  BY <1>14, ShutdownTypes, AdvanceTypes DEF OutputTimed, RefuseObservation, RefuseAction, Abort, stepFrame
<1>15. ASSUME NEW a \in ActionChunk, ModelReturns(a) PROVE TypeOK'
  BY <1>15, AdvanceTypes DEF ModelReturns, stepFrame
<1>16. CASE NotCancelled
  <2>1. CASE pc = "cancel_arm"
    BY <1>16, <2>1, ShutdownTypes, AdvanceTypes DEF NotCancelled, Abort, stepFrame
  <2>2. CASE pc = "cancel_read"
    BY <1>16, <2>2, ShutdownTypes, AdvanceTypes DEF NotCancelled, Abort, stepFrame
  <2>3. CASE pc = "cancel_infer"
    BY <1>16, <2>3, ShutdownTypes, AdvanceTypes DEF NotCancelled, Abort, stepFrame
  <2>4. CASE pc = "cancel_output" /\ ~fenced
    BY <1>16, <2>4, ShutdownTypes, AdvanceTypes DEF NotCancelled, Abort, stepFrame
  <2>5. CASE pc = "cancel_output" /\ fenced
    BY <1>16, <2>5, ShutdownTypes, AdvanceTypes DEF NotCancelled, Abort, stepFrame
  <2>6. QED
    BY <2>1, <2>2, <2>3, <2>4, <2>5, <1>16 DEF NotCancelled
<1>17. CASE ActionJudged
  <2>1. CASE Acceptable(chunk, observation, lastClock)
    BY <1>17, <2>1, ShutdownTypes, AdvanceTypes DEF ActionJudged, RefuseAction, Abort, stepFrame
  <2>2. CASE ~Acceptable(chunk, observation, lastClock)
    BY <1>17, <2>2, ShutdownTypes, AdvanceTypes DEF ActionJudged, RefuseAction, Abort, stepFrame
  <2>3. QED
    BY <2>1, <2>2
<1>18. CASE Apply
  <2>1. CASE fenced
    BY <1>18, <2>1, ShutdownTypes, AdvanceTypes DEF Apply, Abort, stepFrame
  <2>2. CASE ~fenced
    BY <1>18, <2>2, ShutdownTypes, AdvanceTypes DEF Apply, Abort, stepFrame
  <2>3. QED
    BY <2>1, <2>2
<1>19. CASE ApplyReturns
  BY <1>19, AdvanceTypes DEF ApplyReturns, stepFrame
<1>20. CASE CallFails
  <2>1. held' \in SUBSET Adapter /\ armed' \in BOOLEAN
    BY <1>20, OpeningType DEF CallFails
  <2>2. CASE StopDue
    BY <1>20, <2>1, <2>2 DEF CallFails, BeginCleanup
  <2>3. CASE ~StopDue
    BY <1>20, <2>1, <2>3 DEF CallFails, BeginCleanup
  <2>4. QED
    BY <2>2, <2>3
<1>21. CASE SafeStopReturns
  <2>1. failures' \in SUBSET (Adapter \cup {"safe_stop"})
    BY <1>21 DEF SafeStopReturns
  <2>2. /\ state' \in RuntimeState /\ armed' \in BOOLEAN
        /\ stopConfirmed' \in {"none", "confirmed", "failed"}
    BY <1>21 DEF SafeStopReturns
  <2>3. /\ opened' \in SUBSET Adapter /\ held' \in SUBSET Adapter
        /\ robotOpen' \in BOOLEAN /\ fenced' \in BOOLEAN /\ stopAttempted' \in BOOLEAN
        /\ stopping' \in BOOLEAN /\ closing' \in BOOLEAN
    BY <1>21 DEF SafeStopReturns
  <2>4. UNCHANGED <<lastClock, replay, counters, pc, overtaken, locals, stopCalls, uses, output>>
    BY <1>21 DEF SafeStopReturns
  <2>5. QED
    BY <2>1, <2>2, <2>3, <2>4
<1>22. CASE CloseNext
  <2>1. LastOpened \in Adapter
    BY DEF LastOpened
  <2>2. failures' \in SUBSET (Adapter \cup {"safe_stop"})
    BY <1>22, <2>1 DEF CloseNext
  <2>3. armed' \in BOOLEAN
    BY <1>22 DEF CloseNext
  <2>4. opened' \in SUBSET Adapter /\ held' \in SUBSET Adapter
    BY <1>22, <2>1 DEF CloseNext
  <2>5. UNCHANGED <<state, robotOpen, fence, lastClock, replay, counters, pc, frames, locals,
                    stopCalls, uses, output>>
    BY <1>22 DEF CloseNext
  <2>6. QED
    BY <2>2, <2>3, <2>4, <2>5
<1>23. CASE CleanupEnds
  BY <1>23 DEF CleanupEnds
<1>24. CASE UNCHANGED vars
  BY <1>24 DEF vars
<1>25. QED
  BY <1>1, <1>2, <1>3, <1>4, <1>5, <1>6, <1>7, <1>8, <1>9, <1>10, <1>11, <1>12, <1>13, <1>14, <1>15, <1>16, <1>17, <1>18, <1>19, <1>20, <1>21, <1>22, <1>23, <1>24 DEF Next, CallReturns, StepReturns, Cleanup

\* Every action keeps the robot's lease in order.
LEMMA LeaseInvStep == TypeOK /\ LeaseInv /\ [Next]_vars => LeaseInv'
<1> SUFFICES ASSUME TypeOK /\ LeaseInv, [Next]_vars PROVE LeaseInv'
  OBVIOUS
<1> USE SessionAssumption DEF ObservationAccepted, ChunkAccepted, TypeOK, LeaseInv, Before, Driving, At, Unwound, lifecycle, fence, replay, counters, frames, locals, adapters, Adapter, RuntimeState, Live, OpenCall, CancelCall, ClockCall, StepCall, Callback
<1>1. CASE Prepare
  BY <1>1 DEF Prepare, CallOpen
<1>2. CASE Arm
  BY <1>2 DEF Arm
<1>3. CASE Step
  BY <1>3 DEF Step, stepFrame
<1>4. CASE InvalidCall
  BY <1>4 DEF InvalidCall, Abort, Shutdown, BeginCleanup, StopDue
<1>5. CASE Close
  BY <1>5 DEF Close, Abort, Shutdown, BeginCleanup, StopDue
<1>6. CASE NestedClose
  BY <1>6 DEF NestedClose, Shutdown, BeginCleanup, StopDue
<1>7. CASE SensorOpens
  BY <1>7 DEF SensorOpens, CallOpen
<1>8. CASE ModelOpens
  BY <1>8 DEF ModelOpens, CallOpen
<1>9. CASE RobotOpens
  BY <1>9 DEF RobotOpens
<1>10. CASE RobotArms
  BY <1>10 DEF RobotArms
<1>11. ASSUME NEW o \in Observation, SensorReturns(o) PROVE LeaseInv'
  BY <1>11 DEF SensorReturns, ObservationAdmissible, stepFrame
<1>12. ASSUME NEW now \in Instant, ObservationTimed(now) PROVE LeaseInv'
  BY <1>12 DEF ObservationTimed, Advance, RefuseObservation, Abort, Shutdown, BeginCleanup, StopDue, Fresh, stepFrame
<1>13. ASSUME NEW now \in Instant, InferenceTimed(now) PROVE LeaseInv'
  BY <1>13 DEF InferenceTimed, Advance, stepFrame
<1>14. ASSUME NEW now \in Instant, OutputTimed(now) PROVE LeaseInv'
  BY <1>14 DEF OutputTimed, Advance, RefuseObservation, RefuseAction, Abort, Shutdown, BeginCleanup, StopDue, stepFrame
<1>15. ASSUME NEW a \in ActionChunk, ModelReturns(a) PROVE LeaseInv'
  BY <1>15 DEF ModelReturns, Advance, stepFrame
<1>16. CASE NotCancelled
  BY <1>16 DEF NotCancelled, Advance, Abort, Shutdown, BeginCleanup, StopDue, stepFrame
<1>17. CASE ActionJudged
  BY <1>17 DEF ActionJudged, Advance, RefuseAction, Abort, Shutdown, BeginCleanup, StopDue, stepFrame
<1>18. CASE Apply
  BY <1>18 DEF Apply, Advance, Abort, Shutdown, BeginCleanup, StopDue, stepFrame
<1>19. CASE ApplyReturns
  BY <1>19 DEF ApplyReturns, Advance, stepFrame
<1>20. CASE CallFails
  BY <1>20 DEF CallFails, BeginCleanup, StopDue
<1>21. CASE SafeStopReturns
  BY <1>21 DEF SafeStopReturns
<1>22. CASE CloseNext
  BY <1>22 DEF CloseNext, LastOpened
<1>23. CASE CleanupEnds
  BY <1>23 DEF CleanupEnds
<1>24. CASE UNCHANGED vars
  BY <1>24 DEF vars
<1>25. QED
  BY <1>1, <1>2, <1>3, <1>4, <1>5, <1>6, <1>7, <1>8, <1>9, <1>10, <1>11, <1>12, <1>13, <1>14, <1>15, <1>16, <1>17, <1>18, <1>19, <1>20, <1>21, <1>22, <1>23, <1>24 DEF Next, CallReturns, StepReturns, Cleanup

\* Every action keeps new observations new and recorded ones unused.
LEMMA ReplayInvStep == TypeOK /\ LeaseInv /\ ReplayInv /\ [Next]_vars => ReplayInv'
<1> SUFFICES ASSUME TypeOK /\ LeaseInv /\ ReplayInv, [Next]_vars PROVE ReplayInv'
  OBVIOUS
<1> USE SessionAssumption DEF ObservationAccepted, ChunkAccepted, TypeOK, ReplayInv, Recorded, Predicted, At, lifecycle, fence, replay, counters, frames, locals, adapters, Adapter, RuntimeState, Live, OpenCall, CancelCall, ClockCall, StepCall, Callback
<1>1. CASE Prepare
  BY <1>1 DEF Prepare, CallOpen
<1>2. CASE Arm
  BY <1>2 DEF Arm
<1>3. CASE Step
  BY <1>3 DEF Step, stepFrame
<1>4. CASE InvalidCall
  BY <1>4 DEF InvalidCall, Abort, Shutdown, BeginCleanup, StopDue
<1>5. CASE Close
  BY <1>5 DEF Close, Abort, Shutdown, BeginCleanup, StopDue
<1>6. CASE NestedClose
  BY <1>6 DEF NestedClose, Shutdown, BeginCleanup, StopDue
<1>7. CASE SensorOpens
  BY <1>7 DEF SensorOpens, CallOpen
<1>8. CASE ModelOpens
  BY <1>8 DEF ModelOpens, CallOpen
<1>9. CASE RobotOpens
  BY <1>9 DEF RobotOpens
<1>10. CASE RobotArms
  BY <1>10 DEF RobotArms
<1>11. ASSUME NEW o \in Observation, SensorReturns(o) PROVE ReplayInv'
  BY <1>11 DEF SensorReturns, ObservationAdmissible, stepFrame
<1>12. ASSUME NEW now \in Instant, ObservationTimed(now) PROVE ReplayInv'
  BY <1>12 DEF ObservationTimed, Advance, RefuseObservation, Abort, Shutdown, BeginCleanup, StopDue, Fresh, stepFrame
<1>13. ASSUME NEW now \in Instant, InferenceTimed(now) PROVE ReplayInv'
  BY <1>13 DEF InferenceTimed, Advance, stepFrame
<1>14. ASSUME NEW now \in Instant, OutputTimed(now) PROVE ReplayInv'
  BY <1>14 DEF OutputTimed, Advance, RefuseObservation, RefuseAction, Abort, Shutdown, BeginCleanup, StopDue, stepFrame
<1>15. ASSUME NEW a \in ActionChunk, ModelReturns(a) PROVE ReplayInv'
  BY <1>15 DEF ModelReturns, Advance, stepFrame
<1>16. CASE NotCancelled
  BY <1>16 DEF NotCancelled, Advance, Abort, Shutdown, BeginCleanup, StopDue, stepFrame
<1>17. CASE ActionJudged
  BY <1>17 DEF ActionJudged, Advance, RefuseAction, Abort, Shutdown, BeginCleanup, StopDue, stepFrame
<1>18. CASE Apply
  BY <1>18 DEF Apply, Advance, Abort, Shutdown, BeginCleanup, StopDue, stepFrame
<1>19. CASE ApplyReturns
  BY <1>19 DEF ApplyReturns, Advance, stepFrame
<1>20. CASE CallFails
  BY <1>20 DEF CallFails, BeginCleanup, StopDue
<1>21. CASE SafeStopReturns
  BY <1>21 DEF SafeStopReturns
<1>22. CASE CloseNext
  BY <1>22 DEF CloseNext, LastOpened
<1>23. CASE CleanupEnds
  BY <1>23 DEF CleanupEnds
<1>24. CASE UNCHANGED vars
  BY <1>24 DEF vars
<1>25. QED
  BY <1>1, <1>2, <1>3, <1>4, <1>5, <1>6, <1>7, <1>8, <1>9, <1>10, <1>11, <1>12, <1>13, <1>14, <1>15, <1>16, <1>17, <1>18, <1>19, <1>20, <1>21, <1>22, <1>23, <1>24 DEF Next, CallReturns, StepReturns, Cleanup

\* Every action keeps one outcome for each attempted step.
LEMMA CounterInvStep == TypeOK /\ LeaseInv /\ CounterInv /\ [Next]_vars => CounterInv'
<1> SUFFICES ASSUME TypeOK /\ LeaseInv /\ CounterInv, [Next]_vars PROVE CounterInv'
  OBVIOUS
<1> USE SessionAssumption DEF ObservationAccepted, ChunkAccepted, TypeOK, LeaseInv, CounterInv, At, Unwound, lifecycle, fence, replay, counters, frames, locals, adapters, Adapter, RuntimeState, Live, OpenCall, CancelCall, ClockCall, StepCall, Callback
<1>1. CASE Prepare
  BY <1>1 DEF Prepare, CallOpen
<1>2. CASE Arm
  BY <1>2 DEF Arm
<1>3. CASE Step
  BY <1>3 DEF Step, stepFrame
<1>4. CASE InvalidCall
  BY <1>4 DEF InvalidCall, Abort, Shutdown, BeginCleanup, StopDue
<1>5. CASE Close
  BY <1>5 DEF Close, Abort, Shutdown, BeginCleanup, StopDue
<1>6. CASE NestedClose
  BY <1>6 DEF NestedClose, Shutdown, BeginCleanup, StopDue
<1>7. CASE SensorOpens
  BY <1>7 DEF SensorOpens, CallOpen
<1>8. CASE ModelOpens
  BY <1>8 DEF ModelOpens, CallOpen
<1>9. CASE RobotOpens
  BY <1>9 DEF RobotOpens
<1>10. CASE RobotArms
  BY <1>10 DEF RobotArms
<1>11. ASSUME NEW o \in Observation, SensorReturns(o) PROVE CounterInv'
  BY <1>11 DEF SensorReturns, ObservationAdmissible, stepFrame
<1>12. ASSUME NEW now \in Instant, ObservationTimed(now) PROVE CounterInv'
  BY <1>12 DEF ObservationTimed, Advance, RefuseObservation, Abort, Shutdown, BeginCleanup, StopDue, Fresh, stepFrame
<1>13. ASSUME NEW now \in Instant, InferenceTimed(now) PROVE CounterInv'
  BY <1>13 DEF InferenceTimed, Advance, stepFrame
<1>14. ASSUME NEW now \in Instant, OutputTimed(now) PROVE CounterInv'
  BY <1>14 DEF OutputTimed, Advance, RefuseObservation, RefuseAction, Abort, Shutdown, BeginCleanup, StopDue, stepFrame
<1>15. ASSUME NEW a \in ActionChunk, ModelReturns(a) PROVE CounterInv'
  BY <1>15 DEF ModelReturns, Advance, stepFrame
<1>16. CASE NotCancelled
  BY <1>16 DEF NotCancelled, Advance, Abort, Shutdown, BeginCleanup, StopDue, stepFrame
<1>17. CASE ActionJudged
  BY <1>17 DEF ActionJudged, Advance, RefuseAction, Abort, Shutdown, BeginCleanup, StopDue, stepFrame
<1>18. CASE Apply
  BY <1>18 DEF Apply, Advance, Abort, Shutdown, BeginCleanup, StopDue, stepFrame
<1>19. CASE ApplyReturns
  BY <1>19 DEF ApplyReturns, Advance, stepFrame
<1>20. CASE CallFails
  BY <1>20 DEF CallFails, BeginCleanup, StopDue
<1>21. CASE SafeStopReturns
  BY <1>21 DEF SafeStopReturns
<1>22. CASE CloseNext
  BY <1>22 DEF CloseNext, LastOpened
<1>23. CASE CleanupEnds
  BY <1>23 DEF CleanupEnds
<1>24. CASE UNCHANGED vars
  BY <1>24 DEF vars
<1>25. QED
  BY <1>1, <1>2, <1>3, <1>4, <1>5, <1>6, <1>7, <1>8, <1>9, <1>10, <1>11, <1>12, <1>13, <1>14, <1>15, <1>16, <1>17, <1>18, <1>19, <1>20, <1>21, <1>22, <1>23, <1>24 DEF Next, CallReturns, StepReturns, Cleanup

\* Only the output boundary writes the output record.
LEMMA FreshOutputStep == TypeOK /\ ReplayInv /\ FreshOutput /\ [Next]_vars => FreshOutput'
<1> SUFFICES ASSUME TypeOK /\ ReplayInv /\ FreshOutput, [Next]_vars PROVE FreshOutput'
  OBVIOUS
<1> USE SessionAssumption DEF ObservationAccepted, ChunkAccepted, TypeOK, ReplayInv, FreshOutput, Fresh, Acceptable, At, lifecycle, fence, replay, counters, frames, locals, adapters, Adapter, RuntimeState, Live, OpenCall, CancelCall, ClockCall, StepCall, Callback
<1>1. CASE Prepare
  BY <1>1 DEF Prepare, CallOpen
<1>2. CASE Arm
  BY <1>2 DEF Arm
<1>3. CASE Step
  BY <1>3 DEF Step, stepFrame
<1>4. CASE InvalidCall
  BY <1>4 DEF InvalidCall, Abort, Shutdown, BeginCleanup, StopDue
<1>5. CASE Close
  BY <1>5 DEF Close, Abort, Shutdown, BeginCleanup, StopDue
<1>6. CASE NestedClose
  BY <1>6 DEF NestedClose, Shutdown, BeginCleanup, StopDue
<1>7. CASE SensorOpens
  BY <1>7 DEF SensorOpens, CallOpen
<1>8. CASE ModelOpens
  BY <1>8 DEF ModelOpens, CallOpen
<1>9. CASE RobotOpens
  BY <1>9 DEF RobotOpens
<1>10. CASE RobotArms
  BY <1>10 DEF RobotArms
<1>11. ASSUME NEW o \in Observation, SensorReturns(o) PROVE FreshOutput'
  BY <1>11 DEF SensorReturns, ObservationAdmissible, stepFrame
<1>12. ASSUME NEW now \in Instant, ObservationTimed(now) PROVE FreshOutput'
  BY <1>12 DEF ObservationTimed, Advance, RefuseObservation, Abort, Shutdown, BeginCleanup, StopDue, Fresh, stepFrame
<1>13. ASSUME NEW now \in Instant, InferenceTimed(now) PROVE FreshOutput'
  BY <1>13 DEF InferenceTimed, Advance, stepFrame
<1>14. ASSUME NEW now \in Instant, OutputTimed(now) PROVE FreshOutput'
  BY <1>14 DEF OutputTimed, Advance, RefuseObservation, RefuseAction, Abort, Shutdown, BeginCleanup, StopDue, stepFrame
<1>15. ASSUME NEW a \in ActionChunk, ModelReturns(a) PROVE FreshOutput'
  BY <1>15 DEF ModelReturns, Advance, stepFrame
<1>16. CASE NotCancelled
  BY <1>16 DEF NotCancelled, Advance, Abort, Shutdown, BeginCleanup, StopDue, stepFrame
<1>17. CASE ActionJudged
  BY <1>17 DEF ActionJudged, Advance, RefuseAction, Abort, Shutdown, BeginCleanup, StopDue, stepFrame
<1>18. CASE Apply
  BY <1>18 DEF Apply, Advance, Abort, Shutdown, BeginCleanup, StopDue, stepFrame
<1>19. CASE ApplyReturns
  BY <1>19 DEF ApplyReturns, Advance, stepFrame
<1>20. CASE CallFails
  BY <1>20 DEF CallFails, BeginCleanup, StopDue
<1>21. CASE SafeStopReturns
  BY <1>21 DEF SafeStopReturns
<1>22. CASE CloseNext
  BY <1>22 DEF CloseNext, LastOpened
<1>23. CASE CleanupEnds
  BY <1>23 DEF CleanupEnds
<1>24. CASE UNCHANGED vars
  BY <1>24 DEF vars
<1>25. QED
  BY <1>1, <1>2, <1>3, <1>4, <1>5, <1>6, <1>7, <1>8, <1>9, <1>10, <1>11, <1>12, <1>13, <1>14, <1>15, <1>16, <1>17, <1>18, <1>19, <1>20, <1>21, <1>22, <1>23, <1>24 DEF Next, CallReturns, StepReturns, Cleanup

\* Nothing is opened behind a closed session but by prepare().
LEMMA ClosedInvStep == TypeOK /\ LeaseInv /\ ClosedInv /\ [Next]_vars => ClosedInv'
<1> SUFFICES ASSUME TypeOK /\ LeaseInv /\ ClosedInv, [Next]_vars PROVE ClosedInv'
  OBVIOUS
<1> USE SessionAssumption DEF ObservationAccepted, ChunkAccepted, TypeOK, LeaseInv, ClosedInv, At, Unwound, lifecycle, fence, replay, counters, frames, locals, adapters, Adapter, RuntimeState, Live, OpenCall, CancelCall, ClockCall, StepCall, Callback
<1>1. CASE Prepare
  BY <1>1 DEF Prepare, CallOpen
<1>2. CASE Arm
  BY <1>2 DEF Arm
<1>3. CASE Step
  BY <1>3 DEF Step, stepFrame
<1>4. CASE InvalidCall
  BY <1>4 DEF InvalidCall, Abort, Shutdown, BeginCleanup, StopDue
<1>5. CASE Close
  BY <1>5 DEF Close, Abort, Shutdown, BeginCleanup, StopDue
<1>6. CASE NestedClose
  BY <1>6 DEF NestedClose, Shutdown, BeginCleanup, StopDue
<1>7. CASE SensorOpens
  BY <1>7 DEF SensorOpens, CallOpen
<1>8. CASE ModelOpens
  BY <1>8 DEF ModelOpens, CallOpen
<1>9. CASE RobotOpens
  BY <1>9 DEF RobotOpens
<1>10. CASE RobotArms
  BY <1>10 DEF RobotArms
<1>11. ASSUME NEW o \in Observation, SensorReturns(o) PROVE ClosedInv'
  BY <1>11 DEF SensorReturns, ObservationAdmissible, stepFrame
<1>12. ASSUME NEW now \in Instant, ObservationTimed(now) PROVE ClosedInv'
  BY <1>12 DEF ObservationTimed, Advance, RefuseObservation, Abort, Shutdown, BeginCleanup, StopDue, Fresh, stepFrame
<1>13. ASSUME NEW now \in Instant, InferenceTimed(now) PROVE ClosedInv'
  BY <1>13 DEF InferenceTimed, Advance, stepFrame
<1>14. ASSUME NEW now \in Instant, OutputTimed(now) PROVE ClosedInv'
  BY <1>14 DEF OutputTimed, Advance, RefuseObservation, RefuseAction, Abort, Shutdown, BeginCleanup, StopDue, stepFrame
<1>15. ASSUME NEW a \in ActionChunk, ModelReturns(a) PROVE ClosedInv'
  BY <1>15 DEF ModelReturns, Advance, stepFrame
<1>16. CASE NotCancelled
  BY <1>16 DEF NotCancelled, Advance, Abort, Shutdown, BeginCleanup, StopDue, stepFrame
<1>17. CASE ActionJudged
  BY <1>17 DEF ActionJudged, Advance, RefuseAction, Abort, Shutdown, BeginCleanup, StopDue, stepFrame
<1>18. CASE Apply
  BY <1>18 DEF Apply, Advance, Abort, Shutdown, BeginCleanup, StopDue, stepFrame
<1>19. CASE ApplyReturns
  BY <1>19 DEF ApplyReturns, Advance, stepFrame
<1>20. CASE CallFails
  BY <1>20 DEF CallFails, BeginCleanup, StopDue
<1>21. CASE SafeStopReturns
  BY <1>21 DEF SafeStopReturns
<1>22. CASE CloseNext
  BY <1>22 DEF CloseNext, LastOpened
<1>23. CASE CleanupEnds
  BY <1>23 DEF CleanupEnds
<1>24. CASE UNCHANGED vars
  BY <1>24 DEF vars
<1>25. QED
  BY <1>1, <1>2, <1>3, <1>4, <1>5, <1>6, <1>7, <1>8, <1>9, <1>10, <1>11, <1>12, <1>13, <1>14, <1>15, <1>16, <1>17, <1>18, <1>19, <1>20, <1>21, <1>22, <1>23, <1>24 DEF Next, CallReturns, StepReturns, Cleanup

-----------------------------------------------------------------------------
(* What is held                                                            *)

\* The steps outside prepare() and the cleanup acquire nothing and register no closer.
LEMMA CallsHoldNothing ==
  ASSUME IInv, Arm \/ Step \/ InvalidCall \/ Close \/ RobotArms \/ StepReturns
  PROVE  UNCHANGED <<held, opened, overtaken>> /\ pc' \notin OpenCall
<1> USE DEF OpenCall, At, Abort, Shutdown, BeginCleanup, Advance, stepFrame, adapters, lifecycle, frames
<1>1. CASE Arm \/ Step \/ InvalidCall \/ Close \/ RobotArms
  BY <1>1 DEF Arm, Step, InvalidCall, Close, RobotArms
<1>2. CASE StepReturns
  <2>1. ASSUME NEW o \in Observation, SensorReturns(o)
        PROVE  UNCHANGED <<held, opened, overtaken>> /\ pc' \notin OpenCall
    BY <2>1 DEF SensorReturns
  <2>2. ASSUME NEW now \in Instant, ObservationTimed(now) \/ InferenceTimed(now) \/ OutputTimed(now)
        PROVE  UNCHANGED <<held, opened, overtaken>> /\ pc' \notin OpenCall
    BY <2>2 DEF ObservationTimed, InferenceTimed, OutputTimed, RefuseObservation, RefuseAction
  <2>3. ASSUME NEW a \in ActionChunk, ModelReturns(a)
        PROVE  UNCHANGED <<held, opened, overtaken>> /\ pc' \notin OpenCall
    BY <2>3 DEF ModelReturns
  <2>4. CASE NotCancelled \/ ActionJudged \/ Apply \/ ApplyReturns
    BY <2>4 DEF NotCancelled, ActionJudged, Apply, ApplyReturns, RefuseAction
  <2> QED BY <1>2, <2>1, <2>2, <2>3, <2>4 DEF StepReturns
<1> QED BY <1>1, <1>2

\* Every action keeps what is held accounted for.
LEMMA HeldInvStep == IInv /\ [Next]_vars => HeldInv'
<1> SUFFICES ASSUME IInv, [Next]_vars PROVE HeldInv'
  OBVIOUS
<1> USE DEF HeldInv, OpenedLate, Opening
<1>1. CASE Arm \/ Step \/ InvalidCall \/ Close \/ RobotArms \/ StepReturns
  <2>1. UNCHANGED <<held, opened, overtaken>> /\ pc' \notin OpenCall
    BY <1>1, CallsHoldNothing
  <2> QED BY <2>1 DEF IInv, OpenCall, OpenCallOf, Adapter
\* Each open is registered before it is called, and overtaken by nobody yet.
<1>2. CASE Prepare \/ SensorOpens \/ ModelOpens \/ RobotOpens
  <2>1. Unwound /\ Unwound' /\ UNCHANGED overtaken
    BY <1>2 DEF Prepare, SensorOpens, ModelOpens, RobotOpens, At, Unwound, frames
  <2>2. \E a \in Adapter : CallOpen(a, OpenCallOf[a])
        \/ (pc' = "idle" /\ UNCHANGED opened /\ held' = held \cup Opening)
    BY <1>2 DEF Prepare, SensorOpens, ModelOpens, RobotOpens, Adapter, OpenCallOf
  <2> QED BY <2>1, <2>2 DEF CallOpen, IInv, Adapter, OpenCallOf
\* A close that lands in an open is remembered.
<1>3. CASE NestedClose
  BY <1>3 DEF NestedClose, Shutdown, BeginCleanup, lifecycle, IInv, Unguarded
<1>4. CASE CallFails
  BY <1>4 DEF CallFails, BeginCleanup, lifecycle, IInv, OpenCall, OpenCallOf, Adapter
\* While the cleanup lasts, the open that waits has been overtaken.
<1>5. CASE SafeStopReturns \/ CloseNext
  <2>1. ~Unwound /\ UNCHANGED <<pc, overtaken>>
    BY <1>5 DEF SafeStopReturns, CloseNext, Unwound, frames
  <2>2. Opening \subseteq OpenedLate
    BY <2>1 DEF IInv, OpenCall, OpenCallOf, Adapter
  <2>3. held' \subseteq opened' \cup OpenedLate
    BY <1>5 DEF SafeStopReturns, CloseNext, IInv
  <2>4. OpenedLate' = OpenedLate /\ Opening' = Opening
    BY <2>1
  <2> QED BY <2>1, <2>2, <2>3, <2>4 DEF IInv, OpenCall
<1>6. CASE CleanupEnds
  <2>1. /\ ~Unwound /\ UNCHANGED <<opened, overtaken, held>>
        /\ pc' = pc \/ pc' = "idle"
    BY <1>6 DEF CleanupEnds, Unwound, adapters
  <2> QED BY <2>1 DEF IInv, OpenCall, OpenCallOf, Adapter
<1>7. CASE UNCHANGED vars
  BY <1>7 DEF vars, lifecycle, adapters, frames, IInv, Unwound
<1> QED BY <1>1, <1>2, <1>3, <1>4, <1>5, <1>6, <1>7 DEF Next, CallReturns, Cleanup

\* The invariant holds initially: nothing is open, seen, counted or applied.
LEMMA InitIInv == Init => IInv
<1> SUFFICES ASSUME Init PROVE IInv
  OBVIOUS
<1> USE SessionAssumption DEF ObservationAccepted, ChunkAccepted, Init
<1>1. TypeOK
  <2>1. lastClock \in Int /\ lastSequence \in Int /\ lastCaptured \in Int /\ lastReceived \in Int
    OBVIOUS
  <2>2. uses \in [ObservationId -> Nat]
    OBVIOUS
  <2>3. state \in RuntimeState /\ pc \in Callback \cup {"idle", "ending"}
    BY DEF RuntimeState
  <2>4. opened \in SUBSET Adapter /\ held \in SUBSET Adapter
    OBVIOUS
  <2>5. attempted \in Nat /\ succeeded \in Nat /\ rejected \in Nat /\ stale \in Nat /\ stopCalls \in Nat
    OBVIOUS
  <2>6. QED
    BY <2>1, <2>2, <2>3, <2>4, <2>5 DEF TypeOK
<1>2. LeaseInv /\ HeldInv
  <2>1. LeaseInv
    BY DEF LeaseInv, Before, Driving, Unwound, Live, StepCall, CancelCall, ClockCall
  <2>2. HeldInv
    BY DEF HeldInv, OpenCall, Opening, OpenCallOf, Adapter
  <2> QED BY <2>1, <2>2
<1>3. ReplayInv
  BY DEF ReplayInv, Recorded, Predicted
<1>4. CounterInv
  BY DEF CounterInv, StepCall, CancelCall, ClockCall
<1>5. FreshOutput /\ ClosedInv
  BY DEF FreshOutput, ClosedInv
<1>6. QED
  BY <1>1, <1>2, <1>3, <1>4, <1>5 DEF IInv

\* IInv is inductive.
THEOREM Invariance == Spec => []IInv
<1>1. IInv /\ [Next]_vars => IInv'
  BY TypeOKStep, LeaseInvStep, HeldInvStep, ReplayInvStep, CounterInvStep, FreshOutputStep, ClosedInvStep
     DEF IInv
<1>2. QED
  BY InitIInv, <1>1, PTL DEF Spec

\* Type correctness of the session.
THEOREM TypeCorrect == Spec => []TypeOK
<1>1. IInv => TypeOK
  BY DEF IInv
<1>2. QED
  BY Invariance, <1>1, PTL

\* Whatever reaches the robot is fresh, valid, bound to its observation and inside
\* the limits at the output boundary (session.py:184-192).
THEOREM OutputIsFresh == Spec => []FreshOutput
<1>1. IInv => FreshOutput
  BY DEF IInv
<1>2. QED
  BY Invariance, <1>1, PTL

\* A session at rest in CLOSED has let go of every adapter it touched, but for one that a
\* close overtook in its open; without such closes, of every one.
THEOREM OnlyLateOpensLeak == Spec => []OnlyLateOpensHeld
<1>1. IInv => OnlyLateOpensHeld
  BY DEF IInv, HeldInv, ClosedInv, OnlyLateOpensHeld, OpenedLate
<1>2. QED
  BY Invariance, <1>1, PTL

\* Telemetry passes its own contract, whenever the stop has its verdict.
THEOREM TelemetryIsAccepted == Spec => []TelemetryAccepted
<1>1. IInv => TelemetryAccepted
  BY DEF IInv, TypeOK, LeaseInv, CounterInv, TelemetryAccepted, TelemetryContract
<1>2. QED
  BY Invariance, <1>1, PTL

\* A closer leaves the stack only by being run.
LEMMA OnlyClosersRelease == IInv /\ [Next]_vars /\ ~CloseNext => opened \subseteq opened'
<1> SUFFICES ASSUME IInv, [Next]_vars, ~CloseNext PROVE opened \subseteq opened'
  OBVIOUS
<1>1. CASE Prepare \/ SensorOpens \/ ModelOpens \/ RobotOpens \/ NestedClose \/ CallFails
  BY <1>1 DEF Prepare, SensorOpens, ModelOpens, CallOpen, RobotOpens, NestedClose, CallFails,
              Shutdown, BeginCleanup, lifecycle
<1>2. CASE Arm \/ Step \/ InvalidCall \/ Close \/ RobotArms \/ StepReturns
  BY <1>2, CallsHoldNothing
<1>3. CASE SafeStopReturns \/ CleanupEnds
  BY <1>3 DEF SafeStopReturns, CleanupEnds
<1>4. CASE UNCHANGED vars
  BY <1>4 DEF vars, lifecycle
<1> QED BY <1>1, <1>2, <1>3, <1>4 DEF Next, CallReturns, Cleanup

\* A closer is run when those registered after it have been.
THEOREM ClosersReverseOpens == Spec => ReverseOrder
<1> DEFINE LastOut == \A a \in opened \ opened' : opened' \cap Later(a) = {}
<1>1. IInv /\ [Next]_vars => [LastOut]_vars
  <2> SUFFICES ASSUME IInv, [Next]_vars PROVE LastOut
    OBVIOUS
  <2>1. CASE CloseNext
    BY <2>1 DEF CloseNext, LastOpened, Later, IInv, TypeOK, Adapter
  <2>2. CASE ~CloseNext
    BY <2>2, OnlyClosersRelease
  <2>3. QED
    BY <2>1, <2>2
<1>2. QED
  BY Invariance, <1>1, PTL DEF Spec, ReverseOrder

-----------------------------------------------------------------------------
(* A robot left armed is reported, unless a close overtook its open or its arm. *)

\* The part of prepare() and arm() in which the robot is not yet armed but will be.
Arming == pc \in RobotCall \/ (pc = "idle" /\ state = "PREPARED")

\* A robot to be armed waits to be stopped and closed; a stop that was confirmed has left
\* it disarmed, one that failed was reported; and a robot that is armed after its closer was
\* run has been asked to stop, and the failure of the closer was reported.
ArmedInv ==
  overtaken \cap RobotCall = {} =>
    /\ Arming => Unwound /\ ~stopAttempted /\ "robot" \in opened
    /\ stopConfirmed = "confirmed" => ~armed
    /\ stopConfirmed = "failed" => "safe_stop" \in failures
    /\ armed /\ "robot" \notin opened => stopAttempted /\ "robot" \in failures

\* ArmedInv says what ArmedIsReported does once the stop has its verdict.
LEMMA ArmedInvReports == IInv /\ ArmedInv => ArmedIsReported
BY DEF IInv, TypeOK, CounterInv, ArmedInv, ArmedIsReported

\* What ArmedInv reads but for the place of the caller.
armedVars == <<opened, failures, stopAttempted, stopConfirmed, armed>>

\* A step that leaves the robot and the arming call is none of ArmedInv's business.
LEMMA ArmedInvKept ==
  ASSUME ArmedInv, UNCHANGED armedVars, overtaken \subseteq overtaken',
         Arming' => overtaken' \cap RobotCall # {} \/ (Arming /\ Unwound')
  PROVE  ArmedInv'
BY DEF ArmedInv, armedVars

\* A cleanup begins in a call that ends, or in one that is overtaken.
LEMMA ArmedInvCleanup ==
  ASSUME IInv, ArmedInv, BeginCleanup, overtaken \subseteq overtaken',
         Arming' => overtaken' \cap RobotCall # {},
         armed' => armed \/ ("robot" \in opened /\ stopConfirmed # "confirmed")
  PROVE  ArmedInv'
<1>1. /\ UNCHANGED <<opened, failures, stopConfirmed>>
      /\ stopAttempted => stopAttempted'
  BY DEF BeginCleanup, lifecycle
<1> QED BY <1>1 DEF ArmedInv

\* Every action keeps ArmedInv.
LEMMA ArmedInvStep == IInv /\ ArmedInv /\ [Next]_vars => ArmedInv'
<1> SUFFICES ASSUME IInv, ArmedInv, [Next]_vars PROVE ArmedInv'
  OBVIOUS
<1> USE DEF Arming, RobotCall
<1>1. CASE UNCHANGED vars
  BY <1>1 DEF vars, lifecycle, fence, frames, adapters, ArmedInv, Unwound
<1>2. CASE Prepare \/ SensorOpens
  <2>1. /\ ~Arming' /\ UNCHANGED <<failures, stopAttempted, stopConfirmed, armed, overtaken>>
        /\ opened \subseteq opened'
    BY <1>2 DEF Prepare, SensorOpens, CallOpen, fence, frames
  <2> QED BY <2>1 DEF ArmedInv
<1>3. CASE ModelOpens
  BY <1>3 DEF ModelOpens, CallOpen, At, Unwound, fence, frames, ArmedInv, IInv, LeaseInv, Before
<1>4. CASE RobotOpens \/ Arm
  BY <1>4 DEF RobotOpens, Arm, At, Unwound, lifecycle, fence, frames, adapters, ArmedInv
\* The robot arms with its stop still to come.
<1>5. CASE RobotArms
  BY <1>5 DEF RobotArms, At, Unwound, fence, frames, ArmedInv, IInv, CounterInv
<1>6. CASE InvalidCall \/ Close
  <2>1. BeginCleanup /\ UNCHANGED <<armed, overtaken>> /\ pc' = "ending"
    BY <1>6 DEF InvalidCall, Close, Abort, Shutdown
  <2> QED BY <2>1, ArmedInvCleanup
<1>7. CASE NestedClose
  <2>1. BeginCleanup /\ UNCHANGED <<armed, pc, state>>
    BY <1>7 DEF NestedClose, Shutdown, BeginCleanup, lifecycle
  <2>2. overtaken' = overtaken \cup ({pc} \cap Unguarded) /\ pc # "idle"
    BY <1>7 DEF NestedClose, IInv, LeaseInv, Unwound, Callback, OpenCall, CancelCall, ClockCall
  <2> QED BY <2>1, <2>2, ArmedInvCleanup DEF Unguarded
<1>8. CASE CallFails
  <2>1. BeginCleanup /\ UNCHANGED overtaken /\ pc' = "ending" /\ armed' = (armed \/ pc = "arm")
    BY <1>8 DEF CallFails
  <2>2. CASE overtaken \cap RobotCall = {}
    <3>1. pc = "arm" => "robot" \in opened /\ stopConfirmed # "confirmed"
      BY <1>8, <2>2 DEF ArmedInv, IInv, CounterInv, Unwound
    <3> QED BY <2>1, <3>1, ArmedInvCleanup
  <2>3. CASE overtaken \cap RobotCall # {}
    BY <2>1, <2>3 DEF ArmedInv
  <2> QED BY <2>2, <2>3
<1>9. CASE Step \/ StepReturns
  <2>1. UNCHANGED <<armed, overtaken>>
    BY <1>9 DEF Step, StepReturns, SensorReturns, ObservationTimed, InferenceTimed, OutputTimed,
              ModelReturns, NotCancelled, ActionJudged, Apply, ApplyReturns, RefuseObservation,
              RefuseAction, Abort, Shutdown, Advance, stepFrame, frames
  <2>2. \/ BeginCleanup /\ pc' = "ending"
        \/ UNCHANGED armedVars /\ (Arming' => Arming /\ Unwound')
    <3>1. CASE Step
      BY <3>1 DEF Step, stepFrame, armedVars, lifecycle, fence
    <3>2. ASSUME NEW o \in Observation, SensorReturns(o)
          PROVE  UNCHANGED armedVars /\ ~Arming'
      BY <3>2 DEF SensorReturns, stepFrame, armedVars, fence
    <3>3. ASSUME NEW now \in Instant, ObservationTimed(now) \/ InferenceTimed(now) \/ OutputTimed(now)
          PROVE  (BeginCleanup /\ pc' = "ending") \/ (UNCHANGED armedVars /\ ~Arming')
      BY <3>3 DEF ObservationTimed, InferenceTimed, OutputTimed, RefuseObservation, RefuseAction,
                  Abort, Shutdown, Advance, stepFrame, armedVars, fence
    <3>4. ASSUME NEW a \in ActionChunk, ModelReturns(a)
          PROVE  UNCHANGED armedVars /\ ~Arming'
      BY <3>4 DEF ModelReturns, Advance, stepFrame, armedVars, fence
    <3>5. CASE NotCancelled
      BY <3>5 DEF NotCancelled, At, Unwound, Abort, Shutdown, Advance, stepFrame, armedVars, fence,
                  frames
    <3>6. CASE ActionJudged \/ Apply
      BY <3>6 DEF ActionJudged, Apply, RefuseAction, Abort, Shutdown, Advance, stepFrame, armedVars,
                  fence
    <3>7. CASE ApplyReturns
      BY <3>7 DEF ApplyReturns, At, Advance, stepFrame, armedVars, fence, IInv, LeaseInv, StepCall
    <3> QED BY <1>9, <3>1, <3>2, <3>3, <3>4, <3>5, <3>6, <3>7 DEF StepReturns
  <2> QED BY <2>1, <2>2, ArmedInvCleanup, ArmedInvKept
<1>10. CASE SafeStopReturns
  BY <1>10 DEF SafeStopReturns, ArmedInv, Unwound
<1>11. CASE CloseNext
  <2>1. ~Unwound /\ UNCHANGED <<pc, state, stopAttempted, stopConfirmed, overtaken>>
    BY <1>11 DEF CloseNext, Unwound, fence, frames
  <2>2. failures \subseteq failures' /\ (armed' => armed)
    <3>1. failures \subseteq failures'
      BY <1>11 DEF CloseNext
    <3>2. armed' => armed
      BY <1>11 DEF CloseNext, IInv, TypeOK
    <3> QED BY <3>1, <3>2
  <2>3. "robot" \in opened /\ "robot" \notin opened' =>
          stopAttempted /\ (armed' => "robot" \in failures')
    <3>1. closing /\ opened' = opened \ {LastOpened}
      BY <1>11 DEF CloseNext
    <3>2. LastOpened = "robot" /\ armed' => "robot" \in failures'
      BY <1>11 DEF CloseNext
    <3>3. closing /\ "robot" \in opened => stopAttempted
      BY DEF IInv, LeaseInv
    <3> QED BY <3>1, <3>2, <3>3
  <2> QED BY <2>1, <2>2, <2>3 DEF ArmedInv
<1>12. CASE CleanupEnds
  <2>1. UNCHANGED armedVars /\ UNCHANGED overtaken /\ state' = "CLOSED" /\ ~Unwound
    BY <1>12 DEF CleanupEnds, armedVars, adapters, Unwound
  <2>2. pc' = pc \/ pc' = "idle"
    BY <1>12 DEF CleanupEnds
  <2> QED BY <2>1, <2>2 DEF ArmedInv, armedVars
<1> QED BY <1>1, <1>2, <1>3, <1>4, <1>5, <1>6, <1>7, <1>8, <1>9, <1>10, <1>11, <1>12
        DEF Next, CallReturns, Cleanup

\* A robot that is armed after its stop and its closer was reported by both (session.py:
\* _safe_stop_once, _close_resources), unless a close overtook its open or its arm.
THEOREM ArmedRobotsAreReported == Spec => []ArmedIsReported
<1>1. Init => ArmedInv
  BY DEF Init, ArmedInv, Arming, RobotCall
<1>2. QED
  BY <1>1, Invariance, ArmedInvStep, ArmedInvReports, PTL DEF Spec

-----------------------------------------------------------------------------
(* The session implements RobotLease.                                      *)

\* A shutdown is the lease's one stop, or nothing the lease sees.
LEMMA ShutdownStops == IInv /\ BeginCleanup => Lease!Stop \/ UNCHANGED Lease!leaseVars
<1> SUFFICES ASSUME IInv, BeginCleanup PROVE Lease!Stop \/ UNCHANGED Lease!leaseVars
  OBVIOUS
<1> USE DEF BeginCleanup, lifecycle, IInv, LeaseInv, TypeOK, Lease!leaseVars
<1>1. CASE StopDue
  BY <1>1 DEF StopDue, Lease!Stop
<1>2. CASE ~StopDue
  BY <1>2
<1>3. QED
  BY <1>1, <1>2

\* The output is the lease's use of a robot that is live, of an observation not
\* used before.
LEMMA ApplyDrives ==
  IInv /\ Apply => Lease!LeaseNext \/ UNCHANGED Lease!leaseVars
<1> SUFFICES ASSUME IInv, Apply PROVE Lease!LeaseNext \/ UNCHANGED Lease!leaseVars
  OBVIOUS
<1>1. CASE fenced
  BY <1>1, ShutdownStops DEF Apply, Abort, Shutdown, Lease!LeaseNext
<1>2. CASE ~fenced
  <2>1. "robot" \in opened /\ stopCalls = 0
    BY <1>2 DEF IInv, LeaseInv, TypeOK, Driving, StepCall, CancelCall, Apply, At
  <2>2. observation.id \in ObservationId /\ uses[observation.id] = 0
    BY SessionAssumption DEF IInv, ReplayInv, Recorded, Apply, At
  <2>3. Lease!Drive(observation.id)
    BY <1>2, <2>1, <2>2 DEF Apply, Advance, stepFrame, Lease!Drive, IInv, TypeOK
  <2>4. QED
    BY <2>2, <2>3 DEF Lease!LeaseNext
<1>3. QED
  BY <1>1, <1>2

\* Every step of the session is a step of the lease or leaves it alone.
LEMMA StepRefines == IInv /\ [Next]_vars => [Lease!LeaseNext]_(Lease!leaseVars)
<1> SUFFICES ASSUME IInv, [Next]_vars
             PROVE  Lease!LeaseNext \/ UNCHANGED Lease!leaseVars
  OBVIOUS
<1> USE DEF adapters, Lease!leaseVars
<1>1. CASE Prepare \/ SensorOpens \/ RobotOpens \/ Arm \/ RobotArms \/ Step
  BY <1>1 DEF Prepare, SensorOpens, RobotOpens, Arm, RobotArms, Step, stepFrame, CallOpen, lifecycle
<1>2. CASE InvalidCall \/ Close \/ NestedClose \/ CallFails
  BY <1>2, ShutdownStops DEF InvalidCall, Close, NestedClose, CallFails, Abort, Shutdown, Lease!LeaseNext
<1>3. CASE ModelOpens
  <2>1. stopCalls = 0 /\ "robot" \notin opened
    BY <1>3 DEF ModelOpens, At, IInv, LeaseInv, Before, TypeOK
  <2>2. Lease!Open
    BY <1>3, <2>1 DEF ModelOpens, CallOpen, Lease!Open
  <2>3. QED
    BY <2>2 DEF Lease!LeaseNext
<1>4. CASE Apply
  BY <1>4, ApplyDrives
<1>5. CASE StepReturns /\ ~Apply
  <2>1. BeginCleanup \/ UNCHANGED <<opened, stopCalls, uses>>
    BY <1>5 DEF StepReturns, SensorReturns, ObservationTimed, InferenceTimed, OutputTimed,
                ModelReturns, NotCancelled, ActionJudged, ApplyReturns, RefuseObservation,
                RefuseAction, Abort, Shutdown, Advance, stepFrame
  <2>2. QED
    BY <2>1, ShutdownStops DEF Lease!LeaseNext
<1>6. CASE CloseNext
  <2>1. CASE LastOpened = "robot"
    <3>1. "robot" \in opened /\ stopCalls = 1
      BY <1>6, <2>1 DEF CloseNext, LastOpened, IInv, LeaseInv, TypeOK
    <3>2. Lease!Close
      BY <1>6, <2>1, <3>1 DEF CloseNext, Lease!Close
    <3>3. QED
      BY <3>2 DEF Lease!LeaseNext
  <2>2. CASE LastOpened # "robot"
    BY <1>6, <2>2 DEF CloseNext
  <2>3. QED
    BY <2>1, <2>2
<1>7. CASE SafeStopReturns \/ CleanupEnds \/ UNCHANGED vars
  BY <1>7 DEF SafeStopReturns, CleanupEnds, vars, lifecycle
<1>8. QED
  BY <1>1, <1>2, <1>3, <1>4, <1>5, <1>6, <1>7 DEF Next, CallReturns, Cleanup

\* The session implements the lease: whatever its adapters do and whenever they
\* close it, the robot is driven only between its open and its one safe stop.
THEOREM SessionImplementsLease == Spec => RefinesLease
<1>1. Init => Lease!LeaseInit
  BY DEF Init, Lease!LeaseInit
<1>2. QED
  BY <1>1, Invariance, StepRefines, PTL DEF Spec, RefinesLease, Lease!LeaseSpec

-----------------------------------------------------------------------------
(* The contracts of a run                                                  *)

\* The part of a record that admission computes with.
CommandRecord == [step : Int, sent : Int, done : Int \cup {Nothing},
                  status : Statuses \cup {Nothing}]
TypedRecord(r) ==
  /\ r.commands \in Seq(CommandRecord)
  /\ \A k \in DOMAIN r.evidence : r.evidence[k].at \in Int

\* A protocol that may be run.
Runnable(p) == p \in Sealed /\ Resolves(p)

\* The stop of a device that actuates locks the device.
LEMMA StopLocksItsDevice ==
  ASSUME RunAssumption, NEW c \in Commands, Manifest.command[c].effect = "actuating"
  PROVE  /\ Manifest.command[c].device \in Devices
         /\ Manifest.command[c].device \in StopOf(Manifest.command[c].device).resources
<1> DEFINE d == Manifest.command[c].device
<1>1. d \in Devices /\ DeviceAccepted(d)
  BY DEF RunAssumption, ManifestAccepted
<1>2. Cardinality(StopsOf(d)) = 1
  BY <1>1 DEF DeviceAccepted
<1>3. StopsOf(d) # {}
  <2>1. Cardinality({}) # 1
    <3>1. Cardinality({}) = 0
      BY FS_EmptySet, Zenon
    <3> QED BY <3>1
  <2> QED BY <1>2, <2>1, Zenon
<1>4. PICK e \in StopsOf(d) : StopOf(d) = Manifest.command[e]
  BY <1>3 DEF StopOf
<1>5. e \in Commands /\ Manifest.command[e].device = d
  BY <1>4 DEF StopsOf
<1>6. d \in Manifest.command[e].resources
  BY <1>1, <1>5 DEF DeviceAccepted
<1> QED BY <1>1, <1>4, <1>6

\* What resolution demands of a step.
LEMMA ResolvedStep ==
  ASSUME NEW p, Runnable(p), NEW i \in DOMAIN p
  PROVE  /\ p[i].command \in Commands /\ ArgumentsFit(p[i])
         /\ LocksSuffice(p[i]) /\ EvidenceSuffices(p[i]) /\ StepAccepted(p[i])
BY DEF Runnable, Resolves, Sealed, ProtocolAccepted

\* The commands of an admitted record, one by one.
LEMMA AdmittedCommands ==
  ASSUME RunAssumption, NEW p, Runnable(p), NEW r, TypedRecord(r), Admitted(r, p)
  PROVE  /\ DOMAIN r.commands = 1..Len(r.commands) /\ Len(r.commands) \in Nat
         /\ DOMAIN p = 1..Len(p) /\ Len(p) \in Nat /\ Len(r.commands) <= Len(p)
         /\ \A j \in DOMAIN r.commands :
              /\ j \in DOMAIN p
              /\ r.commands[j].step = j
              /\ r.commands[j].sent \in Int /\ r.commands[j].done \in Int
              /\ j \in Dispatched(r) /\ CommandOf(r, j) = r.commands[j]
<1>1. DOMAIN r.commands = 1..Len(r.commands) /\ Len(r.commands) \in Nat
  BY DEF TypedRecord
<1>2. p \in Protocols /\ DOMAIN p = 1..Len(p) /\ Len(p) \in Nat
  BY DEF Runnable, Sealed, RunAssumption
<1>3. Len(r.commands) <= Len(p) /\ \A j \in DOMAIN r.commands : r.commands[j].step = j
  BY DEF Admitted, CommandsInOrder
<1>4. ASSUME NEW j \in DOMAIN r.commands
      PROVE  /\ r.commands[j].sent \in Int /\ r.commands[j].done \in Int
             /\ j \in Dispatched(r) /\ CommandOf(r, j) = r.commands[j]
  <2>1. r.commands[j] \in CommandRecord
    BY <1>1 DEF TypedRecord
  <2>2. r.commands[j].done # Nothing
    BY DEF Admitted, RecordAccepted, CommandAccepted, Within
  <2>3. j \in Dispatched(r)
    BY <1>3 DEF Dispatched
  <2>4. CommandOf(r, j) = r.commands[j]
    BY <1>3 DEF CommandOf
  <2> QED BY <2>1, <2>2, <2>3, <2>4 DEF CommandRecord
<1> QED BY <1>1, <1>2, <1>3, <1>4

\* Evidence of an admitted record about a command that was sent.
LEMMA AdmittedEvidence ==
  ASSUME RunAssumption, NEW p, Runnable(p), NEW r, TypedRecord(r), Admitted(r, p),
         NEW j \in DOMAIN r.commands, NEW q \in DOMAIN p[j].requires,
         <<j, q>> \in DOMAIN r.evidence
  PROVE  LET e == r.evidence[<<j, q>>] IN
         /\ e.at \in Int /\ Started(r) <= e.at /\ e.at <= Ended(r)
         /\ q \in PhaseOf(p[j], "precondition") => e.holds /\ e.at <= r.commands[j].sent
         /\ q \in PhaseOf(p[j], "postcondition") => r.commands[j].done <= e.at
         /\ \A x \in p[j].resources : Covers(r, x, e.at, e.at)
<1> DEFINE e == r.evidence[<<j, q>>]
<1>1. e.at \in Int
  BY DEF TypedRecord
<1>2. Started(r) <= e.at /\ e.at <= Ended(r)
  BY DEF Admitted, RecordAccepted, EvidenceAccepted, Within
<1>3. /\ r.commands[j].sent \in Int /\ r.commands[j].done \in Int
      /\ j \in Dispatched(r) /\ CommandOf(r, j) = r.commands[j]
  BY AdmittedCommands
<1>4. /\ Age(r, p, j, q) \in 0 .. p[j].requires[q].age
      /\ q \in PhaseOf(p[j], "precondition") => e.holds
      /\ \A x \in p[j].resources : Covers(r, x, e.at, e.at)
  <2>1. <<j, q>>[1] = j /\ <<j, q>>[2] = q
    OBVIOUS
  <2> QED BY <1>3, <2>1 DEF Admitted, EvidenceFits
<1>5. Age(r, p, j, q) = IF p[j].requires[q].phase = "precondition"
                              THEN r.commands[j].sent - e.at ELSE e.at - r.commands[j].done
  BY <1>3 DEF Age
<1>6. q \in PhaseOf(p[j], "precondition") => e.at <= r.commands[j].sent
  BY <1>1, <1>3, <1>4, <1>5 DEF PhaseOf
<1>7. q \in PhaseOf(p[j], "postcondition") => r.commands[j].done <= e.at
  BY <1>1, <1>3, <1>4, <1>5 DEF PhaseOf
<1> QED BY <1>1, <1>2, <1>4, <1>6, <1>7

\* The evidence that resolution demands of a move, where the record has it.
LEMMA MoveWitnessed ==
  ASSUME RunAssumption, Runnable(protocol), NEW r, TypedRecord(r),
         Admitted(r, protocol), NEW j \in Moves(r), NEW phase \in Phases,
         NEW from, NEW to,
         \A q \in PhaseOf(protocol[j], phase) :
           <<j, q>> \in DOMAIN r.evidence =>
             LET e == r.evidence[<<j, q>>] IN e.holds /\ from <= e.at /\ e.at <= to,
         \A q \in PhaseOf(protocol[j], phase) : <<j, q>> \in DOMAIN r.evidence
  PROVE  Witnessed(r, j, phase, from, to)
<1>1. j \in DOMAIN r.commands /\ j \in DOMAIN protocol /\ Actuates(protocol[j])
  BY AdmittedCommands DEF Moves
<1>2. EvidenceSuffices(protocol[j])
  BY <1>1, ResolvedStep
<1>3. PICK q \in PhaseOf(protocol[j], phase) : Independent(protocol[j], q)
  BY <1>1, <1>2 DEF EvidenceSuffices
<1>4. q \in DOMAIN protocol[j].requires
  BY DEF PhaseOf
<1>5. protocol[j].requires[q].producer \in protocol[j].resources
  BY <1>2, <1>4 DEF EvidenceSuffices
<1>6. \A x \in protocol[j].resources :
        Covers(r, x, r.evidence[<<j, q>>].at, r.evidence[<<j, q>>].at)
  BY <1>1, <1>3, <1>4, AdmittedEvidence
<1> QED BY <1>3, <1>5, <1>6 DEF Witnessed

\* A device that moved stays locked, with all that its stop needs, until it stopped.
LEMMA AdmittedControlled ==
  ASSUME RunAssumption, Runnable(protocol), NEW r, TypedRecord(r), Admitted(r, protocol)
  PROVE  Controlled(r)
<1> SUFFICES ASSUME NEW j \in Moves(r), NEW d, d = DeviceOf(j)
             PROVE  /\ d \in DOMAIN r.stops
                    /\ \A x \in StopOf(d).resources \cup {d} :
                         Covers(r, x, r.commands[j].sent, r.stops[d].done)
  BY Zenon DEF Controlled
<1>1. j \in DOMAIN r.commands /\ j \in DOMAIN protocol /\ Actuates(protocol[j])
  BY AdmittedCommands DEF Moves
<1>2. protocol[j].command \in Commands /\ LocksSuffice(protocol[j])
  BY <1>1, ResolvedStep
<1>3. d = Manifest.command[protocol[j].command].device
  BY DEF DeviceOf, Does
<1>4. d \in Devices /\ d \in StopOf(d).resources
  BY <1>1, <1>2, <1>3, StopLocksItsDevice DEF Actuates, Does
<1>5. j \in Actuations(r, protocol, d)
  BY <1>1, <1>3 DEF Actuations, Does
<1>6. d \in DOMAIN r.stops
  BY <1>4, <1>5 DEF Admitted, StopsCover
<1>7. ASSUME NEW x \in StopOf(d).resources
      PROVE  Covers(r, x, r.commands[j].sent, r.stops[d].done)
  <2>1. Covers(r, x, r.stops[d].sent, r.stops[d].done)
    BY <1>6 DEF Admitted, StopsCover
  <2>2. x \in protocol[j].resources
    BY <1>1, <1>2, <1>3 DEF LocksSuffice, Does
  <2>3. Covers(r, x, r.commands[j].sent, r.commands[j].done)
    BY <1>1, <2>2 DEF Admitted, CommandsCovered
  <2> QED BY <2>1, <2>3 DEF Covers
<1> QED BY <1>4, <1>6, <1>7

\* A device moves only after it was seen to be ready, and its earlier moves to be done.
LEMMA AdmittedNeverBlind ==
  ASSUME RunAssumption, Runnable(protocol), NEW r, TypedRecord(r), Admitted(r, protocol)
  PROVE  NeverBlind(r)
<1>0. PreconditionsSeen(r, protocol) /\ PostconditionBarrier(r, protocol)
  BY DEF Admitted
<1> SUFFICES ASSUME NEW j \in Moves(r)
             PROVE  /\ Witnessed(r, j, "precondition",
                         IF j = 1 THEN Started(r) ELSE r.commands[j - 1].done,
                         r.commands[j].sent)
                    /\ \A i \in Moves(r) : i < j =>
                         Witnessed(r, i, "postcondition", r.commands[i].done,
                                       r.commands[i + 1].sent)
  BY Zenon DEF NeverBlind
<1>1. \A i \in Moves(r) : i \in DOMAIN r.commands /\ i \in DOMAIN protocol /\ i \in Int /\ i >= 1
  BY AdmittedCommands DEF Moves
<1>2. \A i \in DOMAIN r.commands : r.commands[i].sent \in Int
  BY AdmittedCommands
<1>3. Witnessed(r, j, "precondition",
                    IF j = 1 THEN Started(r) ELSE r.commands[j - 1].done, r.commands[j].sent)
  <2>1. "precondition" \in Phases
    BY DEF Phases
  <2>2. ASSUME NEW q \in PhaseOf(protocol[j], "precondition")
        PROVE  /\ <<j, q>> \in DOMAIN r.evidence /\ q \in DOMAIN protocol[j].requires
               /\ j > 1 => r.commands[j - 1].done <= r.evidence[<<j, q>>].at
    BY <1>0, <1>1 DEF PreconditionsSeen, PhaseOf
  <2>3. ASSUME NEW q \in PhaseOf(protocol[j], "precondition")
        PROVE  LET e == r.evidence[<<j, q>>] IN
               /\ e.holds /\ e.at <= r.commands[j].sent /\ Started(r) <= e.at
    BY <1>1, <2>2, AdmittedEvidence
  <2>4. ASSUME NEW q \in PhaseOf(protocol[j], "precondition")
        PROVE  (IF j = 1 THEN Started(r) ELSE r.commands[j - 1].done)
                 <= r.evidence[<<j, q>>].at
    BY <1>1, <2>2, <2>3
  <2> QED BY <2>1, <2>2, <2>3, <2>4, MoveWitnessed
<1>4. ASSUME NEW i \in Moves(r), i < j
      PROVE  Witnessed(r, i, "postcondition", r.commands[i].done, r.commands[i + 1].sent)
  <2>1. "postcondition" \in Phases
    BY DEF Phases
  <2>2. i \in 1 .. Len(r.commands) - 1 /\ i + 1 \in DOMAIN r.commands
    BY <1>1, <1>4, AdmittedCommands
  <2>3. ASSUME NEW q \in PhaseOf(protocol[i], "postcondition")
        PROVE  /\ <<i, q>> \in DOMAIN r.evidence /\ q \in DOMAIN protocol[i].requires
               /\ r.evidence[<<i, q>>].holds
               /\ r.commands[i + 1].sent - r.evidence[<<i, q>>].at \in 0 .. protocol[i].requires[q].age
    <3>1. q \in DOMAIN protocol[i].requires
      BY <2>3 DEF PhaseOf
    <3>2. \A k \in 1 .. Len(r.commands) - 1 : \A o \in PhaseOf(protocol[k], "postcondition") :
            /\ <<k, o>> \in DOMAIN r.evidence /\ r.evidence[<<k, o>>].holds
            /\ r.commands[k + 1].sent - r.evidence[<<k, o>>].at \in 0 .. protocol[k].requires[o].age
      BY ONLY <1>0, Zenon DEF PostconditionBarrier
    <3> QED BY ONLY <2>2, <2>3, <3>1, <3>2, Zenon
  <2>4. ASSUME NEW q \in PhaseOf(protocol[i], "postcondition")
        PROVE  /\ r.evidence[<<i, q>>].at \in Int
               /\ r.commands[i].done <= r.evidence[<<i, q>>].at
    BY <1>1, <2>3, AdmittedEvidence
  <2>5. ASSUME NEW q \in PhaseOf(protocol[i], "postcondition")
        PROVE  r.evidence[<<i, q>>].at <= r.commands[i + 1].sent
    <3>1. r.commands[i + 1].sent \in Int
      BY <1>2, <2>2
    <3> QED BY <2>3, <2>4, <3>1
  <2> QED BY <2>1, <2>3, <2>4, <2>5, MoveWitnessed
<1> QED BY <1>3, <1>4

\* Every command was given what it must have, within bounds.
LEMMA AdmittedInstructed ==
  ASSUME RunAssumption, Runnable(protocol), NEW r, TypedRecord(r), Admitted(r, protocol)
  PROVE  Instructed(r)
<1> SUFFICES ASSUME NEW j \in DOMAIN r.commands, NEW given, NEW fields,
                    given = protocol[r.commands[j].step].args,
                    fields = Does(protocol[r.commands[j].step]).fields
             PROVE  /\ { n \in DOMAIN fields : fields[n].required } \subseteq DOMAIN given
                    /\ \A n \in DOMAIN given :
                         fields[n].type \in Numeric =>
                           given[n].value \in fields[n].min .. fields[n].max
  BY Zenon DEF Instructed
<1>1. j \in DOMAIN protocol /\ r.commands[j].step = j
  BY AdmittedCommands
<1>2. ArgumentsFit(protocol[j]) /\ StepAccepted(protocol[j])
  BY <1>1, ResolvedStep
<1>3. given = protocol[j].args /\ fields = Does(protocol[j]).fields
  BY <1>1
<1>4. /\ \A n \in DOMAIN given : Fits(given[n], fields[n])
      /\ \A n \in DOMAIN fields : fields[n].required => n \in DOMAIN given
      /\ \A n \in DOMAIN given : ScalarAccepted(given[n].value, given[n].type)
  BY ONLY <1>2, <1>3, Zenon DEF ArgumentsFit, StepAccepted, ArgumentAccepted
<1>5. { n \in DOMAIN fields : fields[n].required } \subseteq DOMAIN given
  BY ONLY <1>4
<1>6. ASSUME NEW n \in DOMAIN given, fields[n].type \in Numeric
      PROVE  given[n].value \in fields[n].min .. fields[n].max
  <2>1. Fits(given[n], fields[n])
    BY <1>4, <1>6, Zenon
  <2>2. ScalarAccepted(given[n].value, given[n].type)
    BY <1>4, <1>6, Zenon
  <2>3. given[n].value \in Int
    BY ONLY <1>6, <2>1, <2>2 DEF Fits, ScalarAccepted, Numeric
  <2> QED BY ONLY <1>6, <2>1, <2>3 DEF Fits
<1> QED BY ONLY <1>5, <1>6, Zenon

\* A success means that every move was made, verified and stopped.
LEMMA AdmittedVerified ==
  ASSUME RunAssumption, Runnable(protocol), NEW r, TypedRecord(r), Admitted(r, protocol)
  PROVE  SuccessVerified(r)
<1> SUFFICES ASSUME Outcome(r) = "succeeded", NEW j \in DOMAIN protocol,
                    Actuates(protocol[j])
             PROVE  /\ j \in Moves(r)
                    /\ Witnessed(r, j, "postcondition", r.commands[j].done, Ended(r))
                    /\ r.stops[DeviceOf(j)].confirmed
                    /\ r.commands[j].done <= r.stops[DeviceOf(j)].sent
  BY Zenon DEF SuccessVerified
<1>1. /\ Len(r.commands) = Len(protocol)
      /\ \A i \in DOMAIN protocol : \A q \in DOMAIN protocol[i].requires :
           <<i, q>> \in DOMAIN r.evidence /\ r.evidence[<<i, q>>].holds
      /\ \A d \in DOMAIN r.stops : r.stops[d].confirmed
  BY DEF Admitted, OutcomeFits
<1>2. j \in DOMAIN r.commands
  BY <1>1, AdmittedCommands
<1>3. j \in Moves(r)
  BY <1>2 DEF Moves
<1>4. Witnessed(r, j, "postcondition", r.commands[j].done, Ended(r))
  <2>1. "postcondition" \in Phases
    BY DEF Phases
  <2>2. ASSUME NEW q \in PhaseOf(protocol[j], "postcondition")
        PROVE  /\ <<j, q>> \in DOMAIN r.evidence /\ q \in DOMAIN protocol[j].requires
               /\ r.evidence[<<j, q>>].holds
    BY <1>1 DEF PhaseOf
  <2>3. ASSUME NEW q \in PhaseOf(protocol[j], "postcondition")
        PROVE  /\ r.commands[j].done <= r.evidence[<<j, q>>].at
               /\ r.evidence[<<j, q>>].at <= Ended(r)
    BY <1>2, <2>2, AdmittedEvidence
  <2> QED BY <1>3, <2>1, <2>2, <2>3, MoveWitnessed
<1>5. DeviceOf(j) \in DOMAIN r.stops
  BY <1>3, AdmittedControlled, Zenon DEF Controlled
<1>6. r.commands[j].done <= r.stops[DeviceOf(j)].sent
  <2>1. j \in Actuations(r, protocol, DeviceOf(j))
    BY <1>2 DEF Actuations, DeviceOf
  <2> QED BY <1>5, <2>1 DEF Admitted, StopsCover
<1> QED BY <1>1, <1>3, <1>4, <1>5, <1>6

\* Resolution and admission are sound: a record that is admitted for a protocol that
\* resolves tells of a safe run, whoever wrote it (validate_physical_run_record).
THEOREM AdmissionIsSound ==
  ASSUME RunAssumption, Runnable(protocol), NEW r, TypedRecord(r), Admitted(r, protocol)
  PROVE  Controlled(r) /\ NeverBlind(r) /\ Instructed(r) /\ SuccessVerified(r)
BY AdmittedControlled, AdmittedNeverBlind, AdmittedInstructed, AdmittedVerified

-----------------------------------------------------------------------------
(* The host                                                                *)

\* What a host writes down, disciplined or not: its commands one after the other.
RecordInv ==
  /\ Runnable(protocol)
  /\ clock \in Int
  /\ run = [life |-> run.life, locks |-> run.locks, commands |-> run.commands,
            stops |-> run.stops, evidence |-> run.evidence]
  /\ TypedRecord(run)
  /\ \A i, j \in DOMAIN run.commands : i < j => run.commands[i].sent < run.commands[j].sent

\* A host that leaves commands and evidence alone.
LEMMA RecordRests ==
  ASSUME RecordInv, protocol' = protocol, clock' \in Int,
         run' = [life |-> run'.life, locks |-> run'.locks, commands |-> run'.commands,
                 stops |-> run'.stops, evidence |-> run'.evidence],
         run'.commands = run.commands, run'.evidence = run.evidence
  PROVE  RecordInv'
BY DEF RecordInv, Runnable, Sealed, Resolves, TypedRecord

\* A host that writes down evidence.
LEMMA RecordSees ==
  ASSUME RecordInv, NEW i, NEW q, Capture(i, q)
  PROVE  RecordInv'
<1>1. PICK holds \in BOOLEAN :
        run' = [run EXCEPT !.evidence = With(run.evidence, {<<i, q>>}, [at |-> clock, holds |-> holds])]
  BY Zenon DEF Capture
<1>2. protocol' = protocol /\ clock' = clock
  BY DEF Capture, Here
<1>3. PICK seen2 : seen2 = With(run.evidence, {<<i, q>>}, [at |-> clock, holds |-> holds])
  OBVIOUS
<1>4. run' = [run EXCEPT !.evidence = seen2]
  BY <1>1, <1>3, Zenon
<1>5. \A k \in DOMAIN seen2 : seen2[k].at \in Int
  BY <1>3 DEF With, RecordInv, TypedRecord
<1>6. /\ run' = [life |-> run'.life, locks |-> run'.locks, commands |-> run'.commands,
                 stops |-> run'.stops, evidence |-> run'.evidence]
      /\ run'.commands = run.commands /\ run'.evidence = seen2
  BY <1>4 DEF RecordInv
<1> QED BY <1>2, <1>5, <1>6 DEF RecordInv, Runnable, TypedRecord

\* A host that sends a command.
LEMMA RecordSends ==
  ASSUME RunAssumption, RecordInv, NEW i \in DOMAIN protocol, Dispatch(i)
  PROVE  RecordInv'
<1> DEFINE c == [step |-> i, sent |-> clock, done |-> Nothing, status |-> Nothing]
           n == Len(run.commands)
<1>1. /\ run' = [run EXCEPT !.commands = Append(run.commands, c)]
      /\ protocol' = protocol /\ clock' = clock
      /\ n > 0 => Last(run.commands).sent < clock
  BY DEF Dispatch, Here, Sent
<1>2. i \in Int
  BY DEF RecordInv, Runnable, Sealed, RunAssumption
<1>3. c \in CommandRecord
  BY <1>2 DEF CommandRecord, RecordInv
<1>4. /\ run' = [life |-> run'.life, locks |-> run'.locks, commands |-> run'.commands,
                 stops |-> run'.stops, evidence |-> run'.evidence]
      /\ run'.commands = Append(run.commands, c) /\ run'.evidence = run.evidence
  BY <1>1 DEF RecordInv
<1>5. run.commands \in Seq(CommandRecord)
  BY DEF RecordInv, TypedRecord
<1> HIDE DEF c
<1>6. /\ run'.commands \in Seq(CommandRecord) /\ DOMAIN run'.commands = 1 .. n + 1
      /\ DOMAIN run.commands = 1 .. n /\ n \in Nat
      /\ run'.commands[n + 1] = c /\ \A j \in 1..n : run'.commands[j] = run.commands[j]
  BY <1>3, <1>4, <1>5
<1>7. ASSUME NEW j \in 1..n PROVE run.commands[j].sent < clock
  <2>1. Last(run.commands) = run.commands[n] /\ run.commands[n].sent < clock
    BY <1>1, <1>6 DEF Last
  <2>2. j < n => run.commands[j].sent < run.commands[n].sent
    BY <1>6 DEF RecordInv
  <2>3. run.commands[j].sent \in Int /\ run.commands[n].sent \in Int /\ clock \in Int
    <3>1. run.commands[j] \in CommandRecord /\ run.commands[n] \in CommandRecord
      BY <1>5, <1>6
    <3> QED BY <3>1 DEF CommandRecord, RecordInv
  <2>4. CASE j = n
    BY <2>1, <2>4
  <2>5. CASE j < n
    BY <2>1, <2>2, <2>3, <2>5
  <2> QED BY <1>6, <2>4, <2>5
<1>8. c.sent = clock
  BY DEF c
<1>9. \A j, k \in DOMAIN run'.commands : j < k => run'.commands[j].sent < run'.commands[k].sent
  <2> SUFFICES ASSUME NEW j \in 1 .. n + 1, NEW k \in 1 .. n + 1, j < k
               PROVE  run'.commands[j].sent < run'.commands[k].sent
    BY <1>6
  <2>1. j \in 1..n
    BY <1>6
  <2>2. CASE k = n + 1
    BY <1>6, <1>7, <1>8, <2>1, <2>2
  <2>3. CASE k \in 1..n
    BY <1>6, <2>1, <2>3 DEF RecordInv
  <2> QED BY <1>6, <2>2, <2>3
<1>10. TypedRecord(run')
  BY <1>4, <1>6 DEF RecordInv, TypedRecord
<1> QED BY <1>1, <1>4, <1>9, <1>10 DEF RecordInv, Runnable

\* A host that writes down how a command ended.
LEMMA RecordEnds ==
  ASSUME RecordInv, NEW status \in Statuses, Complete(status)
  PROVE  RecordInv'
<1> DEFINE n == Len(run.commands)
           c == [run.commands[n] EXCEPT !.done = clock, !.status = status]
<1>1. /\ n > 0 /\ protocol' = protocol /\ clock' = clock
      /\ run' = [run EXCEPT !.commands[n].done = clock, !.commands[n].status = status]
  BY DEF Complete, Here, Sent
<1>2. run.commands \in Seq(CommandRecord)
  BY DEF RecordInv, TypedRecord
<1>3. n \in DOMAIN run.commands /\ DOMAIN run.commands = 1..n /\ n \in Nat
  BY <1>1, <1>2
<1>4. run' = [run EXCEPT !.commands = [run.commands EXCEPT ![n] = c]]
  BY <1>1, <1>3 DEF RecordInv
<1>5. run.commands[n] \in CommandRecord
  BY <1>2, <1>3
<1>6. c \in CommandRecord /\ c.sent = run.commands[n].sent
  BY <1>5 DEF CommandRecord, RecordInv
<1> HIDE DEF c
<1>7. /\ run' = [life |-> run'.life, locks |-> run'.locks, commands |-> run'.commands,
                 stops |-> run'.stops, evidence |-> run'.evidence]
      /\ run'.commands = [run.commands EXCEPT ![n] = c] /\ run'.evidence = run.evidence
  BY <1>4 DEF RecordInv
<1>8. /\ run'.commands \in Seq(CommandRecord) /\ DOMAIN run'.commands = DOMAIN run.commands
      /\ \A j \in DOMAIN run.commands : run'.commands[j].sent = run.commands[j].sent
  BY <1>2, <1>3, <1>6, <1>7
<1>9. TypedRecord(run')
  BY <1>7, <1>8 DEF RecordInv, TypedRecord
<1> QED BY <1>1, <1>7, <1>8, <1>9 DEF RecordInv, Runnable

\* Everything else that a host does.
LEMMA RecordOther ==
  ASSUME RecordInv,
         \/ Tick \/ EnterLocked \/ EnterRunning
         \/ \E xs : Acquire(xs) \/ Release(xs)
         \/ \E d : SafeStop(d) \/ SafeStopEnds(d)
         \/ \E outcome : Finish(outcome)
         \/ UNCHANGED runVars
  PROVE  RecordInv'
<1>1. protocol' = protocol /\ clock' \in Int
  <2>0. clock \in Int
    BY DEF RecordInv
  <2>1. CASE Tick
    BY <2>0, <2>1 DEF Tick
  <2>2. CASE EnterLocked \/ EnterRunning \/ UNCHANGED runVars
    BY <2>0, <2>2 DEF EnterLocked, EnterRunning, Here, runVars
  <2>3. CASE \/ \E xs : Acquire(xs) \/ Release(xs)
             \/ \E d : SafeStop(d) \/ SafeStopEnds(d)
             \/ \E outcome : Finish(outcome)
    <3>1. Here
      BY <2>3, Zenon DEF Acquire, Release, SafeStop, SafeStopEnds, Finish
    <3> QED BY <2>0, <3>1 DEF Here
  <2> QED BY <2>1, <2>2, <2>3
<1>2. /\ run' = [life |-> run'.life, locks |-> run'.locks, commands |-> run'.commands,
                 stops |-> run'.stops, evidence |-> run'.evidence]
      /\ run'.commands = run.commands /\ run'.evidence = run.evidence
  <2>1. \/ run' = run
        \/ \E x : \/ run' = [run EXCEPT !.life = x] \/ run' = [run EXCEPT !.locks = x]
                  \/ run' = [run EXCEPT !.stops = x]
    <3>1. CASE Tick \/ UNCHANGED runVars
      BY <3>1 DEF Tick, runVars
    <3>2. CASE EnterLocked \/ EnterRunning \/ \E outcome : Finish(outcome)
      <4>1. \E s : run' = [run EXCEPT !.life = Append(run.life, [state |-> s, at |-> clock])]
        BY <3>2 DEF EnterLocked, EnterRunning, Finish, Enter
      <4> QED BY <4>1
    <3>3. CASE \E xs : Acquire(xs) \/ Release(xs)
      BY <3>3, Zenon DEF Acquire, Release
    <3>4. CASE \E d : SafeStop(d)
      BY <3>4, Zenon DEF SafeStop
    <3>5. CASE \E d : SafeStopEnds(d)
      <4>1. PICK d : SafeStopEnds(d)
        BY <3>5
      <4>2. PICK confirmed \in BOOLEAN :
              run' = [run EXCEPT !.stops[d].done = clock, !.stops[d].confirmed = confirmed]
        BY <4>1 DEF SafeStopEnds
      <4>3. run' = [run EXCEPT !.stops = [run.stops EXCEPT ![d].done = clock,
                                                           ![d].confirmed = confirmed]]
        BY <4>2 DEF RecordInv
      <4> QED BY <4>3
    <3> QED BY <3>1, <3>2, <3>3, <3>4, <3>5
  <2> QED BY <2>1 DEF RecordInv
<1> QED BY <1>1, <1>2, RecordRests

\* Of the places of a list that are fit, one comes first.
LEMMA FirstOne ==
  ASSUME NEW T \in SUBSET Nat, T # {}
  PROVE  \E m \in T : \A k \in T : m <= k
<1>1. PICK m \in T : \A k \in T : ~ (<<k, m>> \in OpToRel(<, Nat))
  BY NatLessThanWellFounded, WFMin
<1>2. \A k \in T : ~(k < m)
  BY <1>1, Zenon DEF OpToRel
<1> QED BY <1>2

\* Only the identity takes the places of a list to each other and keeps their order.
LEMMA OnlyIdentity ==
  ASSUME NEW n \in Nat, NEW p \in [1 .. n -> 1 .. n],
         \A i, j \in 1 .. n : i < j => p[i] < p[j]
  PROVE  \A k \in 1 .. n : p[k] = k
<1>1. ASSUME NEW k \in 1 .. n, p[k] < k PROVE FALSE
  <2> DEFINE T == { i \in 1 .. n : p[i] < i }
  <2>1. T \in SUBSET Nat /\ T # {}
    BY <1>1
  <2> HIDE DEF T
  <2>2. PICK m \in T : \A i \in T : m <= i
    BY <2>1, FirstOne
  <2> USE DEF T
  <2>3. m \in 1 .. n /\ p[m] \in 1 .. n /\ p[m] < m
    BY <2>2
  <2>4. p[p[m]] < p[m]
    BY <2>3
  <2>5. p[m] \in T
    BY <2>3, <2>4
  <2> QED BY <2>2, <2>3, <2>5
<1>2. ASSUME NEW k \in 1 .. n, p[k] > k PROVE FALSE
  <2> DEFINE T == { a \in 0 .. n : n - a \in 1 .. n /\ p[n - a] > n - a }
  <2>1. T \in SUBSET Nat /\ T # {}
    <3>1. PICK a \in 0 .. n : n - a = k
      <4>1. n - k \in 0 .. n /\ n - (n - k) = k
        OBVIOUS
      <4> QED BY <4>1
    <3>2. a \in T
      BY <1>2, <3>1
    <3>3. T \in SUBSET Nat
      OBVIOUS
    <3> QED BY <3>2, <3>3
  <2> HIDE DEF T
  <2>2. PICK m \in T : \A a \in T : m <= a
    BY <2>1, FirstOne
  <2> USE DEF T
  <2>3. PICK i \in 1 .. n : i = n - m /\ p[i] > i /\ p[i] \in 1 .. n
    BY <2>2
  <2>4. p[p[i]] > p[i]
    BY <2>3
  <2>5. n - p[i] \in 0 .. n /\ n - (n - p[i]) = p[i]
    BY <2>3
  <2>6. n - p[i] \in T
    BY <2>3, <2>4, <2>5
  <2>7. n - p[i] < m
    BY <2>2, <2>3
  <2>8. m \in Nat
    BY <2>2
  <2> QED BY <2>2, <2>3, <2>6, <2>7, <2>8
<1> QED BY <1>1, <1>2

\* A host writes its commands down in the order in which sealing puts them.
LEMMA SealedIsSame ==
  ASSUME RecordInv
  PROVE  SealedRecord(run) = run
<1> DEFINE commands == run.commands
           D == DOMAIN commands
           Sorted(p) == \A i, j \in D : i < j => commands[p[i]].sent <= commands[p[j]].sent
           order == CHOOSE p \in Injection(D, D) : Sorted(p)
           same == [i \in D |-> i]
           sealed == [i \in D |-> commands[order[i]]]
<1>1. commands \in Seq(CommandRecord)
  BY DEF RecordInv, TypedRecord
<1>2. D = 1..Len(commands) /\ Len(commands) \in Nat
  BY <1>1
<1>3. \A i \in D : commands[i].sent \in Int
  <2>1. \A i \in D : commands[i] \in CommandRecord
    BY <1>1, <1>2
  <2> QED BY <2>1 DEF CommandRecord
<1>4. \A i, j \in D : i < j => commands[i].sent < commands[j].sent
  BY DEF RecordInv
<1>5. same \in Injection(D, D)
  BY DEF Injection, IsInjective
<1>6. Sorted(same)
  BY <1>3, <1>4
<1>7. order \in Injection(D, D) /\ Sorted(order)
  <2> HIDE DEF D, Sorted, same
  <2> QED BY <1>5, <1>6
<1>8. order \in [D -> D] /\ \A i, j \in D : i # j => order[i] # order[j]
  <2> HIDE DEF D, order, Sorted
  <2> QED BY <1>7 DEF Injection, IsInjective
<1>9. \A i, j \in D : i < j => order[i] < order[j]
  <2> HIDE DEF order, D, commands
  <2> SUFFICES ASSUME NEW i \in D, NEW j \in D, i < j PROVE order[i] < order[j]
    OBVIOUS
  <2>1. commands[order[i]].sent <= commands[order[j]].sent
    BY <1>7
  <2>2. order[i] \in D /\ order[j] \in D
    BY <1>8
  <2>3. order[i] # order[j]
    BY <1>2, <1>8
  <2>4. order[i] \in Int /\ order[j] \in Int
    BY <1>2, <2>2
  <2>5. CASE order[j] < order[i]
    <3>1. commands[order[j]].sent < commands[order[i]].sent
      BY <1>4, <2>2, <2>5
    <3> QED BY <1>3, <2>1, <2>2, <3>1
  <2> QED BY <2>3, <2>4, <2>5
<1>10. \A k \in D : order[k] = k
  <2> HIDE DEF order, D
  <2>1. \A i, j \in 1 .. Len(commands) : i < j => order[i] < order[j]
    BY <1>2, <1>9
  <2> QED BY <1>2, <1>8, <2>1, OnlyIdentity
<1>11. sealed = commands
  <2> HIDE DEF order
  <2> QED BY <1>1, <1>2, <1>10
<1>12. SealedRecord(run) = [run EXCEPT !.commands = sealed]
  BY Zenon DEF SealedRecord
<1>13. SealedRecord(run) = [run EXCEPT !.commands = commands]
  BY <1>11, <1>12, Zenon
<1> QED BY <1>13 DEF RecordInv

\* A record begins empty.
LEMMA RecordBegins == RunInit => RecordInv
<1> SUFFICES ASSUME RunInit PROVE RecordInv
  OBVIOUS
<1>1. Runnable(protocol) /\ run = Created /\ clock = 0
  BY DEF RunInit, Runnable
<1>2. run.commands = <<>> /\ run.evidence = <<>>
  BY <1>1 DEF Created
<1>3. TypedRecord(run)
  BY <1>2 DEF TypedRecord
<1> QED BY <1>1, <1>2, <1>3 DEF RecordInv, Created

\* A step of the host, disciplined or a slip.
LEMMA RecordGoesOn ==
  ASSUME RunAssumption, RecordInv, [RunNext]_runVars
  PROVE  RecordInv'
<1>1. CASE \E i \in DOMAIN protocol :
             Dispatch(i) \/ \E q \in DOMAIN protocol[i].requires : Capture(i, q)
  BY <1>1, RecordSends, RecordSees
<1>2. CASE \E status \in Statuses : Complete(status)
  BY <1>2, RecordEnds
<1>3. CASE \/ Tick \/ EnterLocked \/ EnterRunning
           \/ \E xs : Acquire(xs) \/ Release(xs)
           \/ \E d : SafeStop(d) \/ SafeStopEnds(d)
           \/ \E outcome : Finish(outcome)
           \/ UNCHANGED runVars
  BY <1>3, RecordOther
<1> QED BY <1>1, <1>2, <1>3, Zenon DEF RunNext

\* Whatever the host did, and whatever it was given, what is admitted is safe.
THEOREM AdmittedRunsAreSafe == RunSpec => []AdmittedIsSafe
<1>1. RecordInv /\ [RunNext]_runVars => RecordInv'
  BY RunAssumption, RecordGoesOn
<1>2. RecordInv => AdmittedIsSafe
  BY RunAssumption, SealedIsSame, AdmissionIsSound
  DEF RecordInv, AdmittedIsSafe
<1> QED BY <1>1, <1>2, RecordBegins, PTL DEF RunSpec

-----------------------------------------------------------------------------
(* A disciplined host writes a record that is admitted                     *)

\* A run was locked, and was running.
WasLocked(r)  == Len(r.life) >= 2 /\ r.life[2].state = "locked"
WasRunning(r) == Len(r.life) >= 3 /\ r.life[3].state = "running"

\* A disciplined host, at the time t: the states of its run follow one another.
LifeKept(r, t) ==
  /\ t \in Nat
  /\ r.life \in Seq([state : DOMAIN AllowedNext \cup Terminal, at : Nat])
  /\ Len(r.life) \in 1 .. 4
  /\ r.life[1].state = "created" /\ r.life[1].at = 0
  /\ Len(r.life) >= 2 => r.life[2].state \in AllowedNext["created"]
  /\ Len(r.life) >= 3 => r.life[2].state = "locked" /\ r.life[3].state \in AllowedNext["locked"]
  /\ Len(r.life) = 4 => r.life[3].state = "running" /\ r.life[4].state \in AllowedNext["running"]
  /\ \A i \in 1 .. Len(r.life) : r.life[i].at <= t
  /\ \A i \in 1 .. Len(r.life) - 1 : r.life[i].at <= r.life[i + 1].at
  /\ Outcome(r) \in Terminal => r.life[Len(r.life)].at = t

\* What the protocol needs was locked before the run was, and nothing else.
LocksKept(p, r, t) ==
  /\ \A x \in DOMAIN r.locks :
       LET l == r.locks[x] IN
       /\ l.from \in Nat /\ l.from <= t
       /\ l.to # Nothing => l.to \in Nat /\ l.from <= l.to /\ l.to <= t
  /\ DOMAIN r.locks \subseteq RequiredLocks(p)
  /\ WasLocked(r) =>
       /\ DOMAIN r.locks = RequiredLocks(p)
       /\ \A x \in DOMAIN r.locks : r.locks[x].from <= r.life[2].at

\* The steps are sent one by one, the next when the last was acknowledged.
CommandsKept(p, r, t) ==
  /\ Len(r.commands) <= Len(p)
  /\ \A j \in 1 .. Len(r.commands) :
       LET c == r.commands[j] IN
       /\ WasRunning(r) /\ r.life[3].at <= c.sent
       /\ c.step = j /\ c.sent \in Nat /\ c.sent <= t
       /\ c.done = Nothing => j = Len(r.commands)
       /\ c.done # Nothing =>
            /\ c.done \in Nat /\ c.sent <= c.done /\ c.done <= t
            /\ c.status \in Statuses
            /\ IF c.status = "timed_out" THEN c.done - c.sent >= p[j].timeout
                                         ELSE c.done - c.sent <= p[j].timeout
  /\ \A j \in 1 .. Len(r.commands) - 1 :
       r.commands[j].status = "acknowledged" /\ r.commands[j].done <= r.commands[j + 1].sent

\* A lock spans an interval, which may not have ended yet.
Spans(r, x, from, to) ==
  /\ x \in DOMAIN r.locks
  /\ r.locks[x].from <= from
  /\ r.locks[x].to # Nothing => to # Nothing /\ to <= r.locks[x].to

\* Locks span what needs them, and until its stop what a device that moves needs.
SpansKept(p, r) ==
  /\ \A j \in 1 .. Len(r.commands) : \A x \in p[j].resources :
       Spans(r, x, r.commands[j].sent, r.commands[j].done)
  /\ \A k \in DOMAIN r.evidence : \A x \in p[k[1]].resources :
       Spans(r, x, r.evidence[k].at, r.evidence[k].at)
  /\ \A d \in DOMAIN r.stops : \A x \in StopOf(d).resources :
       Spans(r, x, r.stops[d].sent, r.stops[d].done)
  /\ \A j \in 1 .. Len(r.commands) :
       Actuates(p[j]) /\ Does(p[j]).device \notin DOMAIN r.stops =>
         \A x \in p[j].resources : x \in DOMAIN r.locks /\ r.locks[x].to = Nothing

\* A device is stopped once it has moved for the last time.
StopsKept(p, r, t) ==
  /\ DOMAIN r.stops \subseteq Devices
  /\ \A d \in DOMAIN r.stops :
       LET e == r.stops[d] IN
       /\ e.sent \in Nat /\ e.sent <= t /\ e.confirmed \in BOOLEAN
       /\ e.done # Nothing => e.done \in Nat /\ e.sent <= e.done /\ e.done <= t
       /\ \E j \in 1 .. Len(r.commands) : Actuates(p[j]) /\ Does(p[j]).device = d
       /\ \A j \in 1 .. Len(r.commands) : Actuates(p[j]) /\ Does(p[j]).device = d =>
            r.commands[j].done # Nothing /\ r.commands[j].done <= e.sent

\* What was seen of the requirement q of step i.
SightKept(p, r, t, i, q) ==
  LET n == Len(r.commands)  e == r.evidence[<<i, q>>]  c == r.commands[i]
      age == p[i].requires[q].age
      before == p[i].requires[q].phase = "precondition"
  IN
  /\ e.at \in Nat /\ e.at <= t /\ e.holds \in BOOLEAN
  /\ i = n + 1 =>
       before /\ (n > 0 => r.commands[n].done # Nothing /\ r.commands[n].done <= e.at)
  /\ i <= n /\ before =>
       /\ e.holds /\ e.at <= c.sent /\ c.sent - e.at <= age
       /\ i > 1 => r.commands[i - 1].done <= e.at
  /\ i <= n /\ ~before =>
       c.done # Nothing /\ c.done <= e.at /\ e.at - c.done <= age

\* What is seen is seen in its time, and what a dispatch relies on was seen to hold.
EvidenceKept(p, r, t) ==
  /\ r.evidence # <<>> => WasLocked(r)
  /\ \A k \in DOMAIN r.evidence :
       \E i \in 1 .. Len(r.commands) + 1 :
         /\ i \in DOMAIN p
         /\ \E q \in DOMAIN p[i].requires : k = <<i, q>> /\ SightKept(p, r, t, i, q)
  /\ \A i \in 1 .. Len(r.commands) : \A q \in PhaseOf(p[i], "precondition") :
       <<i, q>> \in DOMAIN r.evidence
  /\ \A i \in 1 .. Len(r.commands) - 1 : \A q \in PhaseOf(p[i], "postcondition") :
       /\ <<i, q>> \in DOMAIN r.evidence
       /\ LET e == r.evidence[<<i, q>>] IN
          /\ e.holds /\ e.at <= r.commands[i + 1].sent
          /\ r.commands[i + 1].sent - e.at <= p[i].requires[q].age

\* What was seen of a step that was not sent.
Unsent(r) == { k \in DOMAIN r.evidence : k[1] = Len(r.commands) + 1 }

\* A run that is over has left nothing under way, loose or locked, and says how it ended.
EndKept(p, r, t) ==
  LET n == Len(r.commands) IN
  Outcome(r) \in Terminal =>
    /\ \A j \in 1 .. n : /\ r.commands[j].done # Nothing
                         /\ Actuates(p[j]) => Does(p[j]).device \in DOMAIN r.stops
    /\ \A d \in DOMAIN r.stops : r.stops[d].done # Nothing
    /\ \A x \in DOMAIN r.locks : r.locks[x].to # Nothing
    /\ ~WasLocked(r) => r.locks = <<>>
    /\ Outcome(r) = "succeeded" =>
         /\ n = Len(p) /\ r.commands[n].status = "acknowledged"
         /\ \A q \in DOMAIN p[n].requires :
              <<n, q>> \in DOMAIN r.evidence /\ r.evidence[<<n, q>>].holds
         /\ \A d \in DOMAIN r.stops : r.stops[d].confirmed
    /\ Outcome(r) = "failed" =>
         /\ n > 0 => r.commands[n].status # "cancelled"
         /\ Unsent(r) # {} => \E k \in Unsent(r) : ~r.evidence[k].holds
         /\ \A k \in Unsent(r) : t - r.evidence[k].at <= p[k[1]].requires[k[2]].age
    /\ Outcome(r) = "cancelled" =>
         /\ n > 0 => r.commands[n].status \in {"acknowledged", "cancelled"}
         /\ Unsent(r) = {}

\* Locks and stops are what they are written as.
ShapeKept(r) ==
  /\ \A x \in DOMAIN r.locks : r.locks[x] = [from |-> r.locks[x].from, to |-> r.locks[x].to]
  /\ \A d \in DOMAIN r.stops :
       r.stops[d] = [sent |-> r.stops[d].sent, done |-> r.stops[d].done,
                     confirmed |-> r.stops[d].confirmed]

\* A record that was written with discipline, up to the time t.
Kept(p, r, t) ==
  /\ LifeKept(r, t) /\ LocksKept(p, r, t) /\ CommandsKept(p, r, t) /\ SpansKept(p, r)
  /\ StopsKept(p, r, t) /\ EvidenceKept(p, r, t) /\ EndKept(p, r, t) /\ ShapeKept(r)

DisciplineInv == slips \in Nat /\ (slips = 0 => Kept(protocol, run, clock))

-----------------------------------------------------------------------------
(* What was written with discipline is admitted *)

\* A life has at most four states, each after one that allows it.
LEMMA LifePlaces ==
  ASSUME NEW r, NEW t, LifeKept(r, t)
  PROVE  /\ Len(r.life) \in 1 .. 4 /\ DOMAIN r.life = 1 .. Len(r.life)
         /\ \A i \in 1 .. Len(r.life) :
              r.life[i].state \in DOMAIN AllowedNext \cup Terminal /\ r.life[i].at \in Nat
         /\ r.life[1].state = "created" /\ r.life[1].at = 0
         /\ Len(r.life) >= 2 => r.life[2].state \in {"locked", "failed", "cancelled"}
         /\ Len(r.life) >= 3 => /\ r.life[2].state = "locked"
                               /\ r.life[3].state \in {"running", "failed", "cancelled"}
         /\ Len(r.life) = 4 => /\ r.life[3].state = "running"
                              /\ r.life[4].state \in {"succeeded", "failed", "cancelled"}
<1> DEFINE L == [state : DOMAIN AllowedNext \cup Terminal, at : Nat]
<1>1. r.life \in Seq(L) /\ Len(r.life) \in 1 .. 4
  BY DEF LifeKept
<1>2. DOMAIN r.life = 1 .. Len(r.life) /\ \A i \in 1 .. Len(r.life) : r.life[i] \in L
  <2> HIDE DEF L
  <2> QED BY <1>1
<1>3. /\ AllowedNext["created"] = {"locked", "failed", "cancelled"}
      /\ AllowedNext["locked"] = {"running", "failed", "cancelled"}
      /\ AllowedNext["running"] = {"succeeded", "failed", "cancelled"}
  BY DEF AllowedNext, Terminal
<1>4. \A i \in 1 .. Len(r.life) :
        r.life[i].state \in DOMAIN AllowedNext \cup Terminal /\ r.life[i].at \in Nat
  BY <1>2
<1> QED BY <1>1, <1>2, <1>3, <1>4 DEF LifeKept

\* The states of a run, by their place.
LEMMA LifeRead ==
  ASSUME NEW r, NEW t, LifeKept(r, t)
  PROVE  /\ Started(r) = 0 /\ Ended(r) = r.life[Len(r.life)].at
         /\ Outcome(r) = r.life[Len(r.life)].state
         /\ "locked" \in States(r) <=> WasLocked(r)
         /\ WasLocked(r) => TimeOf(r, "locked") = r.life[2].at
         /\ "running" \in States(r) <=> WasRunning(r)
         /\ WasRunning(r) => WasLocked(r) /\ TimeOf(r, "running") = r.life[3].at
<1> DEFINE n == Len(r.life)
<1>1. /\ n \in 1 .. 4 /\ DOMAIN r.life = 1 .. n
      /\ \A i \in 1 .. n : r.life[i].at \in Nat
  BY LifePlaces
<1>3. /\ r.life[1].state = "created" /\ r.life[1].at = 0
      /\ n >= 2 => r.life[2].state \in {"locked", "failed", "cancelled"}
      /\ n >= 3 => r.life[2].state = "locked" /\ r.life[3].state \in {"running", "failed", "cancelled"}
      /\ n = 4 => r.life[3].state = "running" /\ r.life[4].state \in {"succeeded", "failed", "cancelled"}
  BY LifePlaces
<1>4. Started(r) = 0 /\ Ended(r) = r.life[n].at /\ Outcome(r) = r.life[n].state
  BY <1>3 DEF Started, Ended, Outcome, Last
<1>5. \A i \in DOMAIN r.life : r.life[i].state = "locked" => i = 2 /\ n >= 2
  BY <1>1, <1>3
<1>6. \A i \in DOMAIN r.life : r.life[i].state = "running" => i = 3 /\ n >= 3
  BY <1>1, <1>3
<1>7. "locked" \in States(r) <=> WasLocked(r)
  BY <1>1, <1>5 DEF States, WasLocked
<1>8. "running" \in States(r) <=> WasRunning(r)
  BY <1>1, <1>6 DEF States, WasRunning
<1>9. ASSUME WasLocked(r) PROVE TimeOf(r, "locked") = r.life[2].at
  <2>1. 2 \in DOMAIN r.life /\ r.life[2].state = "locked"
    BY <1>1, <1>9 DEF WasLocked
  <2>2. (CHOOSE i \in DOMAIN r.life : r.life[i].state = "locked") = 2
    BY <1>5, <2>1
  <2> QED BY <2>2 DEF TimeOf
<1>10. ASSUME WasRunning(r) PROVE WasLocked(r) /\ TimeOf(r, "running") = r.life[3].at
  <2>1. 3 \in DOMAIN r.life /\ r.life[3].state = "running"
    BY <1>1, <1>10 DEF WasRunning
  <2>2. (CHOOSE i \in DOMAIN r.life : r.life[i].state = "running") = 3
    BY <1>6, <2>1
  <2>3. WasLocked(r)
    BY <1>1, <1>3, <1>10 DEF WasRunning, WasLocked
  <2> QED BY <2>2, <2>3 DEF TimeOf
<1> QED BY <1>4, <1>7, <1>8, <1>9, <1>10

\* A life that is over is accepted, and all that came before its end is within it.
LEMMA LifeAccepted ==
  ASSUME NEW r, NEW t, LifeKept(r, t), Outcome(r) \in Terminal
  PROVE  LifecycleAccepted(r.life) /\ Started(r) = 0 /\ Ended(r) = t /\ t \in Nat
<1> DEFINE n == Len(r.life)
<1>1. /\ n \in 1 .. 4 /\ DOMAIN r.life = 1 .. n
      /\ \A i \in 1 .. n : r.life[i].state \in DOMAIN AllowedNext \cup Terminal /\ r.life[i].at \in Nat
      /\ \A i \in 1 .. n - 1 : r.life[i].at <= r.life[i + 1].at
  BY LifePlaces DEF LifeKept
<1>2. Started(r) = 0 /\ Ended(r) = t /\ t \in Nat /\ Outcome(r) = r.life[n].state
  BY LifeRead DEF LifeKept
<1>3. \A i \in DOMAIN r.life : TransitionAccepted(r.life[i])
  BY <1>1 DEF TransitionAccepted
<1>4. Head(r.life).state = "created" /\ OutcomeAccepted(Last(r.life).state)
  BY DEF LifeKept, OutcomeAccepted, Outcome
<1>5. ASSUME NEW i \in 1 .. n - 1
      PROVE  r.life[i].state \in DOMAIN AllowedNext /\ r.life[i + 1].state \in AllowedNext[r.life[i].state]
  <2>1. n = 2 \/ n = 3 \/ n = 4
    BY <1>1
  <2>2. /\ r.life[1].state = "created" /\ r.life[2].state \in {"locked", "failed", "cancelled"}
        /\ n >= 3 => r.life[2].state = "locked" /\ r.life[3].state \in {"running", "failed", "cancelled"}
        /\ n = 4 => r.life[3].state = "running" /\ r.life[4].state \in {"succeeded", "failed", "cancelled"}
    BY <2>1, LifePlaces
  <2>3. CASE i = 1
    <3>1. r.life[1].state = "created" /\ r.life[2].state \in {"locked", "failed", "cancelled"}
      BY <2>2
    <3> QED BY <2>3, <3>1 DEF AllowedNext
  <2>4. CASE i = 2
    <3>1. r.life[2].state = "locked" /\ r.life[3].state \in {"running", "failed", "cancelled"}
      BY <1>1, <2>1, <2>4, <2>2
    <3> QED BY <2>4, <3>1 DEF AllowedNext
  <2>5. CASE i = 3
    <3>1. r.life[3].state = "running" /\ r.life[4].state \in {"succeeded", "failed", "cancelled"}
      BY <1>1, <2>1, <2>5, <2>2
    <3> QED BY <2>5, <3>1 DEF AllowedNext, Terminal
  <2>6. i = 1 \/ i = 2 \/ i = 3
    BY <1>1, <2>1
  <2> QED BY <2>3, <2>4, <2>5, <2>6
<1>6. LifecycleAccepted(r.life)
  BY <1>1, <1>3, <1>4, <1>5 DEF LifecycleAccepted
<1> QED BY <1>2, <1>6

\* A record is accepted when nothing in it is under way or still locked.
LEMMA KeptIsAccepted ==
  ASSUME RunAssumption, NEW p, NEW r, NEW t, Kept(p, r, t), Outcome(r) \in Terminal,
         r.commands \in Seq(CommandRecord),
         \A i, j \in DOMAIN r.commands : i < j => r.commands[i].sent < r.commands[j].sent
  PROVE  RecordAccepted(r)
<1>1. LifecycleAccepted(r.life) /\ Started(r) = 0 /\ Ended(r) = t /\ t \in Nat
  BY LifeAccepted DEF Kept
<1>2. DOMAIN r.commands = 1 .. Len(r.commands) /\ Len(r.commands) \in Nat
  OBVIOUS
<1>3. ASSUME NEW x \in DOMAIN r.locks PROVE LockAccepted(r, r.locks[x])
  <2>1. r.locks[x].to # Nothing
    BY DEF Kept, EndKept
  <2>2. /\ r.locks[x].from \in Nat
        /\ r.locks[x].to \in Nat /\ r.locks[x].from <= r.locks[x].to /\ r.locks[x].to <= t
    BY <2>1 DEF Kept, LocksKept
  <2> QED BY <1>1, <2>1, <2>2 DEF LockAccepted, Within
<1>4. ASSUME NEW j \in DOMAIN r.commands PROVE CommandAccepted(r, r.commands[j])
  <2>1. r.commands[j].done # Nothing
    BY <1>2 DEF Kept, EndKept
  <2>2. /\ r.commands[j].sent \in Nat /\ r.commands[j].status \in Statuses
        /\ r.commands[j].done \in Nat /\ r.commands[j].sent <= r.commands[j].done
        /\ r.commands[j].done <= t
    BY <1>2, <2>1 DEF Kept, CommandsKept
  <2> QED BY <1>1, <2>1, <2>2 DEF CommandAccepted, Within
<1>5. CommandsAccepted(r.commands)
  <2>1. \A i \in DOMAIN r.commands : r.commands[i].step = i
    BY <1>2 DEF Kept, CommandsKept
  <2> QED BY <1>2, <2>1 DEF CommandsAccepted
<1>6. ASSUME NEW d \in DOMAIN r.stops PROVE StopAccepted(r, r.stops[d])
  <2>1. r.stops[d].done # Nothing
    BY DEF Kept, EndKept
  <2>2. /\ r.stops[d].sent \in Nat /\ r.stops[d].confirmed \in BOOLEAN
        /\ r.stops[d].done \in Nat /\ r.stops[d].sent <= r.stops[d].done
        /\ r.stops[d].done <= t
    BY <2>1 DEF Kept, StopsKept
  <2> QED BY <1>1, <2>1, <2>2 DEF StopAccepted, Within
<1>7. ASSUME NEW k \in DOMAIN r.evidence PROVE EvidenceAccepted(r, r.evidence[k])
  <2>1. r.evidence[k].at \in Nat /\ r.evidence[k].at <= t /\ r.evidence[k].holds \in BOOLEAN
    BY DEF Kept, EvidenceKept, SightKept
  <2>2. r.evidence[k].at # Nothing
    BY <2>1 DEF RunAssumption
  <2> QED BY <1>1, <2>1, <2>2 DEF EvidenceAccepted, Within
<1> QED BY <1>1, <1>3, <1>4, <1>5, <1>6, <1>7 DEF RecordAccepted

\* Spans that have ended are covered.
LEMMA SpansCover ==
  \A r, x, from, to : Spans(r, x, from, to) /\ r.locks[x].to # Nothing => Covers(r, x, from, to)
BY DEF Spans, Covers

\* Its locks and commands are those of the protocol, in order and covered.
LEMMA KeptIsOrdered ==
  ASSUME RunAssumption, NEW p, NEW r, NEW t, Kept(p, r, t), Outcome(r) \in Terminal,
         r.commands \in Seq(CommandRecord)
  PROVE  LocksAsResolved(r, p) /\ CommandsInOrder(r, p) /\ CommandsCovered(r, p)
<1>1. /\ "locked" \in States(r) <=> WasLocked(r)
      /\ WasLocked(r) => TimeOf(r, "locked") = r.life[2].at
      /\ "running" \in States(r) <=> WasRunning(r)
      /\ WasRunning(r) => TimeOf(r, "running") = r.life[3].at
  BY LifeRead DEF Kept
<1>2. DOMAIN r.commands = 1 .. Len(r.commands) /\ Len(r.commands) \in Nat
  OBVIOUS
<1>3. LocksAsResolved(r, p)
  <2>1. CASE WasLocked(r)
    BY <1>1, <2>1 DEF Kept, LocksKept, LocksAsResolved
  <2>2. CASE ~WasLocked(r)
    <3>1. r.locks = <<>>
      BY <2>2 DEF Kept, EndKept
    <3>2. DOMAIN r.locks = {}
      BY <3>1
    <3> QED BY <1>1, <2>2, <3>2 DEF LocksAsResolved
  <2> QED BY <2>1, <2>2
<1>4. CommandsInOrder(r, p)
  BY <1>1, <1>2 DEF Kept, CommandsKept, CommandsInOrder
<1>5. CommandsCovered(r, p)
  <2> SUFFICES ASSUME NEW j \in 1 .. Len(r.commands)
      PROVE LET c == r.commands[j] IN
            /\ IF c.status = "timed_out" THEN c.done - c.sent >= p[j].timeout
                                         ELSE c.done - c.sent <= p[j].timeout
            /\ \A x \in p[j].resources : Covers(r, x, c.sent, c.done)
    BY <1>2 DEF CommandsCovered
  <2>1. r.commands[j].done # Nothing
    BY DEF Kept, EndKept
  <2>2. IF r.commands[j].status = "timed_out"
        THEN r.commands[j].done - r.commands[j].sent >= p[j].timeout
        ELSE r.commands[j].done - r.commands[j].sent <= p[j].timeout
    BY <2>1 DEF Kept, CommandsKept
  <2>3. \A x \in p[j].resources : Covers(r, x, r.commands[j].sent, r.commands[j].done)
    <3> SUFFICES ASSUME NEW x \in p[j].resources
        PROVE Covers(r, x, r.commands[j].sent, r.commands[j].done)
      OBVIOUS
    <3>1. Spans(r, x, r.commands[j].sent, r.commands[j].done)
      BY DEF Kept, SpansKept
    <3>2. r.locks[x].to # Nothing
      BY <3>1 DEF Spans, Kept, EndKept
    <3> QED BY <3>1, <3>2, SpansCover
  <2> QED BY <2>2, <2>3
<1> QED BY <1>3, <1>4, <1>5

\* A protocol that may be run is a list of steps, with phases and ages.
LEMMA RunnableRead ==
  ASSUME RunAssumption, NEW p, Runnable(p)
  PROVE  /\ Len(p) \in Nat /\ Len(p) >= 1 /\ DOMAIN p = 1 .. Len(p)
         /\ \A i \in DOMAIN p : \A q \in DOMAIN p[i].requires :
              p[i].requires[q].phase \in Phases /\ p[i].requires[q].age \in Int
<1>1. p \in Seq(Range(p)) /\ ProtocolAccepted(p) /\ p \in Protocols
  BY DEF RunAssumption, Runnable, Sealed
<1>2. Len(p) \in Nat /\ DOMAIN p = 1 .. Len(p)
  BY <1>1
<1>3. Len(p) >= 1
  BY <1>1, <1>2 DEF ProtocolAccepted
<1>4. \A i \in DOMAIN p : \A q \in DOMAIN p[i].requires :
        p[i].requires[q].phase \in Phases /\ p[i].requires[q].age \in Int
  BY <1>1 DEF RunAssumption, ProtocolAccepted, StepAccepted, RequirementAccepted
<1> QED BY <1>2, <1>3, <1>4

\* Where each command is that of its step, the steps that were sent are the first ones.
LEMMA SentInPlace ==
  ASSUME NEW r, r.commands \in Seq(CommandRecord),
         \A j \in 1 .. Len(r.commands) : r.commands[j].step = j
  PROVE  /\ Dispatched(r) = 1 .. Len(r.commands)
         /\ \A i \in 1 .. Len(r.commands) : CommandOf(r, i) = r.commands[i]
<1>1. DOMAIN r.commands = 1 .. Len(r.commands)
  OBVIOUS
<1>2. Dispatched(r) = 1 .. Len(r.commands)
  BY <1>1 DEF Dispatched
<1>3. ASSUME NEW i \in 1 .. Len(r.commands) PROVE CommandOf(r, i) = r.commands[i]
  <2>1. (CHOOSE j \in DOMAIN r.commands : r.commands[j].step = i) = i
    BY <1>1
  <2> QED BY <2>1 DEF CommandOf
<1> QED BY <1>2, <1>3

\* The evidence fits: seen in time, by those that were locked, and held where it must.
LEMMA KeptIsEvident ==
  ASSUME RunAssumption, NEW p, Runnable(p), NEW r, NEW t, Kept(p, r, t), Outcome(r) \in Terminal,
         r.commands \in Seq(CommandRecord)
  PROVE  EvidenceFits(r, p)
<1> DEFINE n == Len(r.commands)
<1>1. /\ "locked" \in States(r) <=> WasLocked(r)
      /\ Started(r) = 0 /\ Ended(r) = t /\ t \in Nat
  BY LifeRead, LifeAccepted DEF Kept
<1>2. DOMAIN r.commands = 1 .. n /\ n \in Nat /\ (r.commands = <<>> <=> n = 0)
  OBVIOUS
<1>3. \A j \in 1 .. n : r.commands[j].step = j /\ r.commands[j].sent \in Nat
  BY DEF Kept, CommandsKept
<1>4. Dispatched(r) = 1 .. n /\ \A i \in 1 .. n : CommandOf(r, i) = r.commands[i]
  BY <1>3, SentInPlace
<1>5. r.evidence # <<>> => "locked" \in States(r)
  BY <1>1 DEF Kept, EvidenceKept
<1>6. \A j \in 1 .. n : r.commands[j].done \in Nat
  BY DEF Kept, CommandsKept, EndKept
<1>7. n > 0 => PriorDone(r) = r.commands[n].done
  BY <1>2 DEF PriorDone, Last
<1>8. ASSUME NEW k \in DOMAIN r.evidence
      PROVE  LET i == k[1]  q == k[2]  e == r.evidence[k] IN
             /\ i \in Dispatched(r) \/ Blocked(r, p, i, q)
             /\ i \notin Dispatched(r) => PriorDone(r) <= e.at
             /\ Age(r, p, i, q) \in 0 .. p[i].requires[q].age
             /\ i \in Dispatched(r) /\ q \in PhaseOf(p[i], "precondition") => e.holds
             /\ \A x \in p[i].resources : Covers(r, x, e.at, e.at)
  <2>0. PICK i \in 1 .. n + 1 :
          /\ i \in DOMAIN p
          /\ \E q \in DOMAIN p[i].requires : k = <<i, q>> /\ SightKept(p, r, t, i, q)
    BY DEF Kept, EvidenceKept
  <2>1. PICK q \in DOMAIN p[i].requires :
          i \in DOMAIN p /\ k = <<i, q>> /\ SightKept(p, r, t, i, q)
    BY <2>0
  <2>2. k[1] = i /\ k[2] = q /\ r.evidence[k] = r.evidence[<<i, q>>]
    BY <2>1
  <2> DEFINE e == r.evidence[<<i, q>>]
             age == p[i].requires[q].age
             before == p[i].requires[q].phase = "precondition"
  <2>3. e.at \in Nat /\ e.at <= t /\ age \in Int
    BY <2>1, RunnableRead DEF SightKept
  <2>4. \A x \in p[i].resources : Covers(r, x, e.at, e.at)
    <3>1. \A x \in p[i].resources : Spans(r, x, e.at, e.at)
      BY <2>2 DEF Kept, SpansKept
    <3>2. \A x \in p[i].resources : r.locks[x].to # Nothing
      BY <3>1 DEF Spans, Kept, EndKept
    <3> QED BY <3>1, <3>2, SpansCover
  <2>5. CASE i = n + 1
    <3>1. i \notin Dispatched(r)
      BY <1>2, <1>4, <2>5
    <3>2. before /\ (n > 0 => r.commands[n].done <= e.at)
      BY <2>1, <2>5 DEF SightKept
    <3>3. PriorDone(r) <= e.at
      <4>1. CASE n > 0
        BY <1>7, <3>2, <4>1
      <4>2. CASE n = 0
        BY <1>1, <1>2, <2>3, <4>2 DEF PriorDone
      <4> QED BY <1>2, <4>1, <4>2
    <3>4. k \in Unsent(r)
      BY <2>2, <2>5 DEF Unsent
    <3>5. Outcome(r) = "failed"
      <4>1. CASE Outcome(r) = "succeeded"
        <5>1. n = Len(p)
          BY <4>1 DEF Kept, EndKept
        <5> QED BY <1>2, <2>1, <2>5, <5>1, RunnableRead
      <4>2. CASE Outcome(r) = "cancelled"
        BY <3>4, <4>2 DEF Kept, EndKept
      <4> QED BY <4>1, <4>2 DEF Terminal
    <3>6. t - e.at <= age
      BY <2>2, <3>4, <3>5 DEF Kept, EndKept
    <3>7. Age(r, p, i, q) = t - e.at
      BY <1>1, <3>1 DEF Age
    <3>8. Age(r, p, i, q) \in 0 .. age
      BY <1>1, <2>3, <3>6, <3>7
    <3>9. Blocked(r, p, i, q)
      BY <2>5, <3>2, <3>5 DEF Blocked
    <3> QED BY <2>2, <2>4, <3>1, <3>3, <3>8, <3>9, Zenon
  <2>6. CASE i \in 1 .. n /\ before
    <3>1. i \in Dispatched(r) /\ CommandOf(r, i) = r.commands[i]
      BY <1>4, <2>6
    <3>2. e.holds /\ e.at <= r.commands[i].sent /\ r.commands[i].sent - e.at <= age
      BY <1>2, <2>1, <2>6 DEF SightKept
    <3>3. Age(r, p, i, q) = r.commands[i].sent - e.at
      BY <2>6, <3>1 DEF Age
    <3>4. Age(r, p, i, q) \in 0 .. age
      BY <1>3, <2>3, <2>6, <3>2, <3>3
    <3> QED BY <2>2, <2>4, <3>1, <3>2, <3>4, Zenon
  <2>7. CASE i \in 1 .. n /\ ~before
    <3>1. i \in Dispatched(r) /\ CommandOf(r, i) = r.commands[i]
      BY <1>4, <2>7
    <3>2. r.commands[i].done <= e.at /\ e.at - r.commands[i].done <= age
      BY <1>2, <2>1, <2>7 DEF SightKept
    <3>3. Age(r, p, i, q) = e.at - r.commands[i].done
      BY <2>7, <3>1 DEF Age
    <3>4. Age(r, p, i, q) \in 0 .. age
      BY <1>6, <2>3, <2>7, <3>2, <3>3
    <3>5. q \notin PhaseOf(p[i], "precondition")
      BY <2>7 DEF PhaseOf
    <3> QED BY <2>2, <2>4, <3>1, <3>4, <3>5, Zenon
  <2>8. i = n + 1 \/ i \in 1 .. n
    BY <1>2
  <2> QED BY <2>5, <2>6, <2>7, <2>8
<1> QED BY <1>5, <1>8, Zenon DEF EvidenceFits

\* A run ends as its commands and its evidence say.
LEMMA KeptIsConcluded ==
  ASSUME RunAssumption, NEW p, Runnable(p), NEW r, NEW t, Kept(p, r, t), Outcome(r) \in Terminal,
         r.commands \in Seq(CommandRecord)
  PROVE  /\ BlockJustified(r, p) /\ PreconditionsSeen(r, p)
         /\ PostconditionBarrier(r, p) /\ OutcomeFits(r, p)
<1> DEFINE n == Len(r.commands)
<1>1. DOMAIN r.commands = 1 .. n /\ n \in Nat
  OBVIOUS
<1>2. /\ Len(p) \in Nat /\ Len(p) >= 1 /\ DOMAIN p = 1 .. Len(p)
      /\ \A i \in DOMAIN p : \A q \in DOMAIN p[i].requires :
           p[i].requires[q].phase \in Phases /\ p[i].requires[q].age \in Int
  BY RunnableRead
<1>3. n <= Len(p) /\ \A j \in 1 .. n : r.commands[j].done # Nothing /\ r.commands[j].status \in Statuses
  BY DEF Kept, CommandsKept, EndKept
<1>4. \A k \in DOMAIN r.evidence : \E i \in 1 .. n + 1 :
        /\ i \in DOMAIN p
        /\ \E q \in DOMAIN p[i].requires : k = <<i, q>> /\ SightKept(p, r, t, i, q)
  BY DEF Kept, EvidenceKept
<1>5. BlockJustified(r, p)
  <2> DEFINE shown2 == { k \in DOMAIN r.evidence :
                          k[1] = n + 1 /\ k[2] \in PhaseOf(p[n + 1], "precondition") }
  <2> SUFFICES ASSUME ~(n + 1 > Len(p)), shown2 # {}
               PROVE  \E k \in shown2 : ~r.evidence[k].holds
    BY Zenon DEF BlockJustified
  <2>1. \A k \in Unsent(r) : k \in shown2
    <3> SUFFICES ASSUME NEW k \in Unsent(r) PROVE k \in shown2
      OBVIOUS
    <3>1. k \in DOMAIN r.evidence /\ k[1] = n + 1
      BY DEF Unsent
    <3>2. PICK i, q : /\ i \in 1 .. n + 1 /\ q \in DOMAIN p[i].requires
                    /\ k = <<i, q>> /\ SightKept(p, r, t, i, q)
      BY <1>4, <3>1
    <3>3. i = n + 1 /\ k[2] = q
      BY <3>1, <3>2
    <3>4. q \in PhaseOf(p[n + 1], "precondition")
      BY <3>2, <3>3 DEF SightKept, PhaseOf
    <3> QED BY <3>1, <3>3, <3>4
  <2>2. Unsent(r) # {}
    BY DEF Unsent
  <2>3. Outcome(r) = "failed"
    BY <1>1, <1>2, <2>2 DEF Kept, EndKept, Terminal
  <2>4. \E k \in Unsent(r) : ~r.evidence[k].holds
    BY <2>2, <2>3 DEF Kept, EndKept
  <2> HIDE DEF shown2
  <2> QED BY <2>1, <2>4
<1>6. PreconditionsSeen(r, p)
  <2> SUFFICES ASSUME NEW i \in 1 .. n, NEW q \in PhaseOf(p[i], "precondition")
               PROVE  /\ <<i, q>> \in DOMAIN r.evidence
                      /\ i > 1 => r.commands[i - 1].done <= r.evidence[<<i, q>>].at
    BY <1>1 DEF PreconditionsSeen
  <2>1. <<i, q>> \in DOMAIN r.evidence
    BY DEF Kept, EvidenceKept
  <2>2. SightKept(p, r, t, i, q)
    <3>1. PICK i2, q2 :
            <<i, q>> = <<i2, q2>> /\ SightKept(p, r, t, i2, q2)
      BY <1>4, <2>1
    <3>2. i = i2 /\ q = q2
      BY <3>1
    <3> QED BY <3>1, <3>2
  <2> QED BY <1>1, <2>1, <2>2 DEF SightKept, PhaseOf
<1>7. PostconditionBarrier(r, p)
  <2> SUFFICES ASSUME NEW i \in 1 .. n - 1, NEW q \in PhaseOf(p[i], "postcondition")
               PROVE  /\ <<i, q>> \in DOMAIN r.evidence
                      /\ r.evidence[<<i, q>>].holds
                      /\ r.commands[i + 1].sent - r.evidence[<<i, q>>].at
                           \in 0 .. p[i].requires[q].age
    BY DEF PostconditionBarrier
  <2>1. /\ <<i, q>> \in DOMAIN r.evidence /\ r.evidence[<<i, q>>].holds
        /\ r.evidence[<<i, q>>].at <= r.commands[i + 1].sent
        /\ r.commands[i + 1].sent - r.evidence[<<i, q>>].at <= p[i].requires[q].age
    BY DEF Kept, EvidenceKept
  <2>2. r.evidence[<<i, q>>].at \in Nat
    BY <1>4, <2>1 DEF SightKept
  <2>3. i + 1 \in 1 .. n
    BY <1>1
  <2>4. r.commands[i + 1].sent \in Nat
    BY <2>3 DEF Kept, CommandsKept
  <2>5. p[i].requires[q].age \in Int
    BY <1>1, <1>2, <1>3 DEF PhaseOf
  <2> QED BY <2>1, <2>2, <2>4, <2>5
<1>8. OutcomeFits(r, p)
  <2>1. \A j \in 1 .. n : j # n => r.commands[j].status = "acknowledged"
    BY <1>1 DEF Kept, CommandsKept
  <2>2. ASSUME Outcome(r) = "succeeded"
        PROVE  /\ n = Len(p)
               /\ \A j \in DOMAIN r.commands : r.commands[j].status = "acknowledged"
               /\ \A i \in DOMAIN p : \A q \in DOMAIN p[i].requires :
                    <<i, q>> \in DOMAIN r.evidence /\ r.evidence[<<i, q>>].holds
               /\ \A d \in DOMAIN r.stops : r.stops[d].confirmed
    <3>1. /\ n = Len(p) /\ r.commands[n].status = "acknowledged"
          /\ \A q \in DOMAIN p[n].requires :
               <<n, q>> \in DOMAIN r.evidence /\ r.evidence[<<n, q>>].holds
          /\ \A d \in DOMAIN r.stops : r.stops[d].confirmed
      BY <2>2 DEF Kept, EndKept
    <3>2. ASSUME NEW i \in DOMAIN p, NEW q \in DOMAIN p[i].requires
          PROVE  <<i, q>> \in DOMAIN r.evidence /\ r.evidence[<<i, q>>].holds
      <4>1. CASE i = n
        BY <3>1, <4>1
      <4>2. CASE i # n /\ q \in PhaseOf(p[i], "precondition")
        <5>1. i \in 1 .. n
          BY <1>2, <3>1
        <5>2. <<i, q>> \in DOMAIN r.evidence
          BY <4>2, <5>1 DEF Kept, EvidenceKept
        <5>3. SightKept(p, r, t, i, q)
          <6>1. PICK i2, q2 :
                  <<i, q>> = <<i2, q2>> /\ SightKept(p, r, t, i2, q2)
            BY <1>4, <5>2
          <6>2. i = i2 /\ q = q2
            BY <6>1
          <6> QED BY <6>1, <6>2
        <5> QED BY <1>1, <4>2, <5>1, <5>2, <5>3 DEF SightKept, PhaseOf
      <4>3. CASE i # n /\ q \in PhaseOf(p[i], "postcondition")
        <5>1. i \in 1 .. n - 1
          BY <1>1, <1>2, <3>1, <4>3
        <5> QED BY <4>3, <5>1 DEF Kept, EvidenceKept
      <4> QED BY <1>2, <4>1, <4>2, <4>3 DEF PhaseOf, Phases
    <3>3. \A j \in DOMAIN r.commands : r.commands[j].status = "acknowledged"
      BY <1>1, <2>1, <3>1
    <3> QED BY <3>1, <3>2, <3>3
  <2>3. ASSUME NEW j \in DOMAIN r.commands
        PROVE  /\ r.commands[j].status \in {"timed_out", "failed"} => Outcome(r) = "failed"
               /\ r.commands[j].status = "cancelled" => Outcome(r) = "cancelled"
    <3>1. CASE j # n
      BY <1>1, <2>1, <3>1
    <3>2. CASE j = n
      <4>1. n > 0
        BY <1>1, <3>2
      <4>2. Outcome(r) = "failed" => r.commands[n].status # "cancelled"
        BY <4>1 DEF Kept, EndKept
      <4>3. Outcome(r) = "cancelled" => r.commands[n].status \in {"acknowledged", "cancelled"}
        BY <4>1 DEF Kept, EndKept
      <4>4. Outcome(r) = "succeeded" => r.commands[n].status = "acknowledged"
        BY DEF Kept, EndKept
      <4> QED BY <3>2, <4>2, <4>3, <4>4 DEF Terminal
    <3> QED BY <3>1, <3>2
  <2> QED BY <2>2, <2>3 DEF OutcomeFits
<1> QED BY <1>5, <1>6, <1>7, <1>8

\* What moved, and nothing else, was stopped after its last move.
LEMMA KeptIsStopped ==
  ASSUME RunAssumption, NEW p, Runnable(p), NEW r, NEW t, Kept(p, r, t), Outcome(r) \in Terminal,
         r.commands \in Seq(CommandRecord)
  PROVE  StopsCover(r, p)
<1> DEFINE n == Len(r.commands)
<1>1. DOMAIN r.commands = 1 .. n /\ n \in Nat
  OBVIOUS
<1>2. \A d, j : j \in Actuations(r, p, d)
                <=> j \in 1 .. n /\ Actuates(p[j]) /\ Does(p[j]).device = d
  BY <1>1 DEF Actuations
<1>3. DOMAIN r.stops = { d \in Devices : Actuations(r, p, d) # {} }
  <2>1. \A d \in DOMAIN r.stops : d \in Devices /\ Actuations(r, p, d) # {}
    <3> SUFFICES ASSUME NEW d \in DOMAIN r.stops PROVE d \in Devices /\ Actuations(r, p, d) # {}
      OBVIOUS
    <3>1. d \in Devices /\ \E j \in 1 .. n : Actuates(p[j]) /\ Does(p[j]).device = d
      BY DEF Kept, StopsKept
    <3> QED BY <1>2, <3>1
  <2>2. ASSUME NEW d \in Devices, Actuations(r, p, d) # {} PROVE d \in DOMAIN r.stops
    <3>1. PICK j : j \in Actuations(r, p, d)
      BY <2>2
    <3>2. j \in 1 .. n /\ Actuates(p[j]) /\ Does(p[j]).device = d
      BY <1>2, <3>1
    <3> QED BY <3>2 DEF Kept, EndKept
  <2> QED BY <2>1, <2>2
<1>4. ASSUME NEW d \in DOMAIN r.stops, NEW j \in Actuations(r, p, d)
      PROVE  r.commands[j].done <= r.stops[d].sent
  BY <1>2 DEF Kept, StopsKept
<1>5. ASSUME NEW d \in DOMAIN r.stops, NEW x \in StopOf(d).resources
      PROVE  Covers(r, x, r.stops[d].sent, r.stops[d].done)
  <2>1. Spans(r, x, r.stops[d].sent, r.stops[d].done)
    BY DEF Kept, SpansKept
  <2>2. r.locks[x].to # Nothing
    BY <2>1 DEF Spans, Kept, EndKept
  <2> QED BY <2>1, <2>2, SpansCover
<1> QED BY <1>3, <1>4, <1>5 DEF StopsCover

\* A disciplined record that is over is admitted.
LEMMA KeptIsAdmitted ==
  ASSUME RunAssumption, NEW p, Runnable(p), NEW r, NEW t, Kept(p, r, t), Outcome(r) \in Terminal,
         r.commands \in Seq(CommandRecord),
         \A i, j \in DOMAIN r.commands : i < j => r.commands[i].sent < r.commands[j].sent
  PROVE  Admitted(r, p)
BY KeptIsAccepted, KeptIsOrdered, KeptIsEvident, KeptIsConcluded, KeptIsStopped DEF Admitted


-----------------------------------------------------------------------------
(* A disciplined host keeps its record so                                  *)

\* Where a run stands that is not over, and what was written before it was running.
LEMMA HostStands ==
  ASSUME NEW p, NEW r, NEW t, Kept(p, r, t), Outcome(r) \notin Terminal
  PROVE  /\ t \in Nat
         /\ Len(r.life) \in 1 .. 3 /\ r.life[Len(r.life)].at <= t
         /\ \/ Outcome(r) = "created" /\ Len(r.life) = 1 /\ ~WasLocked(r) /\ ~WasRunning(r)
            \/ Outcome(r) = "locked" /\ Len(r.life) = 2 /\ WasLocked(r) /\ ~WasRunning(r)
            \/ Outcome(r) = "running" /\ Len(r.life) = 3 /\ WasLocked(r) /\ WasRunning(r)
<1>1. LifeKept(r, t)
  BY DEF Kept
<1>2. /\ Len(r.life) \in 1 .. 4 /\ r.life[1].state = "created"
      /\ Outcome(r) = r.life[Len(r.life)].state
      /\ Len(r.life) >= 2 => r.life[2].state \in {"locked", "failed", "cancelled"}
      /\ Len(r.life) >= 3 => /\ r.life[2].state = "locked"
                            /\ r.life[3].state \in {"running", "failed", "cancelled"}
  BY <1>1, LifePlaces, LifeRead
<1>3. Len(r.life) = 4 => Outcome(r) \in Terminal
  BY <1>1, <1>2 DEF LifeKept, AllowedNext
<1>4. Len(r.life) \in 1 .. 3
  BY <1>2, <1>3
<1>5. t \in Nat /\ r.life[Len(r.life)].at <= t
  BY <1>1, <1>4 DEF LifeKept
<1>6. Len(r.life) = 1 \/ Len(r.life) = 2 \/ Len(r.life) = 3
  BY <1>4
<1>7. CASE Len(r.life) = 1
  BY <1>2, <1>4, <1>5, <1>7 DEF WasLocked, WasRunning
<1>8. CASE Len(r.life) = 2
  BY <1>2, <1>4, <1>5, <1>8 DEF WasLocked, WasRunning, Terminal
<1>9. CASE Len(r.life) = 3
  BY <1>2, <1>4, <1>5, <1>9 DEF WasLocked, WasRunning, Terminal
<1> QED BY <1>6, <1>7, <1>8, <1>9

\* Before it is running a host sends, stops and, before it is locked, sees nothing.
LEMMA NothingEarly ==
  ASSUME NEW p, NEW r, NEW t, Kept(p, r, t), r.commands \in Seq(CommandRecord), ~WasRunning(r)
  PROVE  /\ Len(r.commands) = 0 /\ r.commands = <<>> /\ DOMAIN r.stops = {}
         /\ ~WasLocked(r) => r.evidence = <<>> /\ DOMAIN r.evidence = {}
<1>1. Len(r.commands) = 0 /\ r.commands = <<>>
  BY DEF Kept, CommandsKept
<1>2. DOMAIN r.stops = {}
  BY <1>1 DEF Kept, StopsKept
<1>3. ~WasLocked(r) => r.evidence = <<>> /\ DOMAIN r.evidence = {}
  BY DEF Kept, EvidenceKept
<1> QED BY <1>1, <1>2, <1>3

\* Parts of a record are disciplined as long as what they are about stays the same.
LEMMA PartsStay ==
  ASSUME NEW p, NEW r, NEW t, Kept(p, r, t), NEW r2
  PROVE  /\ r2.life = r.life => LifeKept(r2, t) /\ Outcome(r2) = Outcome(r)
                                /\ (WasLocked(r2) <=> WasLocked(r))
                                /\ (WasRunning(r2) <=> WasRunning(r))
         /\ r2.life = r.life /\ r2.locks = r.locks => LocksKept(p, r2, t)
         /\ r2.life = r.life /\ r2.commands = r.commands => CommandsKept(p, r2, t)
         /\ r2.stops = r.stops /\ r2.commands = r.commands => StopsKept(p, r2, t)
         /\ r2.locks = r.locks /\ r2.stops = r.stops /\ r2.commands = r.commands
            /\ r2.evidence = r.evidence => SpansKept(p, r2)
         /\ r2.evidence = r.evidence /\ r2.commands = r.commands
            /\ (WasLocked(r) => WasLocked(r2)) => EvidenceKept(p, r2, t)
         /\ Outcome(r2) \notin Terminal => EndKept(p, r2, t)
         /\ r2.locks = r.locks /\ r2.stops = r.stops => ShapeKept(r2)
<1>1. ASSUME r2.life = r.life
      PROVE  /\ LifeKept(r2, t) /\ Outcome(r2) = Outcome(r)
             /\ WasLocked(r2) <=> WasLocked(r)
             /\ WasRunning(r2) <=> WasRunning(r)
  BY <1>1 DEF Kept, LifeKept, Outcome, WasLocked, WasRunning
<1>2. ASSUME r2.life = r.life, r2.locks = r.locks PROVE LocksKept(p, r2, t)
  BY <1>2 DEF Kept, LocksKept, WasLocked
<1>3. ASSUME r2.life = r.life, r2.commands = r.commands PROVE CommandsKept(p, r2, t)
  BY <1>3 DEF Kept, CommandsKept, WasRunning
<1>4. ASSUME r2.stops = r.stops, r2.commands = r.commands PROVE StopsKept(p, r2, t)
  BY <1>4 DEF Kept, StopsKept
<1>5. ASSUME r2.locks = r.locks, r2.stops = r.stops, r2.commands = r.commands,
             r2.evidence = r.evidence
      PROVE  SpansKept(p, r2)
  BY <1>5 DEF Kept, SpansKept, Spans
<1>6. ASSUME r2.evidence = r.evidence, r2.commands = r.commands, WasLocked(r) => WasLocked(r2)
      PROVE  EvidenceKept(p, r2, t)
  <2>1. \A i, q : SightKept(p, r, t, i, q) => SightKept(p, r2, t, i, q)
    BY <1>6 DEF SightKept
  <2> QED BY <1>6, <2>1 DEF Kept, EvidenceKept
<1>7. Outcome(r2) \notin Terminal => EndKept(p, r2, t)
  BY DEF EndKept
<1>8. r2.locks = r.locks /\ r2.stops = r.stops => ShapeKept(r2)
  BY DEF Kept, ShapeKept
<1> QED BY <1>1, <1>2, <1>3, <1>4, <1>5, <1>6, <1>7, <1>8

\* Time passes.
LEMMA TickKept ==
  ASSUME NEW p, NEW r, NEW t, Kept(p, r, t), Outcome(r) \notin Terminal
  PROVE  Kept(p, r, t + 1)
<1>1. t \in Nat /\ t + 1 \in Nat
  BY HostStands
<1>2. LifeKept(r, t + 1)
  <2>1. \A i \in 1 .. Len(r.life) : r.life[i].at <= t + 1
    <3>1. \A i \in 1 .. Len(r.life) : r.life[i].at \in Nat /\ r.life[i].at <= t
      BY LifePlaces DEF Kept, LifeKept
    <3> QED BY <1>1, <3>1
  <2> QED BY <1>1, <2>1 DEF Kept, LifeKept
<1>3. LocksKept(p, r, t + 1)
  BY <1>1 DEF Kept, LocksKept
<1>4. CommandsKept(p, r, t + 1)
  <2>1. \A j \in 1 .. Len(r.commands) :
          /\ r.commands[j].sent <= t + 1
          /\ r.commands[j].done # Nothing => r.commands[j].done <= t + 1
    BY <1>1 DEF Kept, CommandsKept
  <2> QED BY <2>1 DEF Kept, CommandsKept
<1>5. StopsKept(p, r, t + 1)
  <2>1. \A d \in DOMAIN r.stops :
          /\ r.stops[d].sent <= t + 1
          /\ r.stops[d].done # Nothing => r.stops[d].done <= t + 1
    BY <1>1 DEF Kept, StopsKept
  <2> QED BY <2>1 DEF Kept, StopsKept
<1>6. EvidenceKept(p, r, t + 1)
  <2>1. ASSUME NEW i, NEW q, SightKept(p, r, t, i, q) PROVE SightKept(p, r, t + 1, i, q)
    <3>1. r.evidence[<<i, q>>].at <= t + 1
      BY <1>1, <2>1 DEF SightKept
    <3> QED BY <2>1, <3>1 DEF SightKept
  <2> QED BY <2>1 DEF Kept, EvidenceKept
<1>7. EndKept(p, r, t + 1)
  BY DEF EndKept
<1>8. SpansKept(p, r) /\ ShapeKept(r)
  BY DEF Kept
<1> QED BY <1>2, <1>3, <1>4, <1>5, <1>6, <1>7, <1>8 DEF Kept

\* Resources are locked, before the run is.
LEMMA AcquireKept ==
  ASSUME NEW p, NEW r, NEW t, Kept(p, r, t), r.commands \in Seq(CommandRecord),
         Outcome(r) = "created", NEW xs, xs \subseteq RequiredLocks(p), NEW r2,
         r2.life = r.life, r2.commands = r.commands, r2.stops = r.stops, r2.evidence = r.evidence,
         r2.locks = With(r.locks, xs, [from |-> t, to |-> Nothing])
  PROVE  Kept(p, r2, t)
<1>1. t \in Nat /\ ~WasLocked(r) /\ ~WasRunning(r)
  BY HostStands DEF Terminal
<1>2. /\ LifeKept(r2, t) /\ Outcome(r2) = Outcome(r) /\ ~WasLocked(r2)
      /\ CommandsKept(p, r2, t) /\ StopsKept(p, r2, t) /\ EvidenceKept(p, r2, t)
  BY <1>1, PartsStay
<1>3. /\ Len(r2.commands) = 0 /\ DOMAIN r2.stops = {} /\ DOMAIN r2.evidence = {}
  BY <1>1, NothingEarly
<1>4. LocksKept(p, r2, t)
  <2>1. DOMAIN r2.locks = DOMAIN r.locks \cup xs
    BY DEF With
  <2>2. \A x \in DOMAIN r2.locks :
          IF x \in DOMAIN r.locks THEN r2.locks[x] = r.locks[x]
                                  ELSE r2.locks[x] = [from |-> t, to |-> Nothing]
    BY DEF With
  <2>3. DOMAIN r2.locks \subseteq RequiredLocks(p)
    BY <2>1 DEF Kept, LocksKept
  <2>4. \A x \in DOMAIN r2.locks :
          /\ r2.locks[x].from \in Nat /\ r2.locks[x].from <= t
          /\ r2.locks[x].to # Nothing =>
               /\ r2.locks[x].to \in Nat /\ r2.locks[x].from <= r2.locks[x].to
               /\ r2.locks[x].to <= t
    <3> SUFFICES ASSUME NEW x \in DOMAIN r2.locks
                 PROVE  /\ r2.locks[x].from \in Nat /\ r2.locks[x].from <= t
                        /\ r2.locks[x].to # Nothing =>
                             /\ r2.locks[x].to \in Nat /\ r2.locks[x].from <= r2.locks[x].to
                             /\ r2.locks[x].to <= t
      OBVIOUS
    <3>1. CASE x \in DOMAIN r.locks
      <4>1. r2.locks[x] = r.locks[x]
        BY <2>2, <3>1
      <4> QED BY <3>1, <4>1 DEF Kept, LocksKept
    <3>2. CASE x \notin DOMAIN r.locks
      <4>1. r2.locks[x] = [from |-> t, to |-> Nothing]
        BY <2>2, <3>2
      <4>2. r2.locks[x].from = t /\ r2.locks[x].to = Nothing
        BY <4>1
      <4> QED BY <1>1, <4>1, <4>2
    <3> QED BY <3>1, <3>2
  <2> QED BY <1>2, <2>3, <2>4 DEF LocksKept
<1>5. SpansKept(p, r2)
  BY <1>3 DEF SpansKept
<1>6. EndKept(p, r2, t)
  BY <1>2 DEF EndKept, Terminal
<1>7. ShapeKept(r2)
  <2> DEFINE l == [from |-> t, to |-> Nothing]
  <2>1. l = [from |-> l.from, to |-> l.to]
    OBVIOUS
  <2> HIDE DEF l
  <2>2. \A x \in DOMAIN r2.locks :
          \/ x \in DOMAIN r.locks /\ r2.locks[x] = r.locks[x]
          \/ r2.locks[x] = l
    BY DEF With, l
  <2> QED BY <2>1, <2>2, Zenon DEF Kept, ShapeKept
<1> QED BY <1>2, <1>4, <1>5, <1>6, <1>7 DEF Kept

\* What a run goes on with: its states, and the time of each.
LEMMA LifeGoesOn ==
  ASSUME NEW p, NEW r, NEW t, Kept(p, r, t), Outcome(r) \notin Terminal,
         NEW s, s \in AllowedNext[Outcome(r)], NEW r2,
         r2.life = Append(r.life, [state |-> s, at |-> t])
  PROVE  /\ LifeKept(r2, t) /\ Outcome(r2) = s
         /\ Len(r2.life) = Len(r.life) + 1
         /\ \A i \in 1 .. Len(r.life) : r2.life[i] = r.life[i]
         /\ r2.life[Len(r.life) + 1] = [state |-> s, at |-> t]
<1> DEFINE L == [state : DOMAIN AllowedNext \cup Terminal, at : Nat]
           e == [state |-> s, at |-> t]
           n == Len(r.life)
<1>1. /\ t \in Nat /\ n \in 1 .. 3
      /\ \/ Outcome(r) = "created" /\ n = 1
         \/ Outcome(r) = "locked" /\ n = 2
         \/ Outcome(r) = "running" /\ n = 3
  BY HostStands
<1>2. s \in DOMAIN AllowedNext \cup Terminal
  BY <1>1 DEF AllowedNext, Terminal
<1>3. r.life \in Seq(L) /\ e \in L /\ e.state = s /\ e.at = t
  BY <1>1, <1>2 DEF Kept, LifeKept
<1> HIDE DEF L, e
<1>4. /\ r2.life \in Seq(L) /\ Len(r2.life) = n + 1
      /\ \A i \in 1 .. n : r2.life[i] = r.life[i]
      /\ r2.life[n + 1] = e
  <2>1. r2.life = Append(r.life, e)
    BY DEF e
  <2> QED BY <1>3, <2>1
<1>5. Outcome(r2) = s
  <2>1. Last(r2.life) = r2.life[n + 1]
    BY <1>4 DEF Last
  <2> QED BY <1>3, <1>4, <2>1 DEF Outcome
<1>6. \A i \in 1 .. n : r.life[i].at \in Nat /\ r.life[i].at <= t
  BY LifePlaces DEF Kept, LifeKept
<1>7. \A i \in 1 .. n + 1 : r2.life[i].at \in Nat /\ r2.life[i].at <= t
  <2> SUFFICES ASSUME NEW i \in 1 .. n + 1 PROVE r2.life[i].at \in Nat /\ r2.life[i].at <= t
    OBVIOUS
  <2>1. CASE i = n + 1
    BY <1>1, <1>3, <1>4, <2>1
  <2>2. CASE i \in 1 .. n
    BY <1>4, <1>6, <2>2
  <2> QED BY <1>1, <2>1, <2>2
<1>8. \A i \in 1 .. n : r2.life[i].at <= r2.life[i + 1].at
  <2> SUFFICES ASSUME NEW i \in 1 .. n PROVE r2.life[i].at <= r2.life[i + 1].at
    OBVIOUS
  <2>1. CASE i = n
    BY <1>1, <1>3, <1>4, <1>6, <2>1
  <2>2. CASE i \in 1 .. n - 1
    <3>1. r.life[i].at <= r.life[i + 1].at
      BY <2>2 DEF Kept, LifeKept
    <3>2. i + 1 \in 1 .. n
      BY <1>1, <2>2
    <3> QED BY <1>4, <2>2, <3>1, <3>2
  <2> QED BY <1>1, <2>1, <2>2
<1>9. /\ r2.life[1].state = "created" /\ r2.life[1].at = 0
      /\ n + 1 >= 2 => r2.life[2].state \in AllowedNext["created"]
      /\ n + 1 >= 3 => r2.life[2].state = "locked" /\ r2.life[3].state \in AllowedNext["locked"]
      /\ n + 1 = 4 => r2.life[3].state = "running" /\ r2.life[4].state \in AllowedNext["running"]
  <2>1. /\ r.life[1].state = "created" /\ r.life[1].at = 0
        /\ n >= 2 => r.life[2].state \in AllowedNext["created"]
        /\ n >= 3 => r.life[2].state = "locked" /\ r.life[3].state \in AllowedNext["locked"]
        /\ Outcome(r) = r.life[n].state
    BY LifeRead DEF Kept, LifeKept
  <2>2. CASE n = 1
    BY <1>1, <1>3, <1>4, <2>1, <2>2
  <2>3. CASE n = 2
    BY <1>1, <1>3, <1>4, <2>1, <2>3
  <2>4. CASE n = 3
    BY <1>1, <1>3, <1>4, <2>1, <2>4
  <2> QED BY <1>1, <2>2, <2>3, <2>4
<1>10. LifeKept(r2, t)
  <2>1. n \in 1 .. 3
    BY <1>1
  <2>2. Len(r2.life) \in 1 .. 4 /\ Len(r2.life) - 1 = n
    <3> HIDE DEF n
    <3> QED BY <1>4, <2>1
  <2>3. r2.life \in Seq([state : DOMAIN AllowedNext \cup Terminal, at : Nat])
    BY <1>4 DEF L
  <2>4. \A i \in 1 .. Len(r2.life) : r2.life[i].at <= t
    BY <1>4, <1>7
  <2>5. \A i \in 1 .. Len(r2.life) - 1 : r2.life[i].at <= r2.life[i + 1].at
    BY <1>8, <2>2
  <2>6. r2.life[Len(r2.life)].at = t
    BY <1>3, <1>4
  <2>7. /\ r2.life[1].state = "created" /\ r2.life[1].at = 0
        /\ Len(r2.life) >= 2 => r2.life[2].state \in AllowedNext["created"]
        /\ Len(r2.life) >= 3 => /\ r2.life[2].state = "locked"
                               /\ r2.life[3].state \in AllowedNext["locked"]
        /\ Len(r2.life) = 4 => /\ r2.life[3].state = "running"
                              /\ r2.life[4].state \in AllowedNext["running"]
    BY <1>4, <1>9
  <2> HIDE DEF n
  <2> QED BY <1>1, <2>2, <2>3, <2>4, <2>5, <2>6, <2>7 DEF LifeKept
<1> QED BY <1>4, <1>5, <1>10 DEF e

\* The run is locked, with everything it needs.
LEMMA LockedKept ==
  ASSUME NEW p, NEW r, NEW t, Kept(p, r, t), r.commands \in Seq(CommandRecord),
         Outcome(r) = "created",
         \A x \in RequiredLocks(p) : x \in DOMAIN r.locks, NEW r2,
         r2.life = Append(r.life, [state |-> "locked", at |-> t]),
         r2.locks = r.locks, r2.commands = r.commands, r2.stops = r.stops, r2.evidence = r.evidence
  PROVE  Kept(p, r2, t)
<1>1. /\ t \in Nat /\ ~WasLocked(r) /\ ~WasRunning(r) /\ Len(r.life) = 1
      /\ Outcome(r) \notin Terminal
  BY HostStands DEF Terminal
<1>2. /\ LifeKept(r2, t) /\ Outcome(r2) = "locked" /\ Len(r2.life) = 2
      /\ r2.life[2] = [state |-> "locked", at |-> t]
  <2>1. "locked" \in AllowedNext[Outcome(r)]
    BY DEF AllowedNext
  <2> QED BY <1>1, <2>1, LifeGoesOn
<1>3. WasLocked(r2) /\ r2.life[2].at = t
  BY <1>2 DEF WasLocked
<1>4. StopsKept(p, r2, t) /\ SpansKept(p, r2) /\ EvidenceKept(p, r2, t) /\ ShapeKept(r2)
  BY <1>1, PartsStay
<1>5. LocksKept(p, r2, t)
  BY <1>3 DEF Kept, LocksKept
<1>6. CommandsKept(p, r2, t)
  BY <1>1, NothingEarly DEF Kept, CommandsKept
<1>7. EndKept(p, r2, t)
  BY <1>2 DEF EndKept, Terminal
<1> QED BY <1>2, <1>4, <1>5, <1>6, <1>7 DEF Kept

\* The run is running.
LEMMA RunningKept ==
  ASSUME NEW p, NEW r, NEW t, Kept(p, r, t), r.commands \in Seq(CommandRecord),
         Outcome(r) = "locked", NEW r2,
         r2.life = Append(r.life, [state |-> "running", at |-> t]),
         r2.locks = r.locks, r2.commands = r.commands, r2.stops = r.stops, r2.evidence = r.evidence
  PROVE  Kept(p, r2, t)
<1>1. /\ t \in Nat /\ WasLocked(r) /\ ~WasRunning(r) /\ Len(r.life) = 2
      /\ Outcome(r) \notin Terminal
  BY HostStands DEF Terminal
<1>2. /\ LifeKept(r2, t) /\ Outcome(r2) = "running" /\ Len(r2.life) = 3
      /\ r2.life[2] = r.life[2]
  <2>1. "running" \in AllowedNext[Outcome(r)]
    BY DEF AllowedNext
  <2>2. /\ LifeKept(r2, t) /\ Outcome(r2) = "running" /\ Len(r2.life) = Len(r.life) + 1
        /\ \A i \in 1 .. Len(r.life) : r2.life[i] = r.life[i]
    <3>1. PICK s : s = "running"
      OBVIOUS
    <3>2. s \in AllowedNext[Outcome(r)] /\ r2.life = Append(r.life, [state |-> s, at |-> t])
      BY <2>1, <3>1
    <3>3. /\ LifeKept(r2, t) /\ Outcome(r2) = s /\ Len(r2.life) = Len(r.life) + 1
          /\ \A i \in 1 .. Len(r.life) : r2.life[i] = r.life[i]
      BY <1>1, <3>2, LifeGoesOn, SMTT(30)
    <3> QED BY <3>1, <3>3
  <2> QED BY <1>1, <2>2
<1>3. WasLocked(r2)
  BY <1>1, <1>2 DEF WasLocked
<1>4. StopsKept(p, r2, t) /\ SpansKept(p, r2) /\ EvidenceKept(p, r2, t) /\ ShapeKept(r2)
  BY <1>3, PartsStay
<1>5. LocksKept(p, r2, t)
  BY <1>1, <1>2 DEF Kept, LocksKept
<1>6. CommandsKept(p, r2, t)
  BY <1>1, NothingEarly DEF Kept, CommandsKept
<1>7. EndKept(p, r2, t)
  BY <1>2 DEF EndKept, Terminal
<1> QED BY <1>2, <1>4, <1>5, <1>6, <1>7 DEF Kept

\* Locks are released when nothing is under way and nothing loose.
LEMMA ReleaseKept ==
  ASSUME RunAssumption, NEW p, NEW r, NEW t, Kept(p, r, t), r.commands \in Seq(CommandRecord),
         Outcome(r) \notin Terminal,
         \A j \in 1 .. Len(r.commands) :
           /\ r.commands[j].done # Nothing
           /\ Actuates(p[j]) => Does(p[j]).device \in DOMAIN r.stops,
         \A d \in DOMAIN r.stops : r.stops[d].done # Nothing,
         NEW xs, \A x \in xs : x \in DOMAIN r.locks /\ r.locks[x].to = Nothing,
         NEW r2, r2.life = r.life, r2.commands = r.commands, r2.stops = r.stops,
         r2.evidence = r.evidence, DOMAIN r2.locks = DOMAIN r.locks,
         \A x \in DOMAIN r.locks :
           r2.locks[x] = [from |-> r.locks[x].from, to |-> IF x \in xs THEN t ELSE r.locks[x].to]
  PROVE  Kept(p, r2, t)
<1>1. t \in Nat
  BY HostStands
<1>2. /\ LifeKept(r2, t) /\ Outcome(r2) = Outcome(r) /\ CommandsKept(p, r2, t)
      /\ StopsKept(p, r2, t) /\ EvidenceKept(p, r2, t) /\ EndKept(p, r2, t)
      /\ (WasLocked(r2) <=> WasLocked(r))
  BY PartsStay
<1>0. \A x \in DOMAIN r.locks :
        /\ r2.locks[x].from = r.locks[x].from
        /\ r2.locks[x].to = IF x \in xs THEN t ELSE r.locks[x].to
  <2> SUFFICES ASSUME NEW x \in DOMAIN r.locks
               PROVE  /\ r2.locks[x].from = r.locks[x].from
                      /\ r2.locks[x].to = IF x \in xs THEN t ELSE r.locks[x].to
    OBVIOUS
  <2> DEFINE from == r.locks[x].from
             to == IF x \in xs THEN t ELSE r.locks[x].to
  <2>1. r2.locks[x] = [from |-> from, to |-> to]
    OBVIOUS
  <2> HIDE DEF from, to
  <2>2. r2.locks[x].from = from /\ r2.locks[x].to = to
    BY <2>1
  <2> QED BY <2>2 DEF from, to
<1>3. LocksKept(p, r2, t)
  <2>1. \A x \in DOMAIN r2.locks :
          /\ r2.locks[x].from \in Nat /\ r2.locks[x].from <= t
          /\ r2.locks[x].to # Nothing =>
               /\ r2.locks[x].to \in Nat /\ r2.locks[x].from <= r2.locks[x].to
               /\ r2.locks[x].to <= t
    BY <1>0, <1>1 DEF Kept, LocksKept
  <2>2. /\ DOMAIN r2.locks \subseteq RequiredLocks(p)
        /\ WasLocked(r2) => /\ DOMAIN r2.locks = RequiredLocks(p)
                            /\ \A x \in DOMAIN r2.locks : r2.locks[x].from <= r2.life[2].at
    BY <1>0, <1>2 DEF Kept, LocksKept
  <2> QED BY <2>1, <2>2 DEF LocksKept
<1>4. ASSUME NEW x, NEW from, NEW to, Spans(r, x, from, to), to # Nothing, to <= t
      PROVE  Spans(r2, x, from, to)
  BY <1>0, <1>4 DEF Spans
<1>5. SpansKept(p, r2)
  <2>1. \A j \in 1 .. Len(r.commands) : \A x \in p[j].resources :
          Spans(r2, x, r.commands[j].sent, r.commands[j].done)
    <3>1. \A j \in 1 .. Len(r.commands) : r.commands[j].done # Nothing /\ r.commands[j].done <= t
      BY DEF Kept, CommandsKept
    <3>2. \A j \in 1 .. Len(r.commands) : \A x \in p[j].resources :
            Spans(r, x, r.commands[j].sent, r.commands[j].done)
      BY DEF Kept, SpansKept
    <3> QED BY <1>4, <3>1, <3>2
  <2>2. \A k \in DOMAIN r.evidence : \A x \in p[k[1]].resources :
          Spans(r2, x, r.evidence[k].at, r.evidence[k].at)
    <3>1. ASSUME NEW k \in DOMAIN r.evidence
          PROVE  r.evidence[k].at \in Nat /\ r.evidence[k].at <= t
      BY DEF Kept, EvidenceKept, SightKept
    <3>2. \A k \in DOMAIN r.evidence : \A x \in p[k[1]].resources :
            Spans(r, x, r.evidence[k].at, r.evidence[k].at)
      BY DEF Kept, SpansKept
    <3>3. ASSUME NEW k \in DOMAIN r.evidence, NEW x \in p[k[1]].resources
          PROVE  Spans(r2, x, r.evidence[k].at, r.evidence[k].at)
      <4>1. r.evidence[k].at # Nothing
        BY <3>1 DEF RunAssumption
      <4> QED BY <1>4, <3>1, <3>2, <4>1
    <3> QED BY <3>3
  <2>3. \A d \in DOMAIN r.stops : \A x \in StopOf(d).resources :
          Spans(r2, x, r.stops[d].sent, r.stops[d].done)
    <3>1. \A d \in DOMAIN r.stops : r.stops[d].done # Nothing /\ r.stops[d].done <= t
      BY DEF Kept, StopsKept
    <3>2. \A d \in DOMAIN r.stops : \A x \in StopOf(d).resources :
            Spans(r, x, r.stops[d].sent, r.stops[d].done)
      BY DEF Kept, SpansKept
    <3> QED BY <1>4, <3>1, <3>2
  <2> QED BY <2>1, <2>2, <2>3 DEF SpansKept
<1>6. ShapeKept(r2)
  <2>1. ASSUME NEW x \in DOMAIN r2.locks
        PROVE  r2.locks[x] = [from |-> r2.locks[x].from, to |-> r2.locks[x].to]
    <3> DEFINE from == r.locks[x].from
               to == IF x \in xs THEN t ELSE r.locks[x].to
    <3>1. r2.locks[x] = [from |-> from, to |-> to]
      OBVIOUS
    <3> HIDE DEF from, to
    <3> QED BY <3>1
  <2> QED BY <2>1, Zenon DEF Kept, ShapeKept
<1> QED BY <1>2, <1>3, <1>5, <1>6 DEF Kept

\* A requirement is observed, in its time.
LEMMA CaptureKept ==
  ASSUME RunAssumption, NEW p, Runnable(p), NEW r, NEW t, Kept(p, r, t),
         r.commands \in Seq(CommandRecord), Outcome(r) = "running",
         \A j \in 1 .. Len(r.commands) : r.commands[j].done # Nothing,
         NEW i \in DOMAIN p, NEW q \in DOMAIN p[i].requires, <<i, q>> \notin DOMAIN r.evidence,
         \A x \in p[i].resources : x \in DOMAIN r.locks /\ r.locks[x].to = Nothing,
         IF p[i].requires[q].phase = "precondition" THEN i = Len(r.commands) + 1
         ELSE /\ i = Len(r.commands)
              /\ t - r.commands[i].done <= p[i].requires[q].age,
         NEW holds \in BOOLEAN, NEW r2,
         r2.life = r.life, r2.locks = r.locks, r2.commands = r.commands, r2.stops = r.stops,
         r2.evidence = With(r.evidence, {<<i, q>>}, [at |-> t, holds |-> holds])
  PROVE  Kept(p, r2, t)
<1> DEFINE n == Len(r.commands)
<1>1. /\ t \in Nat /\ WasLocked(r) /\ n \in Nat /\ DOMAIN p = 1 .. Len(p) /\ i \in Nat /\ i >= 1
      /\ Outcome(r) \notin Terminal
  BY HostStands, RunnableRead DEF Terminal
<1>2. /\ LifeKept(r2, t) /\ Outcome(r2) = Outcome(r) /\ LocksKept(p, r2, t)
      /\ CommandsKept(p, r2, t) /\ StopsKept(p, r2, t) /\ EndKept(p, r2, t) /\ ShapeKept(r2)
      /\ WasLocked(r2)
  BY <1>1, PartsStay
<1>3. /\ DOMAIN r2.evidence = DOMAIN r.evidence \cup {<<i, q>>}
      /\ r2.evidence[<<i, q>>] = [at |-> t, holds |-> holds]
      /\ \A k \in DOMAIN r.evidence : r2.evidence[k] = r.evidence[k]
  BY DEF With
<1>4. SpansKept(p, r2)
  <2>1. \A k \in DOMAIN r2.evidence : \A x \in p[k[1]].resources :
          Spans(r2, x, r2.evidence[k].at, r2.evidence[k].at)
    <3> SUFFICES ASSUME NEW k \in DOMAIN r2.evidence, NEW x \in p[k[1]].resources
                 PROVE  Spans(r2, x, r2.evidence[k].at, r2.evidence[k].at)
      OBVIOUS
    <3>1. CASE k \in DOMAIN r.evidence
      <4>1. Spans(r, x, r.evidence[k].at, r.evidence[k].at)
        BY <3>1 DEF Kept, SpansKept
      <4> QED BY <1>3, <3>1, <4>1 DEF Spans
    <3>2. CASE k = <<i, q>>
      <4>1. x \in DOMAIN r.locks /\ r.locks[x].to = Nothing
        BY <3>2
      <4>2. r.locks[x].from <= t
        BY <4>1 DEF Kept, LocksKept
      <4>3. r2.evidence[k].at = t
        BY <1>3, <3>2
      <4> QED BY <4>1, <4>2, <4>3 DEF Spans
    <3> QED BY <1>3, <3>1, <3>2
  <2>2. /\ \A j \in 1 .. Len(r.commands) : \A x \in p[j].resources :
             Spans(r2, x, r.commands[j].sent, r.commands[j].done)
        /\ \A d \in DOMAIN r.stops : \A x \in StopOf(d).resources :
             Spans(r2, x, r.stops[d].sent, r.stops[d].done)
    BY DEF Kept, SpansKept, Spans
  <2>3. \A j \in 1 .. Len(r.commands) :
          Actuates(p[j]) /\ Does(p[j]).device \notin DOMAIN r.stops =>
            \A x \in p[j].resources : x \in DOMAIN r.locks /\ r.locks[x].to = Nothing
    BY DEF Kept, SpansKept
  <2> QED BY <2>1, <2>2, <2>3 DEF SpansKept
<1>5. EvidenceKept(p, r2, t)
  <2>1. SightKept(p, r2, t, i, q)
    <3> DEFINE e == r2.evidence[<<i, q>>]
    <3>1. e.at = t /\ e.holds \in BOOLEAN
      BY <1>3
    <3>2. n > 0 => r.commands[n].done # Nothing /\ r.commands[n].done <= t
      BY <1>1 DEF Kept, CommandsKept
    <3>3. CASE p[i].requires[q].phase = "precondition"
      <4>1. i = n + 1 /\ ~(i <= n)
        BY <1>1, <3>3
      <4> QED BY <1>1, <3>1, <3>2, <3>3, <4>1 DEF SightKept
    <3>4. CASE p[i].requires[q].phase # "precondition"
      <4>1. i = n /\ i # n + 1 /\ t - r.commands[i].done <= p[i].requires[q].age /\ n > 0
        BY <1>1, <3>4
      <4> QED BY <1>1, <3>1, <3>2, <3>4, <4>1, SMTT(30) DEF SightKept
    <3> QED BY <3>3, <3>4
  <2>2. i \in 1 .. n + 1
    BY <1>1
  <2>3. ASSUME NEW k \in DOMAIN r2.evidence
        PROVE  \E i2 \in 1 .. n + 1 :
                 /\ i2 \in DOMAIN p
                 /\ \E q2 \in DOMAIN p[i2].requires : k = <<i2, q2>> /\ SightKept(p, r2, t, i2, q2)
    <3>1. CASE k \in DOMAIN r.evidence
      <4>1. PICK i2 \in 1 .. n + 1 :
              /\ i2 \in DOMAIN p
              /\ \E q2 \in DOMAIN p[i2].requires : k = <<i2, q2>> /\ SightKept(p, r, t, i2, q2)
        BY <3>1 DEF Kept, EvidenceKept
      <4>2. PICK q2 \in DOMAIN p[i2].requires : k = <<i2, q2>> /\ SightKept(p, r, t, i2, q2)
        BY <4>1
      <4>3. r2.evidence[<<i2, q2>>] = r.evidence[<<i2, q2>>]
        BY <1>3, <3>1, <4>2
      <4>4. SightKept(p, r2, t, i2, q2)
        BY <4>2, <4>3 DEF SightKept
      <4> QED BY <4>1, <4>2, <4>4
    <3>2. CASE k = <<i, q>>
      BY <2>1, <2>2, <3>2
    <3> QED BY <1>3, <3>1, <3>2
  <2>4. \A j \in 1 .. n : \A q2 \in PhaseOf(p[j], "precondition") : <<j, q2>> \in DOMAIN r2.evidence
    BY <1>3 DEF Kept, EvidenceKept
  <2>5. ASSUME NEW j \in 1 .. n - 1, NEW q2 \in PhaseOf(p[j], "postcondition")
        PROVE  /\ <<j, q2>> \in DOMAIN r2.evidence
               /\ LET e == r2.evidence[<<j, q2>>] IN
                  /\ e.holds /\ e.at <= r.commands[j + 1].sent
                  /\ r.commands[j + 1].sent - e.at <= p[j].requires[q2].age
    <3>1. /\ <<j, q2>> \in DOMAIN r.evidence
          /\ LET e == r.evidence[<<j, q2>>] IN
             /\ e.holds /\ e.at <= r.commands[j + 1].sent
             /\ r.commands[j + 1].sent - e.at <= p[j].requires[q2].age
      BY DEF Kept, EvidenceKept
    <3>2. r2.evidence[<<j, q2>>] = r.evidence[<<j, q2>>]
      BY <1>3, <3>1
    <3> QED BY <1>3, <3>1, <3>2
  <2> QED BY <1>2, <2>3, <2>4, <2>5 DEF EvidenceKept
<1> QED BY <1>2, <1>4, <1>5 DEF Kept

\* Evidence about a command stays what it is while later commands are added.
LEMMA SightStays ==
  ASSUME NEW p, NEW r, NEW r2, NEW t, NEW i, NEW q, SightKept(p, r, t, i, q),
         Len(r.commands) \in Nat, i \in 1 .. Len(r.commands),
         Len(r2.commands) \in Nat, Len(r.commands) <= Len(r2.commands),
         r2.evidence = r.evidence, r2.commands[i] = r.commands[i],
         i > 1 => r2.commands[i - 1] = r.commands[i - 1]
  PROVE  SightKept(p, r2, t, i, q)
<1>1. i <= Len(r.commands) /\ i <= Len(r2.commands) /\ i # Len(r2.commands) + 1
  OBVIOUS
<1> QED BY <1>1 DEF SightKept

\* A step is sent, when all that it relies on was seen to hold.
LEMMA DispatchKept ==
  ASSUME RunAssumption, NEW p, Runnable(p), NEW r, NEW t, Kept(p, r, t),
         r.commands \in Seq(CommandRecord), Outcome(r) = "running",
         \A j \in 1 .. Len(r.commands) : r.commands[j].done # Nothing,
         NEW i \in DOMAIN p, i = Len(r.commands) + 1,
         \A x \in p[i].resources : x \in DOMAIN r.locks /\ r.locks[x].to = Nothing,
         Len(r.commands) > 0 => r.commands[Len(r.commands)].status = "acknowledged",
         \A q \in PhaseOf(p[i], "precondition") :
           /\ <<i, q>> \in DOMAIN r.evidence /\ r.evidence[<<i, q>>].holds
           /\ t - r.evidence[<<i, q>>].at <= p[i].requires[q].age,
         Len(r.commands) > 0 => \A q \in PhaseOf(p[Len(r.commands)], "postcondition") :
           LET k == <<Len(r.commands), q>> IN
           /\ k \in DOMAIN r.evidence /\ r.evidence[k].holds
           /\ t - r.evidence[k].at <= p[Len(r.commands)].requires[q].age,
         DOMAIN r.stops = {}, NEW r2,
         r2.life = r.life, r2.locks = r.locks, r2.stops = r.stops, r2.evidence = r.evidence,
         Len(r2.commands) = i, r2.commands[i].step = i, r2.commands[i].sent = t,
         r2.commands[i].done = Nothing,
         \A j \in 1 .. Len(r.commands) : r2.commands[j] = r.commands[j]
  PROVE  Kept(p, r2, t)
<1> DEFINE n == Len(r.commands)
<1>1. /\ t \in Nat /\ WasLocked(r) /\ WasRunning(r) /\ n \in Nat /\ Len(p) \in Nat
      /\ DOMAIN p = 1 .. Len(p) /\ r.life[3].at <= t /\ Outcome(r) \notin Terminal
  <2>1. Outcome(r) \notin Terminal
    BY DEF Terminal
  <2>2. /\ t \in Nat /\ Len(r.life) = 3 /\ r.life[Len(r.life)].at <= t
        /\ WasLocked(r) /\ WasRunning(r)
    BY <2>1, HostStands
  <2>3. Len(p) \in Nat /\ DOMAIN p = 1 .. Len(p)
    BY RunnableRead
  <2> QED BY <2>1, <2>2, <2>3
<1>2. /\ LifeKept(r2, t) /\ Outcome(r2) = Outcome(r) /\ LocksKept(p, r2, t)
      /\ EndKept(p, r2, t) /\ ShapeKept(r2) /\ WasLocked(r2) /\ WasRunning(r2) /\ r2.life[3].at <= t
  BY <1>1, PartsStay
<1>3. /\ i = n + 1 /\ i \in 1 .. Len(p) /\ 1 .. i = (1 .. n) \cup {i} /\ i - 1 = n
  BY <1>1
<1>4. \A j \in 1 .. n : /\ r.commands[j].sent \in Nat /\ r.commands[j].done \in Nat
                        /\ r.commands[j].done <= t
  BY DEF Kept, CommandsKept
<1>5. CommandsKept(p, r2, t)
  <2>1. ASSUME NEW j \in 1 .. i
        PROVE  LET c == r2.commands[j] IN
               /\ WasRunning(r2) /\ r2.life[3].at <= c.sent
               /\ c.step = j /\ c.sent \in Nat /\ c.sent <= t
               /\ c.done = Nothing => j = i
               /\ c.done # Nothing =>
                    /\ c.done \in Nat /\ c.sent <= c.done /\ c.done <= t
                    /\ c.status \in Statuses
                    /\ IF c.status = "timed_out" THEN c.done - c.sent >= p[j].timeout
                                                 ELSE c.done - c.sent <= p[j].timeout
    <3>1. CASE j = i
      BY <1>1, <1>2, <3>1, SMTT(30)
    <3>2. CASE j \in 1 .. n
      <4>1. r2.commands[j] = r.commands[j]
        BY <3>2
      <4> QED BY <1>2, <3>2, <4>1 DEF Kept, CommandsKept
    <3> QED BY <1>3, <3>1, <3>2
  <2>2. ASSUME NEW j \in 1 .. n
        PROVE  r2.commands[j].status = "acknowledged"
               /\ r2.commands[j].done <= r2.commands[j + 1].sent
    <3>1. r2.commands[j] = r.commands[j]
      OBVIOUS
    <3>2. CASE j = n
      BY <1>1, <1>3, <1>4, <3>1, <3>2
    <3>3. CASE j \in 1 .. n - 1
      <4>1. j + 1 \in 1 .. n
        BY <1>1, <3>3
      <4>2. r2.commands[j + 1] = r.commands[j + 1]
        BY <4>1
      <4> QED BY <3>1, <3>3, <4>2 DEF Kept, CommandsKept
    <3> QED BY <1>1, <3>2, <3>3
  <2>3. i <= Len(p)
    BY <1>3
  <2> QED BY <1>3, <2>1, <2>2, <2>3 DEF CommandsKept
<1>6. SpansKept(p, r2)
  <2>1. ASSUME NEW j \in 1 .. i, NEW x \in p[j].resources
        PROVE  Spans(r2, x, r2.commands[j].sent, r2.commands[j].done)
    <3>1. CASE j = i
      <4>1. x \in DOMAIN r.locks /\ r.locks[x].to = Nothing
        BY <3>1
      <4>2. r.locks[x].from <= t
        BY <4>1 DEF Kept, LocksKept
      <4> QED BY <3>1, <4>1, <4>2 DEF Spans
    <3>2. CASE j \in 1 .. n
      <4>1. Spans(r, x, r.commands[j].sent, r.commands[j].done)
        BY <3>2 DEF Kept, SpansKept
      <4> QED BY <3>2, <4>1 DEF Spans
    <3> QED BY <1>3, <3>1, <3>2
  <2>2. /\ \A k \in DOMAIN r2.evidence : \A x \in p[k[1]].resources :
             Spans(r2, x, r2.evidence[k].at, r2.evidence[k].at)
        /\ \A d \in DOMAIN r2.stops : \A x \in StopOf(d).resources :
             Spans(r2, x, r2.stops[d].sent, r2.stops[d].done)
    BY DEF Kept, SpansKept, Spans
  <2>3. ASSUME NEW j \in 1 .. i, Actuates(p[j]), Does(p[j]).device \notin DOMAIN r2.stops,
               NEW x \in p[j].resources
        PROVE  x \in DOMAIN r2.locks /\ r2.locks[x].to = Nothing
    <3>1. CASE j = i
      BY <3>1
    <3>2. CASE j \in 1 .. n
      BY <2>3, <3>2 DEF Kept, SpansKept
    <3> QED BY <1>3, <3>1, <3>2
  <2> QED BY <2>1, <2>2, <2>3 DEF SpansKept
<1>7. StopsKept(p, r2, t)
  BY DEF StopsKept
<1>8. EvidenceKept(p, r2, t)
  <2>1. ASSUME NEW k \in DOMAIN r.evidence
        PROVE  \E i2 \in 1 .. i + 1 :
                 /\ i2 \in DOMAIN p
                 /\ \E q2 \in DOMAIN p[i2].requires : k = <<i2, q2>> /\ SightKept(p, r2, t, i2, q2)
    <3>1. PICK i2 \in 1 .. n + 1 :
            /\ i2 \in DOMAIN p
            /\ \E q2 \in DOMAIN p[i2].requires : k = <<i2, q2>> /\ SightKept(p, r, t, i2, q2)
      BY DEF Kept, EvidenceKept
    <3>2. PICK q2 \in DOMAIN p[i2].requires : k = <<i2, q2>> /\ SightKept(p, r, t, i2, q2)
      BY <3>1
    <3> DEFINE e == r.evidence[<<i2, q2>>]
    <3>3. e.at \in Nat /\ e.at <= t /\ e.holds \in BOOLEAN /\ i2 # i + 1 /\ i2 <= i
      BY <1>1, <1>3, <3>2 DEF SightKept
    <3>4. CASE i2 = i
      <4>1. /\ p[i2].requires[q2].phase = "precondition"
            /\ n > 0 => r.commands[n].done <= e.at
        BY <1>3, <3>2, <3>4 DEF SightKept
      <4>2. e.holds /\ t - e.at <= p[i2].requires[q2].age
        BY <3>4, <4>1 DEF PhaseOf
      <4>3. i2 > 1 => r2.commands[i2 - 1].done <= e.at
        <5>1. i2 - 1 = n /\ (i2 > 1 => n > 0 /\ r2.commands[n] = r.commands[n])
          BY <1>1, <1>3, <3>4, SMTT(30)
        <5> QED BY ONLY <4>1, <5>1
      <4>4. SightKept(p, r2, t, i2, q2)
        BY <3>3, <3>4, <4>1, <4>2, <4>3 DEF SightKept
      <4> QED BY <1>1, <1>3, <3>1, <3>2, <4>4
    <3>5. CASE i2 \in 1 .. n
      <4>1. r2.commands[i2] = r.commands[i2]
        BY <3>5
      <4>2. i2 > 1 => r2.commands[i2 - 1] = r.commands[i2 - 1]
        BY <1>1, <3>5
      <4>3. SightKept(p, r2, t, i2, q2)
        <5>1. /\ Len(r.commands) \in Nat /\ Len(r2.commands) \in Nat
              /\ Len(r.commands) <= Len(r2.commands) /\ r2.evidence = r.evidence
          BY <1>1, <1>3
        <5>2. i2 \in 1 .. Len(r.commands)
          BY <3>5
        <5> QED BY ONLY <3>2, <4>1, <4>2, <5>1, <5>2, SightStays
      <4>4. i2 \in 1 .. i + 1
        BY <1>1, <1>3, <3>5
      <4> QED BY <3>1, <3>2, <4>3, <4>4
    <3> QED BY <1>1, <1>3, <3>4, <3>5
  <2>2. ASSUME NEW j \in 1 .. i, NEW q2 \in PhaseOf(p[j], "precondition")
        PROVE  <<j, q2>> \in DOMAIN r.evidence
    <3>1. CASE j = i
      BY <3>1
    <3>2. CASE j \in 1 .. n
      BY <3>2 DEF Kept, EvidenceKept
    <3> QED BY <1>3, <3>1, <3>2
  <2>3. ASSUME NEW j \in 1 .. i - 1, NEW q2 \in PhaseOf(p[j], "postcondition")
        PROVE  /\ <<j, q2>> \in DOMAIN r.evidence
               /\ LET e == r.evidence[<<j, q2>>] IN
                  /\ e.holds /\ e.at <= r2.commands[j + 1].sent
                  /\ r2.commands[j + 1].sent - e.at <= p[j].requires[q2].age
    <3>1. CASE j = n
      <4>1. <<j, q2>> \in DOMAIN r.evidence /\ r.evidence[<<j, q2>>].holds
            /\ t - r.evidence[<<j, q2>>].at <= p[j].requires[q2].age
        BY <1>1, <1>3, <3>1
      <4>2. r.evidence[<<j, q2>>].at <= t
        BY <4>1 DEF Kept, EvidenceKept, SightKept
      <4> QED BY <1>3, <3>1, <4>1, <4>2
    <3>2. CASE j \in 1 .. n - 1
      <4>1. j + 1 \in 1 .. n
        BY <1>1, <3>2
      <4>2. r2.commands[j + 1] = r.commands[j + 1]
        BY <4>1
      <4> QED BY <3>2, <4>2 DEF Kept, EvidenceKept
    <3> QED BY <1>1, <1>3, <3>1, <3>2
  <2> QED BY <1>2, <2>1, <2>2, <2>3 DEF EvidenceKept
<1> QED BY <1>2, <1>5, <1>6, <1>7, <1>8 DEF Kept

\* A command ends, in its time or too late.
LEMMA CompleteKept ==
  ASSUME RunAssumption, NEW p, Runnable(p), NEW r, NEW t, Kept(p, r, t),
         r.commands \in Seq(CommandRecord), Outcome(r) \notin Terminal,
         NEW n, n = Len(r.commands), n > 0, r.commands[n].done = Nothing,
         NEW status \in Statuses,
         IF status = "timed_out" THEN t - r.commands[n].sent >= p[n].timeout
                                 ELSE t - r.commands[n].sent <= p[n].timeout,
         NEW r2, r2.life = r.life, r2.locks = r.locks, r2.stops = r.stops,
         r2.evidence = r.evidence, Len(r2.commands) = n,
         r2.commands[n].step = r.commands[n].step, r2.commands[n].sent = r.commands[n].sent,
         r2.commands[n].done = t, r2.commands[n].status = status,
         \A j \in 1 .. n - 1 : r2.commands[j] = r.commands[j]
  PROVE  Kept(p, r2, t)
<1>1. /\ t \in Nat /\ n \in Nat /\ n \in 1 .. n /\ 1 .. n = (1 .. n - 1) \cup {n}
  BY HostStands
<1>2. /\ LifeKept(r2, t) /\ Outcome(r2) = Outcome(r) /\ LocksKept(p, r2, t)
      /\ EndKept(p, r2, t) /\ ShapeKept(r2)
      /\ (WasLocked(r2) <=> WasLocked(r)) /\ (WasRunning(r2) <=> WasRunning(r))
  BY PartsStay
<1>3. \A j \in 1 .. n : r2.commands[j].sent = r.commands[j].sent
  BY <1>1
<1>4. \A j \in 1 .. n - 1 : r.commands[j].done # Nothing
  BY <1>1 DEF Kept, CommandsKept
<1>5. t # Nothing
  BY <1>1 DEF RunAssumption
<1>6. CommandsKept(p, r2, t)
  <2>1. ASSUME NEW j \in 1 .. n
        PROVE  LET c == r2.commands[j] IN
               /\ WasRunning(r2) /\ r2.life[3].at <= c.sent
               /\ c.step = j /\ c.sent \in Nat /\ c.sent <= t
               /\ c.done = Nothing => j = n
               /\ c.done # Nothing =>
                    /\ c.done \in Nat /\ c.sent <= c.done /\ c.done <= t
                    /\ c.status \in Statuses
                    /\ IF c.status = "timed_out" THEN c.done - c.sent >= p[j].timeout
                                                 ELSE c.done - c.sent <= p[j].timeout
    <3>1. /\ WasRunning(r) /\ r.life[3].at <= r.commands[j].sent
          /\ r.commands[j].step = j /\ r.commands[j].sent \in Nat /\ r.commands[j].sent <= t
      BY DEF Kept, CommandsKept
    <3>2. CASE j = n
      BY <1>1, <1>2, <3>1, <3>2
    <3>3. CASE j \in 1 .. n - 1
      <4>1. r2.commands[j] = r.commands[j]
        BY <3>3
      <4> QED BY <1>2, <4>1 DEF Kept, CommandsKept
    <3> QED BY <1>1, <3>2, <3>3
  <2>2. ASSUME NEW j \in 1 .. n - 1
        PROVE  r2.commands[j].status = "acknowledged"
               /\ r2.commands[j].done <= r2.commands[j + 1].sent
    <3>1. r2.commands[j] = r.commands[j] /\ j + 1 \in 1 .. n
      BY <1>1
    <3>2. r2.commands[j + 1].sent = r.commands[j + 1].sent
      BY <1>3, <3>1
    <3> QED BY <3>1, <3>2 DEF Kept, CommandsKept
  <2>3. n <= Len(p)
    BY DEF Kept, CommandsKept
  <2> QED BY <2>1, <2>2, <2>3 DEF CommandsKept
<1>7. SpansKept(p, r2)
  <2>1. ASSUME NEW j \in 1 .. n, NEW x \in p[j].resources
        PROVE  Spans(r2, x, r2.commands[j].sent, r2.commands[j].done)
    <3>1. Spans(r, x, r.commands[j].sent, r.commands[j].done)
      BY DEF Kept, SpansKept
    <3>2. CASE j = n
      BY <1>3, <3>1, <3>2 DEF Spans
    <3>3. CASE j \in 1 .. n - 1
      <4>1. r2.commands[j] = r.commands[j]
        BY <3>3
      <4> QED BY <3>1, <4>1 DEF Spans
    <3> QED BY <1>1, <3>2, <3>3
  <2>2. /\ \A k \in DOMAIN r2.evidence : \A x \in p[k[1]].resources :
             Spans(r2, x, r2.evidence[k].at, r2.evidence[k].at)
        /\ \A d \in DOMAIN r2.stops : \A x \in StopOf(d).resources :
             Spans(r2, x, r2.stops[d].sent, r2.stops[d].done)
    BY DEF Kept, SpansKept, Spans
  <2>3. \A j \in 1 .. n : Actuates(p[j]) /\ Does(p[j]).device \notin DOMAIN r2.stops =>
          \A x \in p[j].resources : x \in DOMAIN r2.locks /\ r2.locks[x].to = Nothing
    BY DEF Kept, SpansKept
  <2> QED BY <2>1, <2>2, <2>3 DEF SpansKept
<1>8. StopsKept(p, r2, t)
  <2>1. ASSUME NEW d \in DOMAIN r.stops, NEW j \in 1 .. n, Actuates(p[j]), Does(p[j]).device = d
        PROVE  r2.commands[j].done # Nothing /\ r2.commands[j].done <= r.stops[d].sent
    <3>1. r.commands[j].done # Nothing /\ r.commands[j].done <= r.stops[d].sent
      BY <2>1 DEF Kept, StopsKept
    <3>2. j \in 1 .. n - 1
      BY <1>1, <3>1
    <3> QED BY <3>1, <3>2
  <2> QED BY <2>1 DEF Kept, StopsKept
<1>9. EvidenceKept(p, r2, t)
  <2>1. ASSUME NEW i \in 1 .. n + 1, NEW q, SightKept(p, r, t, i, q) PROVE SightKept(p, r2, t, i, q)
    <3> DEFINE e == r.evidence[<<i, q>>]
               before == p[i].requires[q].phase = "precondition"
    <3>1. e.at \in Nat /\ e.at <= t /\ e.holds \in BOOLEAN
      BY <2>1 DEF SightKept
    <3>2. i # n + 1 /\ i \in 1 .. n
      BY <1>1, <2>1 DEF SightKept
    <3>3. before =>
            /\ e.holds /\ e.at <= r2.commands[i].sent
            /\ r2.commands[i].sent - e.at <= p[i].requires[q].age
            /\ i > 1 => r2.commands[i - 1].done <= e.at
      <4>1. i > 1 => r2.commands[i - 1] = r.commands[i - 1]
        BY <1>1, <3>2
      <4>2. r2.commands[i].sent = r.commands[i].sent /\ i <= n
        BY <1>1, <1>3, <3>2
      <4> QED BY <2>1, <4>1, <4>2 DEF SightKept
    <3>4. ~before => /\ r2.commands[i].done # Nothing /\ r2.commands[i].done <= e.at
                     /\ e.at - r2.commands[i].done <= p[i].requires[q].age
      <4> SUFFICES ASSUME ~before
                   PROVE  /\ r2.commands[i].done # Nothing /\ r2.commands[i].done <= e.at
                          /\ e.at - r2.commands[i].done <= p[i].requires[q].age
        OBVIOUS
      <4>1. /\ r.commands[i].done # Nothing /\ r.commands[i].done <= e.at
            /\ e.at - r.commands[i].done <= p[i].requires[q].age
        BY <1>1, <2>1, <3>2 DEF SightKept
      <4>2. i \in 1 .. n - 1
        BY <1>1, <3>2, <4>1
      <4> QED BY <4>1, <4>2
    <3> QED BY <3>1, <3>2, <3>3, <3>4 DEF SightKept
  <2>2. \A j \in 1 .. n - 1 : j + 1 \in 1 .. n /\ r2.commands[j + 1].sent = r.commands[j + 1].sent
    BY <1>1, <1>3
  <2>3. r2.evidence # <<>> => WasLocked(r2)
    BY <1>2 DEF Kept, EvidenceKept
  <2>4. \A k \in DOMAIN r2.evidence : \E i \in 1 .. n + 1 :
          /\ i \in DOMAIN p
          /\ \E q \in DOMAIN p[i].requires : k = <<i, q>> /\ SightKept(p, r2, t, i, q)
    BY <2>1 DEF Kept, EvidenceKept
  <2>5. /\ \A i \in 1 .. n : \A q \in PhaseOf(p[i], "precondition") : <<i, q>> \in DOMAIN r2.evidence
        /\ \A i \in 1 .. n - 1 : \A q \in PhaseOf(p[i], "postcondition") :
             /\ <<i, q>> \in DOMAIN r2.evidence
             /\ LET e == r2.evidence[<<i, q>>] IN
                /\ e.holds /\ e.at <= r2.commands[i + 1].sent
                /\ r2.commands[i + 1].sent - e.at <= p[i].requires[q].age
    BY <2>2 DEF Kept, EvidenceKept
  <2> QED BY <2>3, <2>4, <2>5 DEF EvidenceKept
<1> QED BY <1>2, <1>6, <1>7, <1>8, <1>9 DEF Kept

\* A device that moved is told to stop.
LEMMA StopKept ==
  ASSUME RunAssumption, NEW p, Runnable(p), NEW r, NEW t, Kept(p, r, t),
         r.commands \in Seq(CommandRecord), Outcome(r) \notin Terminal,
         \A j \in 1 .. Len(r.commands) : r.commands[j].done # Nothing,
         NEW d \in Devices, d \notin DOMAIN r.stops,
         \E j \in 1 .. Len(r.commands) : Actuates(p[j]) /\ Does(p[j]).device = d,
         NEW r2, r2.life = r.life, r2.locks = r.locks, r2.commands = r.commands,
         r2.evidence = r.evidence,
         r2.stops = With(r.stops, {d}, [sent |-> t, done |-> Nothing, confirmed |-> FALSE])
  PROVE  Kept(p, r2, t)
<1> DEFINE n == Len(r.commands)
<1>1. t \in Nat /\ n <= Len(p) /\ n \in Nat /\ DOMAIN p = 1 .. Len(p) /\ Len(p) \in Nat
  <2>1. n \in Nat /\ n <= Len(p)
    BY DEF Kept, CommandsKept
  <2>2. t \in Nat
    BY HostStands
  <2>3. DOMAIN p = 1 .. Len(p) /\ Len(p) \in Nat
    BY RunnableRead
  <2> QED BY <2>1, <2>2, <2>3
<1>2. /\ LifeKept(r2, t) /\ Outcome(r2) = Outcome(r) /\ LocksKept(p, r2, t)
      /\ CommandsKept(p, r2, t) /\ EvidenceKept(p, r2, t) /\ EndKept(p, r2, t)
  BY PartsStay
<1>3. /\ DOMAIN r2.stops = DOMAIN r.stops \cup {d}
      /\ r2.stops[d].sent = t /\ r2.stops[d].done = Nothing /\ r2.stops[d].confirmed = FALSE
      /\ \A c \in DOMAIN r.stops : r2.stops[c] = r.stops[c]
  <2> DEFINE e == [sent |-> t, done |-> Nothing, confirmed |-> FALSE]
  <2>1. /\ e.sent = t /\ e.done = Nothing /\ e.confirmed = FALSE
    OBVIOUS
  <2> HIDE DEF e
  <2>2. r2.stops = With(r.stops, {d}, e)
    BY DEF e
  <2>3. /\ DOMAIN r2.stops = DOMAIN r.stops \cup {d} /\ r2.stops[d] = e
        /\ \A c \in DOMAIN r.stops : r2.stops[c] = r.stops[c]
    BY <2>2 DEF With
  <2> QED BY <2>1, <2>3, Zenon
<1>4. SpansKept(p, r2)
  <2>1. ASSUME NEW c \in DOMAIN r2.stops, NEW x \in StopOf(c).resources
        PROVE  Spans(r2, x, r2.stops[c].sent, r2.stops[c].done)
    <3>1. CASE c \in DOMAIN r.stops
      <4>1. Spans(r, x, r.stops[c].sent, r.stops[c].done)
        BY <3>1 DEF Kept, SpansKept
      <4> QED BY <1>3, <3>1, <4>1 DEF Spans
    <3>2. CASE c = d
      <4>1. PICK j \in 1 .. n : Actuates(p[j]) /\ Does(p[j]).device = d
        OBVIOUS
      <4>2. j \in DOMAIN p
        BY <1>1
      <4>3. x \in p[j].resources
        BY <3>2, <4>1, <4>2, ResolvedStep DEF LocksSuffice
      <4>4. x \in DOMAIN r.locks /\ r.locks[x].to = Nothing
        BY <4>1, <4>3 DEF Kept, SpansKept
      <4>5. r.locks[x].from <= t
        BY <4>4 DEF Kept, LocksKept
      <4> QED BY <1>3, <3>2, <4>4, <4>5 DEF Spans
    <3> QED BY <1>3, <3>1, <3>2
  <2>2. /\ \A j \in 1 .. Len(r2.commands) : \A x \in p[j].resources :
             Spans(r2, x, r2.commands[j].sent, r2.commands[j].done)
        /\ \A k \in DOMAIN r2.evidence : \A x \in p[k[1]].resources :
             Spans(r2, x, r2.evidence[k].at, r2.evidence[k].at)
    BY DEF Kept, SpansKept, Spans
  <2>3. \A j \in 1 .. Len(r2.commands) :
          Actuates(p[j]) /\ Does(p[j]).device \notin DOMAIN r2.stops =>
            \A x \in p[j].resources : x \in DOMAIN r2.locks /\ r2.locks[x].to = Nothing
    BY <1>3 DEF Kept, SpansKept
  <2> QED BY <2>1, <2>2, <2>3 DEF SpansKept
<1>5. StopsKept(p, r2, t)
  <2>1. DOMAIN r2.stops \subseteq Devices
    BY <1>3 DEF Kept, StopsKept
  <2>2. ASSUME NEW c \in DOMAIN r2.stops
        PROVE  LET e == r2.stops[c] IN
               /\ e.sent \in Nat /\ e.sent <= t /\ e.confirmed \in BOOLEAN
               /\ e.done # Nothing => e.done \in Nat /\ e.sent <= e.done /\ e.done <= t
               /\ \E j \in 1 .. n : Actuates(p[j]) /\ Does(p[j]).device = c
               /\ \A j \in 1 .. n : Actuates(p[j]) /\ Does(p[j]).device = c =>
                    r.commands[j].done # Nothing /\ r.commands[j].done <= e.sent
    <3>1. CASE c \in DOMAIN r.stops
      <4>1. r2.stops[c] = r.stops[c]
        BY <1>3, <3>1
      <4> QED BY <3>1, <4>1 DEF Kept, StopsKept
    <3>2. CASE c = d
      <4>1. \A j \in 1 .. n : r.commands[j].done # Nothing /\ r.commands[j].done <= t
        BY DEF Kept, CommandsKept
      <4>2. \E j \in 1 .. n : Actuates(p[j]) /\ Does(p[j]).device = c
        BY <3>2
      <4>3. r2.stops[c].confirmed \in BOOLEAN
        BY <1>3, <3>2, Zenon
      <4>4. r2.stops[c].sent = t /\ r2.stops[c].done = Nothing
        BY <1>3, <3>2
      <4>5. r2.stops[c].sent \in Nat /\ r2.stops[c].sent <= t
        BY <1>1, <4>4
      <4> QED BY <4>1, <4>2, <4>3, <4>4, <4>5
    <3> QED BY <1>3, <3>1, <3>2
  <2> QED BY <2>1, <2>2 DEF StopsKept
<1>6. ShapeKept(r2)
  <2> DEFINE e == [sent |-> t, done |-> Nothing, confirmed |-> FALSE]
  <2>1. e = [sent |-> e.sent, done |-> e.done, confirmed |-> e.confirmed]
    OBVIOUS
  <2> HIDE DEF e
  <2>2. \A c \in DOMAIN r2.stops :
          \/ c \in DOMAIN r.stops /\ r2.stops[c] = r.stops[c]
          \/ r2.stops[c] = e
    BY DEF With, e
  <2> QED BY <2>1, <2>2, Zenon DEF Kept, ShapeKept
<1> QED BY <1>2, <1>4, <1>5, <1>6 DEF Kept

\* A stop ends, confirmed or not.
LEMMA StopEndsKept ==
  ASSUME RunAssumption, NEW p, NEW r, NEW t, Kept(p, r, t), Outcome(r) \notin Terminal,
         NEW d \in DOMAIN r.stops, r.stops[d].done = Nothing, NEW confirmed \in BOOLEAN,
         NEW r2, r2.life = r.life, r2.locks = r.locks, r2.commands = r.commands,
         r2.evidence = r.evidence, DOMAIN r2.stops = DOMAIN r.stops,
         NEW e, e = [sent |-> r.stops[d].sent, done |-> t, confirmed |-> confirmed],
         r2.stops[d] = e,
         \A c \in DOMAIN r.stops \ {d} : r2.stops[c] = r.stops[c]
  PROVE  Kept(p, r2, t)
<1>1. t \in Nat
  BY HostStands
<1>2. /\ LifeKept(r2, t) /\ Outcome(r2) = Outcome(r) /\ LocksKept(p, r2, t)
      /\ CommandsKept(p, r2, t) /\ EvidenceKept(p, r2, t) /\ EndKept(p, r2, t)
  BY PartsStay
<1>0. e.sent = r.stops[d].sent /\ e.done = t /\ e.confirmed \in BOOLEAN
  OBVIOUS
<1>3. SpansKept(p, r2)
  <2>1. ASSUME NEW c \in DOMAIN r2.stops, NEW x \in StopOf(c).resources
        PROVE  Spans(r2, x, r2.stops[c].sent, r2.stops[c].done)
    <3>1. Spans(r, x, r.stops[c].sent, r.stops[c].done)
      BY DEF Kept, SpansKept
    <3>2. CASE c = d
      BY <1>0, <3>1, <3>2 DEF Spans
    <3>3. CASE c # d
      BY <3>1, <3>3 DEF Spans
    <3> QED BY <3>2, <3>3
  <2>2. /\ \A j \in 1 .. Len(r2.commands) : \A x \in p[j].resources :
             Spans(r2, x, r2.commands[j].sent, r2.commands[j].done)
        /\ \A k \in DOMAIN r2.evidence : \A x \in p[k[1]].resources :
             Spans(r2, x, r2.evidence[k].at, r2.evidence[k].at)
    BY DEF Kept, SpansKept, Spans
  <2>3. \A j \in 1 .. Len(r2.commands) :
          Actuates(p[j]) /\ Does(p[j]).device \notin DOMAIN r2.stops =>
            \A x \in p[j].resources : x \in DOMAIN r2.locks /\ r2.locks[x].to = Nothing
    BY DEF Kept, SpansKept
  <2> QED BY <2>1, <2>2, <2>3 DEF SpansKept
<1>4. StopsKept(p, r2, t)
  <2>1. ASSUME NEW c \in DOMAIN r2.stops
        PROVE  LET f == r2.stops[c] IN
               /\ f.sent \in Nat /\ f.sent <= t /\ f.confirmed \in BOOLEAN
               /\ f.done # Nothing => f.done \in Nat /\ f.sent <= f.done /\ f.done <= t
               /\ f.sent = r.stops[c].sent
    <3>1. CASE c = d
      <4>1. r.stops[d].sent \in Nat /\ r.stops[d].sent <= t
        BY DEF Kept, StopsKept
      <4>2. t \in Nat /\ r.stops[d].sent <= t /\ t <= t
        BY <1>1, <4>1
      <4> QED BY <1>0, <3>1, <4>1, <4>2, Zenon
    <3>2. CASE c # d
      BY <3>2 DEF Kept, StopsKept
    <3> QED BY <3>1, <3>2
  <2> QED BY <2>1 DEF Kept, StopsKept
<1>5. ShapeKept(r2)
  <2>1. e = [sent |-> e.sent, done |-> e.done, confirmed |-> e.confirmed]
    OBVIOUS
  <2>2. \A c \in DOMAIN r2.stops :
          \/ c \in DOMAIN r.stops /\ r2.stops[c] = r.stops[c]
          \/ r2.stops[c] = e
    OBVIOUS
  <2> QED BY <2>1, <2>2, Zenon DEF Kept, ShapeKept
<1> QED BY <1>2, <1>3, <1>4, <1>5 DEF Kept

\* The run ends, as what was done and seen says.
LEMMA EndingKept ==
  ASSUME RunAssumption, NEW p, Runnable(p), NEW r, NEW t, Kept(p, r, t),
         r.commands \in Seq(CommandRecord), Outcome(r) \notin Terminal,
         NEW n, n = Len(r.commands),
         \A j \in 1 .. n : /\ r.commands[j].done # Nothing
                           /\ Actuates(p[j]) => Does(p[j]).device \in DOMAIN r.stops,
         \A d \in DOMAIN r.stops : r.stops[d].done # Nothing,
         \A x \in DOMAIN r.locks : r.locks[x].to # Nothing,
         Outcome(r) = "created" => r.locks = <<>>,
         NEW outcome \in Terminal, outcome = "succeeded" => Outcome(r) = "running",
         outcome = "succeeded" =>
           /\ n = Len(p) /\ r.commands[n].status = "acknowledged"
           /\ \A q \in DOMAIN p[n].requires :
                <<n, q>> \in DOMAIN r.evidence /\ r.evidence[<<n, q>>].holds
           /\ \A d \in DOMAIN r.stops : r.stops[d].confirmed,
         outcome = "failed" =>
           /\ n > 0 => r.commands[n].status # "cancelled"
           /\ Unsent(r) # {} =>
                /\ \E k \in Unsent(r) : ~r.evidence[k].holds
                /\ \A k \in Unsent(r) : t - r.evidence[k].at <= p[k[1]].requires[k[2]].age,
         outcome = "cancelled" =>
           /\ n > 0 => r.commands[n].status \in {"acknowledged", "cancelled"}
           /\ Unsent(r) = {},
         NEW r2, r2.life = Append(r.life, [state |-> outcome, at |-> t]), r2.locks = r.locks,
         r2.commands = r.commands, r2.stops = r.stops, r2.evidence = r.evidence
  PROVE  Kept(p, r2, t)
<1> DEFINE m == Len(r.life)
<1>1. /\ m \in 1 .. 3
      /\ \/ Outcome(r) = "created" /\ m = 1 /\ ~WasLocked(r) /\ ~WasRunning(r)
         \/ Outcome(r) = "locked" /\ m = 2 /\ WasLocked(r) /\ ~WasRunning(r)
         \/ Outcome(r) = "running" /\ m = 3 /\ WasLocked(r) /\ WasRunning(r)
  BY HostStands
<1>2. outcome \in AllowedNext[Outcome(r)]
  BY <1>1 DEF AllowedNext, Terminal
<1>3. /\ LifeKept(r2, t) /\ Outcome(r2) = outcome /\ Len(r2.life) = m + 1
      /\ \A i \in 1 .. m : r2.life[i] = r.life[i]
      /\ r2.life[m + 1].state = outcome
  BY <1>2, LifeGoesOn
<1>4. outcome # "locked" /\ outcome # "running"
  BY DEF Terminal
<1>5. /\ WasLocked(r2) <=> WasLocked(r)
      /\ WasLocked(r) => r2.life[2] = r.life[2]
      /\ WasRunning(r2) <=> WasRunning(r)
      /\ WasRunning(r) => r2.life[3] = r.life[3]
  <2>1. CASE m = 1
    BY <1>1, <1>3, <1>4, <2>1 DEF WasLocked, WasRunning
  <2>2. CASE m = 2
    BY <1>1, <1>3, <1>4, <2>2 DEF WasLocked, WasRunning
  <2>3. CASE m = 3
    BY <1>1, <1>3, <1>4, <2>3 DEF WasLocked, WasRunning
  <2> QED BY <1>1, <2>1, <2>2, <2>3
<1>6. StopsKept(p, r2, t) /\ SpansKept(p, r2) /\ EvidenceKept(p, r2, t) /\ ShapeKept(r2)
  BY <1>5, PartsStay
<1>7. LocksKept(p, r2, t)
  BY <1>5 DEF Kept, LocksKept
<1>8. CommandsKept(p, r2, t)
  <2>1. \A j \in 1 .. n : WasRunning(r2) /\ r2.life[3].at <= r.commands[j].sent
    BY <1>5 DEF Kept, CommandsKept
  <2>2. n <= Len(p)
    BY DEF Kept, CommandsKept
  <2>3. ASSUME NEW j \in 1 .. n
        PROVE  LET c == r.commands[j] IN
               /\ c.step = j /\ c.sent \in Nat /\ c.sent <= t
               /\ c.done \in Nat /\ c.sent <= c.done /\ c.done <= t
               /\ c.status \in Statuses
               /\ IF c.status = "timed_out" THEN c.done - c.sent >= p[j].timeout
                                            ELSE c.done - c.sent <= p[j].timeout
    BY DEF Kept, CommandsKept
  <2>4. \A j \in 1 .. n - 1 : /\ r.commands[j].status = "acknowledged"
                             /\ r.commands[j].done <= r.commands[j + 1].sent
    BY DEF Kept, CommandsKept
  <2>5. /\ r2.commands = r.commands /\ n = Len(r.commands)
        /\ \A j \in 1 .. n : r.commands[j].done # Nothing
    OBVIOUS
  <2> QED BY ONLY <2>1, <2>2, <2>3, <2>4, <2>5 DEF CommandsKept
<1>9. EndKept(p, r2, t)
  <2>1. Unsent(r2) = Unsent(r)
    BY DEF Unsent
  <2>2. ~WasLocked(r2) => r2.locks = <<>>
    BY <1>1, <1>5
  <2> QED BY <1>3, <2>1, <2>2 DEF EndKept
<1> QED BY <1>3, <1>6, <1>7, <1>8, <1>9 DEF Kept

\* What the record of a host looks like, whose fields change one at a time.
LEMMA RecordFields ==
  ASSUME RecordInv
  PROVE  /\ \A x : LET r2 == [run EXCEPT !.life = x] IN
              r2.life = x /\ r2.locks = run.locks /\ r2.commands = run.commands
              /\ r2.stops = run.stops /\ r2.evidence = run.evidence
         /\ \A x : LET r2 == [run EXCEPT !.locks = x] IN
              r2.life = run.life /\ r2.locks = x /\ r2.commands = run.commands
              /\ r2.stops = run.stops /\ r2.evidence = run.evidence
         /\ \A x : LET r2 == [run EXCEPT !.commands = x] IN
              r2.life = run.life /\ r2.locks = run.locks /\ r2.commands = x
              /\ r2.stops = run.stops /\ r2.evidence = run.evidence
         /\ \A x : LET r2 == [run EXCEPT !.stops = x] IN
              r2.life = run.life /\ r2.locks = run.locks /\ r2.commands = run.commands
              /\ r2.stops = x /\ r2.evidence = run.evidence
         /\ \A x : LET r2 == [run EXCEPT !.evidence = x] IN
              r2.life = run.life /\ r2.locks = run.locks /\ r2.commands = run.commands
              /\ r2.stops = run.stops /\ r2.evidence = x
BY DEF RecordInv

\* Nothing is in flight: every command and every stop has ended.
LEMMA NothingInFlight ==
  ASSUME RecordInv, Kept(protocol, run, clock), ~InFlight
  PROVE  /\ \A j \in 1 .. Len(run.commands) : run.commands[j].done # Nothing
         /\ \A d \in DOMAIN run.stops : run.stops[d].done # Nothing
<1>1. run.commands \in Seq(CommandRecord)
  BY DEF RecordInv, TypedRecord
<1>2. \A j \in 1 .. Len(run.commands) : run.commands[j].done = Nothing => j = Len(run.commands)
  BY DEF Kept, CommandsKept
<1>3. \A j \in 1 .. Len(run.commands) : run.commands[j].done # Nothing
  BY <1>1, <1>2 DEF InFlight, Sent, Last
<1> QED BY <1>3 DEF InFlight

\* Nothing is loose: every device that moved was stopped.
LEMMA NothingLoose ==
  ASSUME RunAssumption, RecordInv, Kept(protocol, run, clock), ~\E d \in Devices : Loose(d)
  PROVE  \A j \in 1 .. Len(run.commands) :
           Actuates(protocol[j]) => Does(protocol[j]).device \in DOMAIN run.stops
<1> SUFFICES ASSUME NEW j \in 1 .. Len(run.commands), Actuates(protocol[j])
             PROVE  Does(protocol[j]).device \in DOMAIN run.stops
  OBVIOUS
<1> DEFINE d == Does(protocol[j]).device
<1>1. run.commands \in Seq(CommandRecord) /\ Runnable(protocol)
  BY DEF RecordInv, TypedRecord
<1>2. Len(run.commands) <= Len(protocol) /\ Len(run.commands) \in Nat
  BY <1>1 DEF Kept, CommandsKept
<1>3. DOMAIN protocol = 1 .. Len(protocol) /\ Len(protocol) \in Nat
  BY <1>1, RunnableRead
<1>4. j \in DOMAIN protocol /\ j \in DOMAIN run.commands
  BY <1>1, <1>2, <1>3
<1>5. protocol[j].command \in Commands
  BY <1>1, <1>4, ResolvedStep
<1>6. d \in Devices
  BY <1>5 DEF RunAssumption, ManifestAccepted, Does
<1>7. Moved(d)
  BY <1>4 DEF Moved, Actuations
<1> QED BY <1>6, <1>7 DEF Loose

\* Resources are locked or released, and time passes.
LEMMA LocksGoOn ==
  ASSUME RunAssumption, RecordInv, Kept(protocol, run, clock), slips \in Nat, slips' = 0,
         \/ Tick
         \/ \E xs \in (SUBSET Manifest.resource) \ {{}} : Acquire(xs) \/ Release(xs)
  PROVE  Kept(protocol, run', clock')
<1>1. run.commands \in Seq(CommandRecord)
  BY DEF RecordInv, TypedRecord
<1>2. CASE Tick
  <2>1. run' = run /\ clock' = clock + 1 /\ Outcome(run) \notin Terminal
    BY <1>2 DEF Tick, Over
  <2> QED BY <2>1, TickKept
<1>3. ASSUME NEW xs, Acquire(xs) PROVE Kept(protocol, run', clock')
  <2>1. State = "created" /\ xs \subseteq RequiredLocks(protocol) /\ clock' = clock
    BY <1>3 DEF Acquire, Disciplined, Here
  <2>2. PICK locks : locks = With(run.locks, xs, [from |-> clock, to |-> Nothing])
    OBVIOUS
  <2>3. run' = [run EXCEPT !.locks = locks]
    BY <1>3, <2>2, Zenon DEF Acquire
  <2>4. PICK r2 : r2 = run'
    OBVIOUS
  <2>5. /\ r2.life = run.life /\ r2.locks = locks /\ r2.commands = run.commands
        /\ r2.stops = run.stops /\ r2.evidence = run.evidence
    BY <2>3, <2>4, RecordFields
  <2>6. Kept(protocol, r2, clock)
    BY <1>1, <2>1, <2>2, <2>5, AcquireKept DEF State
  <2> QED BY <2>1, <2>4, <2>6
<1>4. ASSUME NEW xs \in (SUBSET Manifest.resource) \ {{}}, Release(xs)
      PROVE  Kept(protocol, run', clock')
  <2>1. /\ \A x \in xs : x \in DOMAIN run.locks /\ run.locks[x].to = Nothing
        /\ ~InFlight /\ ~\E d \in Devices : Loose(d)
        /\ clock' = clock
    BY <1>4 DEF Release, Disciplined, Here, HoldsAll, Held
  <2>2. Outcome(run) \notin Terminal
    BY <1>4, <2>1 DEF Kept, EndKept
  <2>3. PICK locks : locks = [x \in DOMAIN run.locks |->
                                IF x \in xs THEN [run.locks[x] EXCEPT !.to = clock]
                                            ELSE run.locks[x]]
    OBVIOUS
  <2>4. run' = [run EXCEPT !.locks = locks]
    BY <1>4, <2>3, Zenon DEF Release
  <2>5. PICK r2 : r2 = run'
    OBVIOUS
  <2>6. /\ r2.life = run.life /\ r2.locks = locks /\ r2.commands = run.commands
        /\ r2.stops = run.stops /\ r2.evidence = run.evidence
    BY <2>4, <2>5, RecordFields
  <2>7. DOMAIN r2.locks = DOMAIN run.locks
    BY <2>3, <2>6
  <2>8. \A x \in DOMAIN run.locks :
          r2.locks[x] = [from |-> run.locks[x].from,
                         to |-> IF x \in xs THEN clock ELSE run.locks[x].to]
    <3> SUFFICES ASSUME NEW x \in DOMAIN run.locks
                 PROVE  r2.locks[x] = [from |-> run.locks[x].from,
                                       to |-> IF x \in xs THEN clock ELSE run.locks[x].to]
      OBVIOUS
    <3> DEFINE l == run.locks[x]
    <3>1. l = [from |-> l.from, to |-> l.to]
      BY DEF Kept, ShapeKept
    <3>2. r2.locks[x] = IF x \in xs THEN [l EXCEPT !.to = clock] ELSE l
      BY <2>3, <2>6
    <3> HIDE DEF l
    <3>3. CASE x \in xs
      BY <3>1, <3>2, <3>3 DEF l
    <3>4. CASE x \notin xs
      BY <3>1, <3>2, <3>4 DEF l
    <3> QED BY <3>3, <3>4
  <2>9. Kept(protocol, r2, clock)
    <3>1. /\ \A j \in 1 .. Len(run.commands) :
               /\ run.commands[j].done # Nothing
               /\ Actuates(protocol[j]) => Does(protocol[j]).device \in DOMAIN run.stops
          /\ \A d \in DOMAIN run.stops : run.stops[d].done # Nothing
      BY <2>1, NothingInFlight, NothingLoose
    <3> QED BY <1>1, <2>1, <2>2, <2>6, <2>7, <2>8, <3>1, ReleaseKept
  <2> QED BY <2>1, <2>5, <2>9
<1> QED BY <1>2, <1>3, <1>4

\* The run is locked, is running, and ends.
LEMMA LifeOfHostGoesOn ==
  ASSUME RunAssumption, RecordInv, Kept(protocol, run, clock), slips \in Nat, slips' = 0,
         EnterLocked \/ EnterRunning \/ \E outcome \in Terminal : Finish(outcome)
  PROVE  Kept(protocol, run', clock')
<1>1. run.commands \in Seq(CommandRecord) /\ Runnable(protocol)
  BY DEF RecordInv, TypedRecord
<1>2. clock' = clock
  BY DEF EnterLocked, EnterRunning, Finish, Here
<1>3. PICK r2 : r2 = run'
  OBVIOUS
<1>4. ASSUME NEW s, Enter(s)
      PROVE  /\ r2.life = Append(run.life, [state |-> s, at |-> clock])
             /\ r2.locks = run.locks /\ r2.commands = run.commands
             /\ r2.stops = run.stops /\ r2.evidence = run.evidence
  <2>1. PICK life : life = Append(run.life, [state |-> s, at |-> clock])
    OBVIOUS
  <2>2. run' = [run EXCEPT !.life = life]
    BY <1>4, <2>1, Zenon DEF Enter
  <2> QED BY <1>3, <2>1, <2>2, RecordFields
<1>5. CASE EnterLocked
  <2>1. Outcome(run) = "created" /\ \A x \in RequiredLocks(protocol) : x \in DOMAIN run.locks
    BY <1>5 DEF EnterLocked, Disciplined, State, HoldsAll, Held
  <2>2. Enter("locked")
    BY <1>5 DEF EnterLocked
  <2>3. PICK s : s = "locked"
    OBVIOUS
  <2>4. /\ r2.life = Append(run.life, [state |-> "locked", at |-> clock])
        /\ r2.locks = run.locks /\ r2.commands = run.commands
        /\ r2.stops = run.stops /\ r2.evidence = run.evidence
    BY <1>4, <2>2, <2>3
  <2> QED BY <1>1, <1>2, <1>3, <2>1, <2>4, LockedKept
<1>6. CASE EnterRunning
  <2>1. Outcome(run) = "locked" /\ Enter("running")
    BY <1>6 DEF EnterRunning, State
  <2>2. PICK s : s = "running"
    OBVIOUS
  <2>3. /\ r2.life = Append(run.life, [state |-> "running", at |-> clock])
        /\ r2.locks = run.locks /\ r2.commands = run.commands
        /\ r2.stops = run.stops /\ r2.evidence = run.evidence
    BY <1>4, <2>1, <2>2
  <2> QED BY <1>1, <1>2, <1>3, <2>1, <2>3, RunningKept
<1>7. ASSUME NEW outcome \in Terminal, Finish(outcome) PROVE Kept(protocol, run', clock')
  <2> DEFINE n == Len(run.commands)
  <2>1. /\ Outcome(run) \notin Terminal /\ (outcome = "succeeded" => Outcome(run) = "running")
        /\ ~InFlight /\ Finished(outcome) /\ ~\E d \in Devices : Loose(d)
        /\ Outcome(run) = "created" => run.locks = <<>>
        /\ \A x \in DOMAIN run.locks : run.locks[x].to # Nothing
        /\ Enter(outcome)
    BY <1>7 DEF Finish, Disciplined, Over, State, Held
  <2>2. /\ r2.life = Append(run.life, [state |-> outcome, at |-> clock])
        /\ r2.locks = run.locks /\ r2.commands = run.commands
        /\ r2.stops = run.stops /\ r2.evidence = run.evidence
    BY <1>4, <2>1
  <2>3. /\ \A j \in 1 .. n :
             /\ run.commands[j].done # Nothing
             /\ Actuates(protocol[j]) => Does(protocol[j]).device \in DOMAIN run.stops
        /\ \A d \in DOMAIN run.stops : run.stops[d].done # Nothing
    BY <2>1, NothingInFlight, NothingLoose
  <2>4. n > 0 => Last(run.commands) = run.commands[n]
    BY DEF Last
  <2>6. outcome = "succeeded" =>
          /\ n = Len(protocol) /\ run.commands[n].status = "acknowledged"
          /\ \A q \in DOMAIN protocol[n].requires :
               <<n, q>> \in DOMAIN run.evidence /\ run.evidence[<<n, q>>].holds
          /\ \A d \in DOMAIN run.stops : run.stops[d].confirmed
    <3> SUFFICES ASSUME outcome = "succeeded"
                 PROVE  /\ n = Len(protocol) /\ run.commands[n].status = "acknowledged"
                        /\ \A q \in DOMAIN protocol[n].requires :
                             <<n, q>> \in DOMAIN run.evidence /\ run.evidence[<<n, q>>].holds
                        /\ \A d \in DOMAIN run.stops : run.stops[d].confirmed
      OBVIOUS
    <3>1. /\ Sent = Len(protocol) /\ Last(run.commands).status = "acknowledged"
          /\ \A q \in DOMAIN protocol[Sent].requires :
               Seen(Sent, q) /\ run.evidence[<<Sent, q>>].holds
          /\ \A d \in DOMAIN run.stops : run.stops[d].confirmed
      BY <2>1 DEF Finished
    <3>2. Len(protocol) > 0
      BY <1>1, RunnableRead
    <3> QED BY <2>4, <3>1, <3>2 DEF Sent, Seen
  <2>7. Shown = Unsent(run)
    BY DEF Shown, Unsent, Sent
  <2>8. outcome = "failed" =>
          /\ n > 0 => run.commands[n].status # "cancelled"
          /\ Unsent(run) # {} =>
               /\ \E k \in Unsent(run) : ~run.evidence[k].holds
               /\ \A k \in Unsent(run) :
                    clock - run.evidence[k].at <= protocol[k[1]].requires[k[2]].age
    BY <2>1, <2>4, <2>7 DEF Finished, Sent
  <2>9. outcome = "cancelled" =>
          /\ n > 0 => run.commands[n].status \in {"acknowledged", "cancelled"}
          /\ Unsent(run) = {}
    BY <2>1, <2>4, <2>7 DEF Finished, Sent
  <2> HIDE DEF n
  <2>10. Kept(protocol, r2, clock)
    BY <1>1, <2>1, <2>2, <2>3, <2>6, <2>8, <2>9, EndingKept DEF n
  <2> QED BY <1>2, <1>3, <2>10
<1> QED BY <1>5, <1>6, <1>7

\* Requirements are observed, steps are sent and commands end.
LEMMA CommandsGoOn ==
  ASSUME RunAssumption, RecordInv, Kept(protocol, run, clock), slips \in Nat, slips' = 0,
         \/ \E i \in DOMAIN protocol :
              Dispatch(i) \/ \E q \in DOMAIN protocol[i].requires : Capture(i, q)
         \/ \E status \in Statuses : Complete(status)
  PROVE  Kept(protocol, run', clock')
<1> DEFINE n == Len(run.commands)
<1>1. /\ run.commands \in Seq(CommandRecord) /\ Runnable(protocol) /\ n \in Nat
      /\ DOMAIN run.commands = 1 .. n
  BY DEF RecordInv, TypedRecord
<1>2. Last(run.commands) = run.commands[n]
  BY DEF Last
<1>3. PICK r2 : r2 = run'
  OBVIOUS
<1>4. DOMAIN protocol = 1 .. Len(protocol) /\ Len(protocol) \in Nat
  BY <1>1, RunnableRead
<1>5. ASSUME NEW i \in DOMAIN protocol, NEW q \in DOMAIN protocol[i].requires, Capture(i, q)
      PROVE  Kept(protocol, run', clock')
  <2>1. /\ Outcome(run) = "running" /\ ~InFlight /\ <<i, q>> \notin DOMAIN run.evidence
        /\ \A x \in protocol[i].resources : x \in DOMAIN run.locks /\ run.locks[x].to = Nothing
        /\ clock' = clock
    BY <1>5 DEF Capture, Disciplined, State, HoldsAll, Held, Seen, Here
  <2>2. IF protocol[i].requires[q].phase = "precondition" THEN i = n + 1
        ELSE /\ i = n
             /\ clock - run.commands[i].done <= protocol[i].requires[q].age
    <3>1. IF protocol[i].requires[q].phase = "precondition"
          THEN i = Sent + 1 /\ Barrier
          ELSE i = Sent /\ clock - Last(run.commands).done <= protocol[i].requires[q].age
      BY <1>5 DEF Capture, Disciplined
    <3> QED BY <1>2, <3>1 DEF Sent
  <2>3. \E holds \in BOOLEAN : run' = [run EXCEPT !.evidence =
                                  With(run.evidence, {<<i, q>>}, [at |-> clock, holds |-> holds])]
    BY <1>5, Zenon DEF Capture
  <2>4. PICK holds \in BOOLEAN : run' = [run EXCEPT !.evidence =
                                  With(run.evidence, {<<i, q>>}, [at |-> clock, holds |-> holds])]
    BY <2>3
  <2>5. PICK evidence : evidence = With(run.evidence, {<<i, q>>}, [at |-> clock, holds |-> holds])
    OBVIOUS
  <2>6. run' = [run EXCEPT !.evidence = evidence]
    BY <2>4, <2>5, Zenon
  <2>7. /\ r2.life = run.life /\ r2.locks = run.locks /\ r2.commands = run.commands
        /\ r2.stops = run.stops /\ r2.evidence = evidence
    BY <1>3, <2>6, RecordFields
  <2>8. \A j \in 1 .. n : run.commands[j].done # Nothing
    BY <2>1, NothingInFlight
  <2> HIDE DEF n
  <2>9. Kept(protocol, r2, clock)
    BY <1>1, <2>1, <2>2, <2>5, <2>7, <2>8, CaptureKept DEF n
  <2> QED BY <1>3, <2>1, <2>9
<1>6. ASSUME NEW i \in DOMAIN protocol, Dispatch(i) PROVE Kept(protocol, run', clock')
  <2>1. /\ Outcome(run) = "running" /\ ~InFlight /\ i = n + 1 /\ clock' = clock
        /\ \A x \in protocol[i].resources : x \in DOMAIN run.locks /\ run.locks[x].to = Nothing
        /\ Barrier
        /\ \A q \in PhaseOf(protocol[i], "precondition") : Usable(i, q)
        /\ ~\E d \in Devices : d \in DOMAIN run.stops
    BY <1>6 DEF Dispatch, Disciplined, State, HoldsAll, Held, Here, Sent
  <2>2. \A q \in PhaseOf(protocol[i], "precondition") :
          /\ <<i, q>> \in DOMAIN run.evidence /\ run.evidence[<<i, q>>].holds
          /\ clock - run.evidence[<<i, q>>].at <= protocol[i].requires[q].age
    BY <2>1 DEF Usable, Seen
  <2>3. n > 0 =>
          /\ run.commands[n].status = "acknowledged"
          /\ \A q \in PhaseOf(protocol[n], "postcondition") :
               LET k == <<n, q>> IN
               /\ k \in DOMAIN run.evidence /\ run.evidence[k].holds
               /\ clock - run.evidence[k].at <= protocol[n].requires[q].age
    BY <1>2, <2>1 DEF Barrier, Usable, Seen, Sent
  <2>4. DOMAIN run.stops = {}
    BY <2>1 DEF Kept, StopsKept
  <2>5. \A j \in 1 .. n : run.commands[j].done # Nothing
    BY <2>1, NothingInFlight
  <2> DEFINE c == [step |-> i, sent |-> clock, done |-> Nothing, status |-> Nothing]
  <2>6. c.step = i /\ c.sent = clock /\ c.done = Nothing
    OBVIOUS
  <2>7. c \in CommandRecord
    BY <1>4 DEF CommandRecord, RecordInv
  <2>8. run' = [run EXCEPT !.commands = Append(run.commands, c)]
    BY <1>6 DEF Dispatch
  <2> HIDE DEF c
  <2>9. /\ r2.life = run.life /\ r2.locks = run.locks /\ r2.commands = Append(run.commands, c)
        /\ r2.stops = run.stops /\ r2.evidence = run.evidence
    BY <1>3, <2>8, RecordFields
  <2>10. /\ Len(r2.commands) = n + 1 /\ r2.commands[n + 1] = c
         /\ \A j \in 1 .. n : r2.commands[j] = run.commands[j]
    BY <1>1, <2>7, <2>9
  <2>11. Kept(protocol, r2, clock)
    <3>1. RunAssumption /\ Kept(protocol, run, clock) /\ i \in DOMAIN protocol
      OBVIOUS
    <3> HIDE DEF n
    <3>2. n = Len(run.commands)
      BY DEF n
    <3>3. /\ r2.life = run.life /\ r2.locks = run.locks
          /\ r2.stops = run.stops /\ r2.evidence = run.evidence
          /\ Len(r2.commands) = i /\ r2.commands[i].step = i /\ r2.commands[i].sent = clock
          /\ r2.commands[i].done = Nothing /\ \A j \in 1 .. n : r2.commands[j] = run.commands[j]
      BY ONLY <2>1, <2>6, <2>9, <2>10
    <3> QED BY ONLY <1>1, <2>1, <2>2, <2>3, <2>4, <2>5, <3>1, <3>2, <3>3, DispatchKept
  <2> QED BY <1>3, <2>1, <2>11
<1>7. ASSUME NEW status \in Statuses, Complete(status) PROVE Kept(protocol, run', clock')
  <2>1. /\ n > 0 /\ run.commands[n].done = Nothing /\ clock' = clock
    BY <1>2, <1>7, Zenon DEF Complete, Sent, Here
  <2>2. Outcome(run) \notin Terminal
    BY <1>1, <2>1 DEF Kept, EndKept
  <2>3. run.commands[n].step = n
    BY <1>1, <2>1 DEF Kept, CommandsKept
  <2>4. IF status = "timed_out" THEN clock - run.commands[n].sent >= protocol[n].timeout
                                ELSE clock - run.commands[n].sent <= protocol[n].timeout
    <3> DEFINE c == Last(run.commands)
               timeout == protocol[c.step].timeout
               inTime == IF status = "timed_out" THEN clock - c.sent >= timeout
                                                 ELSE clock - c.sent <= timeout
    <3>1. Disciplined(inTime)
      BY <1>7, Zenon DEF Complete
    <3>2. inTime
      <4> HIDE DEF inTime
      <4> QED BY <3>1 DEF Disciplined
    <3> QED BY <1>2, <2>3, <3>2
  <2> DEFINE c == [run.commands[n] EXCEPT !.done = clock, !.status = status]
  <2>5. run.commands[n] \in CommandRecord
    BY ONLY <1>1, <2>1
  <2>6. /\ c.step = run.commands[n].step /\ c.sent = run.commands[n].sent
        /\ c.done = clock /\ c.status = status
    BY ONLY <2>5 DEF CommandRecord
  <2>7. run' = [run EXCEPT !.commands[n].done = clock, !.commands[n].status = status]
    BY <1>7, Zenon DEF Complete, Sent
  <2>8. run' = [run EXCEPT !.commands = [run.commands EXCEPT ![n] = c]]
    BY <1>1, <2>1, <2>7 DEF RecordInv
  <2> HIDE DEF c
  <2>9. /\ r2.life = run.life /\ r2.locks = run.locks
        /\ r2.commands = [run.commands EXCEPT ![n] = c]
        /\ r2.stops = run.stops /\ r2.evidence = run.evidence
    BY <1>3, <2>8, RecordFields
  <2>10. /\ Len(r2.commands) = n /\ r2.commands[n] = c
         /\ \A j \in 1 .. n - 1 : r2.commands[j] = run.commands[j]
    BY <1>1, <2>1, <2>9
  <2> HIDE DEF n
  <2>11. n = Len(run.commands)
    BY DEF n
  <2>12. Kept(protocol, r2, clock)
    <3>1. RunAssumption /\ Kept(protocol, run, clock) /\ status \in Statuses
      OBVIOUS
    <3>2. /\ r2.life = run.life /\ r2.locks = run.locks
          /\ r2.stops = run.stops /\ r2.evidence = run.evidence
      BY <2>9
    <3>3. /\ r2.commands[n].step = run.commands[n].step /\ r2.commands[n].sent = run.commands[n].sent
          /\ r2.commands[n].done = clock /\ r2.commands[n].status = status
          /\ Len(r2.commands) = n /\ \A j \in 1 .. n - 1 : r2.commands[j] = run.commands[j]
      BY ONLY <2>6, <2>10
    <3>4. /\ run.commands \in Seq(CommandRecord) /\ Runnable(protocol)
          /\ n > 0 /\ run.commands[n].done = Nothing
      BY <1>1, <2>1
    <3> QED BY ONLY <2>2, <2>4, <2>11, <3>1, <3>2, <3>3, <3>4, CompleteKept
  <2> QED BY <1>3, <2>1, <2>12
<1> QED BY <1>5, <1>6, <1>7

\* Devices are stopped.
LEMMA StopsGoOn ==
  ASSUME RunAssumption, RecordInv, Kept(protocol, run, clock), slips \in Nat, slips' = 0,
         \E d \in Devices : SafeStop(d) \/ SafeStopEnds(d)
  PROVE  Kept(protocol, run', clock')
<1>1. run.commands \in Seq(CommandRecord) /\ Runnable(protocol)
  BY DEF RecordInv, TypedRecord
<1>2. DOMAIN run.commands = 1 .. Len(run.commands)
  BY <1>1
<1>3. PICK r2 : r2 = run'
  OBVIOUS
<1>4. ASSUME NEW d \in Devices, SafeStop(d) PROVE Kept(protocol, run', clock')
  <2>1. /\ Outcome(run) \notin Terminal /\ d \notin DOMAIN run.stops /\ clock' = clock
        /\ Moved(d) /\ ~InFlight
    BY <1>4 DEF SafeStop, Over, Disciplined, Here
  <2>2. \E j \in 1 .. Len(run.commands) : Actuates(protocol[j]) /\ Does(protocol[j]).device = d
    BY <1>2, <2>1 DEF Moved, Actuations
  <2>3. \A j \in 1 .. Len(run.commands) : run.commands[j].done # Nothing
    BY <2>1, NothingInFlight
  <2>4. PICK stops : stops = With(run.stops, {d},
                                  [sent |-> clock, done |-> Nothing, confirmed |-> FALSE])
    OBVIOUS
  <2>5. run' = [run EXCEPT !.stops = stops]
    BY <1>4, <2>4, Zenon DEF SafeStop
  <2>6. /\ r2.life = run.life /\ r2.locks = run.locks /\ r2.commands = run.commands
        /\ r2.stops = stops /\ r2.evidence = run.evidence
    BY <1>3, <2>5, RecordFields
  <2>7. r2.stops = With(run.stops, {d}, [sent |-> clock, done |-> Nothing, confirmed |-> FALSE])
    BY <2>4, <2>6, Zenon
  <2>8. Kept(protocol, r2, clock)
    BY <1>1, <2>1, <2>2, <2>3, <2>6, <2>7, StopKept
  <2> QED BY <1>3, <2>1, <2>8
<1>5. ASSUME NEW d \in Devices, SafeStopEnds(d) PROVE Kept(protocol, run', clock')
  <2>1. d \in DOMAIN run.stops /\ run.stops[d].done = Nothing /\ clock' = clock
    BY <1>5 DEF SafeStopEnds, Here
  <2>2. Outcome(run) \notin Terminal
    BY <2>1 DEF Kept, EndKept
  <2>3. PICK confirmed \in BOOLEAN :
          run' = [run EXCEPT !.stops[d].done = clock, !.stops[d].confirmed = confirmed]
    BY <1>5 DEF SafeStopEnds
  <2>4. PICK stops : stops = [run.stops EXCEPT ![d].done = clock, ![d].confirmed = confirmed]
    OBVIOUS
  <2>5. run' = [run EXCEPT !.stops = stops]
    BY <2>3, <2>4 DEF RecordInv
  <2>6. /\ r2.life = run.life /\ r2.locks = run.locks /\ r2.commands = run.commands
        /\ r2.stops = stops /\ r2.evidence = run.evidence
    BY <1>3, <2>5, RecordFields
  <2> DEFINE e == run.stops[d]
             f == [sent |-> e.sent, done |-> clock, confirmed |-> confirmed]
  <2>7. e = [sent |-> e.sent, done |-> e.done, confirmed |-> e.confirmed]
    BY <2>1 DEF Kept, ShapeKept
  <2>8. [e EXCEPT !.done = clock, !.confirmed = confirmed] = f
    <3>1. PICK a, b, c : a = e.sent /\ b = e.done /\ c = e.confirmed
      OBVIOUS
    <3>2. f = [sent |-> a, done |-> clock, confirmed |-> confirmed]
      BY <3>1
    <3> HIDE DEF e, f
    <3>3. e = [sent |-> a, done |-> b, confirmed |-> c]
      BY <2>7, <3>1, Zenon
    <3>4. e \in [sent : {a}, done : {b}, confirmed : {c}]
      BY <3>3
    <3>5. [e EXCEPT !.done = clock, !.confirmed = confirmed]
            \in [sent : {a}, done : {clock}, confirmed : {confirmed}]
      BY <3>4
    <3>6. \A g \in [sent : {a}, done : {clock}, confirmed : {confirmed}] :
            g = [sent |-> a, done |-> clock, confirmed |-> confirmed]
      OBVIOUS
    <3> QED BY <3>2, <3>5, <3>6, Zenon
  <2>9. stops = [run.stops EXCEPT ![d] = [e EXCEPT !.done = clock, !.confirmed = confirmed]]
    BY <2>1, <2>4
  <2>10. stops = [run.stops EXCEPT ![d] = f]
    BY <2>8, <2>9, Zenon
  <2> HIDE DEF f
  <2>11. /\ DOMAIN stops = DOMAIN run.stops /\ stops[d] = f
         /\ \A c \in DOMAIN run.stops \ {d} : stops[c] = run.stops[c]
    BY <2>1, <2>10
  <2>12. f = [sent |-> run.stops[d].sent, done |-> clock, confirmed |-> confirmed]
    BY DEF f
  <2>13. Kept(protocol, r2, clock)
    BY <1>1, <2>1, <2>2, <2>6, <2>11, <2>12, StopEndsKept
  <2> QED BY <1>3, <2>1, <2>13
<1> QED BY <1>4, <1>5

\* A step of the host, by which it keeps the discipline or slips.
LEMMA DisciplineGoesOn ==
  ASSUME RunAssumption, RecordInv, DisciplineInv, [RunNext]_runVars
  PROVE  DisciplineInv'
<1>1. slips \in Nat /\ (slips = 0 => Kept(protocol, run, clock))
  BY DEF DisciplineInv
<1>2. protocol' = protocol /\ (slips' = slips \/ slips' = slips + 1)
  <2>1. CASE Tick \/ UNCHANGED runVars
    BY <2>1 DEF Tick, runVars
  <2>2. CASE EnterLocked \/ EnterRunning
    BY <2>2 DEF EnterLocked, EnterRunning, Disciplined, Here
  <2>3. CASE \E xs \in (SUBSET Manifest.resource) \ {{}} : Acquire(xs) \/ Release(xs)
    BY <2>3 DEF Acquire, Release, Disciplined, Here
  <2>4. CASE \E i \in DOMAIN protocol :
               Dispatch(i) \/ \E q \in DOMAIN protocol[i].requires : Capture(i, q)
    BY <2>4 DEF Dispatch, Capture, Disciplined, Here
  <2>5. CASE \E status \in Statuses : Complete(status)
    BY <2>5 DEF Complete, Disciplined, Here
  <2>6. CASE \E d \in Devices : SafeStop(d) \/ SafeStopEnds(d)
    BY <2>6 DEF SafeStop, SafeStopEnds, Disciplined, Here
  <2>7. CASE \E outcome \in Terminal : Finish(outcome)
    BY <2>7 DEF Finish, Disciplined, Here
  <2> QED BY <2>1, <2>2, <2>3, <2>4, <2>5, <2>6, <2>7, Zenon DEF RunNext
<1>3. slips' \in Nat /\ (slips' = 0 => slips = 0)
  BY <1>1, <1>2
<1>4. ASSUME slips' = 0 PROVE Kept(protocol, run', clock')
  <2>1. Kept(protocol, run, clock)
    BY <1>1, <1>3, <1>4
  <2>2. CASE UNCHANGED runVars
    BY <2>1, <2>2 DEF runVars
  <2>3. CASE RunNext
    BY <1>1, <1>4, <2>1, <2>3, LocksGoOn, LifeOfHostGoesOn, CommandsGoOn, StopsGoOn, Zenon
    DEF RunNext
  <2> QED BY <2>2, <2>3
<1>5. slips' = 0 => Kept(protocol', run', clock')
  BY <1>2, <1>4
<1> QED BY <1>3, <1>5 DEF DisciplineInv

\* A host begins with discipline.
LEMMA DisciplineBegins == RunInit => DisciplineInv
<1> SUFFICES ASSUME RunInit PROVE DisciplineInv
  OBVIOUS
<1>1. run = Created /\ clock = 0 /\ slips = 0
  BY DEF RunInit
<1>2. /\ run.life = <<[state |-> "created", at |-> 0]>> /\ DOMAIN run.locks = {}
      /\ Len(run.commands) = 0 /\ DOMAIN run.stops = {}
      /\ run.evidence = <<>> /\ DOMAIN run.evidence = {}
  BY <1>1 DEF Created
<1>3. Len(run.life) = 1 /\ run.life[1].state = "created" /\ run.life[1].at = 0
  BY <1>2
<1>4. run.life \in Seq([state : DOMAIN AllowedNext \cup Terminal, at : Nat])
  <2>1. [state |-> "created", at |-> 0] \in [state : DOMAIN AllowedNext \cup Terminal, at : Nat]
    BY DEF AllowedNext
  <2> QED BY <1>2, <2>1
<1>5. Outcome(run) = "created" /\ ~WasLocked(run)
  BY <1>3 DEF Outcome, Last, WasLocked
<1>6. LifeKept(run, clock)
  BY <1>1, <1>3, <1>4, <1>5 DEF LifeKept, Terminal
<1>7. /\ LocksKept(protocol, run, clock) /\ SpansKept(protocol, run)
      /\ StopsKept(protocol, run, clock) /\ EvidenceKept(protocol, run, clock)
  BY <1>2, <1>5 DEF LocksKept, SpansKept, StopsKept, EvidenceKept
<1>8. CommandsKept(protocol, run, clock)
  <2>1. Len(protocol) \in Nat
    BY RunAssumption DEF RunInit, Sealed, RunAssumption
  <2> QED BY <1>2, <2>1 DEF CommandsKept
<1>9. EndKept(protocol, run, clock) /\ ShapeKept(run)
  BY <1>2, <1>5 DEF EndKept, ShapeKept, Terminal
<1> QED BY <1>1, <1>6, <1>7, <1>8, <1>9 DEF DisciplineInv, Kept

\* The record of a run that kept the discipline is admitted, however the run went.
THEOREM DisciplinedRunsAreAdmitted == RunSpec => []DisciplineIsAdmitted
<1>1. RecordInv /\ [RunNext]_runVars => RecordInv'
  BY RunAssumption, RecordGoesOn
<1>2. RecordInv /\ DisciplineInv /\ [RunNext]_runVars => DisciplineInv'
  BY RunAssumption, DisciplineGoesOn
<1>3. RecordInv /\ DisciplineInv => DisciplineIsAdmitted
  <2> SUFFICES ASSUME RecordInv, DisciplineInv, Over, slips = 0
               PROVE  Admitted(SealedRecord(run), protocol)
    BY DEF DisciplineIsAdmitted
  <2>1. Kept(protocol, run, clock) /\ Outcome(run) \in Terminal
    BY DEF DisciplineInv, Over
  <2>2. /\ Runnable(protocol) /\ run.commands \in Seq(CommandRecord)
        /\ \A i, j \in DOMAIN run.commands : i < j => run.commands[i].sent < run.commands[j].sent
    BY DEF RecordInv, TypedRecord
  <2>3. Admitted(run, protocol)
    BY RunAssumption, <2>1, <2>2, KeptIsAdmitted
  <2> QED BY <2>3, SealedIsSame
<1> QED BY <1>1, <1>2, <1>3, RecordBegins, DisciplineBegins, PTL DEF RunSpec

-----------------------------------------------------------------------------
(* The registry resolves what was qualified *)

\* What a registry holds was accepted, under its own name, and so is the plan in hand.
RegistryInv ==
  /\ \A id \in DOMAIN bundles :
       /\ bundles[id] \in Bundles /\ bundles[id].id = id
       /\ Registry!BundleRead(bundles[id]) /\ Registry!BundleAccepted(bundles[id])
  /\ \A key \in DOMAIN registered : registered[key] \in Objects
  /\ plan # Nothing => plan.safety \in Safeties /\ Registry!PlanAccepted(plan)

\* Where axes have one place each, limits that are within those of an envelope place by
\* place are within them axis by axis, and conversely.
LEMMA AllowsByPlace ==
  ASSUME NEW s, NEW e, PolicyTyped(s), PolicyTyped(e),
         Registry!SafetyAccepted(s), Registry!SafetyAccepted(e), s.axes = e.axes
  PROVE  (\A axis \in Registry!ToSet(e.axes) : Registry!Allows(s, axis) \subseteq Registry!Allows(e, axis))
         <=> (\A i \in DOMAIN s.limits \cap DOMAIN e.limits :
                e.limits[i].min <= s.limits[i].min /\ s.limits[i].max <= e.limits[i].max)
<1> DEFINE D == 1..Len(e.axes)
<1>1. /\ Len(e.axes) \in Nat /\ DOMAIN e.axes = D /\ DOMAIN s.axes = D
      /\ DOMAIN s.limits = D /\ DOMAIN e.limits = D
  BY DEF PolicyTyped, Registry!SafetyAccepted
<1>2. \A i \in D : /\ s.limits[i] \in [min : Int, max : Int] /\ e.limits[i] \in [min : Int, max : Int]
                   /\ s.limits[i].min <= s.limits[i].max
  <2>1. /\ s.limits \in Seq([min : Int, max : Int]) /\ e.limits \in Seq([min : Int, max : Int])
        /\ \A i \in DOMAIN s.limits : s.limits[i].min <= s.limits[i].max
    BY DEF PolicyTyped, Registry!SafetyAccepted
  <2>2. \A i \in D : s.limits[i] \in [min : Int, max : Int] /\ e.limits[i] \in [min : Int, max : Int]
    <3> DEFINE L == [min : Int, max : Int]
    <3>1. s.limits \in Seq(L) /\ e.limits \in Seq(L)
      BY <2>1
    <3> HIDE DEF L
    <3>2. \A i \in D : s.limits[i] \in L /\ e.limits[i] \in L
      BY <1>1, <3>1
    <3> QED BY <3>2 DEF L
  <2> QED BY <1>1, <2>1, <2>2
<1>3. \A i, j \in D : e.axes[i] = e.axes[j] => i = j
  BY <1>1 DEF Registry!SafetyAccepted, Registry!IsInjective
<1>4. ASSUME NEW p, p.axes = e.axes, NEW i \in D
      PROVE  Registry!Allows(p, e.axes[i]) = p.limits[i].min .. p.limits[i].max
  <2>1. { j \in DOMAIN p.axes : p.axes[j] = e.axes[i] } = {i}
    BY <1>1, <1>3, <1>4
  <2> QED BY <2>1 DEF Registry!Allows
<1>5. \A i \in D : /\ Registry!Allows(s, e.axes[i]) = s.limits[i].min .. s.limits[i].max
                   /\ Registry!Allows(e, e.axes[i]) = e.limits[i].min .. e.limits[i].max
  BY <1>4
<1>6. ASSUME NEW i \in D
      PROVE  Registry!Allows(s, e.axes[i]) \subseteq Registry!Allows(e, e.axes[i])
               <=> e.limits[i].min <= s.limits[i].min /\ s.limits[i].max <= e.limits[i].max
  <2>1. PICK a \in Int, b \in Int, c \in Int, d \in Int :
          a = s.limits[i].min /\ b = s.limits[i].max /\ c = e.limits[i].min /\ d = e.limits[i].max
    BY <1>2
  <2>2. a <= b
    BY <1>2, <2>1
  <2>3. a .. b \subseteq c .. d <=> c <= a /\ b <= d
    BY <2>2
  <2> QED BY <1>5, <2>1, <2>3
<1>7. Registry!ToSet(e.axes) = { e.axes[i] : i \in D }
  BY <1>1 DEF Registry!ToSet
<1> QED BY <1>1, <1>6, <1>7

\* The ages that a policy allows.
LEMMA AgesAllowed ==
  ASSUME NEW a \in Int, NEW b \in Int, a >= 1
  PROVE  1 .. a \subseteq 1 .. b <=> a <= b
OBVIOUS

\* The one model of a bundle.
LEMMA OneModel ==
  ASSUME NEW b, Registry!BundleAccepted(b)
  PROVE  /\ Registry!ModelArtifact(b) \in b.artifacts /\ Registry!ModelArtifact(b).kind = "model"
         /\ \A a \in b.artifacts : a.kind = "model" => a = Registry!ModelArtifact(b)
<1>1. PICK m \in b.artifacts : Registry!ModelArtifacts(b) = {m}
  BY DEF Registry!BundleAccepted
<1>2. Registry!ModelArtifact(b) = m
  BY <1>1 DEF Registry!ModelArtifact
<1>3. {m} = { a \in b.artifacts : a.kind = "model" }
  BY <1>1 DEF Registry!ModelArtifacts
<1> QED BY <1>2, <1>3

\* The adapters of a bundle are in place exactly when each of its keys leads to one that
\* still is what the key says, with the qualified model.
LEMMA AdaptersInPlace ==
  ASSUME RegistryAssumption, RegistryInv, NEW b \in Bundles, Registry!BundleAccepted(b)
  PROVE  Registry!AdaptersMatch(b) /\ Registry!ModelBound(b)
         <=> \A k \in Registry!Kind : \E o \in Objects :
               LET key == <<k, objects[o].id, objects[o].version>> IN
               /\ key = b.needs[k]
               /\ key \in attested.adapters
               /\ key \in DOMAIN registered /\ registered[key] = o
               /\ k \in objects[o].can
               /\ k = "model" => \E a \in b.artifacts : a.kind = "model" /\ a.digest = objects[o].artifact
<1> DEFINE Key(k) == b.needs[k]
           In(k) == \E o \in Objects :
               LET key == <<k, objects[o].id, objects[o].version>> IN
               /\ key = b.needs[k]
               /\ key \in attested.adapters
               /\ key \in DOMAIN registered /\ registered[key] = o
               /\ k \in objects[o].can
               /\ k = "model" => \E a \in b.artifacts : a.kind = "model" /\ a.digest = objects[o].artifact
<1>1. \A k \in Registry!Kind : Key(k) = <<k, Key(k)[2], Key(k)[3]>>
  BY DEF RegistryAssumption, Registry!BundleAccepted
<1>2. ASSUME Registry!AdaptersMatch(b), Registry!ModelBound(b), NEW k \in Registry!Kind PROVE In(k)
  <2>1. PICK o \in Objects : o = registered[Key(k)] /\ Key(k) \in DOMAIN registered
    BY <1>2 DEF Registry!AdaptersMatch, RegistryInv
  <2>2. /\ Key(k) \in attested.adapters /\ k \in objects[o].can
        /\ objects[o].id = Key(k)[2] /\ objects[o].version = Key(k)[3]
    BY <1>2, <2>1 DEF Registry!AdaptersMatch
  <2>3. <<k, objects[o].id, objects[o].version>> = Key(k)
    BY <1>1, <2>2
  <2>4. k = "model" => \E a \in b.artifacts : a.kind = "model" /\ a.digest = objects[o].artifact
    BY <1>2, <2>1, OneModel DEF Registry!ModelBound
  <2> QED BY <2>1, <2>2, <2>3, <2>4
<1>3. ASSUME \A k \in Registry!Kind : In(k)
      PROVE  Registry!AdaptersMatch(b) /\ Registry!ModelBound(b)
  <2>1. ASSUME NEW k \in Registry!Kind
        PROVE  /\ Key(k) \in attested.adapters /\ Key(k) \in DOMAIN registered
               /\ objects[registered[Key(k)]].id = Key(k)[2]
               /\ objects[registered[Key(k)]].version = Key(k)[3]
               /\ k \in objects[registered[Key(k)]].can
               /\ k = "model" => \E a \in b.artifacts : a.kind = "model" /\ a.digest = objects[registered[Key(k)]].artifact
    <3>0. In(k)
      BY <1>3, <2>1
    <3>1. PICK o \in Objects :
               /\ <<k, objects[o].id, objects[o].version>> = Key(k)
               /\ Key(k) \in attested.adapters
               /\ Key(k) \in DOMAIN registered /\ registered[Key(k)] = o
               /\ k \in objects[o].can
               /\ k = "model" => \E a \in b.artifacts : a.kind = "model" /\ a.digest = objects[o].artifact
      BY <3>0, Zenon
    <3>2. Key(k) = <<k, Key(k)[2], Key(k)[3]>>
      BY <1>1
    <3> HIDE DEF Key
    <3>3. objects[o].id = Key(k)[2] /\ objects[o].version = Key(k)[3]
      BY <3>1, <3>2
    <3> QED BY <3>1, <3>3
  <2>2. Registry!AdaptersMatch(b)
    BY <2>1 DEF Registry!AdaptersMatch
  <2>3. Registry!ModelBound(b)
    <3>1. "model" \in Registry!Kind
      BY DEF Registry!Kind
    <3> QED BY <2>1, <3>1, OneModel DEF Registry!ModelBound
  <2> QED BY <2>2, <2>3
<1> QED BY <1>2, <1>3

\* A plan resolves exactly when what it would run with is qualified now.
LEMMA ResolutionQualifies ==
  ASSUME RegistryAssumption, RegistryInv, plan # Nothing,
         NEW r, r.plan = plan, r.attested = attested, r.bundles = bundles,
         r.adapters = registered, r.objects = objects
  PROVE  Registry!Resolves <=> Registry!Qualified(r)
<1> DEFINE Holding(id, b) ==
      /\ plan.target = attested /\ plan.bundle = b
      /\ id \in DOMAIN bundles /\ bundles[id] = b
      /\ plan.terms = b.terms /\ plan.artifacts = b.artifacts
      /\ plan.safety.axes = b.axes
      /\ \A axis \in Registry!ToSet(b.axes) :
           Registry!Allows(plan.safety, axis) \subseteq Registry!Allows(b.envelope, axis)
      /\ 1 .. plan.safety.observationAge \subseteq 1 .. b.envelope.observationAge
      /\ 1 .. plan.safety.actionAge \subseteq 1 .. b.envelope.actionAge
      /\ \A k \in Registry!Kind : \E o \in Objects :
           LET key == <<k, objects[o].id, objects[o].version>> IN
           /\ key = b.needs[k]
           /\ key \in attested.adapters
           /\ key \in DOMAIN registered /\ registered[key] = o
           /\ k \in objects[o].can
           /\ k = "model" => \E a \in b.artifacts : a.kind = "model" /\ a.digest = objects[o].artifact
           Holds(id) == Holding(id, attested.qualified[id])
<1>0. Registry!Qualified(r) <=> \E id \in DOMAIN attested.qualified : Holds(id)
  BY DEF Registry!Qualified
<1>1. plan.safety \in Safeties /\ Registry!SafetyAccepted(plan.safety) /\ PolicyTyped(plan.safety)
  BY DEF RegistryInv, Registry!PlanAccepted, RegistryAssumption
<1>2. ASSUME NEW id \in DOMAIN bundles, NEW b, b = bundles[id]
      PROVE  /\ b \in Bundles /\ b.id = id /\ Registry!BundleAccepted(b)
             /\ b.envelope.axes = b.axes
             /\ Registry!SafetyAccepted(b.envelope) /\ PolicyTyped(b.envelope)
  BY <1>2 DEF RegistryInv, RegistryAssumption, Registry!BundleRead, Registry!BundleAccepted
<1>3. ASSUME NEW id \in DOMAIN bundles, NEW b, b = bundles[id]
      PROVE  Registry!LimitsWithin(plan.safety, b)
             <=> /\ plan.safety.axes = b.axes
                 /\ \A axis \in Registry!ToSet(b.axes) :
                      Registry!Allows(plan.safety, axis) \subseteq Registry!Allows(b.envelope, axis)
                 /\ 1 .. plan.safety.observationAge \subseteq 1 .. b.envelope.observationAge
                 /\ 1 .. plan.safety.actionAge \subseteq 1 .. b.envelope.actionAge
  <2>1. /\ 1 .. plan.safety.observationAge \subseteq 1 .. b.envelope.observationAge
             <=> plan.safety.observationAge <= b.envelope.observationAge
        /\ 1 .. plan.safety.actionAge \subseteq 1 .. b.envelope.actionAge
             <=> plan.safety.actionAge <= b.envelope.actionAge
    <3>1. /\ plan.safety.observationAge \in Int /\ plan.safety.observationAge >= 1
          /\ plan.safety.actionAge \in Int /\ plan.safety.actionAge >= 1
          /\ b.envelope.observationAge \in Int /\ b.envelope.actionAge \in Int
      BY <1>1, <1>2, <1>3 DEF PolicyTyped, Registry!SafetyAccepted
    <3> QED BY <3>1, AgesAllowed
  <2>2. plan.safety.axes = b.axes =>
          ((\A axis \in Registry!ToSet(b.axes) :
              Registry!Allows(plan.safety, axis) \subseteq Registry!Allows(b.envelope, axis))
           <=> (\A i \in DOMAIN plan.safety.limits \cap DOMAIN b.envelope.limits :
                  /\ b.envelope.limits[i].min <= plan.safety.limits[i].min
                  /\ plan.safety.limits[i].max <= b.envelope.limits[i].max))
    BY <1>1, <1>2, <1>3, AllowsByPlace
  <2> QED BY <2>1, <2>2 DEF Registry!LimitsWithin
<1>4. ASSUME NEW id, id \in DOMAIN bundles, id \in DOMAIN attested.qualified,
             plan.bundle = bundles[id], attested.qualified[id] = bundles[id]
      PROVE  Holds(id) <=>
               /\ plan.target = attested
               /\ plan.terms = bundles[id].terms
               /\ Registry!LimitsWithin(plan.safety, bundles[id])
               /\ plan.artifacts = bundles[id].artifacts
               /\ Registry!AdaptersMatch(bundles[id]) /\ Registry!ModelBound(bundles[id])
  <2>1. PICK b : b = bundles[id]
    OBVIOUS
  <2>2. /\ b \in Bundles /\ Registry!BundleAccepted(b) 
    BY <1>2, <1>4, <2>1
  <2>3. Registry!LimitsWithin(plan.safety, b)
             <=> /\ plan.safety.axes = b.axes
                 /\ \A axis \in Registry!ToSet(b.axes) :
                      Registry!Allows(plan.safety, axis) \subseteq Registry!Allows(b.envelope, axis)
                 /\ 1 .. plan.safety.observationAge \subseteq 1 .. b.envelope.observationAge
                 /\ 1 .. plan.safety.actionAge \subseteq 1 .. b.envelope.actionAge
    BY <1>3, <1>4, <2>1
  <2>4. Registry!AdaptersMatch(b) /\ Registry!ModelBound(b)
         <=> \A k \in Registry!Kind : \E o \in Objects :
               LET key == <<k, objects[o].id, objects[o].version>> IN
               /\ key = b.needs[k]
               /\ key \in attested.adapters
               /\ key \in DOMAIN registered /\ registered[key] = o
               /\ k \in objects[o].can
               /\ k = "model" => \E a \in b.artifacts : a.kind = "model" /\ a.digest = objects[o].artifact
    BY <2>2, AdaptersInPlace
  <2>5. Holding(id, b) <=>
               /\ plan.target = attested
               /\ plan.terms = b.terms
               /\ Registry!LimitsWithin(plan.safety, b)
               /\ plan.artifacts = b.artifacts
               /\ Registry!AdaptersMatch(b) /\ Registry!ModelBound(b)
    BY <1>4, <2>1, <2>3, <2>4, Zenon
  <2> HIDE DEF Holding
  <2>6. attested.qualified[id] = b
    BY <1>4, <2>1
  <2> QED BY <2>1, <2>5, <2>6, Zenon
<1>5. ASSUME Registry!Resolves PROVE \E id \in DOMAIN attested.qualified : Holds(id)
  <2> DEFINE id == plan.bundle.id
  <2>1. /\ id \in DOMAIN bundles /\ id \in DOMAIN attested.qualified
        /\ plan.bundle = bundles[id] /\ attested.qualified[id] = bundles[id]
        /\ plan.target = attested
    BY <1>5 DEF Registry!Resolves, Registry!BundleMatches, Registry!TargetMatches
  <2>2. /\ plan.terms = bundles[id].terms /\ Registry!LimitsWithin(plan.safety, bundles[id])
        /\ plan.artifacts = bundles[id].artifacts
        /\ Registry!AdaptersMatch(bundles[id]) /\ Registry!ModelBound(bundles[id])
    BY <1>5 DEF Registry!Resolves
  <2> HIDE DEF id, Holding
  <2>3. Holds(id)
    BY <1>4, <2>1, <2>2, Zenon
  <2> QED BY <2>1, <2>3
<1>6. ASSUME NEW id \in DOMAIN attested.qualified, Holds(id) PROVE Registry!Resolves
  <2>1. /\ id \in DOMAIN bundles /\ plan.bundle = bundles[id] /\ attested.qualified[id] = bundles[id]
    BY <1>6
  <2>2. plan.bundle.id = id
    BY <1>2, <2>1
  <2> HIDE DEF Holding
  <2>3. /\ plan.target = attested
        /\ plan.terms = bundles[id].terms
        /\ Registry!LimitsWithin(plan.safety, bundles[id])
        /\ plan.artifacts = bundles[id].artifacts
        /\ Registry!AdaptersMatch(bundles[id]) /\ Registry!ModelBound(bundles[id])
    BY <1>4, <1>6, <2>1, Zenon
  <2> QED BY <2>1, <2>2, <2>3 DEF Registry!Resolves, Registry!BundleMatches, Registry!TargetMatches
<1> HIDE DEF Holding
<1> QED BY <1>0, <1>5, <1>6

\* Nothing is registered at first, and nothing resolved.
LEMMA RegistryBegins == Registry!Init => RegistryInv /\ Registry!ResolvedIsQualified
BY DEF Registry!Init, RegistryInv, Registry!ResolvedIsQualified

\* A registration adds what it was given, and a resolution judges what is there.
LEMMA RegistryGoesOn ==
  ASSUME RegistryAssumption, RegistryInv, Registry!ResolvedIsQualified, [Registry!Next]_registryVars
  PROVE  RegistryInv' /\ Registry!ResolvedIsQualified'
<1>1. ASSUME NEW o \in Objects, NEW kind \in Registry!Kind, Registry!Register(kind, o)
      PROVE  RegistryInv' /\ resolved' = resolved
  <2>1. PICK key : registered' = [k \in DOMAIN registered \cup {key} |-> IF k = key THEN o ELSE registered[k]]
    BY <1>1 DEF Registry!Register, Registry!With
  <2>2. bundles' = bundles /\ plan' = plan /\ resolved' = resolved
    BY <1>1 DEF Registry!Register
  <2>3. \A k \in DOMAIN registered' : registered'[k] \in Objects
    BY <2>1 DEF RegistryInv
  <2> QED BY <2>2, <2>3 DEF RegistryInv, Registry!BundleRead, Registry!BundleAccepted, Registry!PlanAccepted
<1>2. ASSUME NEW b \in Bundles, Registry!RegisterBundle(b)
      PROVE  RegistryInv' /\ resolved' = resolved
  <2>1. /\ bundles' = [k \in DOMAIN bundles \cup {b.id} |-> IF k = b.id THEN b ELSE bundles[k]]
        /\ Registry!BundleRead(b) /\ Registry!BundleAccepted(b)
        /\ registered' = registered /\ plan' = plan /\ resolved' = resolved
    BY <1>2 DEF Registry!RegisterBundle, Registry!With
  <2>2. ASSUME NEW id \in DOMAIN bundles'
        PROVE  /\ bundles'[id] \in Bundles /\ bundles'[id].id = id
               /\ Registry!BundleRead(bundles'[id]) /\ Registry!BundleAccepted(bundles'[id])
    <3>1. CASE id = b.id
      BY <2>1, <2>2, <3>1
    <3>2. CASE id # b.id
      <4>1. id \in DOMAIN bundles /\ bundles'[id] = bundles[id]
        BY <2>1, <2>2, <3>2
      <4> QED BY <4>1 DEF RegistryInv
    <3> QED BY <3>1, <3>2
  <2> QED BY <2>1, <2>2 DEF RegistryInv
<1>3. ASSUME NEW o \in Objects, Registry!Change(o)
      PROVE  RegistryInv' /\ resolved' = resolved
  BY <1>3 DEF Registry!Change, RegistryInv
<1>4. CASE Registry!Attest
  BY <1>4 DEF Registry!Attest, RegistryInv, Registry!ResolvedIsQualified
<1>5. CASE Registry!Seal
  BY <1>5 DEF Registry!Seal, RegistryInv, Registry!ResolvedIsQualified
<1>6. CASE Registry!Resolve
  <2>1. /\ objects' = objects /\ registered' = registered /\ bundles' = bundles
        /\ attested' = attested /\ plan' = plan /\ plan # Nothing
        /\ resolved' = [ verdict |-> Registry!Resolves, plan |-> plan, attested |-> attested,
                         bundles |-> bundles, adapters |-> registered, objects |-> objects ]
    BY <1>6 DEF Registry!Resolve
  <2>2. RegistryInv'
    BY <2>1 DEF RegistryInv
  <2>3. resolved'.verdict <=> Registry!Qualified(resolved')
    <3>1. Registry!Resolves <=> Registry!Qualified(resolved')
      BY <2>1, ResolutionQualifies
    <3>2. resolved'.verdict <=> Registry!Resolves
      BY <2>1, Zenon
    <3> QED BY <3>1, <3>2
  <2> QED BY <2>2, <2>3 DEF Registry!ResolvedIsQualified
<1>7. CASE UNCHANGED registryVars
  BY <1>7 DEF registryVars, RegistryInv, Registry!ResolvedIsQualified
<1> QED BY <1>1, <1>2, <1>3, <1>4, <1>5, <1>6, <1>7 DEF Registry!Next, Registry!ResolvedIsQualified

\* A plan becomes a runtime exactly when all it would run with is qualified at that moment.
THEOREM ResolvesTheQualified == Registry!Spec => []ResolvedIsQualified
<1>1. RegistryInv /\ Registry!ResolvedIsQualified /\ [Registry!Next]_registryVars
        => RegistryInv' /\ Registry!ResolvedIsQualified'
  BY RegistryAssumption, RegistryGoesOn
<1> QED BY <1>1, RegistryBegins, PTL DEF Registry!Spec, Registry!vars, registryVars, ResolvedIsQualified

-----------------------------------------------------------------------------
(* Routing selects the first usable implementation, and shows what was evaluated *)

\* What the host observed of a requirement is true of the state it was observed in.
Observed(notes) ==
  \A q \in DOMAIN notes :
    /\ notes[q].status \in {"unknown", "met", "violated"}
    /\ notes[q].status = "met" => q \in notes[q].state
    /\ notes[q].status = "violated" => q \notin notes[q].state

\* One evaluation, of a request that was written for the question on some catalog.
Evaluated(x) ==
  /\ x.catalog \in Routing!Published
  /\ x.decision = Routing!Route(x.catalog, x.request)
  /\ Routing!DecisionAccepted(x.decision)
  /\ Routing!RequestAccepted(x.request)
  /\ Routing!QuestionAccepted(x.question)
  /\ x.request.skill = x.question.skill /\ x.request.args = x.question.args
  /\ x.request.workcell = Catalogs[x.request.catalog].workcell
  /\ x.request.skill \in DOMAIN Catalogs[x.request.catalog].skills
  /\ x.request.definition = Catalogs[x.request.catalog].skills[x.request.skill]
  /\ Observed(x.request.seen) /\ x.request.now \in Nat
  /\ x.request.policy.order \in Seq(Range(x.request.policy.order))
  /\ \A q \in DOMAIN x.request.seen : x.request.seen[q].at \in Nat \cup {Nothing}

RoutingInv ==
  /\ catalog \in Routing!Published /\ host \in Projections /\ time \in Nat
  /\ Observed(assessed) /\ \A q \in DOMAIN assessed : assessed[q].at \in Nat \cup {Nothing}
  /\ asked # Nothing => Routing!QuestionAccepted(asked)
  /\ \E S : receipts \in Seq(S)
  /\ \A n \in DOMAIN receipts : Evaluated(receipts[n])

\* The arguments are those of the skill, each of its type and within its bounds.
LEMMA ArgumentsRejected ==
  ASSUME NEW fields, NEW args, Routing!ArgumentsAccepted(args),
         \A n \in DOMAIN fields : fields[n].type \in Numeric => {fields[n].min, fields[n].max} \subseteq Int
  PROVE  Routing!ArgumentRejections(fields, args) = {}
         <=> /\ DOMAIN args = DOMAIN fields
             /\ \A n \in DOMAIN args :
                  /\ args[n].type = fields[n].type
                  /\ fields[n].type \in Numeric =>
                       fields[n].min <= args[n].value /\ args[n].value <= fields[n].max
<1> DEFINE both  == DOMAIN fields \cap DOMAIN args
           typed == { n \in both : args[n].type = fields[n].type }
           far   == \E n \in typed : /\ fields[n].type \in Numeric
                                     /\ args[n].value \notin fields[n].min .. fields[n].max
<1>1. Routing!ArgumentRejections(fields, args) = {}
        <=> DOMAIN fields = both /\ DOMAIN args = both /\ both = typed /\ ~far
  <2> DEFINE Wrong(code) ==
          CASE code = "missing_argument" -> DOMAIN fields # both
            [] code = "unknown_argument" -> DOMAIN args # both
            [] code = "argument_type_mismatch" -> both # typed
            [] code = "argument_out_of_bounds" -> far
             Codes == {"missing_argument", "unknown_argument", "argument_type_mismatch",
                       "argument_out_of_bounds"}
  <2>1. Routing!ArgumentRejections(fields, args) = { code \in Codes : Wrong(code) }
    BY Zenon DEF Routing!ArgumentRejections, Routing!Numeric, Numeric
  <2>2. /\ Wrong("missing_argument") <=> DOMAIN fields # both
        /\ Wrong("unknown_argument") <=> DOMAIN args # both
        /\ Wrong("argument_type_mismatch") <=> both # typed
        /\ Wrong("argument_out_of_bounds") <=> far
    <3> HIDE DEF both, typed, far
    <3> QED OBVIOUS
  <2> HIDE DEF Wrong, both, typed, far
  <2> QED BY <2>1, <2>2
<1>2. ASSUME NEW n \in typed, fields[n].type \in Numeric
      PROVE  args[n].value \in fields[n].min .. fields[n].max
               <=> fields[n].min <= args[n].value /\ args[n].value <= fields[n].max
  <2>1. args[n].type = fields[n].type /\ Routing!ArgumentAccepted(args[n])
    BY DEF Routing!ArgumentsAccepted
  <2>2. args[n].value \in Int
    BY <1>2, <2>1 DEF Routing!ArgumentAccepted, Routing!ScalarAccepted, Routing!Numeric, Numeric
  <2>3. fields[n].min \in Int /\ fields[n].max \in Int
    BY <1>2
  <2> QED BY <2>2, <2>3
<1>3. ~far <=> \A n \in typed : fields[n].type \in Numeric =>
                 fields[n].min <= args[n].value /\ args[n].value <= fields[n].max
  BY <1>2
<1> HIDE DEF far
<1> QED BY <1>1, <1>3

\* A union is empty when all its members are.
LEMMA NothingUnited == \A S : UNION S = {} <=> \A x \in S : x = {}
OBVIOUS

\* What a request has observed of each requirement, so that nothing speaks against it.
LEMMA PreconditionsJudged ==
  ASSUME NEW needs, NEW r
  PROVE  Routing!PreconditionRejections(needs, r) = {}
         <=> \A q \in DOMAIN needs :
               /\ q \in DOMAIN r.seen
               /\ r.seen[q].requirement = needs[q].digest
               /\ r.seen[q].invocation = r.invocation /\ r.seen[q].state = r.state
               /\ r.seen[q].status # "unknown" /\ r.seen[q].status # "violated"
               /\ ~(r.seen[q].at > r.now) /\ ~(r.now - r.seen[q].at > needs[q].age)
<1> DEFINE of(q, code, holds) == IF holds THEN { <<"precondition", code>> } ELSE {}
           all(q) == { of(q, "requirement_mismatch", r.seen[q].requirement # needs[q].digest),
                of(q, "invocation_mismatch", r.seen[q].invocation # r.invocation),
                of(q, "state_mismatch", r.seen[q].state # r.state),
                of(q, "unknown", r.seen[q].status = "unknown"),
                of(q, "violated", r.seen[q].status = "violated"),
                of(q, "from_future", r.seen[q].status # "unknown" /\ r.seen[q].at > r.now),
                of(q, "stale", r.seen[q].status # "unknown" /\ r.now - r.seen[q].at > needs[q].age) }
           judged(q) == UNION all(q)
           found(q) == IF q \in DOMAIN r.seen THEN judged(q) ELSE of(q, "missing", TRUE)
<1>1. Routing!PreconditionRejections(needs, r) = UNION { found(q) : q \in DOMAIN needs }
  BY Zenon DEF Routing!PreconditionRejections
<1>2. \A q, code : of(q, code, TRUE) # {} /\ of(q, code, FALSE) = {}
  OBVIOUS
<1>3. ASSUME NEW q
      PROVE  judged(q) = {} <=>
               /\ r.seen[q].requirement = needs[q].digest
               /\ r.seen[q].invocation = r.invocation /\ r.seen[q].state = r.state
               /\ r.seen[q].status # "unknown" /\ r.seen[q].status # "violated"
               /\ ~(r.seen[q].status # "unknown" /\ r.seen[q].at > r.now)
               /\ ~(r.seen[q].status # "unknown" /\ r.now - r.seen[q].at > needs[q].age)
  <2>1. judged(q) = {} <=> \A x \in all(q) : x = {}
    <3> HIDE DEF all
    <3> QED BY NothingUnited
  <2>2. (\A x \in all(q) : x = {}) <=>
          /\ of(q, "requirement_mismatch", r.seen[q].requirement # needs[q].digest) = {}
          /\ of(q, "invocation_mismatch", r.seen[q].invocation # r.invocation) = {}
          /\ of(q, "state_mismatch", r.seen[q].state # r.state) = {}
          /\ of(q, "unknown", r.seen[q].status = "unknown") = {}
          /\ of(q, "violated", r.seen[q].status = "violated") = {}
          /\ of(q, "from_future", r.seen[q].status # "unknown" /\ r.seen[q].at > r.now) = {}
          /\ of(q, "stale", r.seen[q].status # "unknown" /\ r.now - r.seen[q].at > needs[q].age) = {}
    <3> HIDE DEF of
    <3> QED BY Zenon
  <2>3. /\ of(q, "requirement_mismatch", r.seen[q].requirement # needs[q].digest) = {}
             <=> r.seen[q].requirement = needs[q].digest
        /\ of(q, "invocation_mismatch", r.seen[q].invocation # r.invocation) = {}
             <=> r.seen[q].invocation = r.invocation
        /\ of(q, "state_mismatch", r.seen[q].state # r.state) = {} <=> r.seen[q].state = r.state
        /\ of(q, "unknown", r.seen[q].status = "unknown") = {} <=> r.seen[q].status # "unknown"
        /\ of(q, "violated", r.seen[q].status = "violated") = {} <=> r.seen[q].status # "violated"
        /\ of(q, "from_future", r.seen[q].status # "unknown" /\ r.seen[q].at > r.now) = {}
             <=> ~(r.seen[q].status # "unknown" /\ r.seen[q].at > r.now)
        /\ of(q, "stale", r.seen[q].status # "unknown" /\ r.now - r.seen[q].at > needs[q].age) = {}
             <=> ~(r.seen[q].status # "unknown" /\ r.now - r.seen[q].at > needs[q].age)
    <3>1. of(q, "requirement_mismatch", r.seen[q].requirement # needs[q].digest) = {}
            <=> r.seen[q].requirement = needs[q].digest
      OBVIOUS
    <3>2. of(q, "invocation_mismatch", r.seen[q].invocation # r.invocation) = {}
            <=> r.seen[q].invocation = r.invocation
      OBVIOUS
    <3>3. of(q, "state_mismatch", r.seen[q].state # r.state) = {}
            <=> r.seen[q].state = r.state
      OBVIOUS
    <3>4. of(q, "unknown", r.seen[q].status = "unknown") = {}
            <=> r.seen[q].status # "unknown"
      OBVIOUS
    <3>5. of(q, "violated", r.seen[q].status = "violated") = {}
            <=> r.seen[q].status # "violated"
      OBVIOUS
    <3>6. of(q, "from_future", r.seen[q].status # "unknown" /\ r.seen[q].at > r.now) = {}
            <=> ~(r.seen[q].status # "unknown" /\ r.seen[q].at > r.now)
      OBVIOUS
    <3>7. of(q, "stale", r.seen[q].status # "unknown" /\ r.now - r.seen[q].at > needs[q].age) = {}
            <=> ~(r.seen[q].status # "unknown" /\ r.now - r.seen[q].at > needs[q].age)
      OBVIOUS
    <3> HIDE DEF of
    <3> QED BY <3>1, <3>2, <3>3, <3>4, <3>5, <3>6, <3>7, Zenon
  <2> HIDE DEF judged, all, of
  <2> QED BY <2>1, <2>2, <2>3, Zenon
<1>4. \A q : found(q) = {} <=> q \in DOMAIN r.seen /\ judged(q) = {}
  <2> HIDE DEF judged
  <2> QED BY <1>2
<1>5. UNION { found(q) : q \in DOMAIN needs } = {} <=> \A q \in DOMAIN needs : found(q) = {}
  <2> HIDE DEF found
  <2> QED OBVIOUS
<1> HIDE DEF judged, found, of
<1> QED BY <1>1, <1>3, <1>4, <1>5, Zenon

\* What an implementation is bound to is there, under the same digest.
LEMMA BindingsJudged ==
  \A kind, required, available :
    Routing!BindingRejections(kind, required, available) = {}
    <=> \A b \in DOMAIN required : b \in DOMAIN available /\ available[b] = required[b]
BY DEF Routing!BindingRejections

\* A target is one of those that are there.
LEMMA TargetJudged ==
  \A target, targets : Routing!TargetRejections(target, targets) = {} <=> target \in targets
<1> TAKE target, targets
<1> DEFINE Near == \E t \in targets : t.kind = target.kind
<1>1. Routing!TargetRejections(target, targets) =
        IF target \in targets THEN {}
        ELSE IF Near THEN { <<"execution_target", "mismatch">> }
                     ELSE { <<"execution_target", "unavailable">> }
  BY Zenon DEF Routing!TargetRejections
<1> HIDE DEF Near
<1> QED BY <1>1

\* An implementation is released, for this workcell, and well enough qualified.
LEMMA StandingJudged ==
  ASSUME NEW m, NEW r
  PROVE  { code \in { <<"implementation", "blocked">>, <<"manifest", "mismatch">>,
                      <<"qualification", "status_not_allowed">> } :
             CASE code[1] = "implementation" -> m.status = "blocked"
               [] code[1] = "manifest"       -> m.manifest # r.manifest
               [] code[1] = "qualification"  -> m.qualification \notin r.policy.allowed } = {}
         <=> /\ m.status # "blocked"
             /\ m.manifest = r.manifest
             /\ m.qualification \in r.policy.allowed
<1> DEFINE Wrong(code) == CASE code[1] = "implementation" -> m.status = "blocked"
                            [] code[1] = "manifest"       -> m.manifest # r.manifest
                            [] code[1] = "qualification"  -> m.qualification \notin r.policy.allowed
           Codes == { <<"implementation", "blocked">>, <<"manifest", "mismatch">>,
                      <<"qualification", "status_not_allowed">> }
<1>1. Wrong(<<"implementation", "blocked">>) <=> m.status = "blocked"
  OBVIOUS
<1>2. Wrong(<<"manifest", "mismatch">>) <=> m.manifest # r.manifest
  OBVIOUS
<1>3. Wrong(<<"qualification", "status_not_allowed">>) <=> m.qualification \notin r.policy.allowed
  OBVIOUS
<1>4. { code \in Codes : Wrong(code) } = {} <=> \A code \in Codes : ~Wrong(code)
  <2> HIDE DEF Wrong, Codes
  <2> QED OBVIOUS
<1>5. (\A code \in Codes : ~Wrong(code))
      <=> /\ ~Wrong(<<"implementation", "blocked">>) /\ ~Wrong(<<"manifest", "mismatch">>)
          /\ ~Wrong(<<"qualification", "status_not_allowed">>)
  <2> HIDE DEF Wrong
  <2> QED BY Zenon
<1>6. { code \in Codes : Wrong(code) } = {}
      <=> /\ m.status # "blocked" /\ m.manifest = r.manifest
          /\ m.qualification \in r.policy.allowed
  <2> HIDE DEF Wrong, Codes
  <2> QED BY <1>1, <1>2, <1>3, <1>4, <1>5
<1> QED BY <1>6, Zenon

\* The requirements of a candidate are those of its skill and its own; where a name is
\* in both, the catalog has seen to it that they agree.
LEMMA NeedsAgree ==
  \A c : Routing!CatalogAccepted(c) =>
    \A i \in DOMAIN c.impls :
      Routing!Needs(c, i) =
           [q \in DOMAIN c.impls[i].needs \cup DOMAIN c.skills[c.impls[i].skill].needs |->
              IF q \in DOMAIN c.impls[i].needs THEN c.impls[i].needs[q]
              ELSE c.skills[c.impls[i].skill].needs[q]]
<1> TAKE c
<1> HAVE Routing!CatalogAccepted(c)
<1> TAKE i \in DOMAIN c.impls
<1> DEFINE common == c.skills[c.impls[i].skill].needs
           own    == c.impls[i].needs
<1>1. Routing!Needs(c, i) = [q \in DOMAIN common \cup DOMAIN own |->
                               IF q \in DOMAIN common THEN common[q] ELSE own[q]]
  BY Zenon DEF Routing!Needs
<1>2. \A q \in DOMAIN common \cap DOMAIN own : common[q] = own[q]
  <2>1. \A j \in { j \in DOMAIN c.impls : c.impls[j].skill = c.impls[i].skill } :
          \A q \in DOMAIN c.impls[i].needs :
            q \in DOMAIN c.impls[i].definition.needs =>
              c.impls[i].definition.needs[q] = c.impls[i].needs[q]
    BY Zenon DEF Routing!CatalogAccepted
  <2>2. c.impls[i].definition = c.skills[c.impls[i].skill]
    BY Zenon DEF Routing!CatalogAccepted
  <2>3. i \in { j \in DOMAIN c.impls : c.impls[j].skill = c.impls[i].skill }
    OBVIOUS
  <2> QED BY ONLY <2>1, <2>2, <2>3, Zenon
<1> HIDE DEF common, own
<1>3. Routing!Needs(c, i) =
        [q \in DOMAIN own \cup DOMAIN common |-> IF q \in DOMAIN own THEN own[q] ELSE common[q]]
  BY <1>1, <1>2
<1> QED BY <1>3 DEF common, own

\* Ages are numbers, in the skills and in the implementations of every catalog.
LEMMA AgesOfNeeds ==
  ASSUME NEW digest \in DOMAIN Catalogs, Routing!CatalogAccepted(Catalogs[digest]),
         NEW i \in DOMAIN Catalogs[digest].impls
  PROVE  \A q \in DOMAIN Routing!Needs(Catalogs[digest], i) :
           Routing!Needs(Catalogs[digest], i)[q].age \in Int
<1> DEFINE c == Catalogs[digest]
<1>1. c.impls[i].skill \in DOMAIN c.skills
  BY Zenon DEF Routing!CatalogAccepted
<1>2. \A q \in DOMAIN c.impls[i].needs : c.impls[i].needs[q].age \in Int
  BY RoutingAssumption
<1>3. \A q \in DOMAIN c.skills[c.impls[i].skill].needs :
        c.skills[c.impls[i].skill].needs[q].age \in Int
  BY <1>1, RoutingAssumption
<1> HIDE DEF c
<1>4. Routing!CatalogAccepted(c) /\ i \in DOMAIN c.impls
  BY DEF c
<1>5. \A q \in DOMAIN Routing!Needs(c, i) : Routing!Needs(c, i)[q].age \in Int
  <2> DEFINE own == c.impls[i].needs
             common == c.skills[c.impls[i].skill].needs
             needs == Routing!Needs(c, i)
  <2>1. needs = [q \in DOMAIN own \cup DOMAIN common |->
                   IF q \in DOMAIN own THEN own[q] ELSE common[q]]
    <3>1. Routing!Needs(c, i) =
      [q \in DOMAIN c.impls[i].needs \cup DOMAIN c.skills[c.impls[i].skill].needs |->
              IF q \in DOMAIN c.impls[i].needs THEN c.impls[i].needs[q]
              ELSE c.skills[c.impls[i].skill].needs[q]]
      BY <1>4, NeedsAgree
    <3> QED BY <3>1, Zenon
  <2>2. /\ \A q \in DOMAIN own : own[q].age \in Int
        /\ \A q \in DOMAIN common : common[q].age \in Int
    BY <1>2, <1>3
  <2> HIDE DEF own, common, needs
  <2>3. \A q \in DOMAIN needs : needs[q].age \in Int
    BY <2>1, <2>2
  <2> QED BY <2>3 DEF needs
<1> QED BY <1>5 DEF c

\* A requirement against which nothing speaks is one that was seen to hold, in this
\* state, lately and for this invocation.
LEMMA NeedJudged ==
  ASSUME NEW r, NEW q, NEW need, need.age \in Int, r.now \in Nat, Observed(r.seen),
         Routing!AssessmentsAccepted(r.seen),
         \A n \in DOMAIN r.seen : r.seen[n].at \in Nat \cup {Nothing}
  PROVE  (/\ q \in DOMAIN r.seen
          /\ r.seen[q].requirement = need.digest
          /\ r.seen[q].invocation = r.invocation /\ r.seen[q].state = r.state
          /\ r.seen[q].status # "unknown" /\ r.seen[q].status # "violated"
          /\ ~(r.seen[q].at > r.now) /\ ~(r.now - r.seen[q].at > need.age))
         <=> (/\ q \in r.state
              /\ q \in DOMAIN r.seen
              /\ r.seen[q].requirement = need.digest
              /\ r.seen[q].invocation = r.invocation
              /\ r.seen[q].state = r.state
              /\ r.seen[q].at # Nothing
              /\ r.seen[q].at <= r.now /\ r.now <= r.seen[q].at + need.age)
<1>1. CASE q \notin DOMAIN r.seen
  BY <1>1
<1>2. CASE q \in DOMAIN r.seen
  <2>1. /\ r.seen[q].status \in {"unknown", "met", "violated"}
        /\ r.seen[q].status = "met" => q \in r.seen[q].state
        /\ r.seen[q].status = "violated" => q \notin r.seen[q].state
    BY <1>2 DEF Observed
  <2>2. r.seen[q].at = Nothing <=> r.seen[q].status = "unknown"
    BY <1>2 DEF Routing!AssessmentsAccepted, Routing!AssessmentAccepted
  <2>3. r.seen[q].at \in Nat \cup {Nothing}
    BY <1>2
  <2>4. CASE r.seen[q].status = "unknown"
    BY <2>2, <2>4
  <2>5. CASE r.seen[q].status = "violated"
    BY <2>1, <2>5
  <2>6. CASE r.seen[q].status = "met"
    <3>1. r.seen[q].at # Nothing /\ r.seen[q].at \in Nat
      BY <2>2, <2>3, <2>6
    <3>2. /\ ~(r.seen[q].at > r.now) <=> r.seen[q].at <= r.now
          /\ ~(r.now - r.seen[q].at > need.age) <=> r.now <= r.seen[q].at + need.age
      BY <3>1
    <3> QED BY <1>2, <2>1, <2>6, <3>1, <3>2
  <2> QED BY <2>1, <2>4, <2>5, <2>6
<1> QED BY <1>1, <1>2

\* An implementation is rejected for no reason exactly when it can be used.
LEMMA CandidateJudged ==
  ASSUME NEW digest \in Routing!Published, NEW r, NEW i \in DOMAIN Catalogs[digest].impls,
         Observed(r.seen), Routing!AssessmentsAccepted(r.seen), r.now \in Nat,
         \A q \in DOMAIN r.seen : r.seen[q].at \in Nat \cup {Nothing}
  PROVE  Routing!Rejections(Catalogs[digest], r, i) = {} <=> Routing!Usable(Catalogs[digest], r, i)
<1> DEFINE c == Catalogs[digest]
<1>1. Routing!CatalogAccepted(c) /\ digest \in DOMAIN Catalogs /\ i \in DOMAIN c.impls
  BY DEF Routing!Published
<1>0. Routing!Needs(c, i) =
        [q \in DOMAIN c.impls[i].needs \cup DOMAIN c.skills[c.impls[i].skill].needs |->
                IF q \in DOMAIN c.impls[i].needs THEN c.impls[i].needs[q]
                ELSE c.skills[c.impls[i].skill].needs[q]]
  <2> HIDE DEF c
  <2> QED BY <1>1, NeedsAgree
<1> DEFINE m == c.impls[i]
           needs == Routing!Needs(c, i)
           bind(kind) == Routing!BindingRejections(kind, m.binds[kind], r.bound[kind])
           B == UNION { bind(kind) : kind \in DOMAIN m.binds }
           T == Routing!TargetRejections(m.target, r.targets)
           P == Routing!PreconditionRejections(needs, r)
           S == { code \in { <<"implementation", "blocked">>, <<"manifest", "mismatch">>,
                             <<"qualification", "status_not_allowed">> } :
                    CASE code[1] = "implementation" -> m.status = "blocked"
                      [] code[1] = "manifest"       -> m.manifest # r.manifest
                      [] code[1] = "qualification"  -> m.qualification \notin r.policy.allowed }
           bound == \A kind \in DOMAIN m.binds : \A b \in DOMAIN m.binds[kind] :
                      b \in DOMAIN r.bound[kind] /\ r.bound[kind][b] = m.binds[kind][b]
           Judged(q, need) ==
              /\ q \in DOMAIN r.seen
              /\ r.seen[q].requirement = need.digest
              /\ r.seen[q].invocation = r.invocation /\ r.seen[q].state = r.state
              /\ r.seen[q].status # "unknown" /\ r.seen[q].status # "violated"
              /\ ~(r.seen[q].at > r.now) /\ ~(r.now - r.seen[q].at > need.age)
           Holds(q, need) ==
              /\ q \in r.state
              /\ q \in DOMAIN r.seen
              /\ r.seen[q].requirement = need.digest
              /\ r.seen[q].invocation = r.invocation
              /\ r.seen[q].state = r.state
              /\ r.seen[q].at # Nothing
              /\ r.seen[q].at <= r.now /\ r.now <= r.seen[q].at + need.age
           need(q) == IF q \in DOMAIN m.needs THEN m.needs[q] ELSE c.skills[m.skill].needs[q]
<1>2. m.status \in {"available", "blocked"}
  BY <1>1, Zenon DEF Routing!CatalogAccepted, Routing!ImplementationAccepted
<1>3. Routing!Rejections(c, r, i) = B \cup T \cup P \cup S
  BY Zenon DEF Routing!Rejections
<1>4. B = {} <=> bound
  <2>1. B = {} <=> \A kind \in DOMAIN m.binds : bind(kind) = {}
    <3> HIDE DEF bind, m
    <3> QED OBVIOUS
  <2>2. \A kind \in DOMAIN m.binds :
          bind(kind) = {} <=> \A b \in DOMAIN m.binds[kind] :
            b \in DOMAIN r.bound[kind] /\ r.bound[kind][b] = m.binds[kind][b]
    <3> TAKE kind \in DOMAIN m.binds
    <3> DEFINE required == m.binds[kind]
               available == r.bound[kind]
    <3>1. Routing!BindingRejections(kind, required, available) = {}
            <=> \A b \in DOMAIN required : b \in DOMAIN available /\ available[b] = required[b]
      <4> HIDE DEF required, available
      <4> QED BY BindingsJudged
    <3> QED BY <3>1, Zenon
  <2> HIDE DEF B, bind
  <2> QED BY <2>1, <2>2, Zenon
<1>5. T = {} <=> m.target \in r.targets
  BY TargetJudged, Zenon
<1>6. S = {} <=> /\ m.status # "blocked" /\ m.manifest = r.manifest
                 /\ m.qualification \in r.policy.allowed
  BY StandingJudged, Zenon
<1>7. P = {} <=> \A q \in DOMAIN needs : Judged(q, needs[q])
  BY PreconditionsJudged, Zenon
<1>8. \A q \in DOMAIN needs : needs[q].age \in Int
  BY <1>1, AgesOfNeeds
<1>9. \A q \in DOMAIN needs : Judged(q, needs[q]) <=> Holds(q, needs[q])
  <2>1. TAKE q \in DOMAIN needs
  <2>2. needs[q].age \in Int
    BY <1>8
  <2> HIDE DEF needs
  <2> QED BY <2>2, NeedJudged, Zenon
<1>10. needs = [q \in DOMAIN m.needs \cup DOMAIN c.skills[m.skill].needs |-> need(q)]
  BY <1>0, Zenon
<1>11. Routing!Usable(c, r, i) <=>
         /\ m.status = "available" /\ m.manifest = r.manifest
         /\ m.qualification \in r.policy.allowed
         /\ m.target \in r.targets
         /\ bound
         /\ \A q \in DOMAIN m.needs \cup DOMAIN c.skills[m.skill].needs : Holds(q, need(q))
  BY Zenon DEF Routing!Usable
<1> HIDE DEF B, T, P, S, bound, Judged, Holds, need, needs, m
<1>12. B \cup T \cup P \cup S = {} <=> B = {} /\ T = {} /\ P = {} /\ S = {}
  OBVIOUS
<1>13. (\A q \in DOMAIN needs : Judged(q, needs[q]))
       <=> \A q \in DOMAIN m.needs \cup DOMAIN c.skills[m.skill].needs : Holds(q, need(q))
  BY <1>9, <1>10
<1>14. Routing!Rejections(c, r, i) = {} <=> Routing!Usable(c, r, i)
  BY <1>2, <1>3, <1>4, <1>5, <1>6, <1>7, <1>11, <1>12, <1>13
<1> QED BY <1>14

\* A request that was written for some catalog is rejected for no reason exactly when it
\* was written for the catalog of the host and is well posed there.
LEMMA RequestJudged ==
  ASSUME NEW digest \in DOMAIN Catalogs, NEW r, Routing!ArgumentsAccepted(r.args),
         r.workcell = Catalogs[r.catalog].workcell,
         r.skill \in DOMAIN Catalogs[r.catalog].skills,
         r.definition = Catalogs[r.catalog].skills[r.skill]
  PROVE  Routing!RequestRejections(digest, r) = {}
         <=> r.catalog = digest /\ Routing!WellPosed(Catalogs[digest], r)
<1> DEFINE c == Catalogs[digest]
           ids == Routing!Candidates(c, r)
           order == Routing!ToSet(r.policy.order)
           known == r.skill \in DOMAIN c.skills
           other == r.skill \in DOMAIN c.skills /\ c.skills[r.skill] # r.definition
           short == ~(ids \subseteq order)
           alien == ~(order \subseteq ids)
           fields == c.skills[r.skill].fields
           args == Routing!ArgumentRejections(fields, r.args)
           Codes == {"catalog_mismatch", "workcell_mismatch", "unknown_skill",
                     "skill_definition_mismatch", "policy_incomplete",
                     "policy_unknown_implementation"}
           Wrong(code) ==
             CASE code = "catalog_mismatch"   -> r.catalog # digest
               [] code = "workcell_mismatch"  -> r.workcell # c.workcell
               [] code = "unknown_skill"      -> r.skill \notin DOMAIN c.skills
               [] code = "skill_definition_mismatch" -> other
               [] code = "policy_incomplete"  -> short
               [] code = "policy_unknown_implementation" -> alien
           W == { code \in Codes : Wrong(code) }
<1>1. Routing!RequestRejections(digest, r) = W \cup IF known THEN args ELSE {}
  BY Zenon DEF Routing!RequestRejections
<1>2. W = {} <=> /\ r.catalog = digest /\ r.workcell = c.workcell /\ known
                 /\ ~other /\ ~short /\ ~alien
  <2>1. W = {} <=> \A code \in Codes : ~Wrong(code)
    <3> HIDE DEF Codes, Wrong
    <3> QED OBVIOUS
  <2>2. /\ Wrong("catalog_mismatch") <=> r.catalog # digest
        /\ Wrong("workcell_mismatch") <=> r.workcell # c.workcell
        /\ Wrong("unknown_skill") <=> ~known
        /\ Wrong("skill_definition_mismatch") <=> other
        /\ Wrong("policy_incomplete") <=> short
        /\ Wrong("policy_unknown_implementation") <=> alien
    <3> HIDE DEF other, short, alien, c
    <3> QED OBVIOUS
  <2>3. (\A code \in Codes : ~Wrong(code))
        <=> /\ ~Wrong("catalog_mismatch") /\ ~Wrong("workcell_mismatch")
            /\ ~Wrong("unknown_skill") /\ ~Wrong("skill_definition_mismatch")
            /\ ~Wrong("policy_incomplete") /\ ~Wrong("policy_unknown_implementation")
    <3> HIDE DEF Wrong
    <3> QED BY Zenon
  <2> HIDE DEF W, Codes, Wrong, known, other, short, alien
  <2> QED BY <2>1, <2>2, <2>3
<1>3. CASE r.catalog # digest
  <2> HIDE DEF W, known, other, short, alien, args
  <2> QED BY <1>1, <1>2, <1>3
<1>4. CASE r.catalog = digest
  <2>1. r.workcell = c.workcell /\ known /\ ~other
    BY <1>4
  <2>2. ids = { i \in DOMAIN c.impls : c.impls[i].skill = r.skill }
    <3>1. ids = { i \in DOMAIN c.impls : known /\ c.impls[i].skill = r.skill }
      BY Zenon DEF Routing!Candidates
    <3> HIDE DEF known, ids, c
    <3> QED BY <2>1, <3>1
  <2>3. \A n \in DOMAIN fields : fields[n].type \in Numeric => {fields[n].min, fields[n].max} \subseteq Int
    BY <2>1, RoutingAssumption
  <2>4. args = {}
        <=> /\ DOMAIN r.args = DOMAIN fields
            /\ \A n \in DOMAIN r.args :
                 /\ r.args[n].type = fields[n].type
                 /\ fields[n].type \in Numeric =>
                      fields[n].min <= r.args[n].value /\ r.args[n].value <= fields[n].max
    <3> HIDE DEF fields
    <3> QED BY <2>3, ArgumentsRejected
  <2>5. Routing!WellPosed(c, r) <=>
          /\ known
          /\ order = { i \in DOMAIN c.impls : c.impls[i].skill = r.skill }
          /\ DOMAIN r.args = DOMAIN fields
          /\ \A n \in DOMAIN r.args :
               /\ r.args[n].type = fields[n].type
               /\ fields[n].type \in Numeric =>
                    fields[n].min <= r.args[n].value /\ r.args[n].value <= fields[n].max
    BY Zenon DEF Routing!WellPosed, Routing!Numeric, Numeric
  <2>6. ~short /\ ~alien <=> order = ids
    <3> HIDE DEF order, ids
    <3> QED OBVIOUS
  <2> DEFINE fine == /\ DOMAIN r.args = DOMAIN fields
                     /\ \A n \in DOMAIN r.args :
                          /\ r.args[n].type = fields[n].type
                          /\ fields[n].type \in Numeric =>
                               fields[n].min <= r.args[n].value /\ r.args[n].value <= fields[n].max
             made == { i \in DOMAIN c.impls : c.impls[i].skill = r.skill }
  <2>7. (args = {} <=> fine) /\ (Routing!WellPosed(c, r) <=> known /\ order = made /\ fine) /\ ids = made
    BY <2>2, <2>4, <2>5, Zenon
  <2> HIDE DEF W, known, other, short, alien, args, fine, made, order, ids
  <2>8. W \cup args = {} <=> W = {} /\ args = {}
    OBVIOUS
  <2>9. Routing!RequestRejections(digest, r) = {}
        <=> r.catalog = digest /\ Routing!WellPosed(c, r)
    BY <1>1, <1>2, <1>4, <2>1, <2>6, <2>7, <2>8
  <2> QED BY <2>9
<1> QED BY <1>3, <1>4

\* An evaluation selects the first usable implementation of the policy's order, if the
\* request is well posed and there is one.
LEMMA RouteSelects ==
  ASSUME NEW digest \in Routing!Published, NEW r, r.policy.order \in Seq(Range(r.policy.order)),
         Routing!ArgumentsAccepted(r.args),
         r.workcell = Catalogs[r.catalog].workcell,
         r.skill \in DOMAIN Catalogs[r.catalog].skills,
         r.definition = Catalogs[r.catalog].skills[r.skill],
         Observed(r.seen), Routing!AssessmentsAccepted(r.seen), r.now \in Nat,
         \A q \in DOMAIN r.seen : r.seen[q].at \in Nat \cup {Nothing}
  PROVE  LET c == Catalogs[digest]
             usable(i) == Routing!Usable(c, r, r.policy.order[i])
             selected == Routing!Route(digest, r).selected
         IN  IF r.catalog = digest /\ Routing!WellPosed(c, r)
                /\ \E i \in DOMAIN r.policy.order : usable(i)
             THEN \E i \in DOMAIN r.policy.order :
                    /\ usable(i) /\ \A k \in 1 .. i - 1 : ~usable(k)
                    /\ selected = r.policy.order[i]
             ELSE selected = Nothing
<1> DEFINE c == Catalogs[digest]
           order == r.policy.order
           usable(i) == Routing!Usable(c, r, order[i])
           reasons == [i \in Routing!Candidates(c, r) |-> Routing!Rejections(c, r, i)]
           fit == { n \in DOMAIN order : order[n] \in DOMAIN reasons /\ reasons[order[n]] = {} }
           codes == Routing!RequestRejections(digest, r)
           first == CHOOSE n \in fit : \A k \in fit : n <= k
           selected == Routing!Route(digest, r).selected
           posed == r.catalog = digest /\ Routing!WellPosed(c, r)
<1>1. digest \in DOMAIN Catalogs
  BY DEF Routing!Published
<1>2. codes = {} <=> posed
  BY <1>1, RequestJudged
<1>3. selected = IF codes = {} /\ fit # {} THEN order[first] ELSE Nothing
  BY Zenon DEF Routing!Route
<1>4. DOMAIN order = 1 .. Len(order) /\ Len(order) \in Nat
  OBVIOUS
<1>5. ASSUME posed PROVE \A n : n \in fit <=> n \in DOMAIN order /\ usable(n)
  <2>1. \A n \in DOMAIN order : order[n] \in Routing!Candidates(c, r)
    <3>1. \A n \in DOMAIN order : order[n] \in Routing!ToSet(order)
      <4> HIDE DEF order
      <4> QED BY DEF Routing!ToSet
    <3>2. /\ r.skill \in DOMAIN c.skills
          /\ Routing!ToSet(order) = { i \in DOMAIN c.impls : c.impls[i].skill = r.skill }
      BY <1>5, Zenon DEF Routing!WellPosed
    <3> HIDE DEF c, order
    <3> QED BY <3>1, <3>2 DEF Routing!Candidates
  <2>2. Routing!Candidates(c, r) \subseteq DOMAIN c.impls
    BY DEF Routing!Candidates
  <2>3. \A n \in DOMAIN order : Routing!Rejections(c, r, order[n]) = {} <=> usable(n)
    BY <2>1, <2>2, CandidateJudged
  <2>4. \A n \in DOMAIN order : /\ order[n] \in DOMAIN reasons
                                /\ reasons[order[n]] = Routing!Rejections(c, r, order[n])
    BY <2>1, Zenon
  <2> HIDE DEF reasons, usable, c, order
  <2> QED BY <2>3, <2>4
<1>6. ASSUME fit # {} PROVE first \in fit /\ \A k \in fit : first <= k
  <2>1. fit \in SUBSET Nat
    BY <1>4
  <2> HIDE DEF fit
  <2> QED BY <1>6, <2>1, FirstOne, Zenon
<1>7. CASE posed /\ \E i \in DOMAIN order : usable(i)
  <2>1. fit # {}
    <3> HIDE DEF fit, usable, posed, order
    <3>1. PICK n \in DOMAIN order : usable(n)
      BY <1>7, Zenon
    <3>2. n \in fit
      BY ONLY <1>5, <1>7, <3>1
    <3> QED BY ONLY <3>2
  <2>2. first \in fit /\ \A k \in fit : first <= k
    <3> HIDE DEF fit, first
    <3> QED BY <1>6, <2>1
  <2>3. first \in DOMAIN order /\ usable(first) /\ first \in Nat
    <3> HIDE DEF fit, usable, first, order
    <3> QED BY <1>4, <1>5, <1>7, <2>2
  <2>4. \A k \in 1 .. first - 1 : ~usable(k)
    <3> HIDE DEF fit, usable, first, order
    <3> QED BY <1>4, <1>5, <1>7, <2>2, <2>3
  <2>5. selected = order[first]
    <3> HIDE DEF fit, codes, selected, first, posed
    <3> QED BY <1>2, <1>3, <1>7, <2>1
  <2> HIDE DEF first
  <2> QED BY <1>7, <2>3, <2>4, <2>5, Zenon
<1>8. CASE ~(posed /\ \E i \in DOMAIN order : usable(i))
  <2>1. selected = Nothing
    <3> HIDE DEF codes, selected, first, posed, usable
    <3>1. CASE posed
      <4>1. fit = {}
        <5> HIDE DEF fit
        <5> QED BY <1>5, <1>8, <3>1
      <4> QED BY <1>3, <4>1
    <3>2. CASE ~posed
      BY <1>2, <1>3, <3>2
    <3> QED BY <3>1, <3>2
  <2> QED BY <1>8, <2>1, Zenon
<1> QED BY <1>7, <1>8

\* The fields of a decision.
LEMMA DecisionFields ==
  ASSUME NEW digest, NEW r
  PROVE  LET d == Routing!Route(digest, r)  c == Catalogs[digest] IN
         /\ d.request = r /\ d.catalog = digest /\ d.policy = r.policy
         /\ d.state = r.state /\ d.invocation = r.invocation
         /\ DOMAIN d.candidates = Routing!Candidates(c, r)
         /\ \A i \in DOMAIN d.candidates : d.candidates[i].impl = c.impls[i]
<1> DEFINE c == Catalogs[digest]
           ids == Routing!Candidates(c, r)
           reasons == [i \in ids |-> Routing!Rejections(c, r, i)]
           codes == Routing!RequestRejections(digest, r)
           order == r.policy.order
           fit == { n \in DOMAIN order : order[n] \in DOMAIN reasons /\ reasons[order[n]] = {} }
           selected == IF codes = {} /\ fit # {}
                       THEN order[CHOOSE n \in fit : \A k \in fit : n <= k] ELSE Nothing
           status(i) == IF reasons[i] # {} THEN "rejected"
                        ELSE IF i = selected THEN "selected" ELSE "eligible_not_selected"
           candidates == [i \in DOMAIN reasons |-> [ impl |-> c.impls[i], codes |-> reasons[i],
                                                      status |-> status(i) ]]
           d == Routing!Route(digest, r)
<1>1. d = [ request |-> r, catalog |-> digest, policy |-> r.policy, state |-> r.state,
            invocation |-> r.invocation, selected |-> selected, codes |-> codes,
            candidates |-> candidates ]
  BY Zenon DEF Routing!Route
<1>2. DOMAIN reasons = ids
  BY Zenon
<1>3. DOMAIN candidates = ids /\ \A i \in ids : candidates[i].impl = c.impls[i]
  <2> HIDE DEF reasons, status
  <2> QED BY <1>2
<1>4. /\ d.request = r /\ d.catalog = digest /\ d.policy = r.policy
      /\ d.state = r.state /\ d.invocation = r.invocation
      /\ d.candidates = candidates
  <2> HIDE DEF candidates, codes, selected, d
  <2> QED BY <1>1
<1> HIDE DEF candidates, d, c
<1>5. /\ d.request = r /\ d.catalog = digest /\ d.policy = r.policy
      /\ d.state = r.state /\ d.invocation = r.invocation
      /\ DOMAIN d.candidates = ids
      /\ \A i \in DOMAIN d.candidates : d.candidates[i].impl = c.impls[i]
  BY <1>3, <1>4
<1> QED BY <1>5 DEF c, d

\* What was evaluated was decided as the code decides.
LEMMA EvaluatedSelects == RoutingInv => Routing!RouteIsFirstUsable
<1> SUFFICES ASSUME RoutingInv PROVE Routing!RouteIsFirstUsable
  OBVIOUS
<1> SUFFICES ASSUME NEW n \in DOMAIN receipts
    PROVE LET r == receipts[n].request
              c == Catalogs[receipts[n].catalog]
              usable(i) == Routing!Usable(c, r, r.policy.order[i])
          IN  IF r.catalog = receipts[n].catalog /\ Routing!WellPosed(c, r)
                 /\ \E i \in DOMAIN r.policy.order : usable(i)
              THEN \E i \in DOMAIN r.policy.order :
                     /\ usable(i) /\ \A k \in 1 .. i - 1 : ~usable(k)
                     /\ receipts[n].decision.selected = r.policy.order[i]
              ELSE receipts[n].decision.selected = Nothing
  BY Zenon DEF Routing!RouteIsFirstUsable
<1> DEFINE digest == receipts[n].catalog
           r == receipts[n].request
<1>1. Evaluated(receipts[n])
  BY DEF RoutingInv
<1>2. /\ digest \in Routing!Published /\ r.policy.order \in Seq(Range(r.policy.order))
      /\ Routing!ArgumentsAccepted(r.args)
      /\ r.workcell = Catalogs[r.catalog].workcell
      /\ r.skill \in DOMAIN Catalogs[r.catalog].skills
      /\ r.definition = Catalogs[r.catalog].skills[r.skill]
      /\ Observed(r.seen) /\ Routing!AssessmentsAccepted(r.seen) /\ r.now \in Nat
      /\ \A q \in DOMAIN r.seen : r.seen[q].at \in Nat \cup {Nothing}
      /\ receipts[n].decision = Routing!Route(digest, r)
  BY <1>1, Zenon DEF Evaluated, Routing!RequestAccepted
<1> HIDE DEF digest, r
<1>3. LET c == Catalogs[digest]
          usable(i) == Routing!Usable(c, r, r.policy.order[i])
          selected == Routing!Route(digest, r).selected
      IN  IF r.catalog = digest /\ Routing!WellPosed(c, r)
             /\ \E i \in DOMAIN r.policy.order : usable(i)
          THEN \E i \in DOMAIN r.policy.order :
                 /\ usable(i) /\ \A k \in 1 .. i - 1 : ~usable(k)
                 /\ selected = r.policy.order[i]
          ELSE selected = Nothing
  BY <1>2, RouteSelects
<1>4. receipts[n].decision.selected = Routing!Route(digest, r).selected
  BY <1>2
<1> QED BY <1>3, <1>4, Zenon DEF digest, r

\* What the client accepts, from whichever parts it was put together, is the evaluation
\* that its decision comes from.
LEMMA EvaluatedIsGenuine == RoutingInv => Routing!Genuine
<1> SUFFICES ASSUME RoutingInv, NEW i \in DOMAIN receipts, NEW j \in DOMAIN receipts,
                    NEW k \in DOMAIN receipts, NEW l \in DOMAIN receipts,
                    Routing!ReceiptAccepted(Routing!Answer(i, j, k, l), Nothing)
    PROVE LET a == Routing!Answer(i, j, k, l) IN
          /\ a.catalog = a.question.catalog
          /\ a.request.skill = a.question.skill /\ a.request.args = a.question.args
          /\ \E n \in DOMAIN receipts :
               /\ receipts[n].catalog = a.catalog
               /\ receipts[n].request = a.request
               /\ receipts[n].decision = a.decision
  BY Zenon DEF Routing!Genuine
<1> DEFINE a == Routing!Answer(i, j, k, l)
<1>1. /\ a.question = receipts[i].question /\ a.catalog = receipts[j].catalog
      /\ a.request = receipts[k].request /\ a.decision = receipts[l].decision
  BY DEF Routing!Answer
<1>2. /\ a.decision.catalog = a.question.catalog
      /\ a.catalog = a.question.catalog
      /\ Routing!RequestFits(a)
  BY Zenon DEF Routing!ReceiptAccepted
<1>3. /\ a.request.skill = a.question.skill
      /\ a.request.args = a.question.args
      /\ a.request = a.decision.request
  BY <1>2, Zenon DEF Routing!RequestFits
<1>4. receipts[l].decision = Routing!Route(receipts[l].catalog, receipts[l].request)
  BY DEF RoutingInv, Evaluated
<1>5. /\ receipts[l].decision.request = receipts[l].request
      /\ receipts[l].decision.catalog = receipts[l].catalog
  BY <1>4, DecisionFields
<1> HIDE DEF a
<1>6. /\ receipts[l].catalog = a.catalog /\ receipts[l].request = a.request
      /\ receipts[l].decision = a.decision
  BY <1>1, <1>2, <1>3, <1>5
<1> QED BY <1>2, <1>3, <1>6 DEF a

\* The reasons and the choice of an accepted decision agree in the client's eyes too.
LEMMA AcceptedIsShown ==
  ASSUME NEW d, Routing!DecisionAccepted(d)
  PROVE  Routing!DecisionShown(d)
<1> DEFINE with(status) == { i \in DOMAIN d.candidates : d.candidates[i].status = status }
           reasoned == { i \in DOMAIN d.candidates : d.candidates[i].codes # {} }
<1>1. /\ \A i \in DOMAIN d.candidates :
           d.candidates[i].status = "rejected" <=> d.candidates[i].codes # {}
      /\ IF d.selected # Nothing
         THEN d.codes = {} /\ with("selected") = {d.selected}
         ELSE /\ with("selected") = {}
              /\ d.codes = {} =>
                   \A i \in DOMAIN d.candidates : d.candidates[i].status = "rejected"
  BY Zenon DEF Routing!DecisionAccepted, Routing!CandidateAccepted
<1>2. with("rejected") = reasoned
  BY <1>1
<1>3. (\A i \in DOMAIN d.candidates : d.candidates[i].status = "rejected")
        => with("rejected") = DOMAIN d.candidates
  OBVIOUS
<1>4. Routing!DecisionShown(d) <=>
        /\ with("rejected") = reasoned
        /\ \/ d.selected # Nothing /\ with("selected") = {d.selected} /\ d.codes = {}
           \/ /\ d.selected = Nothing /\ with("selected") = {}
              /\ d.codes = {} => with("rejected") = DOMAIN d.candidates
  BY Zenon DEF Routing!DecisionShown
<1> HIDE DEF with, reasoned
<1> QED BY <1>1, <1>2, <1>3, <1>4

\* Nothing that the host evaluates truthfully for the question is refused.
LEMMA EvaluatedIsShown == RoutingInv => Routing!TruthIsShown
<1> SUFFICES ASSUME RoutingInv, NEW n \in DOMAIN receipts, receipts[n].question = asked,
                    receipts[n].catalog = asked.catalog,
                    receipts[n].request.catalog = asked.catalog,
                    receipts[n].request.manifest = Catalogs[asked.catalog].workcell
    PROVE Routing!ReceiptAccepted(receipts[n], asked)
  BY Zenon DEF Routing!TruthIsShown
<1> DEFINE a == receipts[n]
           d == a.decision
           r == a.request
           c == Catalogs[a.catalog]
<1>1. Evaluated(a)
  BY DEF RoutingInv
<1>2. /\ d = Routing!Route(a.catalog, r) /\ Routing!DecisionAccepted(d)
      /\ Routing!QuestionAccepted(a.question)
      /\ r.skill = a.question.skill /\ r.args = a.question.args
      /\ r.workcell = Catalogs[r.catalog].workcell
  BY <1>1, Zenon DEF Evaluated
<1>3. /\ d.request = r /\ d.catalog = a.catalog /\ d.policy = r.policy
      /\ d.state = r.state /\ d.invocation = r.invocation
      /\ DOMAIN d.candidates = Routing!Candidates(c, r)
      /\ \A i \in DOMAIN d.candidates : d.candidates[i].impl = c.impls[i]
  <2> DEFINE e == Routing!Route(a.catalog, r)
  <2>1. /\ e.request = r /\ e.catalog = a.catalog /\ e.policy = r.policy
        /\ e.state = r.state /\ e.invocation = r.invocation
        /\ DOMAIN e.candidates = Routing!Candidates(c, r)
        /\ \A i \in DOMAIN e.candidates : e.candidates[i].impl = c.impls[i]
    BY DecisionFields
  <2>2. d = e
    BY <1>2
  <2> HIDE DEF d, e, a
  <2> QED BY <2>1, <2>2
<1>4. Routing!RequestFits(a)
  <2> HIDE DEF a
  <2> QED BY <1>2, <1>3 DEF Routing!RequestFits, a
<1>5. Routing!CandidatesFit(a)
  <2>1. \A i \in Routing!Candidates(c, r) : i \in DOMAIN c.impls /\ c.impls[i].skill = r.skill
    BY DEF Routing!Candidates
  <2> QED BY <1>2, <1>3, <2>1, Zenon DEF Routing!CandidatesFit
<1>6. Routing!DecisionShown(d)
  BY <1>2, AcceptedIsShown
<1> QED BY <1>2, <1>3, <1>4, <1>5, <1>6, Zenon DEF Routing!ReceiptAccepted

\* A host begins with an acceptable catalog, and with nothing observed or evaluated.
LEMMA RoutingBegins == Routing!Init => RoutingInv
<1> SUFFICES ASSUME Routing!Init PROVE RoutingInv
  OBVIOUS
<1>1. /\ catalog \in Routing!Published /\ host \in Projections
      /\ assessed = <<>> /\ time = 0 /\ asked = Nothing /\ receipts = <<>>
  BY Zenon DEF Routing!Init
<1>2. DOMAIN assessed = {} /\ DOMAIN receipts = {} /\ receipts \in Seq({})
  BY <1>1
<1> QED BY <1>1, <1>2 DEF RoutingInv, Observed

\* What the host writes for a question, at a moment, on the strength of a catalog.
LEMMA RequestWritten ==
  ASSUME NEW base, NEW now
  PROVE  LET r == Routing!SealedRequest(Routing!Request(base, now)) IN
         /\ r.catalog = base /\ r.skill = asked.skill /\ r.args = asked.args
         /\ r.definition = Catalogs[base].skills[asked.skill]
         /\ r.workcell = Catalogs[base].workcell
         /\ r.seen = assessed /\ r.now = now /\ r.policy = host.policy
<1> DEFINE definition == Catalogs[base].skills[asked.skill]
           q == Routing!Request(base, now)
           r == Routing!SealedRequest(q)
           sealed == Routing!Invocation(q.skill, q.definition, q.args)
<1>1. q = [ catalog |-> base, skill |-> asked.skill, definition |-> definition,
            args |-> asked.args, invocation |-> Nothing, workcell |-> Catalogs[base].workcell,
            manifest |-> host.manifest, state |-> facts, now |-> now, bound |-> host.bound,
            targets |-> host.targets, seen |-> assessed, policy |-> host.policy ]
  BY Zenon DEF Routing!Request
<1>2. r = [q EXCEPT !.invocation = sealed]
  BY Zenon DEF Routing!SealedRequest
<1> HIDE DEF definition, q, r, sealed
<1>3. /\ r.catalog = base /\ r.skill = asked.skill /\ r.args = asked.args
      /\ r.definition = definition
      /\ r.workcell = Catalogs[base].workcell
      /\ r.seen = assessed /\ r.now = now /\ r.policy = host.policy
  BY <1>1, <1>2
<1> QED BY <1>3, Zenon DEF definition, q, r

\* No step of the world, the client or the host disturbs what was evaluated, and each
\* evaluation is of a request that was written for its question.
LEMMA RoutingGoesOn ==
  ASSUME RoutingInv, [Routing!Next]_routeVars
  PROVE  RoutingInv'
<1> USE DEF RoutingInv
<1>1. ASSUME UNCHANGED routeVars PROVE RoutingInv'
  BY <1>1 DEF routeVars, Observed, Evaluated
<1>2. ASSUME Routing!World PROVE RoutingInv'
  <2>1. catalog' \in Routing!Published /\ host' \in Projections
    BY <1>2 DEF Routing!World
  <2>2. UNCHANGED <<assessed, time, asked, receipts>>
    BY <1>2 DEF Routing!World, Routing!Client
  <2> QED BY <2>1, <2>2 DEF Observed, Evaluated
<1>3. ASSUME Routing!Tick PROVE RoutingInv'
  BY <1>3 DEF Routing!Tick, Routing!Client, Observed, Evaluated
<1>4. ASSUME Routing!Read PROVE RoutingInv'
  <2>1. UNCHANGED <<catalog, host, assessed, time, asked, receipts>>
    BY <1>4 DEF Routing!Read
  <2> QED BY <2>1 DEF Observed, Evaluated
<1>5. ASSUME Routing!Ask PROVE RoutingInv'
  <2>1. UNCHANGED <<catalog, host, assessed, time, receipts>>
    BY <1>5 DEF Routing!Ask
  <2>2. PICK q \in Questions : /\ Routing!QuestionAccepted(q)
                               /\ asked' = [skill |-> q.skill, args |-> q.args, catalog |-> shown]
    BY <1>5, Zenon DEF Routing!Ask
  <2>3. asked'.args = q.args
    BY <2>2
  <2>4. Routing!QuestionAccepted(asked')
    BY <2>2, <2>3 DEF Routing!QuestionAccepted
  <2> QED BY <2>1, <2>4 DEF Observed, Evaluated
<1>6. ASSUME Routing!Observe PROVE RoutingInv'
  <2>1. UNCHANGED <<catalog, host, time, asked, receipts>>
    BY <1>6 DEF Routing!Observe, Routing!Client
  <2>2. PICK base \in Routing!Bases, f \in Facts \ DOMAIN assessed, known \in BOOLEAN :
          LET definition == Catalogs[base].skills[asked.skill]
              new == [ requirement |-> f,
                       invocation |-> Routing!Invocation(asked.skill, definition, asked.args),
                       state |-> facts,
                       status |-> IF ~known THEN "unknown"
                                  ELSE IF f \in facts THEN "met" ELSE "violated",
                       at |-> IF known THEN time ELSE Nothing ]
          IN  assessed' = [q \in DOMAIN assessed \cup {f} |-> IF q = f THEN new ELSE assessed[q]]
    BY <1>6, Zenon DEF Routing!Observe
  <2> DEFINE invoked == Routing!Invocation(asked.skill, Catalogs[base].skills[asked.skill], asked.args)
             status == IF ~known THEN "unknown" ELSE IF f \in facts THEN "met" ELSE "violated"
             at == IF known THEN time ELSE Nothing
             new == [ requirement |-> f, invocation |-> invoked, state |-> facts,
                      status |-> status, at |-> at ]
  <2>3. assessed' = [q \in DOMAIN assessed \cup {f} |-> IF q = f THEN new ELSE assessed[q]]
    BY <2>2, Zenon
  <2>4. /\ new.status \in {"unknown", "met", "violated"}
        /\ new.status = "met" => f \in new.state
        /\ new.status = "violated" => f \notin new.state
        /\ new.at \in Nat \cup {Nothing}
    <3> HIDE DEF invoked
    <3> QED OBVIOUS
  <2> HIDE DEF new
  <2>5. Observed(assessed') /\ \A q \in DOMAIN assessed' : assessed'[q].at \in Nat \cup {Nothing}
    BY <2>3, <2>4 DEF Observed
  <2> QED BY <2>1, <2>5 DEF Evaluated
<1>7. ASSUME Routing!Evaluate PROVE RoutingInv'
  <2>1. UNCHANGED <<catalog, host, assessed, time, asked>>
    BY <1>7 DEF Routing!Evaluate, Routing!Client
  <2>2. PICK base \in Routing!Bases, now \in { t \in {time - 1, time} : t >= 0 } :
          LET r == Routing!SealedRequest(Routing!Request(base, now))
              d == Routing!Route(catalog, r)
          IN  /\ Routing!RequestAccepted(r)
              /\ Routing!DecisionAccepted(d)
              /\ receipts' = Append(receipts, [ question |-> asked, catalog |-> catalog,
                                                request |-> r, decision |-> d ])
    BY <1>7, Zenon DEF Routing!Evaluate
  <2> DEFINE r == Routing!SealedRequest(Routing!Request(base, now))
             d == Routing!Route(catalog, r)
             x == [question |-> asked, catalog |-> catalog, request |-> r, decision |-> d]
  <2>3. /\ Routing!RequestAccepted(r) /\ Routing!DecisionAccepted(d)
        /\ receipts' = Append(receipts, x)
    BY <2>2, Zenon
  <2>4. asked # Nothing /\ now \in Nat /\ asked.skill \in DOMAIN Catalogs[base].skills
    <3>1. asked # Nothing
      BY <1>7, Zenon DEF Routing!Evaluate
    <3>2. now \in Nat
      OBVIOUS
    <3>3. asked.skill \in DOMAIN Catalogs[base].skills
      BY DEF Routing!Bases
    <3> QED BY <3>1, <3>2, <3>3
  <2>5. /\ r.catalog = base /\ r.skill = asked.skill /\ r.args = asked.args
        /\ r.definition = Catalogs[base].skills[asked.skill]
        /\ r.workcell = Catalogs[base].workcell
        /\ r.seen = assessed /\ r.now = now /\ r.policy = host.policy
    BY RequestWritten
  <2>6. r.policy.order \in Seq(Range(r.policy.order))
    BY <2>5, RoutingAssumption
  <2> HIDE DEF r
  <2>7. x.question = asked /\ x.catalog = catalog /\ x.request = r /\ x.decision = d
    OBVIOUS
  <2> HIDE DEF x
  <2>8. Evaluated(x)
    BY <2>3, <2>4, <2>5, <2>6, <2>7 DEF Evaluated
  <2>9. PICK S : receipts \in Seq(S)
    OBVIOUS
  <2>10. receipts \in Seq(S \cup {x}) /\ receipts' \in Seq(S \cup {x})
    BY <2>3, <2>9
  <2>11. \A n \in DOMAIN receipts' : receipts'[n] = x \/ (n \in DOMAIN receipts /\ receipts'[n] = receipts[n])
    BY <2>3, <2>9
  <2>12. \A n \in DOMAIN receipts' : Evaluated(receipts'[n])
    BY <2>8, <2>11
  <2> QED BY <2>1, <2>10, <2>12
<1> QED BY <1>1, <1>2, <1>3, <1>4, <1>5, <1>6, <1>7, Zenon DEF Routing!Next

\* A routing decision selects the first implementation of the policy's order that may be
\* used, for a well-posed request on the catalog of the host, and nothing otherwise; for
\* any catalogs, projections and questions (route_physical_skill).
THEOREM RoutesTheFirstUsable == Routing!Spec => []RouteIsFirstUsable
<1>1. RoutingInv => RouteIsFirstUsable
  BY EvaluatedSelects DEF RouteIsFirstUsable
<1> QED BY RoutingBegins, RoutingGoesOn, <1>1, PTL DEF Routing!Spec, Routing!vars, routeVars

\* The client accepts no receipt but that of one evaluation made for the question it
\* shows, and refuses none that answers its question truthfully
\* (normalizePhysicalRouteReceipt).
THEOREM ShowsTheGenuine == Routing!Spec => []ShownIsGenuine
<1>1. RoutingInv => ShownIsGenuine
  BY EvaluatedIsGenuine, EvaluatedIsShown DEF ShownIsGenuine, Routing!ShownIsGenuine
<1> QED BY RoutingBegins, RoutingGoesOn, <1>1, PTL DEF Routing!Spec, Routing!vars, routeVars
=============================================================================
