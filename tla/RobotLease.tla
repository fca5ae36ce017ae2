----------------------------- MODULE RobotLease -----------------------------
(***************************************************************************)
(* What a Runtime session promises about the robot it drives, and nothing  *)
(* about how: the robot is opened once, takes output only while it is open *)
(* and not yet asked to stop, is asked to stop once, before it is closed,  *)
(* and one observation never drives it twice.                              *)
(***************************************************************************)
EXTENDS Naturals

CONSTANT ObservationId

VARIABLES
  phase,   \* how far the session has taken the robot
  uses     \* how many times the output of each observation reached the robot

Phase == {"unopened", "live", "stopped", "closed"}

leaseVars == <<phase, uses>>

LeaseTypeOK ==
  /\ phase \in Phase
  /\ uses \in [ObservationId -> Nat]

LeaseInit ==
  /\ phase = "unopened"
  /\ uses = [id \in ObservationId |-> 0]

Open ==
  /\ phase = "unopened"
  /\ phase' = "live"
  /\ UNCHANGED uses

Drive(id) ==
  /\ phase = "live"
  /\ uses[id] = 0
  /\ uses' = [uses EXCEPT ![id] = 1]
  /\ UNCHANGED phase

Stop ==
  /\ phase = "live"
  /\ phase' = "stopped"
  /\ UNCHANGED uses

Close ==
  /\ phase = "stopped"
  /\ phase' = "closed"
  /\ UNCHANGED uses

LeaseNext == Open \/ Stop \/ Close \/ \E id \in ObservationId : Drive(id)

LeaseSpec == LeaseInit /\ [][LeaseNext]_leaseVars
=============================================================================
