------------------------ MODULE ExperimentController ------------------------
(***************************************************************************)
(* The local experiment controller (cli/src/harness/experiments): an       *)
(* operator approves a bounded plan, then trials run one at a time on an   *)
(* asynchronous runner.  Every mutation is written to the conversation's   *)
(* file before it counts; a failed write latches storageFailed.  The       *)
(* process may crash between any two steps and open the file again.        *)
(*                                                                         *)
(* A trial is named by its request identifier: a request that is known     *)
(* starts nothing.  `queued` holds the dispatches that the event loop owes:*)
(* code that called trial() may still call stop() before they run.         *)
(***************************************************************************)
EXTENDS Integers, FiniteSets

CONSTANTS
  RequestId,       \* identifiers callers choose for proposals and trials
  TrialLimit,      \* trialLimit of every plan
  MaxExperiments,  \* bound of the model: proposals over all restarts
  None             \* no experiment, no active trial

ASSUME ExperimentAssumption ==
  /\ TrialLimit \in Nat \ {0} /\ MaxExperiments \in Nat

VARIABLES
  life,           \* whether a controller owns the conversation
  builtin,        \* synthetic fixture, or an injected runner
  current,        \* state.current
  requests,       \* identifiers in state.requests
  disk,           \* what the conversation's file holds of both
  active,         \* owner of the trial in progress
  storageFailed,
  expired,        \* experiments whose approval window has passed
  nextId,         \* fresh experiment identifiers
  aborted,        \* trials whose AbortController was aborted
  queued,         \* trials whose dispatch is still to run
  executing,      \* trials whose runner was called and has not settled
  dispatches      \* how often the runner was called for each request

memory == <<current, requests, active, storageFailed>>
tasks  == <<aborted, queued, executing, dispatches>>
vars   == <<life, builtin, memory, disk, expired, nextId, tasks>>

Terminal    == {"COMPLETED", "STOPPED", "INTERRUPTED", "FAILED"}
Phase       == {"PROPOSED", "READY", "RUNNING", "OUTCOME_UNKNOWN"} \cup Terminal
TrialStatus == {"RUNNING", "COMPLETED", "STOPPED", "FAILED", "INTERRUPTED", "OUTCOME_UNKNOWN"}
ExperimentId == 1..MaxExperiments

Experiment ==
  [id : ExperimentId, phase : Phase, stopStatus : {"none", "CONFIRMED", "UNCONFIRMED"},
   trials : UNION {[S -> TrialStatus] : S \in SUBSET RequestId}]

Owner == [request : RequestId, interrupted : {"none", "stop", "timeout"}]

ASSUME NoneAssumption == None \notin RequestId \cup Experiment \cup Owner

TypeOK ==
  /\ life \in {"open", "closed"} /\ builtin \in BOOLEAN
  /\ current \in Experiment \cup {None}
  /\ requests \in SUBSET RequestId
  /\ disk \in [current : Experiment \cup {None}, requests : SUBSET RequestId]
  /\ active \in Owner \cup {None}
  /\ storageFailed \in BOOLEAN
  /\ expired \in SUBSET ExperimentId /\ nextId \in 1..(MaxExperiments + 1)
  /\ aborted \cup queued \cup executing \subseteq RequestId
  /\ dispatches \in [RequestId -> Nat]

Init ==
  /\ life = "open" /\ builtin \in BOOLEAN
  /\ current = None /\ requests = {} /\ active = None /\ storageFailed = FALSE
  /\ disk = [current |-> None, requests |-> {}]
  /\ expired = {} /\ nextId = 1
  /\ aborted = {} /\ queued = {} /\ executing = {}
  /\ dispatches = [r \in RequestId |-> 0]

-----------------------------------------------------------------------------
(* Persistence                                                             *)

WithTrial(cur, r, status) ==
  [cur EXCEPT !.trials = [q \in DOMAIN cur.trials \cup {r} |->
                            IF q = r THEN status ELSE cur.trials[q]]]

\* What save() leaves in memory when the write fails: nothing is assumed.
Unsaved(cur, owner) ==
  LET blocked == [cur EXCEPT !.phase = "OUTCOME_UNKNOWN"]
  IN  IF owner = None THEN blocked ELSE WithTrial(blocked, owner, "OUTCOME_UNKNOWN")

\* Mutant: a failed write only sets the latch.
PersistOptimistic(cur, reqs, owner, latched) ==
  /\ requests' = reqs
  /\ \/ /\ ~latched
        /\ storageFailed' = FALSE
        /\ current' = cur
        /\ disk' = [current |-> cur, requests |-> reqs]
     \/ /\ storageFailed' = TRUE
        /\ current' = cur
        /\ UNCHANGED disk

\* save(): the file is replaced as a whole, or the latch is set and the
\* experiment, with the trial of the active owner, becomes unknown.
Persist(cur, reqs, owner, latched) ==
  /\ requests' = reqs
  /\ \/ /\ ~latched
        /\ storageFailed' = FALSE
        /\ current' = cur
        /\ disk' = [current |-> cur, requests |-> reqs]
     \/ /\ storageFailed' = TRUE
        /\ current' = Unsaved(cur, owner)
        /\ UNCHANGED disk

\* ensureOpen and current(id): the caller's identifier is that of the current plan.
Usable == life = "open" /\ ~storageFailed

-----------------------------------------------------------------------------
(* The plan: propose, approve, finish                                      *)

Propose(r) ==
  /\ Usable
  /\ r \notin requests
  /\ active = None
  /\ current # None => current.phase \in Terminal
  /\ nextId <= MaxExperiments
  /\ nextId' = nextId + 1
  /\ Persist([id |-> nextId, phase |-> "PROPOSED", stopStatus |-> "none",
              trials |-> [q \in {} |-> "RUNNING"]],
             requests \cup {r}, None, storageFailed)
  /\ UNCHANGED <<life, builtin, active, expired, tasks>>

Fresh == current.id \notin expired

Approve ==
  /\ Usable
  /\ current # None
  /\ Fresh
  /\ current.phase = "PROPOSED"
  /\ Persist([current EXCEPT !.phase = "READY"], requests, None, storageFailed)
  /\ UNCHANGED <<life, builtin, active, expired, nextId, tasks>>

Finish ==
  /\ Usable
  /\ current # None
  /\ active = None
  /\ current.phase = "READY"
  /\ DOMAIN current.trials # {}
  /\ Persist([current EXCEPT !.phase = "COMPLETED"], requests, None, storageFailed)
  /\ UNCHANGED <<life, builtin, active, expired, nextId, tasks>>

\* The fifteen minutes of an approval pass.
Expire ==
  /\ current # None
  /\ current.phase \in {"PROPOSED", "READY"}
  /\ Fresh
  /\ expired' = expired \cup {current.id}
  /\ UNCHANGED <<life, builtin, memory, disk, nextId, tasks>>

-----------------------------------------------------------------------------
(* A trial: request, dispatch, outcome                                     *)

\* Mutant: the trial is recorded, its request identifier is not.
TrialUnremembered(r) ==
  /\ Usable
  /\ r \notin requests
  /\ current # None
  /\ active = None
  /\ current.phase = "READY"
  /\ Fresh
  /\ Cardinality(DOMAIN current.trials) < TrialLimit
  /\ Persist(WithTrial([current EXCEPT !.phase = "RUNNING"], r, "RUNNING"), requests, r,
             storageFailed)
  /\ IF storageFailed'
       THEN UNCHANGED <<active, queued>>
       ELSE active' = [request |-> r, interrupted |-> "none"] /\ queued' = queued \cup {r}
  /\ UNCHANGED <<life, builtin, expired, nextId, aborted, executing, dispatches>>

\* A trial that cannot be recorded is never dispatched.
Trial(r) ==
  /\ Usable
  /\ r \notin requests
  /\ current # None
  /\ active = None
  /\ current.phase = "READY"
  /\ Fresh
  /\ Cardinality(DOMAIN current.trials) < TrialLimit
  /\ Persist(WithTrial([current EXCEPT !.phase = "RUNNING"], r, "RUNNING"),
             requests \cup {r}, r, storageFailed)
  /\ IF storageFailed'
       THEN UNCHANGED <<active, queued>>
       ELSE active' = [request |-> r, interrupted |-> "none"] /\ queued' = queued \cup {r}
  /\ UNCHANGED <<life, builtin, expired, nextId, aborted, executing, dispatches>>

Owns(r) == life = "open" /\ active # None /\ active.request = r

\* What the settled trial makes of the experiment.
Outcome(r, valid) ==
  CASE active.interrupted = "stop" ->
         WithTrial([current EXCEPT !.phase = "STOPPED", !.stopStatus = "CONFIRMED"], r, "STOPPED")
    [] active.interrupted = "timeout" ->
         WithTrial([current EXCEPT !.phase = "FAILED", !.stopStatus = "CONFIRMED"], r, "FAILED")
    [] active.interrupted = "none" /\ ~valid ->
         WithTrial([current EXCEPT !.phase = "FAILED"], r, "FAILED")
    [] OTHER -> WithTrial([current EXCEPT !.phase = "READY"], r, "COMPLETED")

\* Mutant: a runner that settles after a stop still delivers its measurement.
CompleteLate(r, valid) ==
  IF Owns(r)
    THEN /\ active' = None
         /\ Persist(IF valid THEN WithTrial([current EXCEPT !.phase = "READY"], r, "COMPLETED")
                             ELSE WithTrial([current EXCEPT !.phase = "FAILED"], r, "FAILED"),
                    requests, r, storageFailed)
    ELSE UNCHANGED <<memory, disk>>

\* complete(): only the active owner's answer counts.  If it cannot be saved the
\* rejection handler makes the trial unknown before any other event is served.
Complete(r, valid) ==
  IF Owns(r)
    THEN /\ active' = None
         /\ Persist(Outcome(r, valid), requests, r, storageFailed)
    ELSE UNCHANGED <<memory, disk>>

\* Mutant: the dispatch does not look at the abort signal.
DispatchAlways(r) ==
  /\ r \in queued
  /\ queued' = queued \ {r}
  /\ executing' = executing \cup {r}
  /\ dispatches' = [dispatches EXCEPT ![r] = @ + 1]
  /\ UNCHANGED <<life, builtin, memory, disk, expired, nextId, aborted>>

\* The runner is called one turn after trial() returned, unless aborted meanwhile.
Dispatch(r) ==
  /\ r \in queued
  /\ queued' = queued \ {r}
  /\ IF r \in aborted
       THEN Complete(r, FALSE) /\ UNCHANGED <<executing, dispatches>>
       ELSE /\ executing' = executing \cup {r}
            /\ dispatches' = [dispatches EXCEPT ![r] = @ + 1]
            /\ UNCHANGED <<memory, disk>>
  /\ UNCHANGED <<life, builtin, expired, nextId, aborted>>

\* The runner returns a valid measurement, or anything else.
Settle(r, valid) ==
  /\ r \in executing
  /\ executing' = executing \ {r}
  /\ Complete(r, valid)
  /\ UNCHANGED <<life, builtin, expired, nextId, aborted, queued, dispatches>>

-----------------------------------------------------------------------------
(* Stop, timeout, dispose, crash and reopen                                *)

\* Mutant: interrupting releases the owner whatever the runner.
InterruptReleasing(kind) ==
  LET r == active.request
  IN  /\ aborted' = aborted \cup {r}
      /\ active' = None
      /\ Persist(WithTrial([current EXCEPT !.phase = "STOPPED", !.stopStatus = "CONFIRMED"],
                           r, "STOPPED"),
                 requests, None, storageFailed)

\* interrupt(): the first cause stays.  The synthetic fixture is stopped by its
\* signal; an injected runner keeps its owner until it settles.
Interrupt(kind) ==
  LET r       == active.request
      cause   == IF active.interrupted = "none" THEN kind ELSE active.interrupted
      verdict == IF ~builtin THEN "OUTCOME_UNKNOWN"
                 ELSE IF cause = "stop" THEN "STOPPED" ELSE "FAILED"
  IN  /\ aborted' = aborted \cup {r}
      /\ active' = IF builtin THEN None ELSE [active EXCEPT !.interrupted = cause]
      /\ Persist(WithTrial([current EXCEPT !.phase = verdict,
                              !.stopStatus = IF builtin THEN "CONFIRMED" ELSE "UNCONFIRMED"],
                           r, verdict),
                 requests, IF builtin THEN None ELSE r, storageFailed)

\* Mutant: calling the runner disarms the timer.
TimeoutDisarmed ==
  /\ life = "open"
  /\ active # None
  /\ active.interrupted = "none"
  /\ active.request \notin queued \cup executing
  /\ Interrupt("timeout")
  /\ UNCHANGED <<life, builtin, expired, nextId, queued, executing, dispatches>>

\* The timer of the active trial; promise reactions run before timers.
Timeout ==
  /\ life = "open"
  /\ active # None
  /\ active.interrupted = "none"
  /\ active.request \notin queued
  /\ Interrupt("timeout")
  /\ UNCHANGED <<life, builtin, expired, nextId, queued, executing, dispatches>>

StopActive ==
  /\ life = "open"
  /\ active # None
  /\ Interrupt("stop")
  /\ UNCHANGED <<life, builtin, expired, nextId, queued, executing, dispatches>>

\* With no trial active Stop ends the plan and, after a storage failure, first
\* lifts the latch and tries to save the retained evidence again.
StopIdle ==
  /\ life = "open"
  /\ current # None
  /\ active = None
  /\ storageFailed \/ current.phase \notin Terminal \cup {"OUTCOME_UNKNOWN"}
  /\ Persist([current EXCEPT !.phase = "STOPPED", !.stopStatus = "CONFIRMED"], requests, None, FALSE)
  /\ UNCHANGED <<life, builtin, active, expired, nextId, tasks>>

\* dispose(): the controller's promises still settle, and change nothing.
Dispose ==
  /\ life = "open"
  /\ life' = "closed"
  /\ IF active # None
       THEN Interrupt("stop")
       ELSE UNCHANGED <<memory, disk, aborted>>
  /\ UNCHANGED <<builtin, expired, nextId, queued, executing, dispatches>>

Crash ==
  /\ life' = "closed"
  /\ aborted' = {} /\ queued' = {} /\ executing' = {}
  /\ UNCHANGED <<builtin, memory, disk, expired, nextId, dispatches>>

\* No approval and no trial survives a reload; an unknown outcome does.
Reopened(cur) ==
  LET unknown == cur.phase = "OUTCOME_UNKNOWN"
      verdict == IF unknown THEN "OUTCOME_UNKNOWN" ELSE "INTERRUPTED"
  IN  IF cur.phase \in {"RUNNING", "READY", "OUTCOME_UNKNOWN"}
        THEN [cur EXCEPT !.phase = verdict,
                         !.trials = [q \in DOMAIN @ |-> IF @[q] = "RUNNING" THEN verdict ELSE @[q]]]
        ELSE cur

\* A reload whose save fails opens no controller.
Open ==
  /\ life = "closed"
  /\ life' = "open"
  /\ current' = IF disk.current = None THEN None ELSE Reopened(disk.current)
  /\ requests' = disk.requests
  /\ disk' = [disk EXCEPT !.current = current']
  /\ active' = None
  /\ storageFailed' = FALSE
  /\ UNCHANGED <<builtin, expired, nextId, tasks>>

-----------------------------------------------------------------------------

Next ==
  \/ \E r \in RequestId :
       \/ Propose(r) \/ Trial(r)
       \/ Dispatch(r)
       \/ \E valid \in BOOLEAN : Settle(r, valid)
  \/ Approve \/ Finish \/ Expire
  \/ Timeout \/ StopActive \/ StopIdle
  \/ Dispose \/ Crash \/ Open

\* Timers fire, promise reactions run.
Spec == Init /\ [][Next]_vars /\ WF_vars(Timeout)
             /\ \A r \in RequestId : WF_vars(Dispatch(r))

-----------------------------------------------------------------------------
(* Properties                                                              *)

\* The runner is called once at most for a request identifier, whatever is
\* retried, crashes, or fails to be written in between.
DispatchedOnce == \A r \in RequestId : dispatches[r] <= 1

\* "A mutation is never a usable approval or result until durable": what an open
\* controller shows as approved, running or concluded is what the file holds.
DurableBeforeUsable ==
  life = "open" /\ current # None /\ current.phase # "OUTCOME_UNKNOWN" => disk.current = current

\* The runner is called only for the trial that owns the controller, while its
\* plan is running and no stop has been asked for.
DispatchOwned ==
  [][\A r \in RequestId : dispatches'[r] > dispatches[r] =>
       Owns(r) /\ active.interrupted = "none" /\ current.phase = "RUNNING"]_vars

\* A trial that was stopped, timed out or lost never becomes a measurement, in
\* memory or after a reload.
LateResultDiscarded ==
  [][\A r \in RequestId :
       /\ current # None /\ r \in DOMAIN current.trials
       /\ current.trials[r] \notin {"RUNNING", "COMPLETED"}
       /\ current' # None /\ r \in DOMAIN current'.trials
       => current'.trials[r] # "COMPLETED"]_vars

\* A confirmed stop leaves no runner of the experiment at work, but a synthetic
\* one that has received its abort.
ConfirmedMeansSettled ==
  life = "open" /\ current # None /\ current.stopStatus = "CONFIRMED" =>
    \A r \in executing \cap DOMAIN current.trials : builtin /\ r \in aborted

\* A running plan does not run forever: the timer, a stop or a restart ends it.
RunningEnds == (life = "open" /\ current # None /\ current.phase = "RUNNING")
                 ~> ~(life = "open" /\ current # None /\ current.phase = "RUNNING")

\* "No approved trial is replayed after a reload [...] unresolved custom runner
\* outcomes stay blocked": an injected runner that has not settled either owns
\* the controller or blocks its plan.
UnresolvedStaysBlocked ==
  life = "open" /\ ~builtin =>
    \A r \in executing : Owns(r) \/ (current # None /\ current.phase = "OUTCOME_UNKNOWN")
=============================================================================
