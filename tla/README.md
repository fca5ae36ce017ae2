# Verification of PhysicalSystems

TLA+ modules that model the parts of this repository where ordering, failure and
ownership decide whether a robot, a camera or an experiment is handled correctly,
TLC runs that check them on small instances, and TLAPS proofs of the results that
hold for every value of the constants.

All source paths below are relative to `src/`. `PROJECT.json` maps every definition
that models code to the lines it stands for.

## 1. The system

An operator works on a physical workcell through a conversation with an agent. The
agent and the operator's browser both reach a *harness* (a local process), which
talks over HTTP to a *Node* (a separate executable beside the hardware that owns
camera captures, commissioning trials and execution runs). Models that drive a robot
run inside a *Runtime session* (Python). The Node is not part of this repository: it
appears in the models only as the code here uses it, and it is marked external.

```
 desktop / browser ──> operator-service ──> physical tools ──┐
        │                    │                               │
        │                    └─> experiments controller      ▼
        ▼                                          workcell controller ── camera client ──┐
   application-host ── agent ── prompt gate        commissioning controller ── client ────┼─> Node
        │                                          execution controller ── client ────────┘
        └─> node-supervisor ──> Node process (optional, owned)
   runtime session: sensor ─> model ─> robot (in the process that runs a model)
```

### Inventory

| Component | Source | State it keeps | Operations | Correct when |
|---|---|---|---|---|
| Runtime session | `packages/runtime/src/tinyedge_runtime/session.py` | life-cycle state, closers still to run, output fence, replay guards, counters | `prepare`, `arm`, `step`, `close`, context exit, `_abort` | no output after a stop; one stop, before the closers; no stale, unbound or repeated output; everything opened is let go |
| Runtime contracts, registry, conformance | `contracts/`, `registry.py`, `conformance.py` | registered adapters and bundles; else none | validate and seal; resolve a protocol, admit a run record; route a skill; register, resolve a plan | nothing unsafe is admitted, nothing disciplined refused; the route is the first usable one; what is resolved is qualified now |
| Experiment controller | `packages/cli/src/harness/experiments/controller.js` | current plan, trials, request ids, active owner, storage latch | propose, approve, trial, finish, stop, timer, dispose, open | a trial runs once at most; nothing counts before it is durable; a late result is no measurement |
| Experiment store, tools, fixture | `experiments/storage.js`, `tools.js`, `fixture.js` | the conversation's file, a directory lock | read, atomic replace | a file is an old or a new state as a whole |
| Workcell camera channel | `packages/cli/src/harness/workcell-controller.js` | status, retained frame, epoch, pending read/start/stops, owned and unconfirmed sessions | poll, inventory, start, stop, dispose | a capture stays owned until it stopped; no frame of a stopped capture; no start overtakes a stop |
| Workcell conversation channel | same file | pending question, busy latch, viewers | ask, answer, submit intent | one answer per question; busy always ends |
| Camera preview client | `packages/cli/src/physical/camera-preview-client.js` | none | bounded requests | each ends in five seconds, for the exact session |
| Execution controller | `packages/cli/src/harness/execution-controller.js` | listed runs, selected run, receipt, pending read/action/stop | refresh, prepare, select, receipt, approve, reconcile, stop, dispose | no older version replaces a newer one; nothing unresolved is released |
| Execution client and contracts | `packages/cli/src/physical/execution-*.js` | none | bounded requests, digest checks | one digest per revision |
| Commissioning controller | `packages/cli/src/harness/commissioning-controller.js` | status, epoch, attempted approvals, retained unknown outcome | refresh, inspect, prepare, approve, stop, recovery | an approval goes out once; an unknown outcome is never cleared by a late read |
| Operator service | `packages/operator-service/src/service.js` | connections, projects, ownership journal, continuations | connect, disconnect, commands, recovered stop, close | one conversation owns a device; ownership survives a restart |
| Physical workflow core and tools | `packages/cli/src/physical/workflow-core.js`, `pi-extension.js` | generation, snapshot, plan, intent, catalog, route | inspect, resolve, catalog, route preview, turns, camera invalidation, shutdown | nothing superseded is shown |
| Harness extension, setup inspection | `setup-view.js`, `setup-inspection.js` | setup context, reads under way, report | inspect, time out, expire | a report explains what is shown now |
| Node client, routes | `node-client.js`, `route-contracts.js` | none | bounded requests; every field of a receipt compared | only a genuine evaluation of the question is shown |
| Harness host, prompt gate | `application-host.js`, `session-prompt-gate.js` | prompts by request id, pending request, transition | prompt, cancel, switch conversation or model | a request id runs once; one prompt at a time; Cancel ends it |
| Desktop application | `packages/desktop/src/application.js` | continuations by request id, command latch | approve and continue, continue, stop, cancel, reconnect, restart | a continuation begins once, never after Stop |
| Node installation | `packages/cli/src/physical/node-installation.js`, `commands/setup-node.js` | environments, receipts, selection, lock, on disk | setup, selection, managed start | only a verified environment is selected or started; receipts are permanent |
| Node supervisor, harness command | `node-supervisor.js`, `commands/harness.js` | child process, readiness | start, authenticate, dispose | startup and shutdown are bounded; a Node that may run is reported |
| Sign-in, command line, packaging | `packages/*`, `scripts/` | credentials, build products | I/O | not modelled (section 8) |

### How the parts interact, and what is hard

* **Asynchronous requests overlap.** Each controller runs on one JavaScript thread, so a
  stretch of code between two `await`s is atomic. Everything else interleaves: polls,
  actions and stops to the same Node are in flight together, and answers overtake one
  another. `cameraEpoch`, commissioning's `epoch`, workflow's `generation` and the run
  revisions are the guards against this.
* **Answers are lost.** A client gives up after five seconds, whether or not the Node has
  served the request. "Not confirmed" is a state of its own in every controller.
* **Callbacks re-enter.** Adapter and cancellation calls of the Runtime session may close
  it on the same thread.
* **Writes fail and the process crashes.** The experiment file and the ownership journal are
  written before a mutation counts; a setup may be killed at every step, and nobody cleans up.
* **Requests are sent again.** A desktop that lost an answer repeats a continuation under its
  identifier; the identifiers are kept in bounded caches that a new process starts without.
* **Judged values are judged for an instant.** Evidence, assessments, attestations and receipts
  are sealed by digest, but the world they were made about goes on.
* **Shutdown meets work in progress.** `dispose()` and `close()` must account for requests
  they did not start.

`PROJECT.json` lists 40 such hazards, each at its line, with the properties that cover it or
the reason why none does (two of them).

## 2. Modules

| Module | Models | Role |
|---|---|---|
| `RobotLease` | what a session promises about its robot | abstract specification |
| `RuntimeSession` | `session.py` | detailed specification, refines `RobotLease` |
| `MCRuntimeSession` | small observations, chunks and instants | instance for TLC |
| `Runtime_proofs` | theorems about `RuntimeSession` and the contracts of the runtime | TLAPS |
| `ExperimentController` | `experiments/controller.js` with its file | specification and properties |
| `ExperimentController_proofs` | theorems about `ExperimentController` | TLAPS |
| `WorkcellCamera` | the camera half of `workcell-controller.js` | specification and properties |
| `WorkcellCamera_proofs` | theorems about `WorkcellCamera` | TLAPS |
| `ExecutionController` | `execution-controller.js` | specification and properties |
| `ExecutionController_proofs` | theorems about `ExecutionController` | TLAPS |
| `CommissioningController` | `commissioning-controller.js` and the rules of its client | specification and properties |
| `CaptureLedger` | what the service's store promises about captures | abstract specification |
| `OperatorDevices` | device ownership in `service.js` | detailed specification, refines `CaptureLedger` |
| `OperatorDevices_proofs` | theorems about `OperatorDevices` | TLAPS |
| `HarnessHost` | `application-host.js`, `session-prompt-gate.js`, the question of `workcell-controller.js` | component of `DesktopContinuation` |
| `DesktopContinuation` | continuation of an experiment in `application.js` | extends `HarnessHost`; specification and properties |
| `DesktopContinuation_proofs` | theorems about it and the host | TLAPS |
| `PhysicalWorkflow` | `workflow-core.js`, the tools of `pi-extension.js`, setup inspection | specification and properties |
| `Harness_proofs` | theorems about `PhysicalWorkflow` and `CommissioningController` | TLAPS |
| `NodeInstallation` | `node-installation.js`, `setup-node.js` | component of `ManagedNode` |
| `ManagedNode` | `node-supervisor.js`, `commands/harness.js` | extends `NodeInstallation`; specification and properties |
| `ManagedNode_proofs` | theorems about both | TLAPS |
| `TypedValues` | fields and arguments of `contracts/physical.py` | operators of the next two |
| `PhysicalRun` | resolution and admission in `contracts/physical.py` | specification and properties |
| `SkillRouting` | `contracts/routing.py`, `route-contracts.js` | specification and properties |
| `RuntimeRegistry` | `registry.py`, plans of `contracts/models.py` | specification and properties |
| `RuntimeContracts` | the three contracts side by side | extends `PhysicalRun`, instantiates the other two; states their properties |
| `MCRuntimeContracts` | small manifests, records, catalogs and bundles | extends `RuntimeContracts`; instance for TLC |

Composed: the harness host in the desktop that drives it, and the installations in the commands
that share them. `OperatorDevices` reduces the camera controller to what the service reads of
it, and `DesktopContinuation` the experiment to phase and identity.

### RuntimeSession

The session is synchronous, so its state is *which adapter, clock or cancellation call it is
blocked in* (`pc`) and the attributes of the object. An action is the return of that call
and the code up to the next one: `SensorReturns(o)` is the rest of `step()` after
`sensor.read_observation()` until the clock is read, `OutputTimed(now)` is the judgement at
the output boundary, and so on. `CallFails` is every exception: adapter errors, a chunk or
observation outside the contract, cancellation, a clock that goes back. It runs `_abort`.

`Close` is a call of `close()` by the owner, `NestedClose` the same method called by code that
runs *inside* the waiting call (an operator stop delivered on the session's thread); the outer
call then continues over the changed object, which is what the re-checks of the fence in
`step()` exist for. `SafeStopReturns`, `CloseNext` and `CleanupEnds` are the steps of the
cleanup: any of them may fail and the following ones still run.

`prepare()` and `arm()` have no such re-check. An adapter may hold its device from the moment its
`open()` is called, and does hold it when the call returns: `held` gains it at both ends, so
that an open whose closer a nested close has run in between still leaves it held. The history variable `overtaken` records the
calls of `prepare()` and `arm()` in which a close landed; two properties are stated up to it (sections 4 and 7).

`held`, `armed`, `stopCalls`, `uses` and `output` are not attributes of the code: they record
what the adapters have seen or may have acquired, and the properties are about them. Data are abstracted to what
the checks compare: an observation is its name, sequence, capture and receipt time; a chunk
its source, creation time, window, and whether its profile and its limits match.

### ExperimentController

One action per method, plus the timer, the dispatch microtask, the settling of the runner, and
the environment (`Expire`, `Crash`). `Persist` is `save()`: the file becomes the new state as a
whole, or the latch is set and memory says OUTCOME_UNKNOWN. It is part of each action that
saves. A trial is named by its request identifier. The rejection handler that follows a failed
save inside `complete()` is merged into `Complete`: it is a microtask with no event between.
`builtin` distinguishes the synthetic fixture, which is stopped by its signal, from an injected
runner, which may ignore it. `Open` is the constructor over the file that is found.

### WorkcellCamera

The Node opens one capture at a time; other clients open and stop captures too. `read`, `start`
and `stops` are the requests in flight with the Node's answer once it has served them.
`cameraEpoch` is compared only with the value captured when the request was issued, so each
request carries the outcome of that comparison (`fresh`) and what advances the epoch clears it.
`start` merges `cameraStart`, `cameraActionPending` and `cameraActionDone`. Whether the agent is
busy or a question is open decides only whether Start is offered, so Start is left free of it.
`told` and `everStopped` are history variables.

A Start that timed out may still reach the Node (`lateStart`). The controller then has no name
for the capture that opens, so no ownership property can be stated about it; the model lets
it happen so that the other properties hold in its presence.

### ExecutionController

A refresh, one action and one stop are in flight at a time and overlap freely. The revision of a
run stands for its digest, which it determines (the contracts refuse two digests for one
revision). `fresh` is "available and younger than `MAX_READ_AGE`". What a refresh does with a
listing depends on when the Node *answered*, so the listing is taken when it is asked and may
be arbitrarily old when it is merged. The approval's context revision is not modelled: it is
compared with no `await` between its two readings (`execution-controller.js:205-216`).

`Refreshed` leaves `fresh` free, because availability is the Node's word. The
version known of a run that is *not* selected may fall when a refresh merges the selected run
back, so monotonicity is claimed for the selected run only.

### CommissioningController

A status read, one action and one Stop are in flight together. `reading`, `action` and `stop` hold the
Node's answer once it has served the request; each may fail before or after that. `epoch` is
compared only with the value captured when a read or an action began, so these carry the
outcome (`current`), and `Superseded` is `++epoch`. A Stop compares no epoch: its answer is accepted
even after dispose, which is why `Admissible` alone has to keep it from undoing anything.

A recovery inspection is two requests: a status, which may come from a restarted Node
(`RecoveryObserved`), and the inspection in the session it named; the second keeps the place of
the first in `action`. `recoveryOnly` is the controller that `service.js:458-496` makes for an owner
retained over a restart: it gets recovery requests and its polling, and the service itself sends
its Stop, whose second request is left to the Node (`Withdraws`).

The Node's `session` advances when it restarts, keeping the trial as unknown, or when it is replaced by
one without it. `origin` is `trialNodeSessionId`. A trial whose terminal phase is known and whose
Stop is not is still "stopping". Ages, expiry times, `canAct` and the `can*` flags only withhold what the
guards allow. `resolved`, `doubt`, `submitted` and `withdrawn` are history variables, as is
`reading.doubted`.

### OperatorDevices

One project of the service: the link to its Node, the controller that one conversation holds on
it, the journal (`records` in memory, `disk` in the store) and the Stop that waits for nothing.
The awaits of `physicalContext()` and `withPhysical()` end in the turn in which they began, so a
command is one step up to its first request. `Save` is the atomic write or the latch of
`storageFailed`; `Restart` is the process ending anywhere, with what the store holds marked as
recovered. A capture without an identity yet is journalled without one. `RefinesLedger` maps `node` and the
conversations and captures on `disk` (`Entries`) to the `world` and the `ledger` of `CaptureLedger`.

### HarnessHost and DesktopContinuation

`HarnessHost` has the state of one host: the session, the bounded list of request identifiers, the
request under way with its stage (preflight, then turn), the transition, the question asked. It
is extended by `DesktopContinuation`, whose actions are the commands of the desktop: `Continue` and
`ApproveAndContinue` review the plan, `Resume` and `Declined` are what follows the awaited
approval, and `Reconnect`, `Restart` and `ConversationChanged` replace host, process and session.
Today `approve()` answers in the same turn; the code awaits it and reviews the plan again, and
the model lets anything independent come in between. `begun` and `stopped` are history variables.

### PhysicalWorkflow

`Retire` and `ReplaceContext` are the two ways the shown state is superseded; every one of the operator's
commands and of the assistant's tools is a request that overlaps with the others, also with
another of the same turn. A catalog and a route are named by the generation they were asked in, which
is what the code compares. A late snapshot or plan may replace a newer one: nothing in the
repository denies that, and no property here does. The setup view and its inspector keep at most one
read under way each, with the timeout and the supersession of the code.

### NodeInstallation and ManagedNode

A command is at one `stage`; `Killed` ends it at any of them and leaves the disk as it is. The
lock, the environment, the receipt (`0` while it is being written) and the selection are what the
disk holds; `Damage` is an environment changed later by somebody else, `RemoveLock` an operator who
clears the lock of an interrupted setup, as the error message asks, once nobody builds. `ManagedNode`
adds the child process and its supervisor. The child is external: it may say it is ready, exit, or
ignore the shutdown. "unspawned" is a spawn that reported an error and never an exit.

### PhysicalRun, SkillRouting, RuntimeRegistry

The code is pure here: it judges sealed values. The interesting question is therefore what its
judgement is worth beside the host that makes these values, which is not in this repository. Each
module has such a host as a machine and the code's judgement as operators translated one by
one: `Admitted`, `Route`, `ReceiptAccepted`, `Resolves`.

* `PhysicalRun`: the host follows the protocol over locks, commands, evidence and stops, and may take
  up to `MaxSlips` steps the discipline forbids. `AdmittedIsSafe` is soundness, `DisciplineIsAdmitted`
  completeness: what is safe and what is disciplined is stated without the operators of admission.
  `SealedRecord` is the normalisation of a record before it is judged: commands in the order in which
  they were dispatched, each identity once. What the modelled host writes is in that order already,
  which is proved (`SealedIsSame`), not assumed.
* `SkillRouting`: the catalog, the state of the workcell and the policy change between the steps of a
  host that writes requests and keeps receipts; an answer is put together from parts of
  several receipts.
* `RuntimeRegistry`: adapters are references, so they change after their registration; the target is
  attested anew after the plan was sealed.

`RuntimeContracts` puts the three side by side: they share no state, and each has variables and
constants of its own. `MCRuntimeContracts` chooses one of the three at the start. A digest is the value it was computed
from, so the models say nothing about collisions or canonical JSON.

## 3. Runs

| Run | Instance | States | Shows |
|---|---|---|---|
| `runtime_session` | 2 observations, 2 steps, replay window 2, nested closes | 884 000 | freshness, refinement of `RobotLease`; everything is released in the end and a robot left armed is reported, unless a close overtook its open or its arm |
| `experiment` | 2 plans, 4 requests, 2 trials each | 61 000 | one dispatch per request, durability, ownership of dispatch, late results, confirmed stops, end of RUNNING |
| `experiment_reopen` | 1 plan, 1 trial | – | violation: an unresolved runner does not stay blocked (finding 1) |
| `camera` | 2 captures | 469 000 | ownership, no stopped frame, no start over a stop, cleanup covers everything, dispose ends |
| `execution` | 2 runs, 2 versions, history of 1 | 1 020 000 | selection never falls, receipt belongs to its version, nothing unresolved is released, no request blocks for ever |
| `commissioning` | 1 trial, 2 Node sessions, 1 recovery offer | 2 660 000 | the trial shown never goes back, no release before the Node's resolution or clearance, one approval, actions on a fresh read only |
| `operator` | 2 conversations, 3 captures | 8 500 | refinement of `CaptureLedger`; a running capture with a name is held or blocks, after a restart too |
| `operator_stop` | 2 conversations, 2 captures | – | violation: Stop does not reach the first capture of a conversation (finding 2) |
| `desktop` | 2 conversations, 2 identifiers, 2 plans, caches of 1 | 235 000 | a continuation begins once and never after Stop; Cancel ends the request |
| `workflow` | 2 requests at a time, 2 plans, 4 generations | 4 820 000 | no superseded route or catalog is shown; the report is about what is shown |
| `managed` | 2 commands, 2 releases, 3 environments | 897 000 | verified environments only, one builder, permanent receipts, bounded startup and shutdown |
| `contracts` | 2 instants ahead, 1 slip; 2 receipts, 1 change; 1 change, 1 new attestation | 3 260 000 | an admitted run was safe, a disciplined one is admitted, the first usable route, genuine evaluations, a qualified plan |

All runs but `desktop`, which always has a next step, set `CHECK_DEADLOCK FALSE`: a closed session,
a disposed controller, an ended command or a finished run may have nothing left to do, and model
bounds (steps, captures, generations) run out. Progress is stated as
liveness properties instead.

### Why these bounds are enough

* `MaxSteps = 2` with `MaxTracked = 2`: an observation is met a second time inside the replay
  window, and a step follows a finished one; the proofs hold for any window and number of steps. Instants 0..3 with ages of 1
  put every comparison below, at and above its limit.
* `MaxExperiments = 2`, four requests, `TrialLimit = 2`: a second plan follows a terminal one, a
  second trial follows a first, and identifiers are left to retry after each restart. Crashes
  and write failures are not bounded.
* `MaxSessions = 2`: one capture is stopped, lost or foreign while the next one opens; an answer
  about the first arrives in the life of the second. A third plays no new part, since at most
  one is at work in the Node and at most one is owned.
* `MaxRevision = 2` with two runs: an older and a newer version of each, one unresolved
  and one resolved, with a history limit of one so that remembering a run drops another.
* `commissioning`: one trial meets its own session and a restarted one, as unknown or not at all,
  and its recovery is offered, withdrawn, confirmed and cleared. The same properties were
  also checked on two trials with one session and one offer (5 500 000 states) and on two trials
  with two sessions and no offer (2 000 000), which exceed or duplicate what the run needs.
* `operator`: two conversations contend for one Node; three captures give one before a crash, one
  after it, and one of the other conversation.
* `desktop`: `CacheLimit` and `ContinuationLimit` are 1 where the code has 256, so that the second
  identifier already evicts the first; two plans, because an identifier may come again for a
  later plan. The proofs hold for any limits.
* `workflow`: two requests overtake each other in both orders, and four generations allow a
  discovery, the question it is asked beside, what supersedes that, and a new one.
* `managed`: two commands, each a setup or a managed start, race for two releases, one of them the old
  one without a managed start; the third environment is the retry after a build that was left.
* `contracts`: two instants give stale and future evidence at an age of one, and equality at every bound;
  one slip is one broken rule of the discipline anywhere; two protocols resolve (two moves, and
  a look alone), and others lack one thing each; four catalogs include two that cannot be sealed; one question has a wrong
  type. The routing host
  begins with both implementations released and with calibration and qualification in order, and the one change may
  withdraw one or break that order; the theorems need neither. Runs under
  two slips were not explored.

### Fairness

* `RuntimeSession`: weak fairness of adapter calls (they return or raise; a call that blocks for
  ever blocks the thread) and of the cleanup loop; strong fairness of `Close`, for a session
  used as a context manager, whose exit calls it whenever control is back with the caller.
* `ExperimentController`: weak fairness of the trial timer and of the dispatch microtask. A
  runner is *not* assumed to settle.
* `WorkcellCamera`: weak fairness of "replies or fails" for each request, since every client call
  carries a five-second `AbortSignal.timeout`, and of the code that continues after it. The Node
  is *not* assumed to answer. `ExecutionController`: the same for its action and its Stop.
* `DesktopContinuation`: weak fairness of the settling of a *cancelled* request only: a preflight
  settles, and a turn whose signal is aborted ends. Nobody has to answer a question, and a trial
  or a turn that was not cancelled may last for ever.
* `ManagedNode`: weak fairness of three timers, the start timeout, the bound of the status request and
  the shutdown deadline (or the exit seen before it). The child need not do anything.
* `CommissioningController`, `OperatorDevices`, `PhysicalWorkflow` and the contracts state no liveness
  property and assume no fairness.

## 4. Properties

* **FreshOutput, RefinesLease, EventuallyReleased, ArmedIsReported** (session): the output was judged at the
  instant of the output, not before inference; one stop comes before the closers even when
  close, abort and context exit are nested; a failing open still gets its closer.
  `EventuallyReleased` excepts an adapter that a close overtook while it was being opened
  (`OpenedLate`), and `ArmedIsReported` a robot that a close overtook while it was being opened or armed
  (`overtaken \cap RobotCall`): without these exceptions TLC refutes both (section 7). `RobotLease`
  begins with the registration of the robot's closer and ends with its run.
  Proved only: **ReverseOrder, OnlyLateOpensHeld, TelemetryAccepted**.
* **DispatchedOnce, DispatchOwned, DurableBeforeUsable, LateResultDiscarded,
  ConfirmedMeansSettled, RunningEnds** (experiments): across crashes, failed writes and retries.
* **OwnedUntilStopped, StoppedNeverShown, StartNeverOvertakesStop, CleanupCovers, DisposeEnds**
  (camera): across lost and reordered answers and other clients.
* **SelectedNeverFalls, ReceiptMatchesRun, NeverReleasedUnresolved, PendingEnds** (execution):
  across overlapping refreshes, actions and stops.
* **ShownNeverFalls, NeverReleased, RetainedUntilCleared, ApprovedOnce, ActsOnFreshRead**
  (commissioning): across restarts of the Node, lost answers, and answers that a Stop or a later
  action has overtaken.
* **RefinesLedger, NamedIsHeldOrBlocks** (operator service): at every moment at which the process could
  crash, with lost answers, lost connections and failed writes. `RefinesLedger` says of the store that a
  capture is noted before it is asked for, is in it while it may be running, is named once, for the
  conversation that asked, and keeps that name until it is closed. Proved only: **RunningIsOnDisk**
  (which the refinement implies) and that no capture is recorded for two conversations.
* **BegunOnce, NoneAfterStop, CancelEnds** (desktop): across retries after lost answers, evicted
  identifiers, another conversation, a new host, a new process, and a Stop beside an approval.
* **SupersededNeverShown, ReportIsCurrent** (workflow): for overlapping tools, answers in any order,
  and a setup inspection whose evidence is replaced before, during or after it.
* **OnlyVerified, OneBuilder, ReceiptPermanent, StartAndStopEnd** (managed Node): across kills at
  every step and races of commands. Proved only: **RunningIsReported**.
* **AdmittedIsSafe, DisciplineIsAdmitted, RouteIsFirstUsable, ShownIsGenuine, ResolvedIsQualified**
  (contracts): what was judged holds of the world at that instant, and nothing good is refused.

The type invariants of all components are proved, and no run spends its time on them. `SkillRouting` and
`RuntimeRegistry` need none of their own: what their theorems rely on is part of `RoutingInv` and
`RegistryInv`. Every safety invariant and every action property above is checked by a run *and*
stated by a theorem for all values of the constants; the liveness properties are only checked.

Each is broken by a mutant of the code it is about (`mutants` in `PROJECT.json`); the mutated
forms stand beside the operators they change, marked `Mutant:`.

## 5. Proofs

Every theorem is of the specification of its component (`Spec`, for the contracts `RunSpec`,
`Routing!Spec` and `Registry!Spec`), for all values of the constants, from an inductive invariant. Leaves are
kept small: each is proved in a fraction of the time the provers are given. Each proof has one lemma per conjunct or per action, and in it one step per action of
`Next`; an action property follows from the invariant of the state it starts in.

### Runtime session

`Runtime_proofs` proves, for any observations, chunks, clock, limits and number of steps
that satisfy `SessionAssumption` (the wire contracts: a receipt is not before its capture, an
expiry is after the start of validity), the inductive invariant

    IInv == TypeOK /\ LeaseInv /\ HeldInv /\ ReplayInv /\ CounterInv /\ FreshOutput /\ ClosedInv

* `LeaseInv` ties the robot's closer, `robotOpen` and `stopCalls` to the call the session is blocked in:
  a robot that is open and not stopped has its closer registered, and a session that drives it
  without a fence has it open. Without it a nested close could not be shown to stop once.
* `HeldInv`: what may be held has its closer registered or was opened late, and an adapter that is
  being opened has its closer registered until a close lands in that call.
* `ReplayInv` says what the locals hold at each `pc`: an observation recorded has been seen and
  not used yet, a chunk after inference was judged against it. Output is fresh because of it.
* `CounterInv` bounds the sum of the outcomes by the attempts with one to spare while a step is
  under way, which is why the sum never exceeds them after it.
* `ClosedInv`: when a step is under way or control is back, CLOSED means that no closer is
  left. It cannot be claimed inside `prepare()`, where an open that a nested close overtook
  still registers its closer.

One lemma per conjunct shows that every step preserves it (`TypeOKStep` ... `ClosedInvStep`), with
a step of the proof per action. From `Invariance` follow `TypeCorrect`, `OutputIsFresh`,
`OnlyLateOpensLeak`, `TelemetryIsAccepted`, the action property `ClosersReverseOpens`, and
`SessionImplementsLease`: initial states map to initial states of `RobotLease` and each step
maps to a step or a stutter.

`OnlyLateOpensLeak` says that a session at rest in CLOSED holds no adapter but one opened late, and none
at all where no adapter call closes the session.

`ArmedRobotsAreReported` needs more. `ArmedInv` says, as long as no close has landed in `open_robot`,
in the cancellation check of `arm()` or in the arm itself, that a robot still to be armed has its closer
registered and no stop behind it, that a confirmed stop left it disarmed and a failed one was reported, and
that a robot armed after its closer was asked to stop and its closer was reported.

### Contracts of the runtime

`Runtime_proofs` also proves the five properties of `RuntimeContracts`.

*Soundness of admission.* `AdmissionIsSound` says it of any record whatever: if a protocol resolves and
`Admitted` accepts a typed record whose commands are strictly in order, the run it tells of never moved a
device unlocked, on stale evidence, out of bounds or without a stop. `RecordInv` (the record that the host
keeps is typed and its commands are in order) then gives `AdmittedRunsAreSafe`.

*Completeness.* `DisciplinedRunsAreAdmitted` is the converse, for the host: the record of a run without a
slip is admitted, also where a command, a stop or a precondition failed. Its invariant is

    DisciplineInv == slips \in Nat /\ (slips = 0 => Kept(protocol, run, clock))

where `Kept` is what discipline leaves in a record at every instant, finished or not:

* `LifeKept`, `CommandsKept`: the states follow one another; the steps are sent one by one, the next once the
  last was acknowledged, within their timeouts. `ShapeKept`: locks and stops have the fields they are written with.
* `LocksKept`, `SpansKept`: what the protocol needs, and nothing else, was locked before the run was; a lock spans every
  command, sight and stop that needs it, and what a device that moved needs stays locked until its stop.
* `StopsKept`: a device is stopped after it has moved for the last time. `EvidenceKept`: what a dispatch relies
  on was seen to hold in its time, and no older than it may be.
* `EndKept`: a run that is over has left nothing under way, loose or locked, and says how it ended.

One lemma per operation of the host keeps all of them (`TickKept`, `AcquireKept`, ..., `EndingKept`);
`KeptIsAdmitted` says that they are enough at the end.

*Registry.* `ResolvesTheQualified`: a plan is resolved exactly when it is qualified now. The code judges the
limits of a target place by place, `ResolvedIsQualified` states them by axis; `AllowsByPlace` relates the two where
axes have one place each. `RegistryInv` says that what is registered was accepted under its own name,
and so was the plan in hand.

*Routing.* `RoutesTheFirstUsable` and `ShowsTheGenuine`, from `RoutingInv`: every receipt is the outcome of one
evaluation of a request written for its question (`Evaluated`), whose observations were true of the state they
were made in (`Observed`). `CandidateJudged`, `RequestJudged` and
`RouteSelects` say what the operators of `SkillRouting` return; `DecisionFields` is why comparing
the fields the client compares is enough.

### Experiments

`ExperimentController_proofs` proves, over crashes, reloads and failed writes,

    IInv == TypeOK /\ KnownInv /\ OnceInv /\ PhaseInv /\ ActiveInv /\ QueueInv /\ DurableBeforeUsable
            /\ RunnerInv /\ ConfirmedMeansSettled /\ DiskSettled /\ LateInv

* `KnownInv`: what the file knows of requests is known in memory, and what is queued for dispatch is on
  file. With `OnceInv` (a queued request was not dispatched, a running one was once) it gives `DispatchedOnce`.
* `ActiveInv` and `QueueInv`: the active trial is running until it is interrupted; what is queued and not
  aborted owns the controller. This is why the runner is called for its owner only.
* `RunnerInv`: a runner at work owns the controller, or was aborted, or was left behind by an
  earlier controller with a plan that nothing can continue. `DiskSettled` carries
  `ConfirmedMeansSettled` over a reload, `LateInv` the discarding of late results.

Theorems: `Invariance`, `TypeCorrect`, `RequestsRunOnce`, `DurableFirst`, `ConfirmedStopsSettle` and, for the
action properties, `DispatchesAreOwned`, `LateResultsDiscarded`.

### Camera channel

`WorkcellCamera_proofs` proves, for any number of captures, the inductive invariant

    IInv == TypeOK /\ NamedInv /\ AnswerInv /\ OwnedUntilStopped /\ OwedInv
            /\ StoppedNeverShown /\ StartInv /\ TeardownInv

* `NamedInv`: whatever names a capture (an answer under way, what is shown, owned or owed) names
  one that has been opened. A later opening therefore cannot be confused with it.
* `AnswerInv`: an answer under way that says "stopped" is still true when it arrives, however late,
  since a capture does not come back. `OwnedUntilStopped` rests on it.
* `OwedInv`: a Stop that was requested is pending, unconfirmed or achieved, and a read that is still
  current was asked after the last such request. This is the role of `cameraEpoch`, and
  what keeps the frame of a stopped capture from being shown.
* `StartInv`: at most one capture is owned, a start is pending only while none is, and it is on its
  way to the Node only if no Stop was requested since. `TeardownInv`: what each step of dispose has
  accounted for, from which `CleanupCovers` follows at its end.

One lemma per conjunct, one step per action. The theorems are `TypeCorrect`, `CapturesStayOwned`,
`StoppedFramesStayHidden`, `CleanupIsComplete` and, for the action property, `StartsFollowStops`. The
only assumption is that the number of captures is a natural number.

### Execution channel

`ExecutionController_proofs` proves

    IInv == TypeOK /\ ShownInv /\ ReadingInv /\ ActionInv /\ StopInv /\ SelectedInv /\ ReceiptMatchesRun

All of it is about `Behind`: what is known of a run, shown or in an answer under way, is a version
the Node has had, agrees with the Node's in the same version, and is final once it needs no
resolution. `SelectedInv` keeps the selected run in the list, in no earlier version; this alone is
what a merge compares with. Theorems: `Invariance`, `TypeCorrect`, `ReceiptIsOfTheRun`, `ShownCameFromTheNode`
and, for the action properties, `SelectedDoesNotFall`, `OnlyTheNodeReleases`.

### Commissioning channel

`Harness_proofs` proves, with any number of trials, Node sessions and recovery offers,

    CommissioningInv == TypeOK /\ ShownInv /\ ReadingInv /\ ActionInv /\ StopInv /\ DoubtInv
                        /\ OfferInv /\ submitted \subseteq attempted

* `Heard`: a status the Node has had and whose claims (resolved, cleared) are still true of
  it; `NotBefore`: it does not tell of an earlier phase of the trial shown. Every status shown or
  under way is heard, and what an answer that still counts may say is not before what is shown.
* `ReadingInv` and `ActionInv` are the role of `epoch`: a read that counts overlaps no action and no Stop,
  an action that counts overlaps no Stop. `StopInv` does without: a Stop compares no epoch, and
  `Admissible` has to refuse what it must not show.
* `DoubtInv`: in doubt about a prepare nothing is asked but a status. `OfferInv`: a recovery that may be
  confirmed is of an offer that was not withdrawn.

Theorems: `CommissioningInvariance`, `CommissioningTypeCorrect` and, for the action properties, `ShownGoesForward`,
`OwnerIsNeverReleased`, `RetainedOwnerIsCleared`, `ApprovesOnce`, `RequestsRelyOnFreshReads`.

### Operator service

`OperatorDevices_proofs` proves, for any conversations and captures and at every moment at which the process
may end,

    IInv == TypeOK /\ SavedInv /\ WrittenInv /\ ActingInv /\ CoveredInv /\ RunningIsOnDisk

`WrittenInv` says that a start without a name was written before it went out, `SavedInv` that the file is
the memory until a save fails. `CoveredInv` is the strengthening that survives a failed save: whatever the
Node may be running is the capture of the controller or recorded as something to recover.
Theorems: `Invariance`, `TypeCorrect`, `RunningIsRecorded`, `NamedIsNeverForgotten` (for `NamedIsHeldOrBlocks`) and
`RunningIsHeldOrBlocks`, which no run checks: it holds when the store failed as well.

*The store as a ledger.* `ServiceKeepsLedger` shows that the service implements `CaptureLedger`, which knows of
no controllers, links, failed saves or restarts: only the captures at the Node and the entries that a restart
would find. The mapping forgets what the marks `unknown` and `recovered` of a record say, so a restart is a
stutter. Besides `IInv` it needs

    LInv == RequestedInv /\ NamedInv /\ OpenedInv

* `RequestedInv`: a start that waits or is out is recorded for the conversation that owns the controller,
  and a held capture under its own name; this is what a new name takes the place of.
* `NamedInv` is the converse: a name that was not there before the restart is the held capture's, and a
  capture that was not answered has none. So no name is written twice, and when the controller lets
  go of a capture, the journal may too.
* `OpenedInv`: only what was opened has a name; an answer, a poll or a recovered stop removes it only as the
  capture is closed.

`RewrittenNames` says which names `journalPhysical` keeps and adds; `ChangesWrite` derives the ledger's
step for any change of the controller's view, and `QuietWrites` for any step that adds at most requests, so
that each action is left with what it does to the phase. `OneConversationPerCapture` is then proved of the
ledger alone and holds of the service because it implements it.

### Desktop

`DesktopContinuation_proofs` proves, for any conversations, identifiers, plans and cache limits, type
correctness (`TypeInv`, one conjunct per group of variables) and

    PlanInv == OnlyHere /\ OnePlace /\ Ordered /\ Spent /\ Halted /\ BegunOnce

* `OnlyHere`: only the open conversation has an approved plan, and it is not being replaced: so the
  identifiers kept for one conversation are enough. `OnePlace`, `Ordered`: a plan is the current one
  of one conversation, and plans that were stopped or continued are not proposed again.
* `Spent` is the heart: a continuation that began is on record for as long as its plan could be
  continued. When the record is evicted or lost, the plan has ended. `Halted` is the same for Stop.

The theorems are `TypeCorrect`, `ContinuedOnce` and, for the action property, `StopHolds`.

### Physical workflow

`Harness_proofs` proves, for any number of requests and generations,

    WorkflowInv == WorkflowTypeOK /\ SupersededNeverShown /\ AskInv /\ ContextInv /\ ReportInv

`AskInv` bounds what an awaited answer was asked for by the generation and puts it after the snapshot
shown; this is why comparing one number on arrival is enough. `ContextInv` ties what the setup
context tells of the route to the route shown. Theorems: `WorkflowInvariance`, `WorkflowTypeCorrect`,
`SupersededStaysHidden`, `ReportsAreCurrent`.

### Managed Node

`ManagedNode_proofs` proves, for any number of commands, releases and environments,

    IInv == TypeOK /\ OneBuilder /\ EachHolds /\ ReceiptsInv /\ SelectedInv

`Holds` says what a command may rely on at each stage (the lock while it builds, an environment
verified for its release from then on, its own receipt until it unlocks), `Owns` what child it may
have; the lemmas `CommandMoves` and `DiskMoves` carry them over a step of one command beside all others.
Theorems: `TypeCorrect`, `OnlyVerifiedStarts`, `BuildsAlone`, `ReceiptsStay`, `RunningReported`.

### Assumptions

Every assumption is named in the module that declares the constants, and evaluated in the runs.

* `None` (or `Nothing`) is none of the values it stands beside (`NoneAssumption`, `NothingAssumption`): it
  models `null`. Numbers of captures, plans, generations, cache entries and the like are naturals.
* `SessionAssumption`: a receipt is not before its capture and an expiry is after the start of validity, as the
  wire contracts check before the session sees them.
* `RunAssumption`: the manifest was accepted (`PhysicalSystemManifest.from_dict` refuses it otherwise),
  protocols are sequences, ages are numbers, and `Nothing` is not a number.
* `RegistryAssumption` and `RoutingAssumption`: policies, limits, ages and orders of preference have the types
  that the `from_dict` constructors establish.

Beyond these types none of them restricts what the Node, a model, a host or an adapter does.

## 6. Only model-checked

* Liveness (`EventuallyReleased`, `RunningEnds`, `DisposeEnds`, `PendingEnds`, `CancelEnds`,
  `StartAndStopEnd`) and ENABLED, which are out of the prover's reach.
* The two violations (`UnresolvedStaysBlocked`, `StopReaches`): they are counterexamples.

Induction over data is out of reach too. Little here needs it: no module uses RECURSIVE operators, and where the
code loops over a sequence the model says which places it looks at. The one order that has to be unique
(`OnlyIdentity`) follows from the least place at which two orders differ.

## 7. Findings

1. `experiment_reopen`: dispose with an injected runner at work and a failing save leaves RUNNING
   in the file; the reload makes it INTERRUPTED, and a new plan is accepted although
   `controller.js:118-119` says that unresolved outcomes stay blocked.
2. `operator_stop`: a camera started as the first device action of a conversation is journalled before
   its controller has a status (`service.js:379`), as an unknown outcome without an identity. Such a
   record needs recovery for ever and refuses every device request of the project, the Stop of that
   very camera included, although `service.js:412` promises that Stop remains available.

3. **A close inside an open or an arm** has no run of its own: it is where `EventuallyReleased`,
   `OnlyLateOpensHeld` and `ArmedIsReported` make their exceptions, and TLC finds it when they are taken out.
   `runtime-v1.md:98-100` says that each closer is registered before its open "so partial acquisition is
   still cleaned up", and the docstring of `close()` (`session.py:397`) "Fence output, stop once when
   prepared, and close every resource."
   * *Lost adapter.* `prepare()` waits in `sensor.open()`; a call inside it closes the session, which runs
     the sensor's closer and becomes CLOSED; the open then goes on, acquires its device and returns or raises
     (`session.py:142-152`). Nothing on the stack closes it any more. If it returned, `prepare()`
     goes on as well, and the model and the robot it opens are closed by a later close only
     (`session.py:149` makes the state PREPARED again). The same holds of `model.open()` and `robot.open()`.
   * *Robot armed after its stop.* A close lands in the cancellation check of `arm()` or in
     `robot.arm()` itself: the stop is confirmed, the closers run, the state is CLOSED; then `robot.arm()` arms the
     robot, the state becomes ARMED (`session.py:158-159`) and `cleanup_failures` is empty. After a
     close inside `robot.open()` the state becomes PREPARED, and a later `arm()` does the same.
   * Output stays fenced in all of them: `RefinesLease` and `FreshOutput` hold without exception.

Met while modelling, and no finding because no text of the repository says otherwise:

* Execution: a refresh in flight whose listing was answered before an unconfirmed preparation makes
  preparing possible again (`execution-controller.js:109`), with a new key.
* Managed Node: a setup killed between creating and writing a receipt leaves an empty one, which
  fails every later start or setup of that release; a spawn that reports an error and no
  exit makes the shutdown wait and be reported unconfirmed; a setup that a managed start runs
  replaces a selection made meanwhile without reading it again.
* Physical run: a run that failed after acquiring only some locks cannot record them; a cancelled run
  cannot keep captured precondition evidence; the age of the evidence of a blocked
  precondition counts to the end of the run; what only the moving step locked may be released
  before the stop.
* Routes: the client requires the manifest of a request to be the expected workcell's, so a decision
  with `manifest_mismatch` is refused, not shown; it does not compare the digest of the registry
  snapshot or the binding of the candidate.

## 8. Not modelled

* Parsing, hashing, canonical JSON, the shape of identifiers, HTTP: no state; their verdicts are inputs.
* Runtime: artifacts and the qualification of a resolved protocol, conformance fixtures. That an actuating
  device binds a commissioned artifact and a calibration (`physical.py:529-547`) is left out: the model
  admits more manifests than the code, and what is shown holds of all of them.
* Experiment store: the directory lock, tool wrappers, the arithmetic of the fixture.
* Operator service: the continuations of `service.js:247-295`, the project catalog, retained
  commissioning (its controller is in `CommissioningController`), shutdown, and a disconnect beside a
  device request: it may leave a controller nobody refers to (`service.js:559`), forgets the owner
  of the Node without asking whose it is (`:561`), and a connect that copies a link with a request
  under way keeps it marked as busy (`:334`).
* Desktop: expiry, trial budget and storage failures of the plan, the scripted guide, the catalog,
  provider sign-in, SSH attachment, the window host. Harness host: renaming, archiving, transcript,
  `dispose()` beside a request (the desktop disposes of an idle host only).
* Conversation channel: `submitIntent`'s own latch and the number of viewers.
* Workcell camera: a Start that the client gave up on opens a capture (`workcell-controller.js:372`);
  the model lets it happen and claims nothing about it.
* Harness extension: the execution inspector, the agent skill, the historical setup report, the HTTP view
  server. Node client: bounded requests, snapshots, intents, inference.
* Sign-in, token stores, the MCP client, packaging and release scripts: I/O around third-party
  services and the file system. The bundled agent runtime: third-party code shipped as built files.

## 9. Plan

Done: 1 `RuntimeSession` with `RobotLease`, 2 `ExperimentController`, 3 `WorkcellCamera`,
4 `ExecutionController`, 5 `CommissioningController`, 6 `OperatorDevices` with `CaptureLedger`, 7 `HarnessHost` with
`DesktopContinuation`, 8 `PhysicalWorkflow`, 9 `NodeInstallation` with `ManagedNode`, 10 the
contracts of the runtime; the proofs of all ten.

Next, in this order:

1. `CaptureLedger` for runs and gripper trials, which the service records in the same journal.
2. The operator service beside a disconnect, and its continuations.
3. An abstract specification of "a request is carried out once" that the experiments, the desktop
   and the commissioning channel could share.
