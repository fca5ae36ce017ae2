--------------------------- MODULE PhysicalWorkflow ---------------------------
(***************************************************************************)
(* The physical workflow of the terminal harness: what it shows of the     *)
(* Node's discovery, plan, capability catalog and route preview            *)
(* (cli/src/physical/workflow-core.js), the requests of the operator and   *)
(* of the assistant's tools that bring them (cli/src/pi-extension.js), and *)
(* the report that explains the setup (cli/src/harness/setup-view.js,      *)
(* setup-inspection.js).  Requests overlap and are answered in any order.  *)
(*                                                                         *)
(* A catalog and a route are named by the generation that was current when *)
(* they were asked for, a snapshot by the generation it made; a plan is    *)
(* its interpretationDigest.  Every request may fail.                      *)
(***************************************************************************)
EXTENDS Naturals

CONSTANTS
  RequestSlot,     \* requests under way at a time (bound)
  Plan,
  Nothing,
  MaxGeneration    \* no request or turn begins after it (bound)

ASSUME WorkflowAssumption ==
  MaxGeneration \in Nat /\ Nothing \notin Plan

VARIABLES
  workflow,     \* physicalState
  context,      \* setupContext
  working,      \* a turn of the assistant is under way
  closed,       \* the session was shut down
  requests,     \* the requests under way and how far they are
  view,         \* setup-view: the request whose result it awaits
  attempt,      \* setup-inspection: the reads under way
  report        \* the setup report that is shown

setup == <<view, attempt>>
workflowVars == <<workflow, context, working, closed, requests, view, attempt, report>>

ToolKind == {"inspect", "plan", "catalog", "route"}
RequestKind     == ToolKind \cup {"refresh", "physical"}
Stage    == {"discovering", "discovered", "asking", "planning", "drafting"}

NoRequest == [kind |-> "none", stage |-> "idle", asked |-> 0, plan |-> Nothing]

Workflow == [generation : Nat, status : {"unchecked", "checking", "connected", "unavailable"},
             snapshot : Nat, plan : Plan \cup {Nothing}, exploration : {"none", "draft", "declined"},
             catalog : Nat, route : Nat]
Context  == [version : Nat, route : Nat, relation : {"none", "current", "retired"}]
RequestRecord ==
  {e \in [kind : RequestKind, stage : Stage, asked : Nat, plan : Plan \cup {Nothing}] :
     e.stage = "drafting" => e.plan \in Plan} \cup {NoRequest}
View     == [version : Nat, result : {"none", "inspected", "failed"}]
Attempt  == [version : Nat, caller : {"view", "application"}, live : BOOLEAN]
Report   == [version : Nat, outcome : {"inspected", "failed"}]

ASSUME NothingAssumption == Nothing \notin View

\* Types; a draft belongs to a plan, an answer awaited to a request asked.
WorkflowTypeOK ==
  /\ workflow \in Workflow /\ context \in Context
  /\ working \in BOOLEAN /\ closed \in BOOLEAN
  /\ requests \in [RequestSlot -> RequestRecord]
  /\ view \in View \cup {Nothing} /\ attempt \in Attempt \cup {Nothing}
  /\ report \in Report \cup {Nothing}
  /\ workflow.exploration # "none" => workflow.plan # Nothing
  /\ attempt # Nothing /\ attempt.caller = "view" /\ attempt.live => view \in View /\ view.result = "none"

WorkflowInit ==
  /\ workflow = [generation |-> 0, status |-> "unchecked", snapshot |-> 0, plan |-> Nothing,
                 exploration |-> "none", catalog |-> 0, route |-> 0]
  /\ context = [version |-> 0, route |-> 0, relation |-> "none"]
  /\ working = FALSE /\ closed = FALSE
  /\ requests = [r \in RequestSlot |-> NoRequest]
  /\ view = Nothing /\ attempt = Nothing /\ report = Nothing

-----------------------------------------------------------------------------
(* updatePhysicalWorkflow(): one operator per event                        *)

Following == workflow.generation + 1

Checking == [workflow EXCEPT !.generation = Following, !.status = "checking", !.catalog = 0, !.route = 0]

CatalogChecking == [workflow EXCEPT !.generation = Following, !.catalog = 0, !.route = 0]

RouteChecking == [workflow EXCEPT !.generation = Following, !.route = 0]

\* reset-intent
Reset == [workflow EXCEPT !.generation = Following, !.plan = Nothing, !.exploration = "none",
                          !.catalog = 0, !.route = 0]

Snapshot == [Reset EXCEPT !.status = "connected", !.snapshot = Following]

Error == [Reset EXCEPT !.status = "unavailable", !.snapshot = 0]

Intent(p) == [workflow EXCEPT !.generation = Following, !.status = "connected", !.plan = p,
                              !.exploration = "none", !.route = 0]

PlanError == [workflow EXCEPT !.generation = Following,
                              !.status = IF workflow.snapshot # 0 THEN "connected" ELSE "unavailable",
                              !.plan = Nothing, !.exploration = "none", !.route = 0]

CapabilityCatalog(g) == [workflow EXCEPT !.catalog = g, !.route = 0]

Route(g) == [workflow EXCEPT !.route = g]

RouteError == [workflow EXCEPT !.catalog = 0, !.route = 0]

\* Mutant: an answer counts whenever it comes.
AnyGeneration(g) == TRUE

\* An event that names another generation is dropped.
Current(g) == g = workflow.generation

-----------------------------------------------------------------------------
(* transitionPhysical(): the workflow, and the evidence a setup report may explain *)

\* replaceSetupContext(), which also clears the report.
ReplaceContext(route, relation) ==
  /\ context' = [version |-> context.version + 1, route |-> route, relation |-> relation]
  /\ report' = Nothing

Transition(next) ==
  /\ workflow' = next
  /\ ReplaceContext(next.route, IF next.route # 0 THEN "current" ELSE "none")

\* A new turn retires the proposal; the report may go on explaining it.
Retire ==
  /\ workflow' = Reset
  /\ ReplaceContext(context.route, IF context.route # 0 THEN "retired" ELSE "none")

\* exploration events leave the evidence alone.
Explore(status) ==
  /\ workflow' = [workflow EXCEPT !.exploration = status]
  /\ UNCHANGED <<context, report>>

Ignored == UNCHANGED <<workflow, context, report>>

-----------------------------------------------------------------------------
(* Requests                                                                *)

Begins == ~closed /\ workflow.generation < MaxGeneration

\* A tool runs in a turn; the workcell view refreshes outside of one.
Allowed(kind) ==
  CASE kind \in ToolKind -> working
    [] kind = "refresh"  -> ~working
    [] OTHER             -> TRUE

Goes(r, kind, stage, asked, plan) ==
  requests' = [requests EXCEPT ![r] = [kind |-> kind, stage |-> stage, asked |-> asked, plan |-> plan]]

Ends(r) == requests' = [requests EXCEPT ![r] = NoRequest]

At(r, stage) == requests[r].stage = stage

\* The tools inspect and plan, refresh, the command /physical, the start of a session.
Discover(r, kind) ==
  /\ Begins /\ Allowed(kind) /\ requests[r] = NoRequest
  /\ Transition(Checking)
  /\ Goes(r, kind, "discovering", 0, Nothing)
  /\ UNCHANGED <<working, closed, setup>>

AskCatalog(r) ==
  /\ Begins /\ Allowed("catalog") /\ requests[r] = NoRequest
  /\ Transition(CatalogChecking)
  /\ Goes(r, "catalog", "asking", Following, Nothing)
  /\ UNCHANGED <<working, closed, setup>>

AskRoute(r) ==
  /\ Begins /\ Allowed("route") /\ requests[r] = NoRequest
  /\ Transition(RouteChecking)
  /\ Goes(r, "route", "asking", Following, Nothing)
  /\ UNCHANGED <<working, closed, setup>>

\* The answer names no generation: a late one is taken too.
Discovered(r) ==
  /\ At(r, "discovering")
  /\ Transition(Snapshot)
  /\ CASE requests[r].kind = "inspect" -> Ends(r)
       [] requests[r].kind = "plan"    -> Goes(r, "plan", "planning", 0, Nothing)
       [] OTHER                        -> Goes(r, requests[r].kind, "discovered", 0, Nothing)
  /\ UNCHANGED <<working, closed, setup>>

DiscoveryFails(r) ==
  /\ At(r, "discovering")
  /\ Transition(Error)
  /\ Ends(r)
  /\ UNCHANGED <<working, closed, setup>>

\* refresh goes on to the catalog.
RefreshCatalog(r) ==
  /\ At(r, "discovered") /\ requests[r].kind = "refresh"
  /\ Transition(CatalogChecking)
  /\ Goes(r, "refresh", "asking", Following, Nothing)
  /\ UNCHANGED <<working, closed, setup>>

\* /physical: an outcome is described, or none is.
DescribeOutcome(r) ==
  /\ At(r, "discovered") /\ requests[r].kind = "physical"
  /\ \/ Transition(Reset) /\ Goes(r, "physical", "planning", 0, Nothing)
     \/ Ignored /\ Ends(r)
  /\ UNCHANGED <<working, closed, setup>>

Answered(r) ==
  /\ At(r, "asking")
  /\ LET g == requests[r].asked IN
     IF ~Current(g) THEN Ignored
     ELSE IF requests[r].kind = "route" THEN Transition(Route(g)) ELSE Transition(CapabilityCatalog(g))
  /\ Ends(r)
  /\ UNCHANGED <<working, closed, setup>>

AskingFails(r) ==
  /\ At(r, "asking")
  /\ IF Current(requests[r].asked) THEN Transition(RouteError) ELSE Ignored
  /\ Ends(r)
  /\ UNCHANGED <<working, closed, setup>>

\* For a gap that was reported, /physical offers a commissioning draft.
Planned(r) ==
  /\ At(r, "planning")
  /\ \E p \in Plan :
       /\ Transition(Intent(p))
       /\ \/ Ends(r)
          \/ requests[r].kind = "physical" /\ Goes(r, "physical", "drafting", 0, p)
  /\ UNCHANGED <<working, closed, setup>>

PlanningFails(r) ==
  /\ At(r, "planning")
  /\ Transition(PlanError)
  /\ Ends(r)
  /\ UNCHANGED <<working, closed, setup>>

\* The draft is bound to the plan it was offered for.  Without one the event throws, as
\* the dialog may do, and the handler makes that a plan error; a draft may come to nothing.
Drafted(r) ==
  /\ At(r, "drafting")
  /\ \/ workflow.plan = requests[r].plan /\ Explore("draft")
     \/ workflow.plan # Nothing /\ Explore("declined")
     \/ Transition(PlanError)
     \/ Ignored
  /\ Ends(r)
  /\ UNCHANGED <<working, closed, setup>>

-----------------------------------------------------------------------------
(* The conversation, the camera, the session                               *)

ToolsRun == \E r \in RequestSlot : requests[r].kind \in ToolKind

\* submitIntent and before_agent_start.
TurnStarts ==
  /\ Begins /\ ~ToolsRun
  /\ Retire
  /\ working' = TRUE
  /\ UNCHANGED <<closed, requests, setup>>

TurnSettles ==
  /\ working /\ ~ToolsRun
  /\ working' = FALSE
  /\ UNCHANGED <<workflow, context, closed, requests, setup, report>>

\* The camera was started, stopped, lost or replaced.
CameraInvalidates ==
  /\ Begins
  /\ Transition(Reset)
  /\ UNCHANGED <<working, closed, requests, setup>>

\* The race of the inspector is decided for its caller.
Told(result) ==
  IF attempt.caller = "view" THEN view' = [view EXCEPT !.result = result] ELSE UNCHANGED view

\* session_shutdown; requests under way still end.
Shutdown ==
  /\ ~closed
  /\ closed' = TRUE
  /\ ReplaceContext(0, "none")
  /\ IF attempt # Nothing /\ attempt.live
       THEN attempt' = [attempt EXCEPT !.live = FALSE] /\ Told("failed")
       ELSE UNCHANGED setup
  /\ UNCHANGED <<workflow, working, requests>>

-----------------------------------------------------------------------------
(* The setup report                                                        *)

\* The inspector answers a second request at once that it is busy, also while the
\* reads of one that timed out have not ended.
InspectSetup ==
  /\ ~closed /\ view = Nothing
  /\ report' = Nothing
  /\ view' = [version |-> context.version, result |-> IF attempt = Nothing THEN "none" ELSE "failed"]
  /\ attempt' = IF attempt = Nothing
                  THEN [version |-> context.version, caller |-> "view", live |-> TRUE] ELSE attempt
  /\ UNCHANGED <<workflow, context, working, closed, requests>>

\* The application inspects beside the view.
InspectBeside ==
  /\ ~closed /\ attempt = Nothing
  /\ attempt' = [version |-> context.version, caller |-> "application", live |-> TRUE]
  /\ UNCHANGED <<workflow, context, working, closed, requests, view, report>>

AttemptTimesOut ==
  /\ attempt # Nothing /\ attempt.live
  /\ attempt' = [attempt EXCEPT !.live = FALSE]
  /\ Told("failed")
  /\ UNCHANGED <<workflow, context, working, closed, requests, report>>

\* The context must be the one the reads began with.
AttemptReads ==
  /\ attempt # Nothing
  /\ attempt' = Nothing
  /\ IF ~attempt.live THEN UNCHANGED view
     ELSE \/ attempt.version = context.version /\ Told("inspected")
          \/ Told("failed")
  /\ UNCHANGED <<workflow, context, working, closed, requests, report>>

\* Mutant: the context is not compared again when the result arrives.
ViewSettlesAnyway ==
  /\ view # Nothing /\ view.result # "none"
  /\ report' = IF closed THEN report ELSE [version |-> view.version, outcome |-> view.result]
  /\ view' = Nothing
  /\ UNCHANGED <<workflow, context, working, closed, requests, attempt>>

\* Only a result for the context of the request is shown.
ViewSettles ==
  /\ view # Nothing /\ view.result # "none"
  /\ report' = IF ~closed /\ view.version = context.version
                 THEN [version |-> view.version, outcome |-> view.result] ELSE report
  /\ view' = Nothing
  /\ UNCHANGED <<workflow, context, working, closed, requests, attempt>>

ReportExpires ==
  /\ report # Nothing /\ report.outcome = "inspected"
  /\ report' = Nothing
  /\ UNCHANGED <<workflow, context, working, closed, requests, setup>>

-----------------------------------------------------------------------------

RequestSteps(r) ==
  \/ \E kind \in {"inspect", "plan", "refresh", "physical"} : Discover(r, kind)
  \/ AskCatalog(r) \/ AskRoute(r)
  \/ Discovered(r) \/ DiscoveryFails(r) \/ RefreshCatalog(r) \/ DescribeOutcome(r)
  \/ Answered(r) \/ AskingFails(r) \/ Planned(r) \/ PlanningFails(r) \/ Drafted(r)

WorkflowNext ==
  \/ \E r \in RequestSlot : RequestSteps(r)
  \/ TurnStarts \/ TurnSettles \/ CameraInvalidates \/ Shutdown
  \/ InspectSetup \/ InspectBeside \/ AttemptTimesOut \/ AttemptReads
  \/ ViewSettles \/ ReportExpires

WorkflowSpec == WorkflowInit /\ [][WorkflowNext]_workflowVars

-----------------------------------------------------------------------------
(* Properties                                                              *)

\* A route preview is shown only while nothing has superseded the request for it:
\* no discovery, plan, catalog, other preview, turn or camera change since.  A
\* catalog is shown only with the snapshot it was asked beside, or none.
SupersededNeverShown ==
  /\ workflow.route # 0 => workflow.route = workflow.generation
  /\ workflow.catalog # 0 => workflow.catalog > workflow.snapshot

\* A setup report explains the evidence shown now: the context it was asked for is
\* the latest, and the proposal in it is the one shown, or is told to be retired
\* and none is shown (setup-view.js's comparison, replaceSetupContext).
ReportIsCurrent ==
  report # Nothing =>
    /\ report.version = context.version
    /\ context.relation = "current" => context.route # 0 /\ context.route = workflow.route
    /\ context.relation = "retired" => context.route # 0 /\ workflow.route = 0
=============================================================================
