--------------------------- MODULE Harness_proofs ---------------------------
(***************************************************************************)
(* Proofs about two controllers of the operator harness.                   *)
(*                                                                         *)
(* PhysicalWorkflow: its types, that no superseded preview or catalog is   *)
(* shown, and that a setup report explains what is shown, for any number   *)
(* of requests and generations.                                            *)
(*                                                                         *)
(* CommissioningController: its types and its five action properties, for  *)
(* any number of Node starts, trials and recovery offers.                  *)
(***************************************************************************)
EXTENDS PhysicalWorkflow, CommissioningController, TLAPS

-----------------------------------------------------------------------------
(* The physical workflow                                                   *)

\* An answer still awaited was asked for no later than now, and if nothing came
\* since, after the snapshot that is shown.
AskInv ==
  /\ workflow.snapshot <= workflow.generation
  /\ \A r \in RequestSlot :
       requests[r].stage = "asking" =>
         /\ 0 < requests[r].asked /\ requests[r].asked <= workflow.generation
         /\ requests[r].asked = workflow.generation => workflow.snapshot < workflow.generation

\* What the context tells of the route is what the workflow shows.
ContextInv ==
  /\ context.relation = "current" => context.route # 0 /\ context.route = workflow.route
  /\ context.relation = "retired" => context.route # 0 /\ workflow.route = 0

ReportInv == report # Nothing => report.version = context.version

WorkflowInv == WorkflowTypeOK /\ SupersededNeverShown /\ AskInv /\ ContextInv /\ ReportInv

\* What every event that moves the generation leaves.
Moved(w) ==
  /\ w \in Workflow /\ w.generation = Following /\ w.route = 0
  /\ w.snapshot <= w.generation
  /\ w.catalog # 0 => w.catalog = workflow.catalog /\ w.snapshot = workflow.snapshot
  /\ w.exploration # "none" => w.plan # Nothing

\* The events that begin a discovery or a turn move the generation and drop what is shown.
LEMMA CheckingMoves ==
  ASSUME WorkflowTypeOK, AskInv
  PROVE  Moved(Checking) /\ Moved(CatalogChecking) /\ Moved(RouteChecking) /\ Moved(Reset)
<1>0. workflow \in Workflow /\ workflow.snapshot <= workflow.generation
      /\ (workflow.exploration # "none" => workflow.plan # Nothing)
  BY DEF WorkflowTypeOK, AskInv
<1>n. PICK n \in Nat : n = Following /\ n = workflow.generation + 1
  BY <1>0 DEF Following, Workflow
<1>1. Moved(Checking)
  <2>1. Checking = [workflow EXCEPT !.generation = n, !.status = "checking", !.catalog = 0, !.route = 0]
    BY <1>n DEF Checking
  <2>2. Checking \in Workflow
    BY <1>0, <1>n, <2>1 DEF Workflow
  <2> QED BY <1>0, <1>n, <2>1, <2>2 DEF Moved, Workflow
<1>2. Moved(CatalogChecking)
  <2>1. CatalogChecking = [workflow EXCEPT !.generation = n, !.catalog = 0, !.route = 0]
    BY <1>n DEF CatalogChecking
  <2>2. CatalogChecking \in Workflow
    BY <1>0, <1>n, <2>1 DEF Workflow
  <2> QED BY <1>0, <1>n, <2>1, <2>2 DEF Moved, Workflow
<1>3. Moved(RouteChecking)
  <2>1. RouteChecking = [workflow EXCEPT !.generation = n, !.route = 0]
    BY <1>n DEF RouteChecking
  <2>2. RouteChecking \in Workflow
    BY <1>0, <1>n, <2>1 DEF Workflow
  <2> QED BY <1>0, <1>n, <2>1, <2>2 DEF Moved, Workflow
<1>4. Moved(Reset)
  <2>1. Reset = [workflow EXCEPT !.generation = n, !.plan = Nothing, !.exploration = "none",
                     !.catalog = 0, !.route = 0]
    BY <1>n DEF Reset
  <2>2. Reset \in Workflow
    BY <1>0, <1>n, <2>1 DEF Workflow
  <2> QED BY <1>0, <1>n, <2>1, <2>2 DEF Moved, Workflow
<1> QED BY <1>1, <1>2, <1>3, <1>4

\* So do the events that answer one.
LEMMA AnswersMove ==
  ASSUME WorkflowTypeOK, AskInv
  PROVE  Moved(Snapshot) /\ Moved(Error) /\ Moved(PlanError) /\ \A p \in Plan : Moved(Intent(p))
<1>0. workflow \in Workflow /\ workflow.snapshot <= workflow.generation
  BY DEF WorkflowTypeOK, AskInv
<1>n. PICK n \in Nat : n = Following /\ n = workflow.generation + 1
  BY <1>0 DEF Following, Workflow
<1>1. Moved(Snapshot)
  <2>1. Snapshot = [workflow EXCEPT !.generation = n, !.plan = Nothing, !.exploration = "none",
                     !.catalog = 0, !.route = 0, !.status = "connected", !.snapshot = n]
    BY <1>n DEF Snapshot, Reset
  <2>2. Snapshot \in Workflow
    BY <1>0, <1>n, <2>1 DEF Workflow
  <2> QED BY <1>0, <1>n, <2>1, <2>2 DEF Moved, Workflow
<1>2. Moved(Error)
  <2>1. Error = [workflow EXCEPT !.generation = n, !.plan = Nothing, !.exploration = "none",
                     !.catalog = 0, !.route = 0, !.status = "unavailable", !.snapshot = 0]
    BY <1>n DEF Error, Reset
  <2>2. Error \in Workflow
    BY <1>0, <1>n, <2>1 DEF Workflow
  <2> QED BY <1>0, <1>n, <2>1, <2>2 DEF Moved, Workflow
<1>3. Moved(PlanError)
  <2>1. PlanError = [workflow EXCEPT !.generation = n,
             !.status = IF workflow.snapshot # 0 THEN "connected" ELSE "unavailable",
             !.plan = Nothing, !.exploration = "none", !.route = 0]
    BY <1>n DEF PlanError
  <2>2. PlanError \in Workflow
    BY <1>0, <1>n, <2>1 DEF Workflow
  <2> QED BY <1>0, <1>n, <2>1, <2>2 DEF Moved, Workflow
<1>4. ASSUME NEW p \in Plan PROVE Moved(Intent(p))
  <2>1. Intent(p) = [workflow EXCEPT !.generation = n, !.status = "connected", !.plan = p,
                     !.exploration = "none", !.route = 0]
    BY <1>n DEF Intent
  <2>0. p \in Plan \cup {Nothing}
    OBVIOUS
  <2>a. [workflow EXCEPT !.generation = n, !.status = "connected", !.plan = p,
                         !.exploration = "none", !.route = 0] \in Workflow
    BY <1>0, <1>n, <2>0 DEF Workflow
  <2>2. Intent(p) \in Workflow
    BY <2>1, <2>a
  <2> QED BY <1>0, <1>n, <2>1, <2>2 DEF Moved, Workflow
<1> QED BY <1>1, <1>2, <1>3, <1>4

\* The parts of the invariant that do not speak of requests under way.
DisplayInv ==
  /\ workflow \in Workflow /\ context \in Context /\ report \in Report \cup {Nothing}
  /\ workflow.exploration # "none" => workflow.plan # Nothing
  /\ workflow.snapshot <= workflow.generation
  /\ SupersededNeverShown /\ ContextInv /\ ReportInv

\* Showing an event that moves the generation keeps them.
LEMMA ShowMoved ==
  ASSUME WorkflowInv, NEW w, Moved(w), Transition(w)
  PROVE  DisplayInv' /\ workflow' = w
<1>0. workflow' = w /\ report' = Nothing /\ context \in Context
      /\ context' = [version |-> context.version + 1, route |-> 0, relation |-> "none"]
  BY DEF WorkflowInv, WorkflowTypeOK, Transition, ReplaceContext, Moved
<1>1. context' \in Context
  BY <1>0 DEF Context
<1>2. ContextInv' /\ ReportInv'
  BY <1>0 DEF ContextInv, ReportInv
<1>3. SupersededNeverShown'
  BY <1>0 DEF WorkflowInv, SupersededNeverShown, Moved
<1> QED BY <1>0, <1>1, <1>2, <1>3 DEF DisplayInv, Moved

\* A turn that begins retires the route that is shown.
LEMMA RetireMoves ==
  ASSUME WorkflowInv, Retire
  PROVE  DisplayInv' /\ workflow' = Reset /\ Moved(Reset)
<1>0. workflow' = Reset /\ Moved(Reset) /\ report' = Nothing /\ context \in Context
  BY CheckingMoves DEF WorkflowInv, WorkflowTypeOK, Retire, ReplaceContext
<1>1. context' = [version |-> context.version + 1, route |-> context.route,
                  relation |-> IF context.route # 0 THEN "retired" ELSE "none"]
  BY DEF Retire, ReplaceContext
<1>2. context' \in Context
  BY <1>0, <1>1 DEF Context
<1>3. ContextInv' /\ ReportInv'
  BY <1>0, <1>1 DEF ContextInv, ReportInv, Moved
<1>4. SupersededNeverShown'
  BY <1>0 DEF WorkflowInv, SupersededNeverShown, Moved
<1> QED BY <1>0, <1>2, <1>3, <1>4 DEF DisplayInv, Moved

\* Awaited answers stay behind when the generation moves on.
LEMMA AskMoved ==
  ASSUME WorkflowInv, Moved(workflow'),
         \A q \in RequestSlot : requests'[q].stage = "asking" =>
           \/ requests'[q] = requests[q]
           \/ requests'[q].asked = Following /\ workflow'.snapshot < Following
  PROVE  AskInv'
<1>0. /\ workflow.generation \in Nat /\ workflow'.generation = workflow.generation + 1
      /\ workflow'.snapshot <= workflow'.generation
      /\ requests \in [RequestSlot -> RequestRecord]
  BY DEF WorkflowInv, WorkflowTypeOK, Moved, Following, Workflow
<1>1. ASSUME NEW q \in RequestSlot, requests'[q].stage = "asking"
      PROVE  /\ 0 < requests'[q].asked /\ requests'[q].asked <= workflow'.generation
             /\ requests'[q].asked = workflow'.generation => workflow'.snapshot < workflow'.generation
  <2>1. CASE requests'[q].asked = Following /\ workflow'.snapshot < Following
    BY <1>0, <2>1 DEF Following
  <2>2. CASE requests'[q] = requests[q]
    <3>1. 0 < requests[q].asked /\ requests[q].asked <= workflow.generation
      BY <1>1, <2>2 DEF WorkflowInv, AskInv
    <3>2. requests[q].asked \in Nat
      BY <1>0 DEF RequestRecord, NoRequest
    <3> QED BY <1>0, <2>2, <3>1, <3>2
  <2> QED BY <1>1, <2>1, <2>2
<1> QED BY <1>0, <1>1 DEF AskInv

\* A request's record, whichever it becomes.
LEMMA Records ==
  /\ NoRequest \in RequestRecord
  /\ \A kind \in RequestKind, stage \in Stage, asked \in Nat, plan \in Plan \cup {Nothing} :
       (stage = "drafting" => plan \in Plan) =>
       [kind |-> kind, stage |-> stage, asked |-> asked, plan |-> plan] \in RequestRecord
BY DEF RequestRecord

\* A request's step that shows a moved workflow.
LEMMA RequestMoves ==
  ASSUME WorkflowInv, NEW w, Moved(w), Transition(w), NEW r \in RequestSlot, NEW e \in RequestRecord,
         requests' = [requests EXCEPT ![r] = e],
         e.stage = "asking" => e.asked = Following /\ w.snapshot < Following,
         UNCHANGED <<working, closed, setup>>
  PROVE  WorkflowInv'
<1>1. DisplayInv' /\ workflow' = w
  BY ShowMoved
<1>0. requests \in [RequestSlot -> RequestRecord]
  BY DEF WorkflowInv, WorkflowTypeOK
<1>2. requests' \in [RequestSlot -> RequestRecord]
  BY <1>0
<1>3. ASSUME NEW q \in RequestSlot, requests'[q].stage = "asking"
      PROVE  \/ requests'[q] = requests[q]
             \/ requests'[q].asked = Following /\ workflow'.snapshot < Following
  BY <1>0, <1>1, <1>3
<1>4. AskInv'
  BY <1>1, <1>3, AskMoved
<1>5. WorkflowTypeOK'
  BY <1>1, <1>2 DEF WorkflowInv, WorkflowTypeOK, DisplayInv, setup
<1> QED BY <1>1, <1>4, <1>5 DEF WorkflowInv, DisplayInv

\* A request that ends without moving the generation.
LEMMA RequestEnds ==
  ASSUME WorkflowInv, NEW r \in RequestSlot, Ends(r), DisplayInv',
         workflow'.generation = workflow.generation, workflow'.snapshot = workflow.snapshot,
         UNCHANGED <<working, closed, setup>>
  PROVE  WorkflowInv'
<1>0. requests \in [RequestSlot -> RequestRecord] /\ requests' = [requests EXCEPT ![r] = NoRequest]
  BY DEF WorkflowInv, WorkflowTypeOK, Ends
<1>1. requests' \in [RequestSlot -> RequestRecord]
  BY <1>0, Records
<1>2. ASSUME NEW q \in RequestSlot, requests'[q].stage = "asking"
      PROVE  requests'[q] = requests[q]
  BY <1>0, <1>2 DEF NoRequest
<1>3. AskInv'
  BY <1>2 DEF WorkflowInv, AskInv
<1>4. WorkflowTypeOK'
  BY <1>1 DEF WorkflowInv, WorkflowTypeOK, DisplayInv, setup
<1> QED BY <1>3, <1>4 DEF WorkflowInv, DisplayInv

\* The current context may be replaced without a change of the workflow.
LEMMA ShownStays == ASSUME WorkflowInv, Ignored PROVE DisplayInv'
BY DEF WorkflowInv, WorkflowTypeOK, Ignored, DisplayInv, SupersededNeverShown, AskInv, ContextInv, ReportInv

\* An answer still awaited is shown.
LEMMA ShowAnswer ==
  ASSUME WorkflowInv, NEW w \in Workflow, Transition(w),
         w.generation = workflow.generation, w.snapshot = workflow.snapshot,
         w.plan = workflow.plan, w.exploration = workflow.exploration,
         w.route # 0 => w.route = w.generation,
         w.catalog # 0 => w.catalog > w.snapshot
  PROVE  DisplayInv' /\ workflow' = w
<1>0. workflow' = w /\ report' = Nothing /\ context \in Context
  BY DEF WorkflowInv, WorkflowTypeOK, Transition, ReplaceContext
<1>1. context' = [version |-> context.version + 1, route |-> w.route,
                  relation |-> IF w.route # 0 THEN "current" ELSE "none"]
  BY DEF Transition, ReplaceContext
<1>2. context' \in Context
  BY <1>0, <1>1 DEF Context, Workflow
<1>3. ContextInv' /\ ReportInv'
  BY <1>0, <1>1 DEF ContextInv, ReportInv
<1>4. SupersededNeverShown'
  BY <1>0 DEF SupersededNeverShown
<1> QED BY <1>0, <1>2, <1>3, <1>4 DEF WorkflowInv, WorkflowTypeOK, AskInv, DisplayInv

\* Each step of a request keeps the invariant.
LEMMA RequestsKeep ==
  ASSUME WorkflowInv, NEW r \in RequestSlot, RequestSteps(r)
  PROVE  WorkflowInv'
<1>0. WorkflowTypeOK /\ AskInv /\ SupersededNeverShown /\ workflow \in Workflow
      /\ requests \in [RequestSlot -> RequestRecord] /\ workflow.generation \in Nat /\ Following \in Nat
      /\ workflow.snapshot < Following
  BY DEF WorkflowInv, WorkflowTypeOK, AskInv, Workflow, Following
<1>k. RequestKind = {"inspect", "plan", "catalog", "route", "refresh", "physical"}
  BY DEF RequestKind, ToolKind
<1>s. Stage = {"discovering", "discovered", "asking", "planning", "drafting"} /\ Nothing \in Plan \cup {Nothing}
  BY DEF Stage
<1>a. /\ requests[r].asked \in Nat
      /\ requests[r].stage # "idle" => requests[r].kind \in RequestKind
  BY <1>0 DEF RequestRecord, NoRequest
<1>1. ASSUME NEW kind \in {"inspect", "plan", "refresh", "physical"}, Discover(r, kind) PROVE WorkflowInv'
  <2> DEFINE e == [kind |-> kind, stage |-> "discovering", asked |-> 0, plan |-> Nothing]
  <2>1. e \in RequestRecord /\ e.stage # "asking"
    BY <1>k, <1>s, Records
  <2>2. /\ Transition(Checking) /\ requests' = [requests EXCEPT ![r] = e]
        /\ UNCHANGED <<working, closed, setup>>
    BY <1>1 DEF Discover, Goes
  <2>3. Moved(Checking)
    BY <1>0, CheckingMoves
  <2> HIDE DEF e
  <2> QED BY <2>1, <2>2, <2>3, RequestMoves
<1>2. CASE AskCatalog(r)
  <2> DEFINE e == [kind |-> "catalog", stage |-> "asking", asked |-> Following, plan |-> Nothing]
  <2>1. e \in RequestRecord /\ e.asked = Following
    BY <1>0, <1>k, <1>s, Records
  <2>2. /\ Transition(CatalogChecking) /\ requests' = [requests EXCEPT ![r] = e]
        /\ UNCHANGED <<working, closed, setup>>
    BY <1>2 DEF AskCatalog, Goes
  <2>3. Moved(CatalogChecking) /\ CatalogChecking.snapshot < Following
    BY <1>0, CheckingMoves DEF CatalogChecking, Workflow
  <2> HIDE DEF e
  <2> QED BY <2>1, <2>2, <2>3, RequestMoves
<1>3. CASE AskRoute(r)
  <2> DEFINE e == [kind |-> "route", stage |-> "asking", asked |-> Following, plan |-> Nothing]
  <2>1. e \in RequestRecord /\ e.asked = Following
    BY <1>0, <1>k, <1>s, Records
  <2>2. /\ Transition(RouteChecking) /\ requests' = [requests EXCEPT ![r] = e]
        /\ UNCHANGED <<working, closed, setup>>
    BY <1>3 DEF AskRoute, Goes
  <2>3. Moved(RouteChecking) /\ RouteChecking.snapshot < Following
    BY <1>0, CheckingMoves DEF RouteChecking, Workflow
  <2> HIDE DEF e
  <2> QED BY <2>1, <2>2, <2>3, RequestMoves
<1>4. CASE Discovered(r)
  <2>1. Transition(Snapshot) /\ UNCHANGED <<working, closed, setup>> /\ Moved(Snapshot)
    BY <1>0, <1>4, AnswersMove DEF Discovered
  <2>2. requests[r].kind \in RequestKind
    BY <1>4, <1>a DEF Discovered, At
  <2>3. PICK e \in RequestRecord : e.stage # "asking" /\ requests' = [requests EXCEPT ![r] = e]
    <3>1. CASE requests[r].kind = "inspect"
      BY <1>4, <3>1, Records DEF Discovered, Ends, NoRequest
    <3>2. CASE requests[r].kind = "plan"
      BY <1>4, <3>2, <1>k, <1>s, Records DEF Discovered, Goes
    <3>3. CASE requests[r].kind \notin {"inspect", "plan"}
      BY <1>4, <3>3, <2>2, <1>s, Records DEF Discovered, Goes
    <3> QED BY <3>1, <3>2, <3>3
  <2> QED BY <2>1, <2>3, RequestMoves
<1>5. CASE DiscoveryFails(r)
  <2>1. Transition(Error) /\ UNCHANGED <<working, closed, setup>> /\ Moved(Error)
        /\ requests' = [requests EXCEPT ![r] = NoRequest]
    BY <1>0, <1>5, AnswersMove DEF DiscoveryFails, Ends
  <2>2. NoRequest \in RequestRecord /\ NoRequest.stage # "asking"
    BY Records DEF NoRequest
  <2> QED BY <2>1, <2>2, RequestMoves
<1>6. CASE RefreshCatalog(r)
  <2> DEFINE e == [kind |-> "refresh", stage |-> "asking", asked |-> Following, plan |-> Nothing]
  <2>1. e \in RequestRecord /\ e.asked = Following
    BY <1>0, <1>k, <1>s, Records
  <2>2. /\ Transition(CatalogChecking) /\ requests' = [requests EXCEPT ![r] = e]
        /\ UNCHANGED <<working, closed, setup>>
    BY <1>6 DEF RefreshCatalog, Goes
  <2>3. Moved(CatalogChecking) /\ CatalogChecking.snapshot < Following
    BY <1>0, CheckingMoves DEF CatalogChecking, Workflow
  <2> HIDE DEF e
  <2> QED BY <2>1, <2>2, <2>3, RequestMoves
<1>7. CASE DescribeOutcome(r)
  <2>1. CASE Transition(Reset) /\ Goes(r, "physical", "planning", 0, Nothing)
    <3> DEFINE e == [kind |-> "physical", stage |-> "planning", asked |-> 0, plan |-> Nothing]
    <3>1. e \in RequestRecord /\ e.stage # "asking"
      BY <1>k, <1>s, Records
    <3>2. requests' = [requests EXCEPT ![r] = e] /\ UNCHANGED <<working, closed, setup>>
      BY <1>7, <2>1 DEF DescribeOutcome, Goes
    <3>3. Moved(Reset)
      BY <1>0, CheckingMoves
    <3> HIDE DEF e
    <3> QED BY <2>1, <3>1, <3>2, <3>3, RequestMoves
  <2>2. CASE Ignored /\ Ends(r)
    <3>1. DisplayInv' /\ workflow' = workflow /\ UNCHANGED <<working, closed, setup>>
      BY <1>7, <2>2, ShownStays DEF DescribeOutcome, Ignored
    <3> QED BY <2>2, <3>1, RequestEnds
  <2> QED BY <1>7, <2>1, <2>2 DEF DescribeOutcome
<1>8. CASE Answered(r)
  <2>0. requests[r].stage = "asking" /\ Ends(r) /\ UNCHANGED <<working, closed, setup>>
    BY <1>8 DEF Answered, At
  <2> DEFINE g == requests[r].asked
  <2>1. CASE ~Current(g)
    <3>1. DisplayInv' /\ workflow' = workflow
      BY <1>8, <2>1, ShownStays DEF Answered, Ignored
    <3> QED BY <2>0, <3>1, RequestEnds
  <2>2. CASE Current(g)
    <3>0. g \in Nat /\ g = workflow.generation /\ 0 < g /\ workflow.snapshot < g
      BY <1>0, <1>a, <2>0, <2>2 DEF AskInv, Current
    <3> HIDE DEF g
    <3>1. CASE requests[r].kind = "route"
      <4>0. Transition(Route(g))
        BY <1>8, <2>2, <3>1 DEF Answered, g
      <4>1. Route(g) \in Workflow
        BY <1>0, <3>0 DEF Route, Workflow
      <4>2. Route(g) = [workflow EXCEPT !.route = g]
        BY DEF Route
      <4>3. DisplayInv' /\ workflow' = Route(g)
        BY <1>0, <3>0, <4>0, <4>1, <4>2, ShowAnswer DEF Workflow, SupersededNeverShown
      <4> QED BY <1>0, <2>0, <4>2, <4>3, RequestEnds DEF Workflow
    <3>2. CASE requests[r].kind # "route"
      <4>0. Transition(CapabilityCatalog(g))
        BY <1>8, <2>2, <3>2 DEF Answered, g
      <4>1. CapabilityCatalog(g) \in Workflow
        BY <1>0, <3>0 DEF CapabilityCatalog, Workflow
      <4>2. CapabilityCatalog(g) = [workflow EXCEPT !.catalog = g, !.route = 0]
        BY DEF CapabilityCatalog
      <4>3. DisplayInv' /\ workflow' = CapabilityCatalog(g)
        BY <1>0, <3>0, <4>0, <4>1, <4>2, ShowAnswer DEF Workflow
      <4> QED BY <1>0, <2>0, <4>2, <4>3, RequestEnds DEF Workflow
    <3> QED BY <3>1, <3>2
  <2> QED BY <2>1, <2>2
<1>9. CASE AskingFails(r)
  <2>0. Ends(r) /\ UNCHANGED <<working, closed, setup>>
    BY <1>9 DEF AskingFails
  <2>1. CASE Ignored
    <3>1. DisplayInv' /\ workflow' = workflow
      BY <2>1, ShownStays DEF Ignored
    <3> QED BY <2>0, <3>1, RequestEnds
  <2>2. CASE Transition(RouteError)
    <3>1. RouteError \in Workflow
      BY <1>0 DEF RouteError, Workflow
    <3>2. RouteError = [workflow EXCEPT !.catalog = 0, !.route = 0]
      BY DEF RouteError
    <3>3. DisplayInv' /\ workflow' = RouteError
      BY <1>0, <2>2, <3>1, <3>2, ShowAnswer DEF Workflow
    <3> QED BY <1>0, <2>0, <3>2, <3>3, RequestEnds DEF Workflow
  <2> QED BY <1>9, <2>1, <2>2 DEF AskingFails
<1>10. CASE Planned(r)
  <2>1. PICK p \in Plan : /\ Transition(Intent(p))
                          /\ \/ Ends(r)
                             \/ requests[r].kind = "physical" /\ Goes(r, "physical", "drafting", 0, p)
    BY <1>10 DEF Planned
  <2>2. Moved(Intent(p)) /\ UNCHANGED <<working, closed, setup>>
    BY <1>0, <1>10, AnswersMove DEF Planned
  <2>3. PICK e \in RequestRecord : e.stage # "asking" /\ requests' = [requests EXCEPT ![r] = e]
    <3>1. CASE Ends(r)
      BY <3>1, Records DEF Ends, NoRequest
    <3>2. CASE Goes(r, "physical", "drafting", 0, p)
      BY <3>2, <1>k, <1>s, Records DEF Goes
    <3> QED BY <2>1, <3>1, <3>2
  <2> QED BY <2>1, <2>2, <2>3, RequestMoves
<1>11. CASE PlanningFails(r)
  <2>1. Transition(PlanError) /\ UNCHANGED <<working, closed, setup>> /\ Moved(PlanError)
        /\ requests' = [requests EXCEPT ![r] = NoRequest]
    BY <1>0, <1>11, AnswersMove DEF PlanningFails, Ends
  <2>2. NoRequest \in RequestRecord /\ NoRequest.stage # "asking"
    BY Records DEF NoRequest
  <2> QED BY <2>1, <2>2, RequestMoves
<1>12. CASE Drafted(r)
  <2>0. Ends(r) /\ UNCHANGED <<working, closed, setup>>
        /\ requests' = [requests EXCEPT ![r] = NoRequest]
    BY <1>12 DEF Drafted, Ends
  <2>1. CASE Ignored
    <3>1. DisplayInv' /\ workflow' = workflow
      BY <2>1, ShownStays DEF Ignored
    <3> QED BY <2>0, <3>1, RequestEnds
  <2>2. CASE Transition(PlanError)
    <3>1. Moved(PlanError)
      BY <1>0, AnswersMove
    <3>2. NoRequest \in RequestRecord /\ NoRequest.stage # "asking"
      BY Records DEF NoRequest
    <3> QED BY <2>0, <2>2, <3>1, <3>2, RequestMoves
  <2>3. ASSUME NEW how \in {"draft", "declined"}, Explore(how), workflow.plan # Nothing PROVE WorkflowInv'
    <3>1. workflow' = [workflow EXCEPT !.exploration = how] /\ UNCHANGED <<context, report>>
      BY <2>3 DEF Explore
    <3>2. [workflow EXCEPT !.exploration = how] \in Workflow
      BY <1>0 DEF Workflow
    <3>3. DisplayInv'
      BY <1>0, <2>3, <3>1, <3>2
      DEF WorkflowInv, WorkflowTypeOK, DisplayInv, SupersededNeverShown, AskInv, ContextInv, ReportInv, Workflow
    <3>4. workflow'.generation = workflow.generation /\ workflow'.snapshot = workflow.snapshot
      BY <1>0, <3>1 DEF Workflow
    <3> QED BY <2>0, <3>3, <3>4, RequestEnds
  <2>4. requests[r].plan # Nothing
    BY <1>0, <1>12, WorkflowAssumption DEF Drafted, At, RequestRecord, NoRequest
  <2> QED BY <1>12, <2>1, <2>2, <2>3, <2>4 DEF Drafted
<1> QED BY <1>1, <1>2, <1>3, <1>4, <1>5, <1>6, <1>7, <1>8, <1>9, <1>10, <1>11, <1>12 DEF RequestSteps

\* A turn and a camera change move the generation beside the requests.
LEMMA TurnsKeep ==
  ASSUME WorkflowInv, TurnStarts \/ TurnSettles \/ CameraInvalidates \/ Shutdown
  PROVE  WorkflowInv'
<1>0. WorkflowTypeOK /\ AskInv /\ requests' = requests
  BY DEF WorkflowInv, TurnStarts, TurnSettles, CameraInvalidates, Shutdown
<1>1. CASE TurnStarts
  <2>1. DisplayInv' /\ Moved(workflow')
    BY <1>1, RetireMoves DEF TurnStarts
  <2>2. AskInv'
    BY <1>0, <2>1, AskMoved
  <2>3. WorkflowTypeOK'
    BY <1>0, <1>1, <2>1 DEF WorkflowTypeOK, DisplayInv, TurnStarts, setup
  <2> QED BY <2>1, <2>2, <2>3 DEF WorkflowInv, DisplayInv
<1>2. CASE TurnSettles
  <2>1. UNCHANGED <<workflow, context, report, closed, requests, setup>> /\ working' \in BOOLEAN
    BY <1>2 DEF TurnSettles
  <2> QED BY <2>1 DEF WorkflowInv, WorkflowTypeOK, SupersededNeverShown, AskInv, ContextInv, ReportInv, setup
<1>3. CASE CameraInvalidates
  <2>1. Transition(Reset) /\ Moved(Reset)
    BY <1>0, <1>3, CheckingMoves DEF CameraInvalidates
  <2>2. DisplayInv' /\ Moved(workflow')
    BY <2>1, ShowMoved
  <2>3. AskInv'
    BY <1>0, <2>2, AskMoved
  <2>4. WorkflowTypeOK'
    BY <1>0, <1>3, <2>2 DEF WorkflowTypeOK, DisplayInv, CameraInvalidates, setup
  <2> QED BY <2>2, <2>3, <2>4 DEF WorkflowInv, DisplayInv
<1>4. CASE Shutdown
  <2>1. /\ context' = [version |-> context.version + 1, route |-> 0, relation |-> "none"]
        /\ report' = Nothing /\ closed' = TRUE /\ UNCHANGED <<workflow, working, requests>>
    BY <1>4 DEF Shutdown, ReplaceContext
  <2>2. context' \in Context
    BY <1>0, <2>1 DEF WorkflowTypeOK, Context
  <2>3. /\ view' \in View \cup {Nothing} /\ attempt' \in Attempt \cup {Nothing}
        /\ attempt' # Nothing /\ attempt'.caller = "view" /\ attempt'.live => view' \in View /\ view'.result = "none"
    <3>1. CASE attempt # Nothing /\ attempt.live
      <4>1. attempt' = [attempt EXCEPT !.live = FALSE] /\ Told("failed") /\ attempt \in Attempt
        BY <1>0, <1>4, <3>1 DEF Shutdown, WorkflowTypeOK
      <4>2. attempt' \in Attempt /\ ~attempt'.live
        BY <4>1 DEF Attempt
      <4>3. view' \in View \cup {Nothing}
        BY <1>0, <3>1, <4>1 DEF WorkflowTypeOK, Told, View
      <4> QED BY <4>2, <4>3
    <3>2. CASE ~(attempt # Nothing /\ attempt.live)
      BY <1>0, <1>4, <3>2 DEF Shutdown, WorkflowTypeOK, setup
    <3> QED BY <3>1, <3>2
  <2>4. WorkflowTypeOK'
    BY <1>0, <2>1, <2>2, <2>3 DEF WorkflowTypeOK
  <2> QED BY <2>1, <2>4 DEF WorkflowInv, SupersededNeverShown, AskInv, ContextInv, ReportInv
<1> QED BY <1>1, <1>2, <1>3, <1>4

\* What the steps of the setup view and its inspector have to keep.
LEMMA SetupKeeps ==
  ASSUME WorkflowInv, UNCHANGED <<workflow, context, working, closed, requests>>,
         report' \in Report \cup {Nothing}, report' # Nothing => report'.version = context.version,
         view' \in View \cup {Nothing}, attempt' \in Attempt \cup {Nothing},
         attempt' # Nothing /\ attempt'.caller = "view" /\ attempt'.live => view' \in View /\ view'.result = "none"
  PROVE  WorkflowInv'
<1>1. WorkflowTypeOK'
  BY DEF WorkflowInv, WorkflowTypeOK
<1> QED BY <1>1 DEF WorkflowInv, SupersededNeverShown, AskInv, ContextInv, ReportInv

\* The setup view and its reports keep the invariant.
LEMMA SetupsKeep ==
  ASSUME WorkflowInv,
         \/ InspectSetup \/ InspectBeside \/ AttemptTimesOut \/ AttemptReads
         \/ ViewSettles \/ ReportExpires
  PROVE  WorkflowInv'
<1>0. /\ view \in View \cup {Nothing} /\ attempt \in Attempt \cup {Nothing}
      /\ report \in Report \cup {Nothing} /\ context.version \in Nat
      /\ report # Nothing => report.version = context.version
      /\ attempt # Nothing /\ attempt.caller = "view" /\ attempt.live => view \in View /\ view.result = "none"
  BY DEF WorkflowInv, WorkflowTypeOK, ReportInv, Context
<1>u. UNCHANGED <<workflow, context, working, closed, requests>>
  BY DEF InspectSetup, InspectBeside, AttemptTimesOut, AttemptReads, ViewSettles, ReportExpires
<1>1. CASE InspectSetup
  <2>1. view = Nothing /\ report' = Nothing
        /\ view' = [version |-> context.version, result |-> IF attempt = Nothing THEN "none" ELSE "failed"]
        /\ attempt' = IF attempt = Nothing
                        THEN [version |-> context.version, caller |-> "view", live |-> TRUE] ELSE attempt
    BY <1>1 DEF InspectSetup
  <2>2. view' \in View
    BY <1>0, <2>1 DEF View
  <2>3. attempt' \in Attempt \cup {Nothing}
    BY <1>0, <2>1 DEF Attempt
  <2>4. attempt' # Nothing /\ attempt'.caller = "view" /\ attempt'.live => view'.result = "none"
    BY <1>0, <2>1, NothingAssumption
  <2> QED BY <1>u, <2>1, <2>2, <2>3, <2>4, SetupKeeps
<1>2. CASE InspectBeside
  <2>1. /\ attempt' = [version |-> context.version, caller |-> "application", live |-> TRUE]
        /\ view' = view /\ report' = report
    BY <1>2 DEF InspectBeside
  <2>2. attempt' \in Attempt /\ attempt'.caller # "view"
    BY <1>0, <2>1 DEF Attempt
  <2> QED BY <1>0, <1>u, <2>1, <2>2, SetupKeeps
<1>3. CASE AttemptTimesOut
  <2>1. /\ attempt \in Attempt /\ attempt # Nothing /\ attempt.live /\ report' = report
        /\ attempt' = [attempt EXCEPT !.live = FALSE] /\ Told("failed")
    BY <1>0, <1>3 DEF AttemptTimesOut
  <2>2. attempt' \in Attempt /\ ~attempt'.live
    BY <2>1 DEF Attempt
  <2>3. view' \in View \cup {Nothing}
    BY <1>0, <2>1 DEF Told, View
  <2> QED BY <1>0, <1>u, <2>1, <2>2, <2>3, SetupKeeps
<1>4. CASE AttemptReads
  <2>1. attempt # Nothing /\ attempt' = Nothing /\ report' = report
    BY <1>4 DEF AttemptReads
  <2>2. view' \in View \cup {Nothing}
    <3>1. ASSUME NEW result \in {"inspected", "failed"}, attempt.live, Told(result)
          PROVE  view' \in View \cup {Nothing}
      BY <1>0, <2>1, <3>1 DEF Told, View
    <3> QED BY <1>0, <1>4, <3>1 DEF AttemptReads
  <2> QED BY <1>0, <1>u, <2>1, <2>2, SetupKeeps
<1>5. CASE ViewSettles
  <2>1. /\ view \in View /\ view.result \in {"inspected", "failed"}
        /\ view' = Nothing /\ attempt' = attempt
        /\ report' = IF ~closed /\ view.version = context.version
                       THEN [version |-> view.version, outcome |-> view.result] ELSE report
    BY <1>0, <1>5 DEF ViewSettles, View
  <2>2. report' \in Report \cup {Nothing} /\ (report' # Nothing => report'.version = context.version)
    BY <1>0, <2>1 DEF Report, View
  <2>3. ~(attempt # Nothing /\ attempt.caller = "view" /\ attempt.live)
    BY <1>0, <2>1
  <2> QED BY <1>0, <1>u, <2>1, <2>2, <2>3, SetupKeeps
<1>6. CASE ReportExpires
  BY <1>0, <1>u, <1>6, SetupKeeps DEF ReportExpires, setup
<1> QED BY <1>1, <1>2, <1>3, <1>4, <1>5, <1>6

-----------------------------------------------------------------------------

\* Nothing is shown at first.
LEMMA Initially == WorkflowInit => WorkflowInv
<1> SUFFICES ASSUME WorkflowInit PROVE WorkflowInv
  OBVIOUS
<1>1. workflow \in Workflow /\ context \in Context
  BY DEF WorkflowInit, Workflow, Context
<1>2. requests \in [RequestSlot -> RequestRecord] /\ \A r \in RequestSlot : requests[r].stage # "asking"
  BY Records DEF WorkflowInit, NoRequest
<1>3. view \in View \cup {Nothing} /\ attempt \in Attempt \cup {Nothing} /\ report \in Report \cup {Nothing}
      /\ attempt = Nothing /\ report = Nothing
  BY DEF WorkflowInit
<1>4. WorkflowTypeOK
  BY <1>1, <1>2, <1>3 DEF WorkflowInit, WorkflowTypeOK
<1> QED BY <1>2, <1>3, <1>4
  DEF WorkflowInit, WorkflowInv, SupersededNeverShown, AskInv, ContextInv, ReportInv

\* Every step keeps the invariant of the workflow.
LEMMA Inductive == WorkflowInv /\ [WorkflowNext]_workflowVars => WorkflowInv'
<1> SUFFICES ASSUME WorkflowInv, [WorkflowNext]_workflowVars PROVE WorkflowInv'
  OBVIOUS
<1>1. CASE UNCHANGED workflowVars
  BY <1>1 DEF workflowVars, setup, WorkflowInv, WorkflowTypeOK, SupersededNeverShown, AskInv, ContextInv, ReportInv
<1>2. CASE WorkflowNext
  BY <1>2, RequestsKeep, TurnsKeep, SetupsKeep DEF WorkflowNext
<1> QED BY <1>1, <1>2

\* The invariant of the workflow holds of every behaviour.
THEOREM WorkflowInvariance == WorkflowSpec => []WorkflowInv
BY Initially, Inductive, PTL DEF WorkflowSpec

\* The state of the workflow, its requests and the setup view keeps its types.
THEOREM WorkflowTypeCorrect == WorkflowSpec => []WorkflowTypeOK
<1>1. WorkflowInv => WorkflowTypeOK
  BY DEF WorkflowInv
<1> QED BY <1>1, WorkflowInvariance, PTL

\* However requests, turns and camera changes interleave, a route preview that one
\* of them superseded is not shown, nor a catalog asked for before the snapshot.
THEOREM SupersededStaysHidden == WorkflowSpec => []SupersededNeverShown
<1>1. WorkflowInv => SupersededNeverShown
  BY DEF WorkflowInv
<1> QED BY <1>1, WorkflowInvariance, PTL

\* A setup report that is shown explains the evidence that is shown.
THEOREM ReportsAreCurrent == WorkflowSpec => []ReportIsCurrent
<1>1. WorkflowInv => ReportIsCurrent
  BY DEF WorkflowInv, ReportInv, ContextInv, ReportIsCurrent
<1> QED BY <1>1, WorkflowInvariance, PTL

-----------------------------------------------------------------------------
(* The gripper check                                                       *)

\* Where both are about one trial, s does not tell of an earlier phase than t.
NotBefore(s, t) ==
  t # None /\ t.trial # NoTrial /\ s.trial = t.trial => Rank(s.phase) >= Rank(t.phase)

\* A status that a Node has had, and that is now n: what s says of its trial and of its
\* offer still holds.  t and o count the trials and offers, r are the trials resolved.
HeardBy(n, t, o, r, s) ==
  /\ s \in Status /\ s.trial <= t /\ s.offer <= o
  /\ s.trial # NoTrial /\ (s.cleared \/ s.phase = "over") => s.trial \in r
  /\ NotBefore(n, s)
  /\ s.cleared /\ s.offer # NoOffer /\ n.offer = s.offer => n.cleared

Heard(s) == HeardBy(node, trials, offers, resolved, s)

ShownInv ==
  /\ Heard(node)
  /\ status # None => Heard(status)
  /\ available => status # None
  /\ recoveryStatus # None => Heard(recoveryStatus)
  /\ recoveryAvailable => recoveryStatus # None

\* An answer that says of an offer no less than the recovery that is shown.
Renews(s) ==
  recoveryStatus # None /\ recoveryStatus.cleared /\ recoveryStatus.offer # NoOffer
    /\ s.offer = recoveryStatus.offer => s.cleared

\* A read that still counts overlaps nothing, and tells no less than what is shown.
ReadingInv ==
  reading # None =>
    /\ reading.reply # None => Heard(reading.reply)
    /\ reading.current => action = None /\ stop = None /\ (doubt => reading.doubted)
    /\ reading.current /\ reading.reply # None =>
         NotBefore(reading.reply, status) /\ Renews(reading.reply)

\* An action that still counts overlaps no Stop, nor does a prepare.
ActionInv ==
  action # None =>
    /\ action.reply # None => Heard(action.reply)
    /\ action.current => stop = None
    /\ action.current /\ action.reply # None => NotBefore(action.reply, status)
    /\ recoveryOnly => action.kind \in Recovering
    /\ action.kind = "prepare" => ~Unresolved(status) /\ stop = None /\ (action.current \/ disposed)
    /\ action.kind = "recoveryInspect" /\ action.current /\ action.reply # None =>
         action.reply.offer \notin withdrawn
    /\ action.kind = "recoveryConfirm" /\ action.reply # None => action.reply.cleared

StopInv ==
  stop # None =>
    /\ ~recoveryOnly
    /\ stop.reply # None => Heard(stop.reply) /\ NotBefore(stop.reply, status)

\* In doubt about a prepare nothing is asked but a status.
DoubtInv ==
  doubt /\ ~disposed =>
    ~available /\ ~Unresolved(status) /\ stop = None /\ action = None /\ ~recoveryOnly

\* A recovery that may be confirmed is of an offer that was not withdrawn.
OfferInv ==
  /\ withdrawn \subseteq 1..offers
  /\ recoveryAvailable /\ recoveryStatus.offer # NoOffer =>
       recoveryStatus.cleared \/ recoveryStatus.offer \notin withdrawn

CommissioningInv ==
  /\ TypeOK /\ ShownInv /\ ReadingInv /\ ActionInv /\ StopInv /\ DoubtInv /\ OfferInv
  /\ submitted \subseteq attempted

-----------------------------------------------------------------------------
(* The Node *)

NodeTypes == node \in Status /\ trials \in Trial \cup {NoTrial} /\ offers \in Offer \cup {NoOffer}
             /\ resolved \in SUBSET Trial

\* Any step of the Node.
NodeChange ==
  \/ Prepares \/ Offers \/ Clears \/ Stops \/ Restarts \/ Withdraws
  \/ Moves({"waiting"}, "running") \/ Moves({"running", "stopping"}, "unknown")
  \/ Moves({"unknown"}, "over")
  \/ UNCHANGED external

\* How far a phase is.
LEMMA Ranks ==
  /\ \A p \in Phase : Rank(p) \in 0..4
  /\ Rank("none") = 0 /\ Rank("waiting") = 0 /\ Rank("running") = 1 /\ Rank("stopping") = 2
  /\ Rank("unknown") = 3 /\ Rank("over") = 4
BY DEF Rank, Phase

\* What a Node with status n says when it becomes m, of the same trial and offer.
LEMMA BecomesLater ==
  ASSUME NodeTypes, Heard(node), NEW m \in Status, Becomes(m), trials' = trials, offers' = offers,
         m.trial \in {NoTrial, node.trial},
         m.trial # NoTrial => Rank(m.phase) >= Rank(node.phase),
         m.offer \in {NoOffer, node.offer}, m.offer # NoOffer => (node.cleared => m.cleared)
  PROVE  NodeTypes' /\ \A s : Heard(s) \/ s = m => HeardBy(node', trials', offers', resolved', s)
<1>1. node' = m /\ resolved \subseteq resolved' /\ resolved' \in SUBSET Trial
  BY DEF Becomes, NodeTypes, Status, NoTrial
<1>2. m.trial # NoTrial /\ (m.cleared \/ m.phase = "over") => m.trial \in resolved'
  BY NoneAssumption DEF Becomes, Unresolved
<1>3. NodeTypes'
  BY <1>1 DEF NodeTypes
<1>4. ASSUME NEW s, Heard(s) PROVE HeardBy(node', trials', offers', resolved', s)
  <2>1. s \in Status /\ s.trial <= trials /\ s.offer <= offers /\ NotBefore(node, s)
    BY <1>4 DEF Heard, HeardBy
  <2>2. NotBefore(m, s)
    <3>1. Rank(m.phase) \in 0..4 /\ Rank(node.phase) \in 0..4 /\ Rank(s.phase) \in 0..4
      BY <2>1, Ranks DEF Status, NodeTypes
    <3> QED BY <2>1, <3>1 DEF NotBefore
  <2> QED BY <1>1, <1>4, <2>1, <2>2 DEF Heard, HeardBy
<1>5. HeardBy(node', trials', offers', resolved', m)
  <2>1. m.trial <= trials' /\ m.offer <= offers'
    BY DEF Heard, HeardBy, NodeTypes, Status, Trial, Offer, NoTrial, NoOffer
  <2>2. NotBefore(m, m)
    BY Ranks DEF NotBefore, Status
  <2> QED BY <1>1, <1>2, <2>1, <2>2 DEF HeardBy
<1> QED BY <1>3, <1>4, <1>5

\* What was heard stays true, and the Node itself may be heard.
StaysHeard ==
  /\ NodeTypes' /\ Heard(node)'
  /\ \A s : Heard(s) => HeardBy(node', trials', offers', resolved', s)
  /\ offers <= offers' /\ resolved \subseteq resolved'

\* A new trial: what was heard is of earlier ones.
LEMMA Prepared ==
  ASSUME NodeTypes, Heard(node), Prepares
  PROVE  StaysHeard
<1> DEFINE n == trials + 1
           m == [node EXCEPT !.trial = n, !.origin = node.session, !.phase = "waiting",
                             !.offer = NoOffer, !.cleared = FALSE]
<1>1. n \in Trial /\ trials \in 0..MaxTrials /\ offers \in 0..MaxOffers
  BY CommissioningAssumption DEF Prepares, NodeTypes, Trial, NoTrial, Offer, NoOffer
<1>2. /\ m \in Status /\ m.trial = n /\ m.phase = "waiting" /\ m.offer = NoOffer /\ ~m.cleared
  BY <1>1 DEF NodeTypes, Status, Phase, Offer, NoOffer, Session
<1>3. node' = m /\ trials' = n /\ offers' = offers /\ resolved' = resolved
  <2>1. Becomes(m) /\ trials' = n /\ offers' = offers
    BY DEF Prepares
  <2>2. Unresolved(m)
    BY <1>1, <1>2, NoneAssumption DEF Unresolved, Trial, NoTrial
  <2> HIDE DEF m
  <2> QED BY <2>1, <2>2 DEF Becomes
<1> HIDE DEF m
<1>4. NodeTypes'
  BY <1>1, <1>2, <1>3 DEF NodeTypes
<1>5. Heard(node)'
  <2>1. NotBefore(m, m)
    BY <1>2, Ranks DEF NotBefore, Status
  <2> QED BY <1>1, <1>2, <1>3, <2>1 DEF Heard, HeardBy, NoOffer, NoTrial
<1>6. ASSUME NEW s, Heard(s) PROVE HeardBy(node', trials', offers', resolved', s)
  BY <1>1, <1>2, <1>3, <1>6 DEF Heard, HeardBy, NotBefore, Status, Trial, NoTrial, Offer, NoOffer
<1> QED BY <1>1, <1>3, <1>4, <1>5, <1>6 DEF StaysHeard

\* A new offer, that nothing heard tells of.
LEMMA Offered ==
  ASSUME NodeTypes, Heard(node), Offers
  PROVE  StaysHeard /\ node'.offer = offers + 1
<1> DEFINE n == offers + 1
           m == [node EXCEPT !.offer = n]
<1>1. n \in Offer /\ trials \in 0..MaxTrials /\ offers \in 0..MaxOffers
  BY CommissioningAssumption DEF Offers, NodeTypes, Trial, NoTrial, Offer, NoOffer
<1>2. /\ m \in Status /\ m.trial = node.trial /\ m.phase = node.phase /\ m.offer = n
      /\ m.cleared = node.cleared
  BY <1>1 DEF NodeTypes, Status
<1>3. node' = m /\ trials' = trials /\ offers' = n /\ resolved' = resolved
  <2>1. Becomes(m) /\ trials' = trials /\ offers' = n /\ Unresolved(node)
    BY DEF Offers
  <2>2. Unresolved(m)
    BY <2>1, <1>2, NoneAssumption DEF Unresolved
  <2> HIDE DEF m
  <2> QED BY <2>1, <2>2 DEF Becomes
<1> HIDE DEF m
<1>4. NodeTypes'
  BY <1>1, <1>2, <1>3 DEF NodeTypes
<1>5. Heard(node)'
  <2>1. NotBefore(m, m)
    BY <1>2, Ranks DEF NotBefore, Status
  <2> QED BY <1>1, <1>2, <1>3, <2>1 DEF Heard, HeardBy
<1>6. ASSUME NEW s, Heard(s) PROVE HeardBy(node', trials', offers', resolved', s)
  BY <1>1, <1>2, <1>3, <1>6 DEF Heard, HeardBy, NotBefore, Status, Trial, NoTrial, Offer, NoOffer
<1> QED BY <1>1, <1>2, <1>3, <1>4, <1>5, <1>6 DEF StaysHeard

\* Neither a trial nor an offer is new.
LEMMA Continued ==
  ASSUME NodeTypes, Heard(node), NEW from, NEW to,
         \/ Clears \/ Restarts \/ Withdraws
         \/ to \in Phase /\ Moves(from, to) /\ \A p \in from \cap Phase : Rank(p) <= Rank(to)
  PROVE  StaysHeard
<1>0. /\ node \in Status /\ node.session \in Session /\ node.trial \in Trial \cup {NoTrial}
      /\ node.offer \in Offer \cup {NoOffer} /\ node.phase \in Phase /\ node.cleared \in BOOLEAN
      /\ node.origin \in Session /\ Rank(node.phase) \in 0..4 /\ offers \in Int
  BY Ranks DEF NodeTypes, Status, Offer, NoOffer
<1> SUFFICES ASSUME NEW m \in Status, Becomes(m), trials' = trials, offers' = offers,
                    m.trial \in {NoTrial, node.trial},
                    m.trial # NoTrial => Rank(m.phase) >= Rank(node.phase),
                    m.offer \in {NoOffer, node.offer},
                    m.offer # NoOffer => (node.cleared => m.cleared)
             PROVE  StaysHeard
  <2>1. CASE Clears
    <3> DEFINE m == [node EXCEPT !.cleared = TRUE]
    <3>1. m \in Status /\ m.trial = node.trial /\ m.phase = node.phase /\ m.offer = node.offer
          /\ m.cleared
      BY <1>0 DEF Status
    <3> HIDE DEF m
    <3>2. Becomes(m) /\ trials' = trials /\ offers' = offers
      BY <2>1 DEF Clears, m
    <3> QED BY <1>0, <3>1, <3>2
  <2>2. CASE Withdraws
    <3> DEFINE m == [node EXCEPT !.offer = NoOffer]
    <3>1. m \in Status /\ m.trial = node.trial /\ m.phase = node.phase /\ m.offer = NoOffer
      BY <1>0 DEF Status
    <3> HIDE DEF m
    <3>2. Becomes(m) /\ trials' = trials /\ offers' = offers
      BY <2>2 DEF Withdraws, m
    <3> QED BY <1>0, <3>1, <3>2
  <2>3. CASE to \in Phase /\ Moves(from, to) /\ \A p \in from \cap Phase : Rank(p) <= Rank(to)
    <3> DEFINE m == [node EXCEPT !.phase = to]
    <3>1. m \in Status /\ m.trial = node.trial /\ m.phase = to /\ m.offer = node.offer
          /\ m.cleared = node.cleared
      BY <1>0, <2>3 DEF Status
    <3> HIDE DEF m
    <3>2. Becomes(m) /\ trials' = trials /\ offers' = offers /\ node.phase \in from
      BY <2>3 DEF Moves, m
    <3>3. Rank(to) >= Rank(node.phase)
      BY <1>0, <2>3, <3>2, Ranks
    <3> QED BY <1>0, <3>1, <3>2, <3>3
  <2>4. CASE Restarts
    <3> DEFINE k == [node EXCEPT !.session = @ + 1, !.offer = NoOffer,
                                 !.phase = IF Unresolved(node) THEN "unknown" ELSE @]
               b == [Blank EXCEPT !.session = node.session + 1]
    <3>1. node.session + 1 \in Session /\ 1 \in Session
      BY <1>0, <2>4, CommissioningAssumption DEF Restarts, Session
    <3>2. /\ k \in Status /\ k.trial = node.trial /\ k.offer = NoOffer
          /\ k.phase = IF Unresolved(node) THEN "unknown" ELSE node.phase
      BY <1>0, <3>1 DEF Status, Phase
    <3>3. b \in Status /\ b.trial = NoTrial /\ b.offer = NoOffer
      BY <3>1 DEF Blank, Status, Phase
    <3>4. Rank(k.phase) >= Rank(node.phase)
      <4>1. CASE Unresolved(node)
        <5>1. k.phase = "unknown" /\ node.phase # "over"
          BY <4>1, <3>2 DEF Unresolved
        <5> QED BY <1>0, <5>1, Ranks DEF Phase
      <4>2. CASE ~Unresolved(node)
        BY <1>0, <4>2, <3>2
      <4> QED BY <4>1, <4>2
    <3> HIDE DEF k, b
    <3>5. (Becomes(k) \/ Becomes(b)) /\ trials' = trials /\ offers' = offers
      BY <2>4 DEF Restarts, k, b
    <3> QED BY <1>0, <3>2, <3>3, <3>4, <3>5
  <2> QED BY <2>1, <2>2, <2>3, <2>4
<1>1. NodeTypes' /\ \A s : Heard(s) \/ s = m => HeardBy(node', trials', offers', resolved', s)
  BY BecomesLater
<1>2. node' = m /\ resolved \subseteq resolved'
  BY DEF Becomes
<1> QED BY <1>0, <1>1, <1>2 DEF StaysHeard, Heard

\* Whatever the Node does, what was heard of it stays true.
LEMMA NodeChanges ==
  ASSUME NodeTypes, Heard(node), NodeChange
  PROVE  StaysHeard
<1>1. CASE UNCHANGED external
  <2>1. node' = node /\ trials' = trials /\ offers' = offers /\ resolved' = resolved
    BY <1>1 DEF external
  <2>2. offers <= offers'
    BY <2>1 DEF NodeTypes, Offer, NoOffer
  <2> QED BY <2>1, <2>2 DEF StaysHeard, NodeTypes, Heard
<1>2. CASE Prepares
  BY <1>2, Prepared
<1>3. CASE Offers
  BY <1>3, Offered
<1>4. CASE Clears \/ Restarts \/ Withdraws
  BY <1>4, Continued
<1>5. ASSUME NEW from, NEW to, Moves(from, to), to \in Phase,
             \A p \in from \cap Phase : Rank(p) <= Rank(to)
      PROVE  StaysHeard
  BY <1>5, Continued
<1>6. CASE Stops
  <2>1. /\ \A p \in {"waiting", "running"} \cap Phase : Rank(p) <= Rank("stopping")
        /\ \A p \in {"waiting", "running", "stopping"} \cap Phase : Rank(p) <= Rank("over")
        /\ \A p \in {"unknown", "stopping"} \cap Phase : Rank(p) <= Rank("unknown")
    BY Ranks
  <2>2. "stopping" \in Phase /\ "over" \in Phase /\ "unknown" \in Phase
    BY DEF Phase
  <2> QED BY <1>5, <1>6, <2>1, <2>2, Zenon DEF Stops
<1>7. CASE Moves({"waiting"}, "running") \/ Moves({"running", "stopping"}, "unknown")
           \/ Moves({"unknown"}, "over")
  <2>1. /\ \A p \in {"waiting"} \cap Phase : Rank(p) <= Rank("running")
        /\ \A p \in {"running", "stopping"} \cap Phase : Rank(p) <= Rank("unknown")
        /\ \A p \in {"unknown"} \cap Phase : Rank(p) <= Rank("over")
    BY Ranks
  <2>2. "running" \in Phase /\ "over" \in Phase /\ "unknown" \in Phase
    BY DEF Phase
  <2> QED BY <1>5, <1>7, <2>1, <2>2, Zenon
<1> QED BY <1>1, <1>2, <1>3, <1>4, <1>6, <1>7 DEF NodeChange

-----------------------------------------------------------------------------
(* Steps that only the Node sees, and what it answers *)

\* The Node changes, and of the client at most what awaits its answer.
LEMMA NodeStepsKeep ==
  ASSUME CommissioningInv, StaysHeard, UNCHANGED <<recoveryOnly, disposed, shown, recovery, attempts, history>>
  PROVE  /\ ShownInv' /\ OfferInv' /\ submitted' \subseteq attempted'
         /\ reading' \in Read \cup {None} /\ action' \in Action \cup {None} /\ stop' \in Stop \cup {None}
              => TypeOK'
         /\ UNCHANGED reading /\ (action = None <=> action' = None) /\ (stop = None <=> stop' = None)
              => ReadingInv'
         /\ UNCHANGED action /\ (stop = None <=> stop' = None) => ActionInv'
         /\ UNCHANGED stop => StopInv'
         /\ (action = None <=> action' = None) /\ (stop = None <=> stop' = None) => DoubtInv'
<1>1. /\ status' = status /\ available' = available /\ uncertain' = uncertain
      /\ recoveryStatus' = recoveryStatus /\ recoveryAvailable' = recoveryAvailable
      /\ requested' = requested /\ attempted' = attempted /\ confirmed' = confirmed
      /\ doubt' = doubt /\ submitted' = submitted /\ withdrawn' = withdrawn
      /\ recoveryOnly' = recoveryOnly /\ disposed' = disposed
  BY DEF shown, recovery, attempts, history
<1>2. ShownInv'
  BY <1>1 DEF CommissioningInv, ShownInv, StaysHeard, Heard
<1>3. OfferInv'
  <2>1. offers \in Int /\ offers' \in Int /\ offers <= offers'
    BY DEF StaysHeard, NodeTypes, CommissioningInv, TypeOK, Offer, NoOffer
  <2> QED BY <1>1, <2>1 DEF CommissioningInv, OfferInv
<1>4. ASSUME reading' \in Read \cup {None}, action' \in Action \cup {None}, stop' \in Stop \cup {None}
      PROVE  TypeOK'
  BY <1>1, <1>4 DEF CommissioningInv, TypeOK, StaysHeard, NodeTypes
<1>5. ASSUME UNCHANGED reading, action = None <=> action' = None, stop = None <=> stop' = None
      PROVE  ReadingInv'
  BY <1>1, <1>5 DEF CommissioningInv, ReadingInv, Renews, StaysHeard, Heard
<1>6. ASSUME UNCHANGED action, stop = None <=> stop' = None
      PROVE  ActionInv'
  BY <1>1, <1>6 DEF CommissioningInv, ActionInv, StaysHeard, Heard, Unresolved
<1>7. ASSUME UNCHANGED stop PROVE StopInv'
  BY <1>1, <1>7 DEF CommissioningInv, StopInv, StaysHeard, Heard
<1>8. ASSUME action = None <=> action' = None, stop = None <=> stop' = None
      PROVE  DoubtInv'
  BY <1>1, <1>8 DEF CommissioningInv, DoubtInv, Unresolved
<1>9. submitted' \subseteq attempted'
  BY <1>1 DEF CommissioningInv
<1> QED BY <1>2, <1>3, <1>4, <1>5, <1>6, <1>7, <1>8, <1>9

\* What the lemmas about the Node need of the invariant.
LEMMA KnowsNode == ASSUME CommissioningInv PROVE NodeTypes /\ Heard(node)
BY DEF CommissioningInv, TypeOK, NodeTypes, ShownInv

\* The Node changes by itself.
LEMMA NodeStepsInv == ASSUME CommissioningInv, NodeSteps PROVE CommissioningInv'
<1>1. StaysHeard
  BY KnowsNode, NodeChanges DEF NodeSteps, NodeChange
<1>2. UNCHANGED <<recoveryOnly, disposed, shown, recovery, attempts, reading, action, stop, history>>
  BY DEF NodeSteps
<1>3. UNCHANGED reading /\ UNCHANGED action /\ UNCHANGED stop
  BY <1>2
<1>4. reading' \in Read \cup {None} /\ action' \in Action \cup {None} /\ stop' \in Stop \cup {None}
  BY <1>3 DEF CommissioningInv, TypeOK
<1> QED BY <1>1, <1>2, <1>3, <1>4, NodeStepsKeep DEF CommissioningInv

\* The Node answers a status read with what it is now.
LEMMA NodeReadsInv == ASSUME CommissioningInv, NodeReads PROVE CommissioningInv'
<1>1. UNCHANGED <<external, recoveryOnly, disposed, shown, recovery, attempts, action, stop, history>>
  BY DEF NodeReads
<1>2. StaysHeard
  BY <1>1, KnowsNode, NodeChanges DEF NodeChange
<1>3. reading \in Read /\ reading' = [reading EXCEPT !.reply = node] /\ node \in Status
  BY DEF NodeReads, CommissioningInv, TypeOK
<1>4. reading' \in Read /\ reading'.reply = node /\ reading'.current = reading.current
      /\ reading'.doubted = reading.doubted
  BY <1>3 DEF Read
<1>5. UNCHANGED action /\ UNCHANGED stop
  BY <1>1
<1>6. ReadingInv'
  <2>1. Heard(node) /\ (status # None => NotBefore(node, status)) /\ Renews(node)
    BY DEF CommissioningInv, ShownInv, Heard, HeardBy, Renews
  <2>2. NotBefore(node, status)
    BY <2>1 DEF NotBefore
  <2>3. Heard(node)'
    BY <1>2 DEF StaysHeard
  <2>4. node' = node /\ status' = status /\ recoveryStatus' = recoveryStatus /\ doubt' = doubt
    BY <1>1 DEF external, shown, recovery, history
  <2>5. Renews(node)'
    BY <2>1, <2>4 DEF Renews
  <2>6. reading.current => action = None /\ stop = None /\ (doubt => reading.doubted)
    BY DEF CommissioningInv, ReadingInv, NodeReads
  <2> QED BY <1>4, <1>5, <2>2, <2>3, <2>4, <2>5, <2>6 DEF ReadingInv, Heard, Renews
<1> QED BY <1>1, <1>2, <1>4, <1>5, <1>6, NodeStepsKeep DEF CommissioningInv, TypeOK

\* What the Node says when a recovery is confirmed.
LEMMA ClearsNode == ASSUME NodeTypes, Clears PROVE node'.cleared
<1>1. node' = [node EXCEPT !.cleared = TRUE]
  BY DEF Clears, Becomes
<1> QED BY <1>1 DEF NodeTypes, Status

\* The Node serves an action: the offer it answers with is newer than every Stop.
LEMMA NodeActsInv == ASSUME CommissioningInv, NodeActs PROVE CommissioningInv'
<1>1. /\ UNCHANGED <<recoveryOnly, disposed, shown, recovery, attempts, reading, stop, history>>
      /\ UNCHANGED reading /\ UNCHANGED stop
  BY DEF NodeActs
<1>2. NodeTypes /\ Heard(node)
  BY KnowsNode
<1>3. /\ NodeChange
      /\ action.kind = "recoveryInspect" => Offers
      /\ action.kind = "recoveryConfirm" => Clears
  BY DEF NodeActs, NodeChange, Stops
<1>4. StaysHeard
  BY <1>2, <1>3, NodeChanges
<1>5. /\ action \in Action /\ action.reply = None /\ action # None
      /\ action' = [action EXCEPT !.reply = node'] /\ node' \in Status
  BY <1>4 DEF NodeActs, CommissioningInv, TypeOK, StaysHeard, NodeTypes
<1>6. /\ action' \in Action /\ action'.reply = node' /\ action'.current = action.current
      /\ action'.kind = action.kind /\ action' # None
  BY <1>5, NoneAssumption DEF Action
<1>7. ActionInv'
  <2>1. HeardBy(node', trials', offers', resolved', action'.reply)
    BY <1>4, <1>6 DEF StaysHeard, Heard
  <2>2. /\ status' = status /\ recoveryOnly' = recoveryOnly /\ stop' = stop
        /\ disposed' = disposed /\ withdrawn' = withdrawn
    BY <1>1 DEF shown, history
  <2>3. NotBefore(node', status)
    <3>1. status # None => HeardBy(node', trials', offers', resolved', status)
      BY <1>4 DEF StaysHeard, CommissioningInv, ShownInv
    <3> QED BY <3>1 DEF HeardBy, NotBefore
  <2>4. action.kind = "recoveryInspect" => node'.offer \notin withdrawn
    <3>1. action.kind = "recoveryInspect" => node'.offer = offers + 1
      BY <1>2, <1>3, Offered
    <3>2. withdrawn \subseteq 1..offers /\ offers \in Int
      BY DEF CommissioningInv, OfferInv, TypeOK, Offer, NoOffer
    <3> QED BY <3>1, <3>2
  <2>5. action.kind = "recoveryConfirm" => node'.cleared
    BY <1>2, <1>3, ClearsNode
  <2>6. /\ action.current => stop = None
        /\ recoveryOnly => action.kind \in Recovering
        /\ action.kind = "prepare" => ~Unresolved(status) /\ stop = None /\ (action.current \/ disposed)
    BY <1>5 DEF CommissioningInv, ActionInv
  <2>7. ~Unresolved(status) => ~Unresolved(status)'
    BY <2>2 DEF Unresolved
  <2> QED BY <1>6, <2>1, <2>2, <2>3, <2>4, <2>5, <2>6, <2>7 DEF ActionInv, Heard
<1>8. stop' \in Stop \cup {None} /\ reading' \in Read \cup {None}
  BY <1>1 DEF CommissioningInv, TypeOK
<1> QED BY <1>1, <1>4, <1>5, <1>6, <1>7, <1>8, NodeStepsKeep DEF CommissioningInv

\* The Node serves one request of a Stop.
LEMMA NodeStopsInv == ASSUME CommissioningInv, NodeStops PROVE CommissioningInv'
<1>1. /\ UNCHANGED <<recoveryOnly, disposed, shown, recovery, attempts, reading, action, history>>
      /\ UNCHANGED reading /\ UNCHANGED action
  BY DEF NodeStops
<1>2. NodeChange
  BY DEF NodeStops, NodeChange
<1>3. StaysHeard
  BY <1>2, KnowsNode, NodeChanges
<1>4. stop \in Stop /\ stop # None /\ stop.reply = None /\ node' \in Status
  BY <1>3 DEF NodeStops, CommissioningInv, TypeOK, StaysHeard, NodeTypes
<1>5. /\ stop' \in Stop /\ stop' # None
      /\ stop'.reply # None => stop'.reply = node'
  <2>1. stop' = [stop EXCEPT !.reply = node'] \/ stop' = stop
    BY DEF NodeStops
  <2> QED BY <2>1, <1>4, NoneAssumption DEF Stop
<1>6. StopInv'
  <2>1. stop'.reply # None => HeardBy(node', trials', offers', resolved', stop'.reply)
    BY <1>3, <1>5 DEF StaysHeard, Heard
  <2>2. status' = status /\ recoveryOnly' = recoveryOnly
    BY <1>1 DEF shown
  <2>3. NotBefore(node', status)
    <3>1. status # None => HeardBy(node', trials', offers', resolved', status)
      BY <1>3 DEF StaysHeard, CommissioningInv, ShownInv
    <3> QED BY <3>1 DEF HeardBy, NotBefore
  <2>4. ~recoveryOnly
    BY <1>4 DEF CommissioningInv, StopInv
  <2> QED BY <1>5, <2>1, <2>2, <2>3, <2>4 DEF StopInv, Heard
<1>7. action' \in Action \cup {None} /\ reading' \in Read \cup {None}
  BY <1>1 DEF CommissioningInv, TypeOK
<1> QED BY <1>1, <1>3, <1>4, <1>5, <1>6, <1>7, NodeStepsKeep DEF CommissioningInv

-----------------------------------------------------------------------------
(* What an answer changes *)

\* A status that may be accepted, with the recovery to keep beside it.
LEMMA Accepting ==
  ASSUME CommissioningInv, NEW next, Heard(next), NEW retained,
         retained # None => Heard(retained),
         recoveryAvailable => retained # None,
         recoveryAvailable /\ retained.offer # NoOffer => retained.cleared \/ retained.offer \notin withdrawn,
         Accept(next, retained), UNCHANGED <<external, withdrawn>>
  PROVE  /\ status' = next /\ ShownInv' /\ OfferInv'
         /\ status' \in Status /\ available' \in BOOLEAN /\ uncertain' \in BOOLEAN
         /\ recoveryStatus' \in Status \cup {None} /\ recoveryAvailable' \in BOOLEAN
         /\ requested' \in Session \cup {0}
<1>1. /\ status' = next /\ available' = TRUE /\ uncertain' = FALSE
      /\ node' = node /\ trials' = trials /\ offers' = offers /\ resolved' = resolved
      /\ withdrawn' = withdrawn
  BY DEF Accept, Show, external
<1>2. next \in Status /\ next # None /\ (retained # None => retained \in Status)
  BY NoneAssumption DEF Heard, HeardBy
<1>3. \/ recoveryStatus' = next /\ recoveryAvailable' = TRUE /\ next.cleared
      \/ recoveryStatus' = retained /\ recoveryAvailable' = recoveryAvailable
      \/ recoveryStatus' = None /\ recoveryAvailable' = FALSE
  BY DEF Accept, Cleared, CommissioningInv, TypeOK
<1>4. requested' \in Session \cup {0}
  BY DEF Accept, CommissioningInv, TypeOK
<1>5. recoveryAvailable \in BOOLEAN /\ Heard(node)
  BY DEF CommissioningInv, TypeOK, ShownInv
<1>6. ShownInv'
  BY <1>1, <1>2, <1>3, <1>5 DEF ShownInv, Heard
<1>7. OfferInv'
  <2>1. withdrawn \subseteq 1..offers
    BY DEF CommissioningInv, OfferInv
  <2> QED BY <1>1, <1>3, <2>1 DEF OfferInv
<1> QED BY <1>1, <1>2, <1>3, <1>4, <1>5, <1>6, <1>7

-----------------------------------------------------------------------------
(* refresh() *)

\* A read begins when nothing else is under way.
LEMMA RefreshInv == ASSUME CommissioningInv, Refresh PROVE CommissioningInv'
<1>1. /\ UNCHANGED <<external, recoveryOnly, disposed, shown, recovery, attempts, action, stop, history>>
      /\ UNCHANGED action /\ UNCHANGED stop
      /\ action = None /\ stop = None
  BY DEF Refresh
<1>2. StaysHeard
  BY <1>1, KnowsNode, NodeChanges DEF NodeChange
<1>3. reading' = [current |-> TRUE, doubted |-> doubt, reply |-> None] /\ doubt' = doubt /\ doubt \in BOOLEAN
  BY DEF Refresh, history, CommissioningInv, TypeOK
<1>4. reading' \in Read /\ reading'.reply = None /\ reading'.doubted = doubt
  BY <1>3 DEF Read
<1>5. ReadingInv'
  BY <1>1, <1>3, <1>4 DEF ReadingInv
<1>6. action' \in Action \cup {None} /\ stop' \in Stop \cup {None}
  BY <1>1 DEF CommissioningInv, TypeOK
<1> QED BY <1>1, <1>2, <1>4, <1>5, <1>6, NodeStepsKeep DEF CommissioningInv

\* What is kept beside an answer is a recovery that was heard, and still to be confirmed.
LEMMA Retained ==
  ASSUME CommissioningInv, reading # None, reading.current, reading.reply # None, NEW retained,
         retained = IF OfferShown /\ Renewable(reading.reply) THEN reading.reply ELSE recoveryStatus
  PROVE  /\ retained # None => Heard(retained)
         /\ recoveryAvailable => retained # None
         /\ recoveryAvailable /\ retained.offer # NoOffer =>
              retained.cleared \/ retained.offer \notin withdrawn
<1>1. Heard(reading.reply) /\ Renews(reading.reply)
  BY DEF CommissioningInv, ReadingInv
<1>2. recoveryStatus # None => Heard(recoveryStatus)
  BY DEF CommissioningInv, ShownInv
<1>3. recoveryAvailable => recoveryStatus # None
  BY DEF CommissioningInv, ShownInv
<1>4. recoveryAvailable /\ recoveryStatus.offer # NoOffer =>
        recoveryStatus.cleared \/ recoveryStatus.offer \notin withdrawn
  BY DEF CommissioningInv, OfferInv
<1>5. CASE OfferShown /\ Renewable(reading.reply)
  <2>1. retained = reading.reply /\ reading.reply.offer = recoveryStatus.offer
        /\ recoveryAvailable /\ recoveryStatus.offer # NoOffer
    BY <1>5 DEF Renewable, OfferShown
  <2> QED BY <1>1, <1>3, <1>4, <2>1 DEF Renews
<1>6. CASE ~(OfferShown /\ Renewable(reading.reply))
  BY <1>2, <1>3, <1>4, <1>6
<1> QED BY <1>5, <1>6

\* The answer of a read that counts is shown, kept aside or refused.
LEMMA RefreshShowsInv ==
  ASSUME CommissioningInv, reading # None, reading.reply # None, reading' = None, reading.current,
         RefreshShows(reading.reply),
         UNCHANGED <<external, recoveryOnly, disposed, attempts, action, stop, submitted, withdrawn>>
  PROVE  CommissioningInv'
<1> DEFINE next == reading.reply
<1>1. PICK retained : retained = IF OfferShown /\ Renewable(next) THEN next ELSE recoveryStatus
  OBVIOUS
<1>2. /\ retained # None => Heard(retained)
      /\ recoveryAvailable => retained # None
      /\ recoveryAvailable /\ retained.offer # NoOffer =>
           retained.cleared \/ retained.offer \notin withdrawn
  BY <1>1, Retained
<1>3. /\ action = None /\ stop = None /\ action' = None /\ stop' = None /\ Heard(next)
      /\ doubt => reading.doubted
  BY DEF CommissioningInv, ReadingInv
<1>4. /\ node' = node /\ trials' = trials /\ offers' = offers /\ resolved' = resolved
      /\ withdrawn' = withdrawn /\ submitted' = submitted /\ attempted' = attempted
      /\ confirmed' = confirmed /\ recoveryOnly' = recoveryOnly /\ disposed' = disposed
  BY DEF external, attempts
<1>5. retained \in Status \cup {None}
  BY <1>2 DEF Heard, HeardBy
<1>6. ReadingInv' /\ ActionInv' /\ StopInv' /\ submitted' \subseteq attempted'
  BY <1>3, <1>4 DEF CommissioningInv, ReadingInv, ActionInv, StopInv
<1>7. CASE RefreshInvalidates(retained) /\ UNCHANGED doubt
  <2>1. /\ recoveryStatus' = retained /\ recoveryAvailable' = FALSE /\ requested' = requested
        /\ available' = FALSE /\ status' = status /\ uncertain' = uncertain /\ doubt' = doubt
    BY <1>7 DEF RefreshInvalidates, Invalidated
  <2>2. ShownInv' /\ OfferInv'
    BY <1>2, <1>4, <2>1 DEF CommissioningInv, ShownInv, OfferInv, Heard
  <2>3. DoubtInv'
    BY <1>3, <1>4, <2>1 DEF CommissioningInv, DoubtInv, Unresolved
  <2>4. TypeOK'
    BY <1>3, <1>4, <1>5, <2>1 DEF CommissioningInv, TypeOK
  <2> QED BY <1>6, <2>2, <2>3, <2>4 DEF CommissioningInv
<1>8. CASE Accept(next, retained) /\ doubt' = (doubt /\ ~reading.doubted)
  <2>1. /\ status' = next /\ ShownInv' /\ OfferInv'
        /\ status' \in Status /\ available' \in BOOLEAN /\ uncertain' \in BOOLEAN
        /\ recoveryStatus' \in Status \cup {None} /\ recoveryAvailable' \in BOOLEAN
        /\ requested' \in Session \cup {0}
    BY <1>2, <1>3, <1>8, Accepting
  <2>2. doubt' = FALSE
    BY <1>3, <1>8 DEF CommissioningInv, TypeOK
  <2>3. DoubtInv'
    BY <2>2 DEF DoubtInv
  <2>4. TypeOK'
    BY <1>3, <1>4, <2>1, <2>2 DEF CommissioningInv, TypeOK
  <2> QED BY <1>6, <2>1, <2>3, <2>4 DEF CommissioningInv
<1>9. CASE recoveryStatus' = retained /\ UNCHANGED <<shown, recoveryAvailable, requested, doubt>>
  <2>1. /\ recoveryStatus' = retained /\ recoveryAvailable' = recoveryAvailable
        /\ requested' = requested /\ doubt' = doubt
        /\ available' = available /\ status' = status /\ uncertain' = uncertain
    BY <1>9 DEF shown
  <2>2. ShownInv' /\ OfferInv'
    BY <1>2, <1>4, <2>1 DEF CommissioningInv, ShownInv, OfferInv, Heard
  <2>3. DoubtInv'
    BY <1>3, <1>4, <2>1 DEF CommissioningInv, DoubtInv, Unresolved
  <2>4. TypeOK'
    BY <1>3, <1>4, <1>5, <2>1 DEF CommissioningInv, TypeOK
  <2> QED BY <1>6, <2>2, <2>3, <2>4 DEF CommissioningInv
<1> QED BY <1>1, <1>7, <1>8, <1>9 DEF RefreshShows

\* Nothing that is shown changes.
LEMMA ReadingEnds ==
  ASSUME CommissioningInv, reading' = None,
         UNCHANGED <<external, recoveryOnly, disposed, shown, recovery, attempts, action, stop, history>>
  PROVE  CommissioningInv'
<1>1. StaysHeard
  BY KnowsNode, NodeChanges DEF NodeChange
<1>2. UNCHANGED action /\ UNCHANGED stop
  OBVIOUS
<1>3. ReadingInv'
  BY DEF ReadingInv
<1>4. action' \in Action \cup {None} /\ stop' \in Stop \cup {None} /\ reading' \in Read \cup {None}
  BY <1>2 DEF CommissioningInv, TypeOK
<1> QED BY <1>1, <1>2, <1>3, <1>4, NodeStepsKeep DEF CommissioningInv

\* The answer of a read comes.
LEMMA RefreshRepliesInv == ASSUME CommissioningInv, RefreshReplies PROVE CommissioningInv'
<1>1. CASE reading.current
  BY <1>1, RefreshShowsInv DEF RefreshReplies
<1>2. CASE ~reading.current
  BY <1>2, ReadingEnds DEF RefreshReplies, history
<1> QED BY <1>1, <1>2

\* A read fails, and what it would have renewed may not be acted upon.
LEMMA RefreshFailsInv == ASSUME CommissioningInv, RefreshFails PROVE CommissioningInv'
<1>1. CASE reading.current
  <2>1. /\ recoveryStatus' = recoveryStatus /\ recoveryAvailable' = FALSE /\ requested' = requested
        /\ available' = FALSE /\ status' = status /\ uncertain' = uncertain /\ doubt' = doubt
        /\ reading' = None /\ action' = action /\ stop' = stop
        /\ node' = node /\ trials' = trials /\ offers' = offers /\ resolved' = resolved
        /\ withdrawn' = withdrawn /\ submitted' = submitted /\ attempted' = attempted
        /\ confirmed' = confirmed /\ recoveryOnly' = recoveryOnly /\ disposed' = disposed
    BY <1>1 DEF RefreshFails, RefreshInvalidates, Invalidated, external, attempts, history
  <2>2. action = None /\ stop = None
    BY <1>1 DEF RefreshFails, CommissioningInv, ReadingInv
  <2>3. ShownInv' /\ OfferInv'
    BY <2>1 DEF CommissioningInv, ShownInv, OfferInv, Heard
  <2>4. ReadingInv' /\ ActionInv' /\ StopInv' /\ submitted' \subseteq attempted'
    BY <2>1, <2>2 DEF CommissioningInv, ReadingInv, ActionInv, StopInv
  <2>5. DoubtInv'
    BY <2>1, <2>2 DEF CommissioningInv, DoubtInv, Unresolved
  <2>6. TypeOK'
    <3>1. TypeOK
      BY DEF CommissioningInv
    <3>2. /\ recoveryOnly' \in BOOLEAN /\ disposed' \in BOOLEAN /\ available' \in BOOLEAN
         /\ uncertain' \in BOOLEAN /\ recoveryAvailable' \in BOOLEAN /\ doubt' \in BOOLEAN
      BY <2>1, <3>1 DEF TypeOK
    <3>3. /\ node' \in Status /\ trials' \in Trial \cup {NoTrial} /\ offers' \in Offer \cup {NoOffer}
         /\ status' \in Status \cup {None} /\ recoveryStatus' \in Status \cup {None}
         /\ requested' \in Session \cup {0} /\ resolved' \in SUBSET Trial /\ withdrawn' \in SUBSET Offer
         /\ attempted' \in SUBSET (Session \X Trial) /\ submitted' \in SUBSET (Session \X Trial)
         /\ confirmed' \in SUBSET (Session \X Trial \X Offer)
         /\ reading' \in Read \cup {None} /\ action' \in Action \cup {None} /\ stop' \in Stop \cup {None}
      BY <2>1, <3>1 DEF TypeOK
    <3> QED BY <3>2, <3>3 DEF TypeOK
  <2> QED BY <2>3, <2>4, <2>5, <2>6 DEF CommissioningInv
<1>2. CASE ~reading.current
  BY <1>2, ReadingEnds DEF RefreshFails
<1> QED BY <1>1, <1>2

-----------------------------------------------------------------------------
(* action() *)

\* What ++epoch makes of a read and of an action.
LEMMA Supersedes ==
  ASSUME CommissioningInv
  PROVE  /\ Superseded(reading) \in Read \cup {None} /\ Superseded(action) \in Action \cup {None}
         /\ reading = None => Superseded(reading) = None
         /\ reading # None =>
              /\ Superseded(reading) # None /\ ~Superseded(reading).current
              /\ Superseded(reading).reply = reading.reply
         /\ action = None => Superseded(action) = None
         /\ action # None =>
              /\ Superseded(action) # None /\ ~Superseded(action).current
              /\ Superseded(action).reply = action.reply /\ Superseded(action).kind = action.kind
<1>1. reading \in Read \cup {None} /\ action \in Action \cup {None}
  BY DEF CommissioningInv, TypeOK
<1>4. reading = None => Superseded(reading) = None
  BY DEF Superseded
<1>5. action = None => Superseded(action) = None
  BY DEF Superseded
<1>6. reading # None =>
        /\ Superseded(reading) \in Read
        /\ Superseded(reading) # None /\ ~Superseded(reading).current
        /\ Superseded(reading).reply = reading.reply
  BY <1>1, NoneAssumption DEF Superseded, Read
<1>7. action # None =>
        /\ Superseded(action) \in Action
        /\ Superseded(action) # None /\ ~Superseded(action).current
        /\ Superseded(action).reply = action.reply /\ Superseded(action).kind = action.kind
  BY <1>1, NoneAssumption DEF Superseded, Action
<1> QED BY <1>4, <1>5, <1>6, <1>7

\* A request that begins when no other is under way.
LEMMA Requests ==
  ASSUME CommissioningInv, action = None, stop = None, status # None,
         NEW kind \in Kind, NEW session \in Session, NEW offer \in Offer \cup {NoOffer},
         Request(kind, session, offer),
         kind = "prepare" => ~Unresolved(status), recoveryOnly => kind \in Recovering,
         UNCHANGED <<external, recoveryOnly, disposed, status, stop>>
  PROVE  /\ reading' \in Read \cup {None} /\ action' \in Action /\ action' # None
         /\ action'.kind = kind /\ action'.offer = offer
         /\ ReadingInv' /\ ActionInv' /\ StopInv'
<1>1. status \in Status /\ status.trial \in Trial \cup {NoTrial}
  BY DEF CommissioningInv, TypeOK, Status
<1>2. /\ action' = [kind |-> kind, current |-> TRUE, session |-> session, trial |-> status.trial,
                    offer |-> offer, reply |-> None]
      /\ reading' = Superseded(reading)
  BY DEF Request
<1>3. /\ action' \in Action /\ action'.kind = kind /\ action'.offer = offer /\ action'.reply = None
      /\ action'.current
  BY <1>1, <1>2 DEF Action
<1>4. action' # None
  BY <1>3, NoneAssumption
<1>5. ReadingInv'
  <2>1. reading # None /\ reading.reply # None => Heard(reading.reply)
    BY DEF CommissioningInv, ReadingInv
  <2>2. /\ node' = node /\ trials' = trials /\ offers' = offers /\ resolved' = resolved
    BY DEF external
  <2> QED BY <1>2, <2>1, <2>2, Supersedes DEF ReadingInv, Heard
<1>6. ActionInv'
  <2>1. Unresolved(status)' <=> Unresolved(status)
    BY DEF Unresolved
  <2> QED BY <1>3, <2>1 DEF ActionInv
<1>7. StopInv'
  BY DEF StopInv
<1> QED BY <1>2, <1>3, <1>4, <1>5, <1>6, <1>7, Supersedes

\* inspect, prepare or approve
LEMMA BeginsRequest ==
  ASSUME CommissioningInv, NEW kind \in {"inspect", "prepare", "approve"}, Begin(kind),
         kind = "prepare" => ~Unresolved(status),
         submitted' \subseteq attempted', attempted' \in SUBSET (Session \X Trial),
         submitted' \in SUBSET (Session \X Trial)
  PROVE  CommissioningInv'
<1>1. /\ ~disposed /\ ~recoveryOnly /\ action = None /\ stop = None /\ available
      /\ Request(kind, status.session, NoOffer)
      /\ node' = node /\ trials' = trials /\ offers' = offers /\ resolved' = resolved
      /\ recoveryOnly' = recoveryOnly /\ disposed' = disposed
      /\ status' = status /\ available' = available /\ uncertain' = uncertain
      /\ recoveryStatus' = recoveryStatus /\ recoveryAvailable' = recoveryAvailable
      /\ requested' = requested /\ confirmed' = confirmed /\ stop' = stop /\ doubt' = doubt
      /\ withdrawn' = withdrawn
  BY DEF Begin, external, shown, recovery
<1>2. status \in Status /\ status # None /\ status.session \in Session
  BY <1>1, NoneAssumption DEF CommissioningInv, ShownInv, TypeOK, Status
<1>3. kind \in Kind
  BY DEF Kind
<1>4. UNCHANGED <<external, recoveryOnly, disposed, status, stop>>
  BY <1>1 DEF external
<1>5. /\ reading' \in Read \cup {None} /\ action' \in Action
      /\ ReadingInv' /\ ActionInv' /\ StopInv'
  BY <1>1, <1>2, <1>3, <1>4, Requests DEF NoOffer
<1>6. ShownInv' /\ OfferInv'
  BY <1>1 DEF CommissioningInv, ShownInv, OfferInv, Heard
<1>7. ~doubt
  BY <1>1 DEF CommissioningInv, DoubtInv, TypeOK
<1>8. DoubtInv'
  BY <1>1, <1>7 DEF DoubtInv
<1>9. TypeOK'
  BY <1>1, <1>5 DEF CommissioningInv, TypeOK
<1> QED BY <1>5, <1>6, <1>8, <1>9 DEF CommissioningInv

\* An inspection is asked for.
LEMMA InspectInv == ASSUME CommissioningInv, Inspect PROVE CommissioningInv'
BY BeginsRequest DEF Inspect, CommissioningInv, TypeOK

\* A prepare is sent.
LEMMA PrepareInv == ASSUME CommissioningInv, Prepare PROVE CommissioningInv'
BY BeginsRequest DEF Prepare, CommissioningInv, TypeOK

\* An approval is sent, and remembered before it is.
LEMMA ApproveInv == ASSUME CommissioningInv, Approve PROVE CommissioningInv'
<1>1. Begin("approve") /\ status.trial # NoTrial
  BY DEF Approve, Approvable
<1>2. status \in Status /\ status.session \in Session /\ status.trial \in Trial
  BY <1>1, NoneAssumption DEF Begin, CommissioningInv, ShownInv, TypeOK, Status
<1>3. /\ attempted' = attempted \cup {<<status.session, status.trial>>}
      /\ submitted' = submitted \cup {<<status.session, status.trial>>}
  BY DEF Approve
<1>4. submitted \subseteq attempted /\ attempted \in SUBSET (Session \X Trial)
      /\ submitted \in SUBSET (Session \X Trial)
  BY DEF CommissioningInv, TypeOK
<1> QED BY <1>1, <1>2, <1>3, <1>4, BeginsRequest

\* A request that was refused or lost.
LEMMA RefusedInv ==
  ASSUME CommissioningInv, action # None, Refused,
         UNCHANGED <<external, recoveryOnly, disposed, attempts, reading, stop, submitted, withdrawn>>
  PROVE  CommissioningInv'
<1>1. /\ node' = node /\ trials' = trials /\ offers' = offers /\ resolved' = resolved
      /\ recoveryOnly' = recoveryOnly /\ disposed' = disposed
      /\ attempted' = attempted /\ confirmed' = confirmed /\ reading' = reading /\ stop' = stop
      /\ submitted' = submitted /\ withdrawn' = withdrawn
      /\ action' = None /\ doubt' = (doubt \/ action.kind = "prepare")
  BY DEF Refused, external, attempts
<1>2. action \in Action /\ action.kind \in Kind /\ action.current \in BOOLEAN
  BY DEF CommissioningInv, TypeOK, Action
<1>3. /\ status' = status /\ recoveryStatus' = recoveryStatus /\ requested' = requested
      /\ available' \in BOOLEAN /\ uncertain' \in BOOLEAN /\ recoveryAvailable' \in BOOLEAN
      /\ (available' => available) /\ (recoveryAvailable' => recoveryAvailable)
      /\ action.current /\ action.kind = "prepare" => ~available'
  <2>1. uncertain \in BOOLEAN /\ available \in BOOLEAN /\ recoveryAvailable \in BOOLEAN
    BY DEF CommissioningInv, TypeOK
  <2>2. CASE ~action.current
    <3>1. UNCHANGED <<shown, recovery>>
      BY <2>2 DEF Refused
    <3> QED BY <2>1, <2>2, <3>1 DEF shown, recovery
  <2>3. CASE action.current /\ action.kind \in Recovering
    <3>1. RefusedRecovery
      BY <2>3 DEF Refused
    <3> QED BY <2>1, <2>3, <3>1 DEF RefusedRecovery, shown, Recovering
  <2>4. CASE action.current /\ action.kind \notin Recovering
    <3>1. RefusedRequest
      BY <2>4 DEF Refused
    <3>2. uncertain' = (action.kind \in {"approve", "prepare"}) /\ available' = FALSE
      BY <3>1, Zenon DEF RefusedRequest
    <3>3. uncertain' \in BOOLEAN
      <4> DEFINE P == action.kind \in {"approve", "prepare"}
      <4>1. P \in BOOLEAN
        OBVIOUS
      <4>2. uncertain' = P
        BY <3>2
      <4> HIDE DEF P
      <4> QED BY <4>1, <4>2
    <3>4. status' = status /\ recoveryStatus' = recoveryStatus /\ requested' = requested
          /\ recoveryAvailable' = recoveryAvailable
      BY <3>1 DEF RefusedRequest, recovery
    <3> QED BY <2>1, <3>2, <3>3, <3>4
  <2> QED BY <1>2, <2>2, <2>3, <2>4
<1>4. ShownInv' /\ OfferInv'
  BY <1>1, <1>3 DEF CommissioningInv, ShownInv, OfferInv, Heard
<1>5. ReadingInv'
  BY <1>1, <1>3 DEF CommissioningInv, ReadingInv, Renews, Heard
<1>6. ActionInv'
  BY <1>1 DEF ActionInv
<1>7. StopInv'
  BY <1>1, <1>3 DEF CommissioningInv, StopInv, Heard
<1>8. DoubtInv'
  <2>1. SUFFICES ASSUME doubt', ~disposed
                 PROVE  ~available' /\ ~Unresolved(status)' /\ stop' = None /\ ~recoveryOnly'
    BY <1>1 DEF DoubtInv
  <2>2. ~doubt
    BY <2>1 DEF CommissioningInv, DoubtInv
  <2>3. action.kind = "prepare"
    BY <1>1, <2>1, <2>2
  <2>4. /\ ~Unresolved(status) /\ stop = None /\ action.current
        /\ recoveryOnly => action.kind \in Recovering
    BY <2>1, <2>3 DEF CommissioningInv, ActionInv
  <2> QED BY <1>1, <1>3, <2>3, <2>4 DEF Unresolved, Recovering
<1>9. TypeOK'
  BY <1>1, <1>3 DEF CommissioningInv, TypeOK
<1> QED BY <1>1, <1>4, <1>5, <1>6, <1>7, <1>8, <1>9 DEF CommissioningInv

\* An action fails, whether or not it was served.
LEMMA ActionFailsInv == ASSUME CommissioningInv, ActionFails PROVE CommissioningInv'
BY RefusedInv DEF ActionFails

\* An action settles: no read counts, and only one that counts changes what is shown.
LEMMA Settles ==
  ASSUME CommissioningInv, action # None, action' = None, ShownInv', OfferInv',
         status' = status \/ stop = None,
         status' \in Status \cup {None}, available' \in BOOLEAN, uncertain' \in BOOLEAN,
         recoveryStatus' \in Status \cup {None}, recoveryAvailable' \in BOOLEAN,
         requested' \in Session \cup {0},
         UNCHANGED <<external, recoveryOnly, disposed, attempts, reading, stop, doubt, submitted, withdrawn>>
  PROVE  CommissioningInv'
<1>1. /\ node' = node /\ trials' = trials /\ offers' = offers /\ resolved' = resolved
      /\ recoveryOnly' = recoveryOnly /\ disposed' = disposed
      /\ attempted' = attempted /\ confirmed' = confirmed /\ reading' = reading /\ stop' = stop
      /\ doubt' = doubt /\ submitted' = submitted /\ withdrawn' = withdrawn
  BY DEF external, attempts
<1>2. ReadingInv'
  <2>1. reading # None => ~reading.current /\ (reading.reply # None => Heard(reading.reply))
    BY DEF CommissioningInv, ReadingInv
  <2> QED BY <1>1, <2>1 DEF ReadingInv, Heard
<1>3. ActionInv' /\ submitted' \subseteq attempted'
  BY <1>1 DEF ActionInv, CommissioningInv
<1>4. StopInv'
  BY <1>1 DEF CommissioningInv, StopInv, Heard
<1>5. DoubtInv'
  BY <1>1 DEF CommissioningInv, DoubtInv
<1>6. TypeOK'
  BY <1>1 DEF CommissioningInv, TypeOK
<1> QED BY <1>2, <1>3, <1>4, <1>5, <1>6 DEF CommissioningInv

\* One that does not change what is shown.
LEMMA SettlesSilently ==
  ASSUME CommissioningInv, action # None, action' = None,
         UNCHANGED <<external, recoveryOnly, disposed, attempts, reading, stop, doubt, submitted,
                     withdrawn, shown, recovery>>
  PROVE  CommissioningInv'
<1>1. /\ node' = node /\ trials' = trials /\ offers' = offers /\ resolved' = resolved
      /\ withdrawn' = withdrawn
      /\ status' = status /\ available' = available /\ uncertain' = uncertain
      /\ recoveryStatus' = recoveryStatus /\ recoveryAvailable' = recoveryAvailable
      /\ requested' = requested
  BY DEF external, shown, recovery
<1>2. ShownInv' /\ OfferInv'
  BY <1>1 DEF CommissioningInv, ShownInv, OfferInv, Heard
<1>3. /\ status \in Status \cup {None} /\ available \in BOOLEAN /\ uncertain \in BOOLEAN
      /\ recoveryStatus \in Status \cup {None} /\ recoveryAvailable \in BOOLEAN
      /\ requested \in Session \cup {0}
  BY DEF CommissioningInv, TypeOK
<1> QED BY <1>1, <1>2, <1>3, Settles

\* An inspection, a prepare or an approval is answered.
LEMMA ActionRepliesInv == ASSUME CommissioningInv, ActionReplies PROVE CommissioningInv'
<1>1. /\ action # None /\ action.reply # None
      /\ UNCHANGED <<external, recoveryOnly, disposed, attempts, reading, stop, submitted, withdrawn>>
  BY DEF ActionReplies
<1>2. CASE Refused
  BY <1>1, <1>2, RefusedInv
<1>3. CASE /\ action' = None /\ UNCHANGED doubt
           /\ action.current /\ Accept(action.reply, recoveryStatus)
  <2>1. Heard(action.reply) /\ stop = None
    BY <1>1, <1>3 DEF CommissioningInv, ActionInv
  <2>2. /\ recoveryStatus # None => Heard(recoveryStatus)
        /\ recoveryAvailable => recoveryStatus # None
        /\ recoveryAvailable /\ recoveryStatus.offer # NoOffer =>
             recoveryStatus.cleared \/ recoveryStatus.offer \notin withdrawn
    BY DEF CommissioningInv, ShownInv, OfferInv
  <2>3. UNCHANGED <<external, withdrawn>>
    BY <1>1
  <2>4. /\ ShownInv' /\ OfferInv'
        /\ status' \in Status /\ available' \in BOOLEAN /\ uncertain' \in BOOLEAN
        /\ recoveryStatus' \in Status \cup {None} /\ recoveryAvailable' \in BOOLEAN
        /\ requested' \in Session \cup {0}
    BY <1>3, <2>1, <2>2, <2>3, Accepting
  <2> QED BY <1>1, <1>3, <2>1, <2>4, Settles
<1>4. CASE action' = None /\ UNCHANGED doubt /\ UNCHANGED <<shown, recovery>>
  BY <1>1, <1>4, SettlesSilently
<1> QED BY <1>2, <1>3, <1>4 DEF ActionReplies

-----------------------------------------------------------------------------
(* action(), of the recovery *)

\* A request of the recovery begins: the offer shown may not be confirmed meanwhile.
LEMMA RecoverInv ==
  ASSUME CommissioningInv, NEW kind \in Recovering, NEW session \in Session, NEW offer \in Offer \cup {NoOffer},
         Recover(kind, session, offer), kind # "recoveryInspect",
         requested' \in Session \cup {0}, confirmed' \in SUBSET (Session \X Trial \X Offer),
         withdrawn' \subseteq 1..offers, withdrawn' \in SUBSET Offer
  PROVE  CommissioningInv'
<1>1. /\ ~disposed /\ action = None /\ stop = None /\ Unresolved(status)
      /\ Request(kind, session, offer)
      /\ node' = node /\ trials' = trials /\ offers' = offers /\ resolved' = resolved
      /\ recoveryOnly' = recoveryOnly /\ disposed' = disposed
      /\ status' = status /\ available' = available /\ uncertain' = uncertain
      /\ recoveryStatus' = recoveryStatus /\ recoveryAvailable' = FALSE
      /\ attempted' = attempted /\ stop' = stop /\ doubt' = doubt /\ submitted' = submitted
  BY DEF Recover, external, shown
<1>2. status # None /\ kind \in Kind /\ kind # "prepare"
  BY <1>1 DEF Unresolved, Recovering, Kind
<1>3. UNCHANGED <<external, recoveryOnly, disposed, status, stop>>
  BY <1>1 DEF external
<1>4. /\ reading' \in Read \cup {None} /\ action' \in Action
      /\ ReadingInv' /\ ActionInv' /\ StopInv'
  BY <1>1, <1>2, <1>3, Requests
<1>5. ShownInv' /\ OfferInv' /\ submitted' \subseteq attempted'
  BY <1>1 DEF CommissioningInv, ShownInv, OfferInv, Heard
<1>6. DoubtInv'
  BY <1>1 DEF CommissioningInv, DoubtInv
<1>7. TypeOK'
  BY <1>1, <1>4 DEF CommissioningInv, TypeOK
<1> QED BY <1>4, <1>5, <1>6, <1>7 DEF CommissioningInv

\* The inspection of a recovery begins.
LEMMA RecoveryInspectInv == ASSUME CommissioningInv, RecoveryInspect PROVE CommissioningInv'
<1>1. status \in Status /\ status.session \in Session
  BY DEF RecoveryInspect, Recover, Unresolved, CommissioningInv, TypeOK, Status
<1>2. Recover("recoveryStatus", status.session, NoOffer)
      /\ requested' = requested /\ confirmed' = confirmed /\ withdrawn' = withdrawn
  BY DEF RecoveryInspect
<1>3. requested \in Session \cup {0} /\ confirmed \in SUBSET (Session \X Trial \X Offer)
      /\ withdrawn \subseteq 1..offers /\ withdrawn \in SUBSET Offer
  BY DEF CommissioningInv, TypeOK, OfferInv
<1> QED BY <1>1, <1>2, <1>3, RecoverInv DEF Recovering

\* A recovery is confirmed, and its offer never again.
LEMMA RecoveryConfirmInv == ASSUME CommissioningInv, RecoveryConfirm PROVE CommissioningInv'
<1>1. /\ OfferShown /\ Unresolved(status) /\ RecoveryMatches(recoveryStatus, status)
      /\ Recover("recoveryConfirm", recoveryStatus.session, recoveryStatus.offer)
      /\ confirmed' = confirmed \cup {OfferKey(recoveryStatus)}
      /\ requested' = recoveryStatus.session
      /\ withdrawn' = withdrawn \cup {recoveryStatus.offer}
  BY DEF RecoveryConfirm, Recover
<1>2. /\ Heard(recoveryStatus) /\ recoveryStatus \in Status
      /\ recoveryStatus.offer # NoOffer /\ recoveryStatus.offer <= offers
  BY <1>1 DEF OfferShown, CommissioningInv, ShownInv, Heard, HeardBy
<1>3. status.trial # NoTrial /\ recoveryStatus.trial = status.trial
  BY <1>1 DEF Unresolved, RecoveryMatches
<1>4. /\ recoveryStatus.session \in Session /\ recoveryStatus.trial \in Trial
      /\ recoveryStatus.offer \in Offer /\ recoveryStatus.offer \in 1..offers
  BY <1>2, <1>3 DEF Status, Offer, NoOffer, CommissioningInv, TypeOK
<1>5. confirmed \in SUBSET (Session \X Trial \X Offer)
      /\ withdrawn \subseteq 1..offers /\ withdrawn \in SUBSET Offer
  BY DEF CommissioningInv, TypeOK, OfferInv
<1>6. confirmed' \in SUBSET (Session \X Trial \X Offer)
  BY <1>1, <1>4, <1>5 DEF OfferKey
<1> QED BY <1>1, <1>4, <1>5, <1>6, RecoverInv DEF Recovering

\* The recovery that an inspection or a confirmation tells of.
LEMMA AcceptingRecovery ==
  ASSUME CommissioningInv, NEW next, Heard(next), next.cleared \/ next.offer \notin withdrawn,
         AcceptRecovery(next), UNCHANGED <<external, withdrawn>>
  PROVE  /\ ShownInv' /\ OfferInv'
         /\ status' = status \/ status' = next
         /\ status' \in Status \cup {None} /\ available' \in BOOLEAN /\ uncertain' \in BOOLEAN
         /\ recoveryStatus' \in Status \cup {None} /\ recoveryAvailable' \in BOOLEAN
<1>1. /\ recoveryStatus' = next /\ recoveryAvailable' = TRUE
      /\ node' = node /\ trials' = trials /\ offers' = offers /\ resolved' = resolved
      /\ withdrawn' = withdrawn
  BY DEF AcceptRecovery, external
<1>2. next \in Status /\ next # None
  BY NoneAssumption DEF Heard, HeardBy
<1>3. \/ status' = next /\ available' = TRUE /\ uncertain' = FALSE
      \/ status' = status /\ available' = available /\ uncertain' = uncertain
  BY DEF AcceptRecovery, Show, shown
<1>4. /\ status \in Status \cup {None} /\ available \in BOOLEAN /\ uncertain \in BOOLEAN
      /\ Heard(node) /\ (status # None => Heard(status)) /\ (available => status # None)
      /\ withdrawn \subseteq 1..offers
  BY DEF CommissioningInv, TypeOK, ShownInv, OfferInv
<1>5. ShownInv'
  BY <1>1, <1>2, <1>3, <1>4 DEF ShownInv, Heard
<1>6. OfferInv'
  BY <1>1, <1>4 DEF OfferInv
<1> QED BY <1>1, <1>2, <1>3, <1>4, <1>5, <1>6

\* The first answer of an inspection: the clearance, or the session to inspect.
LEMMA RecoveryObservedInv == ASSUME CommissioningInv, RecoveryObserved PROVE CommissioningInv'
<1> DEFINE next == action.reply
<1>1. /\ action # None /\ action.kind = "recoveryStatus" /\ next # None
      /\ UNCHANGED <<external, recoveryOnly, disposed, attempts, reading, stop, submitted, withdrawn>>
  BY DEF RecoveryObserved
<1>2. action \in Action /\ Heard(next) /\ next \in Status /\ next.session \in Session
  BY <1>1 DEF CommissioningInv, TypeOK, ActionInv, Heard, HeardBy, Status
<1>3. CASE Refused
  BY <1>1, <1>3, RefusedInv
<1>4. CASE action' = None /\ UNCHANGED <<shown, recovery, doubt>>
  BY <1>1, <1>4, SettlesSilently
<1>5. CASE /\ action.current /\ requested' = next.session /\ UNCHANGED doubt
           /\ Cleared(next, status) /\ action' = None /\ AcceptRecovery(next)
  <2>1. stop = None /\ next.cleared
    BY <1>1, <1>5 DEF CommissioningInv, ActionInv, Cleared
  <2>2. UNCHANGED <<external, withdrawn>>
    BY <1>1
  <2>3. /\ ShownInv' /\ OfferInv'
        /\ status' \in Status \cup {None} /\ available' \in BOOLEAN /\ uncertain' \in BOOLEAN
        /\ recoveryStatus' \in Status \cup {None} /\ recoveryAvailable' \in BOOLEAN
    BY <1>2, <1>5, <2>1, <2>2, AcceptingRecovery
  <2>4. requested' \in Session \cup {0}
    BY <1>2, <1>5
  <2> QED BY <1>1, <1>5, <2>1, <2>3, <2>4, Settles
<1>6. CASE /\ action.current /\ requested' = next.session /\ UNCHANGED doubt
           /\ action' = [action EXCEPT !.kind = "recoveryInspect", !.reply = None,
                                       !.session = next.session]
           /\ UNCHANGED <<shown, recoveryStatus, recoveryAvailable>>
  <2>1. /\ node' = node /\ trials' = trials /\ offers' = offers /\ resolved' = resolved
        /\ recoveryOnly' = recoveryOnly /\ disposed' = disposed
        /\ attempted' = attempted /\ confirmed' = confirmed /\ reading' = reading /\ stop' = stop
        /\ submitted' = submitted /\ withdrawn' = withdrawn /\ doubt' = doubt
        /\ status' = status /\ available' = available /\ uncertain' = uncertain
        /\ recoveryStatus' = recoveryStatus /\ recoveryAvailable' = recoveryAvailable
    BY <1>1, <1>6 DEF external, attempts, shown
  <2>2. /\ action' \in Action /\ action'.kind = "recoveryInspect" /\ action'.reply = None
        /\ action'.current = action.current
    BY <1>2, <1>6 DEF Action, Kind
  <2>3. action' # None
    BY <2>2, NoneAssumption
  <2>4. ShownInv' /\ OfferInv'
    BY <2>1 DEF CommissioningInv, ShownInv, OfferInv, Heard
  <2>5. ReadingInv'
    <3>1. reading # None => ~reading.current /\ (reading.reply # None => Heard(reading.reply))
      BY <1>1 DEF CommissioningInv, ReadingInv
    <3> QED BY <2>1, <3>1 DEF ReadingInv, Heard
  <2>6. ActionInv'
    <3>1. stop = None
      BY <1>1, <1>6 DEF CommissioningInv, ActionInv
    <3> QED BY <2>1, <2>2, <3>1 DEF ActionInv, Recovering
  <2>7. StopInv' /\ DoubtInv'
    BY <1>1, <2>1 DEF CommissioningInv, StopInv, DoubtInv, Heard
  <2>8. TypeOK'
    BY <1>2, <1>6, <2>1, <2>2 DEF CommissioningInv, TypeOK
  <2> QED BY <2>1, <2>4, <2>5, <2>6, <2>7, <2>8 DEF CommissioningInv
<1> QED BY <1>3, <1>4, <1>5, <1>6 DEF RecoveryObserved

\* The last answer of an inspection, or that of a confirmation.
LEMMA RecoveryRepliesInv == ASSUME CommissioningInv, RecoveryReplies PROVE CommissioningInv'
<1> DEFINE next == action.reply
<1>1. /\ action # None /\ action.kind \in {"recoveryInspect", "recoveryConfirm"} /\ next # None
      /\ UNCHANGED <<external, recoveryOnly, disposed, attempts, reading, stop, submitted, withdrawn>>
  BY DEF RecoveryReplies
<1>2. CASE Refused
  BY <1>1, <1>2, RefusedInv
<1>3. CASE action' = None /\ UNCHANGED <<requested, doubt>> /\ action.current /\ AcceptRecovery(next)
  <2>1. /\ stop = None /\ Heard(next) /\ (next.cleared \/ next.offer \notin withdrawn)
    BY <1>1, <1>3 DEF CommissioningInv, ActionInv
  <2>2. UNCHANGED <<external, withdrawn>>
    BY <1>1
  <2>3. /\ ShownInv' /\ OfferInv'
        /\ status' \in Status \cup {None} /\ available' \in BOOLEAN /\ uncertain' \in BOOLEAN
        /\ recoveryStatus' \in Status \cup {None} /\ recoveryAvailable' \in BOOLEAN
    BY <1>3, <2>1, <2>2, AcceptingRecovery
  <2>4. requested' \in Session \cup {0}
    BY <1>3 DEF CommissioningInv, TypeOK
  <2> QED BY <1>1, <1>3, <2>1, <2>3, <2>4, Settles
<1>4. CASE /\ action' = None /\ UNCHANGED <<requested, doubt>>
           /\ UNCHANGED <<shown, recoveryStatus, recoveryAvailable>>
  BY <1>1, <1>4, SettlesSilently DEF recovery
<1> QED BY <1>2, <1>3, <1>4 DEF RecoveryReplies

-----------------------------------------------------------------------------
(* action(), of a Stop; cancelRecovery() and dispose() *)

\* What was under way counts no more, and of an unresolved trial a Stop may begin.
LEMMA InvalidatesInv ==
  ASSUME CommissioningInv, InvalidateRecovery,
         UNCHANGED <<external, recoveryOnly, disposed, shown, attempts, doubt, submitted>>,
         \/ stop' = stop /\ recoveryOnly
         \/ /\ stop' \in Stop /\ stop'.reply = None /\ ~recoveryOnly /\ ~disposed /\ Unresolved(status)
  PROVE  CommissioningInv'
<1>1. /\ node' = node /\ trials' = trials /\ offers' = offers /\ resolved' = resolved
      /\ recoveryOnly' = recoveryOnly /\ disposed' = disposed
      /\ attempted' = attempted /\ confirmed' = confirmed
      /\ submitted' = submitted /\ doubt' = doubt
      /\ status' = status /\ available' = available /\ uncertain' = uncertain
      /\ recoveryStatus' = recoveryStatus /\ recoveryAvailable' = FALSE /\ requested' = requested
      /\ reading' = Superseded(reading) /\ action' = Superseded(action)
      /\ withdrawn' = withdrawn \cup 1..offers
  BY DEF InvalidateRecovery, external, attempts, shown
<1>2. ShownInv' /\ OfferInv'
  BY <1>1 DEF CommissioningInv, ShownInv, OfferInv, Heard
<1>3. ReadingInv'
  <2>1. reading # None /\ reading.reply # None => Heard(reading.reply)
    BY DEF CommissioningInv, ReadingInv
  <2> QED BY <1>1, <2>1, Supersedes DEF ReadingInv, Heard
<1>4. ActionInv'
  <2>1. action # None =>
          /\ action.reply # None => Heard(action.reply)
          /\ recoveryOnly => action.kind \in Recovering
          /\ action.kind = "prepare" => ~Unresolved(status) /\ stop = None /\ (action.current \/ disposed)
          /\ action.kind = "recoveryConfirm" /\ action.reply # None => action.reply.cleared
    BY DEF CommissioningInv, ActionInv
  <2>2. action # None => action.kind # "prepare"
    BY <2>1 DEF Recovering
  <2> QED BY <1>1, <2>1, <2>2, Supersedes DEF ActionInv, Heard, Unresolved
<1>5. StopInv'
  BY <1>1, NoneAssumption DEF CommissioningInv, StopInv, Heard
<1>6. DoubtInv'
  BY <1>1, Supersedes DEF CommissioningInv, DoubtInv, Unresolved
<1>7. TypeOK'
  <2>1. offers \in 0..MaxOffers /\ MaxOffers \in Nat
    BY CommissioningAssumption DEF CommissioningInv, TypeOK, Offer, NoOffer
  <2>2. 1..offers \subseteq Offer
    BY <2>1 DEF Offer
  <2>3. TypeOK
    BY DEF CommissioningInv
  <2>4. withdrawn' \in SUBSET Offer
    BY <1>1, <2>2, <2>3 DEF TypeOK
  <2>5. stop' \in Stop \cup {None}
    BY <2>3 DEF TypeOK
  <2>6. reading' \in Read \cup {None} /\ action' \in Action \cup {None}
    BY <1>1, Supersedes
  <2>7. /\ recoveryOnly' \in BOOLEAN /\ disposed' \in BOOLEAN /\ available' \in BOOLEAN
       /\ uncertain' \in BOOLEAN /\ recoveryAvailable' \in BOOLEAN /\ doubt' \in BOOLEAN
    BY <1>1, <2>3 DEF TypeOK
  <2>8. /\ node' \in Status /\ trials' \in Trial \cup {NoTrial} /\ offers' \in Offer \cup {NoOffer}
       /\ status' \in Status \cup {None} /\ recoveryStatus' \in Status \cup {None}
       /\ requested' \in Session \cup {0} /\ resolved' \in SUBSET Trial
       /\ attempted' \in SUBSET (Session \X Trial) /\ submitted' \in SUBSET (Session \X Trial)
       /\ confirmed' \in SUBSET (Session \X Trial \X Offer)
    BY <1>1, <2>3 DEF TypeOK
  <2> QED BY <2>4, <2>5, <2>6, <2>7, <2>8 DEF TypeOK
<1> QED BY <1>1, <1>2, <1>3, <1>4, <1>5, <1>6, <1>7 DEF CommissioningInv

\* A Stop begins for an unresolved trial.
LEMMA StopTrialInv == ASSUME CommissioningInv, StopTrial PROVE CommissioningInv'
<1>1. /\ ~disposed /\ ~recoveryOnly /\ Unresolved(status) /\ InvalidateRecovery
      /\ stop' = [session |-> status.session, trial |-> status.trial, reply |-> None,
                  other |-> IF requested = status.session THEN 0 ELSE requested]
      /\ UNCHANGED <<external, recoveryOnly, disposed, shown, attempts, doubt, submitted>>
  BY DEF StopTrial
<1>2. status.session \in Session /\ status.trial \in Trial /\ requested \in Session \cup {0}
  BY <1>1 DEF Unresolved, CommissioningInv, TypeOK, Status
<1>3. stop' \in Stop /\ stop'.reply = None
  BY <1>1, <1>2 DEF Stop
<1> QED BY <1>1, <1>3, InvalidatesInv

\* The Stop of a retained owner withdraws its recovery.
LEMMA CancelRecoveryInv == ASSUME CommissioningInv, CancelRecovery PROVE CommissioningInv'
BY InvalidatesInv DEF CancelRecovery

\* After a dispose nothing under way counts.
LEMMA DisposeInv == ASSUME CommissioningInv, Dispose PROVE CommissioningInv'
<1>1. /\ disposed' = TRUE
      /\ node' = node /\ trials' = trials /\ offers' = offers /\ resolved' = resolved
      /\ recoveryOnly' = recoveryOnly /\ stop' = stop
      /\ attempted' = attempted /\ confirmed' = confirmed
      /\ submitted' = submitted /\ doubt' = doubt /\ withdrawn' = withdrawn
      /\ status' = status /\ available' = available /\ uncertain' = uncertain
      /\ recoveryStatus' = recoveryStatus /\ recoveryAvailable' = recoveryAvailable
      /\ requested' = requested
      /\ reading' = Superseded(reading) /\ action' = Superseded(action)
  BY DEF Dispose, external, shown, recovery, attempts, history
<1>2. ShownInv' /\ OfferInv' /\ StopInv'
  BY <1>1 DEF CommissioningInv, ShownInv, OfferInv, StopInv, Heard
<1>3. ReadingInv'
  <2>1. reading # None /\ reading.reply # None => Heard(reading.reply)
    BY DEF CommissioningInv, ReadingInv
  <2> QED BY <1>1, <2>1, Supersedes DEF ReadingInv, Heard
<1>4. ActionInv'
  <2>1. action # None =>
          /\ action.reply # None => Heard(action.reply)
          /\ recoveryOnly => action.kind \in Recovering
          /\ action.kind = "prepare" => ~Unresolved(status) /\ stop = None
          /\ action.kind = "recoveryConfirm" /\ action.reply # None => action.reply.cleared
    BY DEF CommissioningInv, ActionInv
  <2> QED BY <1>1, <2>1, Supersedes DEF ActionInv, Heard, Unresolved
<1>5. DoubtInv'
  BY <1>1 DEF DoubtInv
<1>6. TypeOK'
  BY <1>1, Supersedes DEF CommissioningInv, TypeOK
<1> QED BY <1>1, <1>2, <1>3, <1>4, <1>5, <1>6 DEF CommissioningInv

\* The answer to a Stop counts whatever else is under way, and no read or action that
\* counts is under way beside it.
LEMMA StopRepliesInv == ASSUME CommissioningInv, StopReplies PROVE CommissioningInv'
<1>1. /\ stop # None /\ stop.reply # None /\ stop' = None
      /\ recoveryOnly' = recoveryOnly /\ disposed' = disposed /\ reading' = reading
      /\ attempted' = attempted /\ confirmed' = confirmed /\ action' = action
      /\ submitted' = submitted /\ doubt' = doubt /\ withdrawn' = withdrawn
      /\ node' = node /\ trials' = trials /\ offers' = offers /\ resolved' = resolved
  BY DEF StopReplies, external, attempts, history
<1>2. /\ Heard(stop.reply) /\ ~recoveryOnly
      /\ reading # None => ~reading.current /\ (reading.reply # None => Heard(reading.reply))
      /\ action # None => /\ ~action.current /\ action.kind # "prepare"
                          /\ action.reply # None => Heard(action.reply)
                          /\ action.kind = "recoveryConfirm" /\ action.reply # None => action.reply.cleared
  BY <1>1 DEF CommissioningInv, StopInv, ReadingInv, ActionInv
<1>3. ReadingInv' /\ ActionInv' /\ StopInv' /\ DoubtInv' /\ submitted' \subseteq attempted'
  BY <1>1, <1>2 DEF CommissioningInv, ReadingInv, ActionInv, StopInv, DoubtInv, Heard
<1>4. /\ ShownInv' /\ OfferInv'
      /\ status' \in Status \cup {None} /\ available' \in BOOLEAN /\ uncertain' \in BOOLEAN
      /\ recoveryStatus' \in Status \cup {None} /\ recoveryAvailable' \in BOOLEAN
      /\ requested' \in Session \cup {0}
  <2>1. CASE Accept(stop.reply, recoveryStatus)
    <3>1. /\ recoveryStatus # None => Heard(recoveryStatus)
          /\ recoveryAvailable => recoveryStatus # None
          /\ recoveryAvailable /\ recoveryStatus.offer # NoOffer =>
               recoveryStatus.cleared \/ recoveryStatus.offer \notin withdrawn
      BY DEF CommissioningInv, ShownInv, OfferInv
    <3>2. UNCHANGED <<external, withdrawn>>
      BY <1>1 DEF external
    <3> QED BY <1>2, <2>1, <3>1, <3>2, Accepting
  <2>2. CASE StopUnconfirmed
    <3>1. /\ status' = status /\ uncertain' = TRUE /\ available' = FALSE
          /\ recoveryStatus' = recoveryStatus /\ recoveryAvailable' = recoveryAvailable
          /\ requested' = requested
      BY <2>2 DEF StopUnconfirmed, recovery
    <3> QED BY <1>1, <3>1 DEF CommissioningInv, TypeOK, ShownInv, OfferInv, Heard
  <2> QED BY <2>1, <2>2 DEF StopReplies
<1>5. TypeOK'
  BY <1>1, <1>4 DEF CommissioningInv, TypeOK
<1> QED BY <1>3, <1>4, <1>5 DEF CommissioningInv

\* A Stop fails, whether or not it was served.
LEMMA StopFailsInv == ASSUME CommissioningInv, StopFails PROVE CommissioningInv'
<1>1. /\ stop # None /\ stop' = None
      /\ recoveryOnly' = recoveryOnly /\ disposed' = disposed /\ reading' = reading
      /\ attempted' = attempted /\ confirmed' = confirmed /\ action' = action
      /\ submitted' = submitted /\ doubt' = doubt /\ withdrawn' = withdrawn
      /\ node' = node /\ trials' = trials /\ offers' = offers /\ resolved' = resolved
      /\ status' = status /\ uncertain' = TRUE /\ available' = FALSE
      /\ recoveryStatus' = recoveryStatus /\ recoveryAvailable' = recoveryAvailable
      /\ requested' = requested
  BY DEF StopFails, StopUnconfirmed, external, attempts, history, recovery
<1>2. /\ reading # None => ~reading.current /\ (reading.reply # None => Heard(reading.reply))
      /\ action # None => /\ ~action.current /\ action.kind # "prepare"
                          /\ action.reply # None => Heard(action.reply)
                          /\ recoveryOnly => action.kind \in Recovering
                          /\ action.kind = "recoveryConfirm" /\ action.reply # None => action.reply.cleared
  BY <1>1 DEF CommissioningInv, ReadingInv, ActionInv
<1>3. ReadingInv' /\ ActionInv' /\ StopInv' /\ DoubtInv'
  BY <1>1, <1>2 DEF CommissioningInv, ReadingInv, ActionInv, StopInv, DoubtInv, Heard
<1>4. ShownInv' /\ OfferInv' /\ submitted' \subseteq attempted'
  BY <1>1 DEF CommissioningInv, ShownInv, OfferInv, Heard
<1>5. TypeOK'
  <2>1. TypeOK
    BY DEF CommissioningInv
  <2>2. /\ recoveryOnly' \in BOOLEAN /\ disposed' \in BOOLEAN /\ available' \in BOOLEAN
       /\ uncertain' \in BOOLEAN /\ recoveryAvailable' \in BOOLEAN /\ doubt' \in BOOLEAN
    BY <1>1, <2>1 DEF TypeOK
  <2>3. /\ node' \in Status /\ trials' \in Trial \cup {NoTrial} /\ offers' \in Offer \cup {NoOffer}
       /\ status' \in Status \cup {None} /\ recoveryStatus' \in Status \cup {None}
       /\ requested' \in Session \cup {0} /\ resolved' \in SUBSET Trial
       /\ attempted' \in SUBSET (Session \X Trial) /\ submitted' \in SUBSET (Session \X Trial)
       /\ confirmed' \in SUBSET (Session \X Trial \X Offer)
       /\ withdrawn' \in SUBSET Offer /\ reading' \in Read \cup {None} /\ action' \in Action \cup {None}
       /\ stop' \in Stop \cup {None}
    BY <1>1, <2>1 DEF TypeOK
  <2> QED BY <2>2, <2>3 DEF TypeOK
<1> QED BY <1>3, <1>4, <1>5 DEF CommissioningInv

-----------------------------------------------------------------------------
(* The invariant *)

\* Nothing is known at first, or the record of a retained owner.
LEMMA CommissioningInitially == Init => CommissioningInv
<1> SUFFICES ASSUME Init PROVE CommissioningInv
  OBVIOUS
<1>1. 1 \in Session /\ 1 \in Trial /\ MaxOffers \in Nat
  BY CommissioningAssumption DEF Session, Trial
<1>2. Blank \in Status
  BY <1>1 DEF Blank, Status, Phase
<1>3. /\ node \in Status /\ trials \in {0, 1} /\ status \in {None, node} /\ offers = 0
      /\ ~node.cleared /\ node.phase # "over" /\ node.trial = trials /\ node.offer = NoOffer
      /\ recoveryOnly \in BOOLEAN
  <2>1. CASE recoveryOnly
    <3>1. PICK p \in {"waiting", "running", "unknown"} :
            node = [Blank EXCEPT !.trial = 1, !.phase = p] /\ trials = 1 /\ status = node
      BY <2>1 DEF Init
    <3>2. p \in Phase
      BY DEF Phase
    <3>3. /\ node \in Status /\ ~node.cleared /\ node.phase = p /\ node.trial = 1
          /\ node.offer = NoOffer
      BY <1>1, <1>2, <3>1, <3>2 DEF Blank, Status
    <3> QED BY <3>1, <3>3 DEF Init
  <2>2. CASE ~recoveryOnly
    <3>1. node = Blank /\ trials = 0 /\ status = None
      BY <2>2 DEF Init
    <3>2. ~Blank.cleared /\ Blank.phase = "none" /\ Blank.trial = 0 /\ Blank.offer = NoOffer
      BY DEF Blank, NoTrial
    <3> QED BY <1>2, <3>1, <3>2 DEF Init
  <2> QED BY <2>1, <2>2
<1>4. Heard(node)
  <2>1. NotBefore(node, node)
    BY <1>3, Ranks DEF NotBefore, Status
  <2> QED BY <1>3, <2>1 DEF Heard, HeardBy, NoOffer
<1>5. ShownInv /\ ReadingInv /\ ActionInv /\ StopInv /\ DoubtInv /\ OfferInv
  BY <1>3, <1>4 DEF Init, ShownInv, ReadingInv, ActionInv, StopInv, DoubtInv, OfferInv
<1>6. TypeOK
  BY <1>1, <1>3 DEF Init, TypeOK, NoTrial, NoOffer
<1> QED BY <1>5, <1>6 DEF Init, CommissioningInv

\* Every step keeps the invariant.
LEMMA CommissioningInductive == ASSUME CommissioningInv, [Next]_vars PROVE CommissioningInv'
<1>1. CASE UNCHANGED vars
  <2>1. /\ node' = node /\ trials' = trials /\ offers' = offers /\ resolved' = resolved
        /\ recoveryOnly' = recoveryOnly /\ disposed' = disposed
        /\ status' = status /\ available' = available /\ uncertain' = uncertain
        /\ recoveryStatus' = recoveryStatus /\ recoveryAvailable' = recoveryAvailable
        /\ requested' = requested /\ attempted' = attempted /\ confirmed' = confirmed
        /\ reading' = reading /\ action' = action /\ stop' = stop
        /\ doubt' = doubt /\ submitted' = submitted /\ withdrawn' = withdrawn
    BY <1>1 DEF vars, external, shown, recovery, attempts, history
  <2> QED BY <2>1 DEF CommissioningInv, TypeOK, ShownInv, ReadingInv, ActionInv, StopInv, DoubtInv, OfferInv,
                      Heard, Renews, Unresolved
<1>2. CASE Next
  BY <1>2, NodeStepsInv, NodeReadsInv, NodeActsInv, NodeStopsInv, RefreshInv, RefreshRepliesInv,
     RefreshFailsInv, InspectInv, PrepareInv, ApproveInv, ActionRepliesInv, ActionFailsInv,
     RecoveryInspectInv, RecoveryObservedInv, RecoveryConfirmInv, RecoveryRepliesInv,
     StopTrialInv, StopRepliesInv, StopFailsInv, CancelRecoveryInv, DisposeInv DEF Next
<1> QED BY <1>1, <1>2

\* The invariant holds of every behaviour.
THEOREM CommissioningInvariance == Spec => []CommissioningInv
<1>1. Init => CommissioningInv
  BY CommissioningInitially
<1>2. CommissioningInv /\ [Next]_vars => CommissioningInv'
  BY CommissioningInductive
<1> QED BY <1>1, <1>2, PTL DEF Spec

\* Every variable keeps its type.
THEOREM CommissioningTypeCorrect == Spec => []TypeOK
<1>1. CommissioningInv => TypeOK
  BY DEF CommissioningInv
<1> QED BY <1>1, CommissioningInvariance, PTL

-----------------------------------------------------------------------------
(* What a step may change *)

\* The status shown is replaced by a later one that a Node has had: by an admissible one
\* unless the owner is retained, or by the clearance of the trial.
Replaces ==
  /\ status' \in Status /\ Heard(status') /\ NotBefore(status', status)
  /\ resolved' = resolved
  /\ (~recoveryOnly /\ Admissible(status')) \/ Cleared(status', status)

\* What a read may show instead.
LEMMA RefreshReplaces == ASSUME CommissioningInv, RefreshReplies, status' # status PROVE Replaces
<1> DEFINE next == reading.reply
<1>1. /\ reading # None /\ next # None /\ reading.current /\ RefreshShows(next)
      /\ resolved' = resolved
  BY DEF RefreshReplies, external, shown
<1>2. Heard(next) /\ NotBefore(next, status) /\ next \in Status
  BY <1>1 DEF CommissioningInv, ReadingInv, Heard, HeardBy
<1>3. Adopts(next) /\ Admissible(next) /\ status' = next
  BY <1>1 DEF RefreshShows, RefreshInvalidates, Invalidated, Accept, Show, shown
<1> QED BY <1>1, <1>2, <1>3 DEF Replaces, Adopts

\* A refusal shows nothing else.
LEMMA RefusedKeeps == ASSUME Refused PROVE status' = status
BY DEF Refused, RefusedRequest, RefusedRecovery, shown

\* What the answer to an action may show instead.
LEMMA ActionReplaces == ASSUME CommissioningInv, ActionReplies, status' # status PROVE Replaces
<1> DEFINE next == action.reply
<1>1. /\ action # None /\ next # None /\ action.kind \notin Recovering /\ resolved' = resolved
      /\ action.current /\ Admissible(next) /\ status' = next
  BY RefusedKeeps DEF ActionReplies, external, shown, Accept, Show
<1>2. Heard(next) /\ NotBefore(next, status) /\ next \in Status /\ ~recoveryOnly
  BY <1>1 DEF CommissioningInv, ActionInv, Heard, HeardBy
<1> QED BY <1>1, <1>2 DEF Replaces

\* What the recovery may show instead: the clearance only.
LEMMA RecoveryReplaces ==
  ASSUME CommissioningInv, RecoveryObserved \/ RecoveryReplies, status' # status
  PROVE  Replaces
<1> DEFINE next == action.reply
<1>1. /\ action # None /\ next # None /\ action.current /\ resolved' = resolved
      /\ AcceptRecovery(next)
  BY RefusedKeeps DEF RecoveryObserved, RecoveryReplies, external, shown
<1>2. Cleared(next, status) /\ status' = next
  BY <1>1 DEF AcceptRecovery, Show, shown
<1>3. Heard(next) /\ NotBefore(next, status) /\ next \in Status
  BY <1>1 DEF CommissioningInv, ActionInv, Heard, HeardBy
<1> QED BY <1>1, <1>2, <1>3 DEF Replaces

\* What the answer to a Stop may show instead.
LEMMA StopReplaces == ASSUME CommissioningInv, StopReplies, status' # status PROVE Replaces
<1> DEFINE next == stop.reply
<1>1. /\ stop # None /\ next # None /\ resolved' = resolved /\ Admissible(next) /\ status' = next
  BY DEF StopReplies, StopUnconfirmed, external, Accept, Show
<1>2. Heard(next) /\ NotBefore(next, status) /\ next \in Status /\ ~recoveryOnly
  BY <1>1 DEF CommissioningInv, StopInv, Heard, HeardBy
<1> QED BY <1>1, <1>2 DEF Replaces

\* Nothing else replaces the status shown.
LEMMA StatusChanges == ASSUME CommissioningInv, [Next]_vars, status' # status PROVE Replaces
<1>1. CASE \/ NodeSteps \/ NodeReads \/ NodeActs \/ NodeStops \/ Refresh \/ RefreshFails
           \/ UNCHANGED vars
  BY <1>1 DEF NodeSteps, NodeReads, NodeActs, NodeStops, Refresh, RefreshFails,
              RefreshInvalidates, Invalidated, vars, shown
<1>2. CASE Inspect \/ Prepare \/ Approve \/ RecoveryInspect \/ RecoveryConfirm
  BY <1>2 DEF Inspect, Prepare, Approve, Begin, RecoveryInspect, RecoveryConfirm, Recover, shown
<1>3. CASE ActionFails
  BY <1>3, RefusedKeeps DEF ActionFails
<1>4. CASE StopTrial \/ StopFails \/ CancelRecovery \/ Dispose
  BY <1>4 DEF StopTrial, StopFails, StopUnconfirmed, CancelRecovery, Dispose, shown
<1> QED BY <1>1, <1>2, <1>3, <1>4, RefreshReplaces, ActionReplaces, RecoveryReplaces, StopReplaces
        DEF Next

\* Whatever answers overtake one another, the trial shown never goes back to an earlier phase.
THEOREM ShownGoesForward == Spec => ShownNeverFalls
<1>1. ASSUME CommissioningInv, [Next]_vars, TrialOf(status) # NoTrial, TrialOf(status') = TrialOf(status)
      PROVE  Rank(status'.phase) >= Rank(status.phase)
  <2>1. status # None /\ status \in Status /\ status.trial # NoTrial
    BY <1>1 DEF TrialOf, CommissioningInv, TypeOK
  <2>2. Rank(status.phase) \in 0..4
    BY <2>1, Ranks DEF Status
  <2>3. CASE status' = status
    BY <2>2, <2>3
  <2>4. CASE status' # status
    <3>1. NotBefore(status', status) /\ status' # None
      BY <1>1, <2>4, StatusChanges, NoneAssumption DEF Replaces
    <3> QED BY <1>1, <2>1, <3>1 DEF NotBefore, TrialOf
  <2> QED BY <2>3, <2>4
<1>2. CommissioningInv /\ [Next]_vars =>
        [TrialOf(status) # NoTrial /\ TrialOf(status') = TrialOf(status)
           => Rank(status'.phase) >= Rank(status.phase)]_vars
  BY <1>1
<1> QED BY <1>2, CommissioningInvariance, PTL DEF Spec, ShownNeverFalls

\* An unresolved trial keeps its owner until the Node has resolved it, and one of unknown
\* outcome until it is cleared.
THEOREM OwnerIsNeverReleased == Spec => NeverReleased
<1>1. ASSUME CommissioningInv, [Next]_vars, Unresolved(status), ~Unresolved(status')
      PROVE  /\ status'.trial = status.trial /\ status.trial \in resolved'
             /\ status.phase = "unknown" => status'.cleared
  <2>1. Replaces
    BY <1>1, StatusChanges
  <2>2. status' \in Status /\ status' # None /\ resolved' = resolved
    BY <2>1, NoneAssumption DEF Replaces
  <2>3. /\ status'.trial = status.trial /\ status.trial # NoTrial
        /\ status.phase = "unknown" => status'.phase = "unknown"
    BY <1>1, <2>1 DEF Replaces, Admissible, Matches, Cleared, RecoveryMatches, Unresolved
  <2>4. status'.cleared \/ status'.phase = "over"
    BY <1>1, <2>2, <2>3 DEF Unresolved
  <2>5. status'.trial \in resolved
    BY <2>1, <2>3, <2>4 DEF Replaces, Heard, HeardBy
  <2> QED BY <2>2, <2>3, <2>4, <2>5
<1>2. CommissioningInv /\ [Next]_vars =>
        [Unresolved(status) /\ ~Unresolved(status')
           => /\ status'.trial = status.trial /\ status.trial \in resolved'
              /\ status.phase = "unknown" => status'.cleared]_vars
  BY <1>1
<1> QED BY <1>2, CommissioningInvariance, PTL DEF Spec, NeverReleased

\* The record of a retained owner changes to its own durable clearance only.
THEOREM RetainedOwnerIsCleared == Spec => RetainedUntilCleared
<1>1. CommissioningInv /\ [Next]_vars => [recoveryOnly /\ status' # status => Cleared(status', status)]_vars
  BY StatusChanges DEF Replaces
<1> QED BY <1>1, CommissioningInvariance, PTL DEF Spec, RetainedUntilCleared

\* Only a handler of the page sends a request.
LEMMA Sent ==
  ASSUME CommissioningInv, [Next]_vars, action = None, action' # None
  PROVE  \/ Inspect /\ action'.kind = "inspect"
         \/ Prepare /\ action'.kind = "prepare"
         \/ Approve /\ action'.kind = "approve"
         \/ RecoveryInspect /\ action'.kind = "recoveryStatus"
         \/ RecoveryConfirm /\ action'.kind = "recoveryConfirm" /\ action'.offer = recoveryStatus.offer
<1>1. Superseded(action) = None
  BY DEF Superseded
<1>2. ~(StopTrial \/ CancelRecovery \/ Dispose)
  BY <1>1 DEF StopTrial, CancelRecovery, Dispose, InvalidateRecovery
<1>3. ~(NodeSteps \/ NodeReads \/ NodeActs \/ NodeStops \/ Refresh \/ RefreshReplies \/ RefreshFails
        \/ StopReplies \/ StopFails \/ ActionReplies \/ ActionFails \/ RecoveryObserved
        \/ RecoveryReplies \/ UNCHANGED vars)
  BY DEF NodeSteps, NodeReads, NodeActs, NodeStops, Refresh, RefreshReplies, RefreshFails,
         StopReplies, StopFails, ActionReplies, ActionFails, RecoveryObserved, RecoveryReplies, vars
<1>4. ASSUME NEW kind, NEW session, NEW offer, Request(kind, session, offer)
      PROVE  action'.kind = kind /\ action'.offer = offer
  BY <1>4 DEF Request
<1> QED BY <1>2, <1>3, <1>4
        DEF Next, Inspect, Prepare, Approve, Begin, RecoveryInspect, RecoveryConfirm, Recover

\* A trial of one Node session is approved at most once, whatever becomes of the request.
THEOREM ApprovesOnce == Spec => ApprovedOnce
<1>1. ASSUME CommissioningInv, [Next]_vars, Sends("approve")
      PROVE  <<status.session, status.trial>> \notin submitted
  <2>1. Approve
    BY <1>1, Sent DEF Sends
  <2> QED BY <1>1, <2>1 DEF Approve, CommissioningInv
<1>2. CommissioningInv /\ [Next]_vars => [Sends("approve") => <<status.session, status.trial>> \notin submitted]_vars
  BY <1>1
<1> QED BY <1>2, CommissioningInvariance, PTL DEF Spec, ApprovedOnce

\* What an action relies on has not been overtaken.
THEOREM RequestsRelyOnFreshReads == Spec => ActsOnFreshRead
<1>1. ASSUME CommissioningInv, [Next]_vars, Sends("prepare") PROVE ~doubt
  <2>1. Prepare
    BY <1>1, Sent DEF Sends
  <2> QED BY <1>1, <2>1 DEF Prepare, Begin, CommissioningInv, DoubtInv
<1>2. ASSUME CommissioningInv, [Next]_vars, Sends("recoveryConfirm") PROVE action'.offer \notin withdrawn
  <2>1. RecoveryConfirm /\ action'.offer = recoveryStatus.offer
    BY <1>2, Sent DEF Sends
  <2> QED BY <1>2, <2>1 DEF RecoveryConfirm, OfferShown, CommissioningInv, OfferInv
<1>3. CommissioningInv /\ [Next]_vars =>
        [/\ Sends("prepare") => ~doubt
         /\ Sends("recoveryConfirm") => action'.offer \notin withdrawn]_vars
  BY <1>1, <1>2
<1> QED BY <1>3, CommissioningInvariance, PTL DEF Spec, ActsOnFreshRead
=============================================================================
