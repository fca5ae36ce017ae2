------------------------------ MODULE SkillRouting ------------------------------
(***************************************************************************)
(* The routing of a physical skill (runtime contracts/routing.py) and the   *)
(* client that shows the result (cli physical/route-contracts.js and its    *)
(* callers in node-client.js).                                              *)
(*                                                                         *)
(* The code judges sealed values: which implementation of a catalog a       *)
(* request selects, and which receipt of such a decision is shown.  The     *)
(* host that observes the workcell, writes the requests and keeps the       *)
(* receipts is outside this repository: here it may change anything between *)
(* two steps, read its clock before it observes, keep writing for a catalog *)
(* that it has replaced, and put a receipt together from parts of others.   *)
(*                                                                         *)
(* A digest identifies what it was computed from.  That of a catalog is its *)
(* name in Catalogs, that of the state of the workcell the set of facts     *)
(* that hold, and any other the value itself.                               *)
(* Mechanism and provider play no part in a decision and are left out, as   *)
(* are the orders of lists, wording, limits and time stamps for display.    *)
(***************************************************************************)
EXTENDS TypedValues, Sequences, FiniteSets, SequencesExt

CONSTANTS
  Catalogs,     \* what a host may publish: digest -> [workcell, skills, impls]
  Projections,  \* what a host may report of its devices and choose as policy
  Questions,    \* [skill, args] a client may ask for
  Facts,        \* what may hold in the workcell; requirements are named for them
  MaxTime,      \* bound on the clock
  MaxReceipts,  \* bound on the receipts that are kept
  MaxChanges    \* bound on the changes of catalog, projection and facts

-----------------------------------------------------------------------------
(* What the contracts accept *)

\* PhysicalEligibilityRequirement.from_dict, of a map from names.
RequirementsAccepted(needs) == \A q \in DOMAIN needs : needs[q].age >= 1

\* PhysicalSkillDefinition.from_dict: no input is optional.
SkillAccepted(skill) ==
  /\ \A n \in DOMAIN skill.fields : FieldAccepted(skill.fields[n]) /\ skill.fields[n].required
  /\ RequirementsAccepted(skill.needs)

\* PhysicalSkillImplementation.from_dict
ImplementationAccepted(m) ==
  /\ m.status \in {"available", "blocked"}
  /\ m.qualification \in {"qualified", "demo_qualified", "provisional", "blocked"}
  /\ RequirementsAccepted(m.needs)

(* PhysicalSkillCatalog.from_dict: every implementation was made for a skill *)
(* of the catalog as it stands and for its workcell, and no two requirements *)
(* of one skill share a name and differ.                                     *)
CatalogAccepted(c) ==
  /\ \A s \in DOMAIN c.skills : SkillAccepted(c.skills[s])
  /\ \A i \in DOMAIN c.impls : ImplementationAccepted(c.impls[i])
  /\ \A i \in DOMAIN c.impls :
       LET m == c.impls[i] IN
       /\ m.skill \in DOMAIN c.skills
       /\ m.definition = c.skills[m.skill]
       /\ m.workcell = c.workcell
       /\ \A j \in { j \in DOMAIN c.impls : c.impls[j].skill = m.skill } :
            \A q \in DOMAIN m.needs :
              /\ q \in DOMAIN c.impls[j].needs => c.impls[j].needs[q] = m.needs[q]
              /\ q \in DOMAIN m.definition.needs => m.definition.needs[q] = m.needs[q]

\* PhysicalPreconditionAssessment.from_dict: only what was observed has a time.
AssessmentAccepted(a) == a.at = Nothing <=> a.status = "unknown"

\* _precondition_assessments: a map, so none is assessed twice.
AssessmentsAccepted(assessments) ==
  \A q \in DOMAIN assessments : AssessmentAccepted(assessments[q])

\* _typed_arguments, another map
ArgumentsAccepted(args) == \A n \in DOMAIN args : ArgumentAccepted(args[n])

\* PhysicalRoutingPolicy.from_dict: a total order, and blocked is never allowed.
PolicyAccepted(p) ==
  /\ IsInjective(p.order)
  /\ p.allowed # {}
  /\ p.allowed \subseteq {"qualified", "demo_qualified", "provisional"}

(* physical_skill_invocation_digest *)
Invocation(skill, definition, args) == <<skill, definition, args>>

(* PhysicalSkillRouteRequest.from_dict *)
RequestAccepted(r) ==
  /\ r.invocation = Invocation(r.skill, r.definition, r.args)
  /\ ArgumentsAccepted(r.args)
  /\ AssessmentsAccepted(r.seen)
  /\ PolicyAccepted(r.policy)

\* seal_physical_skill_route_request: whatever invocation the host put in, the request
\* gets that of its skill and its arguments.
SealedRequest(r) == [r EXCEPT !.invocation = Invocation(r.skill, r.definition, r.args)]

-----------------------------------------------------------------------------
(* Why a request or a candidate is rejected.  The code of a candidate is a    *)
(* pair: what is wrong, and how.                                             *)

(* _binding_rejections: required and available map a name to a digest. *)
BindingRejections(kind, required, available) ==
  { <<kind, IF b \in DOMAIN available THEN "mismatch" ELSE "missing">> :
      b \in { b \in DOMAIN required :
                b \in DOMAIN available => available[b] # required[b] } }

\* Mutant of PreconditionRejections: the state of an assessment is not compared.
PreconditionRejectionsAnyState(needs, r) ==
  LET of(q, code, holds) == IF holds THEN { <<"precondition", code>> } ELSE {}
      judged(q) ==
        LET a == r.seen[q] IN
        UNION { of(q, "requirement_mismatch", a.requirement # needs[q].digest),
                of(q, "invocation_mismatch", a.invocation # r.invocation),
                of(q, "unknown", a.status = "unknown"),
                of(q, "violated", a.status = "violated"),
                of(q, "from_future", a.status # "unknown" /\ a.at > r.now),
                of(q, "stale", a.status # "unknown" /\ r.now - a.at > needs[q].age) }
  IN  UNION { IF q \in DOMAIN r.seen THEN judged(q) ELSE of(q, "missing", TRUE) :
              q \in DOMAIN needs }

(* _precondition_rejections *)
PreconditionRejections(needs, r) ==
  LET of(q, code, holds) == IF holds THEN { <<"precondition", code>> } ELSE {}
      judged(q) ==
        LET a == r.seen[q] IN
        UNION { of(q, "requirement_mismatch", a.requirement # needs[q].digest),
                of(q, "invocation_mismatch", a.invocation # r.invocation),
                of(q, "state_mismatch", a.state # r.state),
                of(q, "unknown", a.status = "unknown"),
                of(q, "violated", a.status = "violated"),
                of(q, "from_future", a.status # "unknown" /\ a.at > r.now),
                of(q, "stale", a.status # "unknown" /\ r.now - a.at > needs[q].age) }
  IN  UNION { IF q \in DOMAIN r.seen THEN judged(q) ELSE of(q, "missing", TRUE) :
              q \in DOMAIN needs }

(* _argument_rejections *)
ArgumentRejections(fields, args) ==
  LET both  == DOMAIN fields \cap DOMAIN args
      typed == { n \in both : args[n].type = fields[n].type }
  IN  { code \in {"missing_argument", "unknown_argument", "argument_type_mismatch",
                  "argument_out_of_bounds"} :
          CASE code = "missing_argument" -> DOMAIN fields # both
            [] code = "unknown_argument" -> DOMAIN args # both
            [] code = "argument_type_mismatch" -> both # typed
            [] code = "argument_out_of_bounds" ->
                 \E n \in typed : /\ fields[n].type \in Numeric
                                  /\ args[n].value \notin fields[n].min .. fields[n].max }

Candidates(c, r) == { i \in DOMAIN c.impls : /\ r.skill \in DOMAIN c.skills
                                             /\ c.impls[i].skill = r.skill }

RequestRejections(digest, r) ==
  LET c == Catalogs[digest]  ids == Candidates(c, r)  order == ToSet(r.policy.order) IN
  { code \in {"catalog_mismatch", "workcell_mismatch", "unknown_skill",
              "skill_definition_mismatch", "policy_incomplete",
              "policy_unknown_implementation"} :
      CASE code = "catalog_mismatch"   -> r.catalog # digest
        [] code = "workcell_mismatch"  -> r.workcell # c.workcell
        [] code = "unknown_skill"      -> r.skill \notin DOMAIN c.skills
        [] code = "skill_definition_mismatch" ->
             r.skill \in DOMAIN c.skills /\ c.skills[r.skill] # r.definition
        [] code = "policy_incomplete"  -> ~(ids \subseteq order)
        [] code = "policy_unknown_implementation" -> ~(order \subseteq ids) }
  \cup IF r.skill \in DOMAIN c.skills
       THEN ArgumentRejections(c.skills[r.skill].fields, r.args) ELSE {}

TargetRejections(target, targets) ==
  IF target \in targets THEN {}
  ELSE IF \E t \in targets : t.kind = target.kind
  THEN { <<"execution_target", "mismatch">> } ELSE { <<"execution_target", "unavailable">> }

\* The requirements of the skill and those the implementation adds.
Needs(c, i) ==
  LET common == c.skills[c.impls[i].skill].needs  own == c.impls[i].needs IN
  [q \in DOMAIN common \cup DOMAIN own |-> IF q \in DOMAIN common THEN common[q] ELSE own[q]]

Rejections(c, r, i) ==
  LET m == c.impls[i] IN
  (UNION { BindingRejections(kind, m.binds[kind], r.bound[kind]) : kind \in DOMAIN m.binds })
  \cup TargetRejections(m.target, r.targets)
  \cup PreconditionRejections(Needs(c, i), r)
  \cup { code \in { <<"implementation", "blocked">>, <<"manifest", "mismatch">>,
                    <<"qualification", "status_not_allowed">> } :
           CASE code[1] = "implementation" -> m.status = "blocked"
             [] code[1] = "manifest"       -> m.manifest # r.manifest
             [] code[1] = "qualification"  -> m.qualification \notin r.policy.allowed }

(* route_physical_skill: of the candidates that nothing rejects, the first in *)
(* the order of the policy, if nothing is wrong with the request.            *)
Route(digest, r) ==
  LET c        == Catalogs[digest]
      codes    == RequestRejections(digest, r)
      rejected == [i \in Candidates(c, r) |-> Rejections(c, r, i)]
      order    == r.policy.order
      fit      == { n \in DOMAIN order : order[n] \in DOMAIN rejected /\ rejected[order[n]] = {} }
      selected == IF codes = {} /\ fit # {}
                  THEN order[CHOOSE n \in fit : \A k \in fit : n <= k] ELSE Nothing
  IN  [ request |-> r, catalog |-> digest, policy |-> r.policy, state |-> r.state,
        invocation |-> r.invocation, selected |-> selected, codes |-> codes,
        candidates |->
          [i \in DOMAIN rejected |->
             [ impl |-> c.impls[i],
               codes |-> rejected[i],
               status |-> IF rejected[i] # {} THEN "rejected"
                          ELSE IF i = selected THEN "selected" ELSE "eligible_not_selected" ] ] ]

\* PhysicalCandidateRoute.from_dict
CandidateAccepted(candidate) == candidate.status = "rejected" <=> candidate.codes # {}

(* PhysicalSkillRouteDecision.from_dict *)
DecisionAccepted(d) ==
  LET chosen == { i \in DOMAIN d.candidates : d.candidates[i].status = "selected" } IN
  /\ \A i \in DOMAIN d.candidates : CandidateAccepted(d.candidates[i])
  /\ IF d.selected # Nothing
     THEN d.codes = {} /\ chosen = {d.selected}
     ELSE /\ chosen = {}
          /\ d.codes = {} =>
               \A i \in DOMAIN d.candidates : d.candidates[i].status = "rejected"

-----------------------------------------------------------------------------
(* What the client accepts *)

\* inputField
InputFieldAccepted(f) ==
  /\ f.type \in Scalars
  /\ f.required
  /\ IF f.type \in Numeric THEN {f.min, f.max} \subseteq Int /\ f.min <= f.max
                            ELSE {f.min, f.max} = {Nothing}

\* requirement
NeedAccepted(need) == need.age >= 1

\* normalizePhysicalCapabilityCatalog, of the skills of a catalog
CatalogShown(c) ==
  \A s \in DOMAIN c.skills :
    /\ \A n \in DOMAIN c.skills[s].fields : InputFieldAccepted(c.skills[s].fields[n])
    /\ \A q \in DOMAIN c.skills[s].needs : NeedAccepted(c.skills[s].needs[q])

\* normalizePhysicalRouteRequest: values are of their type, but the fields of the skill
\* are left to Runtime.
QuestionAccepted(q) ==
  \A n \in DOMAIN q.args : q.args[n].type \in Scalars /\ ScalarAccepted(q.args[n].value, q.args[n].type)

\* decision: the status, the choice and the reasons agree.
DecisionShown(d) ==
  LET with(status) == { i \in DOMAIN d.candidates : d.candidates[i].status = status } IN
  /\ with("rejected") = { i \in DOMAIN d.candidates : d.candidates[i].codes # {} }
  /\ \/ d.selected # Nothing /\ with("selected") = {d.selected} /\ d.codes = {}
     \/ /\ d.selected = Nothing /\ with("selected") = {}
        /\ d.codes = {} => with("rejected") = DOMAIN d.candidates

(* A receipt holds the question it answers, the      *)
(* catalog and the request of the evaluation, and the decision.              *)

\* Mutant of RequestFits: the digest and the state of the request are not compared.
RequestFitsByInvocation(receipt) ==
  LET q == receipt.question  r == receipt.request  d == receipt.decision IN
  /\ r.skill = q.skill
  /\ r.args = q.args
  /\ r.workcell = Catalogs[q.catalog].workcell
  /\ r.manifest = Catalogs[q.catalog].workcell
  /\ r.catalog = q.catalog
  /\ r.invocation = d.invocation
  /\ r.policy = d.policy

\* The stored request is the one that was decided, and asks what was asked.
RequestFits(receipt) ==
  LET q == receipt.question  r == receipt.request  d == receipt.decision IN
  /\ r.skill = q.skill
  /\ r.args = q.args
  /\ r.workcell = Catalogs[q.catalog].workcell
  /\ r.manifest = Catalogs[q.catalog].workcell
  /\ r.catalog = q.catalog
  /\ r = d.request
  /\ r.invocation = d.invocation
  /\ r.state = d.state
  /\ r.policy = d.policy

\* Every candidate is an implementation of the stored catalog, for the skill asked.
CandidatesFit(receipt) ==
  LET impls == Catalogs[receipt.catalog].impls IN
  \A i \in DOMAIN receipt.decision.candidates :
    /\ i \in DOMAIN impls
    /\ impls[i].skill = receipt.question.skill
    /\ impls[i] = receipt.decision.candidates[i].impl

(* normalizePhysicalRouteReceipt; a receipt that is opened by its digest is
   not compared with a question. *)
ReceiptAccepted(receipt, expected) ==
  /\ expected # Nothing => receipt.question = expected
  /\ receipt.decision.catalog = receipt.question.catalog
  /\ receipt.catalog = receipt.question.catalog
  /\ RequestFits(receipt)
  /\ CandidatesFit(receipt)
  /\ QuestionAccepted(receipt.question)
  /\ DecisionShown(receipt.decision)

-----------------------------------------------------------------------------
VARIABLES
  catalog,    \* the catalog of the host
  host,       \* its projection of the devices, with the policy
  facts,      \* what holds in the workcell
  seen,       \* the assessments the host has made, by requirement
  clock,
  changes,    \* how often the world has changed
  shown,      \* the catalog the client has read, or Nothing
  asked,      \* the question of the client, or Nothing
  receipts    \* the receipts the host keeps, oldest first

vars == <<catalog, host, facts, seen, clock, changes, shown, asked, receipts>>

\* A host publishes what seal_physical_skill_catalog returns: it orders and hashes, and
\* refuses the rest.
Published == { digest \in DOMAIN Catalogs : CatalogAccepted(Catalogs[digest]) }

Init ==
  /\ catalog \in Published
  /\ host \in Projections
  /\ facts = Facts
  /\ seen = <<>>
  /\ clock = 0
  /\ changes = 0
  /\ shown = Nothing
  /\ asked = Nothing
  /\ receipts = <<>>

Client == <<shown, asked>>

\* All ends with the last receipt that is kept: what comes later judges no other.
Open == Len(receipts) < MaxReceipts

\* The world moves while nobody looks.
World ==
  /\ Open
  /\ changes < MaxChanges
  /\ changes' = changes + 1
  /\ \/ \E c \in Published : catalog' = c /\ UNCHANGED <<host, facts>>
     \/ \E p \in Projections : host' = p /\ UNCHANGED <<catalog, facts>>
     \/ \E f \in Facts :
          /\ facts' = IF f \in facts THEN facts \ {f} ELSE facts \cup {f}
          /\ UNCHANGED <<catalog, host>>
  /\ UNCHANGED <<seen, clock, receipts, Client>>

Tick == /\ Open
        /\ clock < MaxTime
        /\ clock' = clock + 1
        /\ UNCHANGED <<catalog, host, facts, seen, changes, receipts, Client>>

\* capabilities() of the client
Read == /\ Open
        /\ shown # catalog
        /\ CatalogShown(Catalogs[catalog])
        /\ shown' = catalog
        /\ UNCHANGED <<catalog, host, facts, seen, clock, changes, asked, receipts>>

\* previewCapability() of the client: the question names the catalog it was shown.
Ask ==
  /\ Open
  /\ shown # Nothing
  /\ \E q \in Questions :
       /\ QuestionAccepted(q)
       /\ asked' = [skill |-> q.skill, args |-> q.args, catalog |-> shown]
  /\ UNCHANGED <<catalog, host, facts, seen, clock, changes, shown, receipts>>

\* The catalogs for which the host may still be writing.
Bases == { c \in {catalog, asked.catalog} : asked.skill \in DOMAIN Catalogs[c].skills }

\* The host assesses a requirement, truthfully, for the question asked; once, as a
\* second assessment in place of the first adds nothing to what a request may hold.
Observe ==
  /\ Open
  /\ asked # Nothing
  /\ \E base \in Bases : \E f \in Facts \ DOMAIN seen : \E known \in BOOLEAN :
       LET definition == Catalogs[base].skills[asked.skill]
           new == [ requirement |-> f,
                    invocation |-> Invocation(asked.skill, definition, asked.args),
                    state |-> facts,
                    status |-> IF ~known THEN "unknown"
                               ELSE IF f \in facts THEN "met" ELSE "violated",
                    at |-> IF known THEN clock ELSE Nothing ]
       IN  seen' = [q \in DOMAIN seen \cup {f} |-> IF q = f THEN new ELSE seen[q]]
  /\ UNCHANGED <<catalog, host, facts, clock, changes, receipts, Client>>

\* The request the host writes on the strength of a catalog, at a reading of its clock.
Request(base, now) ==
  LET definition == Catalogs[base].skills[asked.skill] IN
  [ catalog |-> base, skill |-> asked.skill, definition |-> definition,
    args |-> asked.args, invocation |-> Nothing, workcell |-> Catalogs[base].workcell,
    manifest |-> host.manifest, state |-> facts, now |-> now, bound |-> host.bound, targets |-> host.targets,
    seen |-> seen, policy |-> host.policy ]

\* The host evaluates the question and keeps the receipt.
Evaluate ==
  /\ asked # Nothing
  /\ Open
  /\ \E base \in Bases : \E now \in { t \in {clock - 1, clock} : t >= 0 } :
       LET r == SealedRequest(Request(base, now))
           d == Route(catalog, r)
       IN
       /\ RequestAccepted(r)
       /\ DecisionAccepted(d)
       /\ receipts' = Append(receipts, [ question |-> asked, catalog |-> catalog,
                                         request |-> r, decision |-> d ])
  /\ UNCHANGED <<catalog, host, facts, seen, clock, changes, Client>>

Next == World \/ Tick \/ Read \/ Ask \/ Observe \/ Evaluate

Spec == Init /\ [][Next]_vars

-----------------------------------------------------------------------------
(* Properties *)

\* What a request must be for anything to be selected.
WellPosed(c, r) ==
  /\ r.skill \in DOMAIN c.skills
  /\ ToSet(r.policy.order) = { i \in DOMAIN c.impls : c.impls[i].skill = r.skill }
  /\ DOMAIN r.args = DOMAIN c.skills[r.skill].fields
  /\ \A n \in DOMAIN r.args :
       LET f == c.skills[r.skill].fields[n] IN
       /\ r.args[n].type = f.type
       /\ f.type \in Numeric => f.min <= r.args[n].value /\ r.args[n].value <= f.max

\* What an implementation must be to be used: released, with all it is bound to in
\* place, and with every requirement seen to hold lately, for this very invocation
\* and in the very state in which the decision is taken.
Usable(c, r, i) ==
  LET m == c.impls[i] IN
  /\ m.status = "available" /\ m.manifest = r.manifest
  /\ m.qualification \in r.policy.allowed
  /\ m.target \in r.targets
  /\ \A kind \in DOMAIN m.binds : \A b \in DOMAIN m.binds[kind] :
       b \in DOMAIN r.bound[kind] /\ r.bound[kind][b] = m.binds[kind][b]
  /\ \A q \in DOMAIN m.needs \cup DOMAIN c.skills[m.skill].needs :
       LET need == IF q \in DOMAIN m.needs THEN m.needs[q] ELSE c.skills[m.skill].needs[q] IN
       /\ q \in r.state
       /\ q \in DOMAIN r.seen
       /\ r.seen[q].requirement = need.digest
       /\ r.seen[q].invocation = r.invocation
       /\ r.seen[q].state = r.state
       /\ r.seen[q].at # Nothing
       /\ r.seen[q].at <= r.now /\ r.now <= r.seen[q].at + need.age

\* A decision selects the first usable implementation of the policy's order, if the
\* request is well posed and there is one, and nothing otherwise.
RouteIsFirstUsable ==
  \A n \in DOMAIN receipts :
    LET r == receipts[n].request
        c == Catalogs[receipts[n].catalog]
        usable(i) == Usable(c, r, r.policy.order[i])
    IN  IF r.catalog = receipts[n].catalog /\ WellPosed(c, r) /\ \E i \in DOMAIN r.policy.order : usable(i)
        THEN \E i \in DOMAIN r.policy.order :
               /\ usable(i) /\ \A k \in 1 .. i - 1 : ~usable(k)
               /\ receipts[n].decision.selected = r.policy.order[i]
        ELSE receipts[n].decision.selected = Nothing

\* What the client may be given: put together from the receipts the host keeps.
Answer(i, j, k, l) ==
  [ question |-> receipts[i].question, catalog |-> receipts[j].catalog,
    request |-> receipts[k].request, decision |-> receipts[l].decision ]

\* What the client shows is one evaluation that was made, of a request for that
\* question, on the catalog that was shown when it was asked.  A receipt that is
\* compared with no question is accepted if any is.
Genuine ==
  \A i, j, k, l \in DOMAIN receipts :
    LET a == Answer(i, j, k, l) IN
    ReceiptAccepted(a, Nothing) =>
      /\ a.catalog = a.question.catalog
      /\ a.request.skill = a.question.skill /\ a.request.args = a.question.args
      /\ \E n \in DOMAIN receipts :
           /\ receipts[n].catalog = a.catalog
           /\ receipts[n].request = a.request
           /\ receipts[n].decision = a.decision

\* Whatever the host answers truthfully to the question is shown.
TruthIsShown ==
  \A n \in DOMAIN receipts :
    LET a == receipts[n] IN
    /\ a.question = asked
    /\ a.catalog = asked.catalog /\ a.request.catalog = asked.catalog
    /\ a.request.manifest = Catalogs[asked.catalog].workcell
    => ReceiptAccepted(a, asked)

\* The client shows genuine evaluations only, and every one that answers its question.
ShownIsGenuine == Genuine /\ TruthIsShown
=============================================================================
