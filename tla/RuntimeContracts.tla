--------------------------- MODULE RuntimeContracts ---------------------------
(***************************************************************************)
(* The contracts of the runtime side by side: a run and its record           *)
(* (PhysicalRun), questions to a routing host (SkillRouting) and the        *)
(* resolution of a plan (RuntimeRegistry).  They share no state.            *)
(***************************************************************************)
EXTENDS PhysicalRun

CONSTANTS
  Catalogs, Projections, Questions, Facts, MaxRouteTime, MaxReceipts, MaxMoves, \* of SkillRouting
  Bundles, Attestations, Safeties, Objects, Shapes, MaxSwaps                    \* of RuntimeRegistry

VARIABLES
  catalog, host, facts, assessed, time, moves, shown, asked, receipts,          \* of SkillRouting
  objects, registered, bundles, attested, plan, swaps, resolved                 \* of RuntimeRegistry

routeVars    == <<catalog, host, facts, assessed, time, moves, shown, asked, receipts>>
registryVars == <<objects, registered, bundles, attested, plan, swaps, resolved>>

Routing == INSTANCE SkillRouting WITH
  MaxTime <- MaxRouteTime, MaxChanges <- MaxMoves,
  seen <- assessed, clock <- time, changes <- moves

Registry == INSTANCE RuntimeRegistry WITH
  MaxChanges <- MaxSwaps, adapters <- registered, changes <- swaps

\* A policy as SafetyPolicy.from_dict reads it: lists, of names and of pairs of numbers.
PolicyTyped(s) ==
  /\ s.axes \in Seq(Range(s.axes)) /\ s.limits \in Seq([min : Int, max : Int])
  /\ s.observationAge \in Int /\ s.actionAge \in Int

\* A bundle names each adapter by its kind, identity and version.
ASSUME RegistryAssumption ==
  /\ \A s \in Safeties : PolicyTyped(s)
  /\ \A b \in Bundles :
       /\ PolicyTyped(b.envelope)
       /\ \A k \in Registry!Kind : b.needs[k] = <<b.needs[k][1], b.needs[k][2], b.needs[k][3]>>

\* Bounds and ages are numbers, and an order of preference is a list.
ASSUME RoutingAssumption ==
  /\ \A digest \in DOMAIN Catalogs :
       LET c == Catalogs[digest] IN
       /\ \A s \in DOMAIN c.skills :
            /\ \A n \in DOMAIN c.skills[s].fields :
                 LET f == c.skills[s].fields[n] IN f.type \in Numeric => {f.min, f.max} \subseteq Int
            /\ \A q \in DOMAIN c.skills[s].needs : c.skills[s].needs[q].age \in Int
       /\ \A i \in DOMAIN c.impls : \A q \in DOMAIN c.impls[i].needs : c.impls[i].needs[q].age \in Int
  /\ \A p \in Projections : p.policy.order \in Seq(Range(p.policy.order))

-----------------------------------------------------------------------------
(* Properties *)

\* A routing decision selects the first usable implementation, if any (see SkillRouting).
RouteIsFirstUsable == Routing!RouteIsFirstUsable

\* The client shows one genuine evaluation, and every truthful answer (see SkillRouting).
ShownIsGenuine == Routing!ShownIsGenuine

\* A plan is resolved exactly when it is qualified (see RuntimeRegistry).
ResolvedIsQualified == Registry!ResolvedIsQualified
=============================================================================
