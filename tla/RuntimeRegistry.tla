---------------------------- MODULE RuntimeRegistry ----------------------------
(***************************************************************************)
(* The registry of the runtime (registry.py) and the plans it resolves      *)
(* (contracts/models.py): a plan, sealed for one bundle and one attestation *)
(* of a target, becomes a runtime only on that target, with the bundle that *)
(* was qualified there and the adapters it names.                           *)
(*                                                                         *)
(* Adapters are objects of the host.  The registry keeps references, so an  *)
(* adapter may change its identity, lose a method or load another artifact  *)
(* after it was registered; and the target may be attested anew, or the     *)
(* bundle edited, after the plan was written.                               *)
(*                                                                         *)
(* A digest is the value it was computed from.  Of the lists, only the      *)
(* order of the axes matters: limits are compared by place.  `terms` stands *)
(* for what a plan must repeat exactly: strategy, clock domain, observation *)
(* and action schemas, and units.                                           *)
(***************************************************************************)
EXTENDS Integers, Sequences, SequencesExt

CONSTANTS
  Bundles,       \* [id, terms, axes, envelope, needs |-> [kind -> key], artifacts]
  Attestations,  \* [device, adapters |-> keys, qualified |-> [id -> bundle]]
  Safeties,      \* [axes, limits |-> sequence of [min, max], observationAge, actionAge]
  Objects,       \* the adapters of a host
  Shapes,        \* [Objects -> sets of [id, version, can |-> kinds, artifact]]
  MaxChanges,    \* bound on the changes of adapters
  Nothing        \* no value

Kind == {"sensor", "model", "robot"}

-----------------------------------------------------------------------------
(* What the contracts accept *)

(* SafetyPolicy.from_dict *)
SafetyAccepted(s) ==
  /\ Len(s.axes) = Len(s.limits)
  /\ IsInjective(s.axes)
  /\ \A i \in DOMAIN s.limits : s.limits[i].min <= s.limits[i].max
  /\ s.observationAge >= 1 /\ s.actionAge >= 1

\* Names and digests of artifacts are unique.
ArtifactsAccepted(artifacts) ==
  /\ artifacts # {}
  /\ \A a, b \in artifacts : a # b => a.name # b.name /\ a.digest # b.digest

ModelArtifacts(bundle) == { a \in bundle.artifacts : a.kind = "model" }
ModelArtifact(bundle)  == CHOOSE a \in ModelArtifacts(bundle) : TRUE

(* AdapterCapability.from_dict, by its key *)
AdapterAccepted(key) == key[1] \in Kind

(* QualifiedBundle.from_dict: the parts, whether or not they go together *)
BundleRead(b) ==
  /\ b.axes # <<>>
  /\ b.artifacts # {}
  /\ SafetyAccepted(b.envelope)
  /\ \A k \in Kind : AdapterAccepted(b.needs[k])

(* QualifiedBundle.__post_init__: they do, and there is one model. *)
BundleAccepted(b) ==
  /\ IsInjective(b.axes)
  /\ b.envelope.axes = b.axes
  /\ \A k \in Kind : b.needs[k][1] = k
  /\ ArtifactsAccepted(b.artifacts)
  /\ \E a \in b.artifacts : ModelArtifacts(b) = {a}

(* RuntimePlan.from_dict *)
PlanAccepted(p) == ArtifactsAccepted(p.artifacts) /\ SafetyAccepted(p.safety)

(* RuntimeCapabilities.from_dict *)
AttestationAccepted(a) ==
  a.adapters # {} /\ a.qualified # <<>> /\ \A key \in a.adapters : AdapterAccepted(key)

Targets == { a \in Attestations : AttestationAccepted(a) }

-----------------------------------------------------------------------------
VARIABLES
  objects,   \* the adapters as they are
  adapters,  \* key <<kind, id, version>> -> object, as registered
  bundles,   \* id -> bundle, as registered
  attested,  \* the attestation of this runtime
  plan,      \* the plan that was handed over, or Nothing
  changes,
  resolved   \* [verdict, plan, attested, bundles, adapters, objects] at the resolution

vars == <<objects, adapters, bundles, attested, plan, changes, resolved>>

Init ==
  /\ objects \in { f \in [Objects -> UNION { Shapes[o] : o \in Objects }] :
                     \A o \in Objects : f[o] \in Shapes[o] }
  /\ adapters = <<>>
  /\ bundles = <<>>
  /\ attested \in Targets
  /\ plan = Nothing
  /\ changes = 0
  /\ resolved = Nothing

-----------------------------------------------------------------------------
(* Registration: register_sensor, register_model, register_robot, register_bundle *)

With(book, key, v) == [k \in DOMAIN book \cup {key} |-> IF k = key THEN v ELSE book[k]]

Register(kind, o) ==
  LET key == <<kind, objects[o].id, objects[o].version>> IN
  /\ resolved = Nothing
  /\ kind \in objects[o].can
  /\ kind = "model" => objects[o].artifact # Nothing
  /\ key \notin DOMAIN adapters
  /\ adapters' = With(adapters, key, o)
  /\ UNCHANGED <<objects, bundles, attested, plan, changes, resolved>>

RegisterBundle(b) ==
  /\ resolved = Nothing
  /\ BundleRead(b)
  /\ BundleAccepted(b)
  /\ b.id \notin DOMAIN bundles
  /\ bundles' = With(bundles, b.id, b)
  /\ UNCHANGED <<objects, adapters, attested, plan, changes, resolved>>

-----------------------------------------------------------------------------
(* The host *)

\* An adapter changes, whether or not it is registered.
Change(o) ==
  /\ resolved = Nothing
  /\ changes < MaxChanges
  /\ changes' = changes + 1
  /\ \E shape \in Shapes[o] \ {objects[o]} : objects' = [objects EXCEPT ![o] = shape]
  /\ UNCHANGED <<adapters, bundles, attested, plan, resolved>>

\* The target is attested again.
Attest ==
  /\ resolved = Nothing
  /\ changes < MaxChanges
  /\ changes' = changes + 1
  /\ attested' \in Targets \ {attested}
  /\ UNCHANGED <<objects, adapters, bundles, plan, resolved>>

\* A plan is sealed for some bundle and some attestation; its limits, its terms and
\* its artifacts need not be theirs.
Seal ==
  /\ resolved = Nothing
  /\ plan = Nothing
  /\ \E b, other \in Bundles : \E target \in Targets : \E safety \in Safeties :
       LET p == [ bundle |-> b, terms |-> other.terms, artifacts |-> other.artifacts,
                  target |-> target, safety |-> safety ] IN
       PlanAccepted(p) /\ plan' = p
  /\ UNCHANGED <<objects, adapters, bundles, attested, changes, resolved>>

-----------------------------------------------------------------------------
(* RuntimeRegistry.resolve *)

\* The plan is for this target and its current attestation.
TargetMatches == plan.target = attested

\* The bundle is the one of the plan, of the registry and of the attestation.
BundleMatches ==
  /\ plan.bundle.id \in DOMAIN bundles
  /\ plan.bundle = bundles[plan.bundle.id]
  /\ plan.bundle.id \in DOMAIN attested.qualified
  /\ attested.qualified[plan.bundle.id] = bundles[plan.bundle.id]

\* Mutant of LimitsWithin: limits are compared whatever they limit.
LimitsInPlace(safety, b) ==
  /\ safety.observationAge <= b.envelope.observationAge
  /\ safety.actionAge <= b.envelope.actionAge
  /\ \A i \in DOMAIN safety.limits \cap DOMAIN b.envelope.limits :
       /\ b.envelope.limits[i].min <= safety.limits[i].min
       /\ safety.limits[i].max <= b.envelope.limits[i].max

\* The limits equal or tighten those of the bundle, place by place.
LimitsWithin(safety, b) ==
  /\ safety.axes = b.axes
  /\ safety.observationAge <= b.envelope.observationAge
  /\ safety.actionAge <= b.envelope.actionAge
  /\ \A i \in DOMAIN safety.limits \cap DOMAIN b.envelope.limits :
       /\ b.envelope.limits[i].min <= safety.limits[i].min
       /\ safety.limits[i].max <= b.envelope.limits[i].max

\* Each adapter is attested, registered, and still what it was registered as.
AdaptersMatch(b) ==
  \A k \in Kind :
    LET key == b.needs[k] IN
    /\ key \in attested.adapters
    /\ key \in DOMAIN adapters
    /\ LET now == objects[adapters[key]] IN
       <<now.id, now.version>> = <<key[2], key[3]>> /\ k \in now.can

ModelBound(b) == objects[adapters[b.needs["model"]]].artifact = ModelArtifact(b).digest

Resolves ==
  /\ TargetMatches
  /\ BundleMatches
  /\ LET b == bundles[plan.bundle.id] IN
     /\ plan.terms = b.terms
     /\ LimitsWithin(plan.safety, b)
     /\ plan.artifacts = b.artifacts
     /\ AdaptersMatch(b)
     /\ ModelBound(b)

Resolve ==
  /\ resolved = Nothing
  /\ plan # Nothing
  /\ resolved' = [ verdict |-> Resolves, plan |-> plan, attested |-> attested,
                   bundles |-> bundles, adapters |-> adapters, objects |-> objects ]
  /\ UNCHANGED <<objects, adapters, bundles, attested, plan, changes>>

Next ==
  \/ \E o \in Objects : Change(o) \/ \E kind \in Kind : Register(kind, o)
  \/ \E b \in Bundles : RegisterBundle(b)
  \/ Attest
  \/ Seal
  \/ Resolve

Spec == Init /\ [][Next]_vars

-----------------------------------------------------------------------------
(* Properties *)

\* The values a policy lets an axis take.
Allows(safety, axis) ==
  UNION { safety.limits[i].min .. safety.limits[i].max :
            i \in { i \in DOMAIN safety.axes : safety.axes[i] = axis } }

\* What is fit to run here: everything it may do was qualified on this target as it is
\* attested, every part of it is attested and present, and the model it would run is
\* the one that was qualified.
Qualified(r) ==
  \E id \in DOMAIN r.attested.qualified :
    LET b == r.attested.qualified[id] IN
    /\ r.plan.target = r.attested /\ r.plan.bundle = b
    /\ id \in DOMAIN r.bundles /\ r.bundles[id] = b
    /\ r.plan.terms = b.terms /\ r.plan.artifacts = b.artifacts
    /\ r.plan.safety.axes = b.axes
    /\ \A axis \in ToSet(b.axes) : Allows(r.plan.safety, axis) \subseteq Allows(b.envelope, axis)
    /\ 1 .. r.plan.safety.observationAge \subseteq 1 .. b.envelope.observationAge
    /\ 1 .. r.plan.safety.actionAge \subseteq 1 .. b.envelope.actionAge
    /\ \A k \in Kind : \E o \in Objects :
         LET key == <<k, r.objects[o].id, r.objects[o].version>> IN
         /\ key = b.needs[k]
         /\ key \in r.attested.adapters
         /\ key \in DOMAIN r.adapters /\ r.adapters[key] = o
         /\ k \in r.objects[o].can
         /\ k = "model" => \E a \in b.artifacts : a.kind = "model" /\ a.digest = r.objects[o].artifact

\* A plan becomes a runtime exactly when all it would run with is qualified at that
\* moment, whatever has changed since it was sealed and since the registrations.
ResolvedIsQualified == resolved # Nothing => (resolved.verdict <=> Qualified(resolved))
=============================================================================
