--------------------------- MODULE MCRuntimeContracts ---------------------------
(***************************************************************************)
(* Small instances of the contracts of the runtime: a behaviour is a run,    *)
(* questions to a routing host, or the resolution of a plan.                *)
(***************************************************************************)
EXTENDS RuntimeContracts

-----------------------------------------------------------------------------
Number == [type |-> "number", required |-> TRUE, min |-> 0, max |-> 1]
Flag   == [type |-> "boolean", required |-> FALSE, min |-> Nothing, max |-> Nothing]

(* An arm that a camera of another trust domain watches; halting the arm     *)
(* takes the power relay as well.                                            *)
MCManifest ==
  [ resource |-> {"arm", "cam", "power"},
    device   |-> [arm |-> "a", cam |-> "b"],
    command  |->
      [ move |-> [device |-> "arm", effect |-> "actuating", resources |-> {"arm"},
                  fields |-> ("x" :> Number) @@ ("slow" :> Flag)],
        look |-> [device |-> "cam", effect |-> "read_only", resources |-> {"cam"}, fields |-> <<>>],
        halt |-> [device |-> "arm", effect |-> "safety_stop", resources |-> {"arm", "power"},
                  fields |-> <<>>] ] ]

Asks(producer, phase) == [producer |-> producer, phase |-> phase, age |-> 1]
Both(producer) == <<Asks(producer, "precondition"), Asks(producer, "postcondition")>>
To(x) == "x" :> [type |-> "number", value |-> x]
Step(command, resources, requires) ==
  [command |-> command, args |-> IF command = "move" THEN To(1) ELSE <<>>,
   resources |-> resources, timeout |-> 1, requires |-> requires]
All  == {"arm", "cam", "power"}
Move == Step("move", All, Both("cam"))
Look == Step("look", {"cam"}, <<Asks("cam", "postcondition")>>)

\* Two that resolve, and one for each thing a protocol may lack.
MCProtocols ==
  { <<Move, Move>>, <<Look>>,
    <<Step("move", {"arm", "cam"}, Both("cam"))>>,
    <<Step("move", {"arm", "power"}, Both("cam"))>>,
    <<Step("move", All, Both("arm"))>>,
    <<Step("move", All, <<Asks("cam", "precondition")>>)>>,
    <<Step("halt", {"arm", "power"}, <<>>)>>,
    <<[Move EXCEPT !.args = <<>>]>>, <<[Move EXCEPT !.args = To(2)]>>,
    <<[Move EXCEPT !.args = @ @@ ("slow" :> [type |-> "number", value |-> 0])]>>,
    <<[Move EXCEPT !.timeout = 0]>>, <<>> }

-----------------------------------------------------------------------------
(* One skill with a learned and a scripted implementation. *)
MCFacts == {"clear", "homed"}
Need(f) == f :> [digest |-> f, age |-> 1]
Pick == [fields |-> ("x" :> Number), needs |-> Need("clear")]
Implementation(status, qualification, needs, calibration) ==
  [ skill |-> "pick", definition |-> Pick, workcell |-> "cell", manifest |-> "cell",
    status |-> status, qualification |-> qualification, needs |-> needs,
    target |-> [kind |-> "robot", digest |-> 1],
    binds |-> [calibration |-> calibration, qualification |-> (qualification :> 1)] ]
Learned(status) == Implementation(status, "provisional", <<>>, "camera" :> 1)
Scripted        == Implementation("available", "qualified", Need("homed"), <<>>)
Catalog(impls)  == [workcell |-> "cell", skills |-> ("pick" :> Pick), impls |-> impls]
\* In the second one the learned implementation is withdrawn and the scripted one has a
\* name no policy knows; the third, made for another workcell, and the last, made for
\* another definition of the skill, cannot be sealed.
MCCatalogs ==
  [ released  |-> Catalog([learned |-> Learned("available"), scripted |-> Scripted]),
    withdrawn |-> Catalog([learned |-> Learned("blocked"), renamed |-> Scripted]),
    stale     |-> [Catalog([scripted |-> Scripted]) EXCEPT !.workcell = "moved"],
    broken    |-> [Catalog([scripted |-> Scripted]) EXCEPT !.skills["pick"].needs = <<>>] ]

InOrder == [ manifest |-> "cell",
             bound    |-> [ calibration   |-> ("camera" :> 1),
                            qualification |-> [qualified |-> 1, provisional |-> 1] ],
             targets  |-> {[kind |-> "robot", digest |-> 1]},
             policy   |-> [ order   |-> <<"learned", "scripted">>,
                            allowed |-> {"qualified", "provisional"} ] ]
\* The camera was calibrated anew, and the provisional qualification has lapsed.
MCProjections ==
  { InOrder,
    [InOrder EXCEPT !.bound = [calibration |-> ("camera" :> 2), qualification |-> [qualified |-> 1]]] }
MCQuestions ==
  { [skill |-> "pick", args |-> ("x" :> a)] :
      a \in {[type |-> "number", value |-> 0], [type |-> "number", value |-> 2],
             [type |-> "vector", value |-> 0]} }

-----------------------------------------------------------------------------
(* One bundle in two versions, and one that no contract accepts. *)
Limit(min, max) == [min |-> min, max |-> max]
Envelope(y) == [ axes |-> <<"x", "y">>, limits |-> <<Limit(0, 1), Limit(0, y)>>,
                 observationAge |-> 2, actionAge |-> 1 ]
Artifact(name, digest) == [name |-> name, kind |-> "model", digest |-> digest]
Bundle(terms, y, artifacts) ==
  [ id |-> "b", terms |-> terms, axes |-> <<"x", "y">>, envelope |-> Envelope(y),
    needs |-> [ sensor |-> <<"sensor", "s", 1>>, model |-> <<"model", "m", 1>>,
                robot |-> <<"robot", "r", 1>> ],
    artifacts |-> artifacts ]
Current  == Bundle("t1", 2, {Artifact("w", 1)})
Previous == Bundle("t2", 3, {Artifact("w", 2)})
MCBundles == { Current, Previous, [Current EXCEPT !.artifacts = @ \cup {Artifact("v", 2)}] }

Attestation(keys, qualified) == [device |-> "d", adapters |-> keys, qualified |-> qualified]
AllKeys == { Current.needs[k] : k \in {"sensor", "model", "robot"} }
MCAttestations == { Attestation(AllKeys, [b |-> Current]), Attestation(AllKeys, [b |-> Previous]),
                    Attestation(AllKeys \ {<<"robot", "r", 1>>}, [b |-> Current]) }

\* As qualified, tighter, looser, with the axes exchanged, and for observations or actions
\* too old.
MCSafeties == { Envelope(2), Envelope(1), Envelope(3),
                [Envelope(2) EXCEPT !.axes = <<"y", "x">>], [Envelope(2) EXCEPT !.observationAge = 3],
                [Envelope(2) EXCEPT !.actionAge = 2] }

Shape(id, version, can, artifact) ==
  [id |-> id, version |-> version, can |-> can, artifact |-> artifact]
MCObjects == {"eye", "brain", "spare", "arm"}
MCShapes ==
  [ eye   |-> { Shape("s", 1, {"sensor"}, Nothing) },
    brain |-> { Shape("m", 1, {"model"}, 1), Shape("m", 1, {"model"}, 2), Shape("m", 2, {"model"}, 1) },
    spare |-> { Shape("m", 1, {"model"}, 1) },
    arm   |-> { Shape("r", 1, can, Nothing) : can \in {{"robot"}, {}} } ]

VARIABLE part   \* which contract the behaviour is about

MCvars == <<runVars, part, routeVars, registryVars>>

NoRun == protocol = <<>> /\ run = Created /\ clock = 0 /\ slips = 0
NoRoute ==
  /\ catalog = Nothing /\ host = Nothing /\ facts = MCFacts /\ assessed = <<>> /\ time = 0
  /\ moves = 0 /\ shown = Nothing /\ asked = Nothing /\ receipts = <<>>
NoRegistry ==
  /\ objects = <<>> /\ registered = <<>> /\ bundles = <<>> /\ attested = Nothing
  /\ plan = Nothing /\ swaps = 0 /\ resolved = Nothing

\* A routing host begins in order, with all it may offer; the one change may be that it no
\* longer is, or that an implementation is withdrawn.
MCInit ==
  \/ part = "run" /\ RunInit /\ NoRoute /\ NoRegistry
  \/ part = "route" /\ NoRun /\ Routing!Init /\ host = InOrder /\ catalog = "released" /\ NoRegistry
  \/ part = "registry" /\ NoRun /\ NoRoute /\ Registry!Init

MCNext ==
  \/ part = "run" /\ RunNext /\ UNCHANGED <<part, routeVars, registryVars>>
  \/ part = "route" /\ Routing!Next /\ UNCHANGED <<part, runVars, registryVars>>
  \/ part = "registry" /\ Registry!Next /\ UNCHANGED <<part, runVars, routeVars>>

MCSpec == MCInit /\ [][MCNext]_MCvars
=============================================================================
