------------------------------ MODULE PhysicalRun ------------------------------
(***************************************************************************)
(* The contracts of a physical run (runtime contracts/physical.py): which   *)
(* protocols are resolved against a manifest of devices, and which records  *)
(* of a run are admitted as evidence that a resolved protocol was followed. *)
(*                                                                         *)
(* The code only judges.  The host that runs a protocol and writes the     *)
(* record is outside this repository: here it is a machine that follows the *)
(* discipline the contracts ask for, except for at most MaxSlips slips, each *)
(* a step taken while the discipline forbids it.  What is admitted must be  *)
(* safe whatever the slips, and a run without a slip must be admitted.      *)
(*                                                                         *)
(* A step is named by its place in the protocol and a requirement by its    *)
(* place in the step.  Kinds, types, bounds and digests that a record must  *)
(* repeat exactly are left out, as are the orders of lists.                 *)
(***************************************************************************)
EXTENDS TypedValues, Sequences, FiniteSets, SequencesExt

CONSTANTS
  Manifest,     \* [resource |-> ids, device |-> [id -> trust domain],
                \*  command |-> [id -> [device, effect, resources, fields]]]
  Protocols,    \* protocols a host may offer: sequences of steps
                \* [command, args, resources, timeout, requires |-> sequence of
                \*  [producer, phase, age]]
  MaxTime,      \* bound on the clock
  MaxSlips      \* bound on the slips of the host

Commands == DOMAIN Manifest.command
Devices  == DOMAIN Manifest.device
StopsOf(d) == { c \in Commands : /\ Manifest.command[c].device = d
                                 /\ Manifest.command[c].effect = "safety_stop" }
StopOf(d) == Manifest.command[CHOOSE c \in StopsOf(d) : TRUE]

(* PhysicalCommand.from_dict *)
CommandDeclared(c) ==
  /\ Manifest.command[c].effect \in {"read_only", "actuating", "safety_stop"}
  /\ Manifest.command[c].resources # {}
  /\ FieldsAccepted(Manifest.command[c].fields)

(* PhysicalDevice.from_dict: its commands lock it, a safety stop takes no inputs, *)
(* and if it actuates it has exactly one.  The artifacts and the calibration that *)
(* an actuating device must bind are left out.                                    *)
DeviceAccepted(d) ==
  LET own == { c \in Commands : Manifest.command[c].device = d } IN
  /\ own # {}
  /\ \A c \in own : CommandDeclared(c) /\ d \in Manifest.command[c].resources
  /\ (\E c \in own : Manifest.command[c].effect = "actuating") => Cardinality(StopsOf(d)) = 1
  /\ \A c \in StopsOf(d) : DOMAIN Manifest.command[c].fields = {}

(* PhysicalSystemManifest.from_dict *)
ManifestAccepted ==
  /\ Devices # {}
  /\ Devices \subseteq Manifest.resource
  /\ \A d \in Devices : DeviceAccepted(d)
  /\ \A c \in Commands : /\ Manifest.command[c].device \in Devices
                         /\ Manifest.command[c].resources \subseteq Manifest.resource

ASSUME RunAssumption == /\ ManifestAccepted
                        /\ \A p \in Protocols : p \in Seq(Range(p))
                        /\ \A p \in Protocols : \A i \in DOMAIN p :
                             \A q \in DOMAIN p[i].requires : p[i].requires[q].age \in Int
                        /\ Nothing \notin Int
                        /\ MaxTime \in Nat
                        /\ MaxSlips \in Nat

-----------------------------------------------------------------------------
(* A protocol, whatever the manifest *)

Phases == {"precondition", "postcondition"}

(* EvidenceRequirement.from_dict *)
RequirementAccepted(req) == req.phase \in Phases /\ req.age >= 1

(* ProtocolStep.from_dict *)
StepAccepted(step) ==
  /\ \A n \in DOMAIN step.args : ArgumentAccepted(step.args[n])
  /\ step.resources # {}
  /\ step.timeout >= 1
  /\ \A q \in DOMAIN step.requires : RequirementAccepted(step.requires[q])

(* PhysicalProtocol.from_dict *)
ProtocolAccepted(protocol) ==
  protocol # <<>> /\ \A i \in DOMAIN protocol : StepAccepted(protocol[i])

(* seal_physical_protocol orders and hashes what a host offers, and refuses the *)
(* rest.                                                                       *)
Sealed == { protocol \in Protocols : ProtocolAccepted(protocol) }

-----------------------------------------------------------------------------
(* Resolution *)

Does(step)      == Manifest.command[step.command]
Actuates(step)  == Does(step).effect = "actuating"
PhaseOf(step, p)  == { q \in DOMAIN step.requires : step.requires[q].phase = p }
\* Evidence about a device counts as independent if another trust domain gives it.
Independent(step, q) ==
  Manifest.device[step.requires[q].producer] # Manifest.device[Does(step).device]

\* Every argument has a field it fits, and every required field an argument.
ArgumentsFit(step) ==
  LET fields == Does(step).fields IN
  /\ \A n \in DOMAIN step.args : n \in DOMAIN fields /\ Fits(step.args[n], fields[n])
  /\ \A n \in DOMAIN fields : fields[n].required => n \in DOMAIN step.args

LocksSuffice(step) ==
  /\ step.resources \subseteq Manifest.resource
  /\ Does(step).device \in step.resources
  /\ Does(step).resources \subseteq step.resources
  /\ Actuates(step) => StopOf(Does(step).device).resources \subseteq step.resources

\* Mutant of EvidenceSuffices: a device may vouch for itself.
EvidenceOfAnyone(step) ==
  /\ \A q \in DOMAIN step.requires :
       /\ step.requires[q].producer \in Devices
       /\ step.requires[q].producer \in step.resources
  /\ Actuates(step) =>
       \A p \in Phases : PhaseOf(step, p) # {}

EvidenceSuffices(step) ==
  /\ \A q \in DOMAIN step.requires :
       /\ step.requires[q].producer \in Devices
       /\ step.requires[q].producer \in step.resources
  /\ Actuates(step) =>
       \A p \in Phases :
         \E q \in PhaseOf(step, p) : Independent(step, q)

(* resolve_physical_protocol *)
Resolves(protocol) ==
  \A i \in DOMAIN protocol :
    /\ protocol[i].command \in Commands
    /\ Does(protocol[i]).effect # "safety_stop"
    /\ ArgumentsFit(protocol[i])
    /\ LocksSuffice(protocol[i])
    /\ EvidenceSuffices(protocol[i])

RequiredLocks(protocol) == UNION { protocol[i].resources : i \in DOMAIN protocol }

-----------------------------------------------------------------------------
(* The record of a run: its lifecycle, the interval of each lock, the       *)
(* commands in the order of dispatch, the stop of each device and the       *)
(* evidence by step and requirement.                                        *)

Terminal == {"succeeded", "failed", "cancelled"}
AllowedNext == [ created |-> {"locked", "failed", "cancelled"},
                 locked  |-> {"running", "failed", "cancelled"},
                 running |-> Terminal ]

States(r)  == { r.life[i].state : i \in DOMAIN r.life }
TimeOf(r, s)   == r.life[CHOOSE i \in DOMAIN r.life : r.life[i].state = s].at
Started(r) == Head(r.life).at
Ended(r)   == Last(r.life).at
Outcome(r) == Last(r.life).state

(* RunTransition.from_dict *)
TransitionAccepted(t) == t.state \in DOMAIN AllowedNext \cup Terminal /\ t.at >= 0

(* RunOutcome.from_dict *)
OutcomeAccepted(outcome) == outcome \in Terminal

LifecycleAccepted(life) ==
  /\ \A i \in DOMAIN life : TransitionAccepted(life[i])
  /\ Head(life).state = "created"
  /\ OutcomeAccepted(Last(life).state)
  /\ \A i \in 1 .. Len(life) - 1 :
       /\ life[i].state \in DOMAIN AllowedNext
       /\ life[i + 1].state \in AllowedNext[life[i].state]
       /\ life[i].at <= life[i + 1].at

\* Everything in a record has ended, within the run.
Within(r, from, to) == to # Nothing /\ Started(r) <= from /\ from <= to /\ to <= Ended(r)

(* ResourceLock.from_dict *)
LockAccepted(r, l) == Within(r, l.from, l.to)

(* CommandRecord.from_dict *)
Statuses == {"acknowledged", "timed_out", "failed", "cancelled"}
CommandAccepted(r, c) == c.status \in Statuses /\ Within(r, c.sent, c.done)

(* SafeStopRecord.from_dict *)
StopAccepted(r, e) == e.confirmed \in BOOLEAN /\ Within(r, e.sent, e.done)

(* EvidenceRef.from_dict *)
EvidenceAccepted(r, e) == e.holds \in BOOLEAN /\ Within(r, e.at, e.at)

\* One dispatch per step, strictly one after the other.
CommandsAccepted(commands) ==
  /\ \A i, j \in DOMAIN commands : i # j => commands[i].step # commands[j].step
  /\ \A i \in 1 .. Len(commands) - 1 : commands[i].sent < commands[i + 1].sent

(* PhysicalRunRecord.from_dict *)
RecordAccepted(r) ==
  /\ LifecycleAccepted(r.life)
  /\ \A x \in DOMAIN r.locks : LockAccepted(r, r.locks[x])
  /\ \A i \in DOMAIN r.commands : CommandAccepted(r, r.commands[i])
  /\ CommandsAccepted(r.commands)
  /\ \A d \in DOMAIN r.stops : StopAccepted(r, r.stops[d])
  /\ \A k \in DOMAIN r.evidence : EvidenceAccepted(r, r.evidence[k])

\* seal_physical_run_record puts the commands in the order of their dispatch.
SealedRecord(r) ==
  LET order == CHOOSE p \in Injection(DOMAIN r.commands, DOMAIN r.commands) :
                 \A i, j \in DOMAIN r.commands :
                   i < j => r.commands[p[i]].sent <= r.commands[p[j]].sent
  IN  [r EXCEPT !.commands = [i \in DOMAIN r.commands |-> r.commands[order[i]]]]

-----------------------------------------------------------------------------
(* The judgement of a record against its resolved protocol *)

Covers(r, x, from, to) ==
  x \in DOMAIN r.locks /\ r.locks[x].from <= from /\ to <= r.locks[x].to
Dispatched(r)      == { r.commands[j].step : j \in DOMAIN r.commands }
CommandOf(r, i)    == r.commands[CHOOSE j \in DOMAIN r.commands : r.commands[j].step = i]

\* Mutant of LocksAsResolved: a lock taken at the instant of the transition is late.
LocksBeforehand(r, protocol) ==
  /\ DOMAIN r.locks = IF "locked" \in States(r) THEN RequiredLocks(protocol) ELSE {}
  /\ "locked" \in States(r) =>
       \A x \in DOMAIN r.locks : r.locks[x].from < TimeOf(r, "locked")

LocksAsResolved(r, protocol) ==
  /\ DOMAIN r.locks = IF "locked" \in States(r) THEN RequiredLocks(protocol) ELSE {}
  /\ "locked" \in States(r) =>
       \A x \in DOMAIN r.locks : r.locks[x].from <= TimeOf(r, "locked")

\* The commands are a prefix of the protocol, each after the one before it was
\* acknowledged.
CommandsInOrder(r, protocol) ==
  /\ Len(r.commands) <= Len(protocol)
  /\ \A j \in DOMAIN r.commands :
       /\ r.commands[j].step = j
       /\ "running" \in States(r)
       /\ TimeOf(r, "running") <= r.commands[j].sent
  /\ \A j \in 1 .. Len(r.commands) - 1 :
       /\ r.commands[j].status = "acknowledged"
       /\ r.commands[j].done <= r.commands[j + 1].sent

CommandsCovered(r, protocol) ==
  \A j \in DOMAIN r.commands :
    LET c == r.commands[j] IN
    /\ IF c.status = "timed_out" THEN c.done - c.sent >= protocol[j].timeout
                                 ELSE c.done - c.sent <= protocol[j].timeout
    /\ \A x \in protocol[j].resources : Covers(r, x, c.sent, c.done)

\* Evidence of a step that was not dispatched because it failed a precondition.
Blocked(r, protocol, i, q) ==
  /\ i = Len(r.commands) + 1
  /\ protocol[i].requires[q].phase = "precondition"
  /\ Outcome(r) = "failed"

PriorDone(r) == IF r.commands = <<>> THEN Started(r) ELSE Last(r.commands).done

\* How old evidence is when it is used; negative where it came on the wrong side.
Age(r, protocol, i, q) ==
  LET at == r.evidence[<<i, q>>].at IN
  IF i \notin Dispatched(r) THEN Ended(r) - at
  ELSE IF protocol[i].requires[q].phase = "precondition"
       THEN CommandOf(r, i).sent - at
       ELSE at - CommandOf(r, i).done

EvidenceFits(r, protocol) ==
  /\ r.evidence # <<>> => "locked" \in States(r)
  /\ \A k \in DOMAIN r.evidence :
       LET i == k[1]  q == k[2]  e == r.evidence[k] IN
       /\ i \in Dispatched(r) \/ Blocked(r, protocol, i, q)
       /\ i \notin Dispatched(r) => PriorDone(r) <= e.at
       /\ Age(r, protocol, i, q) \in 0 .. protocol[i].requires[q].age
       /\ i \in Dispatched(r) /\ q \in PhaseOf(protocol[i], "precondition") => e.holds
       /\ \A x \in protocol[i].resources : Covers(r, x, e.at, e.at)

\* A step that was blocked has a precondition that failed.
BlockJustified(r, protocol) ==
  LET i == Len(r.commands) + 1
      shown == IF i > Len(protocol) THEN {}
               ELSE { k \in DOMAIN r.evidence :
                        k[1] = i /\ k[2] \in PhaseOf(protocol[i], "precondition") }
  IN  shown # {} => \E k \in shown : ~r.evidence[k].holds

\* Every precondition of a dispatched step was seen after the step before it.
PreconditionsSeen(r, protocol) ==
  \A i \in DOMAIN r.commands : \A q \in PhaseOf(protocol[i], "precondition") :
    /\ <<i, q>> \in DOMAIN r.evidence
    /\ i > 1 => r.commands[i - 1].done <= r.evidence[<<i, q>>].at

\* Every postcondition holds, and is fresh, when the next step is dispatched.
PostconditionBarrier(r, protocol) ==
  \A i \in 1 .. Len(r.commands) - 1 : \A q \in PhaseOf(protocol[i], "postcondition") :
    /\ <<i, q>> \in DOMAIN r.evidence
    /\ r.evidence[<<i, q>>].holds
    /\ r.commands[i + 1].sent - r.evidence[<<i, q>>].at
         \in 0 .. protocol[i].requires[q].age

OutcomeFits(r, protocol) ==
  /\ Outcome(r) = "succeeded" =>
       /\ Len(r.commands) = Len(protocol)
       /\ \A j \in DOMAIN r.commands : r.commands[j].status = "acknowledged"
       /\ \A i \in DOMAIN protocol : \A q \in DOMAIN protocol[i].requires :
            <<i, q>> \in DOMAIN r.evidence /\ r.evidence[<<i, q>>].holds
       /\ \A d \in DOMAIN r.stops : r.stops[d].confirmed
  /\ \A j \in DOMAIN r.commands :
       /\ r.commands[j].status \in {"timed_out", "failed"} => Outcome(r) = "failed"
       /\ r.commands[j].status = "cancelled" => Outcome(r) = "cancelled"

Actuations(r, protocol, d) ==
  { j \in DOMAIN r.commands : Actuates(protocol[j]) /\ Does(protocol[j]).device = d }

\* Each device that was moved, and no other, is stopped once after its last move.
StopsCover(r, protocol) ==
  /\ DOMAIN r.stops = { d \in Devices : Actuations(r, protocol, d) # {} }
  /\ \A d \in DOMAIN r.stops :
       /\ \A j \in Actuations(r, protocol, d) : r.commands[j].done <= r.stops[d].sent
       /\ \A x \in StopOf(d).resources : Covers(r, x, r.stops[d].sent, r.stops[d].done)

(* validate_physical_run_record *)
Admitted(r, protocol) ==
  /\ RecordAccepted(r)
  /\ LocksAsResolved(r, protocol)
  /\ CommandsInOrder(r, protocol)
  /\ CommandsCovered(r, protocol)
  /\ EvidenceFits(r, protocol)
  /\ BlockJustified(r, protocol)
  /\ PreconditionsSeen(r, protocol)
  /\ PostconditionBarrier(r, protocol)
  /\ OutcomeFits(r, protocol)
  /\ StopsCover(r, protocol)

-----------------------------------------------------------------------------
(* The host *)

VARIABLES
  protocol,   \* the protocol it was given
  run,        \* the record so far
  clock,
  slips       \* how often it left the discipline

runVars == <<protocol, run, clock, slips>>

Created == [life |-> <<[state |-> "created", at |-> 0]>>, locks |-> <<>>,
            commands |-> <<>>, stops |-> <<>>, evidence |-> <<>>]

RunInit ==
  /\ protocol \in { p \in Sealed : Resolves(p) }
  /\ run = Created
  /\ clock = 0
  /\ slips = 0

\* A step the discipline allows, or a slip.
Disciplined(allowed) ==
  IF allowed THEN UNCHANGED slips ELSE slips < MaxSlips /\ slips' = slips + 1

Over     == Outcome(run) \in Terminal
State    == Outcome(run)
Sent     == Len(run.commands)
InFlight == \/ Sent > 0 /\ Last(run.commands).done = Nothing
            \/ \E d \in DOMAIN run.stops : run.stops[d].done = Nothing
Held(x)  == x \in DOMAIN run.locks /\ run.locks[x].to = Nothing
HoldsAll(xs) == \A x \in xs : Held(x)
Moved(d) == Actuations(run, protocol, d) # {}
\* A device that was moved and not yet stopped.
Loose(d) == Moved(d) /\ d \notin DOMAIN run.stops
Seen(i, q) == <<i, q>> \in DOMAIN run.evidence
\* Evidence that holds and can still be used.
Usable(i, q) == /\ Seen(i, q)
                /\ run.evidence[<<i, q>>].holds
                /\ clock - run.evidence[<<i, q>>].at <= protocol[i].requires[q].age
\* The last command did what was asked of it, as far as it was observed.
Barrier == Sent > 0 =>
  /\ Last(run.commands).status = "acknowledged"
  /\ \A q \in PhaseOf(protocol[Sent], "postcondition") : Usable(Sent, q)

\* The entry v for each of xs, besides the entries of book.
With(book, xs, v) == [x \in DOMAIN book \cup xs |-> IF x \in DOMAIN book THEN book[x] ELSE v]

Enter(s) == run' = [run EXCEPT !.life = Append(@, [state |-> s, at |-> clock])]
Here == UNCHANGED <<protocol, clock>>

Tick == /\ ~Over
        /\ clock < MaxTime
        /\ clock' = clock + 1
        /\ UNCHANGED <<protocol, run, slips>>

\* Any number of resources are locked, or released, at an instant.
Acquire(xs) ==
  /\ ~Over
  /\ xs \cap DOMAIN run.locks = {}
  /\ Disciplined(State = "created" /\ xs \subseteq RequiredLocks(protocol))
  /\ run' = [run EXCEPT !.locks = With(@, xs, [from |-> clock, to |-> Nothing])]
  /\ Here

EnterLocked ==
  /\ State = "created"
  /\ Disciplined(HoldsAll(RequiredLocks(protocol)))
  /\ Enter("locked")
  /\ Here

EnterRunning == State = "locked" /\ Enter("running") /\ UNCHANGED slips /\ Here

\* The host asks a producer, which answers as the world is.
Capture(i, q) ==
  /\ ~Over
  /\ ~Seen(i, q)
  /\ Disciplined(/\ State = "running"
                 /\ ~InFlight
                 /\ HoldsAll(protocol[i].resources)
                 /\ IF protocol[i].requires[q].phase = "precondition"
                    THEN i = Sent + 1 /\ Barrier
                    ELSE i = Sent /\ clock - Last(run.commands).done
                                       <= protocol[i].requires[q].age)
  /\ \E holds \in BOOLEAN :
       run' = [run EXCEPT !.evidence =
                 With(@, {<<i, q>>}, [at |-> clock, holds |-> holds])]
  /\ Here

Dispatch(i) ==
  /\ ~Over
  /\ i \notin Dispatched(run)
  /\ ~InFlight
  /\ Sent > 0 => Last(run.commands).sent < clock
  /\ Disciplined(/\ State = "running"
                 /\ i = Sent + 1
                 /\ HoldsAll(protocol[i].resources)
                 /\ Barrier
                 /\ \A q \in PhaseOf(protocol[i], "precondition") : Usable(i, q)
                 /\ ~\E d \in Devices : d \in DOMAIN run.stops)
  /\ run' = [run EXCEPT !.commands =
               Append(@, [step |-> i, sent |-> clock, done |-> Nothing, status |-> Nothing])]
  /\ Here

\* A command ends as it ends; only its classification is the host's.
Complete(status) ==
  /\ Sent > 0 /\ Last(run.commands).done = Nothing
  /\ LET c == Last(run.commands)  timeout == protocol[c.step].timeout IN
     Disciplined(IF status = "timed_out" THEN clock - c.sent >= timeout
                                         ELSE clock - c.sent <= timeout)
  /\ run' = [run EXCEPT !.commands[Sent].done = clock, !.commands[Sent].status = status]
  /\ Here

SafeStop(d) ==
  /\ ~Over
  /\ d \notin DOMAIN run.stops
  /\ StopsOf(d) # {}
  /\ Disciplined(Moved(d) /\ ~InFlight)
  /\ run' = [run EXCEPT !.stops =
               With(@, {d}, [sent |-> clock, done |-> Nothing, confirmed |-> FALSE])]
  /\ Here

SafeStopEnds(d) ==
  /\ d \in DOMAIN run.stops
  /\ run.stops[d].done = Nothing
  /\ \E confirmed \in BOOLEAN :
       run' = [run EXCEPT !.stops[d].done = clock, !.stops[d].confirmed = confirmed]
  /\ UNCHANGED slips
  /\ Here

Release(xs) ==
  /\ HoldsAll(xs)
  /\ Disciplined(/\ ~InFlight
                 /\ ~\E d \in Devices : Loose(d)
                 /\ State # "created")
  /\ run' = [run EXCEPT !.locks =
               [x \in DOMAIN @ |-> IF x \in xs THEN [@[x] EXCEPT !.to = clock] ELSE @[x]]]
  /\ Here

\* What was seen of the step that was not dispatched.
Shown == { k \in DOMAIN run.evidence : k[1] = Sent + 1 }
Finished(outcome) ==
  CASE outcome = "succeeded" ->
         /\ State = "running" /\ Sent = Len(protocol)
         /\ Last(run.commands).status = "acknowledged"
         /\ \A q \in DOMAIN protocol[Sent].requires :
              Seen(Sent, q) /\ run.evidence[<<Sent, q>>].holds
         /\ \A d \in DOMAIN run.stops : run.stops[d].confirmed
    [] outcome = "failed" ->
         /\ Sent > 0 => Last(run.commands).status # "cancelled"
         /\ Shown # {} =>
              /\ \E k \in Shown : ~run.evidence[k].holds
              /\ \A k \in Shown : clock - run.evidence[k].at <= protocol[k[1]].requires[k[2]].age
    [] outcome = "cancelled" ->
         /\ Sent > 0 => Last(run.commands).status \in {"acknowledged", "cancelled"}
         /\ Shown = {}

Finish(outcome) ==
  /\ ~Over
  /\ outcome = "succeeded" => State = "running"
  /\ ~InFlight
  /\ Disciplined(/\ Finished(outcome)
                 /\ ~\E d \in Devices : Loose(d)
                 /\ State = "created" => run.locks = <<>>
                 /\ \A x \in DOMAIN run.locks : ~Held(x))
  /\ Enter(outcome)
  /\ Here

RunNext ==
  \/ Tick
  \/ \E xs \in (SUBSET Manifest.resource) \ {{}} : Acquire(xs) \/ Release(xs)
  \/ EnterLocked
  \/ EnterRunning
  \/ \E i \in DOMAIN protocol : Dispatch(i) \/ \E q \in DOMAIN protocol[i].requires : Capture(i, q)
  \/ \E status \in Statuses : Complete(status)
  \/ \E d \in Devices : SafeStop(d) \/ SafeStopEnds(d)
  \/ \E outcome \in Terminal : Finish(outcome)

RunSpec == RunInit /\ [][RunNext]_runVars

-----------------------------------------------------------------------------
(* Properties *)

Moves(r) == { j \in DOMAIN r.commands : Actuates(protocol[j]) }
DeviceOf(j) == Does(protocol[j]).device

\* From its first move until its stop has ended, a device and everything its
\* stop needs stay locked, without a gap.
Controlled(r) ==
  \A j \in Moves(r) :
    LET d == DeviceOf(j) IN
    /\ d \in DOMAIN r.stops
    /\ \A x \in StopOf(d).resources \cup {d} :
         Covers(r, x, r.commands[j].sent, r.stops[d].done)

\* Another trust domain saw what the phase asks for, while its device was locked.
Witnessed(r, j, phase, from, to) ==
  \E q \in PhaseOf(protocol[j], phase) :
    LET e == r.evidence[<<j, q>>] IN
    /\ Independent(protocol[j], q)
    /\ <<j, q>> \in DOMAIN r.evidence
    /\ e.holds
    /\ from <= e.at /\ e.at <= to
    /\ Covers(r, protocol[j].requires[q].producer, e.at, e.at)

\* A device moves only after an independent look since whatever came before, and
\* after each earlier move was independently seen to have done what it should.
NeverBlind(r) ==
  \A j \in Moves(r) :
    /\ Witnessed(r, j, "precondition",
                 IF j = 1 THEN Started(r) ELSE r.commands[j - 1].done, r.commands[j].sent)
    /\ \A i \in Moves(r) : i < j =>
         Witnessed(r, i, "postcondition", r.commands[i].done, r.commands[i + 1].sent)

\* Every command was given what it must have, and numbers within its bounds.
Instructed(r) ==
  \A j \in DOMAIN r.commands :
    LET given == protocol[r.commands[j].step].args
        fields == Does(protocol[r.commands[j].step]).fields
    IN  /\ { n \in DOMAIN fields : fields[n].required } \subseteq DOMAIN given
        /\ \A n \in DOMAIN given :
             fields[n].type \in Numeric => given[n].value \in fields[n].min .. fields[n].max

\* A success means that every move of the protocol was made and verified, and that
\* what moved has confirmed its stop since.
SuccessVerified(r) ==
  Outcome(r) = "succeeded" =>
    \A j \in DOMAIN protocol : Actuates(protocol[j]) =>
      /\ j \in Moves(r)
      /\ Witnessed(r, j, "postcondition", r.commands[j].done, Ended(r))
      /\ r.stops[DeviceOf(j)].confirmed
      /\ r.commands[j].done <= r.stops[DeviceOf(j)].sent

\* Soundness of resolution and admission together: whatever the host did, and
\* whatever protocol it was given, a record that is admitted tells of a run that
\* never moved a device unlocked, unseen, out of bounds or without a stop.
AdmittedIsSafe ==
  LET r == SealedRecord(run) IN
  Over /\ Admitted(r, protocol) =>
    Controlled(r) /\ NeverBlind(r) /\ Instructed(r) /\ SuccessVerified(r)

\* Completeness: the record of a run that kept the discipline is admitted, also
\* where a command, a stop or a precondition failed.
DisciplineIsAdmitted == Over /\ slips = 0 => Admitted(SealedRecord(run), protocol)
=============================================================================
