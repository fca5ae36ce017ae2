------------------------- MODULE DesktopContinuation -------------------------
(***************************************************************************)
(* The desktop application carrying an approved experiment on              *)
(* (packages/desktop/src/application.js): "approve and continue" and       *)
(* "continue" hand the plan to the assistant of HarnessHost, retries       *)
(* carry the identifier they had, the operator may Stop at any time, and   *)
(* the conversation, the host and the whole process may be replaced.       *)
(*                                                                         *)
(* The plans are those of the ExperimentController module, reduced to      *)
(* identity, phase and whose trial runs; expiry, the trial budget and      *)
(* storage failures are that module's or left out.  approve() is called at *)
(* once and awaited, so anything independent may come before it resumes.   *)
(***************************************************************************)
EXTENDS HarnessHost, FiniteSets

CONSTANTS
  MaxPlans,            \* experiments proposed (bound)
  ContinuationLimit    \* identifiers kept for one conversation: 256 in the code

ASSUME DesktopAssumption ==
  /\ MaxPlans \in Nat /\ ContinuationLimit \in Nat \ {0}
  /\ None \notin {"turn", "operator"}

Plan == 1..MaxPlans

Phase == {"none", "PROPOSED", "READY", "RUNNING", "COMPLETED", "STOPPED", "FAILED", "INTERRUPTED"}

Terminal == {"none", "COMPLETED", "STOPPED", "FAILED", "INTERRUPTED"}

VARIABLES
  current,      \* the current experiment of each conversation
  accepted,     \* experimentContinuations: the conversation and its requests
  continuing,   \* the "approve and continue" whose approve() is awaited
  stopped,      \* plans the operator asked to Stop (history)
  begun         \* how often a request began for a plan (history)

desktop == <<current, accepted, continuing>>
history == <<stopped, begun>>
vars == <<host, desktop, history>>

NoPlan == [plan |-> 0, phase |-> "none", trial |-> None]
NotContinuing == [request |-> None, plan |-> 0, outrun |-> FALSE]

\* Types; approval is awaited only outside a change of conversation.
TypeOK ==
  /\ HostTypeOK
  /\ current \in [Conversation -> [plan : Plan, phase : Phase, trial : {"turn", "operator", None}]
                                   \cup {NoPlan}]
  /\ accepted \in [scope : Conversation \cup {None},
                   requests : SUBSET [request : Request, plan : Plan, accepted : BOOLEAN]]
  /\ Cardinality(accepted.requests) <= ContinuationLimit
  /\ continuing \in [request : Request, plan : Plan, outrun : BOOLEAN] \cup {NotContinuing}
  /\ continuing # NotContinuing => transition = None
  /\ stopped \subseteq Plan
  /\ begun \in [Request -> [Plan -> Nat]]
  /\ \A c \in Conversation : current[c].phase = "RUNNING" <=> current[c].trial # None

Init ==
  /\ HostInit
  /\ current = [c \in Conversation |-> NoPlan]
  /\ accepted = [scope |-> None, requests |-> {}]
  /\ continuing = NotContinuing
  /\ stopped = {}
  /\ begun = [r \in Request |-> [p \in Plan |-> 0]]

-----------------------------------------------------------------------------
(* Experiments of the open conversation *)

Here == current[session]

\* command(): everything but Stop, Cancel and answers waits for the one before.
Unlatched == continuing = NotContinuing /\ transition = None

Become(phase, trial) ==
  current' = [current EXCEPT ![session] = [@ EXCEPT !.phase = phase, !.trial = trial]]

\* By the operator or by the assistant's tool.
Propose ==
  /\ transition = None /\ Here.phase \in Terminal
  /\ \E p \in Plan :
       /\ \A c \in Conversation : current[c].plan < p
       /\ current' = [current EXCEPT ![session] = [plan |-> p, phase |-> "PROPOSED", trial |-> None]]
  /\ UNCHANGED <<host, accepted, continuing, history>>

Approve ==
  /\ Unlatched /\ Here.phase = "PROPOSED"
  /\ Become("READY", None)
  /\ UNCHANGED <<host, accepted, continuing, history>>

\* run_simulated_trial in a turn, or experiment.trial of the operator.
Trial ==
  /\ Here.phase = "READY"
  /\ \/ pending.stage = "turn" /\ ~pending.cancelled /\ Become("RUNNING", "turn")
     \/ Unlatched /\ Become("RUNNING", "operator")
  /\ UNCHANGED <<host, accepted, continuing, history>>

TrialEnds ==
  /\ Here.phase = "RUNNING"
  /\ \E phase \in {"READY", "FAILED"} : Become(phase, None)
  /\ UNCHANGED <<host, accepted, continuing, history>>

Finish ==
  /\ transition = None /\ Here.phase = "READY"
  /\ Become("COMPLETED", None)
  /\ UNCHANGED <<host, accepted, continuing, history>>

\* experiment.stop: independent of the latch; the epoch moves before any await.
Stop ==
  /\ transition = None /\ Here.plan # 0
  /\ IF Here.phase \in Terminal THEN UNCHANGED current ELSE Become("STOPPED", None)
  /\ continuing' = IF continuing = NotContinuing THEN continuing ELSE [continuing EXCEPT !.outrun = TRUE]
  /\ stopped' = stopped \cup {Here.plan}
  /\ UNCHANGED <<host, accepted, begun>>

-----------------------------------------------------------------------------
(* Approve and continue, continue *)

\* reviewed(): the plan of the request is the current one.
Reviewed(p) == Here.plan = p

\* A first request in another conversation forgets the identifiers of the last.
Scoped == IF accepted.scope = session THEN accepted ELSE [scope |-> session, requests |-> {}]

Seen(r) == {q \in Scoped.requests : q.request = r}

\* Mutant: duplicates are left to the host's smaller cache.
AdmissibleByCache(r, p) ==
  /\ \A q \in Seen(r) : q.plan = p
  /\ Seen(r) # {} \/ Cardinality(Scoped.requests) < ContinuationLimit

\* Neither accepted before (a duplicate is only acknowledged), nor another
\* action's identifier, nor one too many.
Admissible(r, p) ==
  /\ \A q \in Seen(r) : q.plan = p /\ ~q.accepted
  /\ Seen(r) # {} \/ Cardinality(Scoped.requests) < ContinuationLimit

Recorded(r, p, taken) ==
  accepted' = [Scoped EXCEPT !.requests = (@ \ Seen(r)) \cup
                 {[request |-> r, plan |-> p, accepted |-> taken]}]

Begins(r, p) ==
  /\ Accept(r)
  /\ Recorded(r, p, TRUE)
  /\ begun' = [begun EXCEPT ![r][p] = @ + 1]

\* host.prompt() refuses: no model is configured.
Refuses(r, p) ==
  /\ Recorded(r, p, FALSE)
  /\ UNCHANGED <<host, begun>>

\* Mutant: the plan is not reviewed again.
MaySubmitUnreviewed(p) == Reviewed(p) /\ Idle

\* The last review, right before host.prompt().
MaySubmit(p) == Reviewed(p) /\ Here.phase = "READY" /\ Idle

Submit(r, p) ==
  /\ MaySubmit(p)
  /\ Begins(r, p) \/ Refuses(r, p)
  /\ UNCHANGED <<current, stopped>>

\* The plan is READY already: nothing is awaited before host.prompt().
Continue(r, p) ==
  /\ Unlatched /\ Admissible(r, p)
  /\ Submit(r, p)
  /\ UNCHANGED continuing

\* The plan is only proposed: approve() and await it.
ApproveAndContinue(r, p) ==
  /\ Unlatched /\ Reviewed(p) /\ Admissible(r, p)
  /\ Here.phase = "PROPOSED" /\ Idle
  /\ Become("READY", None)
  /\ accepted' = Scoped
  /\ continuing' = [request |-> r, plan |-> p, outrun |-> FALSE]
  /\ UNCHANGED <<host, history>>

Resume ==
  /\ continuing # NotContinuing
  /\ IF MaySubmit(continuing.plan) /\ ~continuing.outrun
       THEN Submit(continuing.request, continuing.plan)
       ELSE UNCHANGED <<host, current, accepted, history>>
  /\ continuing' = NotContinuing

\* Any other request for the plan submits nothing, but its scope is set.
Declined(p) ==
  /\ Unlatched /\ Reviewed(p) /\ accepted # Scoped
  /\ accepted' = Scoped
  /\ UNCHANGED <<host, current, continuing, history>>

-----------------------------------------------------------------------------
(* Conversations, hosts and the process *)

Active == Here.phase \in {"READY", "RUNNING"}

SelectConversation(c) ==
  /\ Unlatched /\ c # session /\ ~Active
  /\ Change(c)
  /\ UNCHANGED <<desktop, history>>

SelectModel ==
  /\ Unlatched
  /\ Change("model")
  /\ UNCHANGED <<desktop, history>>

\* A controller opened anew: an approval is not resumed.
Reopened(e) ==
  IF e.phase \in {"READY", "RUNNING"} THEN [e EXCEPT !.phase = "INTERRUPTED", !.trial = None] ELSE e

ConversationChanged ==
  /\ Changed
  /\ current' = [current EXCEPT ![session'] = Reopened(@)]
  /\ UNCHANGED <<accepted, continuing, history>>

\* Disconnect and connect: the entry and its requests go with the host.
Reconnect ==
  /\ Unlatched /\ pending = NoRequest /\ ~Active
  /\ NewHost
  /\ accepted' = [scope |-> None, requests |-> {}]
  /\ UNCHANGED <<current, continuing, history>>

\* The process dies and the project is opened again.
Restart ==
  /\ requests' = <<>> /\ pending' = NoRequest /\ transition' = None
  /\ failed' = FALSE /\ choice' = FALSE
  /\ current' = [current EXCEPT ![session] = Reopened(@)]
  /\ accepted' = [scope |-> None, requests |-> {}]
  /\ continuing' = NotContinuing
  /\ UNCHANGED <<session, history>>

\* conversation.cancel; the abort also stops the trial of the turn's tool.
CancelTurn ==
  /\ Cancel
  /\ IF Here.trial = "turn" THEN Become("STOPPED", None) ELSE UNCHANGED current
  /\ UNCHANGED <<accepted, continuing, history>>

\* A turn awaits the trial its tool runs.
TurnSettles ==
  /\ PreflightFails \/ (Here.trial # "turn" /\ TurnEnds)
  /\ UNCHANGED <<desktop, history>>

HostSteps ==
  /\ SendMessage \/ TurnBegins \/ Ask \/ ChoiceEnds \/ ModelChanged \/ ChangeFails
  /\ UNCHANGED <<desktop, history>>

Next ==
  \/ HostSteps \/ TurnSettles \/ CancelTurn
  \/ Propose \/ Approve \/ Trial \/ TrialEnds \/ Finish \/ Stop
  \/ \E r \in Request, p \in Plan : Continue(r, p) \/ ApproveAndContinue(r, p)
  \/ Resume
  \/ \E p \in Plan : Declined(p)
  \/ \E c \in Conversation : SelectConversation(c)
  \/ SelectModel \/ ConversationChanged
  \/ Reconnect \/ Restart

\* Fair: a preflight settles and a turn whose signal is aborted ends.  No
\* fairness for answers, timeouts, trials, or turns nobody cancelled.
Fairness == WF_vars(pending.cancelled /\ TurnSettles)

Spec == Init /\ [][Next]_vars /\ Fairness

-----------------------------------------------------------------------------
\* A continuation begins once for its plan, whatever is retried: after lost
\* answers, cache eviction, other conversations, a new host or a new process
\* (host.prompt and the requests continueExperiment keeps).
BegunOnce == \A r \in Request, p \in Plan : begun[r][p] <= 1

\* No continuation of a plan begins once Stop was asked for it, an approval
\* awaited meanwhile included (continueExperiment's review after approve()).
NoneAfterStop ==
  [][\A r \in Request, p \in Plan : begun'[r][p] > begun[r][p] => p \notin stopped]_vars

\* Cancel ends the request, whatever it waits on: a preflight, a question
\* without an answer, or a trial (cancel(), ask()'s signal, the trial tool's).
CancelEnds == pending.cancelled ~> ~pending.cancelled
=============================================================================
