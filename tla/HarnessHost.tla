----------------------------- MODULE HarnessHost -----------------------------
(***************************************************************************)
(* The host of one project's assistant                                     *)
(* (packages/cli/src/harness/application-host.js): one request at a time   *)
(* through the session's prompt gate, Cancel, the change of conversation   *)
(* and of model, and the question a turn asks the operator                 *)
(* (workcell-controller.js, ask and resolveChoice).                        *)
(*                                                                         *)
(* A request is under way from its acceptance until session.prompt()       *)
(* settles: first its preflight (credentials, extensions), then its turn.  *)
(* The gate is held for the same time, so it has no variable of its own.   *)
(* The host is live and has its desktop viewer; disposing of it is the     *)
(* desktop's (DesktopContinuation).                                        *)
(***************************************************************************)
EXTENDS Naturals, Sequences, SequencesExt

CONSTANTS
  Conversation,   \* the saved conversations of the project
  Request,        \* identifiers of continuation requests
  CacheLimit,     \* request identifiers the host remembers: 256 in the code
  Message,        \* any other request; each has a fresh identifier
  None

ASSUME HostAssumption ==
  /\ CacheLimit \in Nat \ {0}
  /\ Message \notin Request
  /\ None \notin Request \cup Conversation \cup {Message, "model"}
  /\ "model" \notin Conversation

VARIABLES
  session,     \* the conversation host.runtime.session holds
  requests,    \* requests: the identifiers accepted last, oldest first
  pending,     \* pending, pendingCancellation: the request under way
  transition,  \* transition: the conversation being opened, or "model"
  failed,      \* failed: a change of conversation went wrong
  choice       \* choice: the turn that waits for the operator's answer

host == <<session, requests, pending, transition, failed, choice>>

NoRequest == [id |-> None, stage |-> "none", cancelled |-> FALSE]

\* Types; and a question belongs to a turn that runs and was not cancelled.
HostTypeOK ==
  /\ session \in Conversation
  /\ requests \in Seq(Request \cup {Message}) /\ Len(requests) <= CacheLimit
  /\ pending \in [id : Request \cup {Message}, stage : {"preflight", "turn"}, cancelled : BOOLEAN]
                   \cup {NoRequest}
  /\ transition \in Conversation \cup {"model", None}
  /\ failed \in BOOLEAN
  /\ choice \in BOOLEAN
  /\ transition # None => pending = NoRequest
  /\ choice => pending.stage = "turn" /\ ~pending.cancelled

HostInit ==
  /\ session \in Conversation
  /\ requests = <<>>
  /\ pending = NoRequest
  /\ transition = None
  /\ failed = FALSE
  /\ choice = FALSE

-----------------------------------------------------------------------------
(* Requests *)

\* assertIdle(); the gate is held exactly while a request is pending.
Idle == ~failed /\ transition = None /\ pending = NoRequest

Known(id) == id \in ToSet(requests)

\* The Map keeps insertion order, so the first key is the oldest.
Remember(seq, id) ==
  LET longer == Append(seq, id) IN IF Len(longer) > CacheLimit THEN Tail(longer) ELSE longer

\* prompt() past its checks: remembered and pending before session.prompt() starts.
Accept(id) ==
  /\ Idle /\ ~Known(id)
  /\ requests' = Remember(requests, id)
  /\ pending' = [id |-> id, stage |-> "preflight", cancelled |-> FALSE]
  /\ UNCHANGED <<session, transition, failed, choice>>

\* conversation.send, or an intent a browser viewer of the workcell submits.
SendMessage ==
  /\ Idle
  /\ requests' = Remember(requests, Message)
  /\ pending' = [id |-> Message, stage |-> "preflight", cancelled |-> FALSE]
  /\ UNCHANGED <<session, transition, failed, choice>>

\* preflightResult(true): a cancelled request throws here and never starts.
TurnBegins ==
  /\ pending.stage = "preflight" /\ ~pending.cancelled
  /\ pending' = [pending EXCEPT !.stage = "turn"]
  /\ UNCHANGED <<session, requests, transition, failed, choice>>

\* agentSettled() and the end of the operation: the question goes with the turn.
Settled == pending' = NoRequest /\ choice' = FALSE

\* Preflight failed (credentials, extensions), or the request was cancelled.
PreflightFails ==
  /\ pending.stage = "preflight"
  /\ Settled
  /\ UNCHANGED <<session, requests, transition, failed>>

\* A turn awaits its tools, and ask_choice awaits the operator.
TurnEnds ==
  /\ pending.stage = "turn" /\ ~choice
  /\ Settled
  /\ UNCHANGED <<session, requests, transition, failed>>

-----------------------------------------------------------------------------
(* Questions and Cancel *)

\* ask(): a question of an aborted turn is answered null at once.
Ask ==
  /\ pending.stage = "turn" /\ ~pending.cancelled /\ ~choice
  /\ choice' = TRUE
  /\ UNCHANGED <<session, requests, pending, transition, failed>>

\* answerChoice(), or the question's timeout of three minutes.
ChoiceEnds ==
  /\ choice
  /\ choice' = FALSE
  /\ UNCHANGED <<session, requests, pending, transition, failed>>

\* Mutant: the question does not listen to the turn's signal.
CancelUnheard ==
  /\ ~failed /\ pending # NoRequest
  /\ pending' = [pending EXCEPT !.cancelled = TRUE]
  /\ UNCHANGED <<session, requests, transition, failed, choice>>

\* cancel(): the flag for a preflight; session.abort() for a turn, whose
\* signal also resolves the question it waits on.
Cancel ==
  /\ ~failed /\ pending # NoRequest
  /\ pending' = [pending EXCEPT !.cancelled = TRUE]
  /\ choice' = FALSE
  /\ UNCHANGED <<session, requests, transition, failed>>

-----------------------------------------------------------------------------
(* Conversations and models *)

Change(target) ==
  /\ Idle
  /\ transition' = target
  /\ UNCHANGED <<session, requests, pending, failed, choice>>

\* changeSession(action) resolves: identifiers of the old conversation are forgotten.
Changed ==
  /\ transition \in Conversation
  /\ session' = transition /\ transition' = None
  /\ requests' = <<>>
  /\ UNCHANGED <<pending, failed, choice>>

\* It rejects: the host refuses everything until it is replaced.
ChangeFails ==
  /\ transition \in Conversation
  /\ failed' = TRUE /\ transition' = None
  /\ UNCHANGED <<session, requests, pending, choice>>

\* setModel() resolves or rejects.
ModelChanged ==
  /\ transition = "model"
  /\ transition' = None
  /\ UNCHANGED <<session, requests, pending, failed, choice>>

\* A new host for the saved conversation.
NewHost ==
  /\ requests' = <<>> /\ failed' = FALSE
  /\ UNCHANGED <<session, pending, transition, choice>>
=============================================================================
