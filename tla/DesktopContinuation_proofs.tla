---------------------- MODULE DesktopContinuation_proofs ----------------------
(***************************************************************************)
(* A continuation begins once for its plan and never after Stop, for any   *)
(* conversations, identifiers, plans and cache sizes.                      *)
(***************************************************************************)
EXTENDS DesktopContinuation, FiniteSetTheorems, TLAPS

PlanRecord == [plan : Plan, phase : Phase, trial : {"turn", "operator", None}]
Entry == [request : Request, plan : Plan, accepted : BOOLEAN]
Prompt == [id : Request \cup {Message}, stage : {"preflight", "turn"}, cancelled : BOOLEAN]

\* The parts of TypeOK.
\* The experiments of the conversations are well-formed.
CurrentOK ==
  /\ current \in [Conversation -> PlanRecord \cup {NoPlan}]
  /\ \A c \in Conversation : current[c].phase = "RUNNING" <=> current[c].trial # None

AcceptedOK ==
  /\ accepted \in [scope : Conversation \cup {None}, requests : SUBSET Entry]
  /\ IsFiniteSet(accepted.requests) /\ Cardinality(accepted.requests) <= ContinuationLimit

\* The request whose approval is awaited is still the one that was admitted.
ContinuingOK ==
  /\ continuing \in [request : Request, plan : Plan, outrun : BOOLEAN] \cup {NotContinuing}
  /\ continuing # NotContinuing =>
       /\ transition = None /\ accepted.scope = session
       /\ Admissible(continuing.request, continuing.plan)

HistoryOK == stopped \subseteq Plan /\ begun \in [Request -> [Plan -> Nat]]

\* TypeOK, inductive.
TypeInv == HostTypeOK /\ CurrentOK /\ AcceptedOK /\ ContinuingOK /\ HistoryOK

-----------------------------------------------------------------------------
(* Types *)

\* The remembered identifiers stay within their limit (Remember).
LEMMA RememberType ==
  ASSUME HostAssumption, NEW S, NEW s \in Seq(S), Len(s) <= CacheLimit, NEW x \in S
  PROVE  Remember(s, x) \in Seq(S) /\ Len(Remember(s, x)) <= CacheLimit
<1> DEFINE longer == Append(s, x)
<1>1. longer \in Seq(S) /\ Len(longer) = Len(s) + 1
  OBVIOUS
<1>2. CASE Len(longer) > CacheLimit
  <2>1. Remember(s, x) = Tail(longer)
    BY <1>2 DEF Remember
  <2>2. longer # <<>>
    BY <1>1
  <2>3. Tail(longer) \in Seq(S) /\ Len(Tail(longer)) = Len(longer) - 1
    BY <1>1, <2>2
  <2> QED BY <1>1, <2>1, <2>3
<1>3. CASE ~(Len(longer) > CacheLimit)
  BY <1>1, <1>3 DEF Remember, HostAssumption
<1> QED BY <1>2, <1>3

\* The host's own steps keep its types.
LEMMA HostTypes ==
  ASSUME HostAssumption, HostTypeOK,
         \/ \E r \in Request : Accept(r)
         \/ SendMessage \/ TurnBegins \/ PreflightFails \/ TurnEnds
         \/ Ask \/ ChoiceEnds \/ Cancel
         \/ \E c \in Conversation \cup {"model"} : Change(c)
         \/ Changed \/ ChangeFails \/ ModelChanged
         \/ (NewHost /\ pending = NoRequest)
  PROVE  HostTypeOK'
<1> USE DEF HostTypeOK
<1>0. NoRequest \notin Prompt
  BY DEF NoRequest, Prompt
<1>p. pending \in Prompt \cup {NoRequest}
  BY DEF Prompt
<1>s. pending = NoRequest => pending.stage = "none" /\ pending.cancelled = FALSE
  BY DEF NoRequest
<1>1. ASSUME NEW id \in Request \cup {Message}, Idle,
             requests' = Remember(requests, id),
             pending' = [id |-> id, stage |-> "preflight", cancelled |-> FALSE],
             UNCHANGED <<session, transition, failed, choice>>
      PROVE  HostTypeOK'
  <2>1. requests' \in Seq(Request \cup {Message}) /\ Len(requests') <= CacheLimit
    BY <1>1, RememberType
  <2>2. pending' \in Prompt
    BY <1>1 DEF Prompt
  <2>3. ~choice
    BY <1>1, <1>s DEF Idle
  <2> QED BY <1>1, <2>1, <2>2, <2>3 DEF Idle, Prompt
<1>2. CASE \E r \in Request : Accept(r)
  BY <1>1, <1>2 DEF Accept
<1>3. CASE SendMessage
  BY <1>1, <1>3 DEF SendMessage
<1>4. CASE TurnBegins
  <2>1. pending \in Prompt /\ pending' = [pending EXCEPT !.stage = "turn"]
    BY <1>4, <1>p, <1>s DEF TurnBegins
  <2>2. pending' \in Prompt /\ pending'.stage = "turn" /\ pending'.cancelled = pending.cancelled
    BY <2>1 DEF Prompt
  <2> QED BY <1>4, <1>0, <2>1, <2>2 DEF TurnBegins, Prompt
<1>5. CASE PreflightFails \/ TurnEnds
  BY <1>5, <1>s DEF PreflightFails, TurnEnds, Settled
<1>6. CASE Ask \/ ChoiceEnds
  BY <1>6 DEF Ask, ChoiceEnds
<1>7. CASE Cancel
  <2>1. pending \in Prompt /\ pending' = [pending EXCEPT !.cancelled = TRUE]
    BY <1>7, <1>p DEF Cancel
  <2>2. pending' \in Prompt
    BY <2>1 DEF Prompt
  <2> QED BY <1>7, <1>0, <2>1, <2>2 DEF Cancel, Prompt
<1>8. CASE \E c \in Conversation \cup {"model"} : Change(c)
  BY <1>8 DEF Change, Idle
<1>e. <<>> \in Seq(Request \cup {Message}) /\ Len(<<>>) <= CacheLimit
  BY DEF HostAssumption
<1>9. CASE Changed
  BY <1>9, <1>e DEF Changed
<1>10. CASE ChangeFails
  BY <1>10 DEF ChangeFails
<1>11. CASE ModelChanged
  BY <1>11 DEF ModelChanged
<1>12. CASE NewHost /\ pending = NoRequest
  BY <1>12, <1>e DEF NewHost
<1> QED BY <1>2, <1>3, <1>4, <1>5, <1>6, <1>7, <1>8, <1>9, <1>10, <1>11, <1>12

\* Rewriting the experiment of one conversation keeps them so.
LEMMA RewriteType ==
  ASSUME HostAssumption, CurrentOK, NEW c \in Conversation, NEW e \in PlanRecord \cup {NoPlan},
         e.phase = "RUNNING" <=> e.trial # None,
         current' = [current EXCEPT ![c] = e]
  PROVE  CurrentOK'
  BY DEF CurrentOK

\* A conversation whose phase is not "none" has a plan.
LEMMA HerePlan ==
  ASSUME CurrentOK, NEW c \in Conversation, current[c].phase # "none"
  PROVE  current[c] \in PlanRecord
  BY DEF CurrentOK, NoPlan

\* Become() as a rewriting.
LEMMA BecomeType ==
  ASSUME HostAssumption, CurrentOK, session \in Conversation, Here.phase # "none",
         NEW phase \in Phase, NEW trial \in {"turn", "operator", None}, Become(phase, trial),
         phase = "RUNNING" <=> trial # None
  PROVE  CurrentOK'
<1> DEFINE f == [Here EXCEPT !.phase = phase, !.trial = trial]
<1>1. Here \in PlanRecord
  BY HerePlan DEF Here
<1>2. f \in PlanRecord /\ f.phase = phase /\ f.trial = trial
  BY <1>1 DEF PlanRecord
<1>3. current' = [current EXCEPT ![session] = f]
  BY DEF Become, Here
<1> HIDE DEF f
<1> QED BY <1>2, <1>3, RewriteType

\* Reopened() keeps a well-formed experiment well-formed, and inactive.
LEMMA ReopenedType ==
  ASSUME HostAssumption, CurrentOK, NEW c \in Conversation
  PROVE  LET e == Reopened(current[c])
         IN  /\ e \in PlanRecord \cup {NoPlan}
             /\ e.plan = current[c].plan
             /\ e.phase # "RUNNING" /\ e.trial = None /\ e.phase # "READY"
             /\ e.phase = "PROPOSED" => current[c].phase = "PROPOSED"
             /\ current[c].phase \in Terminal => e.phase \in Terminal
<1>1. CASE current[c].phase \in {"READY", "RUNNING"}
  <2>1. current[c] \in PlanRecord
    BY <1>1, HerePlan
  <2>2. Reopened(current[c]) = [current[c] EXCEPT !.phase = "INTERRUPTED", !.trial = None]
    BY <1>1 DEF Reopened
  <2>3. "INTERRUPTED" \in Phase /\ None \in {"turn", "operator", None}
    BY DEF Phase
  <2>4. /\ Reopened(current[c]) \in PlanRecord
        /\ Reopened(current[c]).phase = "INTERRUPTED" /\ Reopened(current[c]).trial = None
        /\ Reopened(current[c]).plan = current[c].plan
    BY <2>1, <2>2, <2>3 DEF PlanRecord
  <2> QED BY <1>1, <2>4 DEF Terminal
<1>2. CASE current[c].phase \notin {"READY", "RUNNING"}
  BY <1>2 DEF Reopened, CurrentOK
<1> QED BY <1>1, <1>2

\* The requests of the open conversation.
LEMMA ScopedType ==
  ASSUME HostAssumption, DesktopAssumption, AcceptedOK, session \in Conversation
  PROVE  /\ Scoped \in [scope : Conversation \cup {None}, requests : SUBSET Entry]
         /\ Scoped.scope = session
         /\ IsFiniteSet(Scoped.requests) /\ Cardinality(Scoped.requests) <= ContinuationLimit
<1>1. IsFiniteSet({}) /\ Cardinality({}) = 0
  BY FS_EmptySet
<1>2. CASE accepted.scope = session
  BY <1>2 DEF Scoped, AcceptedOK
<1>3. CASE accepted.scope # session
  <2>1. Scoped = [scope |-> session, requests |-> {}]
    BY <1>3 DEF Scoped
  <2> QED BY <1>1, <2>1 DEF DesktopAssumption
<1> QED BY <1>2, <1>3

\* An admitted identifier fits into the requests that are kept.
LEMMA RecordedType ==
  ASSUME HostAssumption, DesktopAssumption, AcceptedOK, session \in Conversation,
         NEW r \in Request, NEW p \in Plan, NEW taken \in BOOLEAN,
         Admissible(r, p), Recorded(r, p, taken)
  PROVE  /\ AcceptedOK'
         /\ accepted'.scope = session
         /\ accepted'.requests =
              (Scoped.requests \ Seen(r)) \cup {[request |-> r, plan |-> p, accepted |-> taken]}
<1> DEFINE S == Scoped.requests
           K == Seen(r)
           x == [request |-> r, plan |-> p, accepted |-> taken]
           T == S \ K
<1>1. /\ Scoped \in [scope : Conversation \cup {None}, requests : SUBSET Entry]
      /\ Scoped.scope = session /\ IsFiniteSet(S) /\ Cardinality(S) <= ContinuationLimit
  BY ScopedType
<1>2. x \in Entry
  BY DEF Entry
<1>3. /\ accepted' \in [scope : Conversation \cup {None}, requests : SUBSET Entry]
      /\ accepted'.scope = session /\ accepted'.requests = T \cup {x}
  BY <1>1, <1>2 DEF Recorded
<1>4. K \subseteq S
  BY DEF Seen
<1>5. IsFiniteSet(T) /\ Cardinality(T) <= Cardinality(S)
  BY <1>1, FS_Subset
<1>6. Cardinality(S) \in Nat /\ Cardinality(T) \in Nat
  BY <1>1, <1>5, FS_CardinalityType
<1>7. IsFiniteSet(T \cup {x}) /\ Cardinality(T \cup {x}) <= Cardinality(T) + 1
  <2> HIDE DEF T, x
  <2>1. /\ IsFiniteSet(T \cup {x})
        /\ Cardinality(T \cup {x}) = IF x \in T THEN Cardinality(T) ELSE Cardinality(T) + 1
    BY <1>5, FS_AddElement
  <2> QED BY <1>6, <2>1
<1>8. Cardinality(T) < ContinuationLimit
  <2>1. CASE K = {}
    BY <2>1, <1>1, <1>5, <1>6 DEF Admissible, DesktopAssumption
  <2>2. CASE K # {}
    <3>1. PICK k \in K : TRUE
      BY <2>2
    <3>2. IsFiniteSet(S \ {k}) /\ Cardinality(S \ {k}) = Cardinality(S) - 1
      BY <1>1, <1>4, <3>1, FS_RemoveElement
    <3>3. T \subseteq S \ {k}
      BY <3>1
    <3>4. Cardinality(T) <= Cardinality(S \ {k})
      BY <3>2, <3>3, FS_Subset
    <3> QED BY <1>1, <1>6, <3>2, <3>4 DEF DesktopAssumption
  <2> QED BY <2>1, <2>2
<1>9. Cardinality(T \cup {x}) \in Nat
  BY <1>7, FS_CardinalityType
<1>10. Cardinality(T \cup {x}) <= ContinuationLimit
  BY <1>6, <1>7, <1>8, <1>9 DEF DesktopAssumption
<1> HIDE DEF x, T
<1>11. accepted'.requests = T \cup {x}
  BY <1>3
<1>12. IsFiniteSet(accepted'.requests) /\ Cardinality(accepted'.requests) <= ContinuationLimit
  BY <1>7, <1>10, <1>11
<1>13. AcceptedOK'
  BY <1>3, <1>12 DEF AcceptedOK
<1> QED BY <1>3, <1>13 DEF T, x

\* begun counts on.
LEMMA BeginsType ==
  ASSUME HistoryOK, NEW r \in Request, NEW p \in Plan,
         begun' = [begun EXCEPT ![r][p] = @ + 1], UNCHANGED stopped
  PROVE  HistoryOK'
  BY DEF HistoryOK

\* Submitting an admitted request keeps the types.
LEMMA SubmitTypes ==
  ASSUME HostAssumption, DesktopAssumption, TypeInv,
         NEW r \in Request, NEW p \in Plan, Admissible(r, p), Submit(r, p)
  PROVE  HostTypeOK' /\ CurrentOK' /\ AcceptedOK' /\ HistoryOK'
<1>1. session \in Conversation
  BY DEF TypeInv, HostTypeOK
<1>2. CurrentOK'
  BY DEF TypeInv, CurrentOK, Submit
<1>3. CASE Begins(r, p)
  <2>1. HostTypeOK'
    BY <1>3, HostTypes DEF TypeInv, Begins
  <2>2. AcceptedOK'
    BY <1>1, <1>3, RecordedType DEF TypeInv, Begins
  <2>3. HistoryOK'
    BY <1>3, BeginsType DEF TypeInv, Begins, Submit
  <2> QED BY <1>2, <2>1, <2>2, <2>3
<1>4. CASE Refuses(r, p)
  <2>1. HostTypeOK'
    BY <1>4 DEF TypeInv, Refuses, host, HostTypeOK
  <2>2. AcceptedOK'
    BY <1>1, <1>4, RecordedType DEF TypeInv, Refuses
  <2>3. HistoryOK'
    BY <1>4 DEF TypeInv, Refuses, Submit, HistoryOK
  <2> QED BY <1>2, <2>1, <2>2, <2>3
<1> QED BY <1>3, <1>4 DEF Submit

\* What an awaited approval rests on does not move with the conversation.
LEMMA ContinuingKept ==
  ASSUME ContinuingOK, UNCHANGED <<session, transition, accepted>>,
         \/ UNCHANGED continuing
         \/ continuing # NotContinuing /\ continuing' = [continuing EXCEPT !.outrun = TRUE]
         \/ continuing' = NotContinuing
  PROVE  ContinuingOK'
<1>1. Scoped' = Scoped
  BY DEF Scoped
<1>2. \A r, p : Admissible(r, p)' <=> Admissible(r, p)
  BY <1>1 DEF Admissible, Seen
<1>3. CASE UNCHANGED continuing
  BY <1>2, <1>3 DEF ContinuingOK
<1>4. CASE continuing # NotContinuing /\ continuing' = [continuing EXCEPT !.outrun = TRUE]
  <2>1. /\ continuing' \in [request : Request, plan : Plan, outrun : BOOLEAN]
        /\ continuing'.request = continuing.request /\ continuing'.plan = continuing.plan
    BY <1>4 DEF ContinuingOK
  <2> QED BY <1>2, <1>4, <2>1 DEF ContinuingOK
<1>5. CASE continuing' = NotContinuing
  BY <1>5 DEF ContinuingOK
<1> QED BY <1>3, <1>4, <1>5

\* A step of the host alone, of the same conversation.
LEMMA HostOnlyTypes ==
  ASSUME HostAssumption, TypeInv, HostTypeOK', UNCHANGED <<desktop, history>>,
         UNCHANGED <<session, transition>> \/ continuing = NotContinuing
  PROVE  TypeInv'
<1>1. CurrentOK' /\ AcceptedOK' /\ HistoryOK'
  BY DEF TypeInv, CurrentOK, AcceptedOK, HistoryOK, desktop, history
<1>2. ContinuingOK'
  BY ContinuingKept DEF TypeInv, ContinuingOK, desktop
<1> QED BY <1>1, <1>2 DEF TypeInv

\* A step of the experiments alone.
LEMMA CurrentOnlyTypes ==
  ASSUME TypeInv, CurrentOK', UNCHANGED <<host, accepted, continuing, history>>
  PROVE  TypeInv'
<1>1. HostTypeOK' /\ AcceptedOK' /\ HistoryOK'
  BY DEF TypeInv, HostTypeOK, AcceptedOK, HistoryOK, host, history
<1>2. ContinuingOK'
  BY ContinuingKept DEF TypeInv, host
<1> QED BY <1>1, <1>2 DEF TypeInv

\* What is known at first has its type.
LEMMA InitTypes == ASSUME HostAssumption, DesktopAssumption, Init PROVE TypeInv
<1>1. HostTypeOK
  <2>1. <<>> \in Seq(Request \cup {Message}) /\ Len(<<>>) <= CacheLimit
    BY DEF HostAssumption
  <2> QED BY <2>1 DEF Init, HostInit, HostTypeOK
<1>2. CurrentOK
  BY DEF Init, CurrentOK, NoPlan
<1>3. AcceptedOK
  <2>1. IsFiniteSet({}) /\ Cardinality({}) = 0
    BY FS_EmptySet
  <2>2. accepted = [scope |-> None, requests |-> {}]
    BY DEF Init
  <2> QED BY <2>1, <2>2 DEF AcceptedOK, DesktopAssumption
<1>4. ContinuingOK /\ HistoryOK
  BY DEF Init, ContinuingOK, HistoryOK
<1> QED BY <1>1, <1>2, <1>3, <1>4 DEF TypeInv

\* Every step of the application keeps the types.
LEMMA NextTypes ==
  ASSUME HostAssumption, DesktopAssumption, TypeInv, Next
  PROVE  TypeInv'
<1>0. session \in Conversation /\ CurrentOK
  BY DEF TypeInv, HostTypeOK
<1>p. /\ "READY" \in Phase /\ "RUNNING" \in Phase /\ "COMPLETED" \in Phase
      /\ "STOPPED" \in Phase /\ "FAILED" \in Phase /\ "PROPOSED" \in Phase
      /\ {None, "turn", "operator"} = {"turn", "operator", None}
      /\ "none" \in Terminal /\ "turn" # None /\ "operator" # None
  BY DEF Phase, Terminal, DesktopAssumption
<1>1. CASE HostSteps
  <2>1. HostTypeOK'
    BY <1>1, HostTypes DEF HostSteps, TypeInv
  <2>2. UNCHANGED <<session, transition>> \/ continuing = NotContinuing
    BY <1>1 DEF HostSteps, TypeInv, ContinuingOK, HostAssumption, SendMessage, TurnBegins, Ask, ChoiceEnds,
              ModelChanged, ChangeFails
  <2> QED BY <1>1, <2>1, <2>2, HostOnlyTypes DEF HostSteps
<1>2. CASE TurnSettles
  <2>1. HostTypeOK'
    BY <1>2, HostTypes DEF TurnSettles, TypeInv
  <2>2. UNCHANGED <<session, transition>>
    BY <1>2 DEF TurnSettles, PreflightFails, TurnEnds
  <2> QED BY <1>2, <2>1, <2>2, HostOnlyTypes DEF TurnSettles
<1>3. CASE CancelTurn
  <2>1. HostTypeOK'
    BY <1>3, HostTypes DEF CancelTurn, TypeInv
  <2>2. CurrentOK'
    <3>1. CASE Here.trial = "turn"
      <4>1. Here.phase # "none"
        BY <1>0, <1>p, <3>1 DEF CurrentOK, Here, NoPlan
      <4>2. Become("STOPPED", None)
        BY <1>3, <3>1 DEF CancelTurn
      <4> QED BY <1>0, <1>p, <4>1, <4>2, BecomeType
    <3>2. CASE Here.trial # "turn"
      BY <1>0, <1>3, <3>2 DEF CancelTurn, CurrentOK
    <3> QED BY <3>1, <3>2
  <2>3. AcceptedOK' /\ HistoryOK'
    BY <1>3 DEF CancelTurn, TypeInv, AcceptedOK, HistoryOK, history
  <2>4. ContinuingOK'
    BY <1>3, ContinuingKept DEF CancelTurn, Cancel, TypeInv
  <2> QED BY <2>1, <2>2, <2>3, <2>4 DEF TypeInv
<1>4. CASE Propose
  <2>1. PICK p \in Plan :
          current' = [current EXCEPT ![session] = [plan |-> p, phase |-> "PROPOSED", trial |-> None]]
    BY <1>4 DEF Propose
  <2>2. [plan |-> p, phase |-> "PROPOSED", trial |-> None] \in PlanRecord
    BY DEF PlanRecord, Phase
  <2>3. CurrentOK'
    BY <1>0, <2>1, <2>2, RewriteType
  <2> QED BY <1>4, <2>3, CurrentOnlyTypes DEF Propose
<1>5. CASE Approve \/ Trial \/ TrialEnds \/ Finish
  <2>1. CurrentOK'
    BY <1>0, <1>p, <1>5, BecomeType DEF Approve, Trial, TrialEnds, Finish
  <2> QED BY <1>5, <2>1, CurrentOnlyTypes DEF Approve, Trial, TrialEnds, Finish
<1>6. CASE Stop
  <2>1. CurrentOK'
    <3>1. CASE Here.phase \in Terminal
      BY <1>0, <1>6, <3>1 DEF Stop, CurrentOK
    <3>2. CASE Here.phase \notin Terminal
      BY <1>0, <1>p, <1>6, <3>2, BecomeType DEF Stop
    <3> QED BY <3>1, <3>2
  <2>2. HostTypeOK' /\ AcceptedOK'
    BY <1>6 DEF Stop, TypeInv, HostTypeOK, AcceptedOK, host
  <2>3. ContinuingOK'
    BY <1>6, ContinuingKept DEF Stop, TypeInv, host
  <2>4. Here.plan \in Plan
    BY <1>0, <1>6 DEF Stop, CurrentOK, Here, NoPlan, PlanRecord
  <2>5. HistoryOK'
    BY <1>6, <2>4 DEF Stop, TypeInv, HistoryOK
  <2> QED BY <2>1, <2>2, <2>3, <2>5 DEF TypeInv
<1>7. CASE \E r \in Request, p \in Plan : Continue(r, p)
  <2>1. PICK r \in Request, p \in Plan : Continue(r, p)
    BY <1>7
  <2>2. HostTypeOK' /\ CurrentOK' /\ AcceptedOK' /\ HistoryOK'
    BY <2>1, SubmitTypes DEF Continue
  <2>3. ContinuingOK'
    BY <2>1 DEF Continue, Unlatched, ContinuingOK, TypeInv
  <2> QED BY <2>2, <2>3 DEF TypeInv
<1>8. CASE \E r \in Request, p \in Plan : ApproveAndContinue(r, p)
  <2>1. PICK r \in Request, p \in Plan : ApproveAndContinue(r, p)
    BY <1>8
  <2>2. CurrentOK'
    BY <1>0, <1>p, <2>1, BecomeType DEF ApproveAndContinue
  <2>3. AcceptedOK' /\ accepted'.scope = session
    BY <1>0, <2>1, ScopedType DEF ApproveAndContinue, AcceptedOK, TypeInv
  <2>4. HostTypeOK' /\ HistoryOK'
    BY <2>1 DEF ApproveAndContinue, TypeInv, HostTypeOK, HistoryOK, host, history
  <2>5. Scoped' = Scoped /\ session' = session /\ transition' = None
    BY <2>1, <2>3 DEF ApproveAndContinue, Scoped, host, Unlatched
  <2>6. Admissible(r, p)'
    BY <2>1, <2>5 DEF ApproveAndContinue, Admissible, Seen
  <2>7. ContinuingOK'
    BY <2>1, <2>3, <2>5, <2>6 DEF ApproveAndContinue, ContinuingOK
  <2> QED BY <2>2, <2>3, <2>4, <2>7 DEF TypeInv
<1>9. CASE Resume
  <2>1. continuing.request \in Request /\ continuing.plan \in Plan
        /\ Admissible(continuing.request, continuing.plan)
    BY <1>9 DEF Resume, TypeInv, ContinuingOK
  <2>2. ContinuingOK'
    BY <1>9 DEF Resume, ContinuingOK
  <2>3. CASE Submit(continuing.request, continuing.plan)
    BY <2>1, <2>2, <2>3, SubmitTypes DEF TypeInv
  <2>4. CASE UNCHANGED <<host, current, accepted, history>>
    BY <2>2, <2>4 DEF TypeInv, HostTypeOK, CurrentOK, AcceptedOK, HistoryOK, host, history
  <2> QED BY <1>9, <2>3, <2>4 DEF Resume
<1>10. CASE \E p \in Plan : Declined(p)
  <2>1. PICK p \in Plan : Declined(p)
    BY <1>10
  <2>2. AcceptedOK'
    BY <1>0, <2>1, ScopedType DEF Declined, AcceptedOK, TypeInv
  <2>3. HostTypeOK' /\ CurrentOK' /\ HistoryOK'
    BY <2>1 DEF Declined, TypeInv, HostTypeOK, CurrentOK, HistoryOK, host, history
  <2>4. ContinuingOK'
    BY <2>1 DEF Declined, Unlatched, ContinuingOK, TypeInv
  <2> QED BY <2>2, <2>3, <2>4 DEF TypeInv
<1>11. CASE SelectModel \/ \E c \in Conversation : SelectConversation(c)
  <2>1. HostTypeOK'
    BY <1>11, HostTypes DEF SelectModel, SelectConversation, TypeInv
  <2> QED BY <1>11, <2>1, HostOnlyTypes DEF SelectModel, SelectConversation, Unlatched
<1>12. CASE ConversationChanged
  <2>1. HostTypeOK'
    BY <1>12, HostTypes DEF ConversationChanged, TypeInv
  <2>2. session' \in Conversation
    BY <2>1 DEF HostTypeOK
  <2>3. CurrentOK'
    BY <1>0, <1>12, <2>2, ReopenedType, RewriteType DEF ConversationChanged
  <2>4. AcceptedOK' /\ HistoryOK'
    BY <1>12 DEF ConversationChanged, TypeInv, AcceptedOK, HistoryOK, history
  <2>5. ContinuingOK'
    BY <1>12 DEF ConversationChanged, Changed, ContinuingOK, TypeInv, HostAssumption
  <2> QED BY <2>1, <2>3, <2>4, <2>5 DEF TypeInv
<1>13. ASSUME accepted' = [scope |-> None, requests |-> {}], continuing' = NotContinuing,
              UNCHANGED history
       PROVE  AcceptedOK' /\ ContinuingOK' /\ HistoryOK'
  <2>1. IsFiniteSet({}) /\ Cardinality({}) = 0
    BY FS_EmptySet
  <2>2. AcceptedOK'
    BY <1>13, <2>1 DEF AcceptedOK, DesktopAssumption
  <2> QED BY <1>13, <2>2 DEF ContinuingOK, TypeInv, HistoryOK, history
<1>14. CASE Reconnect
  <2>1. HostTypeOK'
    BY <1>14, HostTypes DEF Reconnect, TypeInv
  <2>2. CurrentOK'
    BY <1>0, <1>14 DEF Reconnect, CurrentOK
  <2> QED BY <1>14, <1>13, <2>1, <2>2 DEF Reconnect, Unlatched, TypeInv
<1>15. CASE Restart
  <2>1. HostTypeOK'
    <3>1. <<>> \in Seq(Request \cup {Message}) /\ Len(<<>>) <= CacheLimit
      BY DEF HostAssumption
    <3> QED BY <1>0, <1>15, <3>1 DEF Restart, HostTypeOK
  <2>2. CurrentOK'
    BY <1>0, <1>15, ReopenedType, RewriteType DEF Restart
  <2> QED BY <1>15, <1>13, <2>1, <2>2 DEF Restart, TypeInv
<1> QED BY <1>1, <1>2, <1>3, <1>4, <1>5, <1>6, <1>7, <1>8, <1>9, <1>10, <1>11, <1>12, <1>14, <1>15
        DEF Next

-----------------------------------------------------------------------------
(* Once, and never after Stop *)

ActiveAt(c) == current[c].phase \in {"READY", "RUNNING"}

\* Only the open conversation has an approved plan, and it stays open.
OnlyHere == \A c \in Conversation : ActiveAt(c) => c = session /\ transition \notin Conversation

\* A plan is the current one of one conversation.
OnePlace ==
  \A c, d \in Conversation : current[c].plan = current[d].plan /\ current[c].plan # 0 => c = d

\* A plan that was stopped or continued was proposed: no later one is the same.
Ordered ==
  \A p \in Plan : p \in stopped \/ (\E r \in Request : begun[r][p] > 0) =>
    \E c \in Conversation : p <= current[c].plan

\* A continuation that began is on record as long as its plan could be continued.
Spent ==
  \A r \in Request, p \in Plan, c \in Conversation :
    begun[r][p] > 0 /\ current[c].plan = p =>
      /\ current[c].phase # "PROPOSED"
      /\ ActiveAt(c) => /\ accepted.scope = c
                        /\ [request |-> r, plan |-> p, accepted |-> TRUE] \in accepted.requests

\* A plan that was stopped has ended.
Halted ==
  \A p \in stopped, c \in Conversation : current[c].plan = p => current[c].phase \in Terminal

PlanInv == OnlyHere /\ OnePlace /\ Ordered /\ Spent /\ Halted /\ BegunOnce

\* At first no plan is current and none was begun.
LEMMA InitPlans == ASSUME HostAssumption, DesktopAssumption, Init PROVE PlanInv
<1>1. \A c \in Conversation : current[c] = NoPlan
  BY DEF Init
<1>2. \A r \in Request, p \in Plan : begun[r][p] = 0
  BY DEF Init
<1>3. OnlyHere /\ OnePlace /\ Halted
  BY <1>1 DEF OnlyHere, OnePlace, Halted, ActiveAt, NoPlan, Terminal
<1>4. Ordered /\ Spent /\ BegunOnce
  BY <1>2 DEF Init, Ordered, Spent, BegunOnce
<1> QED BY <1>3, <1>4 DEF PlanInv

\* A step that submits nothing and proposes nothing, and ends what it stops.
LEMMA QuietPlans ==
  ASSUME DesktopAssumption, TypeInv, PlanInv, UNCHANGED begun,
         \A c \in Conversation :
           /\ current'[c].plan = current[c].plan
           /\ current'[c].phase = "PROPOSED" => current[c].phase = "PROPOSED"
           /\ current[c].phase \in Terminal => current'[c].phase \in Terminal
           /\ ActiveAt(c)' => c = session' /\ transition' \notin Conversation,
         \/ UNCHANGED accepted
         \/ UNCHANGED session /\ accepted' = Scoped
         \/ \A c \in Conversation : ~ActiveAt(c)',
         \/ UNCHANGED stopped
         \/ /\ stopped' = stopped \cup {Here.plan} /\ Here.plan # 0
            /\ current'[session].phase \in Terminal
  PROVE  PlanInv'
<1>0. /\ session \in Conversation
      /\ \A c \in Conversation : current[c].phase \in Phase
      /\ begun \in [Request -> [Plan -> Nat]]
  BY DEF TypeInv, HostTypeOK, CurrentOK, HistoryOK, PlanRecord, NoPlan, Phase
<1>a. OnlyHere'
  BY DEF OnlyHere
<1>b. OnePlace' /\ BegunOnce'
  BY DEF PlanInv, OnePlace, BegunOnce
<1>1. OnlyHere' /\ OnePlace' /\ BegunOnce'
  BY <1>a, <1>b
<1>2. Ordered'
  <2>1. ASSUME NEW p \in Plan, p \in stopped' \/ (\E r \in Request : begun'[r][p] > 0)
        PROVE  \E c \in Conversation : p <= current[c].plan
    <3>1. CASE p \in stopped \/ (\E r \in Request : begun[r][p] > 0)
      BY <3>1 DEF PlanInv, Ordered
    <3>2. CASE p = current[session].plan
      BY <1>0, <3>2 DEF Plan, DesktopAssumption
    <3> QED BY <2>1, <3>1, <3>2 DEF Here
  <2> QED BY <2>1 DEF Ordered
<1>3. Halted'
  BY <1>0 DEF PlanInv, Halted, OnePlace, Here
<1>4. ASSUME NEW r \in Request, NEW p \in Plan, NEW c \in Conversation,
             begun[r][p] > 0, current[c].plan = p
      PROVE  /\ current'[c].phase # "PROPOSED"
             /\ ActiveAt(c)' => /\ accepted'.scope = c
                                /\ [request |-> r, plan |-> p, accepted |-> TRUE] \in accepted'.requests
  <2>1. current[c].phase # "PROPOSED"
    BY <1>4 DEF PlanInv, Spent
  <2>2. ASSUME ActiveAt(c)'
        PROVE  ActiveAt(c)
    <3>1. current[c].phase \notin Terminal
      BY <2>2 DEF ActiveAt, Terminal
    <3> QED BY <1>0, <2>1, <3>1 DEF ActiveAt, Terminal, Phase
  <2>3. ASSUME ActiveAt(c)'
        PROVE  accepted' = accepted /\ accepted.scope = c
               /\ [request |-> r, plan |-> p, accepted |-> TRUE] \in accepted.requests
    <3>1. /\ c = session /\ accepted.scope = c
          /\ [request |-> r, plan |-> p, accepted |-> TRUE] \in accepted.requests
      BY <1>4, <2>2, <2>3 DEF PlanInv, OnlyHere, Spent
    <3> QED BY <2>3, <3>1 DEF Scoped
  <2> QED BY <2>1, <2>3
<1>5. Spent'
  BY <1>4 DEF Spent
<1> QED BY <1>1, <1>2, <1>3, <1>5 DEF PlanInv

\* A request that may be submitted has not begun for its plan.
LEMMA NotBegun ==
  ASSUME TypeInv, PlanInv, NEW r \in Request, NEW p \in Plan, Admissible(r, p), MaySubmit(p)
  PROVE  begun[r][p] = 0 /\ p \notin stopped
<1>1. session \in Conversation /\ begun[r][p] \in Nat /\ current[session].plan = p
      /\ ActiveAt(session) /\ current[session].phase \notin Terminal
  BY DEF TypeInv, HostTypeOK, HistoryOK, MaySubmit, Reviewed, Here, ActiveAt, Terminal
<1>2. p \notin stopped
  BY <1>1 DEF PlanInv, Halted
<1>3. CASE begun[r][p] > 0
  <2> DEFINE q == [request |-> r, plan |-> p, accepted |-> TRUE]
  <2>1. accepted.scope = session /\ q \in accepted.requests
    BY <1>1, <1>3 DEF PlanInv, Spent
  <2>2. q \in Seen(r)
    BY <2>1 DEF Seen, Scoped
  <2> QED BY <2>2 DEF Admissible
<1> QED BY <1>1, <1>2, <1>3

\* Submitting keeps the invariant.
LEMMA SubmitPlans ==
  ASSUME HostAssumption, DesktopAssumption, TypeInv, PlanInv,
         NEW r \in Request, NEW p \in Plan, Admissible(r, p), Submit(r, p)
  PROVE  PlanInv'
<1>0. /\ session \in Conversation /\ UNCHANGED <<session, transition, current, stopped>>
      /\ current[session].plan = p /\ current[session].phase = "READY" /\ p # 0
  <2>1. UNCHANGED <<session, transition>>
    BY DEF Submit, Begins, Refuses, Accept, host
  <2>2. UNCHANGED <<current, stopped>> /\ current[session].plan = p /\ current[session].phase = "READY"
    BY DEF Submit, MaySubmit, Reviewed, Here
  <2> QED BY <2>1, <2>2 DEF TypeInv, HostTypeOK, Plan, DesktopAssumption
<1>1. OnlyHere' /\ OnePlace' /\ Halted'
  BY <1>0 DEF PlanInv, OnlyHere, OnePlace, Halted, ActiveAt
<1>2. PICK taken \in BOOLEAN :
        /\ Recorded(r, p, taken)
        /\ taken => begun' = [begun EXCEPT ![r][p] = @ + 1]
        /\ ~taken => begun' = begun
  BY DEF Submit, Begins, Refuses
<1> DEFINE e == [request |-> r, plan |-> p, accepted |-> taken]
<1>3. /\ accepted'.scope = session
      /\ accepted'.requests = (Scoped.requests \ Seen(r)) \cup {e}
  BY <1>0, <1>2, RecordedType DEF TypeInv
<1>4. begun[r][p] = 0 /\ begun \in [Request -> [Plan -> Nat]]
  BY NotBegun DEF Submit, TypeInv, HistoryOK
<1>5. /\ \A s \in Request, q \in Plan : s # r \/ q # p => begun'[s][q] = begun[s][q]
      /\ begun'[r][p] = IF taken THEN 1 ELSE 0
  BY <1>2, <1>4
<1>6. BegunOnce'
  BY <1>5 DEF PlanInv, BegunOnce
<1>7. Ordered'
  <2>1. ASSUME NEW q \in Plan, q \in stopped' \/ (\E s \in Request : begun'[s][q] > 0)
        PROVE  \E c \in Conversation : q <= current[c].plan
    <3>1. CASE q = p
      BY <1>0, <3>1 DEF Plan, DesktopAssumption
    <3>2. CASE q # p
      BY <1>0, <1>5, <2>1, <3>2 DEF PlanInv, Ordered
    <3> QED BY <3>1, <3>2
  <2> QED BY <1>0, <2>1 DEF Ordered
<1>8. ASSUME NEW s \in Request, NEW q \in Plan, NEW c \in Conversation,
             begun'[s][q] > 0, current[c].plan = q
      PROVE  /\ current[c].phase # "PROPOSED"
             /\ ActiveAt(c) => /\ accepted'.scope = c
                               /\ [request |-> s, plan |-> q, accepted |-> TRUE] \in accepted'.requests
  <2>1. CASE s = r /\ q = p
    <3>1. taken /\ c = session
      BY <1>0, <1>5, <1>8, <2>1 DEF PlanInv, OnePlace
    <3> QED BY <1>0, <1>3, <2>1, <3>1
  <2>2. CASE s # r \/ q # p
    <3> DEFINE f == [request |-> s, plan |-> q, accepted |-> TRUE]
    <3>1. begun[s][q] > 0
      BY <1>5, <1>8, <2>2
    <3>2. current[c].phase # "PROPOSED"
      BY <1>8, <3>1 DEF PlanInv, Spent
    <3>3. ASSUME ActiveAt(c)
          PROVE  accepted'.scope = c /\ f \in accepted'.requests
      <4>1. c = session /\ accepted.scope = c /\ f \in accepted.requests
        BY <1>8, <3>1, <3>3 DEF PlanInv, Spent, OnlyHere
      <4>2. f \in Scoped.requests
        BY <4>1 DEF Scoped
      <4>3. f \notin Seen(r)
        BY DEF Admissible
      <4> QED BY <1>3, <4>1, <4>2, <4>3
    <3> QED BY <3>2, <3>3
  <2> QED BY <2>1, <2>2
<1>9. Spent'
  BY <1>0, <1>8 DEF Spent, ActiveAt
<1> QED BY <1>1, <1>6, <1>7, <1>9 DEF PlanInv

\* What Become() does.
LEMMA BecomeEffect ==
  ASSUME CurrentOK, session \in Conversation, Here.phase # "none", NEW phase, NEW trial,
         Become(phase, trial)
  PROVE  /\ \A c \in Conversation : c # session => current'[c] = current[c]
         /\ current'[session].plan = current[session].plan /\ current'[session].phase = phase
<1>1. Here \in PlanRecord
  BY HerePlan DEF Here
<1>2. current' = [current EXCEPT ![session] = [Here EXCEPT !.phase = phase, !.trial = trial]]
  BY DEF Become, Here
<1>3. /\ [Here EXCEPT !.phase = phase, !.trial = trial].plan = Here.plan
      /\ [Here EXCEPT !.phase = phase, !.trial = trial].phase = phase
  BY <1>1 DEF PlanRecord
<1> QED BY <1>2, <1>3 DEF CurrentOK, Here

\* Become() of a plan that is not over.
LEMMA BecomePlans ==
  ASSUME DesktopAssumption, TypeInv, PlanInv, transition \notin Conversation,
         NEW phase \in Phase \ {"PROPOSED"}, NEW trial, Become(phase, trial),
         Here.phase \notin Terminal,
         UNCHANGED begun, UNCHANGED <<session, transition>>,
         UNCHANGED accepted \/ accepted' = Scoped,
         \/ UNCHANGED stopped
         \/ phase \in Terminal /\ stopped' = stopped \cup {Here.plan} /\ Here.plan # 0
  PROVE  PlanInv'
<1>0. session \in Conversation /\ CurrentOK /\ Here.phase # "none"
  BY DEF TypeInv, HostTypeOK, Terminal
<1>1. /\ \A c \in Conversation : c # session => current'[c] = current[c]
      /\ current'[session].plan = current[session].plan /\ current'[session].phase = phase
  BY <1>0, BecomeEffect
<1>2. \A c \in Conversation :
        /\ current'[c].plan = current[c].plan
        /\ current'[c].phase = "PROPOSED" => current[c].phase = "PROPOSED"
        /\ current[c].phase \in Terminal => current'[c].phase \in Terminal
        /\ ActiveAt(c)' => c = session' /\ transition' \notin Conversation
  BY <1>0, <1>1 DEF PlanInv, OnlyHere, ActiveAt, Here
<1> QED BY <1>1, <1>2, QuietPlans

\* A step that leaves the experiments alone and submits nothing.
LEMMA SamePlans ==
  ASSUME DesktopAssumption, TypeInv, PlanInv, UNCHANGED <<current, begun, stopped>>,
         \/ UNCHANGED session /\ (transition' \notin Conversation \/ \A c \in Conversation : ~ActiveAt(c))
         \/ \A c \in Conversation : ~ActiveAt(c),
         UNCHANGED accepted \/ (UNCHANGED session /\ accepted' = Scoped)
         \/ \A c \in Conversation : ~ActiveAt(c)
  PROVE  PlanInv'
<1>1. \A c \in Conversation : ActiveAt(c)' <=> ActiveAt(c)
  BY DEF ActiveAt
<1>2. \A c \in Conversation : ActiveAt(c)' => c = session' /\ transition' \notin Conversation
  BY <1>1 DEF PlanInv, OnlyHere
<1> QED BY <1>1, <1>2, QuietPlans

\* A conversation opened anew has no approved plan.
LEMMA ReopenPlans ==
  ASSUME HostAssumption, DesktopAssumption, TypeInv, PlanInv, session' \in Conversation,
         current' = [current EXCEPT ![session'] = Reopened(@)],
         session' = session \/ transition \in Conversation, UNCHANGED <<begun, stopped>>
  PROVE  PlanInv'
<1>0. CurrentOK
  BY DEF TypeInv
<1>1. \A c \in Conversation : current'[c] = IF c = session' THEN Reopened(current[c]) ELSE current[c]
  BY <1>0 DEF CurrentOK
<1>2. \A c \in Conversation : ~ActiveAt(c)'
  BY <1>0, <1>1, ReopenedType DEF PlanInv, OnlyHere, ActiveAt
<1>3. \A c \in Conversation :
        /\ current'[c].plan = current[c].plan
        /\ current'[c].phase = "PROPOSED" => current[c].phase = "PROPOSED"
        /\ current[c].phase \in Terminal => current'[c].phase \in Terminal
  BY <1>0, <1>1, ReopenedType
<1> QED BY <1>2, <1>3, QuietPlans

\* A new plan is later than every plan that was stopped or continued.
LEMMA ProposePlans ==
  ASSUME DesktopAssumption, TypeInv, PlanInv, Propose
  PROVE  PlanInv'
<1>0. /\ session \in Conversation /\ CurrentOK /\ HistoryOK
      /\ UNCHANGED <<session, transition, accepted, stopped, begun>>
      /\ ~ActiveAt(session)
  <2>1. session \in Conversation /\ CurrentOK /\ HistoryOK
    BY DEF TypeInv, HostTypeOK
  <2>2. UNCHANGED <<session, transition, accepted, stopped, begun>>
    BY DEF Propose, host, history
  <2>3. Here.phase \in Terminal
    BY DEF Propose
  <2>4. ~ActiveAt(session)
    BY <2>3 DEF ActiveAt, Terminal, Here
  <2> QED BY <2>1, <2>2, <2>4
<1>1. PICK p \in Plan :
        /\ \A c \in Conversation : current[c].plan < p
        /\ current' = [current EXCEPT ![session] = [plan |-> p, phase |-> "PROPOSED", trial |-> None]]
  BY DEF Propose
<1>2. /\ \A c \in Conversation : c # session => current'[c] = current[c]
      /\ current'[session].plan = p /\ current'[session].phase = "PROPOSED"
  BY <1>0, <1>1 DEF CurrentOK
<1>n. p \in Nat /\ \A c \in Conversation : current[c].plan \in Nat
  BY <1>0, <1>1 DEF CurrentOK, PlanRecord, NoPlan, Plan, DesktopAssumption
<1>3. p \notin stopped /\ \A r \in Request : ~(begun[r][p] > 0)
  BY <1>1, <1>n DEF PlanInv, Ordered
<1>4. OnlyHere'
  BY <1>0, <1>2 DEF PlanInv, OnlyHere, ActiveAt
<1>5. OnePlace'
  BY <1>1, <1>2, <1>n DEF PlanInv, OnePlace
<1>6. Ordered'
  <2>1. ASSUME NEW q \in Plan, NEW c \in Conversation, q <= current[c].plan
        PROVE  q <= current'[session].plan
    BY <1>1, <1>2, <1>n, <2>1 DEF Plan, DesktopAssumption
  <2> QED BY <1>0, <2>1 DEF PlanInv, Ordered
<1>7. Spent'
  BY <1>0, <1>2, <1>3 DEF PlanInv, Spent, ActiveAt
<1>8. Halted' /\ BegunOnce'
  BY <1>0, <1>2, <1>3 DEF PlanInv, Halted, BegunOnce
<1> QED BY <1>4, <1>5, <1>6, <1>7, <1>8 DEF PlanInv

\* Every step keeps what is known of the plans.
LEMMA NextPlans ==
  ASSUME HostAssumption, DesktopAssumption, TypeInv, PlanInv, Next
  PROVE  PlanInv'
<1>0. /\ session \in Conversation /\ CurrentOK /\ None \notin Conversation /\ "model" \notin Conversation
      /\ transition # None => pending = NoRequest
  BY DEF TypeInv, HostTypeOK, HostAssumption
<1>p. /\ {"READY", "RUNNING", "COMPLETED", "STOPPED", "FAILED"} \subseteq Phase \ {"PROPOSED"}
      /\ {"READY", "RUNNING", "PROPOSED"} \cap Terminal = {} /\ "STOPPED" \in Terminal
  BY DEF Phase, Terminal
<1>a. ActiveAt(session) => transition \notin Conversation
  BY <1>0 DEF PlanInv, OnlyHere
<1>b. ~Active => \A c \in Conversation : ~ActiveAt(c)
  BY DEF PlanInv, OnlyHere, Active, ActiveAt, Here
<1>1. CASE HostSteps \/ TurnSettles
  <2>1. \/ UNCHANGED session /\ transition' \notin Conversation
        \/ UNCHANGED <<session, transition>>
    BY <1>1, <1>0 DEF HostSteps, TurnSettles, SendMessage, TurnBegins, Ask, ChoiceEnds, ModelChanged,
              ChangeFails, PreflightFails, TurnEnds
  <2>2. UNCHANGED <<current, accepted, begun, stopped>>
    BY <1>1 DEF HostSteps, TurnSettles, desktop, history
  <2>3. UNCHANGED <<session, transition>> =>
          transition' \notin Conversation \/ \A c \in Conversation : ~ActiveAt(c)
    BY DEF PlanInv, OnlyHere
  <2> QED BY <2>1, <2>2, <2>3, SamePlans
<1>2. CASE CancelTurn
  <2>0. /\ UNCHANGED <<session, transition, accepted, begun, stopped>> /\ transition = None
    BY <1>2, <1>0 DEF CancelTurn, Cancel, history
  <2>1. CASE Here.trial = "turn"
    <3>1. Here.phase = "RUNNING"
      BY <1>0, <2>1 DEF CurrentOK, Here, DesktopAssumption
    <3>2. Become("STOPPED", None)
      BY <1>2, <2>1 DEF CancelTurn
    <3> QED BY <1>0, <1>p, <2>0, <3>1, <3>2, BecomePlans
  <2>2. CASE Here.trial # "turn"
    BY <1>0, <1>2, <2>0, <2>2, SamePlans DEF CancelTurn
  <2> QED BY <2>1, <2>2
<1>3. CASE Propose
  BY <1>3, ProposePlans
<1>4. CASE Approve
  BY <1>0, <1>p, <1>4, BecomePlans DEF Approve, Unlatched, host, history
<1>5. CASE Trial
  <2>1. transition \notin Conversation
    BY <1>5, <1>a DEF Trial, ActiveAt, Here
  <2> QED BY <1>p, <1>5, <2>1, BecomePlans DEF Trial, host, history
<1>6. CASE TrialEnds
  <2>1. transition \notin Conversation
    BY <1>6, <1>a DEF TrialEnds, ActiveAt, Here
  <2> QED BY <1>p, <1>6, <2>1, BecomePlans DEF TrialEnds, host, history
<1>7. CASE Finish
  BY <1>0, <1>p, <1>7, BecomePlans DEF Finish, host, history
<1>8. CASE Stop
  <2>0. /\ UNCHANGED <<session, transition, accepted, begun>> /\ transition \notin Conversation
        /\ stopped' = stopped \cup {Here.plan} /\ Here.plan # 0
    BY <1>8, <1>0 DEF Stop, host
  <2>1. CASE Here.phase \notin Terminal
    BY <1>p, <1>8, <2>0, <2>1, BecomePlans DEF Stop
  <2>2. CASE Here.phase \in Terminal
    <3>1. UNCHANGED current /\ current'[session].phase \in Terminal
      BY <1>8, <2>2 DEF Stop, Here
    <3>2. \A c \in Conversation : ActiveAt(c)' => c = session' /\ transition' \notin Conversation
      BY <2>0, <3>1 DEF PlanInv, OnlyHere, ActiveAt
    <3> QED BY <2>0, <3>1, <3>2, QuietPlans
  <2> QED BY <2>1, <2>2
<1>9. CASE \E r \in Request, p \in Plan : Continue(r, p)
  BY <1>9, SubmitPlans DEF Continue
<1>10. CASE \E r \in Request, p \in Plan : ApproveAndContinue(r, p)
  BY <1>0, <1>p, <1>10, BecomePlans DEF ApproveAndContinue, Unlatched, host, history
<1>11. CASE Resume
  <2>1. continuing.request \in Request /\ continuing.plan \in Plan
        /\ Admissible(continuing.request, continuing.plan)
    BY <1>11 DEF Resume, TypeInv, ContinuingOK
  <2>2. CASE Submit(continuing.request, continuing.plan)
    BY <2>1, <2>2, SubmitPlans
  <2>3. CASE UNCHANGED <<host, current, accepted, history>>
    BY <2>3, <1>b, SamePlans DEF host, history, PlanInv, OnlyHere
  <2> QED BY <1>11, <2>2, <2>3 DEF Resume
<1>12. CASE \E p \in Plan : Declined(p)
  BY <1>0, <1>12, SamePlans DEF Declined, Unlatched, host, history
<1>13. CASE SelectModel
  BY <1>0, <1>13, SamePlans DEF SelectModel, Change, desktop, history
<1>14. CASE \E c \in Conversation : SelectConversation(c)
  <2>1. \A c \in Conversation : ~ActiveAt(c)
    BY <1>14, <1>b DEF SelectConversation
  <2> QED BY <1>14, <2>1, SamePlans DEF SelectConversation, Change, desktop, history
<1>15. CASE ConversationChanged
  BY <1>15, ReopenPlans DEF ConversationChanged, Changed, history
<1>16. CASE Reconnect
  <2>1. \A c \in Conversation : ~ActiveAt(c)
    BY <1>16, <1>b DEF Reconnect
  <2> QED BY <1>16, <2>1, SamePlans DEF Reconnect, history
<1>17. CASE Restart
  BY <1>0, <1>17, ReopenPlans DEF Restart, history
<1> QED BY <1>1, <1>2, <1>3, <1>4, <1>5, <1>6, <1>7, <1>8, <1>9, <1>10, <1>11, <1>12, <1>13, <1>14,
           <1>15, <1>16, <1>17 DEF Next

-----------------------------------------------------------------------------
(* Theorems *)

\* The invariant holds of every behaviour.
LEMMA Invariance == Spec => [](TypeInv /\ PlanInv)
<1>1. Init => TypeInv /\ PlanInv
  BY HostAssumption, DesktopAssumption, InitTypes, InitPlans
<1>2. TypeInv /\ PlanInv /\ [Next]_vars => TypeInv' /\ PlanInv'
  <2> SUFFICES ASSUME TypeInv, PlanInv, [Next]_vars PROVE TypeInv' /\ PlanInv'
    OBVIOUS
  <2>1. CASE Next
    BY <2>1, HostAssumption, DesktopAssumption, NextTypes, NextPlans
  <2>2. CASE UNCHANGED vars
    <3>1. UNCHANGED <<host, desktop, history>>
      BY <2>2 DEF vars
    <3>2. TypeInv'
      BY <3>1 DEF TypeInv, HostTypeOK, CurrentOK, AcceptedOK, ContinuingOK, HistoryOK, Admissible, Seen,
                 Scoped, host, desktop, history
    <3>3. PlanInv'
      BY <3>1 DEF PlanInv, OnlyHere, OnePlace, Ordered, Spent, Halted, BegunOnce, ActiveAt,
                 host, desktop, history
    <3> QED BY <3>2, <3>3
  <2> QED BY <2>1, <2>2
<1> QED BY <1>1, <1>2, PTL DEF Spec

\* Every value keeps its type, a question belongs to the turn that runs, and no
\* request is under way while the conversation or the model changes.
THEOREM TypeCorrect == Spec => []TypeOK
<1>1. TypeInv => TypeOK
  BY DEF TypeInv, TypeOK, CurrentOK, AcceptedOK, ContinuingOK, HistoryOK, PlanRecord, Entry
<1> QED BY <1>1, Invariance, PTL

\* A continuation begins once for its plan (host.prompt, continueExperiment).
THEOREM ContinuedOnce == Spec => []BegunOnce
<1>1. PlanInv => BegunOnce
  BY DEF PlanInv
<1> QED BY <1>1, Invariance, PTL

\* None begins once the operator asked to Stop its plan (continueExperiment).
THEOREM StopHolds == Spec => NoneAfterStop
<1>1. ASSUME TypeInv, PlanInv, [Next]_vars, NEW r \in Request, NEW p \in Plan, begun'[r][p] > begun[r][p]
      PROVE  p \notin stopped
  <2>0. begun \in [Request -> [Plan -> Nat]]
    BY <1>1 DEF TypeInv, HistoryOK
  <2>1. begun' # begun
    BY <1>1, <2>0
  <2>2. PICK s \in Request, q \in Plan :
          Admissible(s, q) /\ MaySubmit(q) /\ begun' = [begun EXCEPT ![s][q] = @ + 1]
    <3>1. Next
      BY <1>1, <2>1 DEF vars, history
    <3>2. CASE \E s \in Request, q \in Plan : Continue(s, q)
      BY <2>1, <3>2 DEF Continue, Submit, Begins, Refuses
    <3>3. CASE Resume
      <4>1. continuing.request \in Request /\ continuing.plan \in Plan
            /\ Admissible(continuing.request, continuing.plan)
        BY <1>1, <3>3 DEF Resume, TypeInv, ContinuingOK
      <4> QED BY <2>1, <3>3, <4>1 DEF Resume, Submit, Begins, Refuses, history
    <3> QED BY <2>1, <3>1, <3>2, <3>3 DEF Next, HostSteps, TurnSettles, CancelTurn, Propose, Approve, Trial,
              TrialEnds, Finish, Stop, ApproveAndContinue, Declined, SelectConversation, SelectModel,
              ConversationChanged, Reconnect, Restart, history
  <2>3. s = r /\ q = p
    BY <1>1, <2>0, <2>2
  <2> QED BY <1>1, <2>2, <2>3, NotBegun
<1>2. TypeInv /\ PlanInv /\ [Next]_vars =>
        [\A r \in Request, p \in Plan : begun'[r][p] > begun[r][p] => p \notin stopped]_vars
  BY <1>1
<1> QED BY <1>2, Invariance, PTL DEF Spec, NoneAfterStop
=============================================================================
