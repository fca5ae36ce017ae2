----------------------- MODULE CommissioningController -----------------------
(***************************************************************************)
(* The operator's gripper check (cli/src/harness/commissioning-            *)
(* controller.js): one trial that a Node owns, prepared, approved and      *)
(* stopped by exact requests, and its recovery once its outcome is         *)
(* unknown.  A status read, one action and one Stop overlap; each may fail *)
(* whether or not the Node has served it.  The Node may restart, or be     *)
(* replaced by one that knows nothing of the trial.                        *)
(*                                                                         *)
(* epoch is only compared with the value captured when a read or an action *)
(* began: `current` holds that comparison.  Five-second ages, expiry and   *)
(* canAct() only withhold what the guards below allow: they are left out.  *)
(* An identifier stands for its digest.                                    *)
(***************************************************************************)
EXTENDS Integers

CONSTANTS
  MaxSessions,    \* bound of the model: starts of the Node
  MaxTrials,      \* bound of the model: trials the Nodes prepare
  MaxOffers,      \* bound of the model: recovery inspections
  None

ASSUME CommissioningAssumption ==
  MaxSessions \in Nat \ {0} /\ MaxTrials \in Nat \ {0} /\ MaxOffers \in Nat

VARIABLES
  node,            \* external: what the Node would answer now
  trials, offers,  \* external: how many there have been
  resolved,        \* history: trials that a Node itself has resolved
  recoveryOnly,    \* a controller for an owner retained over a restart
  disposed,
  status, available, uncertain,
  recoveryStatus, recoveryAvailable,
  requested,       \* recoveryRequestStatus, by its Node session
  attempted,       \* attemptedApprovals
  confirmed,       \* attemptedRecoveries
  reading,         \* the status read in flight
  action,          \* pending, with the request it waits for
  stop,            \* stopPending, with the request it waits for
  doubt,           \* history: a prepare failed, no status asked since has come
  submitted,       \* history: approvals that were sent
  withdrawn        \* history: offers confirmed, or made before the last Stop

external == <<node, trials, offers, resolved>>
shown    == <<status, available, uncertain>>
recovery == <<recoveryStatus, recoveryAvailable, requested>>
attempts == <<attempted, confirmed>>
history  == <<doubt, submitted, withdrawn>>
vars == <<external, recoveryOnly, disposed, shown, recovery, attempts, reading, action, stop, history>>

NoTrial == 0
NoOffer == 0
Session == 1..MaxSessions
Trial   == 1..MaxTrials
Offer   == 1..MaxOffers

\* "stopping" is a trial whose Stop is requested and not confirmed, "over" one whose
\* terminal phase and Stop are both confirmed.
Phase  == {"none", "waiting", "running", "stopping", "unknown", "over"}
Status == [session : Session, trial : Trial \cup {NoTrial}, origin : Session, phase : Phase,
           offer : Offer \cup {NoOffer}, cleared : BOOLEAN]
Kind   == {"inspect", "prepare", "approve", "recoveryStatus", "recoveryInspect", "recoveryConfirm"}
Read   == [current : BOOLEAN, doubted : BOOLEAN, reply : Status \cup {None}]
Action == [kind : Kind, current : BOOLEAN, session : Session, trial : Trial \cup {NoTrial},
           offer : Offer \cup {NoOffer}, reply : Status \cup {None}]
Stop   == [session : Session, trial : Trial, other : Session \cup {0}, reply : Status \cup {None}]

ASSUME NoneAssumption == None \notin Status \cup Read \cup Action \cup Stop

TypeOK ==
  /\ node \in Status /\ trials \in Trial \cup {NoTrial} /\ offers \in Offer \cup {NoOffer}
  /\ resolved \in SUBSET Trial
  /\ recoveryOnly \in BOOLEAN /\ disposed \in BOOLEAN
  /\ status \in Status \cup {None} /\ available \in BOOLEAN /\ uncertain \in BOOLEAN
  /\ recoveryStatus \in Status \cup {None} /\ recoveryAvailable \in BOOLEAN
  /\ requested \in Session \cup {0}
  /\ attempted \in SUBSET (Session \X Trial) /\ confirmed \in SUBSET (Session \X Trial \X Offer)
  /\ reading \in Read \cup {None} /\ action \in Action \cup {None} /\ stop \in Stop \cup {None}
  /\ doubt \in BOOLEAN
  /\ submitted \in SUBSET (Session \X Trial) /\ withdrawn \in SUBSET Offer

\* commissioningUnresolved
Unresolved(s) == s # None /\ s.trial # NoTrial /\ ~s.cleared /\ s.phase # "over"

Blank == [session |-> 1, trial |-> NoTrial, origin |-> 1, phase |-> "none", offer |-> NoOffer,
          cleared |-> FALSE]

\* An ordinary controller knows nothing; a retained one starts from its record.
Init ==
  /\ recoveryOnly \in BOOLEAN
  /\ IF recoveryOnly
       THEN \E p \in {"waiting", "running", "unknown"} :
              node = [Blank EXCEPT !.trial = 1, !.phase = p] /\ trials = 1 /\ status = node
       ELSE node = Blank /\ trials = 0 /\ status = None
  /\ offers = 0 /\ resolved = {}
  /\ disposed = FALSE /\ available = FALSE /\ uncertain = FALSE
  /\ recoveryStatus = None /\ recoveryAvailable = FALSE /\ requested = 0
  /\ attempted = {} /\ confirmed = {}
  /\ reading = None /\ action = None /\ stop = None
  /\ doubt = FALSE /\ submitted = {} /\ withdrawn = {}

-----------------------------------------------------------------------------
(* The Node                                                                *)

Becomes(n) ==
  /\ node' = n
  /\ resolved' = IF n.trial # NoTrial /\ ~Unresolved(n) THEN resolved \cup {n.trial} ELSE resolved

Prepares ==
  /\ ~Unresolved(node) /\ trials < MaxTrials
  /\ trials' = trials + 1
  /\ Becomes([node EXCEPT !.trial = trials + 1, !.origin = node.session, !.phase = "waiting",
                          !.offer = NoOffer, !.cleared = FALSE])
  /\ UNCHANGED offers

Moves(from, to) ==
  /\ Unresolved(node) /\ node.phase \in from
  /\ Becomes([node EXCEPT !.phase = to])
  /\ UNCHANGED <<trials, offers>>

Offers ==
  /\ Unresolved(node) /\ node.phase = "unknown" /\ offers < MaxOffers
  /\ offers' = offers + 1
  /\ Becomes([node EXCEPT !.offer = offers + 1])
  /\ UNCHANGED trials

Withdraws ==
  /\ node.offer # NoOffer
  /\ Becomes([node EXCEPT !.offer = NoOffer])
  /\ UNCHANGED <<trials, offers>>

Clears ==
  /\ Unresolved(node) /\ node.offer # NoOffer
  /\ Becomes([node EXCEPT !.cleared = TRUE])
  /\ UNCHANGED <<trials, offers>>

Stops ==
  \/ Moves({"waiting", "running"}, "stopping")
  \/ Moves({"waiting", "running", "stopping"}, "over")
  \/ Moves({"unknown", "stopping"}, "unknown")

\* A restarted Node retains an unresolved trial as unknown; a replaced one does not.
Restarts ==
  /\ node.session < MaxSessions
  /\ \/ Becomes([node EXCEPT !.session = @ + 1, !.offer = NoOffer,
                             !.phase = IF Unresolved(node) THEN "unknown" ELSE @])
     \/ Becomes([Blank EXCEPT !.session = node.session + 1])
  /\ UNCHANGED <<trials, offers>>

\* Other clients, the trial itself, and the Node's process.
NodeSteps ==
  /\ \/ Prepares \/ Offers \/ Clears \/ Stops \/ Restarts
     \/ Moves({"waiting"}, "running")
     \/ Moves({"running", "stopping"}, "unknown")
     \/ Moves({"unknown"}, "over")
     \/ Withdraws
  /\ UNCHANGED <<recoveryOnly, disposed, shown, recovery, attempts, reading, action, stop, history>>

NodeReads ==
  /\ reading # None
  /\ reading.reply = None
  /\ reading' = [reading EXCEPT !.reply = node]
  /\ UNCHANGED <<external, recoveryOnly, disposed, shown, recovery, attempts, action, stop, history>>

\* A request is served for the Node session, trial and offer it names; the client
\* accepts no other answer.
NodeActs ==
  /\ action # None
  /\ action.reply = None
  /\ action.kind = "recoveryStatus" \/ node.session = action.session
  /\ action.kind \in {"approve", "recoveryInspect", "recoveryConfirm"} => node.trial = action.trial
  /\ CASE action.kind = "prepare"         -> Prepares
       [] action.kind = "approve"         -> Moves({"waiting"}, "running")
       [] action.kind = "recoveryInspect" -> Offers
       [] action.kind = "recoveryConfirm" -> node.offer = action.offer /\ Clears
       [] OTHER                           -> UNCHANGED external
  /\ action' = [action EXCEPT !.reply = node']
  /\ UNCHANGED <<recoveryOnly, disposed, shown, recovery, attempts, reading, stop, history>>

\* The second request of a Stop withdraws the recovery that a restarted Node offers.
NodeStops ==
  /\ stop # None
  /\ stop.reply = None
  /\ node.trial = stop.trial
  /\ \/ /\ node.session = stop.session
        /\ Stops \/ (~Unresolved(node) /\ UNCHANGED external)
        /\ stop' = [stop EXCEPT !.reply = node']
     \/ /\ node.session = stop.other
        /\ Withdraws
        /\ UNCHANGED stop
  /\ UNCHANGED <<recoveryOnly, disposed, shown, recovery, attempts, reading, action, history>>

-----------------------------------------------------------------------------
(* What an answer may change                                               *)

\* assertGripperCheckMatches and assertGripperRecoveryMatches
Matches(next, expected) == next.session = expected.session /\ next.trial = expected.trial

RecoveryMatches(next, expected) ==
  next.phase = "unknown" /\ next.trial = expected.trial /\ next.origin = expected.origin

\* gripperRecoveryCleared
Cleared(next, expected) == next.cleared /\ RecoveryMatches(next, expected)

\* Mutant: a restarted Node may answer for the trial, or without it.
AdmissibleAnywhere(next) ==
  Unresolved(status) =>
    /\ status.phase = "unknown" => next.phase \in {"unknown", "none"}
    /\ status.phase = "running" => next.phase # "waiting"

\* An unresolved trial is replaced by a later answer about itself only; its
\* unknown outcome stays.
Admissible(next) ==
  Unresolved(status) =>
    /\ Matches(next, status)
    /\ status.phase = "unknown" => next.phase = "unknown"
    /\ status.phase = "running" => next.phase # "waiting"

TrialOf(s) == IF s = None THEN NoTrial ELSE s.trial

Show(next) ==
  /\ status' = next
  /\ available' = TRUE
  /\ uncertain' = FALSE

\* accept(), for an admissible answer; another trial drops the recovery shown.
Accept(next, retained) ==
  LET same    == TrialOf(status) = next.trial
      cleared == Cleared(next, IF status = None THEN next ELSE status)
  IN  /\ Show(next)
      /\ recoveryStatus' = CASE cleared -> next [] same /\ ~cleared -> retained [] OTHER -> None
      /\ recoveryAvailable' = (cleared \/ (same /\ recoveryAvailable))
      /\ requested' = IF same THEN requested ELSE 0

\* acceptRecovery()
AcceptRecovery(next) ==
  /\ recoveryStatus' = next
  /\ recoveryAvailable' = TRUE
  /\ IF Cleared(next, status) THEN Show(next) ELSE UNCHANGED shown

Invalidated ==
  /\ available' = FALSE
  /\ UNCHANGED <<status, uncertain>>

-----------------------------------------------------------------------------
(* refresh()                                                               *)

Refresh ==
  /\ ~disposed
  /\ reading = None /\ action = None /\ stop = None
  /\ reading' = [current |-> TRUE, doubted |-> doubt, reply |-> None]
  /\ UNCHANGED <<external, recoveryOnly, disposed, shown, recovery, attempts, action, stop, history>>

\* refreshRecovery(): an inspected offer is renewed while it is still the Node's.
OfferShown == recoveryAvailable /\ recoveryStatus.offer # NoOffer

Renewable(next) ==
  OfferShown => /\ RecoveryMatches(next, status)
                /\ next.session = recoveryStatus.session /\ next.offer = recoveryStatus.offer

\* Mutant: an answer about the trial releases a retained owner.
AdoptsRetained(next) == ~(OfferShown /\ next.session # status.session)

\* A retained owner is released by the recovery only, and the answer of a
\* restarted Node about the recovery does not stand for the original trial.
Adopts(next) == ~recoveryOnly /\ ~(OfferShown /\ next.session # status.session)

RefreshInvalidates(retained) ==
  /\ recoveryStatus' = retained
  /\ recoveryAvailable' = FALSE
  /\ Invalidated
  /\ UNCHANGED requested

RefreshShows(next) ==
  LET retained == IF OfferShown /\ Renewable(next) THEN next ELSE recoveryStatus
  IN  CASE ~Renewable(next) \/ (Adopts(next) /\ ~Admissible(next)) ->
             RefreshInvalidates(retained) /\ UNCHANGED doubt
        [] Renewable(next) /\ Adopts(next) /\ Admissible(next) ->
             Accept(next, retained) /\ doubt' = (doubt /\ ~reading.doubted)
        [] OTHER -> /\ recoveryStatus' = retained
                    /\ UNCHANGED <<shown, recoveryAvailable, requested, doubt>>

\* Mutant: the epoch of the read is not compared.
RefreshRepliesStale ==
  /\ reading # None
  /\ reading.reply # None
  /\ reading' = None
  /\ RefreshShows(reading.reply)
  /\ UNCHANGED <<external, recoveryOnly, disposed, attempts, action, stop, submitted, withdrawn>>

RefreshReplies ==
  /\ reading # None
  /\ reading.reply # None
  /\ reading' = None
  /\ IF reading.current THEN RefreshShows(reading.reply) ELSE UNCHANGED <<shown, recovery, doubt>>
  /\ UNCHANGED <<external, recoveryOnly, disposed, attempts, action, stop, submitted, withdrawn>>

RefreshFails ==
  /\ reading # None
  /\ reading' = None
  /\ IF reading.current THEN RefreshInvalidates(recoveryStatus) ELSE UNCHANGED <<shown, recovery>>
  /\ UNCHANGED <<external, recoveryOnly, disposed, attempts, action, stop, history>>

-----------------------------------------------------------------------------
(* action(): inspect, prepare, approve                                     *)

\* ++epoch for a read or an action under way
Superseded(r) == IF r = None THEN None ELSE [r EXCEPT !.current = FALSE]

Request(kind, session, offer) ==
  /\ action' = [kind |-> kind, current |-> TRUE, session |-> session, trial |-> status.trial,
                offer |-> offer, reply |-> None]
  /\ reading' = Superseded(reading)

\* A retained owner is given Stop and recovery only.
Begin(kind) ==
  /\ ~disposed /\ ~recoveryOnly
  /\ action = None /\ stop = None /\ available
  /\ Request(kind, status.session, NoOffer)
  /\ UNCHANGED <<external, recoveryOnly, disposed, shown, recovery, confirmed, stop, doubt, withdrawn>>

Inspect ==
  /\ Begin("inspect")
  /\ ~Unresolved(status) /\ ~uncertain
  /\ UNCHANGED <<attempted, submitted>>

Prepare ==
  /\ Begin("prepare")
  /\ ~Unresolved(status) /\ ~uncertain
  /\ UNCHANGED <<attempted, submitted>>

Approvable == status.trial # NoTrial /\ status.phase = "waiting" /\ ~uncertain

\* Mutant: the attempt is not remembered.
ApproveUnremembered ==
  /\ Begin("approve")
  /\ Approvable
  /\ <<status.session, status.trial>> \notin attempted
  /\ submitted' = submitted \cup {<<status.session, status.trial>>}
  /\ UNCHANGED attempted

Approve ==
  /\ Begin("approve")
  /\ Approvable
  /\ <<status.session, status.trial>> \notin attempted
  /\ attempted' = attempted \cup {<<status.session, status.trial>>}
  /\ submitted' = submitted \cup {<<status.session, status.trial>>}

RefusedRequest ==
  /\ uncertain' = (action.kind \in {"approve", "prepare"})
  /\ available' = FALSE
  /\ UNCHANGED <<status, recovery>>

RefusedRecovery ==
  /\ recoveryAvailable' = FALSE
  /\ UNCHANGED <<recoveryStatus, requested, shown>>

Recovering == {"recoveryStatus", "recoveryInspect", "recoveryConfirm"}

Refused ==
  /\ action' = None
  /\ doubt' = (doubt \/ action.kind = "prepare")
  /\ CASE ~action.current                   -> UNCHANGED <<shown, recovery>>
       [] action.current /\ action.kind \in Recovering -> RefusedRecovery
       [] OTHER                             -> RefusedRequest

ActionFails ==
  /\ action # None
  /\ Refused
  /\ UNCHANGED <<external, recoveryOnly, disposed, attempts, reading, stop, submitted, withdrawn>>

ActionReplies ==
  /\ action # None
  /\ action.reply # None
  /\ action.kind \notin Recovering
  /\ \/ action.current /\ ~Admissible(action.reply) /\ Refused
     \/ /\ action' = None
        /\ UNCHANGED doubt
        /\ \/ action.current /\ Admissible(action.reply) /\ Accept(action.reply, recoveryStatus)
           \/ ~action.current /\ UNCHANGED <<shown, recovery>>
  /\ UNCHANGED <<external, recoveryOnly, disposed, attempts, reading, stop, submitted, withdrawn>>

-----------------------------------------------------------------------------
(* action(): recoveryInspect, recoveryConfirm                              *)

Recover(kind, session, offer) ==
  /\ ~disposed
  /\ action = None /\ stop = None /\ Unresolved(status)
  /\ Request(kind, session, offer)
  /\ recoveryAvailable' = FALSE
  /\ UNCHANGED <<external, recoveryOnly, disposed, shown, recoveryStatus, attempted, stop, doubt, submitted>>

RecoveryInspect ==
  /\ Recover("recoveryStatus", status.session, NoOffer)
  /\ UNCHANGED <<requested, confirmed, withdrawn>>

OfferKey(s) == <<s.session, s.trial, s.offer>>

RecoveryConfirm ==
  /\ OfferShown /\ ~recoveryStatus.cleared
  /\ Recover("recoveryConfirm", recoveryStatus.session, recoveryStatus.offer)
  /\ RecoveryMatches(recoveryStatus, status)
  /\ OfferKey(recoveryStatus) \notin confirmed
  /\ confirmed' = confirmed \cup {OfferKey(recoveryStatus)}
  /\ requested' = recoveryStatus.session
  /\ withdrawn' = withdrawn \cup {recoveryStatus.offer}

\* The first answer of an inspection; the page may have moved on meanwhile (canAct).
RecoveryObserved ==
  /\ action # None
  /\ action.kind = "recoveryStatus" /\ action.reply # None
  /\ LET next == action.reply
     IN  \/ ~RecoveryMatches(next, status) /\ Refused
         \/ /\ RecoveryMatches(next, status)
            /\ action' = None
            /\ UNCHANGED <<shown, recovery, doubt>>
         \/ /\ RecoveryMatches(next, status) /\ action.current
            /\ requested' = next.session
            /\ UNCHANGED doubt
            /\ IF Cleared(next, status)
                 THEN action' = None /\ AcceptRecovery(next)
                 ELSE /\ action' = [action EXCEPT !.kind = "recoveryInspect", !.reply = None,
                                                  !.session = next.session]
                      /\ UNCHANGED <<shown, recoveryStatus, recoveryAvailable>>
  /\ UNCHANGED <<external, recoveryOnly, disposed, attempts, reading, stop, submitted, withdrawn>>

\* Mutant: the epoch of the request is not compared.
RecoveryRepliesStale ==
  /\ action # None
  /\ action.kind \in {"recoveryInspect", "recoveryConfirm"} /\ action.reply # None
  /\ \/ ~RecoveryMatches(action.reply, status) /\ Refused
     \/ /\ RecoveryMatches(action.reply, status) /\ AcceptRecovery(action.reply)
        /\ action' = None
        /\ UNCHANGED <<requested, doubt>>
  /\ UNCHANGED <<external, recoveryOnly, disposed, attempts, reading, stop, submitted, withdrawn>>

RecoveryReplies ==
  /\ action # None
  /\ action.kind \in {"recoveryInspect", "recoveryConfirm"} /\ action.reply # None
  /\ \/ action.current /\ ~RecoveryMatches(action.reply, status) /\ Refused
     \/ /\ action' = None
        /\ UNCHANGED <<requested, doubt>>
        /\ \/ action.current /\ RecoveryMatches(action.reply, status) /\ AcceptRecovery(action.reply)
           \/ ~action.current /\ UNCHANGED <<shown, recoveryStatus, recoveryAvailable>>
  /\ UNCHANGED <<external, recoveryOnly, disposed, attempts, reading, stop, submitted, withdrawn>>

-----------------------------------------------------------------------------
(* action(): stop; cancelRecovery(), dispose()                             *)

\* invalidateRecovery()
InvalidateRecovery ==
  /\ reading' = Superseded(reading) /\ action' = Superseded(action)
  /\ recoveryAvailable' = FALSE
  /\ withdrawn' = withdrawn \cup 1..offers
  /\ UNCHANGED <<recoveryStatus, requested>>

StopTrial ==
  /\ ~disposed /\ ~recoveryOnly
  /\ stop = None /\ Unresolved(status)
  /\ stop' = [session |-> status.session, trial |-> status.trial, reply |-> None,
              other |-> IF requested = status.session THEN 0 ELSE requested]
  /\ InvalidateRecovery
  /\ UNCHANGED <<external, recoveryOnly, disposed, shown, attempts, doubt, submitted>>

\* The Stop of a retained owner is sent by the service; the request of
\* cancelRecovery() may reach the Node at any time (Withdraws).
CancelRecovery ==
  /\ recoveryOnly
  /\ InvalidateRecovery
  /\ UNCHANGED <<external, recoveryOnly, disposed, shown, attempts, stop, doubt, submitted>>

StopUnconfirmed ==
  /\ uncertain' = TRUE
  /\ available' = FALSE
  /\ UNCHANGED <<status, recovery>>

\* A clearance is not an acknowledgement of Stop, and of two requests both must succeed.
StopReplies ==
  /\ stop # None
  /\ stop.reply # None
  /\ stop' = None
  /\ IF stop.other = 0 /\ ~Cleared(stop.reply, status) /\ Admissible(stop.reply)
       THEN Accept(stop.reply, recoveryStatus)
       ELSE StopUnconfirmed
  /\ UNCHANGED <<external, recoveryOnly, disposed, attempts, reading, action, history>>

StopFails ==
  /\ stop # None
  /\ stop' = None
  /\ StopUnconfirmed
  /\ UNCHANGED <<external, recoveryOnly, disposed, attempts, reading, action, history>>

Dispose ==
  /\ ~disposed
  /\ disposed' = TRUE
  /\ reading' = Superseded(reading) /\ action' = Superseded(action)
  /\ UNCHANGED <<external, recoveryOnly, shown, recovery, attempts, stop, history>>

Next ==
  \/ NodeSteps \/ NodeReads \/ NodeActs \/ NodeStops
  \/ Refresh \/ RefreshReplies \/ RefreshFails
  \/ Inspect \/ Prepare \/ Approve \/ ActionReplies \/ ActionFails
  \/ RecoveryInspect \/ RecoveryObserved \/ RecoveryConfirm \/ RecoveryReplies
  \/ StopTrial \/ StopReplies \/ StopFails \/ CancelRecovery \/ Dispose

Spec == Init /\ [][Next]_vars

-----------------------------------------------------------------------------
(* Properties                                                              *)

Rank(phase) ==
  CASE phase \in {"none", "waiting"} -> 0 [] phase = "running" -> 1 [] phase = "stopping" -> 2
    [] phase = "unknown" -> 3 [] phase = "over" -> 4

Sends(kind) == action = None /\ action' # None /\ action'.kind = kind

\* Whatever answers overtake one another, the trial shown never goes back to an
\* earlier phase: a read asked before an action or a Stop is dropped when it comes.
ShownNeverFalls ==
  [][TrialOf(status) # NoTrial /\ TrialOf(status') = TrialOf(status)
       => Rank(status'.phase) >= Rank(status.phase)]_vars

\* An unresolved trial keeps its owner until the Node itself has resolved it, over
\* a restarted or replaced Node, and one of unknown outcome until it is cleared
\* (operator-service/test/commissioning.test.js:231).
NeverReleased ==
  [][Unresolved(status) /\ ~Unresolved(status')
       => /\ status'.trial = status.trial /\ status.trial \in resolved'
          /\ status.phase = "unknown" => status'.cleared]_vars

\* The record of a retained owner changes to its own durable clearance only.
RetainedUntilCleared ==
  [][recoveryOnly /\ status' # status => Cleared(status', status)]_vars

\* A trial of one Node session is approved at most once, whatever becomes of the
\* request (operator-service/test/commissioning.test.js:249).
ApprovedOnce == [][Sends("approve") => <<status.session, status.trial>> \notin submitted]_vars

\* What an action relies on has not been overtaken.  After a prepare that was not
\* confirmed, none is sent before a status that was asked since has come; and what is
\* confirmed is an offer that was never confirmed before and that the Node made after
\* the last Stop, which no recovery undoes.
ActsOnFreshRead ==
  [][ /\ Sends("prepare") => ~doubt
      /\ Sends("recoveryConfirm") => action'.offer \notin withdrawn ]_vars
=============================================================================
