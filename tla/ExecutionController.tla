------------------------- MODULE ExecutionController -------------------------
(***************************************************************************)
(* The operator's execution channel (cli/src/harness/execution-            *)
(* controller.js): what it knows of the runs that a Node owns, from        *)
(* listings, exact reads and the answers to its own requests, which all    *)
(* overlap.  A refresh (status and listing, then an exact read of the      *)
(* selected run), one action and one Stop are in flight at a time; each    *)
(* may fail whether or not the Node has served it.                         *)
(*                                                                         *)
(* A version of a run is its revision with what the controller decides on: *)
(* waiting for approval, active, unknown, or needing no resolution.  The   *)
(* revision stands for the digest, which it determines.  `fresh` says that *)
(* the last refresh was available and is younger than MAX_READ_AGE.        *)
(***************************************************************************)
EXTENDS Integers, FiniteSets

CONSTANTS
  RunId,
  HistoryLimit,   \* how many runs are kept although they are resolved
  MaxRevision,    \* bound of the model: versions of one run
  None

ASSUME ExecutionAssumption ==
  HistoryLimit \in Nat \ {0} /\ MaxRevision \in Nat \ {0}

VARIABLES
  node,           \* external: the Node's runs
  disposed,
  runs,           \* the version known of each listed run
  run,            \* the selected run, with its version
  receipt,        \* the run version that the shown receipt seals
  fresh,
  reading,        \* readPending: the refresh in flight
  action,         \* actionPending, with the request it waits for
  stop            \* stopPending, with the request it waits for

known == <<runs, run, receipt>>
vars  == <<node, disposed, known, fresh, reading, action, stop>>

Version == [rev : 1..MaxRevision, phase : {"waiting", "active", "unknown", "done"}]
Book    == UNION {[S -> Version] : S \in SUBSET RunId}
Named   == [id : RunId, rev : 1..MaxRevision, phase : {"waiting", "active", "unknown", "done"}]

\* No selected run is no run.
ASSUME NoneAssumption == None \notin Named

Refresh == [stage : {"listed", "exact", "read"}, listing : Book, id : RunId \cup {None},
            reply : Version \cup {None}]
Action  == [kind : {"prepare", "select", "receipt", "approve", "reconcile"},
            id : RunId \cup {None}, rev : 0..MaxRevision, reply : Version \cup {None}]
Stop    == [id : RunId, reply : Version \cup {None}]

TypeOK ==
  /\ node \in Book /\ disposed \in BOOLEAN
  /\ runs \in Book
  /\ run \in Named \cup {None}
  /\ receipt \in [id : RunId, rev : 1..MaxRevision] \cup {None}
  /\ fresh \in BOOLEAN
  /\ reading = None \/ reading \in Refresh
  /\ action \in Action \cup {None}
  /\ stop \in Stop \cup {None}

Empty == [i \in {} |-> None]

Init ==
  /\ node = Empty /\ disposed = FALSE
  /\ runs = Empty /\ run = None /\ receipt = None
  /\ fresh = FALSE
  /\ reading = None /\ action = None /\ stop = None

-----------------------------------------------------------------------------
(* The Node                                                                *)

With(book, i, v) == [j \in DOMAIN book \cup {i} |-> IF j = i THEN v ELSE book[j]]

NodeMoves(i, phase) ==
  /\ node[i].rev < MaxRevision
  /\ node' = With(node, i, [rev |-> node[i].rev + 1, phase |-> phase])

\* Another client prepares, and runs go on: approved, settled, lost, reconciled.
NodeRun(i) ==
  /\ \/ i \notin DOMAIN node /\ node' = With(node, i, [rev |-> 1, phase |-> "waiting"])
     \/ /\ i \in DOMAIN node
        /\ \/ node[i].phase = "waiting" /\ NodeMoves(i, "active")
           \/ node[i].phase \in {"waiting", "active"} /\ NodeMoves(i, "unknown")
           \/ node[i].phase # "done" /\ NodeMoves(i, "done")
  /\ UNCHANGED <<disposed, known, fresh, reading, action, stop>>

NodeReads ==
  /\ reading # None
  /\ reading.stage = "exact"
  /\ reading' = [reading EXCEPT !.stage = "read", !.reply = node[reading.id]]
  /\ UNCHANGED <<node, disposed, known, fresh, action, stop>>

\* An approval or a reconciliation is served for the exact version it names.
NodeActs(i) ==
  /\ action # None
  /\ action.reply = None
  /\ \/ /\ action.kind = "prepare" /\ i \notin DOMAIN node
        /\ node' = With(node, i, [rev |-> 1, phase |-> "waiting"])
     \/ /\ action.kind \in {"select", "receipt"} /\ i = action.id
        /\ UNCHANGED node
     \/ /\ action.kind \in {"approve", "reconcile"} /\ i = action.id
        /\ node[i].rev = action.rev
        /\ NodeMoves(i, IF action.kind = "approve" THEN "active" ELSE "done")
  /\ action' = [action EXCEPT !.id = i, !.rev = 0, !.reply = node'[i]]
  /\ UNCHANGED <<disposed, known, fresh, reading, stop>>

NodeStops ==
  /\ stop # None
  /\ stop.reply = None
  /\ IF node[stop.id].phase = "done"
       THEN UNCHANGED node
       ELSE \/ NodeMoves(stop.id, "done")
            \/ node[stop.id].phase # "unknown" /\ NodeMoves(stop.id, "unknown")
  /\ stop' = [stop EXCEPT !.reply = node'[stop.id]]
  /\ UNCHANGED <<disposed, known, fresh, reading, action>>

-----------------------------------------------------------------------------
(* What is known of the runs                                               *)

NeedsResolution(v) == v.phase # "done"

Select(i, v) == [id |-> i, rev |-> v.rev, phase |-> v.phase]
VersionOf(r) == [rev |-> r.rev, phase |-> r.phase]

\* unresolvedRuns(): for the selected run its own version counts.
Unresolved ==
  {i \in DOMAIN runs : NeedsResolution(runs[i])}
    \cup IF run # None /\ NeedsResolution(run) THEN {run.id} ELSE {}

\* Mutant: whatever answers last is taken.
NewerAlways(selected, i, v) == TRUE

\* "A slow poll cannot replace a newer stop/approval result."
Newer(selected, i, v) ==
  CASE selected # None /\ selected.id = i -> v.rev >= selected.rev
    [] ~(selected # None /\ selected.id = i) /\ i \in DOMAIN runs -> v.rev >= runs[i].rev
    [] OTHER -> TRUE

\* Mutant: the receipt stays with the view when the run moves on.
ReceiptKept(i, v) == receipt

\* The receipt that is left once version v of run i is shown.
ReceiptFor(i, v) == IF receipt = [id |-> i, rev |-> v.rev] THEN receipt ELSE None

\* acceptRun once the version is newer: select it and put it first in the history, which
\* keeps of the runs past its limit the unresolved ones.  The order of the others is free.
Remember(i, v) ==
  /\ run' = Select(i, v)
  /\ LET all == With(runs, i, v) IN
     \E past \in SUBSET (DOMAIN all \ {i}) :
       /\ Cardinality(DOMAIN all \ past) = IF Cardinality(DOMAIN all) < HistoryLimit
                                            THEN Cardinality(DOMAIN all) ELSE HistoryLimit
       /\ runs' = [j \in DOMAIN all \ {k \in past : ~NeedsResolution(all[k])} |-> all[j]]

AcceptRun(i, v) ==
  IF Newer(run, i, v) THEN Remember(i, v) /\ receipt' = ReceiptFor(i, v)
                      ELSE UNCHANGED known

-----------------------------------------------------------------------------
(* refresh()                                                               *)

\* What a refresh makes of a listing depends on when the Node answered, not on when
\* it was asked.  A listing is bounded: it may leave runs out.
RefreshAsks ==
  /\ ~disposed
  /\ reading = None
  /\ \E listed \in SUBSET DOMAIN node :
       reading' = [stage |-> "listed", listing |-> [i \in listed |-> node[i]], id |-> None,
                   reply |-> None]
  /\ UNCHANGED <<node, disposed, known, fresh, action, stop>>

\* Mutant: a run that the listing leaves out is gone.
MergeListed(listing) ==
  [i \in DOMAIN listing \cup (IF run = None THEN {} ELSE {run.id}) |->
     IF i \in DOMAIN listing THEN listing[i] ELSE VersionOf(run)]

\* A listing replaces older versions; it cannot release a known invocation.
Merge(listing) ==
  LET retained == {i \in DOMAIN runs : NeedsResolution(runs[i])}
      selected == IF run = None THEN {} ELSE {run.id}
  IN  [i \in DOMAIN listing \cup retained \cup selected |->
         CASE i \in DOMAIN listing -> IF i \in DOMAIN runs /\ listing[i].rev < runs[i].rev
                                        THEN runs[i] ELSE listing[i]
           [] i \notin DOMAIN listing /\ i \in retained -> runs[i]
           [] OTHER -> VersionOf(run)]

\* The status that came with the listing says whether execution is available.
Refreshed ==
  /\ reading' = None
  /\ fresh' \in BOOLEAN

\* The listing is merged; with no run selected an unresolved one is.
RefreshLists ==
  /\ reading # None
  /\ reading.stage = "listed"
  /\ IF disposed
       THEN reading' = None /\ UNCHANGED <<known, fresh>>
       ELSE /\ runs' = Merge(reading.listing)
            /\ LET open == {i \in DOMAIN runs' : NeedsResolution(runs'[i])} IN
               IF run # None THEN UNCHANGED run
               ELSE IF open = {} THEN run' = None
               ELSE \E i \in open : run' = Select(i, runs'[i])
            /\ UNCHANGED receipt
            /\ IF run' = None
                 THEN Refreshed
                 ELSE /\ reading' = [reading EXCEPT !.stage = "exact", !.id = run'.id, !.listing = Empty]
                      /\ UNCHANGED fresh
  /\ UNCHANGED <<node, disposed, action, stop>>

\* The exact read counts for the run that is still selected.
RefreshReads ==
  /\ reading # None
  /\ reading.stage = "read"
  /\ IF disposed
       THEN reading' = None /\ UNCHANGED <<known, fresh>>
       ELSE /\ IF run # None /\ run.id = reading.id THEN AcceptRun(run.id, reading.reply)
                                                    ELSE UNCHANGED known
            /\ Refreshed
  /\ UNCHANGED <<node, disposed, action, stop>>

RefreshFails ==
  /\ reading # None
  /\ reading' = None
  /\ fresh' = (fresh /\ disposed)
  /\ UNCHANGED <<node, disposed, known, action, stop>>

\* Five seconds pass since the last refresh.
Age ==
  /\ fresh
  /\ fresh' = FALSE
  /\ UNCHANGED <<node, disposed, known, reading, action, stop>>

-----------------------------------------------------------------------------
(* The operator's requests                                                 *)

Idle == ~disposed /\ action = None /\ stop = None

Ask(kind, i, rev) ==
  /\ action' = [kind |-> kind, id |-> i, rev |-> rev, reply |-> None]
  /\ UNCHANGED <<node, disposed, known, fresh, reading, stop>>

\* canPrepare, in a workcell that offers a route and a configuration.
Prepare == Idle /\ fresh /\ Unresolved = {} /\ Ask("prepare", None, 0)

SelectRun(i) == Idle /\ i \in DOMAIN runs /\ Ask("select", i, 0)

ReadReceipt(i) == Idle /\ i \in DOMAIN runs /\ Ask("receipt", i, 0)

\* approvalReady and canReconcile; the operator names the version reviewed.
Approve   == Idle /\ fresh /\ run # None /\ run.phase = "waiting" /\ Ask("approve", run.id, run.rev)
Reconcile == Idle /\ fresh /\ run # None /\ run.phase = "unknown" /\ Ask("reconcile", run.id, run.rev)

\* The prepared run is selected, unless a refresh has seen a later version of it.
Prepared(i, v) ==
  /\ IF Newer(None, i, v) THEN Remember(i, v) ELSE run' = None /\ UNCHANGED runs
  /\ receipt' = None

\* A later version that a refresh brought while the read was in flight wins.
Selected(i, v) ==
  LET latest == IF i \in DOMAIN runs /\ runs[i].rev > v.rev THEN runs[i] ELSE v
  IN  /\ IF Newer(run, i, latest) THEN Remember(i, latest) ELSE UNCHANGED <<runs, run>>
      /\ receipt' = None

Received(i, v) ==
  IF run # None /\ run.id = i /\ Newer(run, i, v)
    THEN Remember(i, v) /\ receipt' = [id |-> i, rev |-> v.rev]
    ELSE UNCHANGED known

Acted(i, v) == IF run # None /\ run.id = i THEN AcceptRun(i, v) ELSE UNCHANGED known

ActionReplies ==
  /\ action # None
  /\ action.reply # None
  /\ action' = None
  /\ IF disposed THEN UNCHANGED known
     ELSE CASE action.kind = "prepare" -> Prepared(action.id, action.reply)
            [] action.kind = "select"  -> Selected(action.id, action.reply)
            [] action.kind = "receipt" -> Received(action.id, action.reply)
            [] OTHER                   -> Acted(action.id, action.reply)
  /\ UNCHANGED <<node, disposed, fresh, reading, stop>>

\* Mutant: a failed read of a run or a receipt leaves the action pending.
ActionFailsWritesOnly ==
  /\ action # None
  /\ action.kind \notin {"select", "receipt"}
  /\ action' = None
  /\ fresh' = (fresh /\ disposed)
  /\ UNCHANGED <<node, disposed, known, reading, stop>>

\* A failed write makes the view unavailable: "Refresh run history before
\* attempting another preparation."
ActionFails ==
  /\ action # None
  /\ action' = None
  /\ fresh' = (fresh /\ (disposed \/ action.kind \in {"select", "receipt"}))
  /\ UNCHANGED <<node, disposed, known, reading, stop>>

\* Stop waits for no action and no refresh.
StopRun(i) ==
  /\ ~disposed
  /\ stop = None
  /\ \/ run # None /\ run.id = i /\ NeedsResolution(run)
     \/ ~(run # None /\ run.id = i) /\ i \in DOMAIN runs /\ NeedsResolution(runs[i])
  /\ stop' = [id |-> i, reply |-> None]
  /\ UNCHANGED <<node, disposed, known, fresh, reading, action>>

\* The answer for another run than the selected one keeps selection and receipt.
StopReplies ==
  /\ stop # None
  /\ stop.reply # None
  /\ stop' = None
  /\ LET i == stop.id IN
     IF ~disposed /\ run # None /\ run.id = i THEN AcceptRun(i, stop.reply)
     ELSE IF ~disposed /\ i \in DOMAIN runs /\ stop.reply.rev >= runs[i].rev
       THEN runs' = With(runs, i, stop.reply) /\ UNCHANGED <<run, receipt>>
       ELSE UNCHANGED known
  /\ UNCHANGED <<node, disposed, fresh, reading, action>>

StopFails ==
  /\ stop # None
  /\ stop' = None
  /\ fresh' = (fresh /\ disposed)
  /\ UNCHANGED <<node, disposed, known, reading, action>>

Dispose ==
  /\ ~disposed
  /\ disposed' = TRUE
  /\ UNCHANGED <<node, known, fresh, reading, action, stop>>

-----------------------------------------------------------------------------

Next ==
  \/ NodeReads \/ NodeStops
  \/ \E i \in RunId : \/ NodeRun(i) \/ NodeActs(i)
                      \/ SelectRun(i) \/ ReadReceipt(i) \/ StopRun(i)
  \/ RefreshAsks \/ RefreshLists \/ RefreshReads \/ RefreshFails \/ Age
  \/ Prepare \/ Approve \/ Reconcile \/ ActionReplies \/ ActionFails
  \/ StopReplies \/ StopFails \/ Dispose

\* Each request ends within five seconds; the Node is not assumed to answer.
Spec == Init /\ [][Next]_vars
             /\ WF_vars(ActionReplies \/ ActionFails) /\ WF_vars(StopReplies \/ StopFails)

-----------------------------------------------------------------------------
(* Properties                                                              *)

\* An invocation that is shown as unresolved stays so until the Node itself has
\* resolved it, whatever listings leave out and answers overtake one another.
NeverReleasedUnresolved ==
  [][\A i \in Unresolved : i \in Unresolved' \/ node[i].phase = "done"]_vars

\* The selected run never goes back to an earlier version.
SelectedNeverFalls ==
  [][run # None /\ run' # None /\ run'.id = run.id => run'.rev >= run.rev]_vars

\* A receipt is shown for the selected run in the version it seals, and for no
\* other.
ReceiptMatchesRun == receipt # None => run # None /\ receipt = [id |-> run.id, rev |-> run.rev]

\* No request blocks the operator's next one for ever.
PendingEnds == [](action # None => <>(action = None)) /\ [](stop # None => <>(stop = None))
=============================================================================
