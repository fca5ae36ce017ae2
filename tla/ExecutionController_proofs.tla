----------------------- MODULE ExecutionController_proofs -----------------------
(***************************************************************************)
(* Proofs about ExecutionController: its types, that a receipt is shown for *)
(* the version it seals, that the selected run never goes back, and that an *)
(* unresolved invocation is released only by the Node, for any runs,        *)
(* history limit and number of versions.                                   *)
(***************************************************************************)
EXTENDS ExecutionController, TLAPS

\* What is known of a run is not ahead of the Node's book, agrees with it in the same
\* version, and is final once it needs no resolution.
Behind(book, i, v) ==
  /\ i \in DOMAIN book
  /\ v.rev <= book[i].rev
  /\ v.rev = book[i].rev => v.phase = book[i].phase
  /\ v.phase = "done" => v.rev = book[i].rev

\* What is shown came from the Node.
ShownInv ==
  /\ \A i \in DOMAIN runs : Behind(node, i, runs[i])
  /\ run # None => Behind(node, run.id, run)

\* So do the answers of the refresh in flight ...
ReadingInv ==
  reading # None =>
    /\ \A i \in DOMAIN reading.listing : Behind(node, i, reading.listing[i])
    /\ reading.stage \in {"exact", "read"} => reading.id \in DOMAIN node
    /\ reading.stage = "read" => reading.reply \in Version /\ Behind(node, reading.id, reading.reply)

\* The phase of the version that an approval or a reconciliation names.
Awaited(kind) == IF kind = "approve" THEN "waiting" ELSE "unknown"

\* ... of the action, whose write names a version that waits for it ...
ActionInv ==
  action # None =>
    /\ action.kind # "prepare" => action.id \in DOMAIN node
    /\ action.kind \in {"approve", "reconcile"} /\ action.reply = None =>
         /\ action.rev <= node[action.id].rev
         /\ action.rev = node[action.id].rev => node[action.id].phase = Awaited(action.kind)
    /\ action.reply # None => Behind(node, action.id, action.reply)

\* ... and of the Stop.
StopInv ==
  stop # None =>
    /\ stop.id \in DOMAIN node
    /\ stop.reply # None => Behind(node, stop.id, stop.reply)

\* The selected run is in the list, in no earlier version.
SelectedInv == run # None => run.id \in DOMAIN runs /\ runs[run.id].rev >= run.rev

IInv ==
  /\ TypeOK /\ ShownInv /\ ReadingInv /\ ActionInv /\ StopInv /\ SelectedInv /\ ReceiptMatchesRun

-----------------------------------------------------------------------------
(* Books of runs                                                           *)

\* A book is a function from runs to versions.
LEMMA BookType ==
  ASSUME NEW f
  PROVE  f \in Book <=> DOMAIN f \subseteq RunId /\ f \in [DOMAIN f -> Version]
BY DEF Book

\* The fields of a version.
LEMMA VersionFields ==
  ASSUME NEW v \in Version
  PROVE  v.rev \in 1..MaxRevision /\ v.phase \in {"waiting", "active", "unknown", "done"}
BY DEF Version

\* With() changes one run and nothing else.
LEMMA WithFacts ==
  ASSUME NEW book \in Book, NEW i \in RunId, NEW v \in Version
  PROVE  /\ With(book, i, v) \in Book /\ DOMAIN With(book, i, v) = DOMAIN book \cup {i}
         /\ With(book, i, v)[i] = v
         /\ \A j \in DOMAIN book : j # i => With(book, i, v)[j] = book[j]
<1> DEFINE w == With(book, i, v)
<1>1. DOMAIN book \subseteq RunId /\ book \in [DOMAIN book -> Version]
  BY BookType
<1>2. /\ DOMAIN w = DOMAIN book \cup {i} /\ w[i] = v
      /\ \A j \in DOMAIN book : j # i => w[j] = book[j]
  BY DEF With
<1>3. w \in [DOMAIN w -> Version]
  BY <1>1 DEF With
<1> HIDE DEF w
<1>4. w \in Book
  BY <1>1, <1>2, <1>3, BookType
<1> QED BY <1>2, <1>4 DEF w

\* The same of a book that is known to be With().
LEMMA WithIs ==
  ASSUME NEW book, NEW i, NEW v, NEW w,
         book \in Book, i \in RunId, v \in Version, w = With(book, i, v)
  PROVE  /\ w \in Book /\ DOMAIN w = DOMAIN book \cup {i} /\ w[i] = v
         /\ \A j \in DOMAIN book : j # i => w[j] = book[j]
<1>1. DOMAIN book \subseteq RunId /\ book \in [DOMAIN book -> Version]
  BY BookType
<1>2. /\ DOMAIN w = DOMAIN book \cup {i} /\ w[i] = v
      /\ \A j \in DOMAIN book : j # i => w[j] = book[j]
  BY DEF With
<1>3. w \in [DOMAIN w -> Version]
  BY <1>1 DEF With
<1> QED BY <1>1, <1>2, <1>3, BookType

\* Selecting a version, and the version of a selected run.
LEMMA SelectFacts ==
  /\ \A i \in RunId, v \in Version :
       /\ Select(i, v) \in Named /\ Select(i, v).id = i
       /\ Select(i, v).rev = v.rev /\ Select(i, v).phase = v.phase
  /\ \A r \in Named : /\ VersionOf(r) \in Version /\ VersionOf(r).rev = r.rev
                      /\ VersionOf(r).phase = r.phase
BY DEF Select, VersionOf, Named, Version

-----------------------------------------------------------------------------
(* The Node                                                                *)

\* A run moves on from an unfinished version to a later one, and is never forgotten.
Grows ==
  \A i \in DOMAIN node :
    /\ i \in DOMAIN node'
    /\ node'[i] = node[i] \/ (node[i].phase # "done" /\ node'[i].rev > node[i].rev)

\* What is behind the Node stays behind it.
LEMMA BehindGrows ==
  ASSUME node \in Book, node' \in Book, Grows, NEW i, NEW v, v.rev \in 1..MaxRevision,
         Behind(node, i, v)
  PROVE  Behind(node', i, v)
<1>1. i \in DOMAIN node /\ i \in DOMAIN node'
  BY DEF Behind, Grows
<1>2. node[i] \in Version /\ node'[i] \in Version
  BY <1>1, BookType
<1>3. node[i].rev \in 1..MaxRevision /\ node'[i].rev \in 1..MaxRevision
  BY <1>2, VersionFields
<1>4. CASE node'[i] = node[i]
  BY <1>1, <1>4 DEF Behind
<1>5. CASE node[i].phase # "done" /\ node'[i].rev > node[i].rev
  BY <1>1, <1>3, <1>5 DEF Behind
<1> QED BY <1>1, <1>4, <1>5 DEF Grows

\* A new run, and a run that moves.
LEMMA NodeGrows ==
  ASSUME node \in Book, NEW i \in RunId,
         \/ i \notin DOMAIN node /\ node' = With(node, i, [rev |-> 1, phase |-> "waiting"])
         \/ /\ i \in DOMAIN node /\ node[i].phase # "done"
            /\ \E phase \in {"active", "unknown", "done"} : NodeMoves(i, phase)
         \/ node' = node
  PROVE  node' \in Book /\ Grows /\ (node' # node => i \in DOMAIN node')
<1>1. CASE i \notin DOMAIN node /\ node' = With(node, i, [rev |-> 1, phase |-> "waiting"])
  <2>1. [rev |-> 1, phase |-> "waiting"] \in Version
    BY ExecutionAssumption DEF Version
  <2>2. /\ node' \in Book /\ DOMAIN node' = DOMAIN node \cup {i}
        /\ \A j \in DOMAIN node : j # i => node'[j] = node[j]
    BY <1>1, <2>1, WithFacts
  <2> QED BY <1>1, <2>2 DEF Grows
<1>2. CASE /\ i \in DOMAIN node /\ node[i].phase # "done"
           /\ \E phase \in {"active", "unknown", "done"} : NodeMoves(i, phase)
  <2>1. PICK phase \in {"active", "unknown", "done"} : NodeMoves(i, phase)
    BY <1>2
  <2>2. PICK v : v = [rev |-> node[i].rev + 1, phase |-> phase]
    OBVIOUS
  <2>3. node[i].rev \in 1..MaxRevision
    BY <1>2, BookType, VersionFields
  <2>4. v \in Version /\ v.rev = node[i].rev + 1 /\ node' = With(node, i, v)
    BY <2>1, <2>2, <2>3, ExecutionAssumption DEF NodeMoves, Version
  <2>5. /\ node' \in Book /\ DOMAIN node' = DOMAIN node \cup {i} /\ node'[i] = v
        /\ \A j \in DOMAIN node : j # i => node'[j] = node[j]
    BY <2>4, WithFacts
  <2> QED BY <1>2, <2>3, <2>4, <2>5 DEF Grows
<1>3. CASE node' = node
  BY <1>3 DEF Grows
<1> QED BY <1>1, <1>2, <1>3

\* What is known and what is in flight stay behind the Node while it moves.
LEMMA NodeKeeps ==
  ASSUME IInv, node' \in Book, Grows, disposed' \in BOOLEAN, fresh' \in BOOLEAN,
         UNCHANGED known
  PROVE  /\ ShownInv' /\ SelectedInv' /\ ReceiptMatchesRun'
         /\ reading' = reading => ReadingInv'
         /\ action' = action => ActionInv'
         /\ stop' = stop => StopInv'
<1>0. /\ runs' = runs /\ run' = run /\ receipt' = receipt
      /\ node \in Book /\ runs \in Book /\ run \in Named \cup {None}
      /\ reading = None \/ reading \in Refresh
      /\ action \in Action \cup {None} /\ stop \in Stop \cup {None}
  BY DEF known, IInv, TypeOK
<1>1. \A i, v : v.rev \in 1..MaxRevision /\ Behind(node, i, v) => Behind(node', i, v)
  BY <1>0, BehindGrows
<1>2. \A book \in Book : \A i \in DOMAIN book : book[i].rev \in 1..MaxRevision
  BY BookType, VersionFields
<1>3. ShownInv'
  <2>1. run # None => run.rev \in 1..MaxRevision
    BY <1>0 DEF Named
  <2> QED BY <1>0, <1>1, <1>2, <2>1 DEF IInv, ShownInv
<1>4. SelectedInv' /\ ReceiptMatchesRun'
  BY <1>0 DEF IInv, SelectedInv, ReceiptMatchesRun
<1>5. ASSUME reading' = reading, reading # None PROVE ReadingInv'
  <2>1. reading.listing \in Book
    BY <1>0, <1>5 DEF Refresh
  <2>2. \A i \in DOMAIN reading.listing : Behind(node', i, reading.listing[i])
    BY <1>1, <1>2, <1>5, <2>1 DEF IInv, ReadingInv
  <2>3. reading.stage \in {"exact", "read"} => reading.id \in DOMAIN node'
    BY <1>5 DEF IInv, ReadingInv, Grows
  <2>4. reading.stage = "read" => reading.reply \in Version /\ Behind(node', reading.id, reading.reply)
    BY <1>1, <1>5, VersionFields DEF IInv, ReadingInv
  <2> QED BY <1>5, <2>2, <2>3, <2>4 DEF ReadingInv
<1>6. ASSUME action' = action, action # None PROVE ActionInv'
  <2>1. action.reply \in Version \cup {None} /\ action.rev \in 0..MaxRevision
    BY <1>0, <1>6 DEF Action
  <2>2. action.kind # "prepare" => action.id \in DOMAIN node'
    BY <1>6 DEF IInv, ActionInv, Grows
  <2>3. action.reply # None => Behind(node', action.id, action.reply)
    BY <1>1, <1>6, <2>1, VersionFields DEF IInv, ActionInv
  <2>4. action.kind \in {"approve", "reconcile"} /\ action.reply = None =>
          /\ action.rev <= node'[action.id].rev
          /\ action.rev = node'[action.id].rev => node'[action.id].phase = Awaited(action.kind)
    <3> SUFFICES ASSUME action.kind \in {"approve", "reconcile"}, action.reply = None
                 PROVE  /\ action.rev <= node'[action.id].rev
                        /\ action.rev = node'[action.id].rev => node'[action.id].phase = Awaited(action.kind)
      OBVIOUS
    <3>1. /\ action.id \in DOMAIN node /\ action.rev <= node[action.id].rev
          /\ action.rev = node[action.id].rev => node[action.id].phase = Awaited(action.kind)
      BY <1>6 DEF IInv, ActionInv
    <3>2. node[action.id].rev \in 1..MaxRevision /\ node'[action.id].rev \in 1..MaxRevision
      BY <1>0, <1>2, <2>2, <3>1
    <3>3. \/ node'[action.id] = node[action.id] \/ node'[action.id].rev > node[action.id].rev
      BY <3>1 DEF Grows
    <3> QED BY <2>1, <3>1, <3>2, <3>3
  <2> QED BY <1>6, <2>2, <2>3, <2>4 DEF ActionInv
<1>7. ASSUME stop' = stop, stop # None PROVE StopInv'
  <2>1. stop.reply \in Version \cup {None}
    BY <1>0, <1>7 DEF Stop
  <2>2. stop.id \in DOMAIN node'
    BY <1>7 DEF IInv, StopInv, Grows
  <2>3. stop.reply # None => Behind(node', stop.id, stop.reply)
    BY <1>1, <1>7, <2>1, VersionFields DEF IInv, StopInv
  <2> QED BY <1>7, <2>2, <2>3 DEF StopInv
<1>8. /\ reading' = reading /\ reading = None => ReadingInv'
      /\ action' = action /\ action = None => ActionInv'
      /\ stop' = stop /\ stop = None => StopInv'
  BY DEF ReadingInv, ActionInv, StopInv
<1> QED BY <1>3, <1>4, <1>5, <1>6, <1>7, <1>8

-----------------------------------------------------------------------------
(* What is known of the runs                                               *)

\* The selected run does not go back, and a run that was unresolved still is, or the
\* Node has resolved it.
NotFalling == run # None /\ run' # None /\ run'.id = run.id => run'.rev >= run.rev
NotReleased == \A i \in Unresolved : i \in Unresolved' \/ node[i].phase = "done"

\* A good step of runs, run and receipt.
KnownStep ==
  /\ runs' \in Book /\ run' \in Named \cup {None}
  /\ receipt' \in [id : RunId, rev : 1..MaxRevision] \cup {None}
  /\ ShownInv' /\ SelectedInv' /\ ReceiptMatchesRun'
  /\ NotFalling /\ NotReleased

\* The types of what is shown.
LEMMA ShownTypes ==
  ASSUME IInv
  PROVE  /\ node \in Book /\ runs \in Book /\ run \in Named \cup {None}
         /\ receipt \in [id : RunId, rev : 1..MaxRevision] \cup {None}
         /\ \A j \in DOMAIN node : j \in RunId /\ node[j] \in Version /\ node[j].rev \in 1..MaxRevision
         /\ \A j \in DOMAIN runs : j \in RunId /\ runs[j] \in Version /\ runs[j].rev \in 1..MaxRevision
         /\ run # None => run \in Named /\ run.id \in RunId /\ run.rev \in 1..MaxRevision
<1>1. /\ node \in Book /\ runs \in Book /\ run \in Named \cup {None}
      /\ receipt \in [id : RunId, rev : 1..MaxRevision] \cup {None}
  BY DEF IInv, TypeOK
<1>2. \A book \in Book : \A j \in DOMAIN book : j \in RunId /\ book[j] \in Version
  BY BookType
<1>3. run # None => run \in Named /\ run.id \in RunId /\ run.rev \in 1..MaxRevision
  BY <1>1 DEF Named
<1> QED BY <1>1, <1>2, <1>3, VersionFields

\* A run that was unresolved is in the list, where it is unresolved or the Node has
\* resolved it.
LEMMA UnresolvedIsListed ==
  ASSUME IInv, NEW i \in Unresolved
  PROVE  i \in DOMAIN runs /\ (runs[i].phase # "done" \/ node[i].phase = "done")
<1>1. i \in DOMAIN runs
  BY DEF IInv, SelectedInv, Unresolved
<1>2. Behind(node, i, runs[i])
  BY <1>1 DEF IInv, ShownInv
<1> QED BY <1>1, <1>2 DEF Behind

\* A list that keeps its unresolved runs releases none that the Node has not resolved.
LEMMA ReleasedOnlyByNode ==
  ASSUME IInv, node' = node, ShownInv',
         \A j \in DOMAIN runs : runs[j].phase # "done" => j \in DOMAIN runs'
  PROVE  NotReleased
<1> SUFFICES ASSUME NEW i \in Unresolved, node[i].phase # "done"
             PROVE  i \in Unresolved'
  BY DEF NotReleased
<1>1. i \in DOMAIN runs'
  BY UnresolvedIsListed
<1>2. Behind(node, i, runs'[i])
  BY <1>1 DEF ShownInv
<1>3. runs'[i].phase # "done"
  BY <1>2 DEF Behind
<1>4. Unresolved' = {j \in DOMAIN runs' : runs'[j].phase # "done"}
          \cup IF run' # None /\ run'.phase # "done" THEN {run'.id} ELSE {}
  BY DEF Unresolved, NeedsResolution
<1> QED BY <1>1, <1>3, <1>4

\* Nothing is shown that was not, and the receipt is kept or dropped.
LEMMA KnownKept ==
  ASSUME IInv, node' = node, runs' = runs, run' = run \/ (run' = None /\ receipt' = None),
         receipt' \in {receipt, None}
  PROVE  KnownStep
<1>1. /\ runs' \in Book /\ run' \in Named \cup {None}
      /\ receipt' \in [id : RunId, rev : 1..MaxRevision] \cup {None}
  BY ShownTypes
<1>2. ShownInv' /\ SelectedInv' /\ ReceiptMatchesRun'
  BY DEF IInv, ShownInv, SelectedInv, ReceiptMatchesRun
<1>3. NotFalling
  BY ShownTypes DEF NotFalling
<1> QED BY <1>1, <1>2, <1>3, ReleasedOnlyByNode DEF KnownStep

\* Remember() shows a version that the Node has had, and drops resolved runs only.
LEMMA Remembers ==
  ASSUME IInv, node' = node, NEW i \in RunId, NEW v \in Version, Behind(node, i, v),
         Remember(i, v)
  PROVE  /\ runs' \in Book /\ run' \in Named
         /\ run'.id = i /\ run'.rev = v.rev
         /\ ShownInv' /\ SelectedInv' /\ NotReleased
<1>1. PICK all : all = With(runs, i, v)
  OBVIOUS
<1>2. /\ all \in Book /\ DOMAIN all = DOMAIN runs \cup {i} /\ all[i] = v
      /\ \A j \in DOMAIN runs : j # i => all[j] = runs[j]
  <2>1. runs \in Book
    BY ShownTypes
  <2>2. v \in Version /\ i \in RunId
    OBVIOUS
  <2> QED BY ONLY <1>1, <2>1, <2>2, WithIs
<1>3. PICK dropped \in SUBSET {j \in DOMAIN all \ {i} : ~NeedsResolution(all[j])} :
        runs' = [j \in DOMAIN all \ dropped |-> all[j]]
  <2>1. PICK past \in SUBSET (DOMAIN With(runs, i, v) \ {i}) :
          runs' = [j \in DOMAIN With(runs, i, v)
                           \ {k \in past : ~NeedsResolution(With(runs, i, v)[k])}
                     |-> With(runs, i, v)[j]]
    BY Zenon DEF Remember
  <2>2. \E dropped \in SUBSET {j \in DOMAIN With(runs, i, v) \ {i} :
                                 ~NeedsResolution(With(runs, i, v)[j])} :
          runs' = [j \in DOMAIN With(runs, i, v) \ dropped |-> With(runs, i, v)[j]]
    <3> DEFINE gone == {k \in past : ~NeedsResolution(With(runs, i, v)[k])}
    <3>1. gone \in SUBSET {j \in DOMAIN With(runs, i, v) \ {i} :
                              ~NeedsResolution(With(runs, i, v)[j])}
      BY <2>1
    <3>2. runs' = [j \in DOMAIN With(runs, i, v) \ gone |-> With(runs, i, v)[j]]
      BY <2>1, Zenon
    <3> QED BY <3>1, <3>2, Zenon
  <2> QED BY <1>1, <2>2, Zenon
<1>4. /\ DOMAIN runs' = DOMAIN all \ dropped
      /\ \A j \in DOMAIN runs' : runs'[j] = all[j]
      /\ i \in DOMAIN runs'
  BY <1>2, <1>3
<1>5. runs' \in Book
  <2>1. DOMAIN all \subseteq RunId /\ all \in [DOMAIN all -> Version]
    BY <1>2, BookType
  <2>2. DOMAIN runs' \subseteq RunId /\ runs' \in [DOMAIN runs' -> Version]
    BY <1>3, <1>4, <2>1
  <2> QED BY <2>2, BookType
<1>6. /\ run' \in Named /\ run'.id = i /\ run'.rev = v.rev /\ run'.phase = v.phase
  BY SelectFacts DEF Remember
<1>7. ShownInv'
  <2>1. \A j \in DOMAIN runs' : Behind(node, j, runs'[j])
    BY <1>2, <1>4 DEF IInv, ShownInv
  <2>2. Behind(node, run'.id, run')
    BY <1>6 DEF Behind
  <2> QED BY <2>1, <2>2 DEF ShownInv
<1>8. SelectedInv'
  <2>1. runs'[i] = v
    BY <1>2, <1>4
  <2> QED BY <1>4, <1>6, <2>1, VersionFields DEF SelectedInv
<1>9. \A j \in DOMAIN runs : runs[j].phase # "done" => j \in DOMAIN runs'
  BY <1>2, <1>3, <1>4 DEF NeedsResolution
<1> QED BY <1>5, <1>6, <1>7, <1>8, <1>9, ReleasedOnlyByNode

\* A version that is no older than what is known of its run is remembered.
LEMMA RemembersNewer ==
  ASSUME IInv, node' = node, NEW i \in RunId, NEW v \in Version, Behind(node, i, v),
         Remember(i, v), run # None /\ run.id = i => v.rev >= run.rev,
         receipt' = ReceiptFor(i, v) \/ receipt' \in {None, [id |-> i, rev |-> v.rev]}
  PROVE  KnownStep
<1>1. /\ runs' \in Book /\ run' \in Named
      /\ run'.id = i /\ run'.rev = v.rev
      /\ ShownInv' /\ SelectedInv' /\ NotReleased
  BY Remembers
<1>2. receipt' \in {None, [id |-> i, rev |-> v.rev]}
  BY DEF ReceiptFor
<1>3. receipt' \in [id : RunId, rev : 1..MaxRevision] \cup {None}
  BY <1>2, VersionFields
<1>4. ReceiptMatchesRun'
  BY <1>1, <1>2, NoneAssumption DEF ReceiptMatchesRun
<1>5. NotFalling
  BY <1>1 DEF NotFalling
<1> QED BY <1>1, <1>3, <1>4, <1>5 DEF KnownStep

\* acceptRun
LEMMA AcceptsRun ==
  ASSUME IInv, node' = node, NEW i \in RunId, NEW v \in Version, Behind(node, i, v),
         AcceptRun(i, v)
  PROVE  KnownStep
<1>1. CASE Newer(run, i, v)
  <2>1. Remember(i, v) /\ receipt' = ReceiptFor(i, v)
    BY <1>1 DEF AcceptRun
  <2>2. run # None /\ run.id = i => v.rev >= run.rev
    BY <1>1 DEF Newer
  <2> QED BY <2>1, <2>2, RemembersNewer
<1>2. CASE ~Newer(run, i, v)
  BY <1>2, KnownKept DEF AcceptRun, known
<1> QED BY <1>1, <1>2

\* The answer to a preparation.
LEMMA PreparedStep ==
  ASSUME IInv, node' = node, NEW i \in RunId, NEW v \in Version, Behind(node, i, v),
         Prepared(i, v)
  PROVE  KnownStep
<1>1. CASE Newer(None, i, v)
  <2>1. Remember(i, v) /\ receipt' = None
    BY <1>1 DEF Prepared
  <2>2. ASSUME run # None, run.id = i PROVE v.rev >= run.rev
    <3>1. i \in DOMAIN runs /\ runs[i].rev >= run.rev
      BY <2>2 DEF IInv, SelectedInv
    <3>2. v.rev >= runs[i].rev
      BY <1>1, <3>1 DEF Newer
    <3>3. v.rev \in Int /\ runs[i].rev \in Int /\ run.rev \in Int
      BY <2>2, <3>1, ShownTypes, VersionFields
    <3> QED BY <3>1, <3>2, <3>3
  <2> QED BY <2>1, <2>2, RemembersNewer
<1>2. CASE ~Newer(None, i, v)
  BY <1>2, KnownKept DEF Prepared
<1> QED BY <1>1, <1>2

\* The answer to the read of a run.
LEMMA SelectedStep ==
  ASSUME IInv, node' = node, NEW i \in RunId, NEW v \in Version, Behind(node, i, v),
         Selected(i, v)
  PROVE  KnownStep
<1>1. PICK latest : latest = IF i \in DOMAIN runs /\ runs[i].rev > v.rev THEN runs[i] ELSE v
  OBVIOUS
<1>2. latest \in Version /\ Behind(node, i, latest)
  BY <1>1, ShownTypes DEF IInv, ShownInv
<1>3. /\ IF Newer(run, i, latest) THEN Remember(i, latest) ELSE UNCHANGED <<runs, run>>
      /\ receipt' = None
  BY <1>1, Zenon DEF Selected
<1>4. CASE Newer(run, i, latest)
  <2>1. run # None /\ run.id = i => latest.rev >= run.rev
    BY <1>4 DEF Newer
  <2> QED BY <1>2, <1>3, <1>4, <2>1, RemembersNewer
<1>5. CASE ~Newer(run, i, latest)
  BY <1>3, <1>5, KnownKept
<1> QED BY <1>4, <1>5

\* The receipt that was read, with the run that it seals.
LEMMA ReceivedStep ==
  ASSUME IInv, node' = node, NEW i \in RunId, NEW v \in Version, Behind(node, i, v),
         Received(i, v)
  PROVE  KnownStep
<1>1. CASE run # None /\ run.id = i /\ Newer(run, i, v)
  <2>1. Remember(i, v) /\ receipt' = [id |-> i, rev |-> v.rev]
    BY <1>1 DEF Received
  <2>2. run # None /\ run.id = i => v.rev >= run.rev
    BY <1>1 DEF Newer
  <2> QED BY <2>1, <2>2, RemembersNewer
<1>2. CASE ~(run # None /\ run.id = i /\ Newer(run, i, v))
  BY <1>2, KnownKept DEF Received, known
<1> QED BY <1>1, <1>2

\* The answer to an approval or a reconciliation.
LEMMA ActedStep ==
  ASSUME IInv, node' = node, NEW i \in RunId, NEW v \in Version, Behind(node, i, v),
         Acted(i, v)
  PROVE  KnownStep
BY AcceptsRun, KnownKept DEF Acted, known

\* A version of a run that is not selected replaces an older one.
LEMMA ListedStep ==
  ASSUME IInv, node' = node, NEW i \in DOMAIN runs, NEW v \in Version, Behind(node, i, v),
         ~(run # None /\ run.id = i),
         runs' = With(runs, i, v), run' = run, receipt' = receipt
  PROVE  KnownStep
<1>1. runs \in Book /\ i \in RunId /\ v \in Version
  BY ShownTypes
<1>2. /\ runs' \in Book /\ DOMAIN runs' = DOMAIN runs \cup {i} /\ runs'[i] = v
      /\ \A j \in DOMAIN runs : j # i => runs'[j] = runs[j]
  BY <1>1, WithIs
<1>3. ShownInv' /\ SelectedInv' /\ ReceiptMatchesRun'
  BY <1>2 DEF IInv, ShownInv, SelectedInv, ReceiptMatchesRun
<1>4. NotFalling
  BY ShownTypes DEF NotFalling
<1>5. NotReleased
  BY <1>2, <1>3, ReleasedOnlyByNode
<1>6. /\ run' \in Named \cup {None}
      /\ receipt' \in [id : RunId, rev : 1..MaxRevision] \cup {None}
  BY ShownTypes
<1> QED BY <1>2, <1>3, <1>4, <1>5, <1>6 DEF KnownStep

-----------------------------------------------------------------------------
(* The listing                                                             *)

\* A merged listing has every run that was unresolved and the selected one, none of
\* them in an earlier version.
LEMMA MergeFacts ==
  ASSUME IInv, NEW listing \in Book, \A i \in DOMAIN listing : Behind(node, i, listing[i]),
         NEW w, w = Merge(listing)
  PROVE  /\ w \in Book
         /\ \A i \in DOMAIN w : Behind(node, i, w[i])
         /\ \A j \in DOMAIN runs : runs[j].phase # "done" => j \in DOMAIN w
         /\ run # None => run.id \in DOMAIN w /\ w[run.id].rev >= run.rev
<1> DEFINE retained == {j \in DOMAIN runs : NeedsResolution(runs[j])}
           selected == IF run = None THEN {} ELSE {run.id}
<1>1. /\ DOMAIN w = DOMAIN listing \cup retained \cup selected
      /\ \A i \in DOMAIN w :
           w[i] = CASE i \in DOMAIN listing -> IF i \in DOMAIN runs /\ listing[i].rev < runs[i].rev
                                                 THEN runs[i] ELSE listing[i]
                    [] i \notin DOMAIN listing /\ i \in retained -> runs[i]
                    [] OTHER -> VersionOf(run)
      /\ w = [i \in DOMAIN w |-> w[i]]
  BY DEF Merge
<1>2. \A i \in DOMAIN listing : i \in RunId /\ listing[i] \in Version /\ listing[i].rev \in 1..MaxRevision
  BY BookType, VersionFields
<1>3. run # None => /\ VersionOf(run) \in Version /\ VersionOf(run).rev = run.rev
                    /\ Behind(node, run.id, VersionOf(run))
  BY ShownTypes, SelectFacts DEF IInv, ShownInv, Behind
<1>4. ASSUME NEW i \in DOMAIN w
      PROVE  i \in RunId /\ w[i] \in Version /\ Behind(node, i, w[i])
  <2>1. CASE i \in DOMAIN listing
    BY <1>1, <1>2, <2>1, ShownTypes DEF IInv, ShownInv
  <2>2. CASE i \notin DOMAIN listing /\ i \in retained
    BY <1>1, <2>2, ShownTypes DEF IInv, ShownInv
  <2>3. CASE i \notin DOMAIN listing /\ i \notin retained
    <3>1. run # None /\ i = run.id
      BY <1>1, <2>3
    <3>2. w[i] = VersionOf(run)
      BY <1>1, <2>3
    <3> QED BY <1>3, <3>1, <3>2, ShownTypes
  <2> QED BY <2>1, <2>2, <2>3
<1>5. w \in Book
  <2>1. DOMAIN w \subseteq RunId /\ w \in [DOMAIN w -> Version]
    BY <1>1, <1>4
  <2> QED BY <2>1, BookType
<1>6. ASSUME run # None PROVE run.id \in DOMAIN w /\ w[run.id].rev >= run.rev
  <2>1. run.id \in DOMAIN w
    BY <1>1, <1>6
  <2>2. run.id \in DOMAIN runs /\ runs[run.id].rev >= run.rev
    BY <1>6 DEF IInv, SelectedInv
  <2>3. run.rev \in Int /\ runs[run.id].rev \in Int
    BY <1>6, <2>2, ShownTypes
  <2>4. CASE run.id \in DOMAIN listing
    BY <1>1, <1>2, <2>1, <2>2, <2>3, <2>4
  <2>5. CASE run.id \notin DOMAIN listing /\ run.id \in retained
    BY <1>1, <2>1, <2>2, <2>5
  <2>6. CASE run.id \notin DOMAIN listing /\ run.id \notin retained
    <3>1. w[run.id] = VersionOf(run)
      BY <1>1, <2>1, <2>6
    <3> QED BY <1>3, <1>6, <2>1, <2>3, <3>1
  <2> QED BY <2>4, <2>5, <2>6
<1>7. \A j \in DOMAIN runs : runs[j].phase # "done" => j \in DOMAIN w
  BY <1>1 DEF NeedsResolution
<1> QED BY <1>4, <1>5, <1>6, <1>7

\* The listing of a refresh is merged; with no run selected an unresolved one is.
LEMMA MergedStep ==
  ASSUME IInv, node' = node, reading # None, runs' = Merge(reading.listing),
         \/ run # None /\ run' = run
         \/ run = None /\ run' = None
         \/ run = None /\ \E i \in DOMAIN runs' : run' = Select(i, runs'[i]),
         receipt' = receipt
  PROVE  KnownStep
<1>1. reading.listing \in Book /\ \A i \in DOMAIN reading.listing : Behind(node, i, reading.listing[i])
  BY DEF IInv, TypeOK, Refresh, ReadingInv
<1>2. /\ runs' \in Book
      /\ \A i \in DOMAIN runs' : Behind(node, i, runs'[i])
      /\ \A j \in DOMAIN runs : runs[j].phase # "done" => j \in DOMAIN runs'
      /\ run # None => run.id \in DOMAIN runs' /\ runs'[run.id].rev >= run.rev
  <2>1. \A w : w = Merge(reading.listing) =>
          /\ w \in Book
          /\ \A i \in DOMAIN w : Behind(node, i, w[i])
          /\ \A j \in DOMAIN runs : runs[j].phase # "done" => j \in DOMAIN w
          /\ run # None => run.id \in DOMAIN w /\ w[run.id].rev >= run.rev
    BY <1>1, MergeFacts
  <2> QED BY <2>1
<1>3. \A i \in DOMAIN runs' : i \in RunId /\ runs'[i] \in Version
  BY <1>2, BookType
<1>4. run' # None =>
        /\ run' \in Named /\ Behind(node, run'.id, run')
        /\ run'.id \in DOMAIN runs' /\ runs'[run'.id].rev >= run'.rev
  <2>1. CASE run # None /\ run' = run
    BY <1>2, <2>1, ShownTypes DEF IInv, ShownInv
  <2>2. CASE run = None /\ \E i \in DOMAIN runs' : run' = Select(i, runs'[i])
    <3>1. PICK i \in DOMAIN runs' : run' = Select(i, runs'[i])
      BY <2>2
    <3>2. /\ run' \in Named /\ run'.id = i /\ run'.rev = runs'[i].rev
          /\ run'.phase = runs'[i].phase
      BY <1>3, <3>1, SelectFacts
    <3>3. runs'[i].rev \in Int
      BY <1>3, VersionFields
    <3> QED BY <1>2, <3>2, <3>3 DEF Behind
  <2> QED BY <2>1, <2>2
<1>5. ShownInv' /\ SelectedInv'
  BY <1>2, <1>4 DEF ShownInv, SelectedInv
<1>6. ReceiptMatchesRun' /\ NotFalling
  BY ShownTypes DEF IInv, ReceiptMatchesRun, NotFalling
<1>7. NotReleased
  BY <1>2, <1>5, ReleasedOnlyByNode
<1>8. receipt' \in [id : RunId, rev : 1..MaxRevision] \cup {None}
  BY ShownTypes
<1> QED BY <1>2, <1>4, <1>5, <1>6, <1>7, <1>8 DEF KnownStep

-----------------------------------------------------------------------------
(* The steps                                                               *)

\* A good step: the invariant again, with both action properties.
GoodStep == IInv' /\ NotFalling /\ NotReleased

\* With the Node at rest, what is in flight stays as it was.
LEMMA PendingKept ==
  ASSUME IInv, node' = node
  PROVE  /\ reading' \in {reading, None} => ReadingInv' /\ (reading' = None \/ reading' \in Refresh)
         /\ action' \in {action, None} => ActionInv' /\ action' \in Action \cup {None}
         /\ stop' \in {stop, None} => StopInv' /\ stop' \in Stop \cup {None}
<1>1. /\ reading = None \/ reading \in Refresh
      /\ action \in Action \cup {None} /\ stop \in Stop \cup {None}
  BY DEF IInv, TypeOK
<1>2. reading' \in {reading, None} => ReadingInv'
  BY DEF IInv, ReadingInv
<1>3. action' \in {action, None} => ActionInv'
  BY DEF IInv, ActionInv
<1>4. stop' \in {stop, None} => StopInv'
  BY DEF IInv, StopInv
<1> QED BY <1>1, <1>2, <1>3, <1>4

\* What is shown stays as it was, whatever the Node does.
LEMMA KnownRests ==
  ASSUME IInv, UNCHANGED known
  PROVE  NotFalling /\ NotReleased
<1>1. runs' = runs /\ run' = run
  BY DEF known
<1>2. NotFalling
  BY <1>1, ShownTypes DEF NotFalling
<1>3. Unresolved' = Unresolved
  BY <1>1 DEF Unresolved
<1> QED BY <1>2, <1>3 DEF NotReleased

\* A step of what is shown, while the Node rests.
LEMMA KnownIsGood ==
  ASSUME IInv, KnownStep, node' = node, disposed' \in BOOLEAN, fresh' \in BOOLEAN,
         ReadingInv', reading' = None \/ reading' \in Refresh,
         ActionInv', action' \in Action \cup {None}, StopInv', stop' \in Stop \cup {None}
  PROVE  GoodStep
<1>1. node' \in Book
  BY ShownTypes
<1>2. TypeOK'
  BY <1>1 DEF KnownStep, TypeOK
<1> QED BY <1>2 DEF KnownStep, GoodStep, IInv

\* A step of the Node.
LEMMA NodeIsGood ==
  ASSUME IInv, node' \in Book, Grows, UNCHANGED <<disposed, known, fresh>>,
         reading' = reading \/ (ReadingInv' /\ reading' \in Refresh),
         action' = action \/ (ActionInv' /\ action' \in Action),
         stop' = stop \/ (StopInv' /\ stop' \in Stop)
  PROVE  GoodStep
<1>1. /\ disposed' \in BOOLEAN /\ fresh' \in BOOLEAN
      /\ UNCHANGED known
  BY DEF IInv, TypeOK
<1>2. /\ ShownInv' /\ SelectedInv' /\ ReceiptMatchesRun'
      /\ ReadingInv' /\ ActionInv' /\ StopInv'
  BY <1>1, NodeKeeps
<1>3. TypeOK'
  BY <1>1 DEF IInv, TypeOK, known
<1> QED BY <1>1, <1>2, <1>3, KnownRests DEF GoodStep, IInv

\* Another client prepares, or a run goes on.
LEMMA NodeRunStep ==
  ASSUME IInv, NEW i \in RunId, NodeRun(i)
  PROVE  GoodStep
<1>1. \/ i \notin DOMAIN node /\ node' = With(node, i, [rev |-> 1, phase |-> "waiting"])
      \/ /\ i \in DOMAIN node /\ node[i].phase # "done"
         /\ \E phase \in {"active", "unknown", "done"} : NodeMoves(i, phase)
  BY DEF NodeRun
<1>2. node' \in Book /\ Grows
  BY <1>1, NodeGrows, ShownTypes
<1>3. UNCHANGED <<disposed, known, fresh, reading, action, stop>>
  BY DEF NodeRun
<1> QED BY <1>2, <1>3, NodeIsGood

\* The Node answers the exact read.
LEMMA NodeReadsStep ==
  ASSUME IInv, NodeReads
  PROVE  GoodStep
<1>1. /\ reading # None /\ reading.stage = "exact"
      /\ reading' = [reading EXCEPT !.stage = "read", !.reply = node[reading.id]]
      /\ UNCHANGED <<node, disposed, known, fresh, action, stop>>
  BY DEF NodeReads
<1>2. /\ reading \in Refresh /\ reading.id \in DOMAIN node
      /\ \A i \in DOMAIN reading.listing : Behind(node, i, reading.listing[i])
  BY <1>1 DEF IInv, TypeOK, ReadingInv
<1>3. node[reading.id] \in Version
  BY <1>2, ShownTypes
<1>4. reading' \in Refresh
  BY <1>1, <1>2, <1>3 DEF Refresh
<1>5. Behind(node, reading.id, node[reading.id])
  BY <1>2, <1>3, VersionFields DEF Behind
<1>6. /\ reading'.listing = reading.listing /\ reading'.id = reading.id
      /\ reading'.reply = node[reading.id] /\ node' = node
  BY <1>1, <1>2 DEF Refresh
<1>7. ReadingInv'
  BY <1>2, <1>3, <1>5, <1>6 DEF ReadingInv
<1>8. node' \in Book /\ Grows
  BY <1>6, ShownTypes DEF Grows
<1> QED BY <1>1, <1>4, <1>7, <1>8, NodeIsGood

\* The Node serves a request of the action.
LEMMA NodeActsStep ==
  ASSUME IInv, NEW i \in RunId, NodeActs(i)
  PROVE  GoodStep
<1>1. /\ action # None /\ action.reply = None
      /\ action' = [action EXCEPT !.id = i, !.rev = 0, !.reply = node'[i]]
      /\ UNCHANGED <<disposed, known, fresh, reading, stop>>
  BY DEF NodeActs
<1>2. action \in Action /\ (action.kind # "prepare" => action.id \in DOMAIN node)
  BY <1>1 DEF IInv, TypeOK, ActionInv
<1>3. node' \in Book /\ Grows /\ i \in DOMAIN node'
  <2>1. CASE action.kind = "prepare" /\ i \notin DOMAIN node
                /\ node' = With(node, i, [rev |-> 1, phase |-> "waiting"])
    <3>1. node' \in Book /\ Grows
      BY <2>1, NodeGrows, ShownTypes
    <3>2. i \in DOMAIN node'
      BY <2>1 DEF With
    <3> QED BY <3>1, <3>2
  <2>2. CASE action.kind \in {"select", "receipt"} /\ i = action.id /\ UNCHANGED node
    BY <1>2, <2>2, ShownTypes DEF Grows
  <2>3. CASE /\ action.kind \in {"approve", "reconcile"} /\ i = action.id
             /\ node[i].rev = action.rev
             /\ NodeMoves(i, IF action.kind = "approve" THEN "active" ELSE "done")
    <3>1. i \in DOMAIN node /\ node[i].phase = Awaited(action.kind)
      <4>1. ActionInv /\ action.kind \in {"approve", "reconcile"}
        BY <2>3 DEF IInv
      <4>2. action.rev = node[action.id].rev => node[action.id].phase = Awaited(action.kind)
        BY <1>1, <4>1 DEF ActionInv
      <4> QED BY <1>2, <2>3, <4>2
    <3>2. node[i].phase # "done"
      BY <3>1 DEF Awaited
    <3>3. \E phase \in {"active", "unknown", "done"} : NodeMoves(i, phase)
      BY <2>3
    <3>4. node' \in Book /\ Grows
      BY <3>1, <3>2, <3>3, NodeGrows, ShownTypes
    <3> QED BY <3>1, <3>4 DEF Grows
  <2> QED BY <2>1, <2>2, <2>3 DEF NodeActs
<1>4. node'[i] \in Version /\ node'[i].rev \in 1..MaxRevision
  BY <1>3, BookType, VersionFields
<1>5. /\ action'.kind = action.kind /\ action'.id = i /\ action'.rev = 0
      /\ action'.reply = node'[i]
  BY <1>1, <1>2 DEF Action
<1>6. action' \in Action
  <2>1. 0 \in 0..MaxRevision /\ i \in RunId \cup {None} /\ node'[i] \in Version \cup {None}
    BY <1>4, ExecutionAssumption
  <2>2. action' = [kind |-> action.kind, id |-> i, rev |-> 0, reply |-> node'[i]]
    BY <1>1, <1>2 DEF Action
  <2>3. action.kind \in {"prepare", "select", "receipt", "approve", "reconcile"}
    BY <1>2 DEF Action
  <2> QED BY <2>1, <2>2, <2>3 DEF Action
<1>7. ActionInv'
  <2>1. Behind(node', i, node'[i])
    BY <1>3, <1>4 DEF Behind
  <2> QED BY <1>3, <1>4, <1>5, <2>1 DEF ActionInv
<1> QED BY <1>1, <1>3, <1>6, <1>7, NodeIsGood

\* The Node serves a Stop.
LEMMA NodeStopsStep ==
  ASSUME IInv, NodeStops
  PROVE  GoodStep
<1>1. /\ stop # None /\ stop' = [stop EXCEPT !.reply = node'[stop.id]]
      /\ UNCHANGED <<disposed, known, fresh, reading, action>>
  BY DEF NodeStops
<1>2. stop \in Stop /\ stop.id \in DOMAIN node /\ stop.id \in RunId
  BY <1>1, ShownTypes DEF IInv, TypeOK, StopInv
<1>3. \/ node' = node
      \/ /\ node[stop.id].phase # "done"
         /\ \E phase \in {"active", "unknown", "done"} : NodeMoves(stop.id, phase)
  BY DEF NodeStops
<1>4. node' \in Book /\ Grows
  BY <1>2, <1>3, NodeGrows, ShownTypes
<1>5. stop.id \in DOMAIN node'
  BY <1>2, <1>4 DEF Grows
<1>6. node'[stop.id] \in Version /\ node'[stop.id].rev \in 1..MaxRevision
  BY <1>4, <1>5, BookType, VersionFields
<1>7. stop' \in Stop /\ stop'.id = stop.id /\ stop'.reply = node'[stop.id]
  BY <1>1, <1>2, <1>6 DEF Stop
<1>8. StopInv'
  <2>1. Behind(node', stop.id, node'[stop.id])
    BY <1>5, <1>6 DEF Behind
  <2> QED BY <1>5, <1>7, <2>1 DEF StopInv
<1> QED BY <1>1, <1>4, <1>7, <1>8, NodeIsGood

\* A refresh asks for the listing.
LEMMA RefreshAsksStep ==
  ASSUME IInv, RefreshAsks
  PROVE  GoodStep
<1>1. PICK listed \in SUBSET DOMAIN node :
        reading' = [stage |-> "listed", listing |-> [i \in listed |-> node[i]], id |-> None,
                    reply |-> None]
  BY DEF RefreshAsks
<1>2. UNCHANGED <<node, disposed, known, fresh, action, stop>>
  BY DEF RefreshAsks
<1>3. PICK listing : listing = [i \in listed |-> node[i]]
  OBVIOUS
<1>4. DOMAIN listing = listed /\ \A i \in listed : listing[i] = node[i]
  BY <1>3
<1>5. listing \in Book
  <2>1. DOMAIN listing \subseteq RunId /\ listing \in [DOMAIN listing -> Version]
    BY <1>3, <1>4, ShownTypes
  <2> QED BY <2>1, BookType
<1>6. \A i \in listed : Behind(node, i, listing[i])
  BY <1>4, ShownTypes DEF Behind
<1>7. reading'.stage = "listed" /\ reading'.listing = listing
  BY <1>1, <1>3
<1>8. reading' \in Refresh
  BY <1>1, <1>3, <1>5 DEF Refresh
<1>9. ReadingInv'
  BY <1>2, <1>4, <1>6, <1>7 DEF ReadingInv
<1>10. node' \in Book /\ Grows
  BY <1>2, ShownTypes DEF Grows
<1> QED BY <1>2, <1>8, <1>9, <1>10, NodeIsGood

\* The listing is merged, and the exact read of the selected run is asked for.
LEMMA RefreshListsStep ==
  ASSUME IInv, RefreshLists
  PROVE  GoodStep
<1>1. reading # None /\ UNCHANGED <<node, disposed, action, stop>>
  BY DEF RefreshLists
<1>2. /\ ActionInv' /\ action' \in Action \cup {None} /\ StopInv' /\ stop' \in Stop \cup {None}
      /\ disposed' \in BOOLEAN
  BY <1>1, PendingKept DEF IInv, TypeOK
<1>3. CASE disposed
  <2>1. reading' = None /\ UNCHANGED <<known, fresh>>
    BY <1>3 DEF RefreshLists
  <2>2. KnownStep
    BY <1>1, <2>1, KnownKept DEF known
  <2>3. fresh' \in BOOLEAN
    BY <2>1 DEF IInv, TypeOK
  <2>4. ReadingInv'
    BY <2>1 DEF ReadingInv
  <2> QED BY <1>1, <1>2, <2>1, <2>2, <2>3, <2>4, KnownIsGood
<1>4. CASE ~disposed
  <2>1. /\ runs' = Merge(reading.listing) /\ receipt' = receipt
        /\ \/ run # None /\ run' = run
           \/ run = None /\ run' = None
           \/ run = None /\ \E i \in DOMAIN runs' : run' = Select(i, runs'[i])
    BY <1>4 DEF RefreshLists
  <2>2. KnownStep
    BY <1>1, <2>1, MergedStep
  <2>3. fresh' \in BOOLEAN
    BY <1>4 DEF RefreshLists, Refreshed, IInv, TypeOK
  <2>4. ReadingInv' /\ (reading' = None \/ reading' \in Refresh)
    <3>1. CASE run' = None
      <4>1. reading' = None
        BY <1>4, <3>1 DEF RefreshLists, Refreshed
      <4> QED BY <4>1 DEF ReadingInv
    <3>2. CASE run' # None
      <4>1. reading' = [reading EXCEPT !.stage = "exact", !.id = run'.id, !.listing = Empty]
        BY <1>4, <3>2 DEF RefreshLists
      <4>2. reading \in Refresh
        BY <1>1 DEF IInv, TypeOK
      <4>3. run'.id \in RunId /\ run'.id \in DOMAIN node
        BY <1>1, <2>2, <3>2 DEF KnownStep, Named, ShownInv, Behind
      <4>4. Empty \in Book /\ DOMAIN Empty = {}
        BY BookType DEF Empty
      <4>5. reading' \in Refresh /\ reading'.stage = "exact" /\ reading'.id = run'.id
            /\ reading'.listing = Empty
        BY <4>1, <4>2, <4>3, <4>4 DEF Refresh
      <4> QED BY <1>1, <4>3, <4>4, <4>5 DEF ReadingInv
    <3> QED BY <3>1, <3>2
  <2> QED BY <1>1, <1>2, <2>2, <2>3, <2>4, KnownIsGood
<1> QED BY <1>3, <1>4

\* The exact read is applied to the run that is still selected.
LEMMA RefreshReadsStep ==
  ASSUME IInv, RefreshReads
  PROVE  GoodStep
<1>1. /\ reading # None /\ reading.stage = "read" /\ UNCHANGED <<node, disposed, action, stop>>
  BY DEF RefreshReads
<1>2. /\ ActionInv' /\ action' \in Action \cup {None} /\ StopInv' /\ stop' \in Stop \cup {None}
      /\ disposed' \in BOOLEAN
  BY <1>1, PendingKept DEF IInv, TypeOK
<1>3. /\ reading' = None /\ fresh' \in BOOLEAN
  BY DEF RefreshReads, Refreshed, IInv, TypeOK
<1>4. CASE ~disposed /\ run # None /\ run.id = reading.id
  <2>1. AcceptRun(run.id, reading.reply)
    BY <1>4 DEF RefreshReads
  <2>2. run.id \in RunId /\ reading.reply \in Version /\ Behind(node, run.id, reading.reply)
    BY <1>1, <1>4, ShownTypes DEF IInv, ReadingInv
  <2> QED BY <1>1, <2>1, <2>2, AcceptsRun, <1>2, <1>3, KnownIsGood DEF ReadingInv
<1>5. CASE ~(~disposed /\ run # None /\ run.id = reading.id)
  <2>1. UNCHANGED known
    BY <1>5 DEF RefreshReads
  <2>2. KnownStep
    BY <1>1, <2>1, KnownKept DEF known
  <2>3. ReadingInv'
    BY <1>3 DEF ReadingInv
  <2> QED BY <1>1, <1>2, <1>3, <2>2, <2>3, KnownIsGood
<1> QED BY <1>4, <1>5

\* Requests end without an answer, the view ages, the channel closes.
LEMMA EndsStep ==
  ASSUME IInv, RefreshFails \/ Age \/ ActionFails \/ StopFails \/ Dispose
  PROVE  GoodStep
<1>1. UNCHANGED <<node, known>>
  BY DEF RefreshFails, Age, ActionFails, StopFails, Dispose
<1>2. /\ reading' \in {reading, None} /\ action' \in {action, None} /\ stop' \in {stop, None}
  BY DEF RefreshFails, Age, ActionFails, StopFails, Dispose
<1>3. disposed' \in BOOLEAN
  BY DEF RefreshFails, Age, ActionFails, StopFails, Dispose, IInv, TypeOK
<1>4. fresh' \in BOOLEAN
  BY DEF RefreshFails, Age, ActionFails, StopFails, Dispose, IInv, TypeOK
<1>5. KnownStep
  BY <1>1, KnownKept DEF known
<1> QED BY <1>1, <1>2, <1>3, <1>4, <1>5, PendingKept, KnownIsGood

\* The operator asks.
LEMMA AskStep ==
  ASSUME IInv, NEW kind, NEW i, NEW rev, Ask(kind, i, rev),
         kind \in {"prepare", "select", "receipt", "approve", "reconcile"},
         i \in RunId \cup {None}, rev \in 0..MaxRevision,
         kind # "prepare" => i \in DOMAIN node,
         kind \in {"approve", "reconcile"} =>
           /\ rev <= node[i].rev
           /\ rev = node[i].rev => node[i].phase = Awaited(kind)
  PROVE  GoodStep
<1>1. /\ action' = [kind |-> kind, id |-> i, rev |-> rev, reply |-> None]
      /\ UNCHANGED <<node, disposed, known, fresh, reading, stop>>
  BY DEF Ask
<1>2. action' \in Action
  BY <1>1 DEF Action
<1>3. ActionInv'
  BY <1>1 DEF ActionInv
<1>4. node' \in Book /\ Grows
  BY <1>1, ShownTypes DEF Grows
<1> QED BY <1>1, <1>2, <1>3, <1>4, NodeIsGood

\* The operator's requests name runs that the Node has, and writes a version to review.
LEMMA RequestStep ==
  ASSUME IInv, Prepare \/ Approve \/ Reconcile \/ (\E i \in RunId : SelectRun(i) \/ ReadReceipt(i))
  PROVE  GoodStep
<1>0. 0 \in 0..MaxRevision
  BY ExecutionAssumption
<1>1. \A i \in DOMAIN runs : i \in RunId /\ i \in DOMAIN node
  BY ShownTypes DEF IInv, ShownInv, Behind
<1>2. run # None =>
        /\ run.id \in RunId /\ run.id \in DOMAIN node /\ run.rev \in 0..MaxRevision
        /\ run.rev <= node[run.id].rev
        /\ run.rev = node[run.id].rev => node[run.id].phase = run.phase
  BY ShownTypes DEF IInv, ShownInv, Behind
<1>3. CASE Prepare
  BY <1>0, <1>3, AskStep DEF Prepare
<1>4. CASE Approve
  <2>1. run # None /\ run.phase = "waiting" /\ Ask("approve", run.id, run.rev)
    BY <1>4 DEF Approve
  <2> QED BY <1>2, <2>1, AskStep DEF Awaited
<1>5. CASE Reconcile
  <2>1. run # None /\ run.phase = "unknown" /\ Ask("reconcile", run.id, run.rev)
    BY <1>5 DEF Reconcile
  <2> QED BY <1>2, <2>1, AskStep DEF Awaited
<1>6. CASE \E i \in RunId : SelectRun(i) \/ ReadReceipt(i)
  <2>1. PICK i \in RunId : SelectRun(i) \/ ReadReceipt(i)
    BY <1>6
  <2>2. i \in DOMAIN runs /\ (Ask("select", i, 0) \/ Ask("receipt", i, 0))
    BY <2>1 DEF SelectRun, ReadReceipt
  <2> QED BY <1>0, <1>1, <2>2, AskStep
<1> QED BY <1>3, <1>4, <1>5, <1>6

\* The operator stops a run that is shown.
LEMMA StopRunStep ==
  ASSUME IInv, NEW i \in RunId, StopRun(i)
  PROVE  GoodStep
<1>1. /\ stop' = [id |-> i, reply |-> None]
      /\ UNCHANGED <<node, disposed, known, fresh, reading, action>>
  BY DEF StopRun
<1>2. i \in DOMAIN node
  BY DEF StopRun, IInv, ShownInv, Behind
<1>3. stop' \in Stop
  BY <1>1 DEF Stop
<1>4. StopInv'
  BY <1>1, <1>2 DEF StopInv
<1>5. node' \in Book /\ Grows
  BY <1>1, ShownTypes DEF Grows
<1> QED BY <1>1, <1>3, <1>4, <1>5, NodeIsGood

\* The answer to the action is applied.
LEMMA ActionRepliesStep ==
  ASSUME IInv, ActionReplies
  PROVE  GoodStep
<1>1. /\ action # None /\ action.reply # None /\ action' = None
      /\ UNCHANGED <<node, disposed, fresh, reading, stop>>
  BY DEF ActionReplies
<1>2. action \in Action /\ Behind(node, action.id, action.reply)
  BY <1>1 DEF IInv, TypeOK, ActionInv
<1>3. action.id \in RunId /\ action.reply \in Version
  BY <1>1, <1>2, ShownTypes DEF Action, Behind
<1>4. \/ UNCHANGED known
      \/ Prepared(action.id, action.reply) \/ Selected(action.id, action.reply)
      \/ Received(action.id, action.reply) \/ Acted(action.id, action.reply)
  BY DEF ActionReplies
<1>5. CASE UNCHANGED known
  <2>1. KnownStep
    BY <1>1, <1>5, KnownKept DEF known
  <2> QED BY <1>1, <2>1, PendingKept, KnownIsGood DEF IInv, TypeOK
<1>6. CASE \/ Prepared(action.id, action.reply) \/ Selected(action.id, action.reply)
           \/ Received(action.id, action.reply) \/ Acted(action.id, action.reply)
  <2>1. KnownStep
    BY <1>1, <1>2, <1>3, <1>6, PreparedStep, SelectedStep, ReceivedStep, ActedStep
  <2> QED BY <1>1, <2>1, PendingKept, KnownIsGood DEF IInv, TypeOK
<1> QED BY <1>4, <1>5, <1>6

\* The answer to a Stop is applied.
LEMMA StopRepliesStep ==
  ASSUME IInv, StopReplies
  PROVE  GoodStep
<1>1. /\ stop # None /\ stop.reply # None /\ stop' = None
      /\ UNCHANGED <<node, disposed, fresh, reading, action>>
  BY DEF StopReplies
<1>2. stop \in Stop /\ Behind(node, stop.id, stop.reply)
  BY <1>1 DEF IInv, TypeOK, StopInv
<1>3. stop.id \in RunId /\ stop.reply \in Version
  BY <1>1, <1>2 DEF Stop
<1>4. \/ UNCHANGED known
      \/ AcceptRun(stop.id, stop.reply)
      \/ /\ ~(run # None /\ run.id = stop.id) /\ stop.id \in DOMAIN runs
         /\ runs' = With(runs, stop.id, stop.reply) /\ run' = run /\ receipt' = receipt
  BY DEF StopReplies, known
<1>5. KnownStep
  <2>1. CASE UNCHANGED known
    BY <1>1, <2>1, KnownKept DEF known
  <2>2. CASE AcceptRun(stop.id, stop.reply)
    BY <1>1, <1>2, <1>3, <2>2, AcceptsRun
  <2>3. CASE /\ ~(run # None /\ run.id = stop.id) /\ stop.id \in DOMAIN runs
             /\ runs' = With(runs, stop.id, stop.reply) /\ run' = run /\ receipt' = receipt
    BY <1>1, <1>2, <1>3, <2>3, ListedStep
  <2> QED BY <1>4, <2>1, <2>2, <2>3
<1> QED BY <1>1, <1>5, PendingKept, KnownIsGood DEF IInv, TypeOK

-----------------------------------------------------------------------------
(* The theorems                                                            *)

\* Nothing is known at the start.
LEMMA InitInv == Init => IInv
<1> SUFFICES ASSUME Init PROVE IInv
  OBVIOUS
<1>1. Empty \in Book /\ DOMAIN Empty = {}
  BY BookType DEF Empty
<1>2. TypeOK
  BY <1>1 DEF Init, TypeOK
<1> QED BY <1>1, <1>2 DEF Init, IInv, ShownInv, ReadingInv, ActionInv, StopInv, SelectedInv,
                          ReceiptMatchesRun

\* Every step is a good one.
LEMMA NextIsGood ==
  ASSUME IInv, [Next]_vars
  PROVE  GoodStep
<1>1. CASE NodeReads
  BY <1>1, NodeReadsStep
<1>2. CASE NodeStops
  BY <1>2, NodeStopsStep
<1>3. CASE \E i \in RunId : NodeRun(i) \/ NodeActs(i) \/ StopRun(i)
  BY <1>3, NodeRunStep, NodeActsStep, StopRunStep
<1>4. CASE Prepare \/ Approve \/ Reconcile \/ (\E i \in RunId : SelectRun(i) \/ ReadReceipt(i))
  BY <1>4, RequestStep
<1>5. CASE RefreshAsks \/ RefreshLists \/ RefreshReads
  BY <1>5, RefreshAsksStep, RefreshListsStep, RefreshReadsStep
<1>6. CASE RefreshFails \/ Age \/ ActionFails \/ StopFails \/ Dispose
  BY <1>6, EndsStep
<1>7. CASE ActionReplies \/ StopReplies
  BY <1>7, ActionRepliesStep, StopRepliesStep
<1>8. CASE UNCHANGED vars
  <2>1. UNCHANGED <<node, disposed, known, fresh, reading, action, stop>>
    BY <1>8 DEF vars
  <2>2. node' \in Book /\ Grows
    BY <2>1, ShownTypes DEF Grows
  <2> QED BY <2>1, <2>2, NodeIsGood
<1> QED BY <1>1, <1>2, <1>3, <1>4, <1>5, <1>6, <1>7, <1>8 DEF Next

\* The inductive invariant holds of every behaviour, whatever overtakes what.
THEOREM Invariance == Spec => []IInv
<1>1. IInv /\ [Next]_vars => IInv'
  BY NextIsGood DEF GoodStep
<1> QED BY <1>1, InitInv, PTL DEF Spec

\* Every variable keeps its type, and with it every version is one that the Node
\* can have had.
THEOREM TypeCorrect == Spec => []TypeOK
<1>1. IInv => TypeOK
  BY DEF IInv
<1> QED BY <1>1, Invariance, PTL

\* A receipt is shown for the selected run in the version it seals (acceptRun and
\* the answers that overtake one another).
THEOREM ReceiptIsOfTheRun == Spec => []ReceiptMatchesRun
<1>1. IInv => ReceiptMatchesRun
  BY DEF IInv
<1> QED BY <1>1, Invariance, PTL

\* What is shown is never ahead of the Node, and agrees with it in the same version.
THEOREM ShownCameFromTheNode == Spec => []ShownInv
<1>1. IInv => ShownInv
  BY DEF IInv
<1> QED BY <1>1, Invariance, PTL

\* "A slow poll cannot replace a newer stop/approval result."
THEOREM SelectedDoesNotFall == Spec => SelectedNeverFalls
<1>1. IInv /\ [Next]_vars =>
        [run # None /\ run' # None /\ run'.id = run.id => run'.rev >= run.rev]_vars
  BY NextIsGood DEF GoodStep, NotFalling
<1> QED BY <1>1, Invariance, PTL DEF Spec, SelectedNeverFalls

\* An unresolved invocation is released only once the Node has resolved it.
THEOREM OnlyTheNodeReleases == Spec => NeverReleasedUnresolved
<1>1. IInv /\ [Next]_vars =>
        [\A i \in Unresolved : i \in Unresolved' \/ node[i].phase = "done"]_vars
  BY NextIsGood DEF GoodStep, NotReleased
<1> QED BY <1>1, Invariance, PTL DEF Spec, NeverReleasedUnresolved
=============================================================================
