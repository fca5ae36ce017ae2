---------------------------- MODULE CaptureLedger ----------------------------
(***************************************************************************)
(* What the store of the operator service promises about the captures that *)
(* the service asks for, and nothing about how: a capture is asked for     *)
(* only after it was noted; whatever may be running is in the ledger, by   *)
(* name or as a request without one; a capture is named once, in the place *)
(* of such a request and for the conversation that made it; and its name   *)
(* stays until it is closed.                                               *)
(***************************************************************************)
CONSTANTS Conversation, Capture, None

VARIABLES
  world,   \* what became of each capture at the Node
  ledger   \* what a restart would find

ledgerVars == <<world, ledger>>

Outcome == {"unused", "asked", "refused", "open", "closed"}

Entry == [conversation : Conversation, capture : Capture \cup {None}]

LedgerTypeOK ==
  /\ world \in [Capture -> Outcome]
  /\ ledger \subseteq Entry

LedgerInit ==
  /\ world = [s \in Capture |-> "unused"]
  /\ ledger = {}

-----------------------------------------------------------------------------
(* The captures                                                            *)

Ask(s) ==
  /\ world[s] = "unused"
  /\ \E e \in ledger : e.capture = None
  /\ world' = [world EXCEPT ![s] = "asked"]

Answer(s) ==
  /\ world[s] = "asked"
  /\ \E outcome \in {"open", "refused"} : world' = [world EXCEPT ![s] = outcome]

Close(s) ==
  /\ world[s] = "open"
  /\ world' = [world EXCEPT ![s] = "closed"]

-----------------------------------------------------------------------------
(* The ledger                                                              *)

\* Every capture that may be running is in the ledger.
Accounted ==
  \A s \in Capture : world[s] \in {"asked", "open"} => \E e \in ledger : e.capture \in {s, None}

\* A capture that was answered and has no name yet takes the name in the place of a
\* request of the same conversation.
Names(e) ==
  /\ e.capture # None
  /\ world[e.capture] \in {"open", "closed"}
  /\ [e EXCEPT !.capture = None] \in ledger
  /\ \A f \in ledger : f.capture # e.capture

\* The ledger is written as a whole: requests come and go, one name comes at a time, and
\* the name of an open capture stays.
Write ==
  /\ \A e \in ledger' \ ledger : e.capture = None \/ Names(e)
  /\ \A e \in ledger', f \in ledger' : Names(e) /\ Names(f) => e = f
  /\ \A e \in ledger : e.capture # None /\ world'[e.capture] = "open" => e \in ledger'

\* A capture may take a step as the ledger is written.
LedgerNext ==
  /\ world' = world \/ \E s \in Capture : Ask(s) \/ Answer(s) \/ Close(s)
  /\ ledger' \subseteq Entry
  /\ Write
  /\ Accounted'

LedgerSpec == LedgerInit /\ [][LedgerNext]_ledgerVars

-----------------------------------------------------------------------------
(* What follows                                                            *)

\* A capture is never recorded for two conversations.
OneConversation ==
  \A e \in ledger, f \in ledger :
    e.capture = f.capture /\ e.capture # None => e.conversation = f.conversation
=============================================================================
