--------------------------- MODULE NodeInstallation ---------------------------
(***************************************************************************)
(* Installations of the Node on one computer, shared by the commands that  *)
(* run on it (cli/src/physical/node-installation.js and setup-node.js in   *)
(* cli/src/commands): an environment is built in a directory of its own    *)
(* under the setup lock, verified, and named by a receipt that is created  *)
(* once; the selection is replaced by a rename.  A command may fail or be  *)
(* killed at every step, and nobody cleans up after it.                    *)
(*                                                                         *)
(* A release is named by the digest of its manifest.  What an artifact, a  *)
(* probe or a manifest contains is reduced to whether it is accepted.      *)
(***************************************************************************)
EXTENDS Naturals

CONSTANTS
  Process,         \* the commands: setup-node, or the harness with a managed Node
  Digest,
  Old,             \* those of release 0.2.0; the others are 0.2.1
  None,
  MaxDirectories   \* environments that are begun (bound)

ASSUME InstallationAssumption ==
  /\ Old \subseteq Digest /\ None \notin Digest \cup Nat
  /\ MaxDirectories \in Nat

Directory == 1..MaxDirectories

VARIABLES
  directories,  \* what became of each environment
  receipts,     \* the receipt of a digest: None, 0 while it is being written, or its directory
  selected,     \* selected.json
  locked,       \* setup.lock exists
  command       \* how far each command is

disk == <<directories, receipts, selected, locked>>

\* Stages of an installation; of these, the holder of the lock is in Building.
Building == {"building", "recording", "writing", "unlocking"}
Installing == {"reading", "asking", "selecting"} \cup Building

\* Stages of a managed start around it.
Starting == {"loading", "matching", "consenting", "spawning"}
Serving  == {"spawned", "authenticating", "open", "closing"}
Ended    == {"done", "failed", "unconfirmed", "killed"}

\* Why a digest is installed: by setup-node, as the one selected, for want of a
\* selection, or as the update of an older one.
Purpose == {"setup", "selected", "first", "update"}

Command ==
  [stage : {"idle"} \cup Installing \cup Starting \cup Serving \cup Ended,
   purpose : Purpose, digest : Digest \cup {None}, directory : Directory \cup {None}]

Idle == [stage |-> "idle", purpose |-> "setup", digest |-> None, directory |-> None]

\* Nothing is installed, or one release is, and selected.
InitDisk ==
  \/ /\ directories = [n \in Directory |-> [digest |-> None, state |-> "none"]]
     /\ receipts = [d \in Digest |-> None] /\ selected = None /\ locked = FALSE
  \/ /\ 1 \in Directory
     /\ \E d \in Digest :
          /\ directories = [n \in Directory |-> IF n = 1 THEN [digest |-> d, state |-> "built"]
                                                        ELSE [digest |-> None, state |-> "none"]]
          /\ receipts = [e \in Digest |-> IF e = d THEN 1 ELSE None]
          /\ selected = d
     /\ locked = FALSE

At(p, stage) == command[p].stage = stage

Goes(p, stage) == command' = [command EXCEPT ![p].stage = stage]

\* A stale or torn file, a failed probe, subprocess, download or write: the command throws.
Fails(p) == Goes(p, "failed")

-----------------------------------------------------------------------------
(* installManagedNode()                                                    *)

Installs(p, purpose, d) ==
  command' = [command EXCEPT ![p].stage = "reading", ![p].purpose = purpose, ![p].digest = d,
                             ![p].directory = None]

SetupCommand(p) ==
  /\ At(p, "idle")
  /\ \E d \in Digest : Installs(p, "setup", d)
  /\ UNCHANGED disk

\* The environment verified is used as it is.
Verified(p, n) ==
  command' = [command EXCEPT ![p].stage = IF command[p].purpose = "selected" THEN "matching" ELSE "selecting",
                             ![p].directory = n]

\* An existing receipt is verified and never repaired; without one, setup needs consent,
\* which a selected release does not get.
ReadReceipt(p) ==
  /\ At(p, "reading")
  /\ LET n == receipts[command[p].digest] IN
     \/ n \in Directory /\ directories[n].state = "built" /\ Verified(p, n)
     \/ n = None /\ command[p].purpose # "selected" /\ Goes(p, "asking")
     \/ Fails(p)
  /\ UNCHANGED disk

\* Mutant: the lock is opened, whether or not it exists.
AuthorizedBesideLock(p) ==
  /\ At(p, "asking")
  /\ \E n \in Directory :
       /\ directories[n].state = "none"
       /\ directories' = [directories EXCEPT ![n] = [digest |-> command[p].digest, state |-> "partial"]]
       /\ command' = [command EXCEPT ![p].stage = "building", ![p].directory = n]
  /\ locked' = TRUE
  /\ UNCHANGED <<receipts, selected>>

\* Consent is given (an update has it already), and the lock is created exclusively.
Authorized(p) ==
  /\ At(p, "asking")
  /\ ~locked
  /\ \E n \in Directory :
       /\ directories[n].state = "none"
       /\ directories' = [directories EXCEPT ![n] = [digest |-> command[p].digest, state |-> "partial"]]
       /\ command' = [command EXCEPT ![p].stage = "building", ![p].directory = n]
  /\ locked' = TRUE
  /\ UNCHANGED <<receipts, selected>>

\* No consent, or another setup is active or was interrupted.
Refused(p) ==
  /\ At(p, "asking")
  /\ Fails(p)
  /\ UNCHANGED disk

\* Mutant: the receipt is due before the environment is verified.
BuiltUnverified(p) ==
  /\ At(p, "building")
  /\ Goes(p, "recording")
  /\ UNCHANGED disk

\* Downloaded, installed and verified.
Built(p) ==
  /\ At(p, "building")
  /\ directories' = [directories EXCEPT ![command[p].directory].state = "built"]
  /\ Goes(p, "recording")
  /\ UNCHANGED <<receipts, selected, locked>>

\* Mutant: the receipt is written over one that another setup created meanwhile.
CreateReceiptAnyway(p) ==
  /\ At(p, "recording")
  /\ receipts' = [receipts EXCEPT ![command[p].digest] = 0]
  /\ Goes(p, "writing")
  /\ UNCHANGED <<directories, selected, locked>>

\* The receipt is created exclusively ...
CreateReceipt(p) ==
  /\ At(p, "recording")
  /\ receipts[command[p].digest] = None
  /\ receipts' = [receipts EXCEPT ![command[p].digest] = 0]
  /\ Goes(p, "writing")
  /\ UNCHANGED <<directories, selected, locked>>

\* ... written and synchronised ...
WriteReceipt(p) ==
  /\ At(p, "writing")
  /\ receipts' = [receipts EXCEPT ![command[p].digest] = command[p].directory]
  /\ Goes(p, "unlocking")
  /\ UNCHANGED <<directories, selected, locked>>

\* ... and the lock removed.
Unlock(p) ==
  /\ At(p, "unlocking")
  /\ locked' = FALSE
  /\ Goes(p, "selecting")
  /\ UNCHANGED <<directories, receipts, selected>>

\* Whatever fails under the lock leaves what it wrote and removes the lock, unless that
\* is what fails.
BuildFails(p) ==
  /\ command[p].stage \in Building
  /\ locked' \in BOOLEAN
  /\ Fails(p)
  /\ UNCHANGED <<directories, receipts, selected>>

-----------------------------------------------------------------------------
(* selectManagedNode(), selectedNodeRelease()                              *)

\* The selection is written beside the old one and renamed over it.
Select(p) ==
  /\ At(p, "selecting")
  /\ \/ /\ selected' = command[p].digest
        /\ Goes(p, IF command[p].purpose = "setup" THEN "done" ELSE "spawning")
     \/ Fails(p) /\ UNCHANGED selected
  /\ UNCHANGED <<directories, receipts, locked>>

StartCommand(p) ==
  /\ At(p, "idle")
  /\ Goes(p, "loading")
  /\ UNCHANGED disk

\* The release selected is verified before anything else is considered.
LoadSelected(p) ==
  /\ At(p, "loading")
  /\ \/ selected = None /\ Goes(p, "matching")
     \/ selected # None /\ receipts[selected] \in Directory /\ Installs(p, "selected", selected)
     \/ selected # None /\ Fails(p)
  /\ UNCHANGED disk

\* The one automatic transition: from 0.2.0 to the 0.2.1 of this product.
UpdateDue(p, bundled) == command[p].digest \in Old /\ bundled \notin Old

\* The release this product brings, or none: it is installed if nothing was selected, and
\* after consent if it is the update; else the one selected is started.
LoadBundled(p) ==
  /\ At(p, "matching")
  /\ \/ /\ command[p].digest = None
        /\ \/ \E b \in Digest : Installs(p, "first", b)
           \/ Goes(p, "done")
     \/ /\ command[p].digest # None
        /\ \/ \E b \in Digest :
                IF UpdateDue(p, b)
                  THEN command' = [command EXCEPT ![p].stage = "consenting", ![p].purpose = "update",
                                                  ![p].digest = b]
                  ELSE Goes(p, "spawning")
           \/ Goes(p, "spawning")
     \/ Fails(p)
  /\ UNCHANGED disk

Consent(p) ==
  /\ At(p, "consenting")
  /\ Installs(p, "update", command[p].digest) \/ Fails(p)
  /\ UNCHANGED disk

-----------------------------------------------------------------------------
(* The computer                                                            *)

\* An installed environment is damaged from outside.
Damage(n) ==
  /\ directories[n].state = "built"
  /\ directories' = [directories EXCEPT ![n].state = "damaged"]
  /\ UNCHANGED <<receipts, selected, locked, command>>

\* The operator removes the lock of a setup that is no longer active.
RemoveLock ==
  /\ locked /\ \A p \in Process : command[p].stage \notin Building
  /\ locked' = FALSE
  /\ UNCHANGED <<directories, receipts, selected, command>>
=============================================================================
