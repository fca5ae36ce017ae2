------------------------------ MODULE ManagedNode ------------------------------
(***************************************************************************)
(* The harness with a Node of its own: the managed start over the shared   *)
(* installations, the child process it owns (cli/src/harness/              *)
(* node-supervisor.js) and the command around both (cli/src/commands/      *)
(* harness.js), next to other commands on the same computer.               *)
(*                                                                         *)
(* The child is the Node itself, outside of this repository: it may say    *)
(* that it is ready, exit at any time, and heed or ignore the shutdown     *)
(* that is asked for on its standard input, whose end asks for it too.     *)
(***************************************************************************)
EXTENDS NodeInstallation

VARIABLES
  child,     \* the Node that each command has spawned
  outcome    \* how the part of the command that used the Node ended

vars == <<directories, receipts, selected, locked, command, child, outcome>>

\* "unspawned": the spawn failed after the fact, and no exit is ever told.
Child   == {"none", "unspawned", "starting", "ready", "exited"}
Outcome == {"none", "startup", "completed", "failed"}

TypeOK ==
  /\ directories \in [Directory -> [digest : Digest \cup {None},
                                    state : {"none", "partial", "built", "damaged"}]]
  /\ receipts \in [Digest -> Directory \cup {None, 0}]
  /\ selected \in Digest \cup {None} /\ locked \in BOOLEAN
  /\ command \in [Process -> Command]
  /\ child \in [Process -> Child] /\ outcome \in [Process -> Outcome]

Init ==
  /\ InitDisk
  /\ command = [p \in Process |-> Idle]
  /\ child = [p \in Process |-> "none"] /\ outcome = [p \in Process |-> "none"]

-----------------------------------------------------------------------------
(* startNodeSupervisor()                                                   *)

\* The child is spawned, or spawn() throws or tells an error.
Spawn(p) ==
  /\ At(p, "spawning")
  /\ \/ \E c \in {"starting", "unspawned"} :
          child' = [child EXCEPT ![p] = c] /\ Goes(p, "spawned")
     \/ Fails(p) /\ UNCHANGED child
  /\ UNCHANGED <<disk, outcome>>

\* The readiness record is exact: ask for the status with the fresh secret.
Ready(p) ==
  /\ At(p, "spawned") /\ child[p] = "ready"
  /\ Goes(p, "authenticating")
  /\ UNCHANGED <<disk, child, outcome>>

\* dispose() is called: what used the Node is over, and why.
Closes(p, why) ==
  /\ Goes(p, "closing")
  /\ outcome' = [outcome EXCEPT ![p] = why]

\* Mutant: without a readiness record nothing but the exit is noticed.
NotReadyExitOnly(p) ==
  /\ At(p, "spawned") /\ child[p] = "exited"
  /\ Closes(p, "startup")
  /\ UNCHANGED <<disk, child>>

\* Another record or too much output, the exit, a spawn error, or the start timeout.
NotReady(p) ==
  /\ At(p, "spawned")
  /\ Closes(p, "startup")
  /\ UNCHANGED <<disk, child>>

\* The Node authenticated itself in the mode that was asked for; the harness begins.
Authenticated(p) ==
  /\ At(p, "authenticating") /\ child[p] = "ready"
  /\ Goes(p, "open")
  /\ UNCHANGED <<disk, child, outcome>>

\* No answer in time, another mode, or the child has exited.
NotAuthenticated(p) ==
  /\ At(p, "authenticating")
  /\ Closes(p, "startup")
  /\ UNCHANGED <<disk, child>>

\* The harness ends, and its runtime is disposed of before the Node.
RunEnds(p) ==
  /\ At(p, "open")
  /\ \E why \in {"completed", "failed"} : Closes(p, why)
  /\ UNCHANGED <<disk, child>>

\* The child has exited when dispose() looks, or before its deadline.
ExitSeen(p) ==
  /\ At(p, "closing") /\ child[p] = "exited"
  /\ Goes(p, IF outcome[p] = "completed" THEN "done" ELSE "failed")
  /\ UNCHANGED <<disk, child, outcome>>

\* The deadline passes: never killed, and told to whoever is waiting.
ShutdownUnconfirmed(p) ==
  /\ At(p, "closing") /\ child[p] # "exited"
  /\ Goes(p, "unconfirmed")
  /\ UNCHANGED <<disk, child, outcome>>

-----------------------------------------------------------------------------
(* The Node, and the end of the process                                    *)

ChildReady(p) ==
  /\ child[p] = "starting"
  /\ child' = [child EXCEPT ![p] = "ready"]
  /\ UNCHANGED <<disk, command, outcome>>

ChildExits(p) ==
  /\ child[p] \in {"starting", "ready"}
  /\ child' = [child EXCEPT ![p] = "exited"]
  /\ UNCHANGED <<disk, command, outcome>>

Killed(p) ==
  /\ command[p].stage \notin Ended \cup {"idle"}
  /\ Goes(p, "killed")
  /\ UNCHANGED <<disk, child, outcome>>

-----------------------------------------------------------------------------

Installation(p) ==
  /\ \/ SetupCommand(p) \/ StartCommand(p) \/ LoadSelected(p) \/ LoadBundled(p) \/ Consent(p)
     \/ ReadReceipt(p) \/ Authorized(p) \/ Refused(p)
     \/ Built(p) \/ CreateReceipt(p) \/ WriteReceipt(p) \/ Unlock(p) \/ BuildFails(p) \/ Select(p)
  /\ UNCHANGED <<child, outcome>>

Supervision(p) ==
  \/ Spawn(p) \/ Ready(p) \/ NotReady(p) \/ Authenticated(p) \/ NotAuthenticated(p)
  \/ RunEnds(p) \/ ExitSeen(p) \/ ShutdownUnconfirmed(p)

Outside ==
  /\ (\E n \in Directory : Damage(n)) \/ RemoveLock
  /\ UNCHANGED <<child, outcome>>

Next ==
  \/ \E p \in Process : Installation(p) \/ Supervision(p) \/ Killed(p) \/ ChildReady(p) \/ ChildExits(p)
  \/ Outside

\* The start timeout, the bound of the status request and the shutdown deadline.
Timers ==
  \A p \in Process : /\ WF_vars(NotReady(p)) /\ WF_vars(NotAuthenticated(p))
                     /\ WF_vars(ExitSeen(p) \/ ShutdownUnconfirmed(p))

Spec == Init /\ [][Next]_vars /\ Timers

-----------------------------------------------------------------------------
(* Properties                                                              *)

\* n is an environment that was verified for d.
Installed(d, n) ==
  n \in Directory /\ directories[n].digest = d /\ directories[n].state \in {"built", "damaged"}

\* Whatever was killed or raced: the selection and every finished receipt name an
\* environment that was verified for them, and only such a Node is started ("never
\* activate a receipt", node-installation.test.js:204).
OnlyVerified ==
  /\ \A d \in Digest : receipts[d] \in Directory => Installed(d, receipts[d])
  /\ selected # None => Installed(selected, receipts[selected])
  /\ \A p \in Process : child[p] # "none" => Installed(command[p].digest, command[p].directory)

\* A successful installation is never overwritten, by a second setup of the same
\* release that had seen none either (node-installation.js:257).
ReceiptPermanent ==
  [][\A d \in Digest : receipts[d] \in Directory => receipts'[d] = receipts[d]]_vars

\* One setup builds at a time, and the lock of an interrupted one is not taken over.
OneBuilder ==
  \A p, q \in Process :
    command[p].stage \in Building /\ command[q].stage \in Building => p = q

\* A Node that may be running when its command has ended is reported, unless the
\* command was killed.
RunningIsReported ==
  \A p \in Process :
    command[p].stage \in {"done", "failed"} => child[p] \in {"none", "exited"}

\* Startup and shutdown end in bounded time whatever the Node does.
StartAndStopEnd ==
  \A p \in Process :
    command[p].stage \in {"spawned", "authenticating", "closing"}
      ~> command[p].stage \in Ended \cup {"open"}
=============================================================================
