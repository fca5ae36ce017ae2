-------------------------- MODULE ManagedNode_proofs --------------------------
(***************************************************************************)
(* Proofs about ManagedNode: its types, that only verified environments    *)
(* are selected or started, that installations are permanent and built one *)
(* at a time, and that a Node that may be running is reported, for any     *)
(* number of commands, releases and directories.                           *)
(***************************************************************************)
EXTENDS ManagedNode, TLAPS

\* What a command relies on while it is where it is.
Holds(c) ==
  /\ c.stage \in Installing \cup {"consenting", "spawning"} => c.digest \in Digest
  /\ c.stage \in Building =>
       /\ locked /\ c.directory \in Directory
       /\ directories[c.directory].digest = c.digest
       /\ directories[c.directory].state # "none"
  /\ c.stage \in {"recording", "writing", "unlocking", "selecting", "spawning"} \cup Serving
       => Installed(c.digest, c.directory)
  /\ c.stage = "matching" /\ c.digest # None => Installed(c.digest, c.directory)
  /\ c.stage = "writing" => receipts[c.digest] = 0
  /\ c.stage = "unlocking" => receipts[c.digest] = c.directory
  /\ c.stage = "selecting" => receipts[c.digest] \in Directory
  /\ c.stage \in {"idle", "loading"} => c.digest = None

\* Before it is spawned there is no child, and a command that ended as told has none
\* that may be running.
Owns(c, ch) ==
  /\ c.stage \notin Serving \cup Ended => ch = "none"
  /\ c.stage \in {"done", "failed"} => ch \in {"none", "exited"}
  /\ ch # "none" => Installed(c.digest, c.directory)

EachHolds == \A p \in Process : Holds(command[p]) /\ Owns(command[p], child[p])

ReceiptsInv == \A d \in Digest : receipts[d] \in Directory => Installed(d, receipts[d])

SelectedInv == selected # None => receipts[selected] \in Directory

IInv == TypeOK /\ OneBuilder /\ EachHolds /\ ReceiptsInv /\ SelectedInv

USE DEF Building

\* A step of one command that leaves the disk alone.
LEMMA CommandMoves ==
  ASSUME IInv, NEW p \in Process, NEW c \in Command, NEW ch \in Child,
         command' = [command EXCEPT ![p] = c], child' = [child EXCEPT ![p] = ch],
         outcome' \in [Process -> Outcome], UNCHANGED disk,
         Holds(c), Owns(c, ch),
         c.stage \in Building => command[p].stage \in Building
  PROVE  IInv'
<1>0. /\ command \in [Process -> Command] /\ child \in [Process -> Child]
      /\ UNCHANGED <<directories, receipts, selected, locked>>
  BY DEF IInv, TypeOK, disk
<1>1. /\ command'[p] = c /\ child'[p] = ch
      /\ \A q \in Process : q # p => command'[q] = command[q] /\ child'[q] = child[q]
  BY <1>0
<1>2. TypeOK'
  BY <1>0 DEF IInv, TypeOK
<1>3. OneBuilder'
  BY <1>1 DEF IInv, OneBuilder
<1>4. EachHolds'
  <2> SUFFICES ASSUME NEW q \in Process PROVE (Holds(command[q]) /\ Owns(command[q], child[q]))'
    BY DEF EachHolds
  <2>1. CASE q = p
    BY <1>0, <1>1, <2>1 DEF Holds, Owns, Installed
  <2>2. CASE q # p
    BY <1>0, <1>1, <2>2 DEF IInv, EachHolds, Holds, Owns, Installed
  <2> QED BY <2>1, <2>2
<1>5. ReceiptsInv' /\ SelectedInv'
  BY <1>0 DEF IInv, ReceiptsInv, SelectedInv, Installed
<1> QED BY <1>2, <1>3, <1>4, <1>5 DEF IInv

\* What a change of stage, and the beginning of an installation, make of a command.
LEMMA StageMoves ==
  ASSUME IInv, NEW p \in Process, NEW s \in {"idle"} \cup Installing \cup Starting \cup Serving \cup Ended,
         Goes(p, s)
  PROVE  \E c \in Command :
           /\ command' = [command EXCEPT ![p] = c] /\ c.stage = s
           /\ c.digest = command[p].digest /\ c.directory = command[p].directory
           /\ c.purpose = command[p].purpose
<1> DEFINE c == [command[p] EXCEPT !.stage = s]
<1>1. command[p] \in Command
  BY DEF IInv, TypeOK
<1>2. c \in Command /\ c.stage = s /\ c.digest = command[p].digest /\ c.directory = command[p].directory
      /\ c.purpose = command[p].purpose
  BY <1>1 DEF Command
<1>3. command' = [command EXCEPT ![p] = c]
  BY DEF Goes
<1> HIDE DEF c
<1> QED BY <1>2, <1>3

\* The command that goes on to install, with nothing of an earlier attempt.
LEMMA InstallMoves ==
  ASSUME IInv, NEW p \in Process, NEW why \in Purpose, NEW d \in Digest, Installs(p, why, d)
  PROVE  \E c \in Command :
           /\ command' = [command EXCEPT ![p] = c] /\ c.stage = "reading"
           /\ c.digest = d /\ c.directory = None /\ c.purpose = why
<1> DEFINE c == [command[p] EXCEPT !.stage = "reading", !.purpose = why, !.digest = d, !.directory = None]
<1>1. command[p] \in Command /\ command \in [Process -> Command]
  BY DEF IInv, TypeOK
<1>2. c \in Command /\ c.stage = "reading" /\ c.digest = d /\ c.directory = None /\ c.purpose = why
  BY <1>1 DEF Command, Installing
<1>3. command' = [command EXCEPT ![p] = c]
  BY <1>1 DEF Installs
<1> HIDE DEF c
<1> QED BY <1>2, <1>3

\* A change of stage alone, to one that relies on nothing more.
LEMMA StageKeeps ==
  ASSUME IInv, NEW p \in Process, NEW s \in {"idle"} \cup Installing \cup Starting \cup Serving \cup Ended,
         NEW ch \in Child, Goes(p, s), child' = [child EXCEPT ![p] = ch],
         outcome' \in [Process -> Outcome], UNCHANGED disk,
         s \notin Building \cup {"selecting"},
         s \in {"idle", "loading"} => command[p].digest = None,
         s \in Installing \cup {"consenting", "spawning"} => command[p].digest \in Digest,
         s \in {"spawning"} \cup Serving \/ (s = "matching" /\ command[p].digest # None) \/ ch # "none"
           => Installed(command[p].digest, command[p].directory),
         s \notin Serving \cup Ended => ch = "none",
         s \in {"done", "failed"} => ch \in {"none", "exited"}
  PROVE  IInv'
<1>1. PICK c \in Command :
        /\ command' = [command EXCEPT ![p] = c] /\ c.stage = s
        /\ c.digest = command[p].digest /\ c.directory = command[p].directory
  BY StageMoves
<1>2. Holds(c)
  BY <1>1 DEF Holds, Installed
<1>3. Owns(c, ch)
  BY <1>1 DEF Owns
<1>4. c.stage \notin Building
  BY <1>1
<1> QED BY <1>1, <1>2, <1>3, <1>4, CommandMoves

\* Where an installation begins.
LEMMA InstallKeeps ==
  ASSUME IInv, NEW p \in Process, NEW why \in Purpose, NEW d \in Digest, Installs(p, why, d),
         child[p] = "none", UNCHANGED <<disk, child, outcome>>
  PROVE  IInv'
<1>1. PICK c \in Command :
        /\ command' = [command EXCEPT ![p] = c] /\ c.stage = "reading" /\ c.digest = d
  BY InstallMoves
<1>2. Holds(c) /\ Owns(c, "none") /\ c.stage \notin Building
  BY <1>1 DEF Holds, Owns, Serving, Ended
<1>3. child' = [child EXCEPT ![p] = "none"] /\ "none" \in Child /\ outcome' \in [Process -> Outcome]
  BY DEF IInv, TypeOK, Child
<1> QED BY <1>1, <1>2, <1>3, CommandMoves

\* The steps of one command that only read the disk.
LEMMA ReadingKeeps ==
  ASSUME IInv, NEW p \in Process, UNCHANGED <<child, outcome>>,
         \/ SetupCommand(p) \/ StartCommand(p) \/ LoadSelected(p) \/ LoadBundled(p) \/ Consent(p)
         \/ ReadReceipt(p) \/ Refused(p)
  PROVE  IInv'
<1>0. /\ command[p] \in Command /\ child[p] \in Child /\ outcome' \in [Process -> Outcome]
      /\ child' = [child EXCEPT ![p] = child[p]]
      /\ Holds(command[p]) /\ Owns(command[p], child[p])
      /\ receipts \in [Digest -> Directory \cup {None, 0}] /\ selected \in Digest \cup {None}
      /\ ReceiptsInv /\ SelectedInv
  BY DEF IInv, TypeOK, EachHolds
<1>c. "none" \in Child
  BY DEF Child
<1>d. UNCHANGED disk
  BY DEF SetupCommand, StartCommand, LoadSelected, LoadBundled, Consent, ReadReceipt, Refused
<1>n. command[p].stage \in {"idle", "loading", "matching", "consenting", "reading", "asking"}
  BY DEF SetupCommand, StartCommand, LoadSelected, LoadBundled, Consent, ReadReceipt, Refused, At
<1>o. child[p] = "none"
  BY <1>0, <1>n DEF Owns, Serving, Ended
<1>f. ASSUME Fails(p) PROVE IInv'
  BY <1>0, <1>c, <1>d, <1>f, <1>o, StageKeeps DEF Fails, Installing, Serving, Ended
<1>g. ASSUME NEW s \in {"loading", "matching", "asking", "spawning", "done"}, Goes(p, s),
             s = "loading" => command[p].digest = None,
             s \in {"asking", "spawning"} => command[p].digest \in Digest,
             s = "spawning" \/ (s = "matching" /\ command[p].digest # None)
               => Installed(command[p].digest, command[p].directory)
      PROVE  IInv'
  BY <1>0, <1>c, <1>d, <1>g, <1>o, StageKeeps DEF Installing, Starting, Serving, Ended
<1>1. CASE SetupCommand(p)
  BY <1>1, <1>d, <1>o, InstallKeeps DEF SetupCommand, Purpose
<1>2. CASE StartCommand(p)
  <2>1. command[p].stage = "idle" /\ Goes(p, "loading")
    BY <1>2 DEF StartCommand, At
  <2> QED BY <1>0, <1>g, <2>1 DEF Holds
<1>3. CASE LoadSelected(p)
  <2>1. CASE Goes(p, "matching")
    <3>1. command[p].digest = None
      BY <1>0, <1>3 DEF LoadSelected, At, Holds
    <3> QED BY <1>g, <2>1, <3>1
  <2>2. CASE selected # None /\ Installs(p, "selected", selected)
    BY <1>0, <1>d, <1>o, <2>2, InstallKeeps DEF Purpose
  <2> QED BY <1>3, <1>f, <2>1, <2>2 DEF LoadSelected
<1>4. CASE LoadBundled(p)
  <2>0. command[p].stage = "matching" /\ command[p].digest \in Digest \cup {None}
    BY <1>0, <1>4 DEF LoadBundled, At, Command
  <2>1. ASSUME NEW b \in Digest, Installs(p, "first", b) PROVE IInv'
    BY <1>d, <1>o, <2>1, InstallKeeps DEF Purpose
  <2>2. CASE command[p].digest = None /\ Goes(p, "done")
    BY <1>g, <2>2
  <2>3. CASE command[p].digest # None /\ Goes(p, "spawning")
    BY <1>0, <1>g, <2>0, <2>3 DEF Holds
  <2>4. ASSUME NEW b \in Digest,
               command' = [command EXCEPT ![p].stage = "consenting", ![p].purpose = "update", ![p].digest = b]
        PROVE  IInv'
    <3> DEFINE c == [command[p] EXCEPT !.stage = "consenting", !.purpose = "update", !.digest = b]
    <3>1. c \in Command /\ c.stage = "consenting" /\ c.digest = b
      BY <1>0 DEF Command, Starting, Purpose
    <3>2. command' = [command EXCEPT ![p] = c]
      BY <2>4
    <3> HIDE DEF c
    <3>3. Holds(c) /\ Owns(c, "none") /\ c.stage \notin Building
      BY <3>1 DEF Holds, Owns, Serving, Ended
    <3> QED BY <1>0, <1>c, <1>d, <1>o, <3>1, <3>2, <3>3, CommandMoves
  <2> QED BY <1>4, <1>f, <2>1, <2>2, <2>3, <2>4 DEF LoadBundled
<1>5. CASE Consent(p)
  <2>1. command[p].digest \in Digest
    BY <1>0, <1>5 DEF Consent, At, Holds
  <2>2. CASE Installs(p, "update", command[p].digest)
    BY <1>d, <1>o, <2>1, <2>2, InstallKeeps DEF Purpose
  <2> QED BY <1>5, <1>f, <2>2 DEF Consent
<1>6. CASE ReadReceipt(p)
  <2>0. command[p].digest \in Digest
    BY <1>0, <1>6 DEF ReadReceipt, At, Holds, Installing
  <2>1. CASE Goes(p, "asking")
    BY <1>g, <2>0, <2>1
  <2>2. ASSUME NEW n \in Directory, n = receipts[command[p].digest], Verified(p, n) PROVE IInv'
    <3> DEFINE s == IF command[p].purpose = "selected" THEN "matching" ELSE "selecting"
               c == [command[p] EXCEPT !.stage = s, !.directory = n]
    <3>1. c \in Command /\ c.stage = s /\ c.digest = command[p].digest /\ c.directory = n
      BY <1>0 DEF Command, Starting, Installing
    <3>2. command' = [command EXCEPT ![p] = c]
      BY <2>2 DEF Verified
    <3>3. s \in {"matching", "selecting"}
      OBVIOUS
    <3>4. Installed(command[p].digest, n)
      BY <1>0, <2>0, <2>2 DEF ReceiptsInv
    <3> HIDE DEF c, s
    <3>5. Holds(c)
      BY <2>0, <2>2, <3>1, <3>3, <3>4 DEF Holds, Serving
    <3>6. Owns(c, "none") /\ c.stage \notin Building
      BY <3>1, <3>3 DEF Owns, Serving, Ended
    <3> QED BY <1>0, <1>c, <1>d, <1>o, <3>1, <3>2, <3>5, <3>6, CommandMoves
  <2> QED BY <1>6, <1>f, <2>1, <2>2 DEF ReadReceipt
<1>7. CASE Refused(p)
  BY <1>7, <1>f DEF Refused
<1> QED BY <1>1, <1>2, <1>3, <1>4, <1>5, <1>6, <1>7

\* A step of one command that changes the disk: nobody else builds, or only the
\* selection changes.
LEMMA DiskMoves ==
  ASSUME IInv, NEW p \in Process, NEW c \in Command,
         command' = [command EXCEPT ![p] = c], UNCHANGED <<child, outcome>>,
         directories' \in [Directory -> [digest : Digest \cup {None},
                                         state : {"none", "partial", "built", "damaged"}]],
         receipts' \in [Digest -> Directory \cup {None, 0}],
         selected' \in Digest \cup {None}, locked' \in BOOLEAN,
         \A d, n : Installed(d, n) => Installed(d, n)',
         \A d \in Digest : receipts[d] \in Directory => receipts'[d] = receipts[d],
         \/ \A q \in Process : q # p => command[q].stage \notin Building
         \/ c.stage \notin Building /\ UNCHANGED <<directories, receipts, locked>>,
         Holds(c)', child[p] = "none",
         ReceiptsInv', selected' # None => receipts'[selected'] \in Directory
  PROVE  IInv'
<1>0. command \in [Process -> Command] /\ child \in [Process -> Child]
  BY DEF IInv, TypeOK
<1>1. /\ command'[p] = c /\ child' = child
      /\ \A q \in Process : q # p => command'[q] = command[q]
  BY <1>0
<1>2. TypeOK'
  BY <1>0 DEF IInv, TypeOK
<1>3. OneBuilder'
  BY <1>1 DEF IInv, OneBuilder
<1>o. child[p] = "none"
  OBVIOUS
<1>4. ASSUME NEW q \in Process PROVE (Holds(command[q]) /\ Owns(command[q], child[q]))'
  <2>1. CASE q = p
    <3>1. command'[q] = c /\ child'[q] = "none"
      BY <1>1, <1>o, <2>1
    <3> QED BY <3>1, <2>1 DEF Owns, Holds, Installed
  <2>2. CASE q # p
    <3>1. command'[q] = command[q] /\ child'[q] = child[q] /\ command[q] \in Command
      BY <1>0, <1>1, <2>2
    <3>2. Holds(command[q]) /\ Owns(command[q], child[q])
      BY DEF IInv, EachHolds
    <3>3. command[q].stage \notin Building \/ UNCHANGED <<directories, receipts, locked>>
      BY <2>2
    <3>4. Owns(command[q], child[q])'
      BY <3>1, <3>2 DEF Owns
    <3>5. Holds(command[q])'
      <4>1. CASE UNCHANGED <<directories, receipts, locked>>
        BY <3>1, <3>2, <4>1 DEF Holds, Installed
      <4>2. CASE command[q].stage \notin Building
        <5>1. command[q].stage \in {"selecting"} => command[q].digest \in Digest
          BY <3>2 DEF Holds, Installing
        <5> QED BY <3>1, <3>2, <4>2, <5>1 DEF Holds
      <4> QED BY <3>3, <4>1, <4>2
    <3> QED BY <3>4, <3>5
  <2> QED BY <2>1, <2>2
<1>5. SelectedInv'
  BY DEF SelectedInv
<1> QED BY <1>2, <1>3, <1>4, <1>5 DEF IInv, EachHolds


\* The steps of one command that change the disk.
LEMMA WritingKeeps ==
  ASSUME IInv, NEW p \in Process, UNCHANGED <<child, outcome>>,
         \/ Authorized(p) \/ Built(p) \/ CreateReceipt(p) \/ WriteReceipt(p) \/ Unlock(p)
         \/ BuildFails(p) \/ Select(p)
  PROVE  IInv'
<1>0. /\ command[p] \in Command /\ command \in [Process -> Command]
      /\ directories \in [Directory -> [digest : Digest \cup {None},
                                        state : {"none", "partial", "built", "damaged"}]]
      /\ receipts \in [Digest -> Directory \cup {None, 0}]
      /\ selected \in Digest \cup {None} /\ locked \in BOOLEAN
      /\ Holds(command[p]) /\ Owns(command[p], child[p])
      /\ ReceiptsInv /\ SelectedInv
  BY DEF IInv, TypeOK, EachHolds
<1>n. command[p].stage \in {"asking", "building", "recording", "writing", "unlocking", "selecting"}
  BY DEF Authorized, Built, CreateReceipt, WriteReceipt, Unlock, BuildFails, Select, At
<1>o. child[p] = "none"
  BY <1>0, <1>n DEF Owns, Serving, Ended
<1>d. command[p].digest \in Digest
  BY <1>0, <1>n DEF Holds, Installing
<1>a. ASSUME command[p].stage \in Building \/ ~locked
      PROVE  \A q \in Process : q # p => command[q].stage \notin Building
  BY <1>a DEF IInv, OneBuilder, EachHolds, Holds
<1>z. 0 \notin Directory /\ None \notin Directory /\ None \notin Digest /\ None # 0
  BY InstallationAssumption DEF Directory
<1>1. CASE Authorized(p)
  <2>1. PICK n \in Directory :
          /\ directories[n].state = "none"
          /\ directories' = [directories EXCEPT ![n] = [digest |-> command[p].digest, state |-> "partial"]]
          /\ command' = [command EXCEPT ![p].stage = "building", ![p].directory = n]
    BY <1>1 DEF Authorized
  <2> DEFINE b == [command[p] EXCEPT !.stage = "building", !.directory = n]
  <2>2. b \in Command /\ b.stage = "building" /\ b.digest = command[p].digest /\ b.directory = n
    BY <1>0 DEF Command, Installing
  <2>3. command' = [command EXCEPT ![p] = b]
    BY <2>1
  <2> HIDE DEF b
  <2>4. PICK c \in Command :
          /\ command' = [command EXCEPT ![p] = c] /\ c.stage = "building"
          /\ c.digest = command[p].digest /\ c.directory = n
    BY <2>2, <2>3
  <2>5. /\ locked' = TRUE /\ ~locked
        /\ UNCHANGED <<receipts, selected>>
    BY <1>1 DEF Authorized
  <2>6. directories' \in [Directory -> [digest : Digest \cup {None},
                                        state : {"none", "partial", "built", "damaged"}]]
    BY <1>0, <1>d, <2>1
  <2>7. \A d, m : Installed(d, m) => Installed(d, m)'
    BY <1>0, <2>1 DEF Installed
  <2>8. Holds(c)'
    BY <1>0, <1>d, <2>1, <2>4, <2>5 DEF Holds, Installing, Serving
  <2>9. ReceiptsInv'
    BY <1>0, <2>5, <2>7 DEF ReceiptsInv
  <2> QED BY <1>0, <1>a, <1>o, <2>4, <2>5, <2>6, <2>7, <2>8, <2>9, DiskMoves DEF SelectedInv
<1>2. CASE Built(p)
  <2>1. PICK c \in Command :
          /\ command' = [command EXCEPT ![p] = c] /\ c.stage = "recording"
          /\ c.digest = command[p].digest /\ c.directory = command[p].directory
    BY <1>2, StageMoves DEF Built, Installing
  <2>2. /\ command[p].stage = "building" /\ UNCHANGED <<receipts, selected, locked>>
        /\ directories' = [directories EXCEPT ![command[p].directory].state = "built"]
    BY <1>2 DEF Built, At
  <2>3. /\ locked /\ command[p].directory \in Directory
        /\ directories[command[p].directory].digest = command[p].digest
    BY <1>0, <2>2 DEF Holds
  <2>4. directories' \in [Directory -> [digest : Digest \cup {None},
                                        state : {"none", "partial", "built", "damaged"}]]
    BY <1>0, <2>2, <2>3
  <2>5. \A d, m : Installed(d, m) => Installed(d, m)'
    BY <1>0, <2>2, <2>3 DEF Installed
  <2>6. Installed(c.digest, c.directory)'
    BY <1>0, <2>1, <2>2, <2>3 DEF Installed
  <2>7. Holds(c)'
    BY <1>0, <1>d, <2>1, <2>2, <2>3, <2>6 DEF Holds, Installed
  <2>8. ReceiptsInv'
    BY <1>0, <2>2, <2>5 DEF ReceiptsInv
  <2> QED BY <1>0, <1>a, <1>o, <2>1, <2>2, <2>4, <2>5, <2>7, <2>8, DiskMoves DEF SelectedInv
<1>3. CASE CreateReceipt(p)
  <2>1. PICK c \in Command :
          /\ command' = [command EXCEPT ![p] = c] /\ c.stage = "writing"
          /\ c.digest = command[p].digest /\ c.directory = command[p].directory
    BY <1>3, StageMoves DEF CreateReceipt, Installing
  <2>2. /\ command[p].stage = "recording" /\ UNCHANGED <<directories, selected, locked>>
        /\ receipts' = [receipts EXCEPT ![command[p].digest] = 0]
        /\ receipts[command[p].digest] = None
    BY <1>3 DEF CreateReceipt, At
  <2>3. receipts' \in [Digest -> Directory \cup {None, 0}]
    BY <1>0, <1>d, <2>2
  <2>4. \A d \in Digest : receipts[d] \in Directory => receipts'[d] = receipts[d]
    BY <1>0, <1>z, <2>2
  <2>5. \A d, m : Installed(d, m) => Installed(d, m)'
    BY <2>2 DEF Installed
  <2>6. Holds(c)'
    BY <1>0, <1>d, <2>1, <2>2, <2>5 DEF Holds
  <2>7. ReceiptsInv'
    BY <1>0, <1>d, <1>z, <2>2, <2>5 DEF ReceiptsInv
  <2>8. selected' # None => receipts'[selected'] \in Directory
    BY <1>0, <2>2, <2>4 DEF SelectedInv
  <2> QED BY <1>0, <1>a, <1>o, <2>1, <2>2, <2>3, <2>4, <2>5, <2>6, <2>7, <2>8, DiskMoves
<1>4. CASE WriteReceipt(p)
  <2>1. PICK c \in Command :
          /\ command' = [command EXCEPT ![p] = c] /\ c.stage = "unlocking"
          /\ c.digest = command[p].digest /\ c.directory = command[p].directory
    BY <1>4, StageMoves DEF WriteReceipt, Installing
  <2>2. /\ command[p].stage = "writing" /\ UNCHANGED <<directories, selected, locked>>
        /\ receipts' = [receipts EXCEPT ![command[p].digest] = command[p].directory]
    BY <1>4 DEF WriteReceipt, At
  <2>3. /\ receipts[command[p].digest] = 0 /\ command[p].directory \in Directory
        /\ Installed(command[p].digest, command[p].directory)
    BY <1>0, <2>2 DEF Holds
  <2>4. receipts' \in [Digest -> Directory \cup {None, 0}]
    BY <1>0, <1>d, <2>2, <2>3
  <2>5. \A d \in Digest : receipts[d] \in Directory => receipts'[d] = receipts[d]
    BY <1>0, <1>z, <2>2, <2>3
  <2>6. \A d, m : Installed(d, m) => Installed(d, m)'
    BY <2>2 DEF Installed
  <2>7. Holds(c)'
    BY <1>0, <1>d, <2>1, <2>2, <2>6 DEF Holds
  <2>8. ReceiptsInv'
    BY <1>0, <1>d, <2>2, <2>3, <2>6 DEF ReceiptsInv
  <2>9. selected' # None => receipts'[selected'] \in Directory
    BY <1>0, <2>2, <2>5 DEF SelectedInv
  <2> QED BY <1>0, <1>a, <1>o, <2>1, <2>2, <2>4, <2>5, <2>6, <2>7, <2>8, <2>9, DiskMoves
<1>5. CASE Unlock(p) \/ BuildFails(p)
  <2>1. /\ command[p].stage \in Building /\ UNCHANGED <<directories, receipts, selected>>
        /\ locked' \in BOOLEAN
    BY <1>5 DEF Unlock, BuildFails, At
  <2>2. \A d, m : Installed(d, m) => Installed(d, m)'
    BY <2>1 DEF Installed
  <2>3. ReceiptsInv' /\ (selected' # None => receipts'[selected'] \in Directory)
    BY <1>0, <2>1, <2>2 DEF ReceiptsInv, SelectedInv
  <2>4. PICK c \in Command :
          /\ command' = [command EXCEPT ![p] = c]
          /\ c.stage = "failed" \/ (c.stage = "selecting" /\ command[p].stage = "unlocking")
          /\ c.digest = command[p].digest /\ c.directory = command[p].directory
    <3>1. CASE Unlock(p)
      BY <3>1, StageMoves DEF Unlock, At, Installing
    <3>2. CASE BuildFails(p)
      BY <3>2, StageMoves DEF BuildFails, Fails, Ended
    <3> QED BY <1>5, <3>1, <3>2
  <2>5. Holds(c)'
    BY <1>0, <1>d, <2>1, <2>2, <2>4 DEF Holds, Installing, Serving
  <2> QED BY <1>0, <1>a, <1>o, <2>1, <2>2, <2>3, <2>4, <2>5, DiskMoves
<1>6. CASE Select(p)
  <2>1. /\ command[p].stage = "selecting" /\ UNCHANGED <<directories, receipts, locked>>
        /\ selected' \in {selected, command[p].digest}
    BY <1>6 DEF Select, At
  <2>2. receipts[command[p].digest] \in Directory /\ Installed(command[p].digest, command[p].directory)
    BY <1>0, <2>1 DEF Holds
  <2>3. PICK c \in Command :
          /\ command' = [command EXCEPT ![p] = c] /\ c.stage \in {"done", "spawning", "failed"}
          /\ c.digest = command[p].digest /\ c.directory = command[p].directory
    <3>1. \E s \in {"done", "spawning", "failed"} : Goes(p, s)
      BY <1>6 DEF Select, Fails
    <3> QED BY <3>1, StageMoves DEF Starting, Ended
  <2>4. \A d, m : Installed(d, m) => Installed(d, m)'
    BY <2>1 DEF Installed
  <2>5. ReceiptsInv' /\ (selected' # None => receipts'[selected'] \in Directory)
    BY <1>0, <2>1, <2>2, <2>4 DEF ReceiptsInv, SelectedInv
  <2>6. Holds(c)' /\ c.stage \notin Building
    BY <1>0, <1>d, <2>1, <2>2, <2>3, <2>4 DEF Holds, Installing, Serving
  <2> QED BY <1>0, <1>d, <1>o, <2>1, <2>3, <2>4, <2>5, <2>6, DiskMoves
<1> QED BY <1>1, <1>2, <1>3, <1>4, <1>5, <1>6


\* The supervisor's steps, the child's, and the end of a command.
LEMMA SupervisionKeeps ==
  ASSUME IInv, NEW p \in Process, Supervision(p) \/ Killed(p)
  PROVE  IInv'
<1>0. /\ command[p] \in Command /\ child[p] \in Child /\ child \in [Process -> Child]
      /\ outcome \in [Process -> Outcome]
      /\ Holds(command[p]) /\ Owns(command[p], child[p])
  BY DEF IInv, TypeOK, EachHolds
<1>d. UNCHANGED disk /\ outcome' \in [Process -> Outcome]
  <2>1. CASE UNCHANGED outcome
    BY <1>0, <2>1 DEF Supervision, Spawn, Ready, NotReady, Authenticated, NotAuthenticated, RunEnds,
                      ExitSeen, ShutdownUnconfirmed, Killed
  <2>2. ASSUME NEW why \in Outcome, outcome' = [outcome EXCEPT ![p] = why]
        PROVE  outcome' \in [Process -> Outcome]
    BY <1>0, <2>2
  <2>3. UNCHANGED outcome \/ \E why \in Outcome : outcome' = [outcome EXCEPT ![p] = why]
    BY DEF Supervision, Spawn, Ready, NotReady, Authenticated, NotAuthenticated, RunEnds,
           ExitSeen, ShutdownUnconfirmed, Killed, Closes, Outcome
  <2>4. UNCHANGED disk
    BY DEF Supervision, Spawn, Ready, NotReady, Authenticated, NotAuthenticated, RunEnds,
           ExitSeen, ShutdownUnconfirmed, Killed
  <2> QED BY <1>0, <2>2, <2>3, <2>4
<1>i. command[p].stage \in {"spawning"} \cup Serving \/ child[p] # "none"
        => Installed(command[p].digest, command[p].directory)
  BY <1>0 DEF Holds, Owns
<1>e. child' = [child EXCEPT ![p] = child[p]] \/ child' # child
  BY <1>0
<1>1. CASE Spawn(p)
  <2>1. command[p].stage = "spawning" /\ child[p] = "none"
    BY <1>0, <1>1 DEF Spawn, At, Owns, Serving, Ended
  <2>2. ASSUME NEW c \in {"starting", "unspawned"}, child' = [child EXCEPT ![p] = c], Goes(p, "spawned")
        PROVE  IInv'
    <3>1. "spawned" \in Serving /\ "spawned" \notin Installing \cup Ended /\ c \in Child
      BY DEF Serving, Installing, Ended, Child
    <3> QED BY <1>d, <1>i, <2>1, <2>2, <3>1, StageKeeps
  <2>3. CASE Fails(p) /\ UNCHANGED child
    <3>1. "failed" \in Ended /\ "failed" \notin Installing \cup Serving
      BY DEF Serving, Installing, Ended
    <3> QED BY <1>0, <1>d, <1>e, <2>1, <2>3, <3>1, StageKeeps DEF Fails
  <2> QED BY <1>1, <2>2, <2>3 DEF Spawn
<1>2. CASE Ready(p) \/ NotReady(p) \/ Authenticated(p) \/ NotAuthenticated(p) \/ RunEnds(p)
  <2>1. command[p].stage \in {"spawned", "authenticating", "open"} /\ UNCHANGED child
    BY <1>2 DEF Ready, NotReady, Authenticated, NotAuthenticated, RunEnds, At
  <2>2. PICK s \in {"authenticating", "open", "closing"} : Goes(p, s)
    BY <1>2 DEF Ready, NotReady, Authenticated, NotAuthenticated, RunEnds, Closes
  <2>3. s \in Serving /\ s \notin Installing \cup Ended /\ command[p].stage \in Serving
    BY <2>1 DEF Serving, Installing, Ended
  <2> QED BY <1>0, <1>d, <1>e, <1>i, <2>1, <2>2, <2>3, StageKeeps
<1>3. CASE ExitSeen(p) \/ ShutdownUnconfirmed(p) \/ Killed(p)
  <2>1. UNCHANGED child
    BY <1>3 DEF ExitSeen, ShutdownUnconfirmed, Killed
  <2>2. PICK s \in {"done", "failed", "unconfirmed", "killed"} :
          Goes(p, s) /\ (s \in {"done", "failed"} => child[p] = "exited")
    BY <1>3 DEF ExitSeen, ShutdownUnconfirmed, Killed
  <2>3. s \in Ended /\ s \notin Installing \cup Serving
    BY DEF Serving, Installing, Ended
  <2> QED BY <1>0, <1>d, <1>e, <1>i, <2>1, <2>2, <2>3, StageKeeps
<1> QED BY <1>1, <1>2, <1>3 DEF Supervision

\* The child of a command is ready or exits.
LEMMA ChildKeeps ==
  ASSUME IInv, NEW p \in Process, ChildReady(p) \/ ChildExits(p)
  PROVE  IInv'
<1>1. PICK ch \in {"ready", "exited"} : child' = [child EXCEPT ![p] = ch]
  BY DEF ChildReady, ChildExits
<1>2. child[p] \in {"starting", "ready"} /\ (ch = "ready" => child[p] = "starting")
      /\ UNCHANGED <<disk, command, outcome>>
  <2>1. CASE ChildReady(p)
    BY <2>1 DEF ChildReady
  <2>2. CASE ChildExits(p)
    <3>1. child' = [child EXCEPT ![p] = "exited"] /\ child \in [Process -> Child]
      BY <2>2 DEF ChildExits, IInv, TypeOK
    <3>2. ch = "exited"
      BY <1>1, <3>1
    <3> QED BY <2>2, <3>2 DEF ChildExits
  <2> QED BY <2>1, <2>2
<1>3. PICK c \in Command : c = command[p]
  BY DEF IInv, TypeOK
<1>4. command' = [command EXCEPT ![p] = c]
  BY <1>2, <1>3 DEF IInv, TypeOK
<1>5. Holds(c) /\ Owns(c, child[p])
  BY <1>3 DEF IInv, EachHolds
<1>6. Owns(c, ch)
  BY <1>2, <1>5 DEF Owns
<1>7. ch \in Child /\ outcome' \in [Process -> Outcome]
  BY <1>2 DEF IInv, TypeOK, Child
<1> QED BY <1>1, <1>2, <1>3, <1>4, <1>5, <1>6, <1>7, CommandMoves

\* What others do to the disk keeps the invariant.
LEMMA OutsideKeeps ==
  ASSUME IInv, Outside
  PROVE  IInv'
<1>0. /\ directories \in [Directory -> [digest : Digest \cup {None},
                                        state : {"none", "partial", "built", "damaged"}]]
      /\ UNCHANGED <<receipts, selected, command, child, outcome>>
  BY DEF IInv, TypeOK, Outside, Damage, RemoveLock
<1>1. CASE \E n \in Directory : Damage(n)
  <2>1. PICK n \in Directory :
          /\ directories[n].state = "built"
          /\ directories' = [directories EXCEPT ![n].state = "damaged"]
          /\ UNCHANGED locked
    BY <1>1 DEF Damage
  <2>2. directories' \in [Directory -> [digest : Digest \cup {None},
                                        state : {"none", "partial", "built", "damaged"}]]
    BY <1>0, <2>1
  <2>3. \A d, m : Installed(d, m) => Installed(d, m)'
    BY <1>0, <2>1 DEF Installed
  <2>4. \A m \in Directory : /\ directories'[m].digest = directories[m].digest
                             /\ directories[m].state # "none" => directories'[m].state # "none"
    BY <1>0, <2>1
  <2>5. EachHolds'
    <3> SUFFICES ASSUME NEW q \in Process PROVE (Holds(command[q]) /\ Owns(command[q], child[q]))'
      BY DEF EachHolds
    <3>1. Holds(command[q]) /\ Owns(command[q], child[q])
      BY DEF IInv, EachHolds
    <3>2. Holds(command[q])'
      BY <1>0, <2>1, <2>3, <2>4, <3>1 DEF Holds
    <3> QED BY <1>0, <2>3, <3>1, <3>2 DEF Owns
  <2> QED BY <1>0, <2>1, <2>2, <2>3, <2>5 DEF IInv, TypeOK, OneBuilder, ReceiptsInv, SelectedInv
<1>2. CASE RemoveLock
  <2>1. /\ UNCHANGED directories /\ locked' = FALSE
        /\ \A q \in Process : command[q].stage \notin Building
    BY <1>2 DEF RemoveLock
  <2>2. EachHolds'
    <3> SUFFICES ASSUME NEW q \in Process PROVE (Holds(command[q]) /\ Owns(command[q], child[q]))'
      BY DEF EachHolds
    <3>1. Holds(command[q]) /\ Owns(command[q], child[q])
      BY DEF IInv, EachHolds
    <3>2. Holds(command[q])'
      BY <1>0, <2>1, <3>1 DEF Holds, Installed
    <3> QED BY <1>0, <2>1, <3>1, <3>2 DEF Owns, Installed
  <2> QED BY <1>0, <2>1, <2>2 DEF IInv, TypeOK, OneBuilder, ReceiptsInv, SelectedInv, Installed
<1> QED BY <1>1, <1>2 DEF Outside

\* The invariant holds at first.
LEMMA InitHolds == Init => IInv
<1> SUFFICES ASSUME Init PROVE IInv
  OBVIOUS
<1>z. /\ 0 \notin Directory /\ None \notin Directory /\ None \notin Digest
      /\ 0 \in Directory \cup {None, 0} /\ None \in Directory \cup {None, 0}
  BY InstallationAssumption DEF Directory
<1>1. Idle \in Command
  BY DEF Idle, Command, Purpose
<1>2. /\ command = [p \in Process |-> Idle] /\ child = [p \in Process |-> "none"]
      /\ outcome = [p \in Process |-> "none"] /\ locked = FALSE
  BY DEF Init, InitDisk
<1>3. /\ directories \in [Directory -> [digest : Digest \cup {None},
                                        state : {"none", "partial", "built", "damaged"}]]
      /\ receipts \in [Digest -> Directory \cup {None, 0}] /\ selected \in Digest \cup {None}
      /\ ReceiptsInv /\ SelectedInv
  <2>1. CASE /\ directories = [n \in Directory |-> [digest |-> None, state |-> "none"]]
             /\ receipts = [d \in Digest |-> None] /\ selected = None
    BY <1>z, <2>1 DEF ReceiptsInv, SelectedInv
  <2>2. ASSUME 1 \in Directory, NEW d \in Digest,
               directories = [n \in Directory |-> IF n = 1 THEN [digest |-> d, state |-> "built"]
                                                           ELSE [digest |-> None, state |-> "none"]],
               receipts = [e \in Digest |-> IF e = d THEN 1 ELSE None], selected = d
        PROVE  /\ directories \in [Directory -> [digest : Digest \cup {None},
                                                 state : {"none", "partial", "built", "damaged"}]]
               /\ receipts \in [Digest -> Directory \cup {None, 0}] /\ selected \in Digest \cup {None}
               /\ ReceiptsInv /\ SelectedInv
    <3>1. directories[1] = [digest |-> d, state |-> "built"]
      BY <2>2
    <3>2. ReceiptsInv
      BY <1>z, <2>2, <3>1 DEF ReceiptsInv, Installed
    <3> QED BY <1>z, <2>2, <3>2 DEF SelectedInv
  <2> QED BY <2>1, <2>2 DEF Init, InitDisk
<1>4. TypeOK
  BY <1>1, <1>2, <1>3 DEF TypeOK, Child, Outcome
<1>5. OneBuilder /\ EachHolds
  BY <1>2 DEF OneBuilder, EachHolds, Holds, Owns, Idle, Installing, Serving, Ended
<1> QED BY <1>3, <1>4, <1>5 DEF IInv

\* Every step keeps the invariant.
LEMMA Inductive == IInv /\ [Next]_vars => IInv'
<1> SUFFICES ASSUME IInv, [Next]_vars PROVE IInv'
  OBVIOUS
<1>1. ASSUME NEW p \in Process, Installation(p) PROVE IInv'
  BY <1>1, ReadingKeeps, WritingKeeps DEF Installation
<1>2. ASSUME NEW p \in Process, Supervision(p) \/ Killed(p) \/ ChildReady(p) \/ ChildExits(p) PROVE IInv'
  BY <1>2, SupervisionKeeps, ChildKeeps
<1>3. CASE UNCHANGED vars
  BY <1>3 DEF vars, IInv, TypeOK, OneBuilder, EachHolds, Holds, Owns, ReceiptsInv, SelectedInv, Installed
<1> QED BY <1>1, <1>2, <1>3, OutsideKeeps DEF Next

\* The invariant holds of every behaviour.
THEOREM Invariance == Spec => []IInv
BY InitHolds, Inductive, PTL DEF Spec

\* Every variable keeps its type.
THEOREM TypeCorrect == Spec => []TypeOK
BY Invariance, PTL DEF IInv

\* Whatever is selected, recorded or started was verified for its release.
THEOREM OnlyVerifiedStarts == Spec => []OnlyVerified
<1>1. IInv => OnlyVerified
  <2> SUFFICES ASSUME IInv PROVE OnlyVerified
    OBVIOUS
  <2>1. selected # None => Installed(selected, receipts[selected])
    BY DEF IInv, TypeOK, ReceiptsInv, SelectedInv
  <2> QED BY <2>1 DEF IInv, EachHolds, Owns, ReceiptsInv, OnlyVerified
<1> QED BY <1>1, Invariance, PTL

\* Under the lock there is one setup at a time.
THEOREM BuildsAlone == Spec => []OneBuilder
BY Invariance, PTL DEF IInv

\* A command that ended without reporting an unconfirmed shutdown left no Node running.
THEOREM RunningReported == Spec => []RunningIsReported
<1>1. IInv => RunningIsReported
  BY DEF IInv, EachHolds, Owns, RunningIsReported
<1> QED BY <1>1, Invariance, PTL

\* No step replaces a finished receipt.
THEOREM ReceiptsStay == Spec => ReceiptPermanent
<1>1. ASSUME IInv, [Next]_vars, NEW d \in Digest, receipts[d] \in Directory
      PROVE  receipts'[d] = receipts[d]
  <2>0. /\ receipts \in [Digest -> Directory \cup {None, 0}]
        /\ 0 \notin Directory /\ None \notin Directory
    BY <1>1, InstallationAssumption DEF IInv, TypeOK, Directory
  <2>1. ASSUME NEW p \in Process, CreateReceipt(p) PROVE receipts'[d] = receipts[d]
    BY <1>1, <2>0, <2>1 DEF CreateReceipt
  <2>2. ASSUME NEW p \in Process, WriteReceipt(p) PROVE receipts'[d] = receipts[d]
    <3>1. receipts[command[p].digest] = 0
      BY <1>1, <2>2 DEF WriteReceipt, At, IInv, EachHolds, Holds
    <3> QED BY <1>1, <2>0, <2>2, <3>1 DEF WriteReceipt
  <2>3. ASSUME NEW p \in Process, Installation(p), ~CreateReceipt(p), ~WriteReceipt(p)
        PROVE  UNCHANGED receipts
    BY <2>3 DEF Installation, SetupCommand, StartCommand, LoadSelected, LoadBundled, Consent, ReadReceipt,
                Authorized, Refused, Built, Unlock, BuildFails, Select, disk
  <2>4. ASSUME NEW p \in Process, Supervision(p) \/ Killed(p) \/ ChildReady(p) \/ ChildExits(p)
        PROVE  UNCHANGED receipts
    BY <2>4 DEF Supervision, Spawn, Ready, NotReady, Authenticated, NotAuthenticated, RunEnds, ExitSeen,
                ShutdownUnconfirmed, Killed, ChildReady, ChildExits, disk
  <2>5. Outside \/ UNCHANGED vars => UNCHANGED receipts
    BY DEF Outside, Damage, RemoveLock, vars
  <2> QED BY <1>1, <2>1, <2>2, <2>3, <2>4, <2>5 DEF Next
<1>2. IInv /\ [Next]_vars =>
        [\A d \in Digest : receipts[d] \in Directory => receipts'[d] = receipts[d]]_vars
  BY <1>1
<1> QED BY <1>2, Invariance, PTL DEF Spec, ReceiptPermanent
=============================================================================
