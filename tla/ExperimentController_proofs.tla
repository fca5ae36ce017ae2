---------------------- MODULE ExperimentController_proofs ----------------------
(***************************************************************************)
(* Proofs about ExperimentController: its types, that a request is         *)
(* dispatched once and only while it owns the controller, that nothing     *)
(* counts before it is on disk, that late results are discarded, and that  *)
(* a confirmed stop leaves no runner at work, for any identifiers, trial   *)
(* limit and number of experiments.                                        *)
(***************************************************************************)
EXTENDS ExperimentController, TLAPS

\* A request that is known to the file is known; what was asked to run is on file.
KnownInv ==
  /\ disk.requests \subseteq requests
  /\ queued \subseteq disk.requests
  /\ current # None => DOMAIN current.trials \subseteq requests
  /\ disk.current # None => DOMAIN disk.current.trials \subseteq disk.requests

OnceInv ==
  \A r \in RequestId :
    /\ dispatches[r] <= 1
    /\ dispatches[r] > 0 => r \in disk.requests
    /\ r \in queued => dispatches[r] = 0
    /\ r \in executing => dispatches[r] = 1

\* What a plan's phase says of its trials and its stop.
Sound(cur) ==
  /\ cur.phase \in {"PROPOSED", "READY", "RUNNING"} => cur.stopStatus = "none"
  /\ cur.phase = "PROPOSED" => DOMAIN cur.trials = {}

PhaseInv ==
  /\ current # None => Sound(current)
  /\ disk.current # None => Sound(disk.current)

\* The active trial: running until it is interrupted, then unknown; an injected runner
\* is the only one that is waited for; and it has no result on file.
ActiveInv ==
  life = "open" /\ active # None =>
    /\ current # None
    /\ active.request \in DOMAIN current.trials
    /\ IF active.interrupted = "none"
         THEN current.phase = "RUNNING" /\ current.trials[active.request] = "RUNNING"
         ELSE ~builtin /\ current.phase = "OUTCOME_UNKNOWN" /\ current.stopStatus = "UNCONFIRMED"
    /\ disk.current # None /\ active.request \in DOMAIN disk.current.trials
         => disk.current.trials[active.request] # "COMPLETED"

\* What is still to be dispatched, and was not aborted, owns the controller.
QueueInv ==
  \A r \in queued \ aborted : Owns(r) /\ active.interrupted = "none"

\* A runner at work owns the controller, or was aborted (the synthetic one) or left
\* behind by an earlier controller, with a plan that nothing can continue.
RunnerInv ==
  /\ builtin => \A r \in executing : r \in aborted \/ Owns(r)
  /\ ~builtin /\ life = "open" /\ current # None =>
       \A r \in executing \cap DOMAIN current.trials :
         \/ Owns(r)
         \/ /\ active = None /\ ~storageFailed
            /\ current.phase \in Terminal \cup {"OUTCOME_UNKNOWN"}

Settled(cur) ==
  cur.stopStatus = "CONFIRMED" =>
    \A r \in executing \cap DOMAIN cur.trials : builtin /\ r \in aborted

\* ConfirmedMeansSettled holds of the file as well.
DiskSettled == disk.current # None => Settled(disk.current)

\* A result on file is not contradicted by memory.
LateInv ==
  current # None /\ disk.current # None =>
    \A r \in DOMAIN current.trials \cap DOMAIN disk.current.trials :
      disk.current.trials[r] = "COMPLETED" => current.trials[r] \in {"RUNNING", "COMPLETED"}

IInv ==
  /\ TypeOK /\ KnownInv /\ OnceInv /\ PhaseInv /\ ActiveInv /\ QueueInv
  /\ DurableBeforeUsable /\ RunnerInv /\ ConfirmedMeansSettled /\ DiskSettled /\ LateInv

-----------------------------------------------------------------------------
(* Experiments and their trials                                            *)

\* A map of trials is a function from identifiers.
LEMMA TrialsType ==
  ASSUME NEW f
  PROVE  f \in UNION {[S -> TrialStatus] : S \in SUBSET RequestId}
           <=> DOMAIN f \subseteq RequestId /\ f \in [DOMAIN f -> TrialStatus]
OBVIOUS

\* Replacing the phase and the stop status of a plan.
LEMMA PlanType ==
  ASSUME NEW cur \in Experiment, NEW phase \in Phase,
         NEW stop \in {"none", "CONFIRMED", "UNCONFIRMED"}
  PROVE  /\ [cur EXCEPT !.phase = phase] \in Experiment
         /\ [cur EXCEPT !.phase = phase, !.stopStatus = stop] \in Experiment
BY DEF Experiment

\* The plan in another phase, and its fields.
Planned(cur, phase, stop) == [cur EXCEPT !.phase = phase, !.stopStatus = stop]

LEMMA PlanFields ==
  ASSUME NEW cur \in Experiment, NEW phase \in Phase,
         NEW stop \in {"none", "CONFIRMED", "UNCONFIRMED"}
  PROVE  /\ Planned(cur, phase, stop) \in Experiment
         /\ Planned(cur, phase, stop).phase = phase /\ Planned(cur, phase, stop).stopStatus = stop
         /\ Planned(cur, phase, stop).trials = cur.trials
BY DEF Planned, Experiment

\* WithTrial() changes one trial and nothing else.
LEMMA WithTrialFacts ==
  ASSUME NEW cur \in Experiment, NEW r \in RequestId, NEW status \in TrialStatus,
         NEW w, w = WithTrial(cur, r, status)
  PROVE  /\ w \in Experiment
         /\ w.phase = cur.phase /\ w.stopStatus = cur.stopStatus
         /\ DOMAIN w.trials = DOMAIN cur.trials \cup {r}
         /\ w.trials[r] = status
         /\ \A q \in DOMAIN cur.trials : q # r => w.trials[q] = cur.trials[q]
<1> DEFINE t == [q \in DOMAIN cur.trials \cup {r} |-> IF q = r THEN status ELSE cur.trials[q]]
<1>1. DOMAIN cur.trials \subseteq RequestId /\ cur.trials \in [DOMAIN cur.trials -> TrialStatus]
  BY TrialsType DEF Experiment
<1>2. DOMAIN t \subseteq RequestId /\ t \in [DOMAIN t -> TrialStatus]
  BY <1>1
<1>3. t \in UNION {[S -> TrialStatus] : S \in SUBSET RequestId}
  BY <1>2, TrialsType
<1>4. w = [cur EXCEPT !.trials = t]
  BY DEF WithTrial
<1>5. w \in Experiment /\ w.phase = cur.phase /\ w.stopStatus = cur.stopStatus /\ w.trials = t
  BY <1>3, <1>4 DEF Experiment
<1> QED BY <1>5

\* What a failed write leaves.
LEMMA UnsavedFacts ==
  ASSUME NEW cur \in Experiment, NEW owner \in RequestId \cup {None},
         owner # None => owner \in DOMAIN cur.trials,
         NEW u, u = Unsaved(cur, owner)
  PROVE  /\ u \in Experiment
         /\ u.phase = "OUTCOME_UNKNOWN" /\ u.stopStatus = cur.stopStatus
         /\ DOMAIN u.trials = DOMAIN cur.trials
         /\ \A q \in DOMAIN cur.trials :
              u.trials[q] = IF q = owner THEN "OUTCOME_UNKNOWN" ELSE cur.trials[q]
<1> DEFINE b == [cur EXCEPT !.phase = "OUTCOME_UNKNOWN"]
<1>1. /\ b \in Experiment /\ b.phase = "OUTCOME_UNKNOWN" /\ b.stopStatus = cur.stopStatus
      /\ b.trials = cur.trials
  BY DEF Experiment, Phase
<1>2. CASE owner = None
  <2>1. owner \notin DOMAIN cur.trials
    BY <1>2, NoneAssumption, TrialsType DEF Experiment
  <2> QED BY <1>1, <1>2, <2>1 DEF Unsaved
<1>3. CASE owner # None
  <2>1. u = WithTrial(b, owner, "OUTCOME_UNKNOWN")
    BY <1>3 DEF Unsaved
  <2>2. owner \in RequestId /\ "OUTCOME_UNKNOWN" \in TrialStatus
    BY <1>3 DEF TrialStatus
  <2> HIDE DEF b
  <2>3. /\ u \in Experiment /\ u.phase = b.phase /\ u.stopStatus = b.stopStatus
        /\ DOMAIN u.trials = DOMAIN b.trials \cup {owner}
        /\ u.trials[owner] = "OUTCOME_UNKNOWN"
        /\ \A q \in DOMAIN b.trials : q # owner => u.trials[q] = b.trials[q]
    BY <1>1, <2>1, <2>2, WithTrialFacts
  <2> QED BY <1>1, <1>3, <2>3
<1> QED BY <1>2, <1>3

-----------------------------------------------------------------------------
(* save()                                                                  *)

\* What save() does to memory and file, whichever way it ends, and the part of the
\* invariant that is about the two.
LEMMA Saves ==
  ASSUME IInv, NEW cur \in Experiment, NEW reqs \in SUBSET RequestId,
         NEW owner \in RequestId \cup {None}, NEW latched,
         Persist(cur, reqs, owner, latched),
         owner # None => owner \in DOMAIN cur.trials,
         requests \subseteq reqs, DOMAIN cur.trials \subseteq reqs, Sound(cur),
         executing' \subseteq executing, aborted \subseteq aborted', builtin' = builtin,
         cur.stopStatus = "CONFIRMED" =>
           \A r \in executing' \cap DOMAIN cur.trials : builtin /\ r \in aborted',
         disk.current # None =>
           \A r \in DOMAIN cur.trials \cap DOMAIN disk.current.trials :
             disk.current.trials[r] = "COMPLETED" =>
               r # owner /\ cur.trials[r] \in {"RUNNING", "COMPLETED"}
  PROVE  /\ current' \in Experiment /\ requests' \in SUBSET RequestId
         /\ disk' \in [current : Experiment \cup {None}, requests : SUBSET RequestId]
         /\ storageFailed' \in BOOLEAN
         /\ requests' = reqs /\ current' # None
         /\ DOMAIN current'.trials = DOMAIN cur.trials
         /\ current'.stopStatus = cur.stopStatus
         /\ \/ ~storageFailed' /\ current' = cur /\ disk' = [current |-> cur, requests |-> reqs]
            \/ storageFailed' /\ current'.phase = "OUTCOME_UNKNOWN" /\ disk' = disk
         /\ disk.requests \subseteq disk'.requests /\ disk'.requests \subseteq requests'
         /\ disk'.current # None => DOMAIN disk'.current.trials \subseteq disk'.requests
         /\ PhaseInv' /\ DurableBeforeUsable' /\ ConfirmedMeansSettled' /\ DiskSettled' /\ LateInv'
<1>0. None \notin Experiment /\ None \notin RequestId
  BY NoneAssumption
<1>1. CASE storageFailed' = FALSE /\ current' = cur /\ disk' = [current |-> cur, requests |-> reqs]
  <2>1. requests' = reqs
    BY DEF Persist
  <2>2. disk'.current = cur /\ disk'.requests = reqs
    BY <1>1
  <2>3. PhaseInv' /\ DurableBeforeUsable' /\ ConfirmedMeansSettled' /\ DiskSettled'
    BY <1>1, <2>2 DEF PhaseInv, Sound, DurableBeforeUsable, ConfirmedMeansSettled, DiskSettled, Settled
  <2>4. LateInv'
    <3>1. cur.trials \in [DOMAIN cur.trials -> TrialStatus]
      BY TrialsType DEF Experiment
    <3> QED BY <1>1, <2>2, <3>1 DEF LateInv
  <2> QED BY <1>0, <1>1, <2>1, <2>2, <2>3, <2>4 DEF IInv, KnownInv
<1>2. CASE storageFailed' = TRUE /\ current' = Unsaved(cur, owner) /\ disk' = disk
  <2>1. requests' = reqs
    BY DEF Persist
  <2>2. /\ current' \in Experiment
        /\ current'.phase = "OUTCOME_UNKNOWN" /\ current'.stopStatus = cur.stopStatus
        /\ DOMAIN current'.trials = DOMAIN cur.trials
        /\ \A q \in DOMAIN cur.trials : q # owner => current'.trials[q] = cur.trials[q]
    BY <1>2, UnsavedFacts
  <2>3. PhaseInv' /\ DurableBeforeUsable'
    BY <1>2, <2>2 DEF IInv, PhaseInv, Sound, DurableBeforeUsable
  <2>4. ConfirmedMeansSettled' /\ DiskSettled'
    BY <1>2, <2>2 DEF IInv, ConfirmedMeansSettled, DiskSettled, Settled
  <2>5. LateInv'
    BY <1>2, <2>2 DEF LateInv
  <2> QED BY <1>0, <1>2, <2>1, <2>2, <2>3, <2>4, <2>5 DEF IInv, KnownInv, TypeOK
<1> QED BY <1>1, <1>2 DEF Persist

-----------------------------------------------------------------------------
(* Interrupting and completing the active trial                            *)

\* A Stop, the timer and dispose() interrupt the active trial and keep the invariant.
LEMMA InterruptKeeps ==
  ASSUME IInv, life = "open", active # None, life' \in {"open", "closed"},
         NEW kind \in {"stop", "timeout"}, Interrupt(kind),
         UNCHANGED <<builtin, expired, nextId, queued, executing, dispatches>>
  PROVE  IInv'
<1> DEFINE r       == active.request
           cause   == IF active.interrupted = "none" THEN kind ELSE active.interrupted
           verdict == IF ~builtin THEN "OUTCOME_UNKNOWN"
                      ELSE IF cause = "stop" THEN "STOPPED" ELSE "FAILED"
           stop    == IF builtin THEN "CONFIRMED" ELSE "UNCONFIRMED"
           plan    == Planned(current, verdict, stop)
           cur     == WithTrial(plan, r, verdict)
           owner   == IF builtin THEN None ELSE r
<1>0. None \notin Experiment /\ None \notin RequestId /\ None \notin Owner
  BY NoneAssumption
<1>1. /\ active \in Owner /\ r \in RequestId /\ active.interrupted \in {"none", "stop", "timeout"}
      /\ current \in Experiment /\ builtin \in BOOLEAN /\ requests \in SUBSET RequestId
  BY DEF IInv, TypeOK, ActiveInv, Owner
<1>2. /\ cause \in {"stop", "timeout"}
      /\ active' = IF builtin THEN None ELSE [active EXCEPT !.interrupted = cause]
      /\ aborted' = aborted \cup {r}
      /\ Persist(cur, requests, owner, storageFailed)
  BY <1>1 DEF Interrupt, Planned
<1>3. /\ plan \in Experiment /\ plan.phase = verdict /\ plan.stopStatus = stop
      /\ plan.trials = current.trials
  <2>1. verdict \in Phase /\ stop \in {"none", "CONFIRMED", "UNCONFIRMED"}
    BY DEF Phase, Terminal
  <2>2. plan = Planned(current, verdict, stop)
    OBVIOUS
  <2> HIDE DEF plan, verdict, stop
  <2> QED BY <1>1, <2>1, <2>2, PlanFields, SMTT(30)
<1>4. verdict \in TrialStatus /\ verdict \notin {"RUNNING", "READY", "PROPOSED"}
  BY DEF TrialStatus
<1>5. /\ cur \in Experiment /\ cur.phase = verdict /\ cur.stopStatus = stop
      /\ DOMAIN cur.trials = DOMAIN current.trials
      /\ cur.trials[r] = verdict
      /\ \A q \in DOMAIN current.trials : q # r => cur.trials[q] = current.trials[q]
  <2>1. r \in DOMAIN current.trials
    BY DEF IInv, ActiveInv
  <2>2. cur = WithTrial(plan, r, verdict)
    OBVIOUS
  <2> HIDE DEF plan, verdict, stop, cur, r
  <2>3. /\ cur \in Experiment /\ cur.phase = plan.phase /\ cur.stopStatus = plan.stopStatus
        /\ DOMAIN cur.trials = DOMAIN plan.trials \cup {r}
        /\ cur.trials[r] = verdict
        /\ \A q \in DOMAIN plan.trials : q # r => cur.trials[q] = plan.trials[q]
    BY <1>1, <1>3, <1>4, <2>2, WithTrialFacts
  <2> QED BY <1>3, <2>1, <2>3
<1>6. \A q \in executing : builtin => q \in aborted'
  BY <1>2 DEF IInv, RunnerInv, Owns
<1>7. r \in DOMAIN current.trials
  BY DEF IInv, ActiveInv
<1>8. /\ owner \in RequestId \cup {None}
      /\ owner # None => owner = r /\ owner \in DOMAIN cur.trials
  <2> HIDE DEF cur, r
  <2> QED BY <1>1, <1>5, <1>7
<1> HIDE DEF cur, plan
<1>9. /\ current' \in Experiment /\ requests' \in SUBSET RequestId
      /\ disk' \in [current : Experiment \cup {None}, requests : SUBSET RequestId]
      /\ storageFailed' \in BOOLEAN
      /\ requests' = requests /\ current' # None
      /\ DOMAIN current'.trials = DOMAIN cur.trials
      /\ current'.stopStatus = cur.stopStatus
      /\ \/ ~storageFailed' /\ current' = cur /\ disk' = [current |-> cur, requests |-> requests]
         \/ storageFailed' /\ current'.phase = "OUTCOME_UNKNOWN" /\ disk' = disk
      /\ disk.requests \subseteq disk'.requests /\ disk'.requests \subseteq requests'
      /\ disk'.current # None => DOMAIN disk'.current.trials \subseteq disk'.requests
      /\ PhaseInv' /\ DurableBeforeUsable' /\ ConfirmedMeansSettled' /\ DiskSettled' /\ LateInv'
  <2>1. DOMAIN cur.trials \subseteq requests
    BY <1>0, <1>1, <1>5 DEF IInv, KnownInv
  <2>2. Sound(cur)
    BY <1>4, <1>5 DEF Sound
  <2>3. aborted \subseteq aborted'
    BY <1>2
  <2>4. cur.stopStatus = "CONFIRMED" =>
          \A q \in executing' \cap DOMAIN cur.trials : builtin /\ q \in aborted'
    BY <1>5, <1>6
  <2>5. disk.current # None =>
          \A q \in DOMAIN cur.trials \cap DOMAIN disk.current.trials :
            disk.current.trials[q] = "COMPLETED" =>
              q # owner /\ cur.trials[q] \in {"RUNNING", "COMPLETED"}
    <3>1. SUFFICES ASSUME disk.current # None,
                          NEW q \in DOMAIN cur.trials \cap DOMAIN disk.current.trials,
                          disk.current.trials[q] = "COMPLETED"
                   PROVE  q # owner /\ cur.trials[q] \in {"RUNNING", "COMPLETED"}
      OBVIOUS
    <3>2. q # r
      BY <1>7, <3>1 DEF IInv, ActiveInv
    <3>3. q # None
      BY <1>0, <2>1, <3>1, <1>1
    <3>4. current.trials[q] \in {"RUNNING", "COMPLETED"}
      BY <1>0, <1>1, <1>5, <3>1 DEF IInv, LateInv
    <3> QED BY <1>5, <3>1, <3>2, <3>3, <3>4
  <2>6. executing' \subseteq executing /\ builtin' = builtin /\ requests \subseteq requests
    OBVIOUS
  <2> HIDE DEF owner
  <2>7. cur \in Experiment /\ Persist(cur, requests, owner, storageFailed)
    BY <1>2, <1>5
  <2>8. owner # None => owner \in DOMAIN cur.trials
    BY <1>8
  <2> QED BY <1>1, <1>8, <2>1, <2>2, <2>3, <2>4, <2>5, <2>6, <2>7, <2>8, Saves
<1> HIDE DEF owner
<1>10. KnownInv' /\ OnceInv'
  BY <1>0, <1>1, <1>5, <1>9 DEF IInv, KnownInv, OnceInv
<1>11. QueueInv'
  BY <1>1, <1>2 DEF IInv, QueueInv, Owns
<1>12. ActiveInv'
  <2> SUFFICES ASSUME life' = "open", active' # None PROVE ActiveInv'
    BY DEF ActiveInv
  <2>1. /\ ~builtin /\ active'.request = r /\ active'.interrupted # "none"
        /\ cur.phase = "OUTCOME_UNKNOWN" /\ cur.trials[r] = "OUTCOME_UNKNOWN"
        /\ r \in DOMAIN current.trials
    BY <1>1, <1>2, <1>5 DEF Owner, IInv, ActiveInv
  <2>2. disk'.current # None /\ r \in DOMAIN disk'.current.trials
          => disk'.current.trials[r] # "COMPLETED"
    BY <1>9, <2>1 DEF IInv, ActiveInv
  <2> QED BY <1>5, <1>9, <2>1, <2>2 DEF ActiveInv
<1>13. RunnerInv'
  <2>1. ~builtin => \A q \in executing \cap DOMAIN current.trials : q = r
    BY <1>0, <1>1 DEF IInv, RunnerInv, Owns
  <2>2. ~builtin => active' # None /\ active'.request = r
    <3>1. ~builtin => active' \in Owner /\ active'.request = r
      BY <1>1, <1>2 DEF Owner
    <3> QED BY <1>0, <3>1
  <2> QED BY <1>5, <1>6, <1>9, <2>1, <2>2 DEF RunnerInv, Owns
<1>14. TypeOK'
  <2>1. active' \in Owner \cup {None}
    BY <1>1, <1>2 DEF Owner
  <2> QED BY <1>1, <1>2, <1>9, <2>1 DEF IInv, TypeOK
<1> QED BY <1>9, <1>10, <1>11, <1>12, <1>13, <1>14 DEF IInv

\* What a trial that settles makes of its plan.
LEMMA OutcomeFacts ==
  ASSUME IInv, NEW r \in RequestId, NEW valid \in BOOLEAN, Owns(r), NEW cur, cur = Outcome(r, valid)
  PROVE  /\ cur \in Experiment /\ Sound(cur)
         /\ DOMAIN cur.trials = DOMAIN current.trials
         /\ \A q \in DOMAIN current.trials : q # r => cur.trials[q] = current.trials[q]
         /\ cur.stopStatus = "CONFIRMED" => ~builtin
         /\ cur.trials[r] = "COMPLETED" => current.trials[r] = "RUNNING"
<1>1. /\ active # None /\ active.request = r /\ active.interrupted \in {"none", "stop", "timeout"}
      /\ current \in Experiment /\ builtin \in BOOLEAN /\ r \in DOMAIN current.trials
  BY DEF IInv, TypeOK, ActiveInv, Owner, Owns
<1>2. CASE active.interrupted = "stop"
  <2> DEFINE plan == [current EXCEPT !.phase = "STOPPED", !.stopStatus = "CONFIRMED"]
  <2>1. plan \in Experiment /\ plan.phase = "STOPPED" /\ plan.trials = current.trials
    BY <1>1, PlanType DEF Experiment, Phase, Terminal
  <2>2. cur = WithTrial(plan, r, "STOPPED")
    BY <1>2 DEF Outcome
  <2>3. "STOPPED" \in TrialStatus /\ ~builtin
    BY <1>1, <1>2 DEF TrialStatus, IInv, ActiveInv, Owns
  <2> HIDE DEF plan
  <2>4. /\ cur \in Experiment /\ cur.phase = plan.phase /\ cur.stopStatus = plan.stopStatus
        /\ DOMAIN cur.trials = DOMAIN plan.trials \cup {r}
        /\ cur.trials[r] = "STOPPED"
        /\ \A q \in DOMAIN plan.trials : q # r => cur.trials[q] = plan.trials[q]
    BY <1>1, <2>1, <2>2, <2>3, WithTrialFacts
  <2> QED BY <1>1, <2>1, <2>3, <2>4 DEF Sound
<1>3. CASE active.interrupted = "timeout"
  <2> DEFINE plan == [current EXCEPT !.phase = "FAILED", !.stopStatus = "CONFIRMED"]
  <2>1. plan \in Experiment /\ plan.phase = "FAILED" /\ plan.trials = current.trials
    BY <1>1, PlanType DEF Experiment, Phase, Terminal
  <2>2. cur = WithTrial(plan, r, "FAILED")
    BY <1>3 DEF Outcome
  <2>3. "FAILED" \in TrialStatus /\ ~builtin
    BY <1>1, <1>3 DEF TrialStatus, IInv, ActiveInv, Owns
  <2> HIDE DEF plan
  <2>4. /\ cur \in Experiment /\ cur.phase = plan.phase /\ cur.stopStatus = plan.stopStatus
        /\ DOMAIN cur.trials = DOMAIN plan.trials \cup {r}
        /\ cur.trials[r] = "FAILED"
        /\ \A q \in DOMAIN plan.trials : q # r => cur.trials[q] = plan.trials[q]
    BY <1>1, <2>1, <2>2, <2>3, WithTrialFacts
  <2> QED BY <1>1, <2>1, <2>3, <2>4 DEF Sound
<1>4. CASE active.interrupted = "none"
  <2>0. current.phase = "RUNNING" /\ current.stopStatus = "none" /\ current.trials[r] = "RUNNING"
    BY <1>1, <1>4 DEF IInv, ActiveInv, PhaseInv, Sound, Owns
  <2>1. CASE valid
    <3> DEFINE plan == [current EXCEPT !.phase = "READY"]
    <3>1. /\ plan \in Experiment /\ plan.phase = "READY" /\ plan.stopStatus = "none"
          /\ plan.trials = current.trials
      BY <1>1, <2>0, PlanType DEF Experiment, Phase
    <3>2. cur = WithTrial(plan, r, "COMPLETED")
      BY <1>4, <2>1 DEF Outcome
    <3>3. "COMPLETED" \in TrialStatus
      BY DEF TrialStatus
    <3> HIDE DEF plan
    <3>4. /\ cur \in Experiment /\ cur.phase = plan.phase /\ cur.stopStatus = plan.stopStatus
          /\ DOMAIN cur.trials = DOMAIN plan.trials \cup {r}
          /\ cur.trials[r] = "COMPLETED"
          /\ \A q \in DOMAIN plan.trials : q # r => cur.trials[q] = plan.trials[q]
      BY <1>1, <3>1, <3>2, <3>3, WithTrialFacts
    <3> QED BY <1>1, <2>0, <3>1, <3>3, <3>4 DEF Sound
  <2>2. CASE ~valid
    <3> DEFINE plan == [current EXCEPT !.phase = "FAILED"]
    <3>1. /\ plan \in Experiment /\ plan.phase = "FAILED" /\ plan.stopStatus = "none"
          /\ plan.trials = current.trials
      BY <1>1, <2>0, PlanType DEF Experiment, Phase, Terminal
    <3>2. cur = WithTrial(plan, r, "FAILED")
      BY <1>4, <2>2 DEF Outcome
    <3>3. "FAILED" \in TrialStatus
      BY DEF TrialStatus
    <3> HIDE DEF plan
    <3>4. /\ cur \in Experiment /\ cur.phase = plan.phase /\ cur.stopStatus = plan.stopStatus
          /\ DOMAIN cur.trials = DOMAIN plan.trials \cup {r}
          /\ cur.trials[r] = "FAILED"
          /\ \A q \in DOMAIN plan.trials : q # r => cur.trials[q] = plan.trials[q]
      BY <1>1, <3>1, <3>2, <3>3, WithTrialFacts
    <3> QED BY <1>1, <2>0, <3>1, <3>3, <3>4 DEF Sound
  <2> QED BY <2>1, <2>2
<1> QED BY <1>1, <1>2, <1>3, <1>4

\* A trial that settles while it owns the controller keeps the invariant.
LEMMA CompleteKeeps ==
  ASSUME IInv, NEW r \in RequestId, NEW valid \in BOOLEAN, Owns(r), Complete(r, valid),
         r \notin executing', r \notin queued', executing' \subseteq executing, queued' \subseteq queued,
         UNCHANGED <<life, builtin, expired, nextId, aborted, dispatches>>
  PROVE  IInv'
<1>0. None \notin Experiment /\ None \notin RequestId
  BY NoneAssumption
<1>1. /\ active # None /\ active.request = r /\ life = "open"
      /\ current \in Experiment /\ requests \in SUBSET RequestId /\ r \in DOMAIN current.trials
  BY DEF IInv, TypeOK, ActiveInv, Owns
<1>2. active' = None /\ Persist(Outcome(r, valid), requests, r, storageFailed)
  BY DEF Complete
<1>3. PICK cur : cur = Outcome(r, valid)
  OBVIOUS
<1>4. /\ cur \in Experiment /\ Sound(cur)
      /\ DOMAIN cur.trials = DOMAIN current.trials
      /\ \A q \in DOMAIN current.trials : q # r => cur.trials[q] = current.trials[q]
      /\ cur.stopStatus = "CONFIRMED" => ~builtin
      /\ cur.trials[r] = "COMPLETED" => current.trials[r] = "RUNNING"
  BY <1>3, OutcomeFacts
<1>5. builtin => \A q \in executing' : q \in aborted
  BY <1>1 DEF IInv, RunnerInv, Owns
<1>6. ~builtin => \A q \in executing' : q \notin DOMAIN current.trials
  BY <1>0, <1>1 DEF IInv, RunnerInv, Owns
<1>7. /\ current' \in Experiment /\ requests' \in SUBSET RequestId
      /\ disk' \in [current : Experiment \cup {None}, requests : SUBSET RequestId]
      /\ storageFailed' \in BOOLEAN
      /\ requests' = requests /\ current' # None
      /\ DOMAIN current'.trials = DOMAIN cur.trials
      /\ disk.requests \subseteq disk'.requests /\ disk'.requests \subseteq requests'
      /\ disk'.current # None => DOMAIN disk'.current.trials \subseteq disk'.requests
      /\ PhaseInv' /\ DurableBeforeUsable' /\ ConfirmedMeansSettled' /\ DiskSettled' /\ LateInv'
  <2>1. Persist(cur, requests, r, storageFailed)
    BY <1>2, <1>3
  <2>2. DOMAIN cur.trials \subseteq requests
    BY <1>0, <1>1, <1>4 DEF IInv, KnownInv
  <2>3. cur.stopStatus = "CONFIRMED" =>
          \A q \in executing' \cap DOMAIN cur.trials : builtin /\ q \in aborted'
    BY <1>4, <1>6
  <2>4. disk.current # None =>
          \A q \in DOMAIN cur.trials \cap DOMAIN disk.current.trials :
            disk.current.trials[q] = "COMPLETED" =>
              q # r /\ cur.trials[q] \in {"RUNNING", "COMPLETED"}
    BY <1>0, <1>1, <1>4 DEF IInv, ActiveInv, LateInv
  <2>5. builtin' = builtin /\ aborted \subseteq aborted' /\ requests \subseteq requests
        /\ r \in DOMAIN cur.trials
    BY <1>1, <1>4
  <2> QED BY <1>1, <1>4, <2>1, <2>2, <2>3, <2>4, <2>5, Saves
<1>8. KnownInv' /\ OnceInv'
  BY <1>0, <1>1, <1>4, <1>7 DEF IInv, KnownInv, OnceInv
<1>9. ActiveInv'
  BY <1>2 DEF ActiveInv
<1>10. QueueInv'
  BY <1>1 DEF IInv, QueueInv, Owns
<1>11. RunnerInv'
  BY <1>4, <1>5, <1>6, <1>7 DEF RunnerInv
<1>12. TypeOK'
  BY <1>2, <1>7 DEF IInv, TypeOK
<1> QED BY <1>7, <1>8, <1>9, <1>10, <1>11, <1>12 DEF IInv

\* An answer, to whoever owns the controller by then.
LEMMA AnswerKeeps ==
  ASSUME IInv, NEW r \in RequestId, NEW valid \in BOOLEAN, Complete(r, valid),
         r \notin executing', r \notin queued', executing' \subseteq executing, queued' \subseteq queued,
         UNCHANGED <<life, builtin, expired, nextId, aborted, dispatches>>
  PROVE  IInv'
<1>1. CASE Owns(r)
  BY <1>1, CompleteKeeps
<1>2. CASE ~Owns(r)
  <2>1. UNCHANGED <<memory, disk>>
    BY <1>2 DEF Complete
  <2> USE <2>1 DEF IInv, memory
  <2>2. TypeOK' /\ KnownInv' /\ OnceInv' /\ PhaseInv'
    BY DEF TypeOK, KnownInv, OnceInv, PhaseInv
  <2>3. ActiveInv' /\ QueueInv' /\ DurableBeforeUsable' /\ LateInv'
    BY DEF ActiveInv, QueueInv, DurableBeforeUsable, LateInv, Owns
  <2>4. RunnerInv' /\ ConfirmedMeansSettled' /\ DiskSettled'
    BY DEF RunnerInv, ConfirmedMeansSettled, DiskSettled, Settled, Owns
  <2> QED BY <2>2, <2>3, <2>4
<1> QED BY <1>1, <1>2

-----------------------------------------------------------------------------
(* Steps with no trial active                                              *)

\* No runner is at work for a trial of a plan that can still be continued or ended.
LEMMA IdleRunners ==
  ASSUME IInv, active = None, life = "open"
  PROVE  /\ builtin => executing \subseteq aborted
         /\ ~builtin /\ current # None
              /\ (storageFailed \/ current.phase \notin Terminal \cup {"OUTCOME_UNKNOWN"})
              => executing \cap DOMAIN current.trials = {}
BY DEF IInv, RunnerInv, Owns

\* Saving a plan while no trial is active, with the trials it has or with none.
LEMMA IdleSaves ==
  ASSUME IInv, life = "open", active = None,
         NEW cur \in Experiment, NEW reqs \in SUBSET RequestId, NEW latched,
         Persist(cur, reqs, None, latched),
         requests \subseteq reqs, DOMAIN cur.trials \subseteq reqs, Sound(cur),
         ~builtin => executing \cap DOMAIN cur.trials = {},
         \A q \in DOMAIN cur.trials :
           current # None /\ q \in DOMAIN current.trials /\ cur.trials[q] = current.trials[q],
         nextId' \in 1..(MaxExperiments + 1),
         UNCHANGED <<life, builtin, active, expired, tasks>>
  PROVE  IInv'
<1>0. /\ executing' = executing /\ aborted' = aborted /\ queued' = queued
      /\ dispatches' = dispatches /\ builtin' = builtin /\ active' = active
      /\ life' = life /\ expired' = expired
  BY DEF tasks
<1>1. builtin => executing \subseteq aborted
  BY IdleRunners
<1>2. /\ current' \in Experiment /\ requests' \in SUBSET RequestId
      /\ disk' \in [current : Experiment \cup {None}, requests : SUBSET RequestId]
      /\ storageFailed' \in BOOLEAN
      /\ requests' = reqs /\ current' # None
      /\ DOMAIN current'.trials = DOMAIN cur.trials
      /\ disk.requests \subseteq disk'.requests /\ disk'.requests \subseteq requests'
      /\ disk'.current # None => DOMAIN disk'.current.trials \subseteq disk'.requests
      /\ PhaseInv' /\ DurableBeforeUsable' /\ ConfirmedMeansSettled' /\ DiskSettled' /\ LateInv'
  <2>1. cur.stopStatus = "CONFIRMED" =>
          \A q \in executing' \cap DOMAIN cur.trials : builtin /\ q \in aborted'
    BY <1>0, <1>1 DEF IInv, TypeOK
  <2>2. None \notin DOMAIN cur.trials
    BY NoneAssumption
  <2>3. disk.current # None =>
          \A q \in DOMAIN cur.trials \cap DOMAIN disk.current.trials :
            disk.current.trials[q] = "COMPLETED" =>
              q # None /\ cur.trials[q] \in {"RUNNING", "COMPLETED"}
    BY <2>2 DEF IInv, LateInv
  <2>4. executing' \subseteq executing /\ aborted \subseteq aborted' /\ builtin' = builtin
    BY <1>0
  <2> QED BY <2>1, <2>3, <2>4, Saves
<1>3. KnownInv' /\ OnceInv'
  BY <1>0, <1>2 DEF IInv, KnownInv, OnceInv
<1>4. ActiveInv' /\ QueueInv'
  BY <1>0 DEF IInv, ActiveInv, QueueInv, Owns
<1>5. RunnerInv'
  BY <1>0, <1>1, <1>2 DEF RunnerInv
<1>6. TypeOK'
  BY <1>0, <1>2 DEF IInv, TypeOK
<1> QED BY <1>2, <1>3, <1>4, <1>5, <1>6 DEF IInv

\* A proposal: a plan without trials.
LEMMA ProposeKeeps ==
  ASSUME IInv, NEW r \in RequestId, Propose(r)
  PROVE  IInv'
<1> DEFINE cur == [id |-> nextId, phase |-> "PROPOSED", stopStatus |-> "none",
                   trials |-> [q \in {} |-> "RUNNING"]]
<1>1. /\ life = "open" /\ active = None /\ Persist(cur, requests \cup {r}, None, storageFailed)
      /\ nextId <= MaxExperiments /\ nextId' = nextId + 1
      /\ UNCHANGED <<life, builtin, active, expired, tasks>>
  BY DEF Propose, Usable
<1>2. requests \cup {r} \in SUBSET RequestId /\ nextId \in 1..(MaxExperiments + 1)
  BY DEF IInv, TypeOK
<1>3. nextId \in ExperimentId /\ nextId' \in 1..(MaxExperiments + 1)
  BY <1>1, <1>2, ExperimentAssumption DEF ExperimentId
<1>4. cur \in Experiment
  <2> DEFINE t == [q \in {} |-> "RUNNING"]
  <2>1. t \in UNION {[S -> TrialStatus] : S \in SUBSET RequestId}
    BY TrialsType
  <2> QED BY <1>3, <2>1 DEF Experiment, Phase
<1>5. DOMAIN cur.trials = {} /\ Sound(cur)
  BY DEF Sound
<1> HIDE DEF cur
<1> QED BY <1>1, <1>2, <1>3, <1>4, <1>5, IdleSaves

\* The plan is saved with its trials, in another phase.
PlanSaved ==
  \E phase \in Phase, stop \in {"none", "CONFIRMED", "UNCONFIRMED"}, latched \in BOOLEAN :
    /\ Persist(Planned(current, phase, stop), requests, None, latched)
    /\ phase \notin {"PROPOSED", "RUNNING"}
    /\ phase = "READY" => stop = "none"

\* A plan that was never stopped, in another phase.
LEMMA SameStopStatus ==
  ASSUME NEW cur \in Experiment, NEW phase, cur.stopStatus = "none"
  PROVE  [cur EXCEPT !.phase = phase] = Planned(cur, phase, "none")
BY DEF Experiment, Planned

LEMMA SavedInPhase ==
  ASSUME current \in Experiment, current.stopStatus = "none", storageFailed \in BOOLEAN,
         NEW phase \in Phase \ {"PROPOSED", "RUNNING"},
         Persist([current EXCEPT !.phase = phase], requests, None, storageFailed)
  PROVE  PlanSaved
<1>1. [current EXCEPT !.phase = phase] = Planned(current, phase, "none")
  BY SameStopStatus
<1>2. Persist(Planned(current, phase, "none"), requests, None, storageFailed)
  BY <1>1
<1> QED BY <1>2 DEF PlanSaved

\* Approval, the end of a plan, and a Stop while no trial is active keep the plan's trials.
LEMMA PlanSteps ==
  ASSUME IInv, Approve \/ Finish \/ StopIdle
  PROVE  /\ life = "open" /\ active = None /\ current # None
         /\ storageFailed \/ current.phase \notin Terminal \cup {"OUTCOME_UNKNOWN"}
         /\ PlanSaved
         /\ UNCHANGED <<life, builtin, active, expired, nextId, tasks>>
<1>0. storageFailed \in BOOLEAN /\ (current # None => current \in Experiment)
  BY DEF IInv, TypeOK
<1>1. CASE Approve
  <2>1. active = None
    BY <1>1 DEF Approve, Usable, IInv, ActiveInv
  <2>2. current \in Experiment /\ current.stopStatus = "none"
    BY <1>0, <1>1 DEF Approve, IInv, PhaseInv, Sound
  <2>3. Persist([current EXCEPT !.phase = "READY"], requests, None, storageFailed)
    BY <1>1 DEF Approve
  <2>4. "READY" \in Phase \ {"PROPOSED", "RUNNING"}
    BY DEF Phase, Terminal
  <2>5. PlanSaved
    BY <1>0, <2>2, <2>3, <2>4, SavedInPhase
  <2>6. /\ life = "open" /\ current # None /\ current.phase = "PROPOSED"
        /\ UNCHANGED <<life, builtin, active, expired, nextId, tasks>>
    BY <1>1 DEF Approve, Usable
  <2> QED BY <2>1, <2>5, <2>6 DEF Terminal
<1>2. CASE Finish
  <2>1. current \in Experiment /\ current.stopStatus = "none"
    BY <1>0, <1>2 DEF Finish, IInv, PhaseInv, Sound
  <2>2. Persist([current EXCEPT !.phase = "COMPLETED"], requests, None, storageFailed)
    BY <1>2 DEF Finish
  <2>3. "COMPLETED" \in Phase \ {"PROPOSED", "RUNNING"}
    BY DEF Phase, Terminal
  <2>4. PlanSaved
    BY <1>0, <2>1, <2>2, <2>3, SavedInPhase
  <2>5. /\ life = "open" /\ active = None /\ current # None /\ current.phase = "READY"
        /\ UNCHANGED <<life, builtin, active, expired, nextId, tasks>>
    BY <1>2 DEF Finish, Usable
  <2> QED BY <2>4, <2>5 DEF Terminal
<1>3. CASE StopIdle
  <2>1. Persist(Planned(current, "STOPPED", "CONFIRMED"), requests, None, FALSE)
    BY <1>3 DEF StopIdle, Planned
  <2>2. "STOPPED" \in Phase
    BY DEF Phase, Terminal
  <2>3. PlanSaved
    BY <2>1, <2>2 DEF PlanSaved
  <2>4. /\ life = "open" /\ active = None /\ current # None
        /\ storageFailed \/ current.phase \notin Terminal \cup {"OUTCOME_UNKNOWN"}
        /\ UNCHANGED <<life, builtin, active, expired, nextId, tasks>>
    BY <1>3 DEF StopIdle
  <2> QED BY <2>3, <2>4
<1> QED BY <1>1, <1>2, <1>3

\* None of the three disturbs the invariant.
LEMMA PlanKeeps ==
  ASSUME IInv, Approve \/ Finish \/ StopIdle
  PROVE  IInv'
<1>1. PICK phase \in Phase, stop \in {"none", "CONFIRMED", "UNCONFIRMED"}, latched \in BOOLEAN :
        /\ Persist(Planned(current, phase, stop), requests, None, latched)
        /\ phase \notin {"PROPOSED", "RUNNING"}
        /\ phase = "READY" => stop = "none"
  BY PlanSteps DEF PlanSaved
<1> DEFINE cur == Planned(current, phase, stop)
<1>2. /\ life = "open" /\ active = None /\ current # None
      /\ UNCHANGED <<life, builtin, active, expired, nextId, tasks>>
      /\ storageFailed \/ current.phase \notin Terminal \cup {"OUTCOME_UNKNOWN"}
  BY PlanSteps
<1>3. /\ current \in Experiment /\ requests \in SUBSET RequestId
      /\ nextId' \in 1..(MaxExperiments + 1)
  BY <1>2 DEF IInv, TypeOK
<1>4. /\ cur \in Experiment /\ cur.phase = phase /\ cur.stopStatus = stop
      /\ cur.trials = current.trials
  BY <1>3, PlanFields, SMTT(30)
<1>5. Sound(cur)
  BY <1>1, <1>4 DEF Sound
<1>6. DOMAIN cur.trials \subseteq requests
  BY <1>2, <1>4 DEF IInv, KnownInv
<1>7. ~builtin => executing \cap DOMAIN cur.trials = {}
  BY <1>2, <1>4, IdleRunners
<1>8. \A q \in DOMAIN cur.trials :
        current # None /\ q \in DOMAIN current.trials /\ cur.trials[q] = current.trials[q]
  BY <1>2, <1>4
<1>9. Persist(cur, requests, None, latched)
  BY <1>1
<1> HIDE DEF cur
<1>10. requests \subseteq requests /\ UNCHANGED <<life, builtin, active, expired, tasks>>
  BY <1>2
<1>11. IInv
  OBVIOUS
<1> QED BY ONLY <1>2, <1>3, <1>4, <1>5, <1>6, <1>7, <1>8, <1>9, <1>10, <1>11, IdleSaves

-----------------------------------------------------------------------------
(* A trial and its dispatch                                                *)

\* What trial() makes of a plan that is ready.
LEMMA TrialFacts ==
  ASSUME IInv, NEW r \in RequestId, r \notin requests, current # None, current.phase = "READY",
         NEW cur, cur = WithTrial([current EXCEPT !.phase = "RUNNING"], r, "RUNNING")
  PROVE  /\ cur \in Experiment /\ cur.phase = "RUNNING" /\ cur.stopStatus = "none"
         /\ DOMAIN cur.trials = DOMAIN current.trials \cup {r} /\ cur.trials[r] = "RUNNING"
         /\ \A q \in DOMAIN current.trials : q # r => cur.trials[q] = current.trials[q]
<1> DEFINE plan == [current EXCEPT !.phase = "RUNNING"]
<1>1. current \in Experiment /\ current.stopStatus = "none"
  BY DEF IInv, TypeOK, PhaseInv, Sound
<1>2. /\ plan \in Experiment /\ plan.phase = "RUNNING" /\ plan.stopStatus = "none"
      /\ plan.trials = current.trials
  BY <1>1, PlanType DEF Experiment, Phase
<1>3. cur = WithTrial(plan, r, "RUNNING") /\ "RUNNING" \in TrialStatus
  BY DEF TrialStatus
<1> HIDE DEF plan
<1>4. /\ cur \in Experiment /\ cur.phase = plan.phase /\ cur.stopStatus = plan.stopStatus
      /\ DOMAIN cur.trials = DOMAIN plan.trials \cup {r} /\ cur.trials[r] = "RUNNING"
      /\ \A q \in DOMAIN plan.trials : q # r => cur.trials[q] = plan.trials[q]
  BY <1>2, <1>3, WithTrialFacts
<1> QED BY <1>2, <1>4

\* A trial, recorded or not, keeps the invariant.
LEMMA TrialKeeps ==
  ASSUME IInv, NEW r \in RequestId, Trial(r)
  PROVE  IInv'
<1>0. None \notin Experiment /\ None \notin RequestId
  BY NoneAssumption
<1>1. /\ life = "open" /\ active = None /\ current # None /\ current.phase = "READY"
      /\ r \notin requests
      /\ UNCHANGED <<life, builtin, expired, nextId, aborted, executing, dispatches>>
      /\ IF storageFailed'
           THEN UNCHANGED <<active, queued>>
           ELSE active' = [request |-> r, interrupted |-> "none"] /\ queued' = queued \cup {r}
  BY DEF Trial, Usable
<1>2. PICK cur : cur = WithTrial([current EXCEPT !.phase = "RUNNING"], r, "RUNNING")
  OBVIOUS
<1>3. Persist(cur, requests \cup {r}, r, storageFailed)
  BY <1>2 DEF Trial
<1>4. /\ cur \in Experiment /\ cur.phase = "RUNNING" /\ cur.stopStatus = "none"
      /\ DOMAIN cur.trials = DOMAIN current.trials \cup {r} /\ cur.trials[r] = "RUNNING"
      /\ \A q \in DOMAIN current.trials : q # r => cur.trials[q] = current.trials[q]
  BY <1>1, <1>2, TrialFacts
<1>5. /\ dispatches[r] = 0 /\ r \notin queued /\ r \notin executing /\ r \notin disk.requests
      /\ r \notin DOMAIN current.trials
  BY <1>1 DEF IInv, TypeOK, KnownInv, OnceInv
<1>6. /\ builtin => executing \subseteq aborted
      /\ ~builtin => executing \cap DOMAIN cur.trials = {}
  <2>1. current.phase \notin Terminal \cup {"OUTCOME_UNKNOWN"}
    BY <1>1 DEF Terminal
  <2> QED BY <1>1, <1>4, <1>5, <2>1, IdleRunners
<1>7. /\ current' \in Experiment /\ requests' \in SUBSET RequestId
      /\ disk' \in [current : Experiment \cup {None}, requests : SUBSET RequestId]
      /\ storageFailed' \in BOOLEAN
      /\ requests' = requests \cup {r} /\ current' # None
      /\ DOMAIN current'.trials = DOMAIN cur.trials
      /\ \/ /\ ~storageFailed' /\ current' = cur
            /\ disk' = [current |-> cur, requests |-> requests \cup {r}]
         \/ storageFailed' /\ current'.phase = "OUTCOME_UNKNOWN" /\ disk' = disk
      /\ disk.requests \subseteq disk'.requests /\ disk'.requests \subseteq requests'
      /\ disk'.current # None => DOMAIN disk'.current.trials \subseteq disk'.requests
      /\ PhaseInv' /\ DurableBeforeUsable' /\ ConfirmedMeansSettled' /\ DiskSettled' /\ LateInv'
  <2>1. Sound(cur)
    BY <1>4 DEF Sound
  <2>2. DOMAIN cur.trials \subseteq requests \cup {r} /\ requests \cup {r} \in SUBSET RequestId
    BY <1>1, <1>4 DEF IInv, KnownInv, TypeOK
  <2>3. cur.stopStatus = "CONFIRMED" =>
          \A q \in executing' \cap DOMAIN cur.trials : builtin /\ q \in aborted'
    BY <1>4
  <2>4. disk.current # None =>
          \A q \in DOMAIN cur.trials \cap DOMAIN disk.current.trials :
            disk.current.trials[q] = "COMPLETED" =>
              q # r /\ cur.trials[q] \in {"RUNNING", "COMPLETED"}
    BY <1>1, <1>4, <1>5 DEF IInv, KnownInv, LateInv
  <2>5. /\ executing' \subseteq executing /\ aborted \subseteq aborted' /\ builtin' = builtin
        /\ requests \subseteq requests \cup {r} /\ r \in DOMAIN cur.trials
    BY <1>1, <1>4
  <2> QED BY <1>3, <1>4, <2>1, <2>2, <2>3, <2>4, <2>5, Saves
<1>8. CASE ~storageFailed'
  <2>1. /\ active' = [request |-> r, interrupted |-> "none"] /\ queued' = queued \cup {r}
        /\ current' = cur /\ disk'.current = cur /\ disk'.requests = requests \cup {r}
    BY <1>1, <1>7, <1>8
  <2>2. active' \in Owner /\ active' # None /\ active'.request = r
    BY <2>1, NoneAssumption DEF Owner
  <2>3. KnownInv'
    <3>1. requests' = requests \cup {r}
      BY <1>7
    <3>2. DOMAIN cur.trials \subseteq requests \cup {r}
      BY <1>1, <1>4 DEF IInv, KnownInv
    <3> QED BY <2>1, <3>1, <3>2 DEF IInv, KnownInv
  <2>4. OnceInv'
    <3>1. disk.requests \subseteq disk'.requests
      BY <1>7
    <3>2. dispatches' = dispatches /\ executing' = executing
      BY <1>1
    <3>3. SUFFICES ASSUME NEW q \in RequestId
                   PROVE  /\ dispatches[q] <= 1
                          /\ dispatches[q] > 0 => q \in disk'.requests
                          /\ q \in queued \cup {r} => dispatches[q] = 0
                          /\ q \in executing => dispatches[q] = 1
      BY <2>1, <3>2 DEF OnceInv
    <3> QED BY <1>5, <3>1, <3>3 DEF IInv, OnceInv
  <2>5. ActiveInv'
    BY <1>4, <1>7, <2>1 DEF ActiveInv
  <2>6. QueueInv'
    BY <1>1, <2>1, <2>2 DEF IInv, QueueInv, Owns
  <2>7. RunnerInv'
    BY <1>1, <1>6, <1>7 DEF RunnerInv
  <2>8. TypeOK'
    BY <1>1, <1>7, <2>1, <2>2 DEF IInv, TypeOK
  <2> QED BY <1>7, <2>3, <2>4, <2>5, <2>6, <2>7, <2>8 DEF IInv
<1>9. CASE storageFailed'
  <2>1. UNCHANGED <<active, queued>> /\ disk' = disk
    BY <1>1, <1>7, <1>9
  <2>2. KnownInv' /\ OnceInv'
    BY <1>1, <1>4, <1>7, <2>1 DEF IInv, KnownInv, OnceInv
  <2>3. ActiveInv' /\ QueueInv'
    BY <1>1, <2>1 DEF IInv, ActiveInv, QueueInv, Owns
  <2>4. RunnerInv'
    BY <1>1, <1>6, <1>7 DEF RunnerInv
  <2>5. TypeOK'
    BY <1>1, <1>7, <2>1 DEF IInv, TypeOK
  <2> QED BY <1>7, <2>2, <2>3, <2>4, <2>5 DEF IInv
<1> QED BY <1>8, <1>9

\* A dispatch that was not aborted is that of the owner, on a plan that runs.
LEMMA DispatchFacts ==
  ASSUME IInv, NEW r \in queued, r \notin aborted
  PROVE  /\ r \in RequestId /\ Owns(r) /\ active.interrupted = "none"
         /\ current # None /\ current.phase = "RUNNING" /\ current.stopStatus = "none"
         /\ disk.current = current
<1>1. r \in RequestId /\ Owns(r) /\ active.interrupted = "none"
  BY DEF IInv, TypeOK, QueueInv
<1>2. current # None /\ current.phase = "RUNNING"
  BY <1>1 DEF IInv, ActiveInv, Owns
<1> QED BY <1>1, <1>2 DEF IInv, PhaseInv, Sound, DurableBeforeUsable, Owns

\* A dispatch keeps the invariant, whether it calls the runner or finds its trial aborted.
LEMMA DispatchKeeps ==
  ASSUME IInv, NEW r \in RequestId, Dispatch(r)
  PROVE  IInv'
<1>1. /\ r \in queued /\ queued' = queued \ {r} /\ dispatches[r] = 0 /\ r \notin executing
      /\ UNCHANGED <<life, builtin, expired, nextId, aborted>>
  BY DEF Dispatch, IInv, OnceInv
<1>2. CASE r \in aborted
  <2>1. Complete(r, FALSE) /\ UNCHANGED <<executing, dispatches>>
    BY <1>2 DEF Dispatch
  <2> QED BY <1>1, <2>1, AnswerKeeps
<1>3. CASE r \notin aborted
  <2>1. /\ executing' = executing \cup {r} /\ dispatches' = [dispatches EXCEPT ![r] = @ + 1]
        /\ UNCHANGED <<memory, disk>>
    BY <1>3 DEF Dispatch
  <2>2. /\ Owns(r) /\ current.stopStatus = "none" /\ disk.current = current
        /\ life = "open" /\ current # None
    BY <1>1, <1>3, DispatchFacts DEF Owns
  <2>3. /\ current' = current /\ requests' = requests /\ active' = active
        /\ storageFailed' = storageFailed /\ disk' = disk
    BY <2>1 DEF memory
  <2>4. KnownInv' /\ PhaseInv' /\ DurableBeforeUsable' /\ LateInv'
    BY <1>1, <2>3 DEF IInv, KnownInv, PhaseInv, DurableBeforeUsable, LateInv
  <2>5. OnceInv'
    <3>1. /\ dispatches \in [RequestId -> Nat]
          /\ r \in disk.requests
      BY <1>1 DEF IInv, TypeOK, KnownInv
    <3>2. dispatches'[r] = 1 /\ \A q \in RequestId : q # r => dispatches'[q] = dispatches[q]
      BY <1>1, <2>1, <3>1
    <3> QED BY <1>1, <2>1, <2>3, <3>1, <3>2 DEF IInv, OnceInv
  <2>6. ActiveInv' /\ QueueInv'
    BY <1>1, <2>3 DEF IInv, ActiveInv, QueueInv, Owns
  <2>7. RunnerInv'
    BY <1>1, <2>1, <2>2, <2>3 DEF IInv, RunnerInv, Owns
  <2>8. ConfirmedMeansSettled' /\ DiskSettled'
    BY <2>2, <2>3 DEF ConfirmedMeansSettled, DiskSettled, Settled
  <2>9. TypeOK'
    <3>1. dispatches' \in [RequestId -> Nat]
      BY <2>1 DEF IInv, TypeOK
    <3>2. aborted' \cup queued' \cup executing' \subseteq RequestId
      BY <1>1, <2>1 DEF IInv, TypeOK
    <3> QED BY <1>1, <2>3, <3>1, <3>2 DEF IInv, TypeOK
  <2> QED BY <2>4, <2>5, <2>6, <2>7, <2>8, <2>9 DEF IInv
<1> QED BY <1>2, <1>3

\* So does a runner that settles.
LEMMA SettleKeeps ==
  ASSUME IInv, NEW r \in RequestId, NEW valid \in BOOLEAN, Settle(r, valid)
  PROVE  IInv'
<1>1. /\ executing' = executing \ {r} /\ Complete(r, valid)
      /\ UNCHANGED <<life, builtin, expired, nextId, aborted, queued, dispatches>>
  BY DEF Settle
<1>2. r \notin queued
  BY DEF Settle, IInv, OnceInv
<1> QED BY <1>1, <1>2, AnswerKeeps

-----------------------------------------------------------------------------
(* Expiry, and the end of a controller                                     *)

\* The approval window concerns nothing else.
LEMMA ExpireKeeps ==
  ASSUME IInv, Expire
  PROVE  IInv'
<1>1. expired' = expired \cup {current.id} /\ current # None
  BY DEF Expire
<1>2. UNCHANGED <<life, builtin, memory, disk, nextId, tasks>>
  BY DEF Expire
<1> USE <1>2 DEF IInv, memory, tasks
<1>3. TypeOK'
  BY <1>1 DEF TypeOK, Experiment
<1>4. KnownInv' /\ OnceInv' /\ PhaseInv' /\ ActiveInv' /\ QueueInv'
  BY DEF KnownInv, OnceInv, PhaseInv, ActiveInv, QueueInv, Owns
<1>5. DurableBeforeUsable' /\ RunnerInv' /\ ConfirmedMeansSettled' /\ DiskSettled' /\ LateInv'
  BY DEF DurableBeforeUsable, RunnerInv, ConfirmedMeansSettled, DiskSettled, Settled, LateInv, Owns
<1> QED BY <1>3, <1>4, <1>5

\* dispose() of a controller without a trial, and a crash, end the controller and at most
\* the tasks of its process.
LEMMA ClosingKeeps ==
  ASSUME IInv, life' = "closed", UNCHANGED <<builtin, memory, disk, expired, nextId, dispatches>>,
         \/ life = "open" /\ active = None /\ UNCHANGED <<aborted, queued, executing>>
         \/ aborted' = {} /\ queued' = {} /\ executing' = {}
  PROVE  IInv'
<1>1. /\ current' = current /\ requests' = requests /\ active' = active
      /\ storageFailed' = storageFailed /\ disk' = disk /\ dispatches' = dispatches
      /\ builtin' = builtin /\ expired' = expired /\ nextId' = nextId
  BY DEF memory
<1>2. queued' \subseteq queued /\ executing' \subseteq executing
  OBVIOUS
<1>3. queued' \subseteq aborted'
  BY DEF IInv, QueueInv, Owns
<1>4. builtin => executing' \subseteq aborted'
  BY DEF IInv, RunnerInv, Owns
<1>5. TypeOK'
  BY <1>1 DEF IInv, TypeOK
<1>6. KnownInv' /\ PhaseInv' /\ LateInv'
  BY <1>1, <1>2 DEF IInv, KnownInv, PhaseInv, LateInv
<1>7. OnceInv'
  BY <1>1, <1>2 DEF IInv, OnceInv
<1>8. ActiveInv' /\ DurableBeforeUsable' /\ ConfirmedMeansSettled'
  BY DEF ActiveInv, DurableBeforeUsable, ConfirmedMeansSettled
<1>9. QueueInv' /\ RunnerInv'
  BY <1>1, <1>3, <1>4 DEF QueueInv, RunnerInv
<1>10. DiskSettled'
  BY <1>1 DEF IInv, DiskSettled, Settled
<1> QED BY <1>5, <1>6, <1>7, <1>8, <1>9, <1>10 DEF IInv

\* dispose(), with or without a trial in progress.
LEMMA DisposeKeeps ==
  ASSUME IInv, Dispose
  PROVE  IInv'
<1>1. life = "open" /\ life' = "closed" /\ UNCHANGED <<builtin, expired, nextId, queued, executing, dispatches>>
  BY DEF Dispose
<1>2. CASE active # None
  <2>1. Interrupt("stop")
    BY <1>2 DEF Dispose
  <2> QED BY <1>1, <1>2, <2>1, InterruptKeeps
<1>3. CASE active = None
  <2>1. UNCHANGED <<memory, disk, aborted>>
    BY <1>3 DEF Dispose
  <2> QED BY <1>1, <1>3, <2>1, ClosingKeeps
<1> QED BY <1>2, <1>3

\* What a reload makes of a plan on file.
LEMMA ReopenedFacts ==
  ASSUME NEW cur \in Experiment, Sound(cur), NEW w, w = Reopened(cur)
  PROVE  /\ w \in Experiment /\ Sound(w) /\ w.stopStatus = cur.stopStatus
         /\ DOMAIN w.trials = DOMAIN cur.trials
         /\ w.phase \in Terminal \cup {"OUTCOME_UNKNOWN", "PROPOSED"}
         /\ \A r \in DOMAIN cur.trials : cur.trials[r] # "COMPLETED" => w.trials[r] # "COMPLETED"
<1> DEFINE verdict == IF cur.phase = "OUTCOME_UNKNOWN" THEN "OUTCOME_UNKNOWN" ELSE "INTERRUPTED"
           t == [q \in DOMAIN cur.trials |->
                   IF cur.trials[q] = "RUNNING" THEN verdict ELSE cur.trials[q]]
<1>1. DOMAIN cur.trials \subseteq RequestId /\ cur.trials \in [DOMAIN cur.trials -> TrialStatus]
  BY TrialsType DEF Experiment
<1>2. CASE cur.phase \in {"RUNNING", "READY", "OUTCOME_UNKNOWN"}
  <2>1. verdict \in TrialStatus /\ verdict \in Phase /\ verdict \in Terminal \cup {"OUTCOME_UNKNOWN"}
        /\ verdict \notin {"COMPLETED", "PROPOSED", "READY", "RUNNING"}
    BY DEF TrialStatus, Phase, Terminal
  <2> HIDE DEF verdict
  <2>2. t \in [DOMAIN cur.trials -> TrialStatus] /\ DOMAIN t = DOMAIN cur.trials
    BY <1>1, <2>1
  <2>3. t \in UNION {[S -> TrialStatus] : S \in SUBSET RequestId}
    BY <1>1, <2>2, TrialsType
  <2>4. w = [cur EXCEPT !.phase = verdict, !.trials = t]
    BY <1>2 DEF Reopened, verdict
  <2>5. /\ w \in Experiment /\ w.phase = verdict /\ w.stopStatus = cur.stopStatus /\ w.trials = t
    BY <2>1, <2>3, <2>4 DEF Experiment
  <2>6. \A r \in DOMAIN cur.trials : cur.trials[r] # "COMPLETED" => w.trials[r] # "COMPLETED"
    BY <2>1, <2>5
  <2> QED BY <2>1, <2>2, <2>5, <2>6 DEF Sound
<1>3. CASE cur.phase \notin {"RUNNING", "READY", "OUTCOME_UNKNOWN"}
  <2>1. w = cur
    BY <1>3 DEF Reopened
  <2>2. cur.phase \in Terminal \cup {"OUTCOME_UNKNOWN", "PROPOSED"}
    BY <1>3 DEF Experiment, Phase
  <2> QED BY <2>1, <2>2
<1> QED BY <1>2, <1>3

\* A controller that opens finds a file that nothing contradicts.
LEMMA OpenKeeps ==
  ASSUME IInv, Open
  PROVE  IInv'
<1>0. None \notin Experiment
  BY NoneAssumption
<1>1. /\ life # "open" /\ life' = "open" /\ requests' = disk.requests /\ active' = None
      /\ storageFailed' = FALSE
      /\ builtin' = builtin /\ expired' = expired /\ nextId' = nextId
      /\ aborted' = aborted /\ queued' = queued /\ executing' = executing
      /\ dispatches' = dispatches
  BY DEF Open, tasks
<1>2. disk \in [current : Experiment \cup {None}, requests : SUBSET RequestId]
  BY DEF IInv, TypeOK
<1>3. disk'.current = current' /\ disk'.requests = disk.requests
      /\ disk' = [disk EXCEPT !.current = current']
  BY <1>2 DEF Open
<1>4. CASE disk.current = None
  <2>1. current' = None
    BY <1>4 DEF Open
  <2>2. KnownInv' /\ OnceInv' /\ PhaseInv' /\ ActiveInv'
    BY <1>1, <1>3, <2>1 DEF IInv, KnownInv, OnceInv, PhaseInv, ActiveInv
  <2>3. QueueInv' /\ RunnerInv'
    BY <1>1, <2>1 DEF IInv, QueueInv, RunnerInv, Owns
  <2>4. DurableBeforeUsable' /\ ConfirmedMeansSettled' /\ DiskSettled' /\ LateInv'
    BY <1>3, <2>1 DEF DurableBeforeUsable, ConfirmedMeansSettled, DiskSettled, LateInv
  <2>5. TypeOK'
    BY <1>1, <1>2, <1>3, <2>1 DEF IInv, TypeOK
  <2> QED BY <2>2, <2>3, <2>4, <2>5 DEF IInv
<1>5. CASE disk.current # None
  <2>1. current' = Reopened(disk.current)
    BY <1>5 DEF Open
  <2>2. disk.current \in Experiment /\ Sound(disk.current)
    BY <1>2, <1>5 DEF IInv, PhaseInv
  <2>3. /\ current' \in Experiment /\ Sound(current') /\ current'.stopStatus = disk.current.stopStatus
        /\ DOMAIN current'.trials = DOMAIN disk.current.trials
        /\ current'.phase \in Terminal \cup {"OUTCOME_UNKNOWN", "PROPOSED"}
    BY <2>1, <2>2, ReopenedFacts
  <2>4. KnownInv' /\ OnceInv'
    BY <1>1, <1>3, <1>5, <2>3 DEF IInv, KnownInv, OnceInv
  <2>5. PhaseInv'
    BY <1>3, <2>3 DEF PhaseInv, Sound
  <2>6. ActiveInv' /\ QueueInv'
    BY <1>1 DEF IInv, ActiveInv, QueueInv, Owns
  <2>7. DurableBeforeUsable'
    BY <1>3 DEF DurableBeforeUsable
  <2>8. RunnerInv'
    <3>1. current'.phase = "PROPOSED" => DOMAIN current'.trials = {}
      BY <2>3 DEF Sound
    <3> QED BY <1>1, <2>3, <3>1 DEF IInv, RunnerInv, Owns
  <2>9. ConfirmedMeansSettled' /\ DiskSettled'
    BY <1>1, <1>3, <1>5, <2>3 DEF IInv, ConfirmedMeansSettled, DiskSettled, Settled
  <2>10. LateInv'
    BY <1>3 DEF LateInv
  <2>11. TypeOK'
    BY <1>1, <1>2, <1>3, <2>3 DEF IInv, TypeOK
  <2> QED BY <2>4, <2>5, <2>6, <2>7, <2>8, <2>9, <2>10, <2>11 DEF IInv
<1> QED BY <1>4, <1>5

-----------------------------------------------------------------------------
(* The invariant                                                           *)

\* A controller opens on an empty file.
LEMMA InitInv == Init => IInv
<1> SUFFICES ASSUME Init PROVE IInv
  OBVIOUS
<1>1. TypeOK
  <2>1. 1 \in 1..(MaxExperiments + 1)
    BY ExperimentAssumption
  <2>2. dispatches \in [RequestId -> Nat]
    BY DEF Init
  <2> QED BY <2>1, <2>2 DEF Init, TypeOK
<1>2. KnownInv /\ OnceInv /\ PhaseInv /\ ActiveInv /\ QueueInv
  BY DEF Init, KnownInv, OnceInv, PhaseInv, ActiveInv, QueueInv
<1>3. DurableBeforeUsable /\ RunnerInv /\ ConfirmedMeansSettled /\ DiskSettled /\ LateInv
  BY DEF Init, DurableBeforeUsable, RunnerInv, ConfirmedMeansSettled, DiskSettled, LateInv
<1> QED BY <1>1, <1>2, <1>3 DEF IInv

\* No step of the controller, its runners, its timer or the process breaks it.
LEMMA NextInv == IInv /\ [Next]_vars => IInv'
<1> SUFFICES ASSUME IInv, [Next]_vars PROVE IInv'
  OBVIOUS
<1>1. CASE \E r \in RequestId : Propose(r) \/ Trial(r)
  BY <1>1, ProposeKeeps, TrialKeeps
<1>2. CASE \E r \in RequestId : Dispatch(r) \/ \E valid \in BOOLEAN : Settle(r, valid)
  BY <1>2, DispatchKeeps, SettleKeeps
<1>3. CASE Approve \/ Finish \/ StopIdle
  BY <1>3, PlanKeeps
<1>4. CASE Expire
  BY <1>4, ExpireKeeps
<1>5. CASE Timeout
  BY <1>5, InterruptKeeps DEF Timeout
<1>6. CASE StopActive
  BY <1>6, InterruptKeeps DEF StopActive
<1>7. CASE Dispose
  BY <1>7, DisposeKeeps
<1>8. CASE Crash
  BY <1>8, ClosingKeeps DEF Crash
<1>9. CASE Open
  BY <1>9, OpenKeeps
<1>10. CASE UNCHANGED vars
  <2> USE <1>10 DEF IInv, vars, memory, tasks
  <2>1. TypeOK' /\ KnownInv' /\ OnceInv' /\ PhaseInv' /\ ActiveInv' /\ QueueInv'
    BY DEF TypeOK, KnownInv, OnceInv, PhaseInv, ActiveInv, QueueInv, Owns
  <2>2. DurableBeforeUsable' /\ RunnerInv' /\ ConfirmedMeansSettled' /\ DiskSettled' /\ LateInv'
    BY DEF DurableBeforeUsable, RunnerInv, ConfirmedMeansSettled, DiskSettled, Settled, LateInv, Owns
  <2> QED BY <2>1, <2>2
<1> QED BY <1>1, <1>2, <1>3, <1>4, <1>5, <1>6, <1>7, <1>8, <1>9, <1>10 DEF Next

\* The invariant holds in every state the program reaches.
THEOREM Invariance == Spec => []IInv
<1>1. Init => IInv
  BY InitInv
<1>2. IInv /\ [Next]_vars => IInv'
  BY NextInv
<1> QED BY <1>1, <1>2, PTL DEF Spec

\* Every variable keeps its type.
THEOREM TypeCorrect == Spec => []TypeOK
<1>1. IInv => TypeOK
  BY DEF IInv
<1> QED BY <1>1, Invariance, PTL

\* The runner is called once at most for a request identifier, whatever is retried, crashes,
\* or fails to be written in between.
THEOREM RequestsRunOnce == Spec => []DispatchedOnce
<1>1. IInv => DispatchedOnce
  BY DEF IInv, OnceInv, DispatchedOnce
<1> QED BY <1>1, Invariance, PTL

\* What an open controller shows as approved, running or concluded is what the file holds.
THEOREM DurableFirst == Spec => []DurableBeforeUsable
<1>1. IInv => DurableBeforeUsable
  BY DEF IInv
<1> QED BY <1>1, Invariance, PTL

\* A confirmed stop leaves no runner of the experiment at work, but a synthetic one that has
\* received its abort.
THEOREM ConfirmedStopsSettle == Spec => []ConfirmedMeansSettled
<1>1. IInv => ConfirmedMeansSettled
  BY DEF IInv
<1> QED BY <1>1, Invariance, PTL

-----------------------------------------------------------------------------
(* What a step may not do                                                  *)

\* The runner is called only for the trial that owns the controller, while its plan is
\* running and no stop has been asked for.
THEOREM DispatchesAreOwned == Spec => DispatchOwned
<1> DEFINE Owned == \A r \in RequestId : dispatches'[r] > dispatches[r] =>
                      Owns(r) /\ active.interrupted = "none" /\ current.phase = "RUNNING"
<1>1. IInv /\ [Next]_vars => Owned
  <2> SUFFICES ASSUME IInv, [Next]_vars, NEW r \in RequestId, dispatches'[r] > dispatches[r]
               PROVE  Owns(r) /\ active.interrupted = "none" /\ current.phase = "RUNNING"
    OBVIOUS
  <2>1. dispatches \in [RequestId -> Nat]
    BY DEF IInv, TypeOK
  <2>2. dispatches' # dispatches
    BY <2>1
  <2>3. PICK q \in RequestId : Dispatch(q)
    BY <2>2 DEF Next, vars, tasks, Propose, Trial, Settle, Approve, Finish, Expire, Timeout,
                StopActive, StopIdle, Dispose, Crash, Open
  <2>4. q \in queued /\ q \notin aborted /\ dispatches' = [dispatches EXCEPT ![q] = @ + 1]
    BY <2>2, <2>3 DEF Dispatch
  <2>5. q = r
    BY <2>1, <2>4
  <2> QED BY <2>4, <2>5, DispatchFacts
<1> HIDE DEF Owned
<1>2. Spec => [][Owned]_vars
  BY <1>1, Invariance, PTL DEF Spec
<1> QED BY <1>2, PTL DEF DispatchOwned, Owned

\* A write leaves the status a trial was given, or makes it unknown.
LEMMA PersistTrials ==
  ASSUME NEW cur \in Experiment, NEW reqs, NEW owner \in RequestId \cup {None}, NEW latched,
         Persist(cur, reqs, owner, latched), owner # None => owner \in DOMAIN cur.trials
  PROVE  /\ DOMAIN current'.trials = DOMAIN cur.trials
         /\ \A r \in DOMAIN cur.trials :
              cur.trials[r] # "COMPLETED" => current'.trials[r] # "COMPLETED"
<1>1. CASE current' = cur
  BY <1>1
<1>2. CASE current' = Unsaved(cur, owner)
  <2>1. /\ DOMAIN current'.trials = DOMAIN cur.trials
        /\ \A q \in DOMAIN cur.trials :
             current'.trials[q] = IF q = owner THEN "OUTCOME_UNKNOWN" ELSE cur.trials[q]
    BY <1>2, UnsavedFacts
  <2> QED BY <2>1
<1> QED BY <1>1, <1>2 DEF Persist

\* An interruption gives no trial a result.
LEMMA InterruptTrials ==
  ASSUME IInv, life = "open", active # None, NEW kind \in {"stop", "timeout"}, Interrupt(kind)
  PROVE  /\ DOMAIN current'.trials = DOMAIN current.trials
         /\ \A q \in DOMAIN current.trials :
              current.trials[q] # "COMPLETED" => current'.trials[q] # "COMPLETED"
<1> DEFINE r == active.request
<1>1. /\ r \in RequestId /\ current \in Experiment /\ r \in DOMAIN current.trials
  BY DEF IInv, TypeOK, ActiveInv, Owner
<1>2. PICK verdict \in {"OUTCOME_UNKNOWN", "STOPPED", "FAILED"},
           stop \in {"CONFIRMED", "UNCONFIRMED"}, owner \in {None, r} :
        Persist(WithTrial([current EXCEPT !.phase = verdict, !.stopStatus = stop], r, verdict),
                requests, owner, storageFailed)
  BY DEF Interrupt
<1> DEFINE plan == [current EXCEPT !.phase = verdict, !.stopStatus = stop]
<1>3. plan \in Experiment /\ plan.trials = current.trials
  BY <1>1, PlanType DEF Experiment, Phase, Terminal
<1>4. PICK cur : cur = WithTrial(plan, r, verdict)
  OBVIOUS
<1>5. Persist(cur, requests, owner, storageFailed)
  BY <1>2, <1>4
<1>6. verdict \in TrialStatus /\ verdict # "COMPLETED"
  BY DEF TrialStatus
<1> HIDE DEF plan, r
<1>7. /\ cur \in Experiment /\ DOMAIN cur.trials = DOMAIN plan.trials \cup {r}
      /\ cur.trials[r] = verdict
      /\ \A q \in DOMAIN plan.trials : q # r => cur.trials[q] = plan.trials[q]
  BY <1>1, <1>3, <1>4, <1>6, WithTrialFacts
<1>8. owner \in RequestId \cup {None} /\ (owner # None => owner \in DOMAIN cur.trials)
  BY <1>1, <1>7
<1>9. /\ DOMAIN current'.trials = DOMAIN cur.trials
      /\ \A q \in DOMAIN cur.trials :
           cur.trials[q] # "COMPLETED" => current'.trials[q] # "COMPLETED"
  BY <1>5, <1>7, <1>8, PersistTrials
<1> QED BY <1>1, <1>3, <1>6, <1>7, <1>9

\* An answer makes a measurement only of a trial that was running.
LEMMA AnswerTrials ==
  ASSUME IInv, NEW q \in RequestId, NEW valid \in BOOLEAN, Complete(q, valid),
         NEW r \in RequestId, current # None, r \in DOMAIN current.trials,
         current.trials[r] \notin {"RUNNING", "COMPLETED"}
  PROVE  current'.trials[r] # "COMPLETED"
<1>1. CASE Owns(q)
  <2>1. PICK cur : cur = Outcome(q, valid)
    OBVIOUS
  <2>2. Persist(cur, requests, q, storageFailed)
    BY <1>1, <2>1 DEF Complete
  <2>3. /\ cur \in Experiment /\ DOMAIN cur.trials = DOMAIN current.trials
        /\ \A p \in DOMAIN current.trials : p # q => cur.trials[p] = current.trials[p]
        /\ cur.trials[q] = "COMPLETED" => current.trials[q] = "RUNNING"
    BY <1>1, <2>1, OutcomeFacts
  <2>4. q \in DOMAIN cur.trials
    BY <1>1, <2>3 DEF IInv, ActiveInv, Owns
  <2>5. \A p \in DOMAIN cur.trials :
          cur.trials[p] # "COMPLETED" => current'.trials[p] # "COMPLETED"
    BY <2>2, <2>3, <2>4, PersistTrials
  <2> QED BY <2>3, <2>5
<1>2. CASE ~Owns(q)
  BY <1>2 DEF Complete, memory
<1> QED BY <1>1, <1>2

\* No step of any kind turns a trial that was stopped, timed out or lost into a measurement.
LEMMA LateStep ==
  ASSUME IInv, [Next]_vars,
         NEW r \in RequestId, current # None, r \in DOMAIN current.trials,
         current.trials[r] \notin {"RUNNING", "COMPLETED"},
         current' # None, r \in DOMAIN current'.trials
  PROVE  current'.trials[r] # "COMPLETED"
<1>0. current \in Experiment /\ storageFailed \in BOOLEAN
  BY DEF IInv, TypeOK
<1>1. CASE \E q \in RequestId : Propose(q)
  <2>1. PICK q \in RequestId : Propose(q)
    BY <1>1
  <2>2. /\ active = None /\ nextId <= MaxExperiments
        /\ Persist([id |-> nextId, phase |-> "PROPOSED", stopStatus |-> "none",
                    trials |-> [p \in {} |-> "RUNNING"]], requests \cup {q}, None, storageFailed)
    BY <2>1 DEF Propose
  <2>3. PICK cur : cur = [id |-> nextId, phase |-> "PROPOSED", stopStatus |-> "none",
                          trials |-> [p \in {} |-> "RUNNING"]]
    OBVIOUS
  <2>4. nextId \in ExperimentId
    BY <2>2, ExperimentAssumption DEF IInv, TypeOK, ExperimentId
  <2>5. cur \in Experiment /\ DOMAIN cur.trials = {}
    <3> DEFINE t == [p \in {} |-> "RUNNING"]
    <3>1. t \in UNION {[S -> TrialStatus] : S \in SUBSET RequestId}
      BY TrialsType
    <3> QED BY <2>3, <2>4, <3>1 DEF Experiment, Phase
  <2>6. Persist(cur, requests \cup {q}, None, storageFailed)
    BY <2>2, <2>3
  <2>7. DOMAIN current'.trials = {}
    BY <2>5, <2>6, PersistTrials
  <2> QED BY <2>7
<1>2. CASE \E q \in RequestId : Trial(q)
  <2>1. PICK q \in RequestId : Trial(q)
    BY <1>2
  <2>2. PICK cur : cur = WithTrial([current EXCEPT !.phase = "RUNNING"], q, "RUNNING")
    OBVIOUS
  <2>3. /\ q \notin requests /\ current.phase = "READY"
        /\ Persist(cur, requests \cup {q}, q, storageFailed)
    BY <2>1, <2>2 DEF Trial
  <2>4. /\ cur \in Experiment /\ DOMAIN cur.trials = DOMAIN current.trials \cup {q}
        /\ \A p \in DOMAIN current.trials : p # q => cur.trials[p] = current.trials[p]
    BY <2>2, <2>3, TrialFacts
  <2>5. q # r
    BY <2>3 DEF IInv, KnownInv
  <2>6. \A p \in DOMAIN cur.trials :
          cur.trials[p] # "COMPLETED" => current'.trials[p] # "COMPLETED"
    BY <2>3, <2>4, PersistTrials
  <2> QED BY <2>4, <2>5, <2>6
<1>3. CASE \E q \in RequestId : Dispatch(q)
  <2>1. PICK q \in RequestId : Dispatch(q)
    BY <1>3
  <2>2. Complete(q, FALSE) \/ current' = current
    BY <2>1 DEF Dispatch, memory
  <2> QED BY <2>2, AnswerTrials
<1>4. CASE \E q \in RequestId, valid \in BOOLEAN : Settle(q, valid)
  BY <1>4, AnswerTrials DEF Settle
<1>5. CASE Approve \/ Finish \/ StopIdle
  <2>1. PICK phase \in Phase, stop \in {"none", "CONFIRMED", "UNCONFIRMED"}, latched \in BOOLEAN :
          Persist(Planned(current, phase, stop), requests, None, latched)
    BY <1>5, PlanSteps DEF PlanSaved
  <2>2. PICK cur : cur = Planned(current, phase, stop)
    OBVIOUS
  <2>3. cur \in Experiment /\ cur.trials = current.trials
    BY <1>0, <2>2, PlanFields, SMTT(30)
  <2>4. Persist(cur, requests, None, latched)
    BY <2>1, <2>2
  <2>5. \A p \in DOMAIN cur.trials :
          cur.trials[p] # "COMPLETED" => current'.trials[p] # "COMPLETED"
    BY <2>3, <2>4, PersistTrials
  <2>6. r \in DOMAIN cur.trials /\ cur.trials[r] # "COMPLETED"
    BY <1>0, <2>3
  <2> QED BY ONLY <2>5, <2>6
<1>6. CASE Timeout \/ StopActive \/ (Dispose /\ active # None)
  BY <1>6, InterruptTrials DEF Timeout, StopActive, Dispose
<1>7. CASE Expire \/ (Dispose /\ active = None) \/ Crash \/ UNCHANGED vars
  BY <1>7 DEF Expire, Dispose, Crash, vars, memory
<1>8. CASE Open
  <2>1. disk.current \in Experiment /\ Sound(disk.current) /\ current' = Reopened(disk.current)
    BY <1>8 DEF Open, IInv, TypeOK, PhaseInv
  <2>2. /\ DOMAIN current'.trials = DOMAIN disk.current.trials
        /\ \A p \in DOMAIN disk.current.trials :
             disk.current.trials[p] # "COMPLETED" => current'.trials[p] # "COMPLETED"
    BY <2>1, ReopenedFacts
  <2>3. disk.current.trials[r] # "COMPLETED"
    BY <2>1, <2>2, NoneAssumption DEF IInv, LateInv
  <2> QED BY <2>2, <2>3
<1> QED BY <1>1, <1>2, <1>3, <1>4, <1>5, <1>6, <1>7, <1>8 DEF Next

\* A trial that was stopped, timed out or lost never becomes a measurement, in memory or
\* after a reload.
THEOREM LateResultsDiscarded == Spec => LateResultDiscarded
<1> DEFINE Discarded == \A r \in RequestId :
             /\ current # None /\ r \in DOMAIN current.trials
             /\ current.trials[r] \notin {"RUNNING", "COMPLETED"}
             /\ current' # None /\ r \in DOMAIN current'.trials
             => current'.trials[r] # "COMPLETED"
<1>1. IInv /\ [Next]_vars => Discarded
  BY LateStep
<1> HIDE DEF Discarded
<1>2. Spec => [][Discarded]_vars
  BY <1>1, Invariance, PTL DEF Spec
<1> QED BY <1>2, PTL DEF LateResultDiscarded, Discarded
=============================================================================
