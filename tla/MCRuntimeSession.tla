-------------------------- MODULE MCRuntimeSession --------------------------
(***************************************************************************)
(* Small instances of RuntimeSession: two observation names, capture and   *)
(* receipt one instant apart at most, an action that expires at the second *)
(* or third instant, so that every limit can be met on both sides of it.   *)
(***************************************************************************)
EXTENDS RuntimeSession

MCInstant == 0..3

MCObservation ==
  {o \in [id : ObservationId, sequence : 1..2, captured : 0..1, received : 0..2] :
     o.captured <= o.received /\ o.received <= o.captured + 1}

MCActionChunk ==
  {a \in [source : ObservationId, created : 0..2, validFrom : 0..2, expires : {3},
          matches : {TRUE}, inLimits : {TRUE}] : a.created <= a.validFrom}
  \cup [source : ObservationId, created : {1}, validFrom : {1}, expires : {2, 3},
        matches : {TRUE}, inLimits : BOOLEAN]
=============================================================================
