------------------------------- MODULE EventStream ------------------------------
(***************************************************************************)
(* What the replayed application is promised by whatever lies between it   *)
(* and the record file: the recorded events, each once and in their order, *)
(* and "finished" only after the last one.                                 *)
(***************************************************************************)
EXTENDS Naturals, Sequences

CONSTANT Recorded    \* the events of the recorded run

VARIABLES delivered, finished

Init == delivered = <<>> /\ finished = FALSE

Deliver ==
  /\ Len(delivered) < Len(Recorded)
  /\ delivered' = Append(delivered, Recorded[Len(delivered) + 1])
  /\ UNCHANGED finished

Finish ==
  /\ delivered = Recorded
  /\ finished' = TRUE
  /\ UNCHANGED delivered

Next == Deliver \/ Finish

Spec == Init /\ [][Next]_<<delivered, finished>>
================================================================================
