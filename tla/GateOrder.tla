------------------------------- MODULE GateOrder -------------------------------
(***************************************************************************)
(* What an order-preserving gate promises, without clocks, files or locks: *)
(* the recorded run leaves, for every lock, the order in which sections    *)
(* passed its gate, and the replay passes the sections of every lock in    *)
(* exactly that order.                                                     *)
(***************************************************************************)
EXTENDS Integers, Sequences

CONSTANTS Sections, Locks

VARIABLES mode, recorded, replayed

vars == <<mode, recorded, replayed>>

Init ==
  /\ mode = "record"
  /\ recorded = [l \in Locks |-> <<>>]
  /\ replayed = [l \in Locks |-> <<>>]

Passed(order, s) ==
  \E l \in Locks : \E i \in 1..Len(order[l]) : order[l][i] = s

\* A section passes the gate of lock l in the recorded run, once.
Record(l) ==
  /\ mode = "record"
  /\ \E s \in Sections :
       /\ ~Passed(recorded, s)
       /\ recorded' = [recorded EXCEPT ![l] = Append(@, s)]
  /\ UNCHANGED <<mode, replayed>>

Rerun ==
  /\ mode = "record"
  /\ mode' = "replay"
  /\ UNCHANGED <<recorded, replayed>>

\* In the replay only the section that comes next in the recorded order passes.
Replay(l) ==
  /\ mode = "replay"
  /\ Len(replayed[l]) < Len(recorded[l])
  /\ replayed' = [replayed EXCEPT
                    ![l] = Append(@, recorded[l][Len(@) + 1])]
  /\ UNCHANGED <<mode, recorded>>

Next == Rerun \/ \E l \in Locks : Record(l) \/ Replay(l)

Spec == Init /\ [][Next]_vars
===============================================================================
