---------------------------------- MODULE Fifo ---------------------------------
(***************************************************************************)
(* What the queue between two threads promises: what one puts in, the      *)
(* other takes out, once and in order.                                     *)
(***************************************************************************)
EXTENDS Sequences

CONSTANT Items

VARIABLES
  contents,    \* what is in the queue
  taken        \* what has been taken out, in order

Init == contents = <<>> /\ taken = <<>>

Put(v) == contents' = Append(contents, v) /\ UNCHANGED taken

Take ==
  /\ contents # <<>>
  /\ taken' = Append(taken, Head(contents))
  /\ contents' = Tail(contents)

Next == Take \/ \E v \in Items : Put(v)

Spec == Init /\ [][Next]_<<contents, taken>>
================================================================================
