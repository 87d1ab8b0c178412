----------------------------- MODULE MCCdcCodec -----------------------------
(* Clock delta compression of the receives of one rank.                     *)
EXTENDS CdcCodec

(* Two sources, two matching sets, tests in vain, calls that return several *)
(* messages, records of several chunks, crashes.                            *)
Mixed ==
    [traffic |-> {<<1, 0>>, <<1, 1>>, <<1, 2>>, <<2, 1>>}, clocks |-> 10..11,
     events |-> 3, several |-> TRUE, lengths |-> {0, 9}, crashes |-> {2}]

(* Every order in which five messages can be observed, in one chunk. *)
Permuted5 ==
    [traffic |-> {<<1, 1>>}, clocks |-> 10..14,
     events |-> 5, several |-> FALSE, lengths |-> {9}, crashes |-> {}]

const_Workloads == {Mixed, Permuted5}

(* Each set receives from one source, more than once. *)
Separate ==
    [traffic |-> {<<1, 1>>, <<2, 2>>}, clocks |-> 10..12,
     events |-> 3, several |-> FALSE, lengths |-> {0}, crashes |-> {}]
const_Overtaking == {[Mixed EXCEPT !.crashes = {}]}
=============================================================================
