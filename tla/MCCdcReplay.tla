----------------------------- MODULE MCCdcReplay -----------------------------
(* Programs of three ranks. *)
EXTENDS CdcReplay

Sends(to, m) == [op |-> "send", to |-> to, set |-> m]
Tests(m) == [op |-> "test", set |-> m]
Until(m, n) == [op |-> "until", set |-> m, count |-> n]
Joins(name) == [op |-> name]

Ranks(x, y, z) == [p \in {0, 1, 2} |-> CASE p = 0 -> x [] p = 1 -> y [] p = 2 -> z]

(* Two ranks send to the first, one of them only after a message from it. *)
Relay == Ranks(<<Sends(2, 1), Until(1, 2)>>, <<Sends(0, 1)>>, <<Until(1, 1), Sends(0, 1)>>)

(* The last rank polls before it answers; its clock depends on what it got. *)
Polling == Ranks(<<Sends(2, 1), Until(1, 1)>>, << >>, <<Tests(1), Until(1, 1), Sends(0, 1)>>)

(* Two messages of one rank and one of another. *)
Two == Ranks(<<Until(1, 3)>>, <<Sends(0, 1), Sends(0, 1)>>,
               <<Sends(0, 1)>>)

(* Two ranks wait for each other's messages in two matching sets. *)
Exchange == Ranks(<<Sends(1, 2), Until(2, 1), Until(1, 1)>>,
                  <<Tests(2), Until(2, 1), Sends(0, 2)>>, <<Sends(0, 1)>>)

(* A rank has a message of a later clock than the rank it may hear from,    *)
(* and that one waits for it: it must publish that its next clock is later. *)
Mutual == Ranks(<<Sends(0, 1), Sends(0, 1), Until(1, 2), Sends(1, 2), Until(1, 3)>>,
                <<Until(2, 1), Sends(0, 1)>>, << >>)

(* A collective between the messages. *)
Synchronised(name) == Ranks(<<Joins(name), Until(1, 2)>>, <<Joins(name), Sends(0, 1)>>,
                            <<Joins(name), Sends(0, 1)>>)

(* Every collective, with nothing but the end of the program after it. *)
Around(name) == Ranks(<<Sends(1, 1), Joins(name)>>, <<Until(1, 1), Joins(name)>>, <<Joins(name)>>)

const_Rank == {0, 1, 2}
const_Programs ==
    {Relay, Polling, Exchange, Mutual, Synchronised("MPI_Barrier"), Two}
        \union {Around(name) : name \in Collectives}
const_Three == {Two}
const_Bcast == {Synchronised("MPI_Bcast")}
=============================================================================
