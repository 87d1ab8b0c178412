---------------------------------- MODULE Mpi ----------------------------------
(***************************************************************************)
(* What ReMPI uses of the MPI library: messages between two processes of a *)
(* communicator stay in order, a message that arrives goes to the first    *)
(* posted receive that it matches or else waits as unexpected, and a       *)
(* receive that is posted takes the first unexpected message it matches.   *)
(* Sends are buffered.                                                     *)
(*                                                                         *)
(* A request is named by its process and the number k of the operation     *)
(* that made it.                                                           *)
(***************************************************************************)
EXTENDS Naturals, Sequences, SequencesExt

CONSTANTS
  Ranks, Tags,
  AnySource, AnyTag,    \* MPI_ANY_SOURCE, MPI_ANY_TAG
  None                  \* no message

\* A message may be sent to "the source of the message received last".
Sendable == [from : Ranks, to : Ranks \cup {AnySource, None}, tag : Tags \cup {AnyTag}, n : Nat]

ASSUME MpiAssumption == AnySource \notin Ranks /\ None \notin Ranks \cup Sendable

VARIABLES
  travelling,    \* messages on their way, for each ordered pair of processes
  unexpected,    \* messages that have arrived and were not received, in order
  posted,        \* receives that wait for a message, in order
  msg            \* the message a request has sent or received

mpiVars == <<travelling, unexpected, posted, msg>>

Messages == [from : Ranks, to : Ranks, tag : Tags, n : Nat]
Receives == [k : Nat, source : Ranks \cup {AnySource}, tag : Tags \cup {AnyTag}]

MpiInit ==
  /\ travelling = [channel \in Ranks \X Ranks |-> <<>>]
  /\ unexpected = [p \in Ranks |-> <<>>]
  /\ posted = [p \in Ranks |-> <<>>]

Matches(source, tag, m) ==
  /\ source \in {AnySource, m.from}
  /\ tag \in {AnyTag, m.tag}

Complete(p, k) == msg[p][k] # None

\* PMPI_Isend.
Send(p, k, dest, tag) ==
  LET m == [from |-> p, to |-> dest, tag |-> tag, n |-> k] IN
    /\ travelling' = [travelling EXCEPT ![<<p, dest>>] = Append(@, m)]
    /\ msg' = [msg EXCEPT ![p][k] = m]
    /\ UNCHANGED <<unexpected, posted>>

\* Where the receive is that a message goes to; 0 if there is none.
Taker(d, m) == SelectInSeq(posted[d], LAMBDA r : Matches(r.source, r.tag, m))

\* The oldest message from s reaches d.
Arrive(s, d) ==
  /\ travelling[<<s, d>>] # <<>>
  /\ LET m == Head(travelling[<<s, d>>])
         i == Taker(d, m)
     IN  IF i = 0
         THEN /\ unexpected' = [unexpected EXCEPT ![d] = Append(@, m)]
              /\ UNCHANGED <<posted, msg>>
         ELSE /\ msg' = [msg EXCEPT ![d][posted[d][i].k] = m]
              /\ posted' = [posted EXCEPT ![d] = RemoveAt(@, i)]
              /\ UNCHANGED unexpected
  /\ travelling' = [travelling EXCEPT ![<<s, d>>] = Tail(@)]

\* Where the message is that a receive or a probe would find; 0 if there is none.
Found(p, source, tag) ==
  SelectInSeq(unexpected[p], LAMBDA m : Matches(source, tag, m))

\* PMPI_Irecv.
Receive(p, k, source, tag) ==
  LET i == Found(p, source, tag) IN
    /\ IF i = 0
       THEN /\ posted' = [posted EXCEPT
                 ![p] = Append(@, [k |-> k, source |-> source, tag |-> tag])]
            /\ UNCHANGED <<unexpected, msg>>
       ELSE /\ msg' = [msg EXCEPT ![p][k] = unexpected[p][i]]
            /\ unexpected' = [unexpected EXCEPT ![p] = RemoveAt(@, i)]
            /\ UNCHANGED posted
    /\ UNCHANGED travelling

\* PMPI_Cancel: a receive that has its message already is not cancelled.
PostedAt(p, k) == SelectInSeq(posted[p], LAMBDA r : r.k = k)
CancelReceive(p, k) ==
  LET i == PostedAt(p, k) IN
    /\ posted' = IF i = 0 THEN posted ELSE [posted EXCEPT ![p] = RemoveAt(@, i)]
    /\ UNCHANGED <<travelling, unexpected, msg>>
================================================================================
