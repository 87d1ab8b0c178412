-------------------------------- MODULE SpscQueue -------------------------------
(***************************************************************************)
(* rempi_spsc_queue.h: the lock-free queue between the application's       *)
(* thread (the producer of a recorded run) and the I/O thread.  A linked   *)
(* list with a dummy node in front; the nodes that the consumer has passed *)
(* are used again by the producer, which learns from tail how far that is. *)
(* Every load and store of a shared field is a step, in program order (all *)
(* of them are fenced by __sync_synchronize).                              *)
(***************************************************************************)
EXTENDS Integers, Sequences, FiniteSets

CONSTANTS
  Nodes,       \* addresses that "new node" may return
  Null,        \* 0
  MaxSize,     \* max_size: the event list enqueues only below this rough_size
  MaxItems     \* bound: how many items are enqueued, 1, 2, ...

ASSUME SpscAssumption ==
  /\ IsFiniteSet(Nodes)
  /\ Null \notin Nodes
  /\ MaxSize \in Nat \ {0}
  /\ MaxItems \in Nat

VARIABLES
  next, value,          \* the fields of the nodes
  allocated,            \* nodes that exist
  tail,                 \* the dummy; its successor is the front of the queue
  head,                 \* the last node
  first,                \* the first node that is not in use
  tailCopy,             \* what the producer has last read of tail
  enqueueCount, dequeueCount,
  ppc, n, produced,     \* the producer, its new node, items it has enqueued
  cpc, v,               \* the consumer, what it returns
  taken                 \* history: what the consumer has returned

producerVars == <<ppc, n, produced, head, first, tailCopy, enqueueCount>>
consumerVars == <<cpc, v, tail, dequeueCount, taken>>
vars == <<next, value, allocated, producerVars, consumerVars>>

TypeOK ==
  /\ next \in [Nodes -> Nodes \cup {Null}]
  /\ value \in [Nodes -> 0..MaxItems]
  /\ allocated \subseteq Nodes
  /\ {tail, head, first, tailCopy} \subseteq allocated
  /\ n \in allocated \cup {Null}
  /\ enqueueCount \in Nat /\ dequeueCount \in Nat
  /\ ppc \in {"idle", "alloc", "retry", "fill", "link", "count"}
  /\ cpc \in {"idle", "load", "move", "count"}
  /\ produced \in 0..MaxItems /\ v \in 0..MaxItems
  /\ taken \in Seq(1..MaxItems)

Init ==
  \E dummy \in Nodes :
    /\ next = [m \in Nodes |-> Null]
    /\ value = [m \in Nodes |-> 0]
    /\ allocated = {dummy}
    /\ tail = dummy /\ head = dummy /\ first = dummy /\ tailCopy = dummy
    /\ enqueueCount = 0 /\ dequeueCount = 0
    /\ ppc = "idle" /\ n = Null /\ produced = 0
    /\ cpc = "idle" /\ v = 0 /\ taken = <<>>

-------------------------------------------------------------------------------
\* The producer: enqueue.

\* rough_size, as the producer sees it: dequeueCount lags behind tail.
RoughSize == enqueueCount - dequeueCount

\* The wait of rempi_event_list before it enqueues.  Mutant _Exceeds: off by one.
HasRoom_Exceeds == RoughSize <= MaxSize
HasRoom == RoughSize < MaxSize

Enqueue ==
  /\ ppc = "idle"
  /\ produced < MaxItems
  /\ HasRoom
  /\ produced' = produced + 1
  /\ ppc' = "alloc"
  /\ UNCHANGED <<next, value, allocated, n, head, first, tailCopy, enqueueCount,
                 consumerVars>>

\* The nodes before tailCopy are free.  Mutant _UpToHead: all but the last node,
\* whether the consumer has passed them or not.
IsFree_UpToHead(node) == node # head
IsFree(node) == node # tailCopy

Reuse ==
  /\ IsFree(first)
  /\ n' = first
  /\ first' = next[first]
  /\ ppc' = "fill"
  /\ UNCHANGED <<allocated, tailCopy>>

\* alloc_node: a free node, else look again how far the consumer is, else a new one.
AllocNode ==
  /\ ppc = "alloc"
  /\ \/ Reuse
     \/ /\ ~IsFree(first)
        /\ tailCopy' = tail
        /\ ppc' = "retry"
        /\ UNCHANGED <<n, first, allocated>>
  /\ UNCHANGED <<next, value, produced, head, enqueueCount, consumerVars>>

NewNode ==
  /\ ppc = "retry"
  /\ \/ Reuse
     \/ /\ ~IsFree(first)
        /\ n' \in Nodes \ allocated
        /\ allocated' = allocated \cup {n'}
        /\ ppc' = "fill"
        /\ UNCHANGED <<first, tailCopy>>
  /\ UNCHANGED <<next, value, produced, head, enqueueCount, consumerVars>>

Fill ==
  /\ ppc = "fill"
  /\ next' = [next EXCEPT ![n] = Null]
  /\ value' = [value EXCEPT ![n] = produced]
  /\ ppc' = "link"
  /\ UNCHANGED <<allocated, n, produced, head, first, tailCopy, enqueueCount,
                 consumerVars>>

Link ==
  /\ ppc = "link"
  /\ next' = [next EXCEPT ![head] = n]
  /\ ppc' = "count"
  /\ UNCHANGED <<value, allocated, n, produced, head, first, tailCopy,
                 enqueueCount, consumerVars>>

Counted == enqueueCount + 1

CountEnqueued ==
  /\ ppc = "count"
  /\ enqueueCount' = Counted
  /\ head' = n
  /\ n' = Null
  /\ ppc' = "idle"
  /\ UNCHANGED <<next, value, allocated, produced, first, tailCopy, consumerVars>>

-------------------------------------------------------------------------------
\* The consumer: dequeue.

\* The first load decides; an empty queue makes it return NULL.
Dequeue ==
  /\ cpc = "idle"
  /\ next[tail] # Null
  /\ cpc' = "load"
  /\ UNCHANGED <<next, value, allocated, producerVars, v, tail, dequeueCount, taken>>

FrontNode == next[tail]

LoadValue ==
  /\ cpc = "load"
  /\ v' = value[FrontNode]
  /\ cpc' = "move"
  /\ UNCHANGED <<next, value, allocated, producerVars, tail, dequeueCount, taken>>

\* From here on the producer may use the old dummy again.
MoveTail ==
  /\ cpc = "move"
  /\ tail' = next[tail]
  /\ taken' = Append(taken, v)
  /\ cpc' = "count"
  /\ UNCHANGED <<next, value, allocated, producerVars, v, dequeueCount>>

\* Mutant _Forgotten: nothing is counted.
Discounted_Forgotten == dequeueCount
Discounted == dequeueCount + 1

CountDequeued ==
  /\ cpc = "count"
  /\ dequeueCount' = Discounted
  /\ cpc' = "idle"
  /\ UNCHANGED <<next, value, allocated, producerVars, v, tail, taken>>

-------------------------------------------------------------------------------

Producer ==
  Enqueue \/ AllocNode \/ NewNode \/ Fill \/ Link \/ CountEnqueued

Consumer == Dequeue \/ LoadValue \/ MoveTail \/ CountDequeued

Ended == Len(taken) = MaxItems /\ ppc = "idle" /\ cpc = "idle" /\ UNCHANGED vars

Next == Producer \/ Consumer \/ Ended

Spec == Init /\ [][Next]_vars

\* Both threads keep running: the producer waits for room in a loop, the consumer
\* calls dequeue again and again.
FairSpec == Spec /\ WF_vars(Producer) /\ WF_vars(Consumer)

-------------------------------------------------------------------------------

\* Where a walk along the links, from tail on, is after so many of them.
Reached[k \in 0..Cardinality(Nodes)] ==
  IF k = 0 THEN tail
  ELSE IF Reached[k - 1] = Null THEN Null
  ELSE next[Reached[k - 1]]

\* The nodes after tail, and what is in them.
LinkedCount == Cardinality({k \in 1..Cardinality(Nodes) : Reached[k] # Null})
Contents == [k \in 1..LinkedCount |-> value[Reached[k]]]

\* Seen as a queue, it is a Fifo: the link puts an item in, the move of tail takes
\* it out.
Queue == INSTANCE Fifo WITH Items <- 1..MaxItems, contents <- Contents
FifoSpec == Queue!Spec

\* The node the producer writes to is not in the list that the consumer reads, the
\* dummy included, although most often it once was: the nodes that can be reached
\* from tail are in a set without it.
NewNodeIsPrivate ==
  ppc \in {"fill", "link"} =>
    \E S \in SUBSET Nodes :
      tail \in S /\ n \notin S /\ \A m \in S : next[m] \in S \cup {Null}

\* The bound on rough_size bounds the memory: a node for each item, one for the
\* dummy, and no more however long the run is.
BoundedMemory == Cardinality(allocated) <= MaxSize + 1

\* The end-of-run test of the I/O thread: once the producer is done (closed the
\* list), a rough_size of 0 means that nothing is left.
NothingLeft ==
  ppc = "idle" /\ produced = MaxItems /\ cpc = "idle" /\ RoughSize = 0
    => Len(taken) = MaxItems

\* The consumer is given the items in the order they were enqueued in, each one once.
TakenInOrder == \A i \in 1..Len(taken) : taken[i] = i

\* Everything that is enqueued is dequeued.
AllTaken == <>(Len(taken) = MaxItems)

\* The producer never writes where the consumer reads, nodes are bounded, an empty
\* queue that is closed has been emptied, and what was read of a node is its item.
MemorySafe ==
  TypeOK /\ NewNodeIsPrivate /\ BoundedMemory /\ NothingLeft /\ TakenInOrder
===============================================================================
