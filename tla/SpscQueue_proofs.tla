--------------------------- MODULE SpscQueue_proofs ---------------------------
(***************************************************************************)
(* Proofs about the queue, for every set of nodes, every bound on its size *)
(* and any number of items.  The inductive invariant is TypeOK and an      *)
(* InChain: the nodes from first to the end of the list are those of the   *)
(* items lo, lo + 1, ..., Newest, one each, where tail is that of the item *)
(* taken last and lo is never past it.                                     *)
(* Walking along this chain from tail gives the abstract queue.            *)
(***************************************************************************)
EXTENDS SpscQueue, SharedLemmas

\* The item that was linked last.
Newest == IF ppc \in {"alloc", "retry", "fill", "link"} THEN produced - 1 ELSE produced

\* The node that is allocated and not linked yet.
Held == IF ppc \in {"fill", "link"} THEN {n} ELSE {}

\* at[i] is the node of item i, for the items from lo on; tailCopy is that of tc.
InOrderFrom(lo, tc) == lo <= tc /\ tc <= Len(taken) /\ Len(taken) <= Newest
NodesDiffer(at, lo) == \A i, j \in lo..Newest : at[i] = at[j] => i = j
ItemsLinked(at, lo) == \A i \in lo..Newest : i < Newest => next[at[i]] = at[i + 1]
ItemsStored(at, lo) == \A i \in lo..Newest : value[at[i]] = i
EndsOf(at, lo, tc) ==
  /\ first = at[lo]
  /\ tailCopy = at[tc]
  /\ tail = at[Len(taken)]
  /\ next[at[Newest]] = Null
  /\ head = IF ppc = "count" THEN at[Newest - 1] ELSE at[Newest]
NodesKnown(at, lo) ==
  /\ allocated = {at[i] : i \in lo..Newest} \cup Held
  /\ n \notin {at[i] : i \in lo..Newest} \/ ppc \notin {"fill", "link"}
  /\ ppc = "count" => n = at[Newest]
  /\ ppc \in {"fill", "link"} => n # Null
  /\ ppc = "link" => next[n] = Null /\ value[n] = produced

InChain(at, lo, tc) ==
  /\ InOrderFrom(lo, tc)
  /\ NodesDiffer(at, lo)
  /\ ItemsLinked(at, lo)
  /\ ItemsStored(at, lo)
  /\ EndsOf(at, lo, tc)
  /\ NodesKnown(at, lo)
  /\ ppc = "retry" => Newest - tc < MaxSize

Chained == \E at \in [Nat -> Nodes], lo \in Nat, tc \in Nat : InChain(at, lo, tc)

\* The counters follow the lists, and there was room for the item under way.
Counting ==
  /\ enqueueCount = IF ppc = "idle" THEN produced ELSE produced - 1
  /\ dequeueCount = IF cpc = "count" THEN Len(taken) - 1 ELSE Len(taken)
  /\ ppc # "idle" => produced > 0 /\ enqueueCount - dequeueCount < MaxSize
  /\ cpc \in {"load", "move"} => Len(taken) < Newest
  /\ cpc = "move" => v = Len(taken) + 1

IInv == TypeOK /\ Counting /\ Chained /\ BoundedMemory /\ TakenInOrder

-------------------------------------------------------------------------------

\* The constructor leaves one empty node, first, tail and head at once.
LEMMA InitEstablishes == ASSUME Init PROVE IInv
  <1>1. PICK dummy \in Nodes :
          /\ next = [m \in Nodes |-> Null]
          /\ value = [m \in Nodes |-> 0]
          /\ allocated = {dummy}
          /\ tail = dummy /\ head = dummy /\ first = dummy /\ tailCopy = dummy
    BY DEF Init
  <1>2. /\ enqueueCount = 0 /\ dequeueCount = 0
        /\ ppc = "idle" /\ n = Null /\ produced = 0
        /\ cpc = "idle" /\ v = 0 /\ taken = <<>>
    BY DEF Init
  <1>3. TypeOK
    BY <1>1, <1>2, SpscAssumption DEF TypeOK
  <1>4. Counting /\ TakenInOrder
    BY <1>2 DEF Counting, TakenInOrder
  <1>5. Chained
    <2> DEFINE at == [i \in Nat |-> dummy]
    <2>1. Newest = 0 /\ Len(taken) = 0 /\ Held = {}
      BY <1>2 DEF Newest, Held
    <2>2. at \in [Nat -> Nodes] /\ at[0] = dummy
      OBVIOUS
    <2>3. InChain(at, 0, 0)
      BY <1>1, <1>2, <2>1, <2>2 DEF InChain, InOrderFrom, NodesDiffer, ItemsLinked,
         ItemsStored, EndsOf, NodesKnown
    <2> QED BY <2>2, <2>3 DEF Chained
  <1>6. BoundedMemory
    <2>1. Cardinality({dummy}) = 1
      BY FS_Singleton
    <2> QED BY <1>1, <2>1, SpscAssumption DEF BoundedMemory
  <1> QED BY <1>3, <1>4, <1>5, <1>6 DEF IInv

\* Where nothing is allocated, the bound on the memory stays as it is.
LEMMA SameMemory ==
  ASSUME BoundedMemory, UNCHANGED allocated
  PROVE  BoundedMemory'
  BY DEF BoundedMemory

\* What the invariant says of the numbers.
LEMMA Numbers ==
  ASSUME TypeOK, Counting
  PROVE  Newest \in Nat /\ Len(taken) \in Nat /\ produced \in Nat
  BY SpscAssumption DEF TypeOK, Counting, Newest

\* The producer begins enqueue.
LEMMA EnqueueKeeps == ASSUME IInv, Enqueue PROVE IInv'
  <1> USE SpscAssumption
  <1>1. TypeOK' /\ Counting' /\ TakenInOrder'
    <2>1. TypeOK'
      BY DEF IInv, TypeOK, Enqueue, consumerVars
    <2>2. Newest' = Newest
      BY DEF IInv, TypeOK, Newest, Enqueue
    <2>3. Counting'
      BY <2>2 DEF IInv, TypeOK, Counting, Enqueue, HasRoom, RoughSize, consumerVars
    <2>4. TakenInOrder'
      BY DEF IInv, TakenInOrder, Enqueue, consumerVars
    <2> QED BY <2>1, <2>3, <2>4
  <1>2. PICK at \in [Nat -> Nodes], lo \in Nat, tc \in Nat : InChain(at, lo, tc)
    BY DEF IInv, Chained
  <1>3. Newest' = Newest /\ Held' = Held /\ Newest \in Nat
    BY Numbers DEF IInv, TypeOK, Newest, Held, Enqueue
  <1>4. InChain(at, lo, tc)'
    BY <1>2, <1>3 DEF InChain, InOrderFrom, NodesDiffer, ItemsLinked, ItemsStored,
       EndsOf, NodesKnown, Enqueue, consumerVars
  <1> QED BY <1>1, <1>2, <1>4, SameMemory DEF IInv, Chained, Enqueue

\* The first node is taken out of the chain.
LEMMA ReuseKeeps ==
  ASSUME IInv, Reuse, ppc \in {"alloc", "retry"},
         UNCHANGED <<next, value, produced, head, enqueueCount, consumerVars>>
  PROVE  IInv'
  <1> USE SpscAssumption
  <1>1. PICK at \in [Nat -> Nodes], lo \in Nat, tc \in Nat : InChain(at, lo, tc)
    BY DEF IInv, Chained
  <1>2. Newest' = Newest /\ Newest \in Nat /\ Len(taken) \in Nat
    BY Numbers DEF IInv, TypeOK, Newest, Reuse
  <1>3. lo < tc /\ tc <= Newest
    BY <1>1, <1>2 DEF InChain, InOrderFrom, EndsOf, Reuse, IsFree
  <1>4. first' = at[lo + 1] /\ n' = at[lo] /\ n' # Null
    BY <1>1, <1>2, <1>3 DEF InChain, EndsOf, ItemsLinked, Reuse
  <1>5. InOrderFrom(lo + 1, tc)' /\ NodesDiffer(at, lo + 1)' /\ ItemsLinked(at, lo + 1)'
        /\ ItemsStored(at, lo + 1)'
    BY <1>1, <1>2, <1>3 DEF InChain, InOrderFrom, NodesDiffer, ItemsLinked, ItemsStored,
       consumerVars
  <1>6. EndsOf(at, lo + 1, tc)'
    BY <1>1, <1>2, <1>4 DEF InChain, EndsOf, Reuse, consumerVars
  <1>7. NodesKnown(at, lo + 1)'
    <2>1. n' \notin {at[i] : i \in (lo + 1)..Newest}
      BY <1>1, <1>2, <1>3, <1>4 DEF InChain, NodesDiffer
    <2>2. {at[i] : i \in lo..Newest} = {at[i] : i \in (lo + 1)..Newest} \cup {at[lo]}
      BY <1>2, <1>3
    <2>3. allocated' = {at[i] : i \in lo..Newest}
      BY <1>1 DEF InChain, NodesKnown, Held, Reuse
    <2>4. Held' = {at[lo]} /\ ppc' = "fill"
      BY <1>4 DEF Held, Reuse
    <2> QED BY <1>2, <1>4, <2>1, <2>2, <2>3, <2>4 DEF NodesKnown
  <1>8. Chained'
    <2>1. InChain(at, lo + 1, tc)'
      BY <1>5, <1>6, <1>7 DEF InChain, Reuse
    <2>2. lo + 1 \in Nat
      OBVIOUS
    <2> QED BY <1>1, <2>1, <2>2 DEF Chained
  <1>9. TypeOK'
    <2>1. first' \in allocated' /\ n' \in allocated'
      <3>1. at[lo] \in allocated /\ at[lo + 1] \in allocated
        BY <1>1, <1>2, <1>3 DEF InChain, NodesKnown
      <3> QED BY <1>4, <3>1 DEF Reuse
    <2> QED BY <2>1 DEF IInv, TypeOK, Reuse, consumerVars
  <1>10. Counting' /\ TakenInOrder'
    BY <1>2 DEF IInv, Counting, TakenInOrder, Reuse, consumerVars
  <1> QED BY <1>8, <1>9, <1>10, SameMemory DEF IInv, Reuse

\* alloc_node recycles the first node of the cache, or finds none.
LEMMA AllocNodeKeeps == ASSUME IInv, AllocNode PROVE IInv'
  <1> USE SpscAssumption
  <1>1. CASE Reuse
    BY <1>1, ReuseKeeps DEF AllocNode
  <1>2. CASE ~Reuse
    <2>1. tailCopy' = tail /\ ppc = "alloc" /\ ppc' = "retry"
          /\ UNCHANGED <<n, first, allocated>>
          /\ UNCHANGED <<next, value, produced, head, enqueueCount, consumerVars>>
      BY <1>2 DEF AllocNode
    <2>2. TypeOK' /\ Counting' /\ TakenInOrder'
      <3>1. TypeOK'
        BY <2>1 DEF IInv, TypeOK, consumerVars
      <3>2. Newest' = Newest
        BY <2>1 DEF Newest
      <3>3. Counting'
        BY <2>1, <3>2 DEF IInv, TypeOK, Counting, consumerVars
      <3>4. TakenInOrder'
        BY <2>1 DEF IInv, TakenInOrder, consumerVars
      <3> QED BY <3>1, <3>3, <3>4
    <2>3. PICK at \in [Nat -> Nodes], lo \in Nat, tc \in Nat : InChain(at, lo, tc)
      BY DEF IInv, Chained
    <2>4. Newest' = Newest /\ Held' = Held /\ Newest \in Nat /\ Len(taken) \in Nat
          /\ taken' = taken /\ Newest = produced - 1
      BY <2>1, Numbers DEF IInv, Newest, Held, consumerVars
    <2>5. Newest - Len(taken) < MaxSize
      <3>1. enqueueCount = Newest /\ enqueueCount - dequeueCount < MaxSize
        BY <2>1, <2>4 DEF IInv, Counting
      <3>2. dequeueCount \in Nat /\ dequeueCount <= Len(taken)
        BY <2>4 DEF IInv, TypeOK, Counting
      <3> QED BY <2>4, <3>1, <3>2
    <2>6. InChain(at, lo, Len(taken))'
      BY <2>1, <2>3, <2>4, <2>5 DEF InChain, InOrderFrom, NodesDiffer, ItemsLinked,
         ItemsStored, EndsOf, NodesKnown, consumerVars
    <2>7. Len(taken)' \in Nat
      BY <2>4
    <2>8. Chained'
      <3>1. \E i \in Nat : InChain(at, lo, i)'
        BY <2>4, <2>6
      <3> QED BY <2>3, <3>1 DEF Chained
    <2> QED BY <2>1, <2>2, <2>8, SameMemory DEF IInv
  <1> QED BY <1>1, <1>2

\* A chain has as many nodes as items.
LEMMA ChainSize ==
  ASSUME NEW at \in [Nat -> Nodes], NEW lo \in Nat, NEW hi \in Nat, lo <= hi,
         NEW S, S = {at[i] : i \in lo..hi}
  PROVE  IsFiniteSet(S) /\ Cardinality(S) <= hi - lo + 1
  <1> DEFINE f == [i \in lo..hi |-> at[i]]
  <1>1. f \in Surjection(lo..hi, S)
    BY DEF Surjection
  <1>2. IsFiniteSet(lo..hi) /\ Cardinality(lo..hi) = hi - lo + 1
    BY FS_Interval
  <1> HIDE DEF f
  <1> QED BY <1>1, <1>2, FS_Surjection

\* A node of the allocator, which nobody else has.
LEMMA NewNodeKeeps == ASSUME IInv, NewNode PROVE IInv'
  <1> USE SpscAssumption
  <1>1. CASE Reuse
    BY <1>1, ReuseKeeps DEF NewNode
  <1>2. CASE ~Reuse
    <2>1. /\ first = tailCopy /\ ppc = "retry" /\ ppc' = "fill"
          /\ n' \in Nodes \ allocated
          /\ allocated' = allocated \cup {n'}
          /\ UNCHANGED <<first, tailCopy>>
          /\ UNCHANGED <<next, value, produced, head, enqueueCount, consumerVars>>
      BY <1>2 DEF NewNode, IsFree
    <2>2. TypeOK' /\ Counting' /\ TakenInOrder'
      <3>1. TypeOK'
        BY <2>1 DEF IInv, TypeOK, consumerVars
      <3>2. Newest' = Newest
        BY <2>1 DEF Newest
      <3>3. Counting'
        BY <2>1, <3>2 DEF IInv, TypeOK, Counting, consumerVars
      <3>4. TakenInOrder'
        BY <2>1 DEF IInv, TakenInOrder, consumerVars
      <3> QED BY <3>1, <3>3, <3>4
    <2>3. PICK at \in [Nat -> Nodes], lo \in Nat, tc \in Nat : InChain(at, lo, tc)
      BY DEF IInv, Chained
    <2>4. Newest' = Newest /\ Newest \in Nat /\ Len(taken) \in Nat
      BY <2>1, Numbers DEF IInv, Newest
    <2>5. allocated = {at[i] : i \in lo..Newest}
      BY <2>1, <2>3 DEF InChain, NodesKnown, Held
    <2>6. InChain(at, lo, tc)'
      <3>1. NodesKnown(at, lo)'
        BY <2>1, <2>4, <2>5 DEF NodesKnown, Held
      <3>2. EndsOf(at, lo, tc)'
        BY <2>1, <2>3, <2>4 DEF InChain, EndsOf, consumerVars
      <3> QED BY <2>1, <2>3, <2>4, <3>1, <3>2 DEF InChain, InOrderFrom, NodesDiffer,
              ItemsLinked, ItemsStored, consumerVars
    <2>7. lo = tc /\ lo <= Newest
      <3>1. lo <= tc /\ tc <= Newest
        BY <2>3, <2>4 DEF InChain, InOrderFrom
      <3>2. at[lo] = at[tc]
        BY <2>1, <2>3 DEF InChain, EndsOf
      <3>3. lo \in lo..Newest /\ tc \in lo..Newest
        BY <2>4, <3>1
      <3>4. lo = tc
        BY <2>3, <3>2, <3>3 DEF InChain, NodesDiffer
      <3> QED BY <3>1, <3>4
    <2>8. IsFiniteSet(allocated) /\ Cardinality(allocated) <= Newest - lo + 1
      BY <2>4, <2>5, <2>7, ChainSize
    <2>9. Newest - lo < MaxSize
      BY <2>1, <2>3, <2>7 DEF InChain
    <2>10. Cardinality(allocated') = Cardinality(allocated) + 1
           /\ Cardinality(allocated) \in Nat
      BY <2>1, <2>8, FS_AddElement, FS_CardinalityType
    <2>11. BoundedMemory'
      BY <2>4, <2>8, <2>9, <2>10 DEF BoundedMemory
    <2> QED BY <2>2, <2>3, <2>6, <2>11 DEF IInv, Chained
  <1> QED BY <1>1, <1>2

\* A node that is not in the chain is written.
LEMMA FillKeeps == ASSUME IInv, Fill PROVE IInv'
  <1> USE SpscAssumption
  <1>1. PICK at \in [Nat -> Nodes], lo \in Nat, tc \in Nat : InChain(at, lo, tc)
    BY DEF IInv, Chained
  <1>2. Newest' = Newest /\ Held' = Held /\ Newest \in Nat /\ Len(taken) \in Nat
    BY Numbers DEF IInv, Newest, Held, Fill
  <1>3. n \notin {at[i] : i \in lo..Newest} /\ n \in Nodes
    BY <1>1 DEF InChain, NodesKnown, IInv, TypeOK, Fill
  <1>4. /\ next' = [next EXCEPT ![n] = Null]
        /\ value' = [value EXCEPT ![n] = produced]
        /\ next \in [Nodes -> Nodes \cup {Null}]
        /\ value \in [Nodes -> 0..MaxItems]
    BY DEF Fill, IInv, TypeOK
  <1>5. \A i \in lo..Newest : next'[at[i]] = next[at[i]] /\ value'[at[i]] = value[at[i]]
    <2> SUFFICES ASSUME NEW i \in lo..Newest
                 PROVE  next'[at[i]] = next[at[i]] /\ value'[at[i]] = value[at[i]]
      OBVIOUS
    <2>1. at[i] \in Nodes /\ at[i] # n
      BY <1>1, <1>2, <1>3
    <2> QED BY <1>4, <2>1
  <1>6. InOrderFrom(lo, tc)' /\ NodesDiffer(at, lo)' /\ ItemsLinked(at, lo)'
        /\ ItemsStored(at, lo)'
    BY <1>1, <1>2, <1>5 DEF InChain, InOrderFrom, NodesDiffer, ItemsLinked, ItemsStored,
       Fill, consumerVars
  <1>7. EndsOf(at, lo, tc)'
    <2>1. next'[at[Newest]] = Null
      BY <1>1, <1>2, <1>5 DEF InChain, InOrderFrom, EndsOf
    <2> QED BY <1>1, <1>2, <2>1 DEF InChain, EndsOf, Fill, consumerVars
  <1>8. NodesKnown(at, lo)'
    <2>1. next'[n] = Null /\ value'[n] = produced
      BY <1>3, <1>4
    <2> QED BY <1>1, <1>2, <2>1 DEF InChain, NodesKnown, Fill
  <1>9. InChain(at, lo, tc)'
    BY <1>6, <1>7, <1>8 DEF InChain, Fill
  <1>10. TypeOK'
    <2>1. /\ next' \in [Nodes -> Nodes \cup {Null}]
          /\ value' \in [Nodes -> 0..MaxItems]
      BY <1>3, <1>4 DEF IInv, TypeOK
    <2> QED BY <2>1 DEF IInv, TypeOK, Fill, consumerVars
  <1>11. Counting' /\ TakenInOrder'
    BY <1>2 DEF IInv, Counting, TakenInOrder, Fill, consumerVars
  <1> QED BY <1>1, <1>9, <1>10, <1>11, SameMemory DEF IInv, Chained, Fill

\* The node becomes the last one of the chain.
LEMMA LinkKeeps == ASSUME IInv, Link PROVE IInv'
  <1> USE SpscAssumption
  <1>1. PICK at \in [Nat -> Nodes], lo \in Nat, tc \in Nat : InChain(at, lo, tc)
    BY DEF IInv, Chained
  <1>2. /\ Newest' = Newest + 1 /\ Newest' = produced' /\ Newest \in Nat
        /\ Len(taken) \in Nat /\ Held' = {} /\ Held = {n}
    <2>1. Newest \in Nat /\ Len(taken) \in Nat /\ produced \in Nat
      BY Numbers DEF IInv
    <2>2. ppc = "link" /\ ppc' = "count" /\ produced' = produced
      BY DEF Link
    <2> QED BY <2>1, <2>2 DEF Newest, Held
  <1>3. n \notin {at[i] : i \in lo..Newest} /\ n \in Nodes
    BY <1>1 DEF InChain, NodesKnown, IInv, TypeOK, Link
  <1>4. PICK more \in [Nat -> Nodes] : /\ more[Newest + 1] = n
                                       /\ \A i \in lo..Newest : more[i] = at[i]
    <2> DEFINE grown == [at EXCEPT ![Newest + 1] = n]
    <2>1. grown \in [Nat -> Nodes] /\ grown[Newest + 1] = n
      BY <1>1, <1>2, <1>3
    <2>2. \A i \in lo..Newest : grown[i] = at[i]
      BY <1>1, <1>2
    <2> HIDE DEF grown
    <2> QED BY <2>1, <2>2
  <1>5. lo <= tc /\ tc <= Len(taken) /\ Len(taken) <= Newest
    BY <1>1 DEF InChain, InOrderFrom
  <1>6. lo..Newest' = (lo..Newest) \cup {Newest + 1} /\ Newest \in lo..Newest
    BY <1>2, <1>5
  <1>7. \A i \in lo..Newest : i < Newest => at[i] # at[Newest] /\ i + 1 \in lo..Newest
    BY <1>1, <1>2, <1>6 DEF InChain, NodesDiffer
  <1>8. /\ next' = [next EXCEPT ![at[Newest]] = n]
        /\ next \in [Nodes -> Nodes \cup {Null}]
        /\ value' = value
    BY <1>1, <1>2 DEF InChain, EndsOf, IInv, TypeOK, Link
  <1>9. next[n] = Null /\ value[n] = Newest + 1 /\ n # at[Newest]
    BY <1>1, <1>2, <1>3, <1>6 DEF InChain, NodesKnown, Link
  <1>10. InOrderFrom(lo, tc)'
    BY <1>2, <1>5 DEF InOrderFrom, Link, consumerVars
  <1>11. NodesDiffer(more, lo)'
    BY <1>1, <1>3, <1>4, <1>6 DEF InChain, NodesDiffer
  <1>12. ItemsLinked(more, lo)'
    <2> SUFFICES ASSUME NEW i \in lo..Newest, i < Newest + 1
                 PROVE  next'[more[i]] = more[i + 1]
      BY <1>2, <1>6 DEF ItemsLinked
    <2>1. CASE i < Newest
      BY <2>1, <1>1, <1>4, <1>7, <1>8 DEF InChain, ItemsLinked
    <2>2. CASE i = Newest
      BY <2>2, <1>1, <1>2, <1>4, <1>8
    <2> QED BY <1>2, <2>1, <2>2
  <1>13. ItemsStored(more, lo)'
    BY <1>1, <1>4, <1>6, <1>8, <1>9 DEF InChain, ItemsStored
  <1>14. EndsOf(more, lo, tc)'
    <2>1. /\ lo \in lo..Newest /\ tc \in lo..Newest /\ Len(taken) \in lo..Newest
          /\ Newest \in lo..Newest
      BY <1>2, <1>5
    <2>2. /\ more[lo] = at[lo] /\ more[tc] = at[tc] /\ more[Len(taken)] = at[Len(taken)]
          /\ more[Newest] = at[Newest]
      BY <1>4, <2>1
    <2>3. next'[more[Newest']] = Null
      BY <1>2, <1>3, <1>4, <1>8, <1>9
    <2>4. Newest' - 1 = Newest
      BY <1>2
    <2> QED BY <1>1, <2>2, <2>3, <2>4 DEF InChain, EndsOf, Link, consumerVars
  <1>15. NodesKnown(more, lo)'
    <2>1. allocated = {at[i] : i \in lo..Newest} \cup {n}
      BY <1>1, <1>2 DEF InChain, NodesKnown
    <2>2. {more[i] : i \in lo..Newest'} = {at[i] : i \in lo..Newest} \cup {n}
      BY <1>4, <1>6
    <2>3. n' = more[Newest']
      BY <1>2, <1>4 DEF Link
    <2> QED BY <1>2, <2>1, <2>2, <2>3 DEF NodesKnown, Link
  <1>16. InChain(more, lo, tc)'
    BY <1>10, <1>11, <1>12, <1>13, <1>14, <1>15 DEF InChain, Link
  <1>17. Chained'
    BY <1>1, <1>4, <1>16 DEF Chained
  <1>18. TypeOK'
    <2>1. next' \in [Nodes -> Nodes \cup {Null}]
      BY <1>3, <1>8
    <2> QED BY <2>1 DEF IInv, TypeOK, Link, consumerVars
  <1>19. Counting' /\ TakenInOrder'
    <2>1. (Len(taken) < Newest => Len(taken)' < Newest') /\ Len(taken)' = Len(taken)
      BY <1>2 DEF Link, consumerVars
    <2>2. Counting'
      BY <2>1 DEF IInv, Counting, Link, consumerVars
    <2>3. TakenInOrder'
      BY DEF IInv, TakenInOrder, Link, consumerVars
    <2> QED BY <2>2, <2>3
  <1> QED BY <1>17, <1>18, <1>19, SameMemory DEF IInv, Link

\* The producer counts the item it has linked.
LEMMA CountEnqueuedKeeps == ASSUME IInv, CountEnqueued PROVE IInv'
  <1> USE SpscAssumption
  <1>1. PICK at \in [Nat -> Nodes], lo \in Nat, tc \in Nat : InChain(at, lo, tc)
    BY DEF IInv, Chained
  <1>2. Newest' = Newest /\ Held' = Held /\ Newest \in Nat /\ Len(taken) \in Nat
        /\ Newest = produced /\ Held = {}
    BY Numbers DEF IInv, Newest, Held, CountEnqueued
  <1>3. n = at[Newest] /\ n \in allocated
    <2>1. n = at[Newest] /\ Newest \in lo..Newest
      BY <1>1, <1>2 DEF InChain, InOrderFrom, NodesKnown, CountEnqueued
    <2> QED BY <1>1, <2>1 DEF InChain, NodesKnown
  <1>4. InChain(at, lo, tc)'
    BY <1>1, <1>2, <1>3 DEF InChain, InOrderFrom, NodesDiffer, ItemsLinked, ItemsStored,
       EndsOf, NodesKnown, CountEnqueued, consumerVars
  <1>5. TypeOK'
    <2>1. enqueueCount' \in Nat
      BY DEF IInv, TypeOK, CountEnqueued, Counted
    <2> QED BY <1>3, <2>1 DEF IInv, TypeOK, CountEnqueued, consumerVars
  <1>6. Counting' /\ TakenInOrder'
    BY <1>2 DEF IInv, TypeOK, Counting, TakenInOrder, CountEnqueued, Counted, consumerVars
  <1> QED BY <1>1, <1>4, <1>5, <1>6, SameMemory DEF IInv, Chained, CountEnqueued

-------------------------------------------------------------------------------

\* The steps of the consumer leave the producer's part of the chain alone.
LEMMA ConsumerKeepsChain ==
  ASSUME IInv, UNCHANGED <<next, value, allocated, producerVars>>,
         tail' = tail, taken' = taken
  PROVE  Chained' /\ BoundedMemory' /\ TakenInOrder' /\ Newest' = Newest
  <1>1. PICK at \in [Nat -> Nodes], lo \in Nat, tc \in Nat : InChain(at, lo, tc)
    BY DEF IInv, Chained
  <1>2. Newest' = Newest /\ Held' = Held
    BY DEF Newest, Held, producerVars
  <1>3. InChain(at, lo, tc)'
    BY <1>1, <1>2 DEF InChain, InOrderFrom, NodesDiffer, ItemsLinked, ItemsStored,
       EndsOf, NodesKnown, producerVars
  <1>4. TakenInOrder' /\ BoundedMemory'
    BY DEF IInv, TakenInOrder, BoundedMemory
  <1> QED BY <1>1, <1>2, <1>3, <1>4 DEF Chained

\* The consumer looks at the link of the node it has reached.
LEMMA DequeueKeeps == ASSUME IInv, Dequeue PROVE IInv'
  <1>1. PICK at \in [Nat -> Nodes], lo \in Nat, tc \in Nat : InChain(at, lo, tc)
    BY DEF IInv, Chained
  <1>2. Newest \in Nat /\ Len(taken) \in Nat
    BY Numbers DEF IInv
  <1>3. Len(taken) < Newest
    BY <1>1, <1>2 DEF InChain, InOrderFrom, EndsOf, Dequeue
  <1>4. Chained' /\ BoundedMemory' /\ TakenInOrder' /\ Newest' = Newest
    BY ConsumerKeepsChain DEF Dequeue
  <1>5. TypeOK'
    BY DEF IInv, TypeOK, Dequeue, producerVars
  <1>6. Counting'
    BY <1>3, <1>4 DEF IInv, TypeOK, Counting, Dequeue, producerVars
  <1> QED BY <1>4, <1>5, <1>6 DEF IInv

\* The consumer reads the value of the next node.
LEMMA LoadValueKeeps == ASSUME IInv, LoadValue PROVE IInv'
  <1>1. PICK at \in [Nat -> Nodes], lo \in Nat, tc \in Nat : InChain(at, lo, tc)
    BY DEF IInv, Chained
  <1>2. Newest \in Nat /\ Len(taken) \in Nat /\ Len(taken) < Newest
    BY Numbers DEF IInv, Counting, LoadValue
  <1>3. Len(taken) \in lo..Newest /\ Len(taken) + 1 \in lo..Newest
    BY <1>1, <1>2 DEF InChain, InOrderFrom
  <1>4. FrontNode = at[Len(taken) + 1]
    BY <1>1, <1>2, <1>3 DEF InChain, ItemsLinked, EndsOf, FrontNode
  <1>5. v' = Len(taken) + 1
    BY <1>1, <1>3, <1>4 DEF InChain, ItemsStored, LoadValue
  <1>6. Chained' /\ BoundedMemory' /\ TakenInOrder' /\ Newest' = Newest
    BY ConsumerKeepsChain DEF LoadValue
  <1>7. v' \in 0..MaxItems
    BY <1>1, <1>2, <1>4, <1>5 DEF IInv, TypeOK, LoadValue
  <1>8. TypeOK'
    BY <1>7 DEF IInv, TypeOK, LoadValue, producerVars
  <1>9. Counting'
    BY <1>2, <1>5, <1>6 DEF IInv, TypeOK, Counting, LoadValue, producerVars
  <1> QED BY <1>6, <1>8, <1>9 DEF IInv

\* The consumer gives its node back to the producer.
LEMMA MoveTailKeeps == ASSUME IInv, MoveTail PROVE IInv'
  <1> USE SpscAssumption
  <1>1. PICK at \in [Nat -> Nodes], lo \in Nat, tc \in Nat : InChain(at, lo, tc)
    BY DEF IInv, Chained
  <1>2. Newest \in Nat /\ Len(taken) \in Nat /\ Len(taken) < Newest /\ v = Len(taken) + 1
    BY Numbers DEF IInv, Counting, MoveTail
  <1>3. Newest <= MaxItems
    BY DEF IInv, TypeOK, Newest
  <1>4. v \in 1..MaxItems
    BY <1>2, <1>3
  <1>5. /\ taken \in Seq(1..MaxItems) /\ taken' = Append(taken, v)
        /\ taken' \in Seq(1..MaxItems)
        /\ Len(taken') = Len(taken) + 1
        /\ \A i \in 1..Len(taken) : taken'[i] = taken[i]
        /\ taken'[Len(taken) + 1] = v
    BY <1>4 DEF IInv, TypeOK, MoveTail
  <1>6. Newest' = Newest /\ Held' = Held
    BY DEF Newest, Held, MoveTail, producerVars
  <1>7. Len(taken) \in lo..Newest /\ Len(taken) + 1 \in lo..Newest
    BY <1>1, <1>2 DEF InChain, InOrderFrom
  <1>8. tail' = at[Len(taken')]
    BY <1>1, <1>2, <1>5, <1>7 DEF InChain, ItemsLinked, EndsOf, MoveTail
  <1>9. InChain(at, lo, tc)'
    <2>1. InOrderFrom(lo, tc)'
      BY <1>1, <1>2, <1>5, <1>6 DEF InChain, InOrderFrom
    <2>2. EndsOf(at, lo, tc)'
      BY <1>1, <1>6, <1>8 DEF InChain, EndsOf, MoveTail, producerVars
    <2> QED BY <1>1, <1>6, <2>1, <2>2 DEF InChain, NodesDiffer, ItemsLinked, ItemsStored,
            NodesKnown, MoveTail, producerVars
  <1>10. TypeOK'
    <2>1. tail' \in allocated
      BY <1>1, <1>5, <1>7, <1>8 DEF InChain, NodesKnown
    <2> QED BY <1>5, <2>1 DEF IInv, TypeOK, MoveTail, producerVars
  <1>11. Counting'
    BY <1>2, <1>5, <1>6 DEF IInv, Counting, MoveTail, producerVars
  <1>12. TakenInOrder'
    BY <1>2, <1>5 DEF IInv, TakenInOrder
  <1> QED BY <1>1, <1>9, <1>10, <1>11, <1>12, SameMemory DEF IInv, Chained, MoveTail

\* The consumer counts the item it has taken.
LEMMA CountDequeuedKeeps == ASSUME IInv, CountDequeued PROVE IInv'
  <1> USE SpscAssumption
  <1>1. Chained' /\ BoundedMemory' /\ TakenInOrder' /\ Newest' = Newest
    BY ConsumerKeepsChain DEF CountDequeued
  <1>2. TypeOK'
    BY DEF IInv, TypeOK, CountDequeued, Discounted, producerVars
  <1>3. Len(taken) \in Nat
    BY Numbers DEF IInv
  <1>4. Counting'
    BY <1>1, <1>3 DEF IInv, TypeOK, Counting, CountDequeued, Discounted, producerVars
  <1> QED BY <1>1, <1>2, <1>4 DEF IInv

\* Every step of either thread keeps the invariant.
LEMMA StepKeeps == ASSUME IInv, [Next]_vars PROVE IInv'
  <1>1. CASE Producer
    BY <1>1, EnqueueKeeps, AllocNodeKeeps, NewNodeKeeps, FillKeeps, LinkKeeps,
       CountEnqueuedKeeps DEF Producer
  <1>2. CASE Consumer
    BY <1>2, DequeueKeeps, LoadValueKeeps, MoveTailKeeps, CountDequeuedKeeps DEF Consumer
  <1>3. CASE UNCHANGED vars
    <2>1. /\ UNCHANGED <<next, value, allocated, producerVars>>
          /\ UNCHANGED consumerVars
      BY <1>3 DEF vars
    <2>2. Chained' /\ BoundedMemory' /\ TakenInOrder' /\ Newest' = Newest
      BY <2>1, ConsumerKeepsChain DEF consumerVars
    <2>3. TypeOK' /\ Counting'
      BY <2>1, <2>2 DEF IInv, TypeOK, Counting, producerVars, consumerVars
    <2> QED BY <2>2, <2>3 DEF IInv
  <1> QED BY <1>1, <1>2, <1>3 DEF Next, Ended

-------------------------------------------------------------------------------

\* The nodes from tail on are those the consumer may read: the node the producer
\* writes to is not one of them.
LEMMA ChainIsPrivate == ASSUME IInv PROVE NewNodeIsPrivate
  <1> SUFFICES ASSUME ppc \in {"fill", "link"}
               PROVE  \E S \in SUBSET Nodes :
                        tail \in S /\ n \notin S /\ \A m \in S : next[m] \in S \cup {Null}
    BY DEF NewNodeIsPrivate
  <1>1. PICK at \in [Nat -> Nodes], lo \in Nat, tc \in Nat : InChain(at, lo, tc)
    BY DEF IInv, Chained
  <1>2. Newest \in Nat /\ Len(taken) \in Nat
    BY Numbers DEF IInv
  <1> DEFINE S == {at[i] : i \in Len(taken)..Newest}
  <1>3. lo <= Len(taken) /\ Len(taken) <= Newest
    BY <1>1, <1>2 DEF InChain, InOrderFrom
  <1>4. tail \in S
    BY <1>1, <1>2, <1>3 DEF InChain, EndsOf
  <1>5. n \notin S
    BY <1>1, <1>2, <1>3 DEF InChain, NodesKnown
  <1>6. ASSUME NEW i \in Len(taken)..Newest
        PROVE  next[at[i]] \in S \cup {Null}
    <2>1. CASE i < Newest
      <3>1. next[at[i]] = at[i + 1] /\ i + 1 \in Len(taken)..Newest
        BY <2>1, <1>1, <1>2, <1>3 DEF InChain, ItemsLinked
      <3> QED BY <3>1
    <2>2. CASE i = Newest
      BY <2>2, <1>1 DEF InChain, EndsOf
    <2> QED BY <1>2, <2>1, <2>2
  <1>7. S \in SUBSET Nodes
    BY <1>1, <1>2
  <1>8. \A m \in S : next[m] \in S \cup {Null}
    BY <1>6
  <1> HIDE DEF S
  <1> QED BY <1>4, <1>5, <1>7, <1>8

\* The invariant implies what the run checks.
LEMMA Implies == ASSUME IInv PROVE MemorySafe
  <1>1. NothingLeft
    BY Numbers, SpscAssumption DEF IInv, TypeOK, Counting, NothingLeft, RoughSize
  <1> QED BY <1>1, ChainIsPrivate DEF IInv, MemorySafe

\* However the two threads interleave, the producer never writes to a node that the
\* consumer may read, the nodes are bounded by max_size however long the run is, an
\* empty queue of a producer that has ended has been emptied, and the items arrive
\* in their order, each once (enqueue, alloc_node and dequeue).
THEOREM QueueMemorySafe == Spec => []MemorySafe
  <1>1. Init => IInv
    BY InitEstablishes
  <1>2. IInv /\ [Next]_vars => IInv'
    BY StepKeeps
  <1>3. IInv => MemorySafe
    BY Implies
  <1> QED BY <1>1, <1>2, <1>3, PTL DEF Spec

-------------------------------------------------------------------------------

\* The nodes that a walk from tail comes to, if the chain is as it should be.
Walk(at) ==
  [k \in 0..Cardinality(Nodes) |->
     IF Len(taken) + k <= Newest THEN at[Len(taken) + k] ELSE Null]

\* From tail to the last node there are no more links than nodes to walk to.
LEMMA WalkFits ==
  ASSUME TypeOK, Counting,
         NEW at \in [Nat -> Nodes], NEW lo \in Nat, NEW tc \in Nat, InChain(at, lo, tc)
  PROVE  Cardinality(Nodes) \in Nat /\ Newest - Len(taken) < Cardinality(Nodes)
  <1>1. Newest \in Nat /\ Len(taken) \in Nat /\ lo <= Len(taken) /\ Len(taken) <= Newest
    BY Numbers DEF InChain, InOrderFrom
  <1> DEFINE I == Len(taken)..Newest
             f == [i \in I |-> at[i]]
  <1>2. f \in Injection(I, Nodes)
    <2>1. \A i, j \in I : at[i] = at[j] => i = j
      BY <1>1 DEF InChain, NodesDiffer
    <2> QED BY <1>1, <2>1 DEF Injection, IsInjective
  <1>3. IsFiniteSet(I) /\ Cardinality(I) = Newest - Len(taken) + 1
    BY <1>1, FS_Interval
  <1> HIDE DEF f, I
  <1>4. Cardinality(I) <= Cardinality(Nodes) /\ Cardinality(Nodes) \in Nat
    BY <1>2, SpscAssumption, FS_Injection, FS_CardinalityType
  <1> QED BY <1>1, <1>3, <1>4

\* What the links lead to are the nodes of the items that are not taken yet.
LEMMA WalkIsReached ==
  ASSUME TypeOK, Counting,
         NEW at \in [Nat -> Nodes], NEW lo \in Nat, NEW tc \in Nat, InChain(at, lo, tc)
  PROVE  Reached = Walk(at)
  <1> DEFINE C == Cardinality(Nodes)
             After(m) == IF m = Null THEN Null ELSE next[m]
             Steps(g) == [k \in 0..C |-> IF k = 0 THEN tail ELSE After(g[k - 1])]
  <1>1. C \in Nat
    BY WalkFits
  <1>2. Newest \in Nat /\ Len(taken) \in Nat /\ lo <= Len(taken) /\ Len(taken) <= Newest
    BY Numbers DEF InChain, InOrderFrom
  <1>3. Walk(at) = Steps(Walk(at))
    <2>1. Walk(at)[0] = tail
      BY <1>1, <1>2 DEF Walk, InChain, EndsOf
    <2>2. ASSUME NEW k \in 0..C, k # 0
          PROVE  Walk(at)[k] = After(Walk(at)[k - 1])
      <3> DEFINE i == Len(taken) + k - 1
      <3>1. /\ k - 1 \in 0..C
            /\ Walk(at)[k] = IF i + 1 <= Newest THEN at[i + 1] ELSE Null
            /\ Walk(at)[k - 1] = IF i <= Newest THEN at[i] ELSE Null
        BY <1>1, <1>2, <2>2 DEF Walk
      <3>2. i \in Nat /\ lo <= i
        BY <1>1, <1>2, <2>2
      <3> HIDE DEF i
      <3>3. CASE i < Newest
        <4>1. next[at[i]] = at[i + 1] /\ at[i] \in Nodes
          BY <1>2, <3>2, <3>3 DEF InChain, ItemsLinked
        <4>2. at[i] # Null
          BY <4>1, SpscAssumption
        <4> QED BY <1>2, <3>1, <3>2, <3>3, <4>1, <4>2
      <3>4. CASE i = Newest
        <4>1. next[at[i]] = Null
          BY <3>4 DEF InChain, EndsOf
        <4> QED BY <1>2, <3>1, <3>2, <3>4, <4>1
      <3>5. CASE i > Newest
        BY <1>2, <3>1, <3>2, <3>5
      <3> QED BY <1>2, <3>2, <3>3, <3>4, <3>5
    <2> QED BY <2>1, <2>2 DEF Walk
  <1>4. Reached = Steps(Reached)
    <2>1. Reached = CHOOSE g : g = Steps(g)
      BY DEF Reached
    <2> QED BY <1>3, <2>1
  <1>5. \A k \in 0..C : Reached[k] = Walk(at)[k]
    <2> DEFINE T == {k \in 0..C : Reached[k] # Walk(at)[k]}
    <2> SUFFICES ASSUME T # {} PROVE FALSE
      OBVIOUS
    <2>1. T \in SUBSET Nat
      BY <1>1
    <2>2. PICK k \in T : \A j \in T : k <= j
      BY <2>1, LeastNumber
    <2>3. k \in 0..C /\ Reached[k] # Walk(at)[k]
      OBVIOUS
    <2>4. k # 0
      BY <1>3, <1>4, <2>3
    <2>5. k - 1 \in 0..C /\ k - 1 \notin T
      BY <1>1, <2>2, <2>3, <2>4
    <2>6. Reached[k - 1] = Walk(at)[k - 1]
      BY <2>5
    <2>7. Walk(at)[k] = IF Walk(at)[k - 1] = Null THEN Null ELSE next[Walk(at)[k - 1]]
      BY <1>3, <2>3, <2>4
    <2>8. Reached[k] = IF Reached[k - 1] = Null THEN Null ELSE next[Reached[k - 1]]
      BY <1>4, <2>3, <2>4
    <2> QED BY <2>3, <2>6, <2>7, <2>8
  <1>6. Reached = [k \in 0..C |-> Reached[k]]
    BY <1>4
  <1> QED BY <1>5, <1>6 DEF Walk

\* The contents of the queue are the items that are linked and not taken.
LEMMA ContentsAre ==
  IInv => Contents = [k \in 1..(Newest - Len(taken)) |-> Len(taken) + k]
  <1> SUFFICES ASSUME IInv
               PROVE  Contents = [k \in 1..(Newest - Len(taken)) |-> Len(taken) + k]
    OBVIOUS
  <1>1. PICK at \in [Nat -> Nodes], lo \in Nat, tc \in Nat : InChain(at, lo, tc)
    BY DEF IInv, Chained
  <1> DEFINE C == Cardinality(Nodes)
             m == Newest - Len(taken)
  <1>2. Newest \in Nat /\ Len(taken) \in Nat /\ lo <= Len(taken) /\ Len(taken) <= Newest
    BY <1>1, Numbers DEF IInv, InChain, InOrderFrom
  <1>3. C \in Nat /\ m < C /\ m \in Nat
    BY <1>1, <1>2, WalkFits DEF IInv
  <1>4. Reached = Walk(at)
    BY <1>1, WalkIsReached DEF IInv
  <1>5. \A k \in 1..C : Reached[k] = IF k <= m THEN at[Len(taken) + k] ELSE Null
    BY <1>2, <1>3, <1>4 DEF Walk
  <1>6. \A k \in 1..m : at[Len(taken) + k] \in Nodes /\ Len(taken) + k \in lo..Newest
    BY <1>1, <1>2, <1>3
  <1> HIDE DEF C, m
  <1>7. {k \in 1..C : Reached[k] # Null} = 1..m
    BY <1>3, <1>5, <1>6, SpscAssumption
  <1>8. LinkedCount = m
    <2>1. Cardinality(1..m) = m
      BY <1>3, FS_Interval
    <2> QED BY <1>7, <2>1 DEF LinkedCount, C
  <1>9. \A k \in 1..m : value[Reached[k]] = Len(taken) + k
    BY <1>1, <1>3, <1>5, <1>6 DEF InChain, ItemsStored
  <1> QED BY <1>8, <1>9 DEF Contents, m

\* Before and after a step the contents are known from the two counts alone.
Items(count) == [k \in 1..(Newest - count) |-> count + k]

\* Linking an item puts it in, moving tail takes one out, and no other step
\* changes the queue.
LEMMA StepRefines ==
  ASSUME IInv, IInv', [Next]_vars,
         Contents = Items(Len(taken)), (Contents = Items(Len(taken)))'
  PROVE  [Queue!Next]_<<Contents, taken>>
  <1>1. Newest \in Nat /\ Len(taken) \in Nat /\ Len(taken) <= Newest
    BY Numbers DEF IInv, Chained, InChain, InOrderFrom
  <1>2. taken \in Seq(1..MaxItems)
    BY DEF IInv, TypeOK
  <1>3. CASE Newest' = Newest /\ taken' = taken
    BY <1>3 DEF Items
  <1>4. CASE Link
    <2>1. /\ Newest = produced - 1 /\ Newest' = produced /\ taken' = taken
          /\ produced \in 1..MaxItems
      BY <1>1, <1>4 DEF Link, Newest, consumerVars, IInv, TypeOK
    <2> DEFINE m == Newest - Len(taken)
    <2>2. /\ Contents = [k \in 1..m |-> Len(taken) + k]
          /\ Contents' = [k \in 1..(m + 1) |-> Len(taken) + k]
          /\ m \in Nat /\ produced = Len(taken) + m + 1
      BY <1>1, <2>1 DEF Items
    <2> HIDE DEF m
    <2>3. Contents' = Append(Contents, produced)
      BY <1>1, <2>1, <2>2
    <2> QED BY <2>1, <2>3 DEF Queue!Next, Queue!Put
  <1>5. CASE MoveTail
    <2>1. Len(taken) < Newest /\ v = Len(taken) + 1 /\ Newest' = Newest
      BY <1>5 DEF MoveTail, IInv, Counting, Newest, producerVars
    <2>2. v \in 1..MaxItems
      BY <1>1, <2>1, SpscAssumption DEF IInv, TypeOK, Newest
    <2>3. taken' = Append(taken, v) /\ Len(taken') = Len(taken) + 1
      BY <1>2, <1>5, <2>2 DEF MoveTail
    <2> DEFINE m == Newest - Len(taken)
    <2>4. /\ Contents = [k \in 1..m |-> Len(taken) + k]
          /\ Contents' = [k \in 1..(m - 1) |-> Len(taken) + 1 + k]
          /\ m \in Nat /\ m > 0
      BY <1>1, <2>1, <2>3 DEF Items
    <2> HIDE DEF m
    <2>5. Contents # <<>> /\ v = Head(Contents) /\ Contents' = Tail(Contents)
      <3>1. Contents \in Seq(Nat) /\ Len(Contents) = m
        BY <1>1, <2>4
      <3>2. Contents # <<>> /\ v = Head(Contents)
        BY <1>1, <2>1, <2>4, <3>1
      <3>3. Contents' = Tail(Contents)
        BY <1>1, <2>4, <3>1
      <3> QED BY <3>2, <3>3
    <2> QED BY <2>3, <2>5 DEF Queue!Next, Queue!Take
  <1>6. CASE Next /\ ~Link /\ ~MoveTail
    <2>1. CASE Enqueue
      BY <2>1, <1>3, SpscAssumption DEF Enqueue, Newest, consumerVars, IInv, TypeOK
    <2>2. CASE AllocNode \/ NewNode
      BY <2>2, <1>3 DEF AllocNode, NewNode, Reuse, Newest, consumerVars
    <2>3. CASE Fill \/ CountEnqueued
      BY <2>3, <1>3 DEF Fill, CountEnqueued, Newest, consumerVars
    <2>4. CASE Dequeue \/ LoadValue \/ CountDequeued
      BY <2>4, <1>3 DEF Dequeue, LoadValue, CountDequeued, Newest, producerVars
    <2>5. CASE Ended
      BY <2>5, <1>3 DEF Ended, Newest, vars, producerVars, consumerVars
    <2> QED BY <1>6, <2>1, <2>2, <2>3, <2>4, <2>5 DEF Next, Producer, Consumer
  <1>7. CASE UNCHANGED vars
    BY <1>3, <1>7 DEF vars, producerVars, consumerVars, Newest
  <1> QED BY <1>4, <1>5, <1>6, <1>7

\* The queue is a Fifo: for every number of items and every bound, and however the
\* loads and stores of the two threads interleave, what enqueue links is what
\* dequeue returns, once and in order, although nodes are reused all the time.
THEOREM QueueIsFifo == Spec => FifoSpec
  <1>1. Init => IInv
    BY InitEstablishes
  <1>2. IInv /\ [Next]_vars => IInv'
    BY StepKeeps
  <1>3. IInv => Contents = Items(Len(taken))
    BY ContentsAre DEF Items
  <1>4. Init /\ IInv => Queue!Init
    <2> SUFFICES ASSUME Init, IInv PROVE Queue!Init
      OBVIOUS
    <2>1. Newest = 0 /\ taken = <<>> /\ Len(taken) = 0
      BY DEF Init, Newest
    <2> QED BY <1>3, <2>1 DEF Queue!Init, Items
  <1>5. /\ IInv /\ IInv' /\ [Next]_vars
        /\ Contents = Items(Len(taken)) /\ (Contents = Items(Len(taken)))'
        => [Queue!Next]_<<Contents, taken>>
    BY StepRefines
  <1> QED BY <1>1, <1>2, <1>3, <1>4, <1>5, PTL DEF Spec, FifoSpec, Queue!Spec
===============================================================================
