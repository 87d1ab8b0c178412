----------------------------- MODULE MCOmpProgram ------------------------------
(***************************************************************************)
(* Programs for the runs of the gates: three threads that race on x, on y  *)
(* and in critical sections, small enough to explore every interleaving of *)
(* both runs.                                                              *)
(***************************************************************************)
EXTENDS OmpProgram, TLC

CONSTANTS t1, t2, t3, x, y, z

MCThreads == {t1, t2, t3}
MCLocks == {0, 2, 3}
MCVars == {x, y, z}

\* Accesses without and with a gate of their own.
Plain(op, v) == [op |-> op, var |-> v, gate |-> NoLock]
Gated(op, v, id) == [op |-> op, var |-> v, gate |-> id]

\* Sections of one access, and critical sections with a body.
Load(v, id)    == [lock |-> id, rw |-> "load", body |-> <<Plain("load", v)>>]
Store(v, id)   == [lock |-> id, rw |-> "store", body |-> <<Plain("store", v)>>]
AtomicStore(v) == [lock |-> 0, rw |-> "atomicstore", body |-> <<Plain("store", v)>>]
Reduction(v)   == [lock |-> 0, rw |-> "reduction", body |-> <<Plain("update", v)>>]
Critical(body) == [lock |-> 0, rw |-> "other", body |-> body]

\* The default configuration has one lock and clock for all gates; the other one
\* has a lock and a clock for each set of racing accesses.
OneLock(code)   == [code |-> code, multi_clock |-> FALSE]
ManyLocks(code) == [code |-> code, multi_clock |-> TRUE]

\* Every program of four of these sections, two of them in the same thread.
AllCodes(sections) ==
  { t1 :> <<a, b>> @@ t2 :> <<c>> @@ t3 :> <<d>> : a, b, c, d \in sections }

\* Racy accesses to x and y; critical sections update z.
RacesCode ==
  t1 :> << Critical(<<Plain("update", z)>>), Load(y, 3) >> @@
  t2 :> << Load(x, 2), Store(y, 3) >> @@
  t3 :> << Store(x, 2), Critical(<<Plain("update", z)>>) >>

\* A racy access to x is inside a critical section, the other one is not.
NestedCode ==
  t1 :> << Critical(<<Gated("store", x, 2)>>) >> @@
  t2 :> << Load(x, 2) >> @@
  t3 :> << Load(y, 3), Critical(<<Plain("update", z)>>) >>
===============================================================================
