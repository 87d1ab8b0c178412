------------------------------ MODULE MCEpochGate ------------------------------
(***************************************************************************)
(* Programs for the runs of EpochGate.  The slot tables are scaled down:   *)
(* the code has 1024 slots and a window of 10.                             *)
(***************************************************************************)
EXTENDS EpochGate, MCOmpProgram

Zeroed  == {"null"}
Garbage == {"null", "store"}

\* All racy accesses are to x; one of them is inside a critical section.
OneVarCode ==
  t1 :> << Store(x, 2), Critical(<<Plain("update", y), Gated("update", x, 2)>>) >> @@
  t2 :> << Store(x, 2), Load(x, 2) >> @@
  t3 :> << Store(x, 2), Load(x, 2) >>

\* Stores and atomic stores of x meet in one run.
MixedStoresCode ==
  t1 :> << Store(x, 2), AtomicStore(x) >> @@
  t2 :> << Store(x, 2), Load(x, 2) >> @@
  t3 :> << AtomicStore(x), Store(x, 2) >>

\* Two racing variables, each in a set of races of its own.
TwoVarsCode ==
  t1 :> << Store(x, 2), Load(y, 3) >> @@
  t2 :> << Store(x, 2), Load(y, 3) >> @@
  t3 :> << Store(y, 3), Store(x, 2) >>

\* Three stores of two variables.
ThreeStoresCode ==
  t1 :> << Store(x, 2) >> @@ t2 :> << Store(x, 2) >> @@ t3 :> << Store(y, 3) >>

\* Two stores of one variable.
TwoStoresCode ==
  t1 :> << Store(x, 2) >> @@ t2 :> << Store(x, 2) >> @@ t3 :> << >>

\* Six stores of one variable: as many as there are slots.
SixStoresCode ==
  t1 :> << Store(x, 2), Store(x, 2) >> @@
  t2 :> << Store(x, 2), Store(x, 2) >> @@
  t3 :> << Store(x, 2), Store(x, 2) >>

\* What the small programs are made of: one variable, one clock; or two of each.
OneVarSections  == {Load(x, 2), Store(x, 2), AtomicStore(x),
                    Critical(<<Plain("update", y), Gated("update", x, 2)>>)}
TwoVarsSections == {Load(x, 2), Store(x, 2), Load(y, 3), Store(y, 3)}

MCPrograms ==
  {OneLock(OneVarCode), OneLock(MixedStoresCode), ManyLocks(TwoVarsCode)}
    \cup {OneLock(code) : code \in AllCodes(OneVarSections)}
    \cup {ManyLocks(code) : code \in AllCodes(TwoVarsSections)}
SharedClockPrograms == {OneLock(ThreeStoresCode)}
UnclearedPrograms   == {OneLock(TwoStoresCode)}
StaleSlotPrograms   == {OneLock(SixStoresCode)}

\* What the theorem about reads supposes holds of the programs and tables of the run.
ASSUME ProgramsFit ==
  /\ \A p \in MCPrograms : OneGateEach(p) /\ KindsTold(p) /\ OneStored(p) /\ FewSections(p)
  /\ \A f \in Zeroed : ~IsStore(f)
===============================================================================
