------------------------------- MODULE MCTidGate -------------------------------
(***************************************************************************)
(* Programs for the runs of TidGate.                                       *)
(***************************************************************************)
EXTENDS TidGate, MCOmpProgram

\* A critical section with a gated access in it, racy accesses to x and y, and a
\* reduction into a variable that nobody else touches.
OneLockCode ==
  t1 :> << Critical(<<Plain("update", y), Gated("store", x, 2)>>), Load(y, 3) >> @@
  t2 :> << Load(x, 2), Store(y, 3) >> @@
  t3 :> << Reduction(z), Store(x, 2) >>

\* Two threads contribute to one reduction.
ReductionCode ==
  t1 :> << Reduction(z), Store(y, 3) >> @@
  t2 :> << Reduction(z), Load(y, 3) >> @@
  t3 :> << >>

\* The pass has found four sets of races, with ids 2 to 5, and this gate has made
\* locks for ids 0 to 3.  These two programs access the set of id 4, the second one
\* in a nested gate as well.
MCTidLocks == MCLocks \cup {4}
PastEndCode ==
  t1 :> << Load(x, 4) >> @@ t2 :> << Store(x, 4) >> @@ t3 :> << Load(y, 2) >>
NestedPastEndCode ==
  t1 :> << Critical(<<Gated("store", x, 4)>>) >> @@
  t2 :> << Load(x, 4) >> @@
  t3 :> << Load(y, 2) >>

\* What the small programs are made of, without and with nested gates.
RacySections   == {Load(x, 2), Store(x, 2), Store(y, 3),
                   Critical(<<Plain("update", z)>>)}
NestedSections == {Load(x, 2), Store(x, 2),
                   Critical(<<Plain("update", z), Gated("store", x, 2)>>)}

MCPrograms ==
  {OneLock(OneLockCode), ManyLocks(RacesCode), ManyLocks(NestedCode),
   ManyLocks(PastEndCode), ManyLocks(NestedPastEndCode)}
    \cup {OneLock(code) : code \in AllCodes(NestedSections)}
    \cup {ManyLocks(code) : code \in AllCodes(RacySections)}
NestedPrograms    == {ManyLocks(NestedCode)}
PastEndPrograms   == {ManyLocks(PastEndCode)}
ReductionPrograms == {OneLock(ReductionCode)}

\* What the theorem about reads supposes holds of the programs of the run.
ASSUME ProgramsOrdered == \A p \in MCPrograms : MixesCounts(p) \/ OrderedVars(p)
===============================================================================
