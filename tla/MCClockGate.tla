------------------------------ MODULE MCClockGate ------------------------------
(***************************************************************************)
(* Programs for the runs of ClockGate.                                     *)
(***************************************************************************)
EXTENDS ClockGate, MCOmpProgram

\* A critical section contains a gated access to x.
OneClockCode ==
  t1 :> << Critical(<<Plain("update", z), Gated("store", x, 2)>>), Load(y, 3) >> @@
  t2 :> << Load(x, 2), Store(y, 3) >> @@
  t3 :> << Store(x, 2), Critical(<<Plain("update", z)>>) >>

\* What the small programs are made of, without and with nested gates.
RacySections   == {Load(x, 2), Store(x, 2), Load(y, 3), Store(y, 3),
                   Critical(<<Plain("update", z)>>)}
NestedSections == {Load(x, 2), Store(x, 2),
                   Critical(<<Plain("update", z), Gated("store", x, 2)>>)}

MCPrograms ==
  {OneLock(OneClockCode), ManyLocks(RacesCode)}
    \cup {OneLock(code) : code \in AllCodes(NestedSections)}
    \cup {ManyLocks(code) : code \in AllCodes(RacySections)}
NestedPrograms == {ManyLocks(NestedCode)}

\* What the theorem about reads supposes holds of the programs of the run.
ASSUME ProgramsGated == \A p \in MCPrograms : OneGateEach(p)
===============================================================================
