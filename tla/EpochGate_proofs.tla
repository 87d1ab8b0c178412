--------------------------- MODULE EpochGate_proofs ---------------------------
(***************************************************************************)
(* Proofs about the epoch gate, for every team, every set of locks, every  *)
(* program, both settings of multi_clock, and a slot table of any length   *)
(* that is longer than the window, cleared or not.  The inductive          *)
(* invariant is TypeOK /\ Inductive.  In the recorded run no slot within   *)
(* the table's reach shows a kind its clock did not have, so an epoch goes *)
(* back over sections of one kind only.  In the replay as many sections    *)
(* have been left as the epoch says; if one of an earlier clock is not     *)
(* left yet, then one of a later clock was, and both are of that run.      *)
(*                                                                         *)
(* From there on (StoreInv to ShortRunsReplayed): the replay is faithful,  *)
(* although sections overlap.                                              *)
(***************************************************************************)
EXTENDS EpochGate, SharedLemmas

\* The program that is run has the type of a program.
LEMMA ProgramTyped ==
  ASSUME TypeOK
  PROVE  Program \in [Threads -> Seq(Sections)] /\ MultiClock \in BOOLEAN
  BY DEF TypeOK, ProgramTypeOK, ProgramType, Program, MultiClock

\* No step changes the program.
LEMMA SameProgram ==
  ASSUME [Next]_vars
  PROVE  program' = program
  <1>1. ASSUME NEW t \in Threads, Step(t)
        PROVE  program' = program
    BY <1>1 DEF Step, GateInRecord, GateInReplay, NestedIn, NestedOut, ProgramStep,
       Access, GateOutRecord, FileEpoch, ResetSlot, GateOutReplay, GoTo, NextSection
  <1> QED BY <1>1 DEF Next, Ended, Rerun, StartReplay, vars, programVars

\* While a thread stays in its section, the lock of that section stays the same.
LEMMA LockKept ==
  ASSUME program' = program, NEW t \in Threads
  PROVE  /\ Program' = Program
         /\ \A s : LockAt(t, s)' = LockAt(t, s) /\ KindAt(t, s)' = KindAt(t, s)
         /\ sec'[t] = sec[t] => LockOf(t)' = LockOf(t)
  BY DEF Program, MultiClock, LockAt, KindAt, LockOf, Section, GateLock

\* Where a thread has a section, the section and its lock have their types.
LEMMA SectionType ==
  ASSUME TypeOK, NEW t \in Threads, HasSection(t)
  PROVE  /\ sec[t] \in 1..Len(Program[t])
         /\ Section(t) \in Sections
         /\ LockOf(t) \in Locks
         /\ LockOf(t) = LockAt(t, sec[t])
         /\ Section(t).rw = KindAt(t, sec[t])
  <1>1. sec[t] \in 1..Len(Program[t])
    BY ProgramTyped DEF TypeOK, ProgramTypeOK, HasSection
  <1>2. Section(t) \in Sections
    BY <1>1, ProgramTyped DEF Section
  <1>3. Section(t).lock \in Locks
    BY <1>2 DEF Sections
  <1>4. LockOf(t) \in Locks
    BY <1>3, ProgramAssumption DEF LockOf, GateLock
  <1> QED
    BY <1>1, <1>2, <1>4 DEF LockOf, LockAt, KindAt, Section

\* The same for any section of the program.
LEMMA LockAtType ==
  ASSUME TypeOK, NEW t \in Threads, NEW s \in 1..Len(Program[t])
  PROVE  LockAt(t, s) \in Locks /\ KindAt(t, s) \in RwTypes
  <1>1. Program[t][s] \in Sections
    BY ProgramTyped
  <1>2. Program[t][s].lock \in Locks /\ Program[t][s].rw \in RwTypes
    BY <1>1 DEF Sections
  <1> QED BY <1>2, ProgramAssumption DEF LockAt, KindAt, GateLock

\* A thread in the middle of a body executes an access of its section.
LEMMA AccessType ==
  ASSUME TypeOK, NestingInv, NEW t \in Threads, InSection(t), HasAccess(t)
  PROVE  NextAccess(t) \in Accesses
  <1>1. HasSection(t)
    BY DEF NestingInv, InSection
  <1>2. Section(t) \in Sections
    BY <1>1, SectionType
  <1>3. Section(t).body \in Seq(Accesses)
    BY <1>2 DEF Sections
  <1>4. acc[t] \in 1..Len(Section(t).body)
    BY <1>3 DEF HasAccess, TypeOK, ProgramTypeOK
  <1> QED BY <1>3, <1>4 DEF NextAccess

\* The count that CHOOSE finds: the slots it goes back over show the kind, and
\* only loads and stores are counted.
LEMMA CountFound ==
  ASSUME NEW table, NEW c, NEW rw, NEW n, n = ConsecutiveCount(table, c, rw)
  PROVE  /\ n \in 0..Window
         /\ n > 0 => IsLoadOrStore(rw)
         /\ \A i \in 1..n : table[SlotOf(c + SlotCount - i)] = rw
  <1> DEFINE At(i) == table[SlotOf(c + SlotCount - i)]
             Ends == {k \in 0..Window : k = Window \/ At(k + 1) # rw}
             Counts(k) == /\ \A i \in 1..k : At(i) = rw
                          /\ k = Window \/ At(k + 1) # rw
  <1>0. Window \in Nat
    BY EpochAssumption
  <1>1. CASE ~IsLoadOrStore(rw)
    BY <1>0, <1>1 DEF ConsecutiveCount
  <1>2. CASE IsLoadOrStore(rw)
    <2>1. n = CHOOSE k \in 0..Window : Counts(k)
      BY <1>2 DEF ConsecutiveCount
    <2>2. PICK k \in Ends : \A j \in Ends : k <= j
      <3>1. Window \in Ends /\ Ends \in SUBSET Nat
        BY <1>0
      <3> HIDE DEF Ends
      <3> QED BY <3>1, LeastNumber
    <2>3. Counts(k)
      <3>1. ASSUME NEW i \in 1..k
            PROVE  At(i) = rw
        <4> HIDE DEF At
        <4>1. i - 1 \in 0..Window /\ i - 1 < k /\ i - 1 # Window /\ (i - 1) + 1 = i
          BY <1>0, <2>2
        <4>2. i - 1 \notin Ends
          BY <2>2, <4>1
        <4>3. At((i - 1) + 1) = rw
          BY <4>1, <4>2
        <4> QED BY <4>1, <4>3
      <3> QED BY <2>2, <3>1
    <2>4. k \in 0..Window
      BY <2>2
    <2> HIDE DEF Counts
    <2>5. n \in 0..Window /\ Counts(n)
      BY <2>1, <2>3, <2>4
    <2> USE DEF Counts
    <2> QED BY <1>2, <2>5
  <1> QED BY <1>1, <1>2

\* The first state is well typed and satisfies the invariant.
LEMMA InitInductive == Init => TypeOK /\ Inductive
  <1> SUFFICES ASSUME Init PROVE TypeOK /\ Inductive
    OBVIOUS
  <1>1. TypeOK
    <2>1. ProgramTypeOK
      BY ProgramAssumption DEF Init, ProgramInit, ProgramTypeOK, Places, Values
    <2>2. previous \in [Locks -> [Slots -> RwTypes \cup {"null"}]]
      BY EpochAssumption DEF Init
    <2>3. count \in [Threads -> 0..Window]
      BY EpochAssumption DEF Init
    <2> QED BY <2>1, <2>2, <2>3 DEF Init, TypeOK
  <1>2. NestingInv
    <2> SUFFICES ASSUME NEW t \in Threads
                 PROVE  /\ nest_num[t] = IF pc[t] = "body" THEN 1
                                         ELSE IF InSection(t) THEN 2 ELSE 0
                        /\ sec[t] \in 1..(Len(Program[t]) + 1)
                        /\ pc[t] # "run" => HasSection(t)
      BY DEF NestingInv
    <2>1. pc[t] = "run" /\ sec[t] = 1 /\ nest_num[t] = 0
      BY DEF Init, ProgramInit
    <2>2. Len(Program[t]) \in Nat
      BY <1>1, ProgramTyped
    <2> QED BY <2>1, <2>2 DEF InSection
  <1>3. EpochInv /\ HistoryInv
    BY DEF Init, ProgramInit, EpochInv, HistoryInv
  <1>4. SlotInv
    BY DEF Init, SlotInv, Clocks
  <1>5. RecordInv /\ ReplayInv
    BY DEF Init, ProgramInit, RecordInv, ReplayInv, InSection
  <1> QED BY <1>1, <1>2, <1>3, <1>4, <1>5 DEF Inductive

-------------------------------------------------------------------------------

\* Every step keeps the state well typed.
LEMMA TypeStep ==
  ASSUME TypeOK, NestingInv, [Next]_vars
  PROVE  TypeOK'
  <1> USE DEF TypeOK, ProgramTypeOK
  <1>1. ASSUME NEW t \in Threads, GateInRecord(t)
        PROVE  TypeOK'
    <2>1. omp_locks' \in [Locks -> Threads \cup {NoThread}]
      BY <1>1 DEF GateInRecord
    <2>2. nest_num' \in [Threads -> Nat] /\ pc' \in [Threads -> Places]
      BY <1>1 DEF GateInRecord, GoTo, Places
    <2> QED BY <1>1, <2>1, <2>2 DEF GateInRecord, GoTo
  <1>2. ASSUME NEW t \in Threads, GateInReplay(t)
        PROVE  TypeOK'
    <2>1. nest_num' \in [Threads -> Nat] /\ pos' \in [Threads -> Nat]
      BY <1>2 DEF GateInReplay
    <2>2. pc' \in [Threads -> Places]
      BY <1>2 DEF GateInReplay, GoTo, Places
    <2> QED BY <1>2, <2>1, <2>2 DEF GateInReplay, GoTo
  <1>3. ASSUME NEW t \in Threads, NestedIn(t)
        PROVE  TypeOK'
    <2>1. nest_num' \in [Threads -> Nat]
      BY <1>3 DEF NestedIn
    <2>2. pc' \in [Threads -> Places]
      BY <1>3 DEF NestedIn, GoTo, Places
    <2> QED BY <1>3, <2>1, <2>2 DEF NestedIn, GoTo
  <1>4. ASSUME NEW t \in Threads, NestedOut(t)
        PROVE  TypeOK'
    <2>1. nest_num' \in [Threads -> Nat]
      BY <1>4 DEF NestedOut, ReentryOut
    <2>2. pc' \in [Threads -> Places]
      BY <1>4 DEF NestedOut, GoTo, Places
    <2> QED BY <1>4, <2>1, <2>2 DEF NestedOut, GoTo
  <1>5. ASSUME NEW t \in Threads, ProgramStep(t)
        PROVE  TypeOK'
    <2>1. NextAccess(t) \in Accesses
      BY <1>5, AccessType DEF ProgramStep, Access
    <2>2. NextAccess(t).var \in Vars
      BY <2>1 DEF Accesses
    <2>3. <<t, sec[t], acc[t]>> \in Values /\ mem[NextAccess(t).var] \in Values
      BY <2>2 DEF Values
    <2>4. mem' \in [Vars -> Values]
      BY <1>5, <2>3 DEF ProgramStep, Access
    <2>5. log' \in [Threads -> Seq(Values)]
      BY <1>5, <2>3 DEF ProgramStep, Access
    <2>6. pc' \in [Threads -> Places] /\ acc' \in [Threads -> Nat \ {0}]
      BY <1>5 DEF ProgramStep, Access, Places
    <2> QED BY <1>5, <2>4, <2>5, <2>6 DEF ProgramStep, Access, gateVars
  <1>6. ASSUME NEW t \in Threads, GateOutRecord(t)
        PROVE  TypeOK'
    <2>1. LockOf(t) \in Locks
      BY <1>6, SectionType DEF GateOutRecord, AtGateOut, NestingInv
    <2>2. nest_num[t] = 1
      BY <1>6 DEF GateOutRecord, AtGateOut, NestingInv
    <2>3. nest_num' \in [Threads -> Nat] /\ pc' \in [Threads -> Places]
      BY <1>6, <2>2 DEF GateOutRecord, GoTo, Places
    <2>4. omp_locks' \in [Locks -> Threads \cup {NoThread}]
      BY <1>6, <2>1 DEF GateOutRecord
    <2>5. current_clocks' \in [Locks -> Nat]
      BY <1>6, <2>1 DEF GateOutRecord
    <2>6. clock' \in [Threads -> Nat]
      BY <1>6, <2>1 DEF GateOutRecord
    <2>8. previous' \in [Locks -> [Slots -> RwTypes \cup {"null"}]]
      <3>1. Section(t).rw \in RwTypes
        BY <1>6, SectionType DEF GateOutRecord, AtGateOut, NestingInv, Sections
      <3>2. previous[LockOf(t)] \in [Slots -> RwTypes \cup {"null"}]
        BY <2>1
      <3> DEFINE table == [previous[LockOf(t)] EXCEPT
                             ![SlotOf(current_clocks[LockOf(t)])] = Section(t).rw]
      <3>3. table \in [Slots -> RwTypes \cup {"null"}]
        BY <3>1, <3>2
      <3>4. previous' = [previous EXCEPT ![LockOf(t)] = table]
        BY <1>6 DEF GateOutRecord
      <3> QED BY <3>3, <3>4
    <2>9. count' \in [Threads -> 0..Window]
      <3>1. PICK n : /\ n \in 0..Window
                     /\ count' = [count EXCEPT ![t] = n]
        BY <1>6, CountFound DEF GateOutRecord
      <3> QED BY <3>1
    <2>7. recorded' \in [Locks -> Seq(Threads \X Nat)]
      BY <1>6, <2>1 DEF GateOutRecord
    <2> QED BY <1>6, <2>3, <2>4, <2>5, <2>6, <2>7, <2>8, <2>9 DEF GateOutRecord, GoTo
  <1>7. ASSUME NEW t \in Threads, FileEpoch(t)
        PROVE  TypeOK'
    <2>1. clock[t] \in Nat /\ file[t] \in Seq(Int) /\ count[t] \in 0..Window
      OBVIOUS
    <2>2. count' \in [Threads -> 0..Window]
      BY <1>7, EpochAssumption DEF FileEpoch
    <2>3. Epoch(clock[t], count'[t]) \in Int
      BY <2>1, <2>2, EpochAssumption DEF Epoch
    <2>4. file' \in [Threads -> Seq(Int)]
      BY <1>7, <2>1, <2>3 DEF FileEpoch
    <2>5. pc' \in [Threads -> Places]
      BY <1>7 DEF FileEpoch, GoTo, Places
    <2> QED BY <1>7, <2>2, <2>4, <2>5 DEF FileEpoch, GoTo
  <1>11. ASSUME NEW t \in Threads, ResetSlot(t)
         PROVE  TypeOK'
    <2>1. previous' \in [Locks -> [Slots -> RwTypes \cup {"null"}]]
      BY <1>11 DEF ResetSlot
    <2>2. pc' \in [Threads -> Places]
      BY <1>11 DEF ResetSlot, NextSection, Places
    <2>3. sec' \in [Threads -> Nat \ {0}] /\ acc' \in [Threads -> Nat \ {0}]
      BY <1>11 DEF ResetSlot, NextSection
    <2> QED BY <1>11, <2>1, <2>2, <2>3 DEF ResetSlot, NextSection
  <1>8. ASSUME NEW t \in Threads, GateOutReplay(t)
        PROVE  TypeOK'
    <2>1. LockOf(t) \in Locks
      BY <1>8, SectionType DEF GateOutReplay, AtGateOut, NestingInv
    <2>2. nest_num[t] = 1
      BY <1>8 DEF GateOutReplay, AtGateOut, NestingInv
    <2>3. nest_num' \in [Threads -> Nat] /\ pc' \in [Threads -> Places]
      BY <1>8, <2>2 DEF GateOutReplay, NextSection, Places
    <2>4. sec' \in [Threads -> Nat \ {0}] /\ acc' \in [Threads -> Nat \ {0}]
      BY <1>8 DEF GateOutReplay, NextSection
    <2>5. current_clocks' \in [Locks -> Nat]
      BY <1>8, <2>1 DEF GateOutReplay
    <2> QED BY <1>8, <2>3, <2>4, <2>5 DEF GateOutReplay, NextSection
  <1>9. CASE Rerun
    <2>1. ProgramTypeOK'
      <3>1. pc' \in [Threads -> Places]
        BY <1>9 DEF Rerun, StartReplay, Places
      <3>2. /\ sec' \in [Threads -> Nat \ {0}]
            /\ acc' \in [Threads -> Nat \ {0}]
        BY <1>9 DEF Rerun, StartReplay
      <3>3. /\ mem' \in [Vars -> Values]
            /\ log' \in [Threads -> Seq(Values)]
        BY <1>9 DEF Rerun, StartReplay, Values
      <3> QED BY <1>9, <3>1, <3>2, <3>3 DEF Rerun, StartReplay
    <2>2. count' \in [Threads -> 0..Window]
      BY <1>9, EpochAssumption DEF Rerun
    <2> QED BY <1>9, <2>1, <2>2 DEF Rerun
  <1>10. CASE UNCHANGED vars
    BY <1>10 DEF vars, programVars, gateVars
  <1> QED
    BY <1>1, <1>2, <1>3, <1>4, <1>5, <1>6, <1>7, <1>8, <1>9, <1>10, <1>11
    DEF Next, Step, Ended

\* Nesting counters follow the gates: only a thread's own step moves its place,
\* its section or its counter.
LEMMA NestingStep ==
  ASSUME TypeOK, NestingInv, [Next]_vars
  PROVE  NestingInv'
  <1> SUFFICES ASSUME NEW u \in Threads
               PROVE  /\ nest_num[u]' = IF pc[u]' = "body" THEN 1
                                        ELSE IF InSection(u)' THEN 2 ELSE 0
                      /\ sec[u]' \in 1..(Len(Program[u]) + 1)
                      /\ pc[u]' # "run" => HasSection(u)'
    BY SameProgram, LockKept DEF NestingInv
  <1> USE DEF InSection, HasSection
  <1>0. Len(Program[u]) \in Nat /\ Program' = Program
    BY ProgramTyped, SameProgram, LockKept
  <1> USE <1>0
  <1>1. CASE UNCHANGED <<nest_num, pc, sec>>
    BY <1>1 DEF NestingInv
  <1>2. ASSUME NEW t \in Threads,
               \/ GateInRecord(t) \/ GateInReplay(t) \/ NestedIn(t)
               \/ NestedOut(t) \/ ProgramStep(t) \/ GateOutRecord(t)
               \/ FileEpoch(t) \/ ResetSlot(t) \/ GateOutReplay(t),
               u # t
        PROVE  UNCHANGED <<nest_num[u], pc[u], sec[u]>>
    <2> USE <1>2 DEF TypeOK, ProgramTypeOK, GoTo, NextSection
    <2>1. CASE GateInRecord(t) \/ GateInReplay(t)
      BY <2>1 DEF GateInRecord, GateInReplay
    <2>2. CASE NestedIn(t) \/ NestedOut(t)
      BY <2>2 DEF NestedIn, NestedOut
    <2>3. CASE ProgramStep(t)
      BY <2>3 DEF ProgramStep, Access, gateVars
    <2>4. CASE GateOutRecord(t) \/ GateOutReplay(t)
      BY <2>4 DEF GateOutRecord, GateOutReplay
    <2>5. CASE FileEpoch(t) \/ ResetSlot(t)
      BY <2>5 DEF FileEpoch, ResetSlot
    <2> QED BY <2>1, <2>2, <2>3, <2>4, <2>5
  <1>3. CASE \/ GateInRecord(u) \/ GateInReplay(u)
    <2>1. pc[u] = "run" /\ HasSection(u) /\ nest_num[u] = 0 /\ UNCHANGED sec
      BY <1>3 DEF NestingInv, GateInRecord, GateInReplay, AtGateIn, GoTo
    <2>2. pc'[u] = "body" /\ nest_num'[u] = nest_num[u] + 1
      BY <1>3 DEF TypeOK, ProgramTypeOK, GateInRecord, GateInReplay, GoTo
    <2> QED BY <2>1, <2>2 DEF NestingInv
  <1>4. CASE \/ NestedIn(u) \/ NestedOut(u)
    <2>1. CASE NestedIn(u)
      BY <2>1 DEF TypeOK, ProgramTypeOK, NestingInv, NestedIn, AtNestedIn, GoTo
    <2>2. CASE NestedOut(u)
      BY <2>2 DEF TypeOK, ProgramTypeOK, NestingInv, NestedOut, GoTo
    <2> QED BY <1>4, <2>1, <2>2
  <1>5. CASE ProgramStep(u)
    <2>1. UNCHANGED <<nest_num, sec>> /\ HasSection(u)
      BY <1>5 DEF NestingInv, ProgramStep, Access, gateVars
    <2>2. \/ pc[u] = "body" /\ pc'[u] = "body"
          \/ pc[u] = "nested" /\ pc'[u] = "nestout"
      BY <1>5 DEF TypeOK, ProgramTypeOK, ProgramStep, Access
    <2> QED BY <2>1, <2>2 DEF NestingInv
  <1>6. CASE GateOutRecord(u)
    BY <1>6 DEF TypeOK, ProgramTypeOK, NestingInv, GateOutRecord, AtGateOut, GoTo
  <1>7. CASE FileEpoch(u)
    BY <1>7 DEF TypeOK, ProgramTypeOK, NestingInv, FileEpoch, GoTo
  <1>12. CASE ResetSlot(u)
    <2>1. pc[u] = "resetting" /\ HasSection(u) /\ nest_num[u] = 0
      BY <1>12 DEF NestingInv, ResetSlot
    <2>2. pc'[u] = "run" /\ sec'[u] = sec[u] + 1 /\ UNCHANGED nest_num
      BY <1>12 DEF TypeOK, ProgramTypeOK, ResetSlot, NextSection
    <2> QED BY <1>0, <2>1, <2>2 DEF NestingInv
  <1>8. CASE GateOutReplay(u)
    <2>1. pc[u] = "body" /\ HasSection(u) /\ nest_num[u] = 1
      BY <1>8 DEF NestingInv, GateOutReplay, AtGateOut
    <2>2. pc'[u] = "run" /\ sec'[u] = sec[u] + 1 /\ nest_num'[u] = nest_num[u] - 1
      BY <1>8 DEF TypeOK, ProgramTypeOK, GateOutReplay, NextSection
    <2> QED BY <1>0, <2>1, <2>2 DEF NestingInv
  <1>9. CASE Rerun
    BY <1>0, <1>9 DEF Rerun, StartReplay
  <1>10. CASE UNCHANGED vars
    BY <1>1, <1>10 DEF vars, programVars, gateVars
  <1>11. ASSUME NEW t \in Threads, Step(t)
         PROVE  /\ nest_num[u]' = IF pc[u]' = "body" THEN 1
                                  ELSE IF InSection(u)' THEN 2 ELSE 0
                /\ sec[u]' \in 1..(Len(Program[u]) + 1)
                /\ pc[u]' # "run" => HasSection(u)'
    <2>1. CASE u # t
      BY <1>2, <1>11, <2>1 DEF Step, NestingInv
    <2>2. CASE u = t
      BY <1>3, <1>4, <1>5, <1>6, <1>7, <1>8, <1>11, <1>12, <2>2 DEF Step
    <2> QED BY <2>1, <2>2
  <1> QED BY <1>9, <1>10, <1>11 DEF Next, Ended

-------------------------------------------------------------------------------

\* What GATE_OUT does to the history: one entry at the end of one lock's.
LEMMA RecordedAfter ==
  ASSUME TypeOK, NestingInv, NEW t \in Threads, GateOutRecord(t)
  PROVE  /\ LockOf(t) \in Locks
         /\ Len(recorded'[LockOf(t)]) = Len(recorded[LockOf(t)]) + 1
         /\ recorded'[LockOf(t)][Len(recorded[LockOf(t)]) + 1] = <<t, sec[t]>>
         /\ \A i \in 1..Len(recorded[LockOf(t)]) :
              recorded'[LockOf(t)][i] = recorded[LockOf(t)][i]
         /\ \A l \in Locks : l # LockOf(t) => recorded'[l] = recorded[l]
  <1>1. LockOf(t) \in Locks
    BY SectionType DEF GateOutRecord, AtGateOut, NestingInv
  <1>2. <<t, sec[t]>> \in Threads \X Nat
    BY DEF TypeOK, ProgramTypeOK
  <1>3. recorded[LockOf(t)] \in Seq(Threads \X Nat)
    BY <1>1 DEF TypeOK
  <1>4. recorded'[LockOf(t)] = Append(recorded[LockOf(t)], <<t, sec[t]>>)
    BY <1>1 DEF GateOutRecord, TypeOK
  <1>5. \A l \in Locks : l # LockOf(t) => recorded'[l] = recorded[l]
    BY DEF GateOutRecord, TypeOK
  <1> QED BY <1>1, <1>2, <1>3, <1>4, <1>5

\* An entry was there before, or it is the new one.
LEMMA OldOrNew ==
  ASSUME TypeOK, NestingInv, NEW t \in Threads, GateOutRecord(t),
         NEW l \in Locks, NEW i \in 1..Len(recorded'[l])
  PROVE  \/ i \in 1..Len(recorded[l]) /\ recorded'[l][i] = recorded[l][i]
         \/ /\ l = LockOf(t) /\ i = Len(recorded[l]) + 1
            /\ recorded'[l][i] = <<t, sec[t]>>
  <1>1. Len(recorded[l]) \in Nat
    BY DEF TypeOK
  <1>2. CASE l = LockOf(t)
    BY <1>1, <1>2, RecordedAfter
  <1>3. CASE l # LockOf(t)
    BY <1>3, RecordedAfter
  <1> QED BY <1>2, <1>3

\* No other step changes the history.
LEMMA RecordedKept ==
  ASSUME [Next]_vars
  PROVE  recorded' = recorded \/ \E t \in Threads : GateOutRecord(t)
  <1>1. ASSUME NEW t \in Threads, Step(t)
        PROVE  recorded' = recorded \/ GateOutRecord(t)
    BY <1>1 DEF Step, GateInRecord, GateInReplay, NestedIn, NestedOut, ProgramStep,
       gateVars, FileEpoch, ResetSlot, GateOutReplay
  <1> QED BY <1>1 DEF Next, Ended, Rerun, vars, gateVars

LEMMA EntryType ==
  ASSUME TypeOK, NEW l \in Locks, NEW c \in Clocks(l)
  PROVE  /\ c \in Nat /\ c + 1 \in 1..Len(recorded[l])
         /\ recorded[l][c + 1] \in Threads \X Nat
  <1>1. recorded[l] \in Seq(Threads \X Nat)
    BY DEF TypeOK
  <1>2. c \in Nat /\ c + 1 \in 1..Len(recorded[l])
    BY <1>1 DEF Clocks
  <1> QED BY <1>1, <1>2

\* A clock stays with the section that took it, and so does its kind.
LEMMA HistoryGrows ==
  ASSUME TypeOK, NestingInv, [Next]_vars, NEW l \in Locks
  PROVE  \A c \in Clocks(l) : /\ c \in Clocks(l)'
                              /\ recorded'[l][c + 1] = recorded[l][c + 1]
                              /\ KindOf(l, c)' = KindOf(l, c)
  <1> SUFFICES ASSUME NEW c \in Clocks(l)
               PROVE  /\ c \in Clocks(l)'
                      /\ recorded'[l][c + 1] = recorded[l][c + 1]
                      /\ KindOf(l, c)' = KindOf(l, c)
    OBVIOUS
  <1>1. c \in Nat /\ c + 1 \in 1..Len(recorded[l]) /\ Len(recorded[l]) \in Nat
    BY EntryType DEF TypeOK
  <1>2. c \in Clocks(l)' /\ recorded'[l][c + 1] = recorded[l][c + 1]
    <2>1. CASE recorded' = recorded
      BY <2>1 DEF Clocks
    <2>2. ASSUME NEW t \in Threads, GateOutRecord(t)
          PROVE  c \in Clocks(l)' /\ recorded'[l][c + 1] = recorded[l][c + 1]
      <3>1. CASE l = LockOf(t)
        <4>1. Len(recorded'[l]) = Len(recorded[l]) + 1
          BY <2>2, <3>1, RecordedAfter
        <4>2. recorded'[l][c + 1] = recorded[l][c + 1]
          BY <1>1, <2>2, <3>1, RecordedAfter
        <4> QED BY <1>1, <4>1, <4>2 DEF Clocks
      <3>2. CASE l # LockOf(t)
        <4>1. recorded'[l] = recorded[l]
          BY <2>2, <3>2, RecordedAfter
        <4> QED BY <4>1 DEF Clocks
      <3> QED BY <3>1, <3>2
    <2> QED BY <2>1, <2>2, RecordedKept
  <1>3. KindOf(l, c)' = KindOf(l, c)
    BY <1>2, SameProgram DEF KindOf, KindAt, Program
  <1> QED BY <1>2, <1>3

\* What fits a clock goes on to fit it, and who took a clock has taken it.
LEMMA FitsStays ==
  ASSUME TypeOK, NestingInv, [Next]_vars, NEW l \in Locks, NEW c \in Clocks(l),
         NEW e, EpochFits(l, c, e)
  PROVE  EpochFits(l, c, e)'
  <1>1. \A i \in 0..c : i \in Clocks(l)
    BY DEF Clocks
  <1>2. \A i \in 0..c : KindOf(l, i)' = KindOf(l, i)
    BY <1>1, HistoryGrows
  <1>3. \A i \in 0..c : \A j \in i..c : KindOf(l, j)' = KindOf(l, j)
    BY <1>2, EntryType
  <1>4. c \in 0..c
    BY EntryType
  <1>5. \A i \in 0..c : Alike(l, i, c) => Alike(l, i, c)'
    BY <1>2, <1>3, <1>4 DEF Alike
  <1> QED BY <1>5 DEF EpochFits

LEMMA IssuedStays ==
  ASSUME TypeOK, NestingInv, [Next]_vars, NEW l \in Locks, NEW c, NEW t, NEW s,
         IssuedTo(l, c, t, s)
  PROVE  IssuedTo(l, c, t, s)'
  BY HistoryGrows DEF IssuedTo

\* Every step keeps the history one of sections of the lock, each of them once.
LEMMA HistoryStep ==
  ASSUME TypeOK, Inductive, [Next]_vars
  PROVE  HistoryInv'
  <1> USE DEF Inductive
  <1>1. Program' = Program /\ \A t, s : LockAt(t, s)' = LockAt(t, s)
    BY SameProgram DEF Program, LockAt, GateLock, MultiClock
  <1>2. CASE recorded' = recorded
    BY <1>1, <1>2 DEF HistoryInv
  <1>3. ASSUME NEW t \in Threads, GateOutRecord(t)
        PROVE  HistoryInv'
    <2>1. /\ mode = "record" /\ pc[t] = "body" /\ HasSection(t)
      BY <1>3 DEF GateOutRecord, AtGateOut, NestingInv
    <2>2. sec[t] \in 1..Len(Program[t]) /\ LockAt(t, sec[t]) = LockOf(t)
      BY <2>1, SectionType
    <2>3. ASSUME NEW l \in Locks, NEW i \in 1..Len(recorded'[l])
          PROVE  LET u == recorded'[l][i][1]
                     s == recorded'[l][i][2]
                 IN  s \in 1..Len(Program[u]) /\ LockAt(u, s) = l
      <3>1. CASE i \in 1..Len(recorded[l]) /\ recorded'[l][i] = recorded[l][i]
        BY <3>1 DEF HistoryInv
      <3>2. CASE l = LockOf(t) /\ recorded'[l][i] = <<t, sec[t]>>
        BY <2>2, <3>2
      <3> QED BY <1>3, <3>1, <3>2, OldOrNew
    <2>4. ASSUME NEW l \in Locks, NEW i \in 1..Len(recorded[l])
          PROVE  recorded[l][i] # <<t, sec[t]>>
      <3> SUFFICES ASSUME recorded[l][i] = <<t, sec[t]>> PROVE FALSE
        OBVIOUS
      <3>1. recorded[l][i][1] = t /\ recorded[l][i][2] = sec[t]
        OBVIOUS
      <3>2. \/ recorded[l][i][2] < sec[recorded[l][i][1]]
            \/ pc[recorded[l][i][1]] \in {"filing", "resetting"}
        BY <2>1 DEF RecordInv
      <3>3. sec[t] \in Nat
        BY DEF TypeOK, ProgramTypeOK
      <3> QED BY <2>1, <3>1, <3>2, <3>3
    <2>5. ASSUME NEW l \in Locks, NEW i \in 1..Len(recorded'[l]),
                 NEW j \in 1..Len(recorded'[l]), recorded'[l][i] = recorded'[l][j]
          PROVE  i = j
      <3>1. CASE i \in 1..Len(recorded[l]) /\ j \in 1..Len(recorded[l])
        BY <1>3, <2>5, <3>1, OldOrNew DEF HistoryInv
      <3>2. CASE i \notin 1..Len(recorded[l]) \/ j \notin 1..Len(recorded[l])
        <4>1. \/ i \in 1..Len(recorded[l]) /\ recorded'[l][i] = recorded[l][i]
              \/ i = Len(recorded[l]) + 1 /\ recorded'[l][i] = <<t, sec[t]>>
          BY <1>3, OldOrNew
        <4>2. \/ j \in 1..Len(recorded[l]) /\ recorded'[l][j] = recorded[l][j]
              \/ j = Len(recorded[l]) + 1 /\ recorded'[l][j] = <<t, sec[t]>>
          BY <1>3, OldOrNew
        <4> QED BY <2>4, <2>5, <3>2, <4>1, <4>2
      <3> QED BY <3>1, <3>2
    <2> QED BY <1>1, <2>3, <2>5 DEF HistoryInv
  <1> QED BY <1>2, <1>3, RecordedKept

-------------------------------------------------------------------------------

\* Clocks less than a lap apart have different slots; a lap later it is the same one.
LEMMA SlotsDiffer ==
  ASSUME NEW a \in Nat, NEW b \in Nat, a < b, b < a + SlotCount
  PROVE  SlotOf(a) # SlotOf(b)
  <1> DEFINE n == SlotCount
             q == a \div n
             r == b \div n
  <1>1. n \in Nat \ {0}
    BY EpochAssumption
  <1>2. a = n * q + SlotOf(a) /\ q \in Int /\ SlotOf(a) \in Int
    BY <1>1 DEF SlotOf
  <1>3. b = n * r + SlotOf(b) /\ r \in Int /\ SlotOf(b) \in Int
    BY <1>1 DEF SlotOf
  <1> HIDE DEF q, r
  <1>4. n * r - n * q = n * (r - q) /\ n * q \in Int /\ n * r \in Int
    BY <1>1, <1>2, <1>3
  <1>5. r - q <= 0 => n * (r - q) <= 0
    BY <1>1, <1>2, <1>3
  <1>6. r - q > 0 => n * (r - q) >= n
    BY <1>1, <1>2, <1>3
  <1>7. n * (r - q) \in Int /\ r - q \in Int
    BY <1>1, <1>2, <1>3
  <1> DEFINE d == n * (r - q)
  <1> HIDE DEF d
  <1>8. SUFFICES ASSUME SlotOf(a) = SlotOf(b) PROVE FALSE
    OBVIOUS
  <1>9. b - a = d
    BY <1>2, <1>3, <1>4, <1>8 DEF d
  <1>10. d <= 0 \/ d >= n
    BY <1>2, <1>3, <1>5, <1>6, <1>7 DEF d
  <1> QED BY <1>1, <1>9, <1>10

LEMMA SlotLap ==
  ASSUME NEW a \in Nat
  PROVE  SlotOf(a + SlotCount) = SlotOf(a) /\ SlotOf(a) \in Slots
  <1> DEFINE n == SlotCount
             b == a + n
             q == a \div n
             r == b \div n
             k == r - (q + 1)
             x == SlotOf(a)
             y == SlotOf(b)
  <1>1. n \in Nat \ {0} /\ b \in Nat
    BY EpochAssumption
  <1>2. a = n * q + x /\ q \in Int /\ x \in 0..(n - 1)
    BY <1>1 DEF SlotOf
  <1>3. b = n * r + y /\ r \in Int /\ y \in 0..(n - 1)
    BY <1>1 DEF SlotOf
  <1> HIDE DEF q, r, x, y
  <1>4. /\ n * r - n * q = n * (r - q) /\ n * q \in Int /\ n * r \in Int
        /\ n * (r - q) - n = n * k
    BY <1>1, <1>2, <1>3
  <1>5. /\ k < 0 => n * k <= 0 - n
        /\ k = 0 => n * k = 0
        /\ k > 0 => n * k >= n
    BY <1>1, <1>2, <1>3
  <1>6. n * k \in Int /\ k \in Int /\ n * (r - q) \in Int
    BY <1>1, <1>2, <1>3
  <1>7. x - y = n * k
    BY <1>1, <1>2, <1>3, <1>4, <1>6
  <1> DEFINE m == n * k
  <1>8. m = 0 \/ m <= 0 - n \/ m >= n
    BY <1>5, <1>6
  <1>9. x - y = m /\ m \in Int
    BY <1>6, <1>7
  <1> HIDE DEF m
  <1>10. x = y
    BY <1>1, <1>2, <1>3, <1>8, <1>9
  <1> QED BY <1>2, <1>10 DEF x, y, Slots

\* What GATE_OUT does with the clock c of its lock l, in a section of kind rw.
Takes(t, l, c, rw) ==
  /\ l \in Locks /\ c \in Nat /\ rw \in RwTypes
  /\ Len(recorded[l]) = c /\ Len(recorded'[l]) = c + 1
  /\ IssuedTo(l, c, t, sec[t])' /\ KindOf(l, c)' = rw
  /\ previous'[l] = [previous[l] EXCEPT ![SlotOf(c)] = rw]
  /\ \A k \in Locks : k # l => previous'[k] = previous[k]
  /\ clock'[t] = c
  /\ count'[t] = ConsecutiveCount(previous'[l], c, rw)

LEMMA TakesClock ==
  ASSUME TypeOK, Inductive, NEW t \in Threads, GateOutRecord(t),
         NEW l, l = LockOf(t), NEW c, c = current_clocks[l], NEW rw, rw = Section(t).rw
  PROVE  Takes(t, l, c, rw)
  <1> USE DEF Inductive
  <1>1. mode = "record" /\ HasSection(t) /\ sec'[t] = sec[t]
    BY DEF GateOutRecord, AtGateOut, NestingInv, GoTo
  <1>2. l \in Locks /\ rw \in RwTypes /\ rw = KindAt(t, sec[t])
    BY <1>1, SectionType DEF Sections
  <1>3. Len(recorded[l]) = c /\ c \in Nat
    BY <1>1, <1>2 DEF RecordInv, TypeOK
  <1>4. Len(recorded'[l]) = c + 1 /\ recorded'[l][c + 1] = <<t, sec[t]>>
    BY <1>3, RecordedAfter
  <1>5. IssuedTo(l, c, t, sec[t])'
    BY <1>1, <1>3, <1>4 DEF IssuedTo, Clocks
  <1>6. KindAt(t, sec[t])' = KindAt(t, sec[t])
    BY <1>1 DEF KindAt, Program, GateOutRecord, GoTo
  <1>7. KindOf(l, c)' = rw
    BY <1>1, <1>2, <1>4, <1>6 DEF KindOf
  <1> DEFINE table == [previous[l] EXCEPT ![SlotOf(c)] = rw]
  <1>8. /\ previous' = [previous EXCEPT ![l] = table]
        /\ count' = [count EXCEPT ![t] = ConsecutiveCount(table, c, rw)]
        /\ clock' = [clock EXCEPT ![t] = c]
    BY DEF GateOutRecord
  <1>9. previous'[l] = table /\ \A k \in Locks : k # l => previous'[k] = previous[k]
    BY <1>2, <1>8 DEF TypeOK
  <1>10. clock'[t] = c /\ count'[t] = ConsecutiveCount(table, c, rw)
    BY <1>8 DEF TypeOK
  <1> QED BY <1>2, <1>3, <1>4, <1>5, <1>7, <1>9, <1>10 DEF Takes

\* A slot shows the kind of the clock or nothing.
SlotTells(l, c) == previous[l][SlotOf(c)] \in {KindOf(l, c), "null"}

LEMMA SlotParts ==
  SlotInv <=> (mode = "record" => \A l \in Locks : \A c \in Clocks(l) :
                 Len(recorded[l]) <= c + SlotCount => SlotTells(l, c))
  BY DEF SlotInv, SlotTells

\* Every step keeps the slots within reach true: a thread sets the slot of its own
\* clock, which was a lap behind, or clears one.
LEMMA SlotStep ==
  ASSUME TypeOK, Inductive, [Next]_vars
  PROVE  SlotInv'
  <1> USE DEF Inductive
  <1>1. ASSUME mode = "record", recorded' = recorded,
               NEW l \in Locks, NEW c \in Clocks(l),
               \/ previous'[l][SlotOf(c)] = previous[l][SlotOf(c)]
               \/ previous'[l][SlotOf(c)] = "null",
               Len(recorded[l]) <= c + SlotCount
        PROVE  SlotTells(l, c)'
    <2>1. SlotTells(l, c)
      BY <1>1, SlotParts
    <2>2. KindOf(l, c)' = KindOf(l, c)
      BY <1>1, HistoryGrows
    <2> QED BY <1>1, <2>1, <2>2 DEF SlotTells
  <1>2. CASE UNCHANGED <<mode, recorded, previous>>
    <2>1. ASSUME NEW l \in Locks, NEW c \in Clocks(l), mode = "record",
                 Len(recorded[l]) <= c + SlotCount
          PROVE  SlotTells(l, c)'
      BY <1>1, <1>2, <2>1
    <2> QED BY <1>2, <2>1 DEF SlotInv, SlotTells, Clocks
  <1>3. ASSUME NEW t \in Threads, ResetSlot(t)
        PROVE  SlotInv'
    <2>1. UNCHANGED <<mode, recorded>>
      BY <1>3 DEF ResetSlot, NextSection
    <2>2. ASSUME NEW l \in Locks, NEW x \in Slots
          PROVE  previous'[l][x] = previous[l][x] \/ previous'[l][x] = "null"
      BY <1>3 DEF TypeOK, ResetSlot
    <2>3. ASSUME NEW l \in Locks, NEW c \in Clocks(l), mode = "record",
                 Len(recorded[l]) <= c + SlotCount
          PROVE  SlotTells(l, c)'
      <3>1. SlotOf(c) \in Slots
        BY SlotLap, EntryType
      <3> QED BY <1>1, <2>1, <2>2, <2>3, <3>1
    <2> QED BY <2>1, <2>3 DEF SlotInv, SlotTells, Clocks
  <1>4. ASSUME NEW t \in Threads, GateOutRecord(t)
        PROVE  SlotInv'
    <2>1. mode = "record"
      BY <1>4 DEF GateOutRecord
    <2>5. PICK k, d, rw : k = LockOf(t) /\ d = current_clocks[k] /\ rw = Section(t).rw
      OBVIOUS
    <2>2. /\ k \in Locks /\ d \in Nat /\ rw \in RwTypes
          /\ Len(recorded[k]) = d /\ Len(recorded'[k]) = d + 1
          /\ KindOf(k, d)' = rw
          /\ previous'[k] = [previous[k] EXCEPT ![SlotOf(d)] = rw]
          /\ \A l \in Locks : l # k => previous'[l] = previous[l]
      <3>1. Takes(t, k, d, rw)
        BY <1>4, <2>5, TakesClock
      <3> QED BY <3>1 DEF Takes
    <2>3. previous[k] \in [Slots -> RwTypes \cup {"null"}]
      BY <2>2 DEF TypeOK
    <2>4. ASSUME NEW l \in Locks, NEW c \in Clocks(l)', Len(recorded'[l]) <= c + SlotCount
          PROVE  SlotTells(l, c)'
      <3>1. CASE l = k /\ c = d
        <4>1. previous'[k][SlotOf(d)] = rw
          BY <2>2, <2>3, SlotLap
        <4> QED BY <2>2, <3>1, <4>1 DEF SlotTells
      <3>2. CASE l = k /\ c # d
        <4>1. c \in Clocks(k) /\ c \in Nat /\ c < d
          BY <2>2, <3>2 DEF Clocks
        <4>2. d < c + SlotCount /\ Len(recorded[k]) <= c + SlotCount
          BY <2>2, <2>4, <3>2, <4>1, EpochAssumption
        <4>3. SlotOf(c) # SlotOf(d)
          BY <2>2, <4>1, <4>2, SlotsDiffer
        <4>4. previous'[k][SlotOf(c)] = previous[k][SlotOf(c)]
          BY <2>2, <2>3, <4>1, <4>3, SlotLap
        <4>5. SlotTells(k, c)
          BY <2>1, <2>2, <4>1, <4>2, SlotParts
        <4>6. KindOf(k, c)' = KindOf(k, c)
          BY <2>2, <4>1, HistoryGrows
        <4> QED BY <3>2, <4>4, <4>5, <4>6 DEF SlotTells
      <3>3. CASE l # k
        <4>1. recorded'[l] = recorded[l] /\ previous'[l] = previous[l]
          BY <1>4, <2>5, <3>3, <2>2, RecordedAfter
        <4>2. c \in Clocks(l) /\ Len(recorded[l]) <= c + SlotCount
          BY <2>4, <4>1 DEF Clocks
        <4>3. SlotTells(l, c)
          BY <2>1, <4>2, SlotParts
        <4>4. KindOf(l, c)' = KindOf(l, c)
          BY <4>2, HistoryGrows
        <4> QED BY <4>1, <4>3, <4>4 DEF SlotTells
      <3> QED BY <3>1, <3>2, <3>3
    <2> QED BY <2>4 DEF SlotInv, SlotTells
  <1>5. CASE Rerun
    BY <1>5 DEF Rerun, StartReplay, SlotInv
  <1>6. ASSUME NEW t \in Threads, Step(t), ~ResetSlot(t), ~GateOutRecord(t)
        PROVE  UNCHANGED <<mode, recorded, previous>>
    BY <1>6 DEF Step, GateInRecord, GateInReplay, NestedIn, NestedOut, ProgramStep,
       Access, gateVars, FileEpoch, GateOutReplay, GoTo, NextSection
  <1>7. CASE UNCHANGED vars
    BY <1>2, <1>7 DEF vars, programVars, gateVars
  <1> QED BY <1>2, <1>3, <1>4, <1>5, <1>6, <1>7 DEF Next, Ended

\* The count of GATE_OUT is a run of one kind, so that the epoch fits its clock.
LEMMA RunFits ==
  ASSUME TypeOK, Inductive, [Next]_vars, NEW t \in Threads, GateOutRecord(t)
  PROVE  /\ IssuedTo(LockOf(t), clock[t], t, sec[t])'
         /\ EpochFits(LockOf(t), clock[t], clock[t] - count[t])'
  <1> USE DEF Inductive
  <1>0. PICK l, c, rw : l = LockOf(t) /\ c = current_clocks[l] /\ rw = Section(t).rw
    OBVIOUS
  <1>9. PICK n : n = count'[t]
    OBVIOUS
  <1>1. /\ l \in Locks /\ c \in Nat /\ rw \in RwTypes
        /\ Len(recorded'[l]) = c + 1
        /\ KindOf(l, c)' = rw /\ clock'[t] = c
        /\ IssuedTo(l, c, t, sec[t])'
        /\ n = ConsecutiveCount(previous'[l], c, rw)
    <2>1. Takes(t, l, c, rw)
      BY <1>0, TakesClock
    <2> QED BY <1>9, <2>1 DEF Takes
  <1>2. /\ n \in 0..Window
        /\ n > 0 => IsLoadOrStore(rw)
        /\ \A i \in 1..n : previous'[l][SlotOf(c + SlotCount - i)] = rw
    BY <1>1, CountFound
  <1>3. mode' = "record" /\ LockOf(t)' = l
    <2>1. mode' = "record" /\ program' = program /\ sec' = sec
      BY DEF GateOutRecord, GoTo
    <2> QED BY <1>0, <2>1 DEF LockOf, Section, Program, MultiClock, GateLock
  <1>4. rw # "null"
    BY <1>1 DEF RwTypes
  <1>5. ASSUME NEW j \in 0..(c - 1), c - n <= j
        PROVE  KindOf(l, j)' = rw
    <2>1. c - j \in 1..n /\ c + SlotCount - (c - j) = j + SlotCount /\ j \in Nat
      BY <1>1, <1>2, <1>5, EpochAssumption
    <2>2. previous'[l][SlotOf(j + SlotCount)] = rw
      BY <1>2, <2>1
    <2>3. previous'[l][SlotOf(j)] = rw
      BY <2>1, <2>2, SlotLap
    <2>4. j \in Clocks(l)' /\ Len(recorded'[l]) <= j + SlotCount
      BY <1>1, <1>2, <1>5, EpochAssumption DEF Clocks
    <2>5. SlotTells(l, j)'
      BY <1>1, <1>3, <2>4, SlotStep DEF SlotInv, SlotTells
    <2> QED BY <1>4, <2>3, <2>5 DEF SlotTells
  <1>6. ASSUME NEW i \in 0..c, c - n <= i, n > 0
        PROVE  Alike(l, i, c)'
    <2>1. ASSUME NEW j \in i..c
          PROVE  KindOf(l, j)' = rw
      <3>1. CASE j = c
        BY <1>1, <3>1
      <3>2. CASE j # c
        <4>1. j \in 0..(c - 1) /\ c - n <= j
          BY <1>1, <1>2, <1>6, <3>2, EpochAssumption
        <4> QED BY <1>5, <4>1
      <3> QED BY <3>1, <3>2
    <2> QED BY <1>1, <1>2, <1>6, <2>1 DEF Alike
  <1>7. c - n <= c /\ (c - n < c => n > 0)
    BY <1>1, <1>2, EpochAssumption
  <1>8. EpochFits(l, c, c - n)'
    BY <1>6, <1>7 DEF EpochFits
  <1> QED BY <1>0, <1>1, <1>3, <1>8, <1>9

-------------------------------------------------------------------------------

\* The e filed for the s-th section of t fits the clock that the section took.
Fits(t, s, e) ==
  \E c \in Clocks(LockAt(t, s)) :
    IssuedTo(LockAt(t, s), c, t, s) /\ EpochFits(LockAt(t, s), c, e)

Pending(t) == /\ IssuedTo(LockOf(t), clock[t], t, sec[t])
              /\ EpochFits(LockOf(t), clock[t], clock[t] - count[t])

LEMMA FitsKept ==
  ASSUME TypeOK, NestingInv, [Next]_vars, NEW t \in Threads,
         NEW s \in 1..Len(Program[t]), NEW e, Fits(t, s, e)
  PROVE  Fits(t, s, e)'
  <1>1. PICK l : l = LockAt(t, s)
    OBVIOUS
  <1>2. l \in Locks /\ LockAt(t, s)' = l
    BY <1>1, LockAtType, SameProgram, LockKept
  <1>3. PICK c \in Clocks(l) : IssuedTo(l, c, t, s) /\ EpochFits(l, c, e)
    BY <1>1 DEF Fits
  <1>4. IssuedTo(l, c, t, s)' /\ EpochFits(l, c, e)'
    BY <1>2, <1>3, FitsStays, IssuedStays
  <1>5. c \in Clocks(l)'
    BY <1>4 DEF IssuedTo
  <1> QED BY <1>2, <1>4, <1>5 DEF Fits

LEMMA PendingKept ==
  ASSUME TypeOK, NestingInv, [Next]_vars, NEW t \in Threads, HasSection(t),
         Pending(t), UNCHANGED <<clock[t], count[t], sec[t]>>
  PROVE  Pending(t)'
  <1>1. PICK l, c, s, n : l = LockOf(t) /\ c = clock[t] /\ s = sec[t] /\ n = count[t]
    OBVIOUS
  <1>2. l \in Locks /\ LockOf(t)' = l
    BY <1>1, SectionType, SameProgram, LockKept
  <1>3. IssuedTo(l, c, t, s) /\ EpochFits(l, c, c - n)
    BY <1>1 DEF Pending
  <1>4. c \in Clocks(l)
    BY <1>3 DEF IssuedTo
  <1>5. IssuedTo(l, c, t, s)' /\ EpochFits(l, c, c - n)'
    BY <1>2, <1>3, <1>4, FitsStays, IssuedStays
  <1>6. clock'[t] = c /\ sec'[t] = s /\ count'[t] = n
    BY <1>1
  <1> QED BY <1>2, <1>5, <1>6 DEF Pending

\* What is filed fits: it is c less the count, or c.
LEMMA FiledFits ==
  ASSUME TypeOK, NestingInv, NEW t \in Threads, FileEpoch(t), Pending(t)
  PROVE  Fits(t, sec[t], Epoch(clock[t], count'[t]))
  <1>1. PICK l, c, s, n : l = LockOf(t) /\ c = clock[t] /\ s = sec[t] /\ n = count'[t]
    OBVIOUS
  <1>2. l = LockAt(t, s)
    BY <1>1, SectionType DEF FileEpoch, NestingInv
  <1>3. IssuedTo(l, c, t, s) /\ c \in Clocks(l) /\ EpochFits(l, c, c - count[t])
    BY <1>1 DEF Pending, IssuedTo
  <1>4. n = 0 \/ n = count[t]
    BY <1>1 DEF TypeOK, FileEpoch
  <1>5. c \in Nat
    BY <1>1 DEF TypeOK
  <1>6. EpochFits(l, c, c - n)
    <2>1. CASE n = 0
      BY <1>5, <2>1 DEF EpochFits
    <2>2. CASE n = count[t]
      BY <1>3, <2>2
    <2> QED BY <1>4, <2>1, <2>2
  <1> QED BY <1>1, <1>2, <1>3, <1>6 DEF Fits, Epoch

\* Every step keeps what the files hold true.
LEMMA EpochStep ==
  ASSUME TypeOK, Inductive, [Next]_vars
  PROVE  EpochInv'
  <1> USE DEF Inductive
  <1>1. Program' = Program
    BY SameProgram DEF Program
  <1>2. ASSUME NEW u \in Threads, NEW s \in 1..Len(file[u]), file'[u][s] = file[u][s]
        PROVE  s <= Len(Program[u]) /\ Fits(u, s, file[u][s])'
    <2>1. PICK e : e = file[u][s]
      OBVIOUS
    <2>2. s \in 1..Len(Program[u])
      BY ProgramTyped DEF EpochInv
    <2>3. Fits(u, s, e)
      BY <2>1 DEF EpochInv, Fits
    <2>4. Fits(u, s, e)'
      BY <2>2, <2>3, FitsKept
    <2>5. file'[u][s] = e
      BY <1>2, <2>1
    <2> QED BY <2>2, <2>4, <2>5
  <1>3. ASSUME NEW u \in Threads, pc[u] = "filing"
        PROVE  Pending(u) /\ HasSection(u)
    BY <1>3 DEF EpochInv, Pending, NestingInv
  <1>4. ASSUME \A u \in Threads : \A s \in 1..Len(file'[u]) :
                 s <= Len(Program[u]) /\ Fits(u, s, file[u][s])',
               \A u \in Threads : pc'[u] = "filing" => Pending(u)'
        PROVE  EpochInv'
    BY <1>1, <1>4 DEF EpochInv, Fits, Pending
  <1>5. ASSUME UNCHANGED file,
               \A u \in Threads : pc'[u] = "filing" =>
                 pc[u] = "filing" /\ UNCHANGED <<clock[u], count[u], sec[u]>>
        PROVE  EpochInv'
    <2>1. ASSUME NEW u \in Threads, NEW s \in 1..Len(file'[u])
          PROVE  s <= Len(Program[u]) /\ Fits(u, s, file[u][s])'
      BY <1>2, <1>5
    <2>2. ASSUME NEW u \in Threads, pc'[u] = "filing"
          PROVE  Pending(u)'
      <3>1. pc[u] = "filing" /\ UNCHANGED <<clock[u], count[u], sec[u]>>
        BY <1>5, <2>2
      <3> QED BY <1>3, <3>1, PendingKept
    <2> QED BY <1>4, <2>1, <2>2
  <1>6. ASSUME NEW t \in Threads, GateOutRecord(t)
        PROVE  EpochInv'
    <2>1. /\ UNCHANGED <<file, sec>>
          /\ \A u \in Threads : u # t => UNCHANGED <<pc[u], clock[u], count[u]>>
      BY <1>6 DEF TypeOK, ProgramTypeOK, GateOutRecord, GoTo
    <2>2. ASSUME NEW u \in Threads, NEW s \in 1..Len(file'[u])
          PROVE  s <= Len(Program[u]) /\ Fits(u, s, file[u][s])'
      BY <1>2, <2>1
    <2>3. ASSUME NEW u \in Threads, pc'[u] = "filing"
          PROVE  Pending(u)'
      <3>1. CASE u = t
        BY <1>6, <3>1, RunFits DEF Pending
      <3>2. CASE u # t
        <4>1. pc[u] = "filing" /\ UNCHANGED <<clock[u], count[u], sec[u]>>
          BY <2>1, <2>3, <3>2
        <4> QED BY <1>3, <4>1, PendingKept
      <3> QED BY <3>1, <3>2
    <2> QED BY <1>4, <2>2, <2>3
  <1>7. ASSUME NEW t \in Threads, FileEpoch(t)
        PROVE  EpochInv'
    <2>1. PICK e, k : e = Epoch(clock[t], count'[t]) /\ k = sec[t]
      OBVIOUS
    <2>2. /\ pc[t] = "filing" /\ pc'[t] = "resetting" /\ file'[t] = Append(file[t], e)
          /\ UNCHANGED <<clock, sec>>
          /\ \A u \in Threads : u # t => UNCHANGED <<pc[u], count[u], file[u]>>
      BY <1>7, <2>1 DEF TypeOK, ProgramTypeOK, FileEpoch, GoTo
    <2>3. Pending(t) /\ HasSection(t)
      BY <1>3, <2>2
    <2>4. mode = "record"
      BY <2>2 DEF ReplayInv, TypeOK, ProgramTypeOK
    <2>5. Len(file[t]) = k - 1 /\ k \in 1..Len(Program[t]) /\ file[t] \in Seq(Int)
      BY <2>1, <2>2, <2>3, <2>4, SectionType DEF RecordInv, TypeOK
    <2>6. Fits(t, k, e)'
      BY <1>7, <2>1, <2>3, <2>5, FiledFits, FitsKept
    <2>7. /\ Len(file'[t]) = k /\ file'[t][k] = e
          /\ \A s \in 1..(k - 1) : s \in 1..Len(file[t]) /\ file'[t][s] = file[t][s]
      BY <2>2, <2>5
    <2>8. ASSUME NEW u \in Threads, NEW s \in 1..Len(file'[u])
          PROVE  s <= Len(Program[u]) /\ Fits(u, s, file[u][s])'
      <3>1. CASE u = t /\ s = k
        BY <2>5, <2>6, <2>7, <3>1
      <3>2. CASE u = t /\ s # k
        <4>1. s \in 1..(k - 1)
          BY <2>5, <2>7, <3>2
        <4> QED BY <1>2, <2>7, <3>2, <4>1
      <3>3. CASE u # t
        BY <1>2, <2>2, <3>3
      <3> QED BY <3>1, <3>2, <3>3
    <2>9. ASSUME NEW u \in Threads, pc'[u] = "filing"
          PROVE  Pending(u)'
      <3>1. u # t
        BY <2>2, <2>9
      <3>2. pc[u] = "filing" /\ UNCHANGED <<clock[u], count[u], sec[u]>>
        BY <2>2, <2>9, <3>1
      <3> QED BY <1>3, <3>2, PendingKept
    <2> QED BY <1>4, <2>8, <2>9
  <1>8. ASSUME NEW t \in Threads, Step(t), ~GateOutRecord(t), ~FileEpoch(t)
        PROVE  EpochInv'
    <2> SUFFICES /\ UNCHANGED file
                 /\ \A u \in Threads : pc'[u] = "filing" =>
                      pc[u] = "filing" /\ UNCHANGED <<clock[u], count[u], sec[u]>>
      BY <1>5
    <2> USE DEF TypeOK, ProgramTypeOK, GoTo, NextSection
    <2>1. CASE GateInRecord(t) \/ GateInReplay(t)
      BY <2>1 DEF GateInRecord, GateInReplay
    <2>2. CASE NestedIn(t) \/ NestedOut(t)
      BY <2>2 DEF NestedIn, NestedOut
    <2>3. CASE ProgramStep(t)
      BY <2>3 DEF ProgramStep, Access, gateVars
    <2>4. CASE ResetSlot(t)
      BY <2>4 DEF ResetSlot
    <2>5. CASE GateOutReplay(t)
      BY <2>5 DEF GateOutReplay
    <2> QED BY <1>8, <2>1, <2>2, <2>3, <2>4, <2>5 DEF Step
  <1>9. CASE Rerun
    BY <1>5, <1>9 DEF Rerun, StartReplay
  <1>10. CASE UNCHANGED vars
    BY <1>5, <1>10 DEF vars, programVars, gateVars
  <1> QED BY <1>6, <1>7, <1>8, <1>9, <1>10 DEF Next, Ended

-------------------------------------------------------------------------------

\* A section that has taken its clock: its thread is past GATE_OUT's unlock.
TookAt(e) == \/ e[2] < sec[e[1]]
             \/ e[2] = sec[e[1]] /\ pc[e[1]] \in {"filing", "resetting"}

LEMMA EntryTook ==
  ASSUME TypeOK, RecordInv, mode = "record",
         NEW l \in Locks, NEW i \in 1..Len(recorded[l])
  PROVE  recorded[l][i] \in Threads \X Nat /\ TookAt(recorded[l][i])
  <1>1. recorded[l][i] \in Threads \X Nat
    BY DEF TypeOK
  <1>2. TookAt(recorded[l][i])
    BY DEF RecordInv, TookAt
  <1> QED BY <1>1, <1>2

LEMMA TookStays ==
  ASSUME TypeOK, NEW e \in Threads \X Nat, TookAt(e),
         \/ /\ sec'[e[1]] = sec[e[1]]
            /\ pc[e[1]] \in {"filing", "resetting"} => pc'[e[1]] \in {"filing", "resetting"}
         \/ sec'[e[1]] = sec[e[1]] + 1
  PROVE  TookAt(e)'
  <1>1. e[1] \in Threads /\ e[2] \in Nat
    OBVIOUS
  <1>2. sec[e[1]] \in Nat
    BY <1>1 DEF TypeOK, ProgramTypeOK
  <1> QED BY <1>1, <1>2 DEF TookAt

\* The parts of RecordInv.
HoldsLock(u)  == InSection(u) => omp_locks[LockOf(u)] = u
FilesUp(u) == Len(file[u]) = IF pc[u] = "resetting" THEN sec[u] ELSE sec[u] - 1

LEMMA RecordParts ==
  ASSUME \A u \in Threads : HoldsLock(u)' /\ FilesUp(u)',
         \A l \in Locks : Len(recorded'[l]) = current_clocks'[l],
         \A l \in Locks : \A i \in 1..Len(recorded'[l]) : TookAt(recorded[l][i])'
  PROVE  RecordInv'
  BY DEF RecordInv, HoldsLock, FilesUp, TookAt

\* The steps that take no lock and no clock and leave the files alone.
LEMMA RecordKept ==
  ASSUME TypeOK, Inductive, mode = "record",
         UNCHANGED <<program, omp_locks, current_clocks, file, sec, recorded>>,
         \A u \in Threads : InSection(u)' => InSection(u),
         \A u \in Threads : pc[u] = "filing" => pc'[u] = "filing",
         \A u \in Threads : pc[u] = "resetting" <=> pc'[u] = "resetting"
  PROVE  RecordInv'
  <1> USE DEF Inductive
  <1>1. \A u \in Threads : LockOf(u)' = LockOf(u)
    BY LockKept
  <1>2. ASSUME NEW l \in Locks, NEW i \in 1..Len(recorded[l])
        PROVE  TookAt(recorded[l][i])'
    <2>1. PICK e : e = recorded[l][i]
      OBVIOUS
    <2>2. e \in Threads \X Nat /\ TookAt(e)
      BY <2>1, EntryTook
    <2>3. TookAt(e)'
      BY <2>2, TookStays
    <2> QED BY <2>1, <2>3
  <1>3. ASSUME NEW u \in Threads
        PROVE  HoldsLock(u)' /\ FilesUp(u)'
    BY <1>1 DEF RecordInv, HoldsLock, FilesUp
  <1>4. ASSUME NEW l \in Locks
        PROVE  Len(recorded'[l]) = current_clocks'[l]
    BY DEF RecordInv
  <1> QED BY <1>2, <1>3, <1>4, RecordParts

\* Every step of the recorded run keeps the invariant of the lock holders.
LEMMA RecordStep ==
  ASSUME TypeOK, Inductive, [Next]_vars, mode' = "record"
  PROVE  RecordInv'
  <1> USE DEF Inductive
  <1>1. CASE UNCHANGED vars
    <2>1. mode = "record"
      BY <1>1 DEF vars, programVars
    <2> QED BY <1>1, <2>1, RecordKept DEF vars, programVars, gateVars, InSection
  <1>2. ASSUME NEW t \in Threads, GateInRecord(t)
        PROVE  RecordInv'
    <2>1. /\ pc[t] = "run" /\ pc'[t] = "body" /\ LockOf(t) \in Locks
          /\ omp_locks[LockOf(t)] = NoThread /\ omp_locks'[LockOf(t)] = t
          /\ \A l \in Locks : l # LockOf(t) => omp_locks'[l] = omp_locks[l]
      BY <1>2, SectionType DEF TypeOK, ProgramTypeOK, GateInRecord, AtGateIn, GoTo
    <2>2. /\ UNCHANGED <<mode, sec, current_clocks, file, recorded>>
          /\ mode = "record"
          /\ \A u \in Threads : u # t => pc'[u] = pc[u]
      BY <1>2 DEF TypeOK, ProgramTypeOK, GateInRecord, GoTo
    <2>3. \A u \in Threads : LockOf(u)' = LockOf(u)
      BY <2>2, SameProgram, LockKept
    <2>4. ASSUME NEW u \in Threads, InSection(u)'
          PROVE  omp_locks'[LockOf(u)] = u
      <3>1. CASE u = t
        BY <2>1, <3>1
      <3>2. CASE u # t
        <4>1. InSection(u) /\ HasSection(u)
          BY <2>2, <2>4, <3>2 DEF InSection, NestingInv
        <4>2. LockOf(u) \in Locks /\ omp_locks[LockOf(u)] = u
          BY <2>2, <4>1, SectionType DEF RecordInv
        <4> QED BY <2>1, <4>2, EpochAssumption
      <3> QED BY <3>1, <3>2
    <2>5. ASSUME NEW l \in Locks, NEW i \in 1..Len(recorded'[l])
          PROVE  TookAt(recorded[l][i])'
      <3>1. PICK e : e = recorded[l][i]
        OBVIOUS
      <3>2. e \in Threads \X Nat /\ TookAt(e)
        BY <2>2, <3>1, EntryTook
      <3>3. /\ sec'[e[1]] = sec[e[1]]
            /\ pc[e[1]] \in {"filing", "resetting"} => pc'[e[1]] \in {"filing", "resetting"}
        BY <2>1, <2>2, <3>2
      <3>4. TookAt(e)'
        BY <3>2, <3>3, TookStays
      <3> QED BY <2>2, <3>1, <3>4
    <2>6. ASSUME NEW u \in Threads
          PROVE  HoldsLock(u)' /\ FilesUp(u)'
      <3>1. HoldsLock(u)'
        BY <2>3, <2>4 DEF HoldsLock
      <3>2. FilesUp(u)
        BY <2>2 DEF RecordInv, FilesUp
      <3>3. pc'[u] = "resetting" <=> pc[u] = "resetting"
        BY <2>1, <2>2
      <3> QED BY <2>2, <3>1, <3>2, <3>3 DEF FilesUp
    <2>7. \A l \in Locks : Len(recorded'[l]) = current_clocks'[l]
      BY <2>2 DEF RecordInv
    <2> QED BY <2>5, <2>6, <2>7, RecordParts
  <1>3. ASSUME NEW t \in Threads, NestedIn(t) \/ NestedOut(t) \/ ProgramStep(t)
        PROVE  RecordInv'
    <2>1. /\ UNCHANGED <<mode, omp_locks, current_clocks, file, sec, recorded>>
          /\ pc[t] \in {"body", "nested", "nestout"}
          /\ pc'[t] \in {"body", "nested", "nestout"}
          /\ \A u \in Threads : u # t => pc'[u] = pc[u]
      BY <1>3 DEF TypeOK, ProgramTypeOK, NestedIn, AtNestedIn, NestedOut, ProgramStep,
         Access, InSection, gateVars, GoTo
    <2> QED BY <2>1, SameProgram, RecordKept DEF InSection
  <1>4. ASSUME NEW t \in Threads, GateOutRecord(t)
        PROVE  RecordInv'
    <2>1. /\ UNCHANGED <<mode, sec, file>>
          /\ mode = "record" /\ pc[t] = "body" /\ pc'[t] = "filing"
          /\ \A u \in Threads : u # t => pc'[u] = pc[u]
          /\ \A l \in Locks : l # LockOf(t) =>
               omp_locks'[l] = omp_locks[l] /\ current_clocks'[l] = current_clocks[l]
      BY <1>4 DEF TypeOK, ProgramTypeOK, GateOutRecord, AtGateOut, GoTo
    <2>2. /\ LockOf(t) \in Locks
          /\ current_clocks'[LockOf(t)] = current_clocks[LockOf(t)] + 1
      BY <1>4, RecordedAfter DEF TypeOK, GateOutRecord
    <2>3. \A u \in Threads : LockOf(u)' = LockOf(u)
      BY <2>1, SameProgram, LockKept
    <2>4. ASSUME NEW u \in Threads, InSection(u)'
          PROVE  omp_locks'[LockOf(u)] = u
      <3>1. u # t /\ InSection(u) /\ HasSection(u)
        BY <2>1, <2>4 DEF InSection, NestingInv
      <3>2. /\ LockOf(u) \in Locks /\ omp_locks[LockOf(u)] = u
            /\ omp_locks[LockOf(t)] = t
        BY <2>1, <3>1, SectionType DEF RecordInv, InSection
      <3> QED BY <2>1, <3>1, <3>2
    <2>5. ASSUME NEW l \in Locks
          PROVE  Len(recorded'[l]) = current_clocks'[l]
      BY <1>4, <2>1, <2>2, RecordedAfter DEF RecordInv
    <2>6. ASSUME NEW l \in Locks, NEW i \in 1..Len(recorded'[l])
          PROVE  TookAt(recorded[l][i])'
      <3>1. CASE i \in 1..Len(recorded[l]) /\ recorded'[l][i] = recorded[l][i]
        <4>1. PICK e : e = recorded[l][i]
          OBVIOUS
        <4>2. e \in Threads \X Nat /\ TookAt(e)
          BY <2>1, <3>1, <4>1, EntryTook
        <4>3. /\ sec'[e[1]] = sec[e[1]]
              /\ pc[e[1]] \in {"filing", "resetting"} =>
                   pc'[e[1]] \in {"filing", "resetting"}
          BY <2>1, <4>2
        <4>4. TookAt(e)'
          BY <4>2, <4>3, TookStays
        <4> QED BY <3>1, <4>1, <4>4
      <3>2. CASE recorded'[l][i] = <<t, sec[t]>>
        BY <2>1, <3>2 DEF TookAt
      <3> QED BY <1>4, <3>1, <3>2, OldOrNew
    <2>7. ASSUME NEW u \in Threads
          PROVE  HoldsLock(u)' /\ FilesUp(u)'
      <3>1. HoldsLock(u)'
        BY <2>3, <2>4 DEF HoldsLock
      <3>2. FilesUp(u)
        BY <2>1 DEF RecordInv, FilesUp
      <3>3. pc'[u] = "resetting" <=> pc[u] = "resetting"
        BY <2>1
      <3> QED BY <2>1, <3>1, <3>2, <3>3 DEF FilesUp
    <2> QED BY <2>5, <2>6, <2>7, RecordParts
  <1>5. ASSUME NEW t \in Threads, FileEpoch(t)
        PROVE  RecordInv'
    <2>1. PICK e : e = Epoch(clock[t], count'[t])
      OBVIOUS
    <2>2. /\ UNCHANGED <<mode, omp_locks, current_clocks, recorded, sec>>
          /\ mode = "record" /\ pc[t] = "filing" /\ pc'[t] = "resetting"
          /\ file'[t] = Append(file[t], e)
          /\ \A u \in Threads : u # t => pc'[u] = pc[u] /\ file'[u] = file[u]
      BY <1>5, <2>1, mode' = "record" DEF TypeOK, ProgramTypeOK, FileEpoch, GoTo
    <2>3. ASSUME NEW u \in Threads
          PROVE  HoldsLock(u)'
      <3>1. InSection(u)' => InSection(u)
        BY <2>2 DEF InSection
      <3>2. LockOf(u)' = LockOf(u)
        BY <2>2, SameProgram, LockKept
      <3> QED BY <2>2, <3>1, <3>2 DEF RecordInv, HoldsLock
    <2>4. ASSUME NEW u \in Threads
          PROVE  FilesUp(u)'
      <3>1. FilesUp(u)
        BY <2>2 DEF RecordInv, FilesUp
      <3>2. CASE u = t
        <4>1. Len(file'[t]) = Len(file[t]) + 1
          BY <2>2 DEF TypeOK
        <4>2. sec[t] \in Nat
          BY DEF TypeOK, ProgramTypeOK
        <4> QED BY <2>2, <3>1, <3>2, <4>1, <4>2 DEF FilesUp
      <3>3. CASE u # t
        BY <2>2, <3>1, <3>3 DEF FilesUp
      <3> QED BY <3>2, <3>3
    <2>5. ASSUME NEW l \in Locks, NEW i \in 1..Len(recorded'[l])
          PROVE  TookAt(recorded[l][i])'
      <3>1. PICK p : p = recorded[l][i]
        OBVIOUS
      <3>2. p \in Threads \X Nat /\ TookAt(p)
        BY <2>2, <3>1, EntryTook
      <3>3. /\ sec'[p[1]] = sec[p[1]]
            /\ pc[p[1]] \in {"filing", "resetting"} => pc'[p[1]] \in {"filing", "resetting"}
        BY <2>2, <3>2
      <3>4. TookAt(p)'
        BY <3>2, <3>3, TookStays
      <3> QED BY <2>2, <3>1, <3>4
    <2>6. \A l \in Locks : Len(recorded'[l]) = current_clocks'[l]
      BY <2>2 DEF RecordInv
    <2> QED BY <2>3, <2>4, <2>5, <2>6, RecordParts
  <1>6. ASSUME NEW t \in Threads, ResetSlot(t)
        PROVE  RecordInv'
    <2>1. /\ UNCHANGED <<mode, omp_locks, current_clocks, recorded, file>>
          /\ mode = "record" /\ pc[t] = "resetting" /\ pc'[t] = "run"
          /\ sec'[t] = sec[t] + 1
          /\ \A u \in Threads : u # t => pc'[u] = pc[u] /\ sec'[u] = sec[u]
      BY <1>6, mode' = "record" DEF TypeOK, ProgramTypeOK, ResetSlot, NextSection
    <2>2. ASSUME NEW u \in Threads
          PROVE  HoldsLock(u)'
      <3>1. InSection(u)' => u # t /\ InSection(u)
        BY <2>1 DEF InSection
      <3>2. u # t => LockOf(u)' = LockOf(u)
        BY <2>1, SameProgram, LockKept
      <3> QED BY <2>1, <3>1, <3>2 DEF RecordInv, HoldsLock
    <2>3. ASSUME NEW u \in Threads
          PROVE  FilesUp(u)'
      <3>1. FilesUp(u)
        BY <2>1 DEF RecordInv, FilesUp
      <3>2. sec[u] \in Nat
        BY DEF TypeOK, ProgramTypeOK
      <3> QED BY <2>1, <3>1, <3>2 DEF FilesUp
    <2>4. ASSUME NEW l \in Locks, NEW i \in 1..Len(recorded'[l])
          PROVE  TookAt(recorded[l][i])'
      <3>1. PICK p : p = recorded[l][i]
        OBVIOUS
      <3>2. p \in Threads \X Nat /\ TookAt(p)
        BY <2>1, <3>1, EntryTook
      <3>3. \/ /\ sec'[p[1]] = sec[p[1]]
               /\ pc[p[1]] \in {"filing", "resetting"} =>
                    pc'[p[1]] \in {"filing", "resetting"}
            \/ sec'[p[1]] = sec[p[1]] + 1
        BY <2>1, <3>2
      <3>4. TookAt(p)'
        BY <3>2, <3>3, TookStays
      <3> QED BY <2>1, <3>1, <3>4
    <2>5. \A l \in Locks : Len(recorded'[l]) = current_clocks'[l]
      BY <2>1 DEF RecordInv
    <2> QED BY <2>2, <2>3, <2>4, <2>5, RecordParts
  <1>7. CASE Rerun
    BY <1>7 DEF Rerun, StartReplay, RecordInv
  <1>8. ASSUME NEW t \in Threads, GateInReplay(t) \/ GateOutReplay(t)
        PROVE  RecordInv'
    BY <1>8 DEF GateInReplay, GateOutReplay, GoTo, NextSection, RecordInv
  <1> QED
    BY <1>1, <1>2, <1>3, <1>4, <1>5, <1>6, <1>7, <1>8 DEF Next, Step, Ended

-------------------------------------------------------------------------------

\* The clocks of the sections that were left can be counted.
LEMMA LeftCounts ==
  ASSUME TypeOK, NEW l \in Locks
  PROVE  /\ Left(l) \subseteq Clocks(l) /\ Left(l) \subseteq Nat
         /\ IsFiniteSet(Left(l)) /\ Cardinality(Left(l)) \in Nat
  <1>1. Left(l) \subseteq Clocks(l)
    BY DEF Left
  <1>2. Len(recorded[l]) \in Nat
    BY DEF TypeOK
  <1>3. Clocks(l) \subseteq Nat
    BY <1>2 DEF Clocks
  <1>4. IsFiniteSet(Clocks(l))
    BY <1>2, FS_Interval DEF Clocks
  <1>5. IsFiniteSet(Left(l))
    BY <1>1, <1>4, FS_Subset
  <1> QED BY <1>1, <1>3, <1>5, FS_CardinalityType

\* With as many elements as numbers below e, a set that lacks one of these has an
\* element that is not below e.
LEMMA OneBeyond ==
  ASSUME NEW S \in SUBSET Nat, IsFiniteSet(S), NEW e \in Nat, e <= Cardinality(S),
         NEW c \in 0..(e - 1), c \notin S
  PROVE  \E x \in S : e <= x
  <1> SUFFICES ASSUME \A x \in S : ~(e <= x) PROVE FALSE
    OBVIOUS
  <1> DEFINE Below == 0..(e - 1)
  <1>1. IsFiniteSet(Below) /\ Cardinality(Below) = e
    <2>1. e - 1 \in Int /\ 0 \in Int /\ ~(0 > e - 1) /\ (e - 1) - 0 + 1 = e
      OBVIOUS
    <2> QED BY <2>1, FS_Interval
  <1>2. IsFiniteSet(Below \ {c}) /\ Cardinality(Below \ {c}) = e - 1
    <2>1. c \in Below
      OBVIOUS
    <2> HIDE DEF Below
    <2> QED BY <1>1, <2>1, FS_RemoveElement
  <1>3. S \in SUBSET (Below \ {c})
    OBVIOUS
  <1>4. Cardinality(S) <= Cardinality(Below \ {c})
    <2> HIDE DEF Below
    <2> QED BY <1>2, <1>3, FS_Subset
  <1>5. Cardinality(S) \in Nat
    BY FS_CardinalityType
  <1> HIDE DEF Below
  <1> QED BY <1>2, <1>4, <1>5

\* The sections of l that were entered, and those before them that were not left.
Ordered(l) ==
  \A d \in Left(l) \cup Inside(l) : \A c \in 0..d :
    c \in Left(l) \/ c = d \/ Alike(l, c, d)

\* When the epoch e of clock d is reached, each clock before d that is not left
\* belongs to one run with d.
LEMMA RunsJoin ==
  ASSUME TypeOK, NEW l \in Locks, Ordered(l), NEW d \in Clocks(l), NEW e \in Int,
         EpochFits(l, d, e), e <= Cardinality(Left(l)),
         NEW c \in 0..d, c \notin Left(l), c # d
  PROVE  Alike(l, c, d)
  <1>1. d \in Nat /\ c \in Nat /\ c < d
    BY EntryType
  <1>2. CASE e <= c
    BY <1>1, <1>2 DEF EpochFits
  <1>3. CASE c < e
    <2>1. PICK x \in Left(l) : e <= x
      BY <1>1, <1>3, LeftCounts, OneBeyond
    <2>2. x \in Nat /\ c < x
      BY <1>1, <1>3, <2>1, LeftCounts
    <2>3. Alike(l, c, x)
      BY <1>1, <2>1, <2>2 DEF Ordered
    <2>4. CASE d <= x
      <3>1. d \in c..x /\ \A i \in c..d : i \in c..x
        BY <1>1, <2>2, <2>4
      <3> QED BY <2>3, <3>1 DEF Alike
    <2>5. CASE x < d
      <3>1. Alike(l, x, d)
        BY <1>1, <2>1, <2>2, <2>5 DEF EpochFits
      <3>2. x \in x..d
        BY <1>1, <2>2, <2>5
      <3>3. IsLoadOrStore(KindOf(l, d)) /\ KindOf(l, x) = KindOf(l, d)
        BY <3>1, <3>2 DEF Alike
      <3>4. \A i \in c..d : i \in c..x \/ i \in x..d
        BY <1>1, <2>2, <2>5
      <3> QED BY <2>3, <3>1, <3>3, <3>4 DEF Alike
    <2> QED BY <1>1, <2>2, <2>4, <2>5
  <1> QED BY <1>1, <1>2, <1>3

\* The clock of the section a replaying thread is in, or enters next.
LEMMA ClockOf ==
  ASSUME TypeOK, Inductive, mode = "replay", NEW t \in Threads, HasSection(t)
  PROVE  LET l == LockOf(t) IN
           /\ l \in Locks /\ l = LockAt(t, sec[t]) /\ sec[t] \in 1..Len(file[t])
           /\ \E c \in Clocks(l) : /\ recorded[l][c + 1] = <<t, sec[t]>>
                                   /\ EpochFits(l, c, file[t][sec[t]])
  <1> USE DEF Inductive
  <1>1. LockOf(t) \in Locks /\ LockOf(t) = LockAt(t, sec[t])
    BY SectionType
  <1>2. sec[t] \in 1..Len(file[t])
    BY SectionType DEF ReplayInv
  <1>3. PICK c \in Clocks(LockAt(t, sec[t])) :
              /\ IssuedTo(LockAt(t, sec[t]), c, t, sec[t])
              /\ EpochFits(LockAt(t, sec[t]), c, file[t][sec[t]])
    BY <1>2 DEF EpochInv
  <1> QED BY <1>1, <1>2, <1>3 DEF IssuedTo

\* No two clocks of a lock went to one section, and no clock to one of another lock.
LEMMA OneClock ==
  ASSUME TypeOK, HistoryInv, NEW l \in Locks, NEW c \in Clocks(l)
  PROVE  /\ LockAt(recorded[l][c + 1][1], recorded[l][c + 1][2]) = l
         /\ \A d \in Clocks(l) : recorded[l][c + 1] = recorded[l][d + 1] => c = d
  <1>1. c \in Nat /\ c + 1 \in 1..Len(recorded[l])
    BY EntryType
  <1>2. \A d \in Clocks(l) : d \in Nat /\ d + 1 \in 1..Len(recorded[l])
    BY EntryType
  <1>3. \A d \in Clocks(l) : recorded[l][c + 1] = recorded[l][d + 1] => c + 1 = d + 1
    BY <1>1, <1>2 DEF HistoryInv
  <1>4. LockAt(recorded[l][c + 1][1], recorded[l][c + 1][2]) = l
    BY <1>1 DEF HistoryInv
  <1> QED BY <1>1, <1>2, <1>3, <1>4

\* A replaying thread's own part of ReplayInv.
ThreadFollows(u) ==
  /\ Len(file[u]) = Len(Program[u])
  /\ pc[u] \notin {"filing", "resetting"}
  /\ pos[u] = IF InSection(u) THEN sec[u] ELSE sec[u] - 1

LEMMA ReplayParts ==
  ASSUME \A u \in Threads : ThreadFollows(u)',
         \A l \in Locks : current_clocks'[l] = Cardinality(Left(l)') /\ Ordered(l)'
  PROVE  ReplayInv'
  BY DEF ReplayInv, ThreadFollows, Ordered

\* Sections that leave, and none that enter, keep the order.
LEMMA OrderedKept ==
  ASSUME UNCHANGED <<program, recorded>>, NEW l \in Locks, Ordered(l),
         Left(l) \subseteq Left(l)',
         Left(l)' \cup Inside(l)' \subseteq Left(l) \cup Inside(l)
  PROVE  Ordered(l)'
  <1>1. \A c, d : Alike(l, c, d)' = Alike(l, c, d)
    BY DEF Alike, KindOf, KindAt, Program
  <1> QED BY <1>1 DEF Ordered

-------------------------------------------------------------------------------

\* Every step of the replay keeps the epochs' order.
LEMMA ReplayStep ==
  ASSUME TypeOK, Inductive, [Next]_vars, mode' = "replay"
  PROVE  ReplayInv'
  <1> USE DEF Inductive
  <1>0. Program' = Program
    BY SameProgram DEF Program
  <1>1. ASSUME mode = "replay", UNCHANGED <<program, file, recorded, sec, pos, current_clocks>>,
               \A u \in Threads : InSection(u)' <=> InSection(u),
               \A u \in Threads : pc'[u] \notin {"filing", "resetting"}
        PROVE  ReplayInv'
    <2>1. ASSUME NEW u \in Threads
          PROVE  ThreadFollows(u)'
      BY <1>0, <1>1 DEF ReplayInv, ThreadFollows
    <2>2. ASSUME NEW l \in Locks
          PROVE  current_clocks'[l] = Cardinality(Left(l)') /\ Ordered(l)'
      <3>1. Left(l)' = Left(l)
        BY <1>1 DEF Left, Clocks
      <3>2. Inside(l)' = Inside(l)
        <4>1. \A c \in Clocks(l) : recorded[l][c + 1][1] \in Threads
          BY EntryType
        <4> QED BY <1>1, <4>1 DEF Inside, Clocks
      <3>3. Ordered(l) /\ current_clocks[l] = Cardinality(Left(l))
        BY <1>1 DEF ReplayInv, Ordered
      <3> QED BY <1>1, <3>1, <3>2, <3>3, OrderedKept
    <2> QED BY <2>1, <2>2, ReplayParts
  <1>2. CASE Rerun
    <2>1. ASSUME NEW u \in Threads
          PROVE  ThreadFollows(u)'
      <3>1. /\ mode = "record" /\ ~HasSection(u) /\ file' = file
            /\ pc[u] = "run" /\ pc'[u] = "run" /\ sec'[u] = 1 /\ pos'[u] = 0
        BY <1>2 DEF Rerun, StartReplay, AllDone
      <3>2. Len(file[u]) = sec[u] - 1
        BY <3>1 DEF RecordInv
      <3>3. sec[u] = Len(Program[u]) + 1
        BY <3>1, ProgramTyped DEF NestingInv, HasSection
      <3> QED BY <1>0, <3>1, <3>2, <3>3, ProgramTyped
          DEF ThreadFollows, InSection
    <2>2. ASSUME NEW l \in Locks
          PROVE  current_clocks'[l] = Cardinality(Left(l)') /\ Ordered(l)'
      <3>1. /\ recorded' = recorded /\ current_clocks'[l] = 0
            /\ \A u \in Threads : sec'[u] = 1 /\ pc'[u] = "run"
        BY <1>2 DEF Rerun, StartReplay
      <3>2. ASSUME NEW c \in Clocks(l)
            PROVE  /\ recorded[l][c + 1][1] \in Threads
                   /\ recorded[l][c + 1][2] \in Nat \ {0}
        <4>1. c + 1 \in 1..Len(recorded[l]) /\ recorded[l][c + 1] \in Threads \X Nat
          BY EntryType
        <4>2. recorded[l][c + 1][2] \in 1..Len(Program[recorded[l][c + 1][1]])
          BY <4>1 DEF HistoryInv
        <4> QED BY <4>1, <4>2
      <3>3. Left(l)' = {}
        BY <3>1, <3>2 DEF Left, Clocks
      <3>4. Inside(l)' = {}
        BY <3>1, <3>2 DEF Inside, InSection, Clocks
      <3> QED BY <3>1, <3>3, <3>4, FS_EmptySet DEF Ordered
    <2> QED BY <2>1, <2>2, ReplayParts
  <1>3. ASSUME NEW t \in Threads, GateInReplay(t)
        PROVE  ReplayInv'
    <2>1. /\ mode = "replay" /\ pc[t] = "run" /\ pc'[t] = "body" /\ HasSection(t)
          /\ UNCHANGED <<program, sec, file, current_clocks, recorded>>
          /\ pos'[t] = pos[t] + 1
          /\ file[t][pos[t] + 1] <= current_clocks[LockOf(t)]
          /\ \A u \in Threads : u # t => pc'[u] = pc[u] /\ pos'[u] = pos[u]
      BY <1>3 DEF TypeOK, ProgramTypeOK, GateInReplay, AtGateIn, EpochReached, GoTo
    <2>2. pos[t] = sec[t] - 1 /\ pos[t] + 1 = sec[t]
      <3>1. pos[t] = sec[t] - 1
        BY <2>1 DEF ReplayInv, InSection
      <3>2. sec[t] \in Nat
        BY DEF TypeOK, ProgramTypeOK
      <3> QED BY <3>1, <3>2
    <2>3. ASSUME NEW u \in Threads
          PROVE  ThreadFollows(u)'
      <3>1. ThreadFollows(u)
        BY <2>1 DEF ReplayInv, ThreadFollows
      <3> QED BY <1>0, <2>1, <2>2, <3>1 DEF ThreadFollows, InSection
    <2>4. PICK k, s : k = LockOf(t) /\ s = sec[t]
      OBVIOUS
    <2>5. PICK e : e = file[t][s]
      OBVIOUS
    <2>6. PICK d0 \in Clocks(k) : recorded[k][d0 + 1] = <<t, s>> /\ EpochFits(k, d0, e)
      BY <2>1, <2>4, <2>5, ClockOf
    <2>7. k \in Locks /\ k = LockAt(t, s) /\ e <= current_clocks[k] /\ e \in Int
      <3>1. s \in 1..Len(file[t]) /\ k \in Locks /\ k = LockAt(t, s)
        BY <2>1, <2>4, ClockOf
      <3> QED BY <2>1, <2>2, <2>4, <2>5, <3>1 DEF TypeOK
    <2>8. ASSUME NEW l \in Locks
          PROVE  current_clocks'[l] = Cardinality(Left(l)') /\ Ordered(l)'
      <3>1. Left(l)' = Left(l)
        BY <2>1 DEF Left, Clocks
      <3>2. Ordered(l) /\ current_clocks[l] = Cardinality(Left(l))
        BY <2>1 DEF ReplayInv, Ordered
      <3>3. \A c, d : Alike(l, c, d)' = Alike(l, c, d)
        BY <2>1 DEF Alike, KindOf, KindAt, Program
      <3>4. ASSUME NEW d \in Inside(l)', d \notin Inside(l)
            PROVE  l = k /\ d = d0
        <4>1. d \in Clocks(l) /\ recorded[l][d + 1][2] = sec[recorded[l][d + 1][1]]
          BY <2>1, <3>4 DEF Inside, Clocks
        <4>2. InSection(recorded[l][d + 1][1])' /\ ~InSection(recorded[l][d + 1][1])
          BY <2>1, <3>4, <4>1 DEF Inside, InSection
        <4>3. recorded[l][d + 1] \in Threads \X Nat
          BY <4>1, EntryType
        <4>4. recorded[l][d + 1][1] = t
          BY <2>1, <4>2, <4>3 DEF InSection
        <4>5. recorded[l][d + 1] = <<t, s>>
          BY <2>4, <4>1, <4>3, <4>4
        <4>6. l = k
          BY <2>7, <4>1, <4>5, OneClock
        <4> QED BY <2>6, <4>1, <4>5, <4>6, OneClock
      <3>5. ASSUME NEW d \in Left(l)' \cup Inside(l)', NEW c \in 0..d
            PROVE  c \in Left(l) \/ c = d \/ Alike(l, c, d)
        <4>1. CASE d \in Left(l) \cup Inside(l)
          BY <3>2, <4>1 DEF Ordered
        <4>2. CASE d \notin Left(l) \cup Inside(l)
          <5>1. l = k /\ d = d0
            BY <3>1, <3>4, <3>5, <4>2
          <5>2. e <= Cardinality(Left(l))
            BY <2>7, <3>2, <5>1
          <5> QED BY <2>6, <2>7, <3>2, <5>1, <5>2, RunsJoin
        <4> QED BY <4>1, <4>2
      <3>6. Ordered(l)'
        BY <3>1, <3>3, <3>5 DEF Ordered
      <3> QED BY <2>1, <3>1, <3>2, <3>6
    <2> QED BY <2>3, <2>8, ReplayParts
  <1>4. ASSUME NEW t \in Threads, NestedIn(t) \/ NestedOut(t) \/ ProgramStep(t)
        PROVE  ReplayInv'
    <2>1. /\ UNCHANGED <<mode, file, recorded, sec, pos, current_clocks>>
          /\ pc[t] \in {"body", "nested", "nestout"}
          /\ pc'[t] \in {"body", "nested", "nestout"}
          /\ \A u \in Threads : u # t => pc'[u] = pc[u]
      BY <1>4 DEF TypeOK, ProgramTypeOK, NestedIn, AtNestedIn, NestedOut, ProgramStep,
         Access, InSection, gateVars, GoTo
    <2>2. \A u \in Threads : InSection(u)' <=> InSection(u)
      BY <2>1 DEF InSection
    <2>3. \A u \in Threads : pc'[u] \notin {"filing", "resetting"}
      BY <2>1 DEF ReplayInv
    <2> QED BY <1>1, <2>1, <2>2, <2>3, SameProgram
  <1>5. ASSUME NEW t \in Threads, GateOutReplay(t)
        PROVE  ReplayInv'
    <2>1. PICK k, s : k = LockOf(t) /\ s = sec[t]
      OBVIOUS
    <2>2. /\ mode = "replay" /\ pc[t] = "body" /\ pc'[t] = "run" /\ HasSection(t)
          /\ UNCHANGED <<program, file, pos, recorded>>
          /\ sec'[t] = s + 1 /\ s \in Nat
          /\ \A u \in Threads : u # t => pc'[u] = pc[u] /\ sec'[u] = sec[u]
      BY <1>5, <2>1 DEF TypeOK, ProgramTypeOK, GateOutReplay, AtGateOut, NextSection, NestingInv
    <2>3. PICK d0 \in Clocks(k) : recorded[k][d0 + 1] = <<t, s>>
      BY <2>1, <2>2, ClockOf
    <2>4. /\ k \in Locks /\ k = LockAt(t, s)
          /\ current_clocks'[k] = current_clocks[k] + 1
          /\ \A l \in Locks : l # k => current_clocks'[l] = current_clocks[l]
      <3>1. k \in Locks /\ k = LockAt(t, s)
        BY <2>1, <2>2, ClockOf
      <3>2. current_clocks' = [current_clocks EXCEPT ![k] = @ + 1]
        BY <1>5, <2>1 DEF GateOutReplay
      <3> QED BY <3>1, <3>2 DEF TypeOK
    <2>5. ASSUME NEW u \in Threads
          PROVE  ThreadFollows(u)'
      <3>1. ThreadFollows(u)
        BY <2>2 DEF ReplayInv, ThreadFollows
      <3> QED BY <1>0, <2>1, <2>2, <3>1 DEF ThreadFollows, InSection
    <2>6. ASSUME NEW l \in Locks
          PROVE  /\ Left(l)' = IF l = k THEN Left(l) \cup {d0} ELSE Left(l)
                 /\ l = k => d0 \notin Left(l) /\ d0 \in Inside(l)
                 /\ Inside(l)' \subseteq Inside(l)
      <3>1. ASSUME NEW c \in Clocks(l)
            PROVE  /\ recorded[l][c + 1] \in Threads \X Nat
                   /\ recorded[l][c + 1] = <<t, s>> <=> l = k /\ c = d0
        BY <2>3, <2>4, OneClock, EntryType
      <3>2. Clocks(l)' = Clocks(l)
        BY <2>2 DEF Clocks
      <3>3. ASSUME NEW c \in Clocks(l)
            PROVE  c \in Left(l)' <=> c \in Left(l) \/ (l = k /\ c = d0)
        <4>1. PICK u \in Threads, i \in Nat : recorded[l][c + 1] = <<u, i>>
          BY <3>1
        <4>2. c \in Left(l) <=> i < sec[u]
          BY <4>1 DEF Left
        <4>3. c \in Left(l)' <=> i < sec'[u]
          BY <2>2, <3>2, <4>1 DEF Left
        <4>4. u = t /\ i = s <=> l = k /\ c = d0
          BY <3>1, <4>1
        <4> QED BY <2>1, <2>2, <4>2, <4>3, <4>4
      <3>4. ASSUME NEW c \in Inside(l)'
            PROVE  c \in Inside(l)
        <4>1. c \in Clocks(l)
          BY <3>2 DEF Inside
        <4>2. PICK u \in Threads, i \in Nat : recorded[l][c + 1] = <<u, i>>
          BY <3>1, <4>1
        <4>3. i = sec'[u] /\ InSection(u)'
          BY <2>2, <4>2 DEF Inside, InSection
        <4>4. u # t
          BY <2>2, <4>3 DEF InSection
        <4>5. i = sec[u] /\ InSection(u)
          BY <2>2, <4>3, <4>4 DEF InSection
        <4> QED BY <4>1, <4>2, <4>5 DEF Inside
      <3>5. Left(l)' \subseteq Clocks(l) /\ Left(l) \subseteq Clocks(l)
        BY <3>2 DEF Left
      <3>6. Left(l)' = IF l = k THEN Left(l) \cup {d0} ELSE Left(l)
        BY <2>3, <3>3, <3>5
      <3>7. l = k => d0 \notin Left(l) /\ d0 \in Inside(l)
        BY <2>1, <2>2, <2>3 DEF Left, Inside, InSection
      <3> QED BY <3>4, <3>6, <3>7
    <2>7. ASSUME NEW l \in Locks
          PROVE  current_clocks'[l] = Cardinality(Left(l)') /\ Ordered(l)'
      <3>1. Ordered(l) /\ current_clocks[l] = Cardinality(Left(l))
        BY <2>2 DEF ReplayInv, Ordered
      <3>2. Ordered(l)'
        BY <2>2, <2>6, <3>1, OrderedKept
      <3>3. CASE l = k
        <4>1. Left(l)' = Left(l) \cup {d0} /\ d0 \notin Left(l)
          BY <2>6, <3>3
        <4>2. Cardinality(Left(l) \cup {d0}) = Cardinality(Left(l)) + 1
          BY <4>1, LeftCounts, FS_AddElement
        <4> QED BY <2>4, <3>1, <3>2, <3>3, <4>1, <4>2
      <3>4. CASE l # k
        BY <2>4, <2>6, <3>1, <3>2, <3>4
      <3> QED BY <3>3, <3>4
    <2> QED BY <2>5, <2>7, ReplayParts
  <1>6. ASSUME NEW t \in Threads, GateInRecord(t) \/ GateOutRecord(t)
        PROVE  ReplayInv'
    BY <1>6, mode' = "replay" DEF GateInRecord, GateOutRecord, GoTo
  <1>7. ASSUME NEW t \in Threads, FileEpoch(t) \/ ResetSlot(t)
        PROVE  ReplayInv'
    <2>1. pc[t] \in {"filing", "resetting"} /\ mode = "replay"
      BY <1>7, mode' = "replay" DEF FileEpoch, ResetSlot, GoTo, NextSection
    <2> QED BY <2>1 DEF ReplayInv
  <1>8. CASE UNCHANGED vars
    BY <1>1, <1>8 DEF vars, programVars, gateVars, InSection, ReplayInv
  <1> QED
    BY <1>2, <1>3, <1>4, <1>5, <1>6, <1>7, <1>8 DEF Next, Step, Ended

-------------------------------------------------------------------------------

\* In either run sections that overlap are of one kind: they hold one lock, or their
\* clocks belong to one run.
LEMMA LikeOverlap ==
  ASSUME TypeOK, Inductive
  PROVE  OnlyLikeOverlap
  <1> USE DEF Inductive
  <1> SUFFICES ASSUME NEW t \in Threads, NEW u \in Threads, t # u,
                      InSection(t), InSection(u), LockOf(t) = LockOf(u)
               PROVE  IsLoadOrStore(Section(t).rw) /\ Section(t).rw = Section(u).rw
    BY DEF OnlyLikeOverlap
  <1>1. CASE mode = "record"
    BY <1>1 DEF RecordInv
  <1>2. CASE mode = "replay"
    <2>1. HasSection(t) /\ HasSection(u)
      BY DEF NestingInv, InSection
    <2>2. PICK l : l = LockOf(t)
      OBVIOUS
    <2>3. l \in Locks
      BY <1>2, <2>1, <2>2, ClockOf
    <2>4. PICK a \in Clocks(l) : recorded[l][a + 1] = <<t, sec[t]>>
      BY <1>2, <2>1, <2>2, ClockOf
    <2>5. PICK b \in Clocks(l) : recorded[l][b + 1] = <<u, sec[u]>>
      BY <1>2, <2>1, <2>2, ClockOf
    <2>6. /\ KindOf(l, a) = Section(t).rw /\ KindOf(l, b) = Section(u).rw
      BY <2>4, <2>5 DEF KindOf, KindAt, Section
    <2>7. a \in Inside(l) /\ b \in Inside(l)
      BY <2>4, <2>5 DEF Inside
    <2>8. a \notin Left(l) /\ b \notin Left(l)
      <3>1. sec[t] \in Nat /\ sec[u] \in Nat
        BY DEF TypeOK, ProgramTypeOK
      <3> QED BY <2>4, <2>5, <3>1 DEF Left
    <2>9. a \in Nat /\ b \in Nat /\ a # b
      BY <2>3, <2>4, <2>5, EntryType
    <2>10. Ordered(l)
      BY <1>2, <2>3 DEF ReplayInv, Ordered
    <2>11. CASE a < b
      <3>1. Alike(l, a, b)
        BY <2>7, <2>8, <2>9, <2>10, <2>11 DEF Ordered
      <3> QED BY <2>6, <2>9, <2>11, <3>1 DEF Alike
    <2>12. CASE b < a
      <3>1. Alike(l, b, a)
        BY <2>7, <2>8, <2>9, <2>10, <2>12 DEF Ordered
      <3> QED BY <2>6, <2>9, <2>12, <3>1 DEF Alike
    <2> QED BY <2>9, <2>11, <2>12
  <1> QED BY <1>1, <1>2 DEF TypeOK, ProgramTypeOK

\* Epochs, clocks, slot tables, locks and history agree in every state of both runs.
THEOREM EpochInvariance == Spec => [](TypeOK /\ Inductive)
  <1>1. Init => TypeOK /\ Inductive
    BY InitInductive
  <1>2. TypeOK /\ Inductive /\ [Next]_vars => (TypeOK /\ Inductive)'
    <2> SUFFICES ASSUME TypeOK, Inductive, [Next]_vars
                 PROVE  TypeOK' /\ Inductive'
      OBVIOUS
    <2>1. TypeOK'
      BY TypeStep DEF Inductive
    <2>2. NestingInv' /\ HistoryInv' /\ EpochInv' /\ SlotInv'
      BY NestingStep, HistoryStep, EpochStep, SlotStep DEF Inductive
    <2>3. RecordInv'
      <3>1. CASE mode' = "record"
        BY <3>1, RecordStep
      <3>2. CASE mode' # "record"
        BY <3>2 DEF RecordInv
      <3> QED BY <3>1, <3>2
    <2>4. ReplayInv'
      <3>1. CASE mode' = "replay"
        BY <3>1, ReplayStep
      <3>2. CASE mode' # "replay"
        BY <3>2 DEF ReplayInv
      <3> QED BY <3>1, <3>2
    <2> QED BY <2>1, <2>2, <2>3, <2>4 DEF Inductive
  <1> QED BY <1>1, <1>2, PTL DEF Spec

\* Whatever the slot tables held when they were allocated and however long a thread
\* is delayed between its unlock and its look at the tables, the epochs that
\* reomp_ccgate_out files let only loads of a lock, or only stores, overlap in the
\* replay.
THEOREM EpochOverlapSafe == Spec => []OverlapSafe
  <1>1. TypeOK /\ Inductive => OverlapSafe
    BY LikeOverlap DEF OverlapSafe
  <1> QED BY <1>1, EpochInvariance, PTL

-------------------------------------------------------------------------------
\* The replay reads what the recorded run read.  Both runs are compared with the
\* sections of a lock executed one after the other in the order of their clocks.
\* In the replay a section may have been overtaken; what a variable holds is then
\* known for each clock that every section before it, and none after it, can
\* have changed the variable (SettledIn), unless a later store of its run will
\* overwrite what it wrote (MemReplay).

\* The clocks of l that are left are in L, those of the threads inside in I: every
\* clock before one of them was left, or is of its run, and then a later store
\* follows on a store.
OrderIn(l, L, I) ==
  \A d \in L \cup I : \A c \in 0..d :
    \/ c \in L \/ c = d
    \/ Alike(l, c, d) /\ (IsStore(KindOf(l, d)) => StoreNext(l, d))
OrderInv == mode = "replay" => \A l \in Locks : OrderIn(l, Left(l), Inside(l))

\* An epoch that lets a store pass early was filed with the next store in sight.
Stored(t, s, e) ==
  \A c \in Clocks(LockAt(t, s)) :
    /\ IssuedTo(LockAt(t, s), c, t, s) /\ e < c /\ IsStore(KindAt(t, s))
    => StoreNext(LockAt(t, s), c)
StoreInv == \A t \in Threads : \A s \in 1..Len(file[t]) : Stored(t, s, file[t][s])

\* Where a thread is in the body of its section.
BodyInv ==
  \A t \in Threads :
    /\ InSection(t) \/ pc[t] \in {"run", "filing", "resetting"}
    /\ pc[t] = "run" => acc[t] = 1
    /\ InSection(t) => acc[t] <= End(Program, t, sec[t])
    /\ pc[t] \in {"filing", "resetting"} => acc[t] = End(Program, t, sec[t])

\* The section of clock c does not write v.
SilentAt(l, c, v) ==
  SilentOn(Program, recorded[l][c + 1][1], recorded[l][c + 1][2],
           End(Program, recorded[l][c + 1][1], recorded[l][c + 1][2]), v)

\* Of the sections that can have written v, just those before clock d were entered.
SettledIn(l, L, I, d, v) ==
  /\ \A c \in 0..(d - 1) : c \in L \/ SilentAt(l, c, v)
  /\ \A c \in L \cup I : c < d \/ SilentAt(l, c, v)

StoresTo(l, d, v) == d \in Clocks(l) /\ IsStore(KindOf(l, d)) /\ ~SilentAt(l, d, v)

\* A section of clock d runs beside no other of its lock.
Exclusive(l, d) ==
  /\ KindOf(l, d) \notin {"load", "atomicload"}
  /\ IsStore(KindOf(l, d)) => ~StoreNext(l, d)

\* The shared memory of the recorded run, and of the replay.
MemRecord(l, v) ==
  /\ \A t \in Threads : InSection(t) /\ LockOf(t) = l =>
       HoldsAt(Program, recorded[l], Len(recorded[l]), t, sec[t], acc[t], v, mem[v])
  /\ (\A t \in Threads : ~(InSection(t) /\ LockOf(t) = l)) =>
       HoldsAfter(Program, recorded[l], Len(recorded[l]), v, mem[v])
AfterIn(l, L, I, v, w) ==
  \A d \in 0..Len(recorded[l]) :
    SettledIn(l, L, I, d, v) /\ ~StoresTo(l, d, v) => HoldsAfter(Program, recorded[l], d, v, w)
InsideAt(l, d, t, s, a, v, w) ==
  Exclusive(l, d) /\ ~(StoresTo(l, d, v) /\ a = 1) =>
    HoldsAt(Program, recorded[l], d, t, s, a, v, w)
InsideHolds(l, v) ==
  \A t \in Threads : \A d \in Clocks(l) :
    InSection(t) /\ recorded[l][d + 1] = <<t, sec[t]>> =>
      InsideAt(l, d, t, sec[t], acc[t], v, mem[v])
MemReplay(l, v) == AfterIn(l, Left(l), Inside(l), v, mem[v]) /\ InsideHolds(l, v)
MemHolds(l, v) ==
  /\ mode = "record" => MemRecord(l, v)
  /\ mode = "replay" => MemReplay(l, v)
MemInv == \A l \in Locks : \A v \in Vars : GuardedBy(program, l, v) => MemHolds(l, v)

\* w is what the read p = <<s, a>> of thread t finds when its section has clock k.
VarAt(t, p) == Body(Program, t, p[1])[p[2]].var
Finds(t, p, k, w) ==
  \A l \in Locks : GuardedBy(program, l, VarAt(t, p)) =>
    HoldsAt(Program, recorded[l], k, t, p[1], p[2], VarAt(t, p), w)

\* Section s of thread t has clock k, or will take it when it leaves.
ClockIs(t, s, k) ==
  \/ IssuedTo(LockAt(t, s), k, t, s)
  \/ mode = "record" /\ s = sec[t] /\ InSection(t) /\ k = Len(recorded[LockAt(t, s)])

\* The values a thread has read in this run.
Past(t) == Reads(Program, t, sec[t], acc[t])
LogShape(t) == Shape(Program, t, sec[t], acc[t], Len(log[t]))
LogFinds(t) ==
  \A p \in Past(t) : \A k \in Nat :
    ClockIs(t, p[1], k) => Finds(t, p, k, log[t][PlaceOf(Program, t, p)])
LogInv == \A t \in Threads : LogShape(t) /\ LogFinds(t)

\* What is kept of the recorded run.
RecLogHolds(t) ==
  /\ IsFiniteSet(AllReads(Program, t))
  /\ Len(recLog[t]) = Cardinality(AllReads(Program, t))
  /\ \A p \in AllReads(Program, t) : \A k \in Nat :
       IssuedTo(LockAt(t, p[1]), k, t, p[1]) =>
         Finds(t, p, k, recLog[t][PlaceOf(Program, t, p)])
KeptInv ==
  mode = "replay" =>
    /\ \A t \in Threads : RecLogHolds(t)
    /\ \A l \in Locks : \A v \in Vars : GuardedBy(program, l, v) =>
         HoldsAfter(Program, recorded[l], Len(recorded[l]), v, recMem[v])

SerialInv == StoreInv /\ OrderInv /\ BodyInv /\ MemInv /\ LogInv /\ KeptInv

\* The next clock stays taken by a store.
LEMMA StoreNextStays ==
  ASSUME TypeOK, NestingInv, [Next]_vars, NEW l \in Locks, NEW c, StoreNext(l, c)
  PROVE  StoreNext(l, c)'
  <1>1. PICK d : d = c + 1
    OBVIOUS
  <1>2. d \in Clocks(l) /\ IsStore(KindOf(l, d))
    BY <1>1 DEF StoreNext
  <1>3. d \in Clocks(l)' /\ IsStore(KindOf(l, d))'
    BY <1>2, HistoryGrows DEF IsStore
  <1> QED BY <1>1, <1>3 DEF StoreNext

\* What was filed for a section stays right.
LEMMA StoredKept ==
  ASSUME TypeOK, Inductive, [Next]_vars, NEW u \in Threads,
         NEW s \in 1..Len(Program[u]), NEW e, Fits(u, s, e), Stored(u, s, e)
  PROVE  Stored(u, s, e)'
  <1> USE DEF Inductive
  <1>1. PICK l : l = LockAt(u, s)
    OBVIOUS
  <1>2. l \in Locks /\ LockAt(u, s)' = l /\ KindAt(u, s)' = KindAt(u, s)
    BY <1>1, LockAtType, SameProgram, LockKept
  <1>3. PICK d \in Clocks(l) : IssuedTo(l, d, u, s)
    BY <1>1 DEF Fits
  <1>4. d \in Clocks(l)' /\ IssuedTo(l, d, u, s)' /\ d \in Nat
    BY <1>2, <1>3, IssuedStays, EntryType DEF IssuedTo
  <1>5. TypeOK' /\ HistoryInv'
    BY TypeStep, HistoryStep
  <1> SUFFICES ASSUME NEW c \in Clocks(l)', IssuedTo(l, c, u, s)', e < c, IsStore(KindAt(u, s))
               PROVE  StoreNext(l, c)'
    BY <1>2 DEF Stored, IsStore
  <1>6. c = d
    <2>1. recorded'[l][c + 1] = recorded'[l][d + 1]
      BY <1>4 DEF IssuedTo
    <2>2. recorded'[l] \in Seq(Threads \X Nat)
      BY <1>2, <1>5 DEF TypeOK
    <2>3. c \in Nat /\ c + 1 \in 1..Len(recorded'[l]) /\ d + 1 \in 1..Len(recorded'[l])
      BY <1>4, <2>2 DEF Clocks
    <2>4. c + 1 = d + 1
      BY <1>2, <1>5, <2>1, <2>3 DEF HistoryInv
    <2> QED BY <1>4, <2>3, <2>4
  <1>7. StoreNext(l, d)
    BY <1>1, <1>3, <1>6 DEF Stored
  <1> QED BY <1>2, <1>6, <1>7, StoreNextStays

\* A store is filed with a count only if the next clock is a store's.
LEMMA FiledStored ==
  ASSUME TypeOK, Inductive, SlotsFresh, NEW t \in Threads, FileEpoch(t)
  PROVE  Stored(t, sec[t], Epoch(clock[t], count'[t]))
  <1> USE DEF Inductive
  <1>1. PICK l, c, s, n : l = LockOf(t) /\ c = clock[t] /\ s = sec[t] /\ n = count'[t]
    OBVIOUS
  <1>2. /\ pc[t] = "filing" /\ l = LockAt(t, s) /\ l \in Locks
        /\ Section(t).rw = KindAt(t, s)
    BY <1>1, SectionType DEF FileEpoch, NestingInv
  <1>3. IssuedTo(l, c, t, s) /\ c \in Clocks(l) /\ c \in Nat
    BY <1>1, <1>2, EntryType DEF EpochInv, IssuedTo
  <1> SUFFICES ASSUME NEW d \in Clocks(l), IssuedTo(l, d, t, s), c - n < d,
                      IsStore(KindAt(t, s))
               PROVE  StoreNext(l, d)
    BY <1>1, <1>2 DEF Stored, Epoch
  <1>4. d = c
    BY <1>2, <1>3, OneClock DEF IssuedTo
  <1>5. n # 0
    BY <1>3, <1>4
  <1>6. count[t] \in 0..Window
    BY DEF TypeOK
  <1>7. NextIsStore(previous[l], c)
    <2>1. n = IF /\ IsStore(Section(t).rw)
                 /\ ~NextIsStore(previous[LockOf(t)], clock[t])
              THEN 0 ELSE count[t]
      BY <1>1 DEF FileEpoch, TypeOK
    <2> QED BY <1>1, <1>2, <1>5, <2>1
  <1> QED BY <1>1, <1>2, <1>4, <1>7 DEF SlotsFresh

\* Every step keeps the files right about stores.
LEMMA StoreStep ==
  ASSUME TypeOK, Inductive, SlotsFresh, StoreInv, [Next]_vars
  PROVE  StoreInv'
  <1> USE DEF Inductive
  <1>1. ASSUME NEW u \in Threads, NEW s \in 1..Len(file[u]), file'[u][s] = file[u][s]
        PROVE  Stored(u, s, file[u][s])'
    <2>1. PICK e : e = file[u][s]
      OBVIOUS
    <2>2. s \in 1..Len(Program[u])
      BY ProgramTyped DEF EpochInv
    <2>3. Fits(u, s, e) /\ Stored(u, s, e)
      BY <2>1 DEF EpochInv, Fits, StoreInv
    <2>4. Stored(u, s, e)'
      BY <2>2, <2>3, StoredKept
    <2>5. file'[u][s] = e
      BY <1>1, <2>1
    <2> QED BY <2>4, <2>5
  <1>2. ASSUME \A u \in Threads : \A s \in 1..Len(file'[u]) : Stored(u, s, file[u][s])'
        PROVE  StoreInv'
    BY <1>2 DEF StoreInv
  <1>3. ASSUME UNCHANGED file
        PROVE  StoreInv'
    BY <1>1, <1>2, <1>3
  <1>4. ASSUME NEW t \in Threads, FileEpoch(t)
        PROVE  StoreInv'
    <2>1. PICK e, k : e = Epoch(clock[t], count'[t]) /\ k = sec[t]
      OBVIOUS
    <2>2. /\ pc[t] = "filing" /\ file'[t] = Append(file[t], e)
          /\ \A u \in Threads : u # t => file'[u] = file[u]
      BY <1>4, <2>1 DEF TypeOK, FileEpoch
    <2>3. Pending(t) /\ HasSection(t)
      BY <2>2 DEF EpochInv, Pending, NestingInv
    <2>4. mode = "record"
      BY <2>2 DEF ReplayInv, TypeOK, ProgramTypeOK
    <2>5. Len(file[t]) = k - 1 /\ k \in 1..Len(Program[t]) /\ file[t] \in Seq(Int)
      BY <2>1, <2>2, <2>3, <2>4, SectionType DEF RecordInv, TypeOK
    <2>6. Stored(t, k, e)'
      BY <1>4, <2>1, <2>3, <2>5, FiledFits, FiledStored, StoredKept
    <2>7. /\ Len(file'[t]) = k /\ file'[t][k] = e
          /\ \A s \in 1..(k - 1) : s \in 1..Len(file[t]) /\ file'[t][s] = file[t][s]
      BY <2>2, <2>5
    <2>8. ASSUME NEW u \in Threads, NEW s \in 1..Len(file'[u])
          PROVE  Stored(u, s, file[u][s])'
      <3>1. CASE u = t /\ s = k
        BY <2>6, <2>7, <3>1
      <3>2. CASE u = t /\ s # k
        <4>1. s \in 1..(k - 1)
          BY <2>5, <2>7, <3>2
        <4> QED BY <1>1, <2>7, <3>2, <4>1
      <3>3. CASE u # t
        BY <1>1, <2>2, <3>3
      <3> QED BY <3>1, <3>2, <3>3
    <2> QED BY <1>2, <2>8
  <1>5. ASSUME NEW t \in Threads, Step(t), ~FileEpoch(t)
        PROVE  UNCHANGED file
    BY <1>5 DEF Step, GateInRecord, GateInReplay, NestedIn, NestedOut, ProgramStep,
       GateOutRecord, ResetSlot, GateOutReplay, gateVars
  <1>6. CASE Rerun \/ UNCHANGED vars
    BY <1>3, <1>6 DEF Rerun, vars, gateVars
  <1> QED BY <1>3, <1>4, <1>5, <1>6 DEF Next, Ended

\* What the clocks of l went to stays the same while nothing is recorded.
LEMMA ClocksSame ==
  ASSUME UNCHANGED <<program, recorded>>
  PROVE  \A l : /\ Clocks(l)' = Clocks(l)
                /\ \A c, d : Alike(l, c, d)' = Alike(l, c, d)
                /\ \A c : KindOf(l, c)' = KindOf(l, c) /\ StoreNext(l, c)' = StoreNext(l, c)
                /\ \A L, I : OrderIn(l, L, I)' = OrderIn(l, L, I)
  <1>1. Program' = Program
    BY DEF Program
  <1>2. \A l : Clocks(l)' = Clocks(l) /\ \A c : KindOf(l, c)' = KindOf(l, c)
    BY <1>1 DEF Clocks, KindOf, KindAt
  <1>3. \A l, c, d : Alike(l, c, d)' = Alike(l, c, d)
    BY <1>2 DEF Alike
  <1>4. \A l, c : StoreNext(l, c)' = StoreNext(l, c)
    BY <1>2 DEF StoreNext
  <1>5. \A l, L, I : OrderIn(l, L, I)' = OrderIn(l, L, I)
    BY <1>2, <1>3, <1>4 DEF OrderIn
  <1> QED BY <1>2, <1>3, <1>4, <1>5

\* Replaying thread t enters its section s of lock k, which has clock d.
Entering(t, k, s, d) ==
  /\ k \in Locks /\ s \in Nat /\ d \in Clocks(k)
  /\ k = LockOf(t) /\ s = sec[t] /\ k = LockAt(t, s) /\ s \in 1..Len(file[t])
  /\ recorded[k][d + 1] = <<t, s>>
  /\ EpochFits(k, d, file[t][s]) /\ file[t][s] \in Int
  /\ file[t][s] <= Cardinality(Left(k))
  /\ d \notin Left(k) /\ d \notin Inside(k)
  /\ \A l \in Locks : /\ Left(l)' = Left(l)
                      /\ l # k => Inside(l)' = Inside(l)
                      /\ l = k => Inside(l)' = Inside(l) \cup {d}

LEMMA EnterReplay ==
  ASSUME TypeOK, Inductive, NEW t \in Threads, GateInReplay(t)
  PROVE  \E k, s, d : Entering(t, k, s, d)
  <1> USE DEF Inductive
  <1>1. /\ mode = "replay" /\ pc[t] = "run" /\ pc'[t] = "body" /\ HasSection(t)
        /\ UNCHANGED <<program, sec, file, current_clocks, recorded>>
        /\ file[t][pos[t] + 1] <= current_clocks[LockOf(t)]
        /\ \A u \in Threads : u # t => pc'[u] = pc[u]
    BY DEF TypeOK, ProgramTypeOK, GateInReplay, AtGateIn, EpochReached, GoTo
  <1>2. pos[t] + 1 = sec[t]
    <2>1. pos[t] = sec[t] - 1
      BY <1>1 DEF ReplayInv, InSection
    <2>2. sec[t] \in Nat
      BY DEF TypeOK, ProgramTypeOK
    <2> QED BY <2>1, <2>2
  <1>3. PICK k, s : k = LockOf(t) /\ s = sec[t]
    OBVIOUS
  <1>4. PICK e : e = file[t][s]
    OBVIOUS
  <1>5. PICK d \in Clocks(k) : recorded[k][d + 1] = <<t, s>> /\ EpochFits(k, d, e)
    BY <1>1, <1>3, <1>4, ClockOf
  <1>6. s \in 1..Len(file[t]) /\ k \in Locks /\ k = LockAt(t, s)
    BY <1>1, <1>3, ClockOf
  <1>7. e <= Cardinality(Left(k)) /\ e \in Int /\ s \in Nat
    <2>1. e <= current_clocks[k]
      BY <1>1, <1>2, <1>3, <1>4
    <2>2. current_clocks[k] = Cardinality(Left(k))
      BY <1>1, <1>6 DEF ReplayInv
    <2> QED BY <1>3, <1>4, <1>6, <2>1, <2>2 DEF TypeOK, ProgramTypeOK
  <1>8. d \notin Left(k) /\ d \notin Inside(k)
    <2>1. ~InSection(t)
      BY <1>1 DEF InSection
    <2> QED BY <1>3, <1>5, <1>7, <2>1 DEF Left, Inside
  <1>9. ASSUME NEW l \in Locks
        PROVE  /\ Left(l)' = Left(l)
               /\ l # k => Inside(l)' = Inside(l)
               /\ l = k => Inside(l)' = Inside(l) \cup {d}
    <2>1. Left(l)' = Left(l) /\ Clocks(l)' = Clocks(l)
      BY <1>1 DEF Left, Clocks
    <2>2. ASSUME NEW c \in Clocks(l)
          PROVE  c \in Inside(l)' <=> c \in Inside(l) \/ (l = k /\ c = d)
      <3>1. PICK u \in Threads, i \in Nat : recorded[l][c + 1] = <<u, i>>
        BY EntryType
      <3>2. c \in Inside(l) <=> i = sec[u] /\ InSection(u)
        BY <3>1 DEF Inside
      <3>3. c \in Inside(l)' <=> i = sec[u] /\ InSection(u)'
        <4>1. InSection(u)' <=> pc'[u] \in {"body", "nested", "nestout"}
          BY DEF InSection
        <4> QED BY <1>1, <2>1, <3>1, <4>1 DEF Inside, InSection
      <3>4. u = t /\ i = s <=> l = k /\ c = d
        <4>1. u = t /\ i = s => l = k /\ c = d
          BY <1>5, <1>6, <3>1, OneClock
        <4> QED BY <1>5, <3>1, <4>1
      <3>5. u # t => (InSection(u)' <=> InSection(u))
        BY <1>1 DEF InSection
      <3>6. InSection(t)' /\ ~InSection(t)
        BY <1>1 DEF InSection
      <3> QED BY <1>3, <3>2, <3>3, <3>4, <3>5, <3>6
    <2>3. Inside(l)' \subseteq Clocks(l) /\ Inside(l) \subseteq Clocks(l)
      BY <2>1 DEF Inside
    <2> QED BY <1>5, <2>1, <2>2, <2>3
  <1> QED BY <1>3, <1>4, <1>5, <1>6, <1>7, <1>8, <1>9 DEF Entering

\* It leaves it.
Leaving(t, k, s, d) ==
  /\ k \in Locks /\ s \in Nat /\ d \in Clocks(k)
  /\ k = LockOf(t) /\ s = sec[t] /\ k = LockAt(t, s)
  /\ recorded[k][d + 1] = <<t, s>>
  /\ d \notin Left(k) /\ d \in Inside(k)
  /\ \A l \in Locks : /\ l # k => Left(l)' = Left(l) /\ Inside(l)' = Inside(l)
                      /\ l = k => /\ Left(l)' = Left(l) \cup {d}
                                  /\ Inside(l)' = Inside(l) \ {d}

LEMMA LeaveReplay ==
  ASSUME TypeOK, Inductive, NEW t \in Threads, GateOutReplay(t)
  PROVE  \E k, s, d : Leaving(t, k, s, d)
  <1> USE DEF Inductive
  <1>1. PICK k, s : k = LockOf(t) /\ s = sec[t]
    OBVIOUS
  <1>2. /\ mode = "replay" /\ pc[t] = "body" /\ pc'[t] = "run" /\ HasSection(t)
        /\ UNCHANGED <<program, file, pos, recorded>>
        /\ sec'[t] = s + 1 /\ s \in Nat
        /\ \A u \in Threads : u # t => pc'[u] = pc[u] /\ sec'[u] = sec[u]
    BY <1>1 DEF TypeOK, ProgramTypeOK, GateOutReplay, AtGateOut, NextSection, NestingInv
  <1>3. PICK d \in Clocks(k) : recorded[k][d + 1] = <<t, s>>
    BY <1>1, <1>2, ClockOf
  <1>4. k \in Locks /\ k = LockAt(t, s)
    BY <1>1, <1>2, ClockOf
  <1>5. d \notin Left(k) /\ d \in Inside(k)
    BY <1>1, <1>2, <1>3 DEF Left, Inside, InSection
  <1>6. ASSUME NEW l \in Locks
        PROVE  /\ l # k => Left(l)' = Left(l) /\ Inside(l)' = Inside(l)
               /\ l = k => /\ Left(l)' = Left(l) \cup {d}
                           /\ Inside(l)' = Inside(l) \ {d}
    <2>1. Clocks(l)' = Clocks(l)
      BY <1>2 DEF Clocks
    <2>2. ASSUME NEW c \in Clocks(l)
          PROVE  /\ c \in Left(l)' <=> c \in Left(l) \/ (l = k /\ c = d)
                 /\ c \in Inside(l)' <=> c \in Inside(l) /\ ~(l = k /\ c = d)
      <3>1. PICK u \in Threads, i \in Nat : recorded[l][c + 1] = <<u, i>>
        BY EntryType
      <3>2. /\ c \in Left(l) <=> i < sec[u]
            /\ c \in Inside(l) <=> i = sec[u] /\ InSection(u)
        BY <3>1 DEF Left, Inside
      <3>3. /\ c \in Left(l)' <=> i < sec'[u]
            /\ c \in Inside(l)' <=> i = sec'[u] /\ pc'[u] \in {"body", "nested", "nestout"}
        BY <1>2, <2>1, <3>1 DEF Left, Inside, InSection
      <3>4. u = t /\ i = s <=> l = k /\ c = d
        <4>1. u = t /\ i = s => l = k /\ c = d
          BY <1>3, <1>4, <3>1, OneClock
        <4> QED BY <1>3, <3>1, <4>1
      <3>5. CASE u # t
        <4>1. pc'[u] = pc[u] /\ sec'[u] = sec[u]
          BY <1>2, <3>5
        <4> QED BY <3>2, <3>3, <3>4, <3>5, <4>1 DEF InSection
      <3>6. CASE u = t
        <4>1. sec[t] = s /\ pc[t] = "body"
          BY <1>1, <1>2
        <4>2. i < s + 1 <=> i < s \/ i = s
          BY <1>2
        <4> QED BY <1>2, <3>2, <3>3, <3>4, <3>6, <4>1, <4>2 DEF InSection
      <3> QED BY <3>5, <3>6
    <2>3. /\ Left(l)' \subseteq Clocks(l) /\ Left(l) \subseteq Clocks(l)
          /\ Inside(l)' \subseteq Clocks(l) /\ Inside(l) \subseteq Clocks(l)
      BY <2>1 DEF Left, Inside
    <2> QED BY <1>3, <2>2, <2>3
  <1> QED BY <1>1, <1>2, <1>3, <1>4, <1>5, <1>6 DEF Leaving

\* In the replay the other steps of a thread neither enter a section nor leave one.
LEMMA StayReplay ==
  ASSUME TypeOK, NEW t \in Threads, mode = "replay",
         NestedIn(t) \/ NestedOut(t) \/ ProgramStep(t)
  PROVE  /\ UNCHANGED <<program, mode, recorded, sec>>
         /\ \A u \in Threads : InSection(u)' <=> InSection(u)
         /\ \A l \in Locks : Left(l)' = Left(l) /\ Inside(l)' = Inside(l)
  <1>1. /\ UNCHANGED <<program, mode, recorded, sec>>
        /\ pc[t] \in {"body", "nested", "nestout"}
        /\ pc'[t] \in {"body", "nested", "nestout"}
        /\ \A u \in Threads : u # t => pc'[u] = pc[u]
    BY DEF TypeOK, ProgramTypeOK, NestedIn, AtNestedIn, NestedOut, ProgramStep,
       Access, InSection, gateVars, GoTo
  <1>2. \A u \in Threads : InSection(u)' <=> InSection(u)
    BY <1>1 DEF InSection
  <1>3. ASSUME NEW l \in Locks
        PROVE  Left(l)' = Left(l) /\ Inside(l)' = Inside(l)
    <2>1. Left(l)' = Left(l)
      BY <1>1 DEF Left, Clocks
    <2>2. \A c \in Clocks(l) : recorded[l][c + 1][1] \in Threads
      BY EntryType
    <2>3. Inside(l)' = Inside(l)
      BY <1>1, <1>2, <2>2 DEF Inside, Clocks
    <2> QED BY <2>1, <2>3
  <1> QED BY <1>1, <1>2, <1>3

\* The steps of a replay, and its first state.
LEMMA ReplaySteps ==
  ASSUME TypeOK, Inductive, [Next]_vars, mode' = "replay"
  PROVE  \/ Rerun
         \/ UNCHANGED vars
         \/ /\ mode = "replay"
            /\ \E t \in Threads :
                 /\ Step(t)
                 /\ \/ GateInReplay(t) \/ GateOutReplay(t)
                    \/ NestedIn(t) \/ NestedOut(t) \/ ProgramStep(t)
  <1>1. ASSUME NEW t \in Threads, Step(t)
        PROVE  /\ mode = "replay"
               /\ \/ GateInReplay(t) \/ GateOutReplay(t)
                  \/ NestedIn(t) \/ NestedOut(t) \/ ProgramStep(t)
    <2>1. CASE GateInRecord(t) \/ GateOutRecord(t)
      BY <2>1 DEF GateInRecord, GateOutRecord, GoTo
    <2>2. CASE FileEpoch(t) \/ ResetSlot(t)
      <3>1. pc[t] \in {"filing", "resetting"} /\ mode = "replay"
        BY <2>2 DEF FileEpoch, ResetSlot, GoTo, NextSection
      <3> QED BY <3>1 DEF Inductive, ReplayInv
    <2>3. CASE GateInReplay(t) \/ GateOutReplay(t)
      BY <2>3 DEF GateInReplay, GateOutReplay
    <2>4. CASE NestedIn(t) \/ NestedOut(t) \/ ProgramStep(t)
      BY <2>4 DEF NestedIn, NestedOut, ProgramStep, Access, GoTo
    <2> QED BY <1>1, <2>1, <2>2, <2>3, <2>4 DEF Step
  <1> QED BY <1>1 DEF Next, Ended

\* A section that enters keeps the order.
LEMMA OrderEnter ==
  ASSUME TypeOK, NEW l \in Locks, NEW d \in Clocks(l), NEW e \in Int,
         OrderIn(l, Left(l), Inside(l)), EpochFits(l, d, e), e <= Cardinality(Left(l)),
         d \notin Left(l), e < d /\ IsStore(KindOf(l, d)) => StoreNext(l, d)
  PROVE  OrderIn(l, Left(l), Inside(l) \cup {d})
  <1>1. Ordered(l)
    BY DEF OrderIn, Ordered
  <1> SUFFICES ASSUME NEW c \in 0..d, c \notin Left(l), c # d
               PROVE  Alike(l, c, d) /\ (IsStore(KindOf(l, d)) => StoreNext(l, d))
    BY DEF OrderIn
  <1>2. Alike(l, c, d)
    BY <1>1, RunsJoin
  <1>3. d \in Nat /\ c \in Nat /\ c < d
    BY EntryType
  <1>4. ASSUME IsStore(KindOf(l, d)), d <= e
        PROVE  StoreNext(l, d)
    <2>1. PICK x \in Left(l) : e <= x
      BY <1>3, <1>4, LeftCounts, OneBeyond
    <2>2. x \in Nat /\ d < x /\ c \in 0..x /\ c # x
      BY <1>3, <1>4, <2>1, LeftCounts
    <2>3. Alike(l, c, x)
      BY <1>1, <2>1, <2>2 DEF Ordered
    <2>4. d \in c..x /\ d + 1 \in c..x
      BY <1>3, <2>2
    <2>5. KindOf(l, d + 1) = KindOf(l, d)
      BY <2>3, <2>4 DEF Alike
    <2>6. d + 1 \in Clocks(l)
      <3>1. x \in Clocks(l)
        BY <2>1, LeftCounts
      <3> QED BY <1>3, <2>2, <3>1 DEF Clocks
    <2> QED BY <1>4, <2>5, <2>6 DEF StoreNext
  <1> QED BY <1>2, <1>3, <1>4

\* Every step of the replay keeps it.
LEMMA OrderStep ==
  ASSUME TypeOK, Inductive, StoreInv, OrderInv, [Next]_vars
  PROVE  OrderInv'
  <1> SUFFICES ASSUME mode' = "replay", NEW l \in Locks
               PROVE  OrderIn(l, Left(l), Inside(l))'
    BY DEF OrderInv
  <1>1. CASE Rerun
    <2>1. /\ recorded' = recorded
          /\ \A u \in Threads : sec'[u] = 1 /\ pc'[u] = "run"
      BY <1>1 DEF Rerun, StartReplay
    <2>2. ASSUME NEW c \in Clocks(l)
          PROVE  /\ recorded[l][c + 1][1] \in Threads
                 /\ recorded[l][c + 1][2] \in Nat \ {0}
      <3>1. c + 1 \in 1..Len(recorded[l]) /\ recorded[l][c + 1] \in Threads \X Nat
        BY EntryType
      <3>2. recorded[l][c + 1][2] \in 1..Len(Program[recorded[l][c + 1][1]])
        BY <3>1 DEF Inductive, HistoryInv
      <3> QED BY <3>1, <3>2
    <2>3. Left(l)' = {}
      BY <2>1, <2>2 DEF Left, Clocks
    <2>4. Inside(l)' = {}
      BY <2>1, <2>2 DEF Inside, InSection, Clocks
    <2> QED BY <2>3, <2>4 DEF OrderIn
  <1>2. CASE UNCHANGED vars
    <2>1. UNCHANGED <<program, mode, recorded, sec, pc>>
      BY <1>2 DEF vars, programVars, gateVars
    <2>2. Left(l)' = Left(l) /\ Inside(l)' = Inside(l)
      BY <2>1 DEF Left, Inside, InSection, Clocks
    <2>3. PICK L, I : L = Left(l) /\ I = Inside(l)
      OBVIOUS
    <2>4. OrderIn(l, L, I)
      BY <2>1, <2>3 DEF OrderInv
    <2>5. OrderIn(l, L, I)'
      BY <2>1, <2>4, ClocksSame
    <2> QED BY <2>2, <2>3, <2>5 DEF OrderIn
  <1>3. ASSUME NEW t \in Threads, mode = "replay",
               \/ GateInReplay(t) \/ GateOutReplay(t)
               \/ NestedIn(t) \/ NestedOut(t) \/ ProgramStep(t)
        PROVE  OrderIn(l, Left(l), Inside(l))'
    <2>1. UNCHANGED <<program, recorded>>
      BY <1>3 DEF GateInReplay, GateOutReplay, NestedIn, NestedOut, ProgramStep, Access,
         GoTo, NextSection, gateVars
    <2>2. OrderIn(l, Left(l), Inside(l))
      BY <1>3 DEF OrderInv
    <2>3. PICK L, I : L = Left(l)' /\ I = Inside(l)'
      OBVIOUS
    <2>4. OrderIn(l, L, I)
      <3>1. CASE GateInReplay(t)
        <4>0. PICK k, s, d : Entering(t, k, s, d)
          BY <3>1, EnterReplay
        <4>1. /\ k \in Locks /\ d \in Clocks(k) /\ k = LockAt(t, s)
              /\ s \in 1..Len(file[t]) /\ recorded[k][d + 1] = <<t, s>>
              /\ EpochFits(k, d, file[t][s]) /\ file[t][s] \in Int
              /\ file[t][s] <= Cardinality(Left(k)) /\ d \notin Left(k)
              /\ Left(l)' = Left(l)
              /\ l # k => Inside(l)' = Inside(l)
              /\ l = k => Inside(l)' = Inside(l) \cup {d}
          BY <4>0 DEF Entering
        <4>2. CASE l # k
          BY <2>2, <2>3, <4>1, <4>2
        <4>3. CASE l = k
          <5>1. L = Left(l) /\ I = Inside(l) \cup {d}
            BY <2>3, <4>1, <4>3
          <5>2. ASSUME file[t][s] < d, IsStore(KindOf(l, d))
                PROVE  StoreNext(l, d)
            <6>1. KindOf(l, d) = KindAt(t, s) /\ IssuedTo(k, d, t, s)
              BY <4>1, <4>3 DEF KindOf, IssuedTo
            <6>2. Stored(t, s, file[t][s])
              BY <4>1 DEF StoreInv
            <6> QED BY <4>1, <4>3, <5>2, <6>1, <6>2 DEF Stored
          <5> QED BY <2>2, <4>1, <4>3, <5>1, <5>2, OrderEnter
        <4> QED BY <4>2, <4>3
      <3>2. CASE GateOutReplay(t)
        <4>0. PICK k, s, d : Leaving(t, k, s, d)
          BY <3>2, LeaveReplay
        <4>1. /\ d \in Inside(k)
              /\ l # k => Left(l)' = Left(l) /\ Inside(l)' = Inside(l)
              /\ l = k => Left(l)' = Left(l) \cup {d} /\ Inside(l)' = Inside(l) \ {d}
          BY <4>0 DEF Leaving
        <4>2. CASE l # k
          BY <2>2, <2>3, <4>1, <4>2
        <4>3. CASE l = k
          <5>1. L \cup I = Left(l) \cup Inside(l) /\ Left(l) \subseteq L
            BY <2>3, <4>1, <4>3
          <5> QED BY <2>2, <5>1 DEF OrderIn
        <4> QED BY <4>2, <4>3
      <3>3. CASE NestedIn(t) \/ NestedOut(t) \/ ProgramStep(t)
        BY <1>3, <2>2, <2>3, <3>3, StayReplay
      <3> QED BY <1>3, <3>1, <3>2, <3>3
    <2>5. OrderIn(l, L, I)'
      BY <2>1, <2>4, ClocksSame
    <2> QED BY <2>3, <2>5 DEF OrderIn
  <1> QED BY <1>1, <1>2, <1>3, ReplaySteps

\* The body of a section of the program.
LEMMA BodyTyped ==
  ASSUME TypeOK, NEW t \in Threads, NEW s \in 1..Len(Program[t])
  PROVE  /\ Body(Program, t, s) \in Seq(Accesses)
         /\ Len(Body(Program, t, s)) \in Nat /\ End(Program, t, s) \in Nat
  <1>1. Program[t][s] \in Sections
    BY ProgramTyped
  <1>2. Program[t][s].body \in Seq(Accesses)
    BY <1>1 DEF Sections
  <1> QED BY <1>2 DEF Body, End

\* The lock that guards a variable is that of every section that accesses it.
LEMMA GuardOf ==
  ASSUME NEW l, NEW v, GuardedBy(program, l, v), NEW t \in Threads,
         NEW s \in 1..Len(Program[t]), NEW a \in 1..Len(Body(Program, t, s)),
         Body(Program, t, s)[a].var = v
  PROVE  LockAt(t, s) = l
  BY DEF GuardedBy, LockAt, GateLock, MultiClock, Program, Body

\* A read that is past.
LEMMA PastTyped ==
  ASSUME TypeOK, NEW t \in Threads, NEW s, NEW a, NEW p \in Reads(Program, t, s, a)
  PROVE  /\ p[1] \in 1..Len(Program[t]) /\ p[2] \in 1..Len(Body(Program, t, p[1]))
         /\ p[1] \in Nat /\ p[2] \in Nat
         /\ p[1] < s \/ (p[1] = s /\ p[2] < a)
         /\ IsRead(Program, t, p[1], p[2]) /\ VarAt(t, p) \in Vars
         /\ \A l : GuardedBy(program, l, VarAt(t, p)) => l = LockAt(t, p[1])
  <1>1. /\ p[1] \in 1..Len(Program[t]) /\ p[2] \in 1..Len(Body(Program, t, p[1]))
        /\ p[1] < s \/ (p[1] = s /\ p[2] < a)
        /\ IsRead(Program, t, p[1], p[2])
    BY DEF Reads
  <1>2. Len(Program[t]) \in Nat /\ Len(Body(Program, t, p[1])) \in Nat
    BY <1>1, ProgramTyped, BodyTyped
  <1>3. Body(Program, t, p[1])[p[2]] \in Accesses
    BY <1>1, BodyTyped
  <1>4. VarAt(t, p) \in Vars
    BY <1>3 DEF VarAt, Accesses
  <1>5. \A l : GuardedBy(program, l, VarAt(t, p)) => l = LockAt(t, p[1])
    BY <1>1, GuardOf DEF VarAt
  <1> QED BY <1>1, <1>2, <1>4, <1>5

\* The section a thread is in, when it has reads of its own behind it.
LEMMA PastSection ==
  ASSUME TypeOK, NestingInv, BodyInv, NEW t \in Threads, NEW p \in Past(t),
         p[1] = sec[t]
  PROVE  pc[t] # "run" /\ HasSection(t)
  <1>1. /\ p[2] \in 1..Len(Body(Program, t, p[1])) /\ p[2] \in Nat
        /\ p[1] < sec[t] \/ (p[1] = sec[t] /\ p[2] < acc[t])
    BY PastTyped DEF Past
  <1>2. p[2] >= 1 /\ p[2] < acc[t]
    BY <1>1 DEF TypeOK, ProgramTypeOK
  <1>3. acc[t] # 1
    BY <1>1, <1>2
  <1> QED BY <1>3 DEF BodyInv, NestingInv

-------------------------------------------------------------------------------
\* How the steps act on what SerialInv speaks of.

\* What a step of thread t leaves alone.
LEMMA StepFrame ==
  ASSUME TypeOK, Inductive, NEW t \in Threads, Step(t)
  PROVE  /\ UNCHANGED <<program, mode, recLog, recMem>>
         /\ \A u \in Threads : u # t =>
              pc'[u] = pc[u] /\ sec'[u] = sec[u] /\ acc'[u] = acc[u] /\ log'[u] = log[u]
         /\ \A l \in Locks : SamePrefix(recorded[l], recorded'[l], Len(recorded[l]))
         /\ ~GateOutRecord(t) => recorded' = recorded
  <1> USE DEF TypeOK, ProgramTypeOK, SamePrefix
  <1>1. CASE GateInRecord(t) \/ GateInReplay(t)
    BY <1>1 DEF GateInRecord, GateInReplay, GoTo
  <1>2. CASE NestedIn(t) \/ NestedOut(t)
    BY <1>2 DEF NestedIn, NestedOut, GoTo
  <1>3. CASE ProgramStep(t)
    BY <1>3 DEF ProgramStep, Access, gateVars
  <1>4. CASE GateOutRecord(t)
    <2>1. \A l \in Locks : SamePrefix(recorded[l], recorded'[l], Len(recorded[l]))
      BY <1>4, RecordedAfter DEF Inductive
    <2> QED BY <1>4, <2>1 DEF GateOutRecord, GoTo
  <1>5. CASE FileEpoch(t)
    BY <1>5 DEF FileEpoch, GoTo
  <1>6. CASE ResetSlot(t)
    BY <1>6 DEF ResetSlot, NextSection
  <1>7. CASE GateOutReplay(t)
    BY <1>7 DEF GateOutReplay, AtGateOut, InSection, NextSection
  <1> QED BY <1>1, <1>2, <1>3, <1>4, <1>5, <1>6, <1>7 DEF Step

\* A thread enters a gate or leaves a nested one.
Quiet(t) == GateInRecord(t) \/ GateInReplay(t) \/ NestedIn(t) \/ NestedOut(t)

LEMMA QuietFrame ==
  ASSUME TypeOK, Inductive, NEW t \in Threads, Quiet(t)
  PROVE  /\ UNCHANGED <<sec, acc, mem, log, recorded>>
         /\ pc'[t] \in {"body", "nested"} /\ HasSection(t)
         /\ pc[t] \in {"run", "body", "nestout"}
  <1> USE DEF TypeOK, ProgramTypeOK
  <1>1. CASE GateInRecord(t) \/ GateInReplay(t)
    BY <1>1 DEF GateInRecord, GateInReplay, AtGateIn, GoTo
  <1>2. CASE NestedIn(t) \/ NestedOut(t)
    BY <1>2 DEF NestedIn, AtNestedIn, NestedOut, GoTo, Inductive, NestingInv
  <1> QED BY <1>1, <1>2 DEF Quiet

\* An access of the body.
LEMMA AccessFrame ==
  ASSUME TypeOK, Inductive, NEW t \in Threads, ProgramStep(t)
  PROVE  LET a == NextAccess(t) IN
         /\ UNCHANGED <<sec, recorded>>
         /\ InSection(t) /\ InSection(t)' /\ HasSection(t)
         /\ acc'[t] = acc[t] + 1
         /\ acc[t] \in 1..Len(Body(Program, t, sec[t]))
         /\ a = Body(Program, t, sec[t])[acc[t]] /\ a \in Accesses
         /\ mem' = IF a.op = "load" THEN mem
                   ELSE [mem EXCEPT ![a.var] = <<t, sec[t], acc[t]>>]
         /\ log'[t] = IF a.op = "store" THEN log[t] ELSE Append(log[t], mem[a.var])
  <1> USE DEF TypeOK, ProgramTypeOK
  <1>1. Access(t) /\ UNCHANGED gateVars
    BY DEF ProgramStep
  <1>2. InSection(t) /\ HasAccess(t)
    BY <1>1 DEF Access
  <1>3. HasSection(t) /\ sec[t] \in 1..Len(Program[t])
    BY <1>2, SectionType DEF Inductive, NestingInv, InSection
  <1>4. acc[t] \in 1..Len(Body(Program, t, sec[t]))
    BY <1>2, <1>3, BodyTyped DEF HasAccess, Section, Body
  <1>5. NextAccess(t) = Body(Program, t, sec[t])[acc[t]]
    BY DEF NextAccess, Section, Body
  <1>6. NextAccess(t) \in Accesses
    BY <1>2, AccessType DEF Inductive
  <1>7. pc'[t] \in {"body", "nestout"} /\ acc'[t] = acc[t] + 1
    BY <1>1 DEF Access
  <1>8. UNCHANGED <<sec, recorded>>
    BY <1>1 DEF Access, gateVars
  <1>9. /\ mem' = IF NextAccess(t).op = "load" THEN mem
                  ELSE [mem EXCEPT ![NextAccess(t).var] = <<t, sec[t], acc[t]>>]
        /\ log'[t] = IF NextAccess(t).op = "store" THEN log[t]
                     ELSE Append(log[t], mem[NextAccess(t).var])
    BY <1>1 DEF Access
  <1> QED BY <1>2, <1>3, <1>4, <1>5, <1>6, <1>7, <1>8, <1>9 DEF InSection

\* A thread at the end of its section has executed its body.
LEMMA AtEnd ==
  ASSUME TypeOK, Inductive, BodyInv, NEW t \in Threads, AtGateOut(t)
  PROVE  /\ HasSection(t) /\ sec[t] \in 1..Len(Program[t]) /\ LockOf(t) \in Locks
         /\ LockOf(t) = LockAt(t, sec[t])
         /\ acc[t] = End(Program, t, sec[t])
  <1>1. pc[t] = "body" /\ ~HasAccess(t)
    BY DEF AtGateOut
  <1>2. /\ HasSection(t) /\ sec[t] \in 1..Len(Program[t]) /\ LockOf(t) \in Locks
        /\ LockOf(t) = LockAt(t, sec[t])
    BY <1>1, SectionType DEF Inductive, NestingInv
  <1>3. acc[t] <= End(Program, t, sec[t])
    BY <1>1 DEF BodyInv, InSection
  <1>4. ~(acc[t] <= Len(Body(Program, t, sec[t]))) /\ acc[t] \in Nat
    BY <1>1 DEF HasAccess, Section, Body, TypeOK, ProgramTypeOK
  <1>5. Len(Body(Program, t, sec[t])) \in Nat
    BY <1>2, BodyTyped
  <1> QED BY <1>2, <1>3, <1>4, <1>5 DEF End

\* A recording thread leaves its section.
LEMMA LeaveRecordFrame ==
  ASSUME TypeOK, Inductive, BodyInv, NEW t \in Threads, GateOutRecord(t)
  PROVE  /\ UNCHANGED <<sec, acc, mem, log>>
         /\ mode = "record" /\ pc[t] = "body" /\ pc'[t] = "filing"
         /\ HasSection(t) /\ LockOf(t) \in Locks /\ LockOf(t) = LockAt(t, sec[t])
         /\ acc[t] = End(Program, t, sec[t])
         /\ Len(recorded'[LockOf(t)]) = Len(recorded[LockOf(t)]) + 1
         /\ recorded'[LockOf(t)][Len(recorded[LockOf(t)]) + 1] = <<t, sec[t]>>
         /\ \A l \in Locks : l # LockOf(t) => recorded'[l] = recorded[l]
  <1>1. /\ UNCHANGED <<sec, acc, mem, log>>
        /\ mode = "record" /\ pc[t] = "body" /\ pc'[t] = "filing" /\ AtGateOut(t)
    BY DEF GateOutRecord, AtGateOut, GoTo, TypeOK, ProgramTypeOK
  <1>2. /\ Len(recorded'[LockOf(t)]) = Len(recorded[LockOf(t)]) + 1
        /\ recorded'[LockOf(t)][Len(recorded[LockOf(t)]) + 1] = <<t, sec[t]>>
        /\ \A l \in Locks : l # LockOf(t) => recorded'[l] = recorded[l]
    BY RecordedAfter DEF Inductive
  <1> QED BY <1>1, <1>2, AtEnd

\* Past the unlock it files its epoch, clears a slot and goes on.
LEMMA LateFrame ==
  ASSUME TypeOK, Inductive, BodyInv, NEW t \in Threads, FileEpoch(t) \/ ResetSlot(t)
  PROVE  /\ UNCHANGED <<mem, log, recorded>>
         /\ mode = "record" /\ ~InSection(t) /\ ~InSection(t)'
         /\ sec[t] \in 1..Len(Program[t]) /\ acc[t] = End(Program, t, sec[t])
         /\ FileEpoch(t) => pc'[t] = "resetting" /\ sec'[t] = sec[t] /\ acc'[t] = acc[t]
         /\ ResetSlot(t) => pc'[t] = "run" /\ sec'[t] = sec[t] + 1 /\ acc'[t] = 1
  <1> USE DEF TypeOK, ProgramTypeOK
  <1>1. /\ UNCHANGED <<mem, log, recorded>>
        /\ pc[t] \in {"filing", "resetting"}
        /\ FileEpoch(t) => pc'[t] = "resetting" /\ sec'[t] = sec[t] /\ acc'[t] = acc[t]
        /\ ResetSlot(t) => pc'[t] = "run" /\ sec'[t] = sec[t] + 1 /\ acc'[t] = 1
    BY DEF FileEpoch, ResetSlot, GoTo, NextSection
  <1>2. mode = "record"
    BY <1>1 DEF Inductive, ReplayInv
  <1>3. sec[t] \in 1..Len(Program[t])
    BY <1>1, SectionType DEF Inductive, NestingInv
  <1>4. acc[t] = End(Program, t, sec[t])
    BY <1>1 DEF BodyInv
  <1> QED BY <1>1, <1>2, <1>3, <1>4 DEF InSection

\* A replaying thread leaves its section.
LEMMA LeaveReplayFrame ==
  ASSUME TypeOK, Inductive, BodyInv, NEW t \in Threads, GateOutReplay(t)
  PROVE  /\ UNCHANGED <<mem, log, recorded>>
         /\ mode = "replay" /\ pc[t] = "body" /\ pc'[t] = "run"
         /\ sec'[t] = sec[t] + 1 /\ acc'[t] = 1
         /\ sec[t] \in 1..Len(Program[t]) /\ LockOf(t) \in Locks
         /\ LockOf(t) = LockAt(t, sec[t])
         /\ acc[t] = End(Program, t, sec[t])
  <1>1. /\ UNCHANGED <<mem, log, recorded>>
        /\ mode = "replay" /\ pc[t] = "body" /\ AtGateOut(t)
        /\ pc'[t] = "run" /\ sec'[t] = sec[t] + 1 /\ acc'[t] = 1
    BY DEF GateOutReplay, AtGateOut, NextSection, TypeOK, ProgramTypeOK
  <1> QED BY <1>1, AtEnd

\* Every step of a thread keeps it in the body of its section.
LEMMA BodyStep ==
  ASSUME TypeOK, Inductive, BodyInv, NEW t \in Threads, Step(t)
  PROVE  BodyInv'
  <1> SUFFICES ASSUME NEW u \in Threads
               PROVE  /\ InSection(u)' \/ pc'[u] \in {"run", "filing", "resetting"}
                      /\ pc'[u] = "run" => acc'[u] = 1
                      /\ InSection(u)' => acc'[u] <= End(Program, u, sec'[u])
                      /\ pc'[u] \in {"filing", "resetting"} =>
                           acc'[u] = End(Program, u, sec'[u])
    BY StepFrame DEF BodyInv, Program
  <1>1. CASE u # t
    <2>1. pc'[u] = pc[u] /\ sec'[u] = sec[u] /\ acc'[u] = acc[u]
      BY <1>1, StepFrame
    <2> QED BY <2>1 DEF BodyInv, InSection
  <1>2. CASE u = t /\ Quiet(t)
    <2>1. /\ sec' = sec /\ acc' = acc /\ pc'[t] \in {"body", "nested"} /\ HasSection(t)
          /\ pc[t] \in {"run", "body", "nestout"}
      BY <1>2, QuietFrame
    <2>2. CASE pc[t] = "run"
      <3>1. acc[t] = 1 /\ sec[t] \in 1..Len(Program[t])
        BY <2>1, <2>2, SectionType DEF BodyInv
      <3>2. Len(Body(Program, t, sec[t])) \in Nat
        BY <3>1, BodyTyped
      <3> QED BY <1>2, <2>1, <3>1, <3>2 DEF End, InSection
    <2>3. CASE pc[t] # "run"
      BY <1>2, <2>1, <2>3 DEF BodyInv, InSection
    <2> QED BY <2>2, <2>3
  <1>3. CASE u = t /\ ProgramStep(t)
    <2>1. /\ sec' = sec /\ InSection(t)' /\ acc'[t] = acc[t] + 1
          /\ acc[t] \in 1..Len(Body(Program, t, sec[t])) /\ HasSection(t)
      BY <1>3, AccessFrame
    <2>2. Len(Body(Program, t, sec[t])) \in Nat
      BY <2>1, SectionType, BodyTyped
    <2> QED BY <1>3, <2>1, <2>2 DEF End, InSection
  <1>4. CASE u = t /\ GateOutRecord(t)
    BY <1>4, LeaveRecordFrame DEF InSection
  <1>5. CASE u = t /\ (FileEpoch(t) \/ ResetSlot(t))
    BY <1>5, LateFrame DEF InSection
  <1>6. CASE u = t /\ GateOutReplay(t)
    BY <1>6, LeaveReplayFrame DEF InSection
  <1> QED BY <1>1, <1>2, <1>3, <1>4, <1>5, <1>6 DEF Step, Quiet

\* In the recorded run one thread at a time is in a section of a lock.
LEMMA OneInside ==
  ASSUME Inductive, mode = "record", NEW t \in Threads, NEW u \in Threads,
         InSection(t), InSection(u), LockOf(t) = LockOf(u)
  PROVE  t = u
  BY DEF Inductive, RecordInv

-------------------------------------------------------------------------------
\* The shared memory of the recorded run.

\* A thread that enters a gate finds its variables as the last section left them.
LEMMA MemRecordQuiet ==
  ASSUME TypeOK, Inductive, BodyInv, mode = "record", NEW t \in Threads, Step(t), Quiet(t),
         NEW l \in Locks, NEW v \in Vars, MemRecord(l, v)
  PROVE  MemRecord(l, v)'
  <1>1. /\ UNCHANGED <<sec, acc, mem, recorded, program>>
        /\ InSection(t)' /\ pc[t] \in {"run", "body", "nestout"}
        /\ \A u \in Threads : u # t => pc'[u] = pc[u]
    BY StepFrame, QuietFrame DEF InSection
  <1>2. Program' = Program /\ \A u \in Threads : LockOf(u)' = LockOf(u)
    BY <1>1, LockKept DEF Program
  <1>3. \A u \in Threads : u # t => (InSection(u)' <=> InSection(u))
    BY <1>1 DEF InSection
  <1>4. CASE InSection(t) \/ LockOf(t) # l
    BY <1>1, <1>2, <1>3, <1>4 DEF MemRecord
  <1>5. CASE ~InSection(t) /\ LockOf(t) = l
    <2>1. acc[t] = 1
      BY <1>1, <1>5 DEF BodyInv, InSection
    <2>2. \A u \in Threads : ~(InSection(u) /\ LockOf(u) = l)
      <3>1. omp_locks[l] = NoThread
        BY <1>1, <1>5 DEF Quiet, GateInRecord, GateInReplay, NestedIn, NestedOut, AtNestedIn,
           InSection
      <3> QED BY <3>1, EpochAssumption DEF Inductive, RecordInv
    <2>3. HoldsAfter(Program, recorded[l], Len(recorded[l]), v, mem[v])
      BY <2>2 DEF MemRecord
    <2>4. HoldsAt(Program, recorded[l], Len(recorded[l]), t, sec[t], acc[t], v, mem[v])
      BY <2>1, <2>3, HoldsAtFirst
    <2>5. \A u \in Threads : u # t => ~(InSection(u)' /\ LockOf(u)' = l)
      BY <1>2, <1>3, <2>2
    <2> QED BY <1>1, <1>2, <1>5, <2>4, <2>5 DEF MemRecord
  <1> QED BY <1>4, <1>5

\* What an access does to a variable.
LEMMA AccessWrites ==
  ASSUME TypeOK, Inductive, NEW t \in Threads, Step(t), ProgramStep(t), NEW v \in Vars
  PROVE  /\ UNCHANGED <<sec, recorded, program, mode>> /\ Program' = Program
         /\ \A u \in Threads : LockOf(u)' = LockOf(u) /\ (InSection(u)' <=> InSection(u))
         /\ \A u \in Threads : u # t => acc'[u] = acc[u]
         /\ InSection(t) /\ acc'[t] = acc[t] + 1 /\ acc[t] \in Nat \ {0}
         /\ sec[t] \in 1..Len(Program[t]) /\ LockOf(t) = LockAt(t, sec[t])
         /\ acc[t] \in 1..Len(Body(Program, t, sec[t]))
         /\ mem'[v] = IF WritesTo(Program, t, sec[t], acc[t], v)
                      THEN <<t, sec[t], acc[t]>> ELSE mem[v]
         /\ \A l : GuardedBy(program, l, v) /\ LockOf(t) # l =>
              ~WritesTo(Program, t, sec[t], acc[t], v)
  <1> DEFINE a == NextAccess(t)
  <1>1. /\ UNCHANGED <<sec, recorded, program, mode>>
        /\ InSection(t) /\ InSection(t)' /\ HasSection(t)
        /\ acc'[t] = acc[t] + 1 /\ acc[t] \in 1..Len(Body(Program, t, sec[t]))
        /\ a = Body(Program, t, sec[t])[acc[t]]
        /\ mem' = IF a.op = "load" THEN mem
                  ELSE [mem EXCEPT ![a.var] = <<t, sec[t], acc[t]>>]
        /\ \A u \in Threads : u # t => pc'[u] = pc[u] /\ acc'[u] = acc[u]
    BY StepFrame, AccessFrame
  <1>2. Program' = Program /\ \A u \in Threads : LockOf(u)' = LockOf(u)
    BY <1>1, LockKept DEF Program
  <1>3. \A u \in Threads : InSection(u)' <=> InSection(u)
    BY <1>1 DEF InSection
  <1>4. sec[t] \in 1..Len(Program[t]) /\ LockOf(t) = LockAt(t, sec[t])
    BY <1>1, SectionType
  <1>5. mem'[v] = IF WritesTo(Program, t, sec[t], acc[t], v)
                  THEN <<t, sec[t], acc[t]>> ELSE mem[v]
    BY <1>1 DEF WritesTo, TypeOK, ProgramTypeOK
  <1>6. ASSUME NEW l, GuardedBy(program, l, v), LockOf(t) # l
        PROVE  ~WritesTo(Program, t, sec[t], acc[t], v)
    BY <1>1, <1>4, <1>6, GuardOf DEF WritesTo
  <1>7. acc[t] \in Nat \ {0}
    BY DEF TypeOK, ProgramTypeOK
  <1> HIDE DEF a
  <1> QED BY <1>1, <1>2, <1>3, <1>4, <1>5, <1>6, <1>7

\* An access of the section inside writes what the order says.
LEMMA MemRecordAccess ==
  ASSUME TypeOK, Inductive, mode = "record", NEW t \in Threads, Step(t),
         ProgramStep(t), NEW l \in Locks, NEW v \in Vars, GuardedBy(program, l, v),
         MemRecord(l, v)
  PROVE  MemRecord(l, v)'
  <1>1. /\ UNCHANGED <<sec, recorded>> /\ Program' = Program
        /\ \A u \in Threads : LockOf(u)' = LockOf(u) /\ (InSection(u)' <=> InSection(u))
        /\ \A u \in Threads : u # t => acc'[u] = acc[u]
        /\ InSection(t) /\ acc'[t] = acc[t] + 1 /\ acc[t] \in Nat \ {0}
    BY AccessWrites
  <1>2. /\ mem'[v] = IF WritesTo(Program, t, sec[t], acc[t], v)
                     THEN <<t, sec[t], acc[t]>> ELSE mem[v]
        /\ LockOf(t) # l => ~WritesTo(Program, t, sec[t], acc[t], v)
    BY AccessWrites
  <1>3. CASE LockOf(t) = l
    <2>1. \A u \in Threads : u # t => ~(InSection(u) /\ LockOf(u) = l)
      BY <1>1, <1>3, OneInside
    <2>2. HoldsAt(Program, recorded[l], Len(recorded[l]), t, sec[t], acc[t], v, mem[v])
      BY <1>1, <1>3 DEF MemRecord
    <2>3. HoldsAt(Program, recorded[l], Len(recorded[l]), t, sec[t], acc[t] + 1, v, mem'[v])
      BY <1>1, <1>2, <2>2, HoldsNext
    <2> QED BY <1>1, <1>3, <2>1, <2>3 DEF MemRecord
  <1>4. CASE LockOf(t) # l
    <2>1. mem'[v] = mem[v]
      BY <1>2, <1>4
    <2>2. \A u \in Threads : InSection(u) /\ LockOf(u) = l => acc'[u] = acc[u]
      BY <1>1, <1>4
    <2> QED BY <1>1, <2>1, <2>2 DEF MemRecord
  <1> QED BY <1>3, <1>4

\* A section that leaves is the next one of the order.
LEMMA MemRecordLeave ==
  ASSUME TypeOK, Inductive, BodyInv, NEW t \in Threads, Step(t), GateOutRecord(t),
         NEW l \in Locks, NEW v \in Vars, MemRecord(l, v)
  PROVE  MemRecord(l, v)'
  <1>1. /\ mem' = mem /\ program' = program /\ mode = "record"
        /\ InSection(t) /\ ~InSection(t)' /\ LockOf(t) \in Locks
        /\ acc[t] = End(Program, t, sec[t])
        /\ Len(recorded'[LockOf(t)]) = Len(recorded[LockOf(t)]) + 1
        /\ recorded'[LockOf(t)][Len(recorded[LockOf(t)]) + 1] = <<t, sec[t]>>
        /\ l # LockOf(t) => recorded'[l] = recorded[l]
        /\ \A u \in Threads : u # t =>
             pc'[u] = pc[u] /\ sec'[u] = sec[u] /\ acc'[u] = acc[u]
    BY StepFrame, LeaveRecordFrame DEF InSection
  <1>2. /\ Program' = Program
        /\ \A u \in Threads : u # t => LockOf(u)' = LockOf(u)
    BY <1>1, LockKept DEF Program
  <1>3. \A u \in Threads : u # t => (InSection(u)' <=> InSection(u))
    BY <1>1 DEF InSection
  <1>4. CASE l # LockOf(t)
    BY <1>1, <1>2, <1>3, <1>4 DEF MemRecord
  <1>5. CASE l = LockOf(t)
    <2>1. \A u \in Threads : ~(InSection(u)' /\ LockOf(u)' = l)
      BY <1>1, <1>2, <1>3, <1>5, OneInside
    <2>2. HoldsAt(Program, recorded[l], Len(recorded[l]), t, sec[t],
                  End(Program, t, sec[t]), v, mem[v])
      BY <1>1, <1>5 DEF MemRecord
    <2>3. Len(recorded[l]) \in Nat
      BY DEF TypeOK
    <2>4. SamePrefix(recorded[l], recorded'[l], Len(recorded[l]))
      BY StepFrame
    <2>5. HoldsAt(Program, recorded'[l], Len(recorded[l]), t, sec[t],
                  End(Program, t, sec[t]), v, mem[v])
      BY <2>2, <2>3, <2>4, HoldsKept
    <2>6. HoldsAfter(Program, recorded'[l], Len(recorded[l]) + 1, v, mem[v])
      BY <1>1, <1>5, <2>3, <2>5, HoldsEnd
    <2> QED BY <1>1, <1>2, <1>5, <2>1, <2>6 DEF MemRecord
  <1> QED BY <1>4, <1>5

\* Past the unlock nothing is written.
LEMMA MemRecordLate ==
  ASSUME TypeOK, Inductive, BodyInv, NEW t \in Threads, Step(t), FileEpoch(t) \/ ResetSlot(t),
         NEW l \in Locks, NEW v \in Vars, MemRecord(l, v)
  PROVE  MemRecord(l, v)'
  <1>1. /\ UNCHANGED <<mem, recorded, program>>
        /\ ~InSection(t) /\ ~InSection(t)'
        /\ \A u \in Threads : u # t =>
             pc'[u] = pc[u] /\ sec'[u] = sec[u] /\ acc'[u] = acc[u]
    BY StepFrame, LateFrame DEF InSection
  <1>2. /\ Program' = Program
        /\ \A u \in Threads : u # t => LockOf(u)' = LockOf(u)
    BY <1>1, LockKept DEF Program
  <1>3. \A u \in Threads : u # t => (InSection(u)' <=> InSection(u))
    BY <1>1 DEF InSection
  <1> QED BY <1>1, <1>2, <1>3 DEF MemRecord

-------------------------------------------------------------------------------
\* The shared memory of the replay.

\* The section of a clock is one of the program, at the gate of that lock.
LEMMA EntrySection ==
  ASSUME TypeOK, HistoryInv, NEW l \in Locks, NEW c \in Clocks(l), NEW t, NEW s,
         recorded[l][c + 1] = <<t, s>>
  PROVE  t \in Threads /\ s \in Nat /\ s \in 1..Len(Program[t]) /\ LockAt(t, s) = l
  <1>1. PICK i : i = c + 1
    OBVIOUS
  <1>2. i \in 1..Len(recorded[l]) /\ recorded[l][i] = <<t, s>> /\ recorded[l][i] \in Threads \X Nat
    BY <1>1, EntryType
  <1>3. recorded[l][i][1] = t /\ recorded[l][i][2] = s
    BY <1>2
  <1>4. s \in 1..Len(Program[t]) /\ LockAt(t, s) = l
    <2>1. LET u == recorded[l][i][1]
              r == recorded[l][i][2]
          IN  r \in 1..Len(Program[u]) /\ LockAt(u, r) = l
      BY <1>2 DEF HistoryInv
    <2> QED BY <1>3, <2>1
  <1> QED BY <1>2, <1>4

\* What the program says of the section of a clock: a load writes nothing.
LEMMA LoadSilent ==
  ASSUME TypeOK, Inductive, KindsTold(program), NEW l \in Locks, NEW c \in Clocks(l),
         KindOf(l, c) \in {"load", "atomicload"}, NEW v
  PROVE  SilentAt(l, c, v)
  <1>1. PICK t \in Threads, s \in Nat : recorded[l][c + 1] = <<t, s>>
    BY EntryType
  <1>2. c + 1 \in 1..Len(recorded[l])
    BY EntryType
  <1>3. s \in 1..Len(Program[t])
    BY <1>1, EntrySection DEF Inductive
  <1>4. Program[t][s].rw \in {"load", "atomicload"}
    BY <1>1 DEF KindOf, KindAt
  <1>5. \A a \in 1..Len(Body(Program, t, s)) : Body(Program, t, s)[a].op = "load"
    BY <1>3, <1>4 DEF KindsTold, Program, Body
  <1>6. Len(Body(Program, t, s)) \in Nat
    BY <1>3, BodyTyped
  <1>7. SilentOn(Program, t, s, End(Program, t, s), v)
    BY <1>5, <1>6 DEF SilentOn, WritesTo, End
  <1> QED BY <1>1, <1>7 DEF SilentAt

\* A store section is one store.
LEMMA StoreSection ==
  ASSUME TypeOK, KindsTold(program), NEW t \in Threads, NEW s \in 1..Len(Program[t]),
         IsStore(KindAt(t, s))
  PROVE  /\ Len(Body(Program, t, s)) = 1 /\ End(Program, t, s) = 2
         /\ Body(Program, t, s)[1].op = "store"
         /\ \A v : SilentOn(Program, t, s, End(Program, t, s), v) <=>
                     Body(Program, t, s)[1].var # v
  <1>1. Len(Body(Program, t, s)) = 1 /\ Body(Program, t, s)[1].op = "store"
    BY DEF KindsTold, Program, Body, KindAt
  <1>2. End(Program, t, s) = 2
    BY <1>1 DEF End
  <1>3. 1..(2 - 1) = {1}
    OBVIOUS
  <1>4. ASSUME NEW v
        PROVE  SilentOn(Program, t, s, 2, v) <=> Body(Program, t, s)[1].var # v
    BY <1>1, <1>3 DEF SilentOn, WritesTo
  <1> QED BY <1>1, <1>2, <1>4

\* The stores of a lock are all to v, if one of them is.
LEMMA AllStoreTo ==
  ASSUME TypeOK, Inductive, KindsTold(program), OneStored(program), NEW l \in Locks, NEW c, NEW d, NEW v,
         StoresTo(l, c, v), d \in Clocks(l), IsStore(KindOf(l, d))
  PROVE  StoresTo(l, d, v)
  <1>1. c \in Clocks(l) /\ IsStore(KindOf(l, c)) /\ ~SilentAt(l, c, v)
    BY DEF StoresTo
  <1>2. PICK t \in Threads, s \in Nat : recorded[l][c + 1] = <<t, s>>
    BY <1>1, EntryType
  <1>3. PICK u \in Threads, r \in Nat : recorded[l][d + 1] = <<u, r>>
    BY EntryType
  <1>4. c + 1 \in 1..Len(recorded[l]) /\ d + 1 \in 1..Len(recorded[l])
    BY <1>1, EntryType
  <1>5. /\ s \in 1..Len(Program[t]) /\ LockAt(t, s) = l
        /\ r \in 1..Len(Program[u]) /\ LockAt(u, r) = l
    BY <1>1, <1>2, <1>3, EntrySection DEF Inductive
  <1>6. IsStore(KindAt(t, s)) /\ IsStore(KindAt(u, r))
    BY <1>1, <1>2, <1>3 DEF KindOf
  <1>7. Body(Program, t, s)[1].var = v
    BY <1>1, <1>2, <1>5, <1>6, StoreSection DEF SilentAt
  <1>8. program.multi_clock => program.code[t][s].lock = program.code[u][r].lock
    BY <1>5 DEF LockAt, GateLock, MultiClock, Program
  <1>9. Body(Program, t, s)[1].var = Body(Program, u, r)[1].var
    BY <1>5, <1>6, <1>8 DEF OneStored, Program, Body, KindAt
  <1>10. ~SilentOn(Program, u, r, End(Program, u, r), v)
    BY <1>5, <1>6, <1>7, <1>9, StoreSection
  <1> QED BY <1>3, <1>10 DEF StoresTo, SilentAt

\* Where a section is exclusive, the ones before it were left, and none after it was entered.
LEMMA Alone ==
  ASSUME TypeOK, NEW l \in Locks, NEW L, NEW I, L \subseteq Clocks(l), I \subseteq Clocks(l),
         OrderIn(l, L, I), NEW d \in I, d \notin L, Exclusive(l, d)
  PROVE  /\ \A c \in L \cup I : c \in Nat /\ (c < d \/ c = d)
         /\ \A c \in 0..(d - 1) : c \in L
  <1>1. d \in Nat /\ d \in Clocks(l)
    BY EntryType
  <1>2. ASSUME NEW c \in 0..(d - 1)
        PROVE  c \in L
    <2>1. SUFFICES ASSUME c \notin L PROVE FALSE
      OBVIOUS
    <2>2. c \in 0..d /\ c # d /\ d \in c..d
      BY <1>1, <1>2
    <2>3. Alike(l, c, d) /\ (IsStore(KindOf(l, d)) => StoreNext(l, d))
      BY <2>1, <2>2 DEF OrderIn
    <2>4. IsLoadOrStore(KindOf(l, d))
      BY <2>2, <2>3 DEF Alike
    <2> QED BY <2>3, <2>4 DEF Exclusive, IsLoadOrStore, IsStore
  <1>3. ASSUME NEW x \in L \cup I, d < x
        PROVE  FALSE
    <2>1. x \in Nat /\ x \in Clocks(l)
      BY EntryType
    <2>2. d \in 0..x /\ d # x /\ d \in d..x /\ d + 1 \in d..x
      BY <1>1, <1>3, <2>1
    <2>3. Alike(l, d, x)
      BY <2>2 DEF OrderIn
    <2>4. /\ IsLoadOrStore(KindOf(l, x)) /\ KindOf(l, d) = KindOf(l, x)
          /\ KindOf(l, d + 1) = KindOf(l, x)
      BY <2>2, <2>3 DEF Alike
    <2>5. d + 1 \in Clocks(l)
      BY <1>1, <1>3, <2>1 DEF Clocks
    <2> QED BY <2>4, <2>5 DEF Exclusive, IsLoadOrStore, IsStore, StoreNext
  <1>4. \A c \in L \cup I : c \in Nat
    BY EntryType
  <1> QED BY <1>1, <1>2, <1>3, <1>4

\* A value lasts as long as the sections that follow are silent.
LEMMA HoldsOn ==
  ASSUME NEW l, NEW k \in Nat, NEW m \in Nat, NEW v, NEW w, k <= m,
         HoldsAfter(Program, recorded[l], k, v, w),
         \A c \in k..(m - 1) : SilentAt(l, c, v)
  PROVE  HoldsAfter(Program, recorded[l], m, v, w)
  <1> DEFINE T == {i \in k..m : HoldsAfter(Program, recorded[l], i, v, w)}
  <1>1. k \in T
    OBVIOUS
  <1>2. ASSUME NEW i \in k..m, i \in T, i < m
        PROVE  i + 1 \in T
    <2>1. i \in Nat /\ i \in k..(m - 1) /\ i + 1 \in k..m
      BY <1>2
    <2>2. HoldsAfter(Program, recorded[l], i, v, w)
      BY <1>2
    <2>3. SilentOn(Program, recorded[l][i + 1][1], recorded[l][i + 1][2],
                   End(Program, recorded[l][i + 1][1], recorded[l][i + 1][2]), v)
      BY <2>1 DEF SilentAt
    <2>4. HoldsAfter(Program, recorded[l], i + 1, v, w)
      BY <2>1, <2>2, <2>3, HoldsSilent
    <2> QED BY <2>1, <2>4
  <1> HIDE DEF T
  <1>3. k..m \subseteq T
    BY <1>1, <1>2, InductionFrom
  <1>4. m \in T
    BY <1>3
  <1> QED BY <1>4 DEF T

\* A section that enters was not among those that were entered.
LEMMA EnterAfter ==
  ASSUME NEW l, NEW L, NEW I, NEW d, NEW v, NEW w, AfterIn(l, L, I, v, w)
  PROVE  AfterIn(l, L, I \cup {d}, v, w)
  <1>1. ASSUME NEW e, SettledIn(l, L, I \cup {d}, e, v)
        PROVE  SettledIn(l, L, I, e, v)
    BY <1>1 DEF SettledIn
  <1> QED BY <1>1 DEF AfterIn

\* A section that runs alone finds what the sections before it left.
LEMMA EnterHolds ==
  ASSUME TypeOK, NEW l \in Locks, NEW L, NEW I, L \subseteq Clocks(l), I \subseteq Clocks(l),
         NEW d \in Clocks(l), d \notin L, d \notin I, OrderIn(l, L, I \cup {d}),
         Exclusive(l, d), NEW v, NEW w, AfterIn(l, L, I, v, w), ~StoresTo(l, d, v)
  PROVE  HoldsAfter(Program, recorded[l], d, v, w)
  <1>1. PICK J : J = I \cup {d}
    OBVIOUS
  <1>2. d \in J /\ J \subseteq Clocks(l) /\ OrderIn(l, L, J)
    BY <1>1
  <1>3. /\ \A c \in L \cup J : c \in Nat /\ (c < d \/ c = d)
        /\ \A c \in 0..(d - 1) : c \in L
    BY <1>2, Alone
  <1>4. \A c \in L \cup I : c < d
    BY <1>1, <1>3
  <1>5. SettledIn(l, L, I, d, v)
    BY <1>3, <1>4 DEF SettledIn
  <1>6. d \in 0..Len(recorded[l])
    <2>1. d \in Nat /\ d + 1 \in 1..Len(recorded[l]) /\ Len(recorded[l]) \in Nat
      BY EntryType DEF TypeOK
    <2> QED BY <2>1
  <1> QED BY <1>5, <1>6 DEF AfterIn

\* A section that wrote v and has left: what follows on it, where it is settled.
LEMMA LeaveHolds ==
  ASSUME TypeOK, Inductive, KindsTold(program), OneStored(program), NEW l \in Locks,
         NEW L, NEW I, L \subseteq Clocks(l), I \subseteq Clocks(l),
         NEW d \in I, d \notin L, OrderIn(l, L, I), NEW t \in Threads, NEW s \in Nat,
         recorded[l][d + 1] = <<t, s>>, NEW v, NEW w,
         InsideAt(l, d, t, s, End(Program, t, s), v, w), ~SilentAt(l, d, v),
         NEW e \in 0..Len(recorded[l]), d < e, ~StoresTo(l, e, v),
         \A c \in 0..(e - 1) : c \in L \/ c = d \/ SilentAt(l, c, v)
  PROVE  HoldsAfter(Program, recorded[l], e, v, w)
  <1>1. d \in Nat /\ d \in Clocks(l) /\ Len(recorded[l]) \in Nat /\ e \in Nat
    BY EntryType DEF TypeOK
  <1>2. CASE Exclusive(l, d)
    <2>1. s \in 1..Len(Program[t])
      BY <1>1, EntrySection DEF Inductive
    <2>2. ~(StoresTo(l, d, v) /\ End(Program, t, s) = 1)
      <3>1. ASSUME StoresTo(l, d, v) PROVE End(Program, t, s) = 2
        <4>1. IsStore(KindAt(t, s))
          BY <3>1 DEF StoresTo, KindOf
        <4> QED BY <2>1, <4>1, StoreSection
      <3> QED BY <3>1
    <2>3. HoldsAt(Program, recorded[l], d, t, s, End(Program, t, s), v, w)
      BY <1>2, <2>2 DEF InsideAt
    <2>4. HoldsAfter(Program, recorded[l], d + 1, v, w)
      BY <1>1, <2>3, HoldsEnd
    <2>5. \A c \in L \cup I : c \in Nat /\ (c < d \/ c = d)
      BY <1>2, Alone
    <2>6. ASSUME NEW c \in (d + 1)..(e - 1)
          PROVE  SilentAt(l, c, v)
      <3>1. c \in 0..(e - 1) /\ ~(c < d) /\ c # d
        BY <1>1
      <3> QED BY <2>5, <3>1
    <2>7. d + 1 \in Nat /\ d + 1 <= e
      BY <1>1
    <2> QED BY <1>1, <2>4, <2>6, <2>7, HoldsOn
  <1>3. CASE ~Exclusive(l, d)
    <2>1. KindOf(l, d) \notin {"load", "atomicload"}
      BY <1>1, LoadSilent
    <2>2. IsStore(KindOf(l, d)) /\ StoreNext(l, d)
      BY <1>3, <2>1 DEF Exclusive
    <2>3. StoresTo(l, d, v)
      BY <1>1, <2>2 DEF StoresTo
    <2> DEFINE T == {j \in d..e : StoresTo(l, j, v)}
    <2>4. d \in T
      BY <1>1, <2>3
    <2>5. ASSUME NEW i \in d..e, i \in T, i < e
          PROVE  i + 1 \in T
      <3>1. i \in Nat /\ StoresTo(l, i, v) /\ i + 1 \in d..e
        BY <1>1, <2>5
      <3>2. StoreNext(l, i)
        <4>1. CASE i = d
          BY <2>2, <4>1
        <4>2. CASE i # d
          <5>1. i \in L
            <6>1. i \in 0..(e - 1)
              BY <1>1, <2>5
            <6> QED BY <3>1, <4>2, <6>1 DEF StoresTo
          <5>2. d \in 0..i
            BY <1>1, <2>5
          <5>3. IsStore(KindOf(l, i))
            BY <3>1 DEF StoresTo
          <5> QED BY <4>2, <5>1, <5>2, <5>3 DEF OrderIn
        <4> QED BY <4>1, <4>2
      <3>3. i + 1 \in Clocks(l) /\ IsStore(KindOf(l, i + 1))
        BY <3>2 DEF StoreNext
      <3>4. StoresTo(l, i + 1, v)
        <4>1. PICK j : j = i + 1
          OBVIOUS
        <4>2. StoresTo(l, j, v)
          BY <3>1, <3>3, <4>1, AllStoreTo
        <4> QED BY <4>1, <4>2
      <3> QED BY <3>1, <3>4
    <2> HIDE DEF T
    <2>6. d..e \subseteq T
      BY <1>1, <2>4, <2>5, InductionFrom
    <2>7. e \in T
      BY <1>1, <2>6
    <2> QED BY <2>7 DEF T
  <1> QED BY <1>2, <1>3

\* A section that leaves.
LEMMA LeaveAfter ==
  ASSUME TypeOK, Inductive, KindsTold(program), OneStored(program), NEW l \in Locks,
         NEW L, NEW I, L \subseteq Clocks(l), I \subseteq Clocks(l),
         NEW d \in I, d \notin L, OrderIn(l, L, I), NEW t \in Threads, NEW s \in Nat,
         recorded[l][d + 1] = <<t, s>>, NEW v, NEW w, AfterIn(l, L, I, v, w),
         InsideAt(l, d, t, s, End(Program, t, s), v, w)
  PROVE  AfterIn(l, L \cup {d}, I \ {d}, v, w)
  <1> SUFFICES ASSUME NEW e \in 0..Len(recorded[l]),
                      SettledIn(l, L \cup {d}, I \ {d}, e, v), ~StoresTo(l, e, v)
               PROVE  HoldsAfter(Program, recorded[l], e, v, w)
    BY DEF AfterIn
  <1>1. /\ \A c \in 0..(e - 1) : c \in L \/ c = d \/ SilentAt(l, c, v)
        /\ \A c \in L \cup I : c < e \/ SilentAt(l, c, v)
    BY DEF SettledIn
  <1>2. CASE SilentAt(l, d, v)
    <2>1. SettledIn(l, L, I, e, v)
      BY <1>1, <1>2 DEF SettledIn
    <2> QED BY <2>1 DEF AfterIn
  <1>3. CASE ~SilentAt(l, d, v)
    <2>1. d < e
      BY <1>1, <1>3
    <2> QED BY <1>1, <1>3, <2>1, LeaveHolds
  <1> QED BY <1>2, <1>3

\* While a section that writes v is inside, v is settled for no clock.
LEMMA WriterInside ==
  ASSUME TypeOK, NEW l \in Locks, NEW L, NEW I, I \subseteq Clocks(l),
         NEW d \in I, d \notin L, NEW v, ~SilentAt(l, d, v), NEW w
  PROVE  AfterIn(l, L, I, v, w)
  <1> SUFFICES ASSUME NEW e \in 0..Len(recorded[l]), SettledIn(l, L, I, e, v)
               PROVE  FALSE
    BY DEF AfterIn
  <1>1. d < e
    BY DEF SettledIn
  <1>2. d \in Nat /\ e \in Nat
    <2>1. d \in Clocks(l)
      OBVIOUS
    <2> QED BY <2>1, EntryType
  <1>3. d \in 0..(e - 1)
    BY <1>1, <1>2
  <1> QED BY <1>3 DEF SettledIn

\* What the replayed memory has to be after a step.
LEMMA MemAgain ==
  ASSUME UNCHANGED <<program, recorded>>, NEW l \in Locks, NEW v \in Vars,
         NEW L, NEW I, NEW w, L = Left(l)', I = Inside(l)', w = mem'[v],
         AfterIn(l, L, I, v, w),
         \A t \in Threads : \A d \in Clocks(l) :
           InSection(t)' /\ recorded[l][d + 1] = <<t, sec'[t]>> =>
             InsideAt(l, d, t, sec'[t], acc'[t], v, w)
  PROVE  MemReplay(l, v)'
  <1>1. Program' = Program /\ Clocks(l)' = Clocks(l) /\ recorded' = recorded
        /\ \A c : KindOf(l, c)' = KindOf(l, c) /\ StoreNext(l, c)' = StoreNext(l, c)
    BY ClocksSame DEF Program
  <1>2. \A c : SilentAt(l, c, v)' = SilentAt(l, c, v)
    BY <1>1 DEF SilentAt
  <1>3. \A c : /\ StoresTo(l, c, v)' = StoresTo(l, c, v)
               /\ Exclusive(l, c)' = Exclusive(l, c)
    BY <1>1, <1>2 DEF StoresTo, Exclusive
  <1>4. \A e : SettledIn(l, L, I, e, v)' = SettledIn(l, L, I, e, v)
    BY <1>2 DEF SettledIn
  <1>5. AfterIn(l, L, I, v, w)'
    BY <1>1, <1>3, <1>4 DEF AfterIn
  <1>6. AfterIn(l, Left(l), Inside(l), v, mem[v])'
    BY <1>5 DEF AfterIn, SettledIn
  <1>7. InsideHolds(l, v)'
    BY <1>1, <1>3 DEF InsideHolds, InsideAt
  <1> QED BY <1>6, <1>7 DEF MemReplay

\* The clocks of the sections left and inside are different clocks of the lock.
LEMMA LeftInside ==
  ASSUME TypeOK, NEW l \in Locks
  PROVE  /\ Left(l) \subseteq Clocks(l) /\ Inside(l) \subseteq Clocks(l)
         /\ \A d \in Inside(l) : d \notin Left(l)
         /\ \A d \in Clocks(l) : \A t \in Threads :
              InSection(t) /\ recorded[l][d + 1] = <<t, sec[t]>> => d \in Inside(l)
  <1>1. \A d \in Inside(l) : d \notin Left(l)
    <2> SUFFICES ASSUME NEW d \in Inside(l), d \in Left(l) PROVE FALSE
      OBVIOUS
    <2>1. /\ recorded[l][d + 1] \in Threads \X Nat
          /\ recorded[l][d + 1][2] = sec[recorded[l][d + 1][1]]
          /\ recorded[l][d + 1][2] < sec[recorded[l][d + 1][1]]
      BY EntryType DEF Left, Inside
    <2>2. recorded[l][d + 1][2] \in Nat
      BY <2>1
    <2> QED BY <2>1, <2>2
  <1> QED BY <1>1 DEF Left, Inside

\* An access in the replay.
LEMMA MemReplayAccess ==
  ASSUME TypeOK, Inductive, OrderInv, KindsTold(program), mode = "replay",
         NEW t \in Threads, Step(t), ProgramStep(t), NEW l \in Locks, NEW v \in Vars,
         GuardedBy(program, l, v), MemReplay(l, v)
  PROVE  MemReplay(l, v)'
  <1>p. PICK L, I, w, x, s, a :
          /\ L = Left(l) /\ I = Inside(l) /\ w = mem[v] /\ x = mem'[v]
          /\ s = sec[t] /\ a = acc[t]
    OBVIOUS
  <1>1. /\ UNCHANGED <<sec, recorded, program>>
        /\ \A u \in Threads : InSection(u)' <=> InSection(u)
        /\ \A u \in Threads : u # t => acc'[u] = acc[u]
        /\ InSection(t) /\ acc'[t] = a + 1 /\ a \in Nat \ {0}
        /\ s \in 1..Len(Program[t]) /\ s \in Nat
        /\ LockOf(t) = LockAt(t, s) /\ a \in 1..Len(Body(Program, t, s))
    <2>1. /\ UNCHANGED <<sec, recorded, program>>
          /\ \A u \in Threads : InSection(u)' <=> InSection(u)
          /\ \A u \in Threads : u # t => acc'[u] = acc[u]
          /\ InSection(t) /\ acc'[t] = acc[t] + 1 /\ acc[t] \in Nat \ {0}
      BY AccessWrites
    <2>2. /\ sec[t] \in 1..Len(Program[t]) /\ LockOf(t) = LockAt(t, sec[t])
          /\ acc[t] \in 1..Len(Body(Program, t, sec[t]))
      BY AccessWrites
    <2>3. sec[t] \in Nat
      BY DEF TypeOK, ProgramTypeOK
    <2> QED BY <1>p, <2>1, <2>2, <2>3
  <1>2. /\ x = IF WritesTo(Program, t, s, a, v) THEN <<t, s, a>> ELSE w
        /\ LockOf(t) # l => ~WritesTo(Program, t, s, a, v)
    BY <1>p, AccessWrites
  <1>3. L = Left(l)' /\ I = Inside(l)'
    BY <1>p, StayReplay
  <1>4. /\ L \subseteq Clocks(l) /\ I \subseteq Clocks(l) /\ \A d \in I : d \notin L
        /\ \A d \in Clocks(l) : \A u \in Threads :
             InSection(u) /\ recorded[l][d + 1] = <<u, sec[u]>> => d \in I
    BY <1>p, LeftInside
  <1>5. /\ AfterIn(l, L, I, v, w) /\ OrderIn(l, L, I)
        /\ \A u \in Threads : \A d \in Clocks(l) :
             InSection(u) /\ recorded[l][d + 1] = <<u, sec[u]>> =>
               InsideAt(l, d, u, sec[u], acc[u], v, w)
    BY <1>p DEF MemReplay, InsideHolds, OrderInv
  <1>6. CASE ~WritesTo(Program, t, s, a, v)
    <2>1. x = w
      BY <1>2, <1>6
    <2>2. ASSUME NEW d \in Clocks(l), recorded[l][d + 1] = <<t, s>>
          PROVE  InsideAt(l, d, t, s, a + 1, v, w)
      <3> SUFFICES ASSUME Exclusive(l, d)
                   PROVE  HoldsAt(Program, recorded[l], d, t, s, a + 1, v, w)
        BY DEF InsideAt
      <3>1. ~(StoresTo(l, d, v) /\ a = 1)
        <4> SUFFICES ASSUME StoresTo(l, d, v), a = 1 PROVE FALSE
          OBVIOUS
        <4>1. IsStore(KindAt(t, s)) /\ ~SilentOn(Program, t, s, End(Program, t, s), v)
          BY <2>2 DEF StoresTo, KindOf, SilentAt
        <4>2. Body(Program, t, s)[1].op = "store" /\ Body(Program, t, s)[1].var = v
          BY <1>1, <4>1, StoreSection
        <4> QED BY <1>6, <4>2 DEF WritesTo
      <3>2. InsideAt(l, d, t, s, a, v, w)
        BY <1>p, <1>1, <1>5, <2>2
      <3>3. HoldsAt(Program, recorded[l], d, t, s, a, v, w)
        BY <3>1, <3>2 DEF InsideAt
      <3> QED BY <1>1, <1>6, <3>3, HoldsNext
    <2>3. ASSUME NEW u \in Threads, NEW d \in Clocks(l), InSection(u)',
                 recorded[l][d + 1] = <<u, sec'[u]>>
          PROVE  InsideAt(l, d, u, sec'[u], acc'[u], v, x)
      <3>1. InSection(u) /\ sec'[u] = sec[u] /\ recorded[l][d + 1] = <<u, sec[u]>>
        BY <1>1, <2>3
      <3>2. CASE u = t
        BY <1>p, <1>1, <2>1, <2>2, <3>1, <3>2
      <3>3. CASE u # t
        BY <1>1, <1>5, <2>1, <3>1, <3>3
      <3> QED BY <3>2, <3>3
    <2> QED BY <1>p, <1>1, <1>3, <1>5, <2>1, <2>3, MemAgain
  <1>7. CASE WritesTo(Program, t, s, a, v)
    <2>1. x = <<t, s, a>> /\ LockOf(t) = l
      BY <1>2, <1>7
    <2>2. PICK c \in Clocks(l) : recorded[l][c + 1] = <<t, s>>
      <3>1. HasSection(t)
        BY <1>1, <1>p DEF HasSection
      <3> QED BY <1>p, <2>1, <3>1, ClockOf
    <2>3. c \in I /\ c \notin L
      BY <1>p, <1>1, <1>4, <2>2
    <2>4. ~SilentAt(l, c, v)
      <3>1. Len(Body(Program, t, s)) \in Nat
        BY <1>1, BodyTyped
      <3>2. a \in 1..(End(Program, t, s) - 1)
        BY <1>1, <3>1 DEF End
      <3>3. ~SilentOn(Program, t, s, End(Program, t, s), v)
        BY <1>7, <3>2 DEF SilentOn
      <3> QED BY <2>2, <3>3 DEF SilentAt
    <2>5. AfterIn(l, L, I, v, x)
      BY <1>4, <2>3, <2>4, WriterInside
    <2>6. ASSUME NEW u \in Threads, NEW d \in Clocks(l), InSection(u)',
                 recorded[l][d + 1] = <<u, sec'[u]>>
          PROVE  InsideAt(l, d, u, sec'[u], acc'[u], v, x)
      <3>1. InSection(u) /\ sec'[u] = sec[u] /\ recorded[l][d + 1] = <<u, sec[u]>>
        BY <1>1, <2>6
      <3>2. CASE u = t
        <4>1. HoldsAt(Program, recorded[l], d, t, s, a + 1, v, <<t, s, a>>)
          BY <1>1, <1>7, HoldsNext
        <4> QED BY <1>p, <1>1, <2>1, <3>1, <3>2, <4>1 DEF InsideAt
      <3>3. CASE u # t
        <4> SUFFICES ASSUME Exclusive(l, d) PROVE FALSE
          BY DEF InsideAt
        <4>1. d \in I /\ d \notin L
          BY <1>4, <3>1
        <4>2. /\ \A e \in L \cup I : e \in Nat /\ (e < d \/ e = d)
              /\ \A e \in 0..(d - 1) : e \in L
          BY <1>4, <1>5, <4>1, Alone
        <4>3. c # d
          BY <2>2, <3>1, <3>3
        <4>4. c \in Nat /\ c < d /\ d \in Nat
          BY <2>3, <4>1, <4>2, <4>3
        <4>5. c \in 0..(d - 1)
          BY <4>4
        <4> QED BY <2>3, <4>2, <4>5
      <3> QED BY <3>2, <3>3
    <2> QED BY <1>p, <1>1, <1>3, <2>5, <2>6, MemAgain
  <1> QED BY <1>6, <1>7

\* A gate that is passed in the replay.
LEMMA MemReplayEnter ==
  ASSUME TypeOK, Inductive, BodyInv, OrderInv', mode = "replay", mode' = "replay",
         NEW t \in Threads, Step(t), GateInReplay(t), NEW l \in Locks, NEW v \in Vars,
         MemReplay(l, v)
  PROVE  MemReplay(l, v)'
  <1>p. PICK L, I, w, J :
          L = Left(l) /\ I = Inside(l) /\ w = mem[v] /\ J = Inside(l)'
    OBVIOUS
  <1>1. /\ UNCHANGED <<sec, acc, mem, recorded, program>>
        /\ \A u \in Threads : u # t => pc'[u] = pc[u]
        /\ pc[t] = "run" /\ acc[t] = 1
    <2>1. pc[t] = "run"
      BY DEF GateInReplay, AtGateIn
    <2> QED BY <2>1, StepFrame, QuietFrame DEF Quiet, BodyInv
  <1>2. \A u \in Threads : u # t => (InSection(u)' <=> InSection(u))
    BY <1>1 DEF InSection
  <1>3. PICK k, s, d : Entering(t, k, s, d)
    BY EnterReplay
  <1>4. /\ k \in Locks /\ d \in Clocks(k) /\ k = LockAt(t, s) /\ s = sec[t]
        /\ recorded[k][d + 1] = <<t, s>> /\ d \notin Left(k) /\ d \notin Inside(k)
        /\ L = Left(l)'
        /\ l # k => J = I
        /\ l = k => J = I \cup {d}
    BY <1>p, <1>3 DEF Entering
  <1>5. /\ L \subseteq Clocks(l) /\ I \subseteq Clocks(l) /\ AfterIn(l, L, I, v, w)
    BY <1>p, LeftInside DEF MemReplay
  <1>6. \A u \in Threads : \A e \in Clocks(l) :
             InSection(u) /\ recorded[l][e + 1] = <<u, sec[u]>> =>
               InsideAt(l, e, u, sec[u], acc[u], v, w)
    BY <1>p DEF MemReplay, InsideHolds
  <1>7. AfterIn(l, L, J, v, w)
    <2>1. AfterIn(l, L, I \cup {d}, v, w)
      BY <1>5, EnterAfter
    <2> QED BY <1>4, <1>5, <2>1
  <1>8. ASSUME NEW e \in Clocks(l), recorded[l][e + 1] = <<t, s>>
        PROVE  InsideAt(l, e, t, s, 1, v, w)
    <2>1. l = k
      BY <1>4, <1>8, EntrySection DEF Inductive
    <2>2. e = d
      BY <1>4, <1>8, <2>1, OneClock DEF Inductive
    <2>3. OrderIn(l, L, J)
      <3>1. OrderIn(l, Left(l), Inside(l))'
        BY DEF OrderInv
      <3>2. OrderIn(l, L, J)'
        BY <1>p, <1>4, <3>1 DEF OrderIn
      <3> QED BY <1>1, <3>2, ClocksSame
    <2>4. OrderIn(l, L, I \cup {d})
      BY <1>4, <2>1, <2>3
    <2> SUFFICES ASSUME Exclusive(l, d), ~StoresTo(l, d, v)
                 PROVE  HoldsAt(Program, recorded[l], d, t, s, 1, v, w)
      BY <2>2 DEF InsideAt
    <2>5. d \in Clocks(l) /\ d \notin L /\ d \notin I
      BY <1>p, <1>4, <2>1
    <2>6. HoldsAfter(Program, recorded[l], d, v, w)
      BY <1>5, <2>4, <2>5, EnterHolds
    <2> QED BY <2>6, HoldsAtFirst
  <1>9. ASSUME NEW u \in Threads, NEW e \in Clocks(l), InSection(u)',
               recorded[l][e + 1] = <<u, sec'[u]>>
        PROVE  InsideAt(l, e, u, sec'[u], acc'[u], v, w)
    <2>1. sec'[u] = sec[u] /\ acc'[u] = acc[u]
      BY <1>1
    <2>2. CASE u = t
      BY <1>1, <1>4, <1>8, <1>9, <2>1, <2>2
    <2>3. CASE u # t
      BY <1>2, <1>6, <1>9, <2>1, <2>3
    <2> QED BY <2>2, <2>3
  <1>10. w = mem'[v]
    BY <1>p, <1>1
  <1> QED BY <1>p, <1>1, <1>4, <1>7, <1>9, <1>10, MemAgain

\* A gate that is left in the replay.
LEMMA MemReplayLeave ==
  ASSUME TypeOK, Inductive, BodyInv, OrderInv, KindsTold(program), OneStored(program),
         NEW t \in Threads, Step(t), GateOutReplay(t), NEW l \in Locks, NEW v \in Vars,
         MemReplay(l, v)
  PROVE  MemReplay(l, v)'
  <1>p. PICK L, I, w, K, J :
          /\ L = Left(l) /\ I = Inside(l) /\ w = mem[v]
          /\ K = Left(l)' /\ J = Inside(l)'
    OBVIOUS
  <1>1. /\ UNCHANGED <<mem, recorded, program>> /\ mode = "replay"
        /\ \A u \in Threads : u # t =>
             pc'[u] = pc[u] /\ sec'[u] = sec[u] /\ acc'[u] = acc[u]
        /\ pc[t] = "body" /\ pc'[t] = "run" /\ acc[t] = End(Program, t, sec[t])
    BY StepFrame, LeaveReplayFrame
  <1>2. /\ ~InSection(t)' /\ InSection(t)
        /\ \A u \in Threads : u # t => (InSection(u)' <=> InSection(u))
    BY <1>1 DEF InSection
  <1>3. PICK k, s, d : Leaving(t, k, s, d)
    BY LeaveReplay
  <1>4. /\ k \in Locks /\ s \in Nat /\ d \in Clocks(k) /\ s = sec[t]
        /\ recorded[k][d + 1] = <<t, s>> /\ d \notin Left(k) /\ d \in Inside(k)
        /\ l # k => K = L /\ J = I
        /\ l = k => K = L \cup {d} /\ J = I \ {d}
    BY <1>p, <1>3 DEF Leaving
  <1>5. /\ L \subseteq Clocks(l) /\ I \subseteq Clocks(l)
        /\ AfterIn(l, L, I, v, w) /\ OrderIn(l, L, I)
    BY <1>p, <1>1, LeftInside DEF MemReplay, OrderInv
  <1>6. \A u \in Threads : \A e \in Clocks(l) :
             InSection(u) /\ recorded[l][e + 1] = <<u, sec[u]>> =>
               InsideAt(l, e, u, sec[u], acc[u], v, w)
    BY <1>p DEF MemReplay, InsideHolds
  <1>7. AfterIn(l, K, J, v, w)
    <2>1. CASE l # k
      BY <1>4, <1>5, <2>1
    <2>2. CASE l = k
      <3>1. InsideAt(l, d, t, s, End(Program, t, s), v, w)
        BY <1>1, <1>2, <1>4, <1>6, <2>2
      <3>2. d \in I /\ d \notin L /\ recorded[l][d + 1] = <<t, s>>
        BY <1>p, <1>4, <2>2
      <3>3. AfterIn(l, L \cup {d}, I \ {d}, v, w)
        BY <1>4, <1>5, <3>1, <3>2, LeaveAfter
      <3> QED BY <1>4, <2>2, <3>3
    <2> QED BY <2>1, <2>2
  <1>8. ASSUME NEW u \in Threads, NEW e \in Clocks(l), InSection(u)',
               recorded[l][e + 1] = <<u, sec'[u]>>
        PROVE  InsideAt(l, e, u, sec'[u], acc'[u], v, w)
    <2>1. u # t
      BY <1>2, <1>8
    <2> QED BY <1>1, <1>2, <1>6, <1>8, <2>1
  <1>9. w = mem'[v]
    BY <1>p, <1>1
  <1> QED BY <1>p, <1>1, <1>7, <1>8, <1>9, MemAgain

\* A nested gate touches no memory.
LEMMA MemReplayNested ==
  ASSUME TypeOK, Inductive, mode = "replay", NEW t \in Threads, Step(t),
         NestedIn(t) \/ NestedOut(t), NEW l \in Locks, NEW v \in Vars, MemReplay(l, v)
  PROVE  MemReplay(l, v)'
  <1>p. PICK L, I, w : L = Left(l) /\ I = Inside(l) /\ w = mem[v]
    OBVIOUS
  <1>1. UNCHANGED <<sec, acc, mem, recorded, program>>
    BY StepFrame, QuietFrame DEF Quiet
  <1>2. /\ \A u \in Threads : InSection(u)' <=> InSection(u)
        /\ L = Left(l)' /\ I = Inside(l)' /\ w = mem'[v]
    BY <1>p, <1>1, StayReplay
  <1>3. AfterIn(l, L, I, v, w)
    BY <1>p DEF MemReplay
  <1>4. ASSUME NEW u \in Threads, NEW e \in Clocks(l), InSection(u)',
               recorded[l][e + 1] = <<u, sec'[u]>>
        PROVE  InsideAt(l, e, u, sec'[u], acc'[u], v, w)
    <2>1. InSection(u) /\ sec'[u] = sec[u] /\ acc'[u] = acc[u]
      BY <1>1, <1>2, <1>4
    <2> QED BY <1>p, <1>4, <2>1 DEF MemReplay, InsideHolds
  <1> QED BY <1>1, <1>2, <1>3, <1>4, MemAgain

\* Every step of a thread keeps the memory that of a serial execution.
LEMMA MemStep ==
  ASSUME TypeOK, Inductive, BodyInv, OrderInv, OrderInv', MemInv, KindsTold(program),
         OneStored(program), NEW t \in Threads, Step(t)
  PROVE  MemInv'
  <1>1. program' = program /\ mode' = mode
    BY StepFrame
  <1> SUFFICES ASSUME NEW l \in Locks, NEW v \in Vars, GuardedBy(program, l, v)
               PROVE  MemHolds(l, v)'
    BY <1>1 DEF MemInv
  <1>2. MemHolds(l, v)
    BY DEF MemInv
  <1>3. ASSUME mode = "record"
        PROVE  MemRecord(l, v)'
    <2>1. MemRecord(l, v)
      BY <1>2, <1>3 DEF MemHolds
    <2> QED BY <1>3, <2>1, MemRecordQuiet, MemRecordAccess, MemRecordLeave, MemRecordLate
        DEF Step, Quiet, GateOutReplay
  <1>4. ASSUME mode = "replay"
        PROVE  MemReplay(l, v)'
    <2>1. MemReplay(l, v)
      BY <1>2, <1>4 DEF MemHolds
    <2>2. ~GateInRecord(t) /\ ~GateOutRecord(t) /\ ~FileEpoch(t) /\ ~ResetSlot(t)
      BY <1>4, LateFrame DEF GateInRecord, GateOutRecord
    <2> QED BY <1>1, <1>4, <2>1, <2>2, MemReplayEnter, MemReplayLeave, MemReplayNested,
               MemReplayAccess DEF Step
  <1> QED BY <1>1, <1>3, <1>4 DEF MemHolds

-------------------------------------------------------------------------------
\* The values that were read.

\* What a read finds at its clock stays true when the order grows behind it.
LEMMA FindsKept ==
  ASSUME TypeOK, NEW u \in Threads, NEW s, NEW a, NEW p \in Reads(Program, u, s, a), NEW w,
         NEW k \in Nat, k <= Len(recorded[LockAt(u, p[1])]), Finds(u, p, k, w),
         program' = program,
         \A l \in Locks : SamePrefix(recorded[l], recorded'[l], Len(recorded[l]))
  PROVE  Finds(u, p, k, w)'
  <1>1. Program' = Program /\ VarAt(u, p)' = VarAt(u, p)
    BY DEF Program, VarAt
  <1> SUFFICES ASSUME NEW l \in Locks, GuardedBy(program, l, VarAt(u, p))
               PROVE  HoldsAt(Program, recorded'[l], k, u, p[1], p[2], VarAt(u, p), w)
    BY <1>1 DEF Finds
  <1>2. l = LockAt(u, p[1])
    BY PastTyped
  <1>3. SamePrefix(recorded[l], recorded'[l], k)
    <2>1. Len(recorded[l]) \in Nat /\ k <= Len(recorded[l])
      BY <1>2 DEF TypeOK
    <2> QED BY <2>1 DEF SamePrefix
  <1>4. HoldsAt(Program, recorded[l], k, u, p[1], p[2], VarAt(u, p), w)
    BY DEF Finds
  <1> QED BY <1>3, <1>4, HoldsKept

\* The clock of a section is at most the number of those before it.
LEMMA ClockBound ==
  ASSUME TypeOK, NEW u \in Threads, NEW p \in Past(u), NEW k \in Nat, ClockIs(u, p[1], k)
  PROVE  LockAt(u, p[1]) \in Locks /\ k <= Len(recorded[LockAt(u, p[1])])
  <1>1. LockAt(u, p[1]) \in Locks
    BY PastTyped, LockAtType DEF Past
  <1>2. PICK l \in Locks : l = LockAt(u, p[1])
    BY <1>1
  <1>3. Len(recorded[l]) \in Nat
    BY DEF TypeOK
  <1>4. CASE IssuedTo(l, k, u, p[1])
    BY <1>2, <1>3, <1>4 DEF IssuedTo, Clocks
  <1> QED BY <1>2, <1>3, <1>4 DEF ClockIs

\* So a log stays right while the thread reads nothing and the clocks stay.
LEMMA LogKept ==
  ASSUME TypeOK, NEW u \in Threads, LogShape(u), LogFinds(u),
         program' = program, Past(u)' = Past(u), log'[u] = log[u],
         \A l \in Locks : SamePrefix(recorded[l], recorded'[l], Len(recorded[l])),
         \A p \in Past(u) : \A k \in Nat : ClockIs(u, p[1], k)' => ClockIs(u, p[1], k)
  PROVE  LogShape(u)' /\ LogFinds(u)'
  <1>1. Program' = Program /\ \A p : PlaceOf(Program, u, p)' = PlaceOf(Program, u, p)
    BY DEF Program
  <1>2. LogShape(u)'
    BY <1>1 DEF LogShape, Shape, Past
  <1>3. ASSUME NEW p \in Past(u), NEW k \in Nat, ClockIs(u, p[1], k)'
        PROVE  Finds(u, p, k, log[u][PlaceOf(Program, u, p)])'
    <2>1. ClockIs(u, p[1], k)
      BY <1>3
    <2>2. k <= Len(recorded[LockAt(u, p[1])])
      BY <2>1, ClockBound
    <2>w. PICK w : w = log[u][PlaceOf(Program, u, p)]
      OBVIOUS
    <2>3. Finds(u, p, k, w)
      BY <2>1, <2>w DEF LogFinds
    <2>4. p \in Reads(Program, u, sec[u], acc[u])
      BY DEF Past
    <2>5. Finds(u, p, k, w)'
      BY <2>2, <2>3, <2>4, FindsKept
    <2>6. log'[u][PlaceOf(Program, u, p)'] = w
      BY <1>1, <2>w
    <2> QED BY <2>5, <2>6 DEF Finds
  <1> QED BY <1>2, <1>3 DEF LogFinds

\* Where the clocks of the sections come from.
LEMMA ClockWas ==
  ASSUME TypeOK, Inductive, NEW t \in Threads, Step(t), NEW u \in Threads, NEW s, NEW k,
         NEW l \in Locks, IssuedTo(l, k, u, s)'
  PROVE  \/ IssuedTo(l, k, u, s)
         \/ /\ GateOutRecord(t) /\ u = t /\ s = sec[t] /\ l = LockOf(t)
            /\ k = Len(recorded[l])
  <1>1. ~GateOutRecord(t) => recorded' = recorded
    BY StepFrame
  <1>2. CASE ~GateOutRecord(t)
    BY <1>1, <1>2 DEF IssuedTo, Clocks
  <1>3. CASE GateOutRecord(t)
    <2>1. /\ k \in 0..(Len(recorded'[l]) - 1) /\ recorded'[l][k + 1] = <<u, s>>
      BY DEF IssuedTo, Clocks
    <2>2. Len(recorded[l]) \in Nat /\ Len(recorded'[l]) \in Nat
      <3>1. Next
        BY DEF Next
      <3>2. TypeOK'
        BY <3>1, TypeStep DEF Inductive
      <3>3. recorded[l] \in Seq(Threads \X Nat) /\ recorded'[l] \in Seq(Threads \X Nat)
        BY <3>2 DEF TypeOK
      <3> QED BY <3>3
    <2>3. PICK i : i = k + 1
      OBVIOUS
    <2>4. i \in 1..Len(recorded'[l]) /\ k = i - 1 /\ k \in Nat
      BY <2>1, <2>2, <2>3
    <2>5. \/ i \in 1..Len(recorded[l]) /\ recorded'[l][i] = recorded[l][i]
          \/ /\ l = LockOf(t) /\ i = Len(recorded[l]) + 1
             /\ recorded'[l][i] = <<t, sec[t]>>
      BY <1>3, <2>4, OldOrNew DEF Inductive
    <2>6. CASE i \in 1..Len(recorded[l]) /\ recorded'[l][i] = recorded[l][i]
      BY <2>1, <2>2, <2>3, <2>4, <2>6 DEF IssuedTo, Clocks
    <2>7. CASE /\ l = LockOf(t) /\ i = Len(recorded[l]) + 1
               /\ recorded'[l][i] = <<t, sec[t]>>
      <3>1. u = t /\ s = sec[t]
        BY <2>1, <2>3, <2>7
      <3> QED BY <1>3, <2>2, <2>4, <2>7, <3>1
    <2> QED BY <2>5, <2>6, <2>7
  <1> QED BY <1>2, <1>3

\* The threads that do not step keep their logs.
LEMMA LogOthers ==
  ASSUME TypeOK, Inductive, NEW t \in Threads, Step(t),
         NEW u \in Threads, u # t, LogShape(u), LogFinds(u)
  PROVE  LogShape(u)' /\ LogFinds(u)'
  <1>1. /\ program' = program /\ mode' = mode /\ log'[u] = log[u]
        /\ pc'[u] = pc[u] /\ sec'[u] = sec[u] /\ acc'[u] = acc[u]
        /\ \A l \in Locks : SamePrefix(recorded[l], recorded'[l], Len(recorded[l]))
        /\ ~GateOutRecord(t) => recorded' = recorded
    BY StepFrame
  <1>2. Past(u)' = Past(u)
    BY <1>1 DEF Past, Program
  <1>3. \A s : LockAt(u, s)' = LockAt(u, s)
    BY <1>1, LockKept
  <1>4. ASSUME NEW p \in Past(u), NEW k \in Nat, ClockIs(u, p[1], k)'
        PROVE  ClockIs(u, p[1], k)
    <2>p. PICK l, s : l = LockAt(u, p[1]) /\ s = p[1]
      OBVIOUS
    <2>1. l \in Locks
      BY <2>p, PastTyped, LockAtType DEF Past
    <2>2. \/ IssuedTo(l, k, u, s)'
          \/ mode = "record" /\ s = sec[u] /\ InSection(u) /\ k = Len(recorded'[l])
      <3>1. \/ IssuedTo(LockAt(u, p[1]), k, u, p[1])'
            \/ mode' = "record" /\ p[1] = sec'[u] /\ InSection(u)' /\ k = Len(recorded'[LockAt(u, p[1])'])
        BY <1>4 DEF ClockIs
      <3>2. InSection(u)' <=> InSection(u)
        BY <1>1 DEF InSection
      <3>3. IssuedTo(LockAt(u, p[1]), k, u, p[1])' => IssuedTo(l, k, u, s)'
        BY <1>3, <2>p DEF IssuedTo, Clocks
      <3> QED BY <1>1, <1>3, <2>p, <3>1, <3>2, <3>3
    <2>3. CASE IssuedTo(l, k, u, s)'
      <3>1. IssuedTo(l, k, u, s)
        BY <2>1, <2>3, ClockWas
      <3> QED BY <2>p, <3>1 DEF ClockIs
    <2>4. CASE mode = "record" /\ s = sec[u] /\ InSection(u) /\ k = Len(recorded'[l])
      <3>1. l = LockOf(u)
        <4>1. HasSection(u)
          BY <2>4 DEF Inductive, NestingInv, InSection
        <4> QED BY <2>p, <2>4, <4>1, SectionType
      <3>2. recorded'[l] = recorded[l]
        <4>1. CASE GateOutRecord(t)
          <5>1. InSection(t)
            BY <4>1 DEF GateOutRecord, AtGateOut, InSection
          <5>2. LockOf(t) # l
            BY <2>4, <3>1, <5>1, OneInside
          <5> QED BY <2>1, <4>1, <5>2, RecordedAfter DEF Inductive
        <4> QED BY <1>1, <4>1
      <3> QED BY <2>p, <2>4, <3>2 DEF ClockIs
    <2> QED BY <2>2, <2>3, <2>4
  <1> QED BY <1>1, <1>2, <1>4, LogKept

\* The thread that enters or leaves a gate keeps its log: the section takes, when it
\* leaves, the clock it would have taken.
LEMMA LogGate ==
  ASSUME TypeOK, Inductive, BodyInv, NEW t \in Threads, Step(t), ~ProgramStep(t),
         LogShape(t), LogFinds(t)
  PROVE  LogShape(t)' /\ LogFinds(t)'
  <1>1. /\ program' = program /\ mode' = mode
        /\ \A l \in Locks : SamePrefix(recorded[l], recorded'[l], Len(recorded[l]))
        /\ ~GateOutRecord(t) => recorded' = recorded
    BY StepFrame
  <1>2. Program' = Program /\ \A s : LockAt(t, s)' = LockAt(t, s)
    BY <1>1, LockKept
  <1>3. log' = log
    BY QuietFrame, LeaveRecordFrame, LateFrame, LeaveReplayFrame DEF Step, Quiet
  <1>4. Past(t)' = Past(t)
    <2>1. CASE Quiet(t) \/ GateOutRecord(t) \/ FileEpoch(t)
      <3>1. sec'[t] = sec[t] /\ acc'[t] = acc[t]
        BY <2>1, QuietFrame, LeaveRecordFrame, LateFrame
      <3> QED BY <1>2, <3>1 DEF Past
    <2>2. CASE ResetSlot(t) \/ GateOutReplay(t)
      <3>1. /\ sec'[t] = sec[t] + 1 /\ acc'[t] = 1
            /\ sec[t] \in 1..Len(Program[t])
            /\ acc[t] = End(Program, t, sec[t])
        BY <2>2, LateFrame, LeaveReplayFrame
      <3> QED BY <1>2, <3>1, BodyTyped, ProgramTyped, ReadsEnd DEF Past
    <2> QED BY <2>1, <2>2 DEF Step, Quiet
  <1>5. ASSUME NEW p \in Past(t), NEW k \in Nat, ClockIs(t, p[1], k)'
        PROVE  ClockIs(t, p[1], k)
    <2>p. PICK l, s : l = LockAt(t, p[1]) /\ s = p[1]
      OBVIOUS
    <2>1. l \in Locks
      BY <2>p, PastTyped, LockAtType DEF Past
    <2>2. \/ IssuedTo(l, k, t, s)'
          \/ mode = "record" /\ s = sec'[t] /\ InSection(t)' /\ k = Len(recorded'[l])
      <3>1. \/ IssuedTo(LockAt(t, p[1]), k, t, p[1])'
            \/ mode' = "record" /\ p[1] = sec'[t] /\ InSection(t)' /\ k = Len(recorded'[LockAt(t, p[1])'])
        BY <1>5 DEF ClockIs
      <3>2. IssuedTo(LockAt(t, p[1]), k, t, p[1])' => IssuedTo(l, k, t, s)'
        BY <1>2, <2>p DEF IssuedTo, Clocks
      <3> QED BY <1>1, <1>2, <2>p, <3>1, <3>2
    <2>3. CASE IssuedTo(l, k, t, s)'
      <3>1. \/ IssuedTo(l, k, t, s)
            \/ GateOutRecord(t) /\ s = sec[t] /\ k = Len(recorded[l])
        BY <2>1, <2>3, ClockWas
      <3>2. GateOutRecord(t) => mode = "record" /\ InSection(t)
        BY DEF GateOutRecord, AtGateOut, InSection
      <3> QED BY <2>p, <3>1, <3>2 DEF ClockIs
    <2>4. CASE mode = "record" /\ s = sec'[t] /\ InSection(t)' /\ k = Len(recorded'[l])
      <3>1. Quiet(t)
        <4>1. ~GateOutRecord(t) /\ ~FileEpoch(t) /\ ~ResetSlot(t) /\ ~GateOutReplay(t)
          BY <2>4, LeaveRecordFrame, LateFrame, LeaveReplayFrame DEF InSection
        <4> QED BY <4>1 DEF Step, Quiet
      <3>2. /\ sec' = sec /\ recorded' = recorded /\ pc[t] \in {"run", "body", "nestout"}
        BY <3>1, QuietFrame
      <3>3. pc[t] # "run"
        BY <2>p, <2>4, <3>2, PastSection DEF Inductive
      <3> QED BY <2>p, <2>4, <3>2, <3>3 DEF ClockIs, InSection
    <2> QED BY <2>2, <2>3, <2>4
  <1> QED BY <1>1, <1>3, <1>4, <1>5, LogKept

\* A load section finds its variable settled.
LEMMA LoadSettled ==
  ASSUME TypeOK, Inductive, KindsTold(program), NEW l \in Locks, NEW L, NEW I,
         L \subseteq Clocks(l), I \subseteq Clocks(l), OrderIn(l, L, I),
         NEW d \in I, d \notin L, KindOf(l, d) \in {"load", "atomicload"}, NEW v
  PROVE  SettledIn(l, L, I, d, v) /\ ~StoresTo(l, d, v) /\ d \in 0..Len(recorded[l])
  <1>1. d \in Nat /\ d \in Clocks(l) /\ d \in 0..Len(recorded[l])
    <2>1. d \in Nat /\ d + 1 \in 1..Len(recorded[l]) /\ Len(recorded[l]) \in Nat
      BY EntryType DEF TypeOK
    <2> QED BY <2>1
  <1>2. ASSUME NEW c \in 0..(d - 1)
        PROVE  c \in L \/ SilentAt(l, c, v)
    <2>1. SUFFICES ASSUME c \notin L PROVE SilentAt(l, c, v)
      OBVIOUS
    <2>2. c \in 0..d /\ c # d /\ c \in c..d
      BY <1>1, <1>2
    <2>3. Alike(l, c, d)
      BY <2>1, <2>2 DEF OrderIn
    <2>4. KindOf(l, c) = KindOf(l, d)
      BY <2>2, <2>3 DEF Alike
    <2>5. c \in Clocks(l)
      <3>1. Len(recorded[l]) \in Nat /\ d \in 0..(Len(recorded[l]) - 1)
        BY <1>1 DEF TypeOK, Clocks
      <3> QED BY <1>1, <2>2, <3>1 DEF Clocks
    <2> QED BY <2>4, <2>5, LoadSilent
  <1>3. ASSUME NEW c \in L \cup I
        PROVE  c < d \/ SilentAt(l, c, v)
    <2>1. c \in Clocks(l) /\ c \in Nat
      BY EntryType
    <2>2. CASE c = d
      BY <1>1, <2>2, LoadSilent
    <2>3. CASE d < c
      <3>1. d \in 0..c /\ d # c /\ d \in d..c
        BY <1>1, <2>1, <2>3
      <3>2. Alike(l, d, c)
        BY <3>1 DEF OrderIn
      <3>3. KindOf(l, d) = KindOf(l, c)
        BY <3>1, <3>2 DEF Alike
      <3> QED BY <2>1, <3>3, LoadSilent
    <2> QED BY <1>1, <2>1, <2>2, <2>3
  <1>4. ~StoresTo(l, d, v)
    BY DEF StoresTo, IsStore
  <1> QED BY <1>1, <1>2, <1>3, <1>4 DEF SettledIn

\* What a thread reads is what its variable holds at the clock of its section.
LEMMA ReadHolds ==
  ASSUME TypeOK, Inductive, OrderInv, MemInv, KindsTold(program), NEW t \in Threads,
         Step(t), ProgramStep(t), IsRead(Program, t, sec[t], acc[t]),
         NEW l \in Locks, l = LockOf(t), NEW v \in Vars, GuardedBy(program, l, v),
         NEW k \in Nat, ClockIs(t, sec[t], k)
  PROVE  HoldsAt(Program, recorded[l], k, t, sec[t], acc[t], v, mem[v])
  <1>p. PICK s, a : s = sec[t] /\ a = acc[t]
    OBVIOUS
  <1>1. /\ InSection(t) /\ s \in 1..Len(Program[t]) /\ s \in Nat
        /\ l = LockAt(t, s) /\ a \in 1..Len(Body(Program, t, s)) /\ a \in Nat
    <2>1. /\ InSection(t) /\ sec[t] \in 1..Len(Program[t]) /\ LockOf(t) = LockAt(t, sec[t])
          /\ acc[t] \in 1..Len(Body(Program, t, sec[t]))
      BY AccessWrites
    <2>2. sec[t] \in Nat /\ acc[t] \in Nat
      BY DEF TypeOK, ProgramTypeOK
    <2> QED BY <1>p, <2>1, <2>2
  <1>2. \/ IssuedTo(l, k, t, s)
        \/ mode = "record" /\ k = Len(recorded[l])
    BY <1>p, <1>1 DEF ClockIs
  <1>3. CASE mode = "record"
    <2>1. k = Len(recorded[l])
      <3> SUFFICES ASSUME IssuedTo(l, k, t, s) PROVE FALSE
        BY <1>2
      <3>1. PICK i : i = k + 1
        OBVIOUS
      <3>2. k \in Clocks(l) /\ recorded[l][i] = <<t, s>>
        BY <3>1 DEF IssuedTo
      <3>3. i \in 1..Len(recorded[l])
        BY <3>1, <3>2, EntryType
      <3>4. TookAt(recorded[l][i])
        BY <1>3, <3>3, EntryTook DEF Inductive
      <3>5. s < sec[t] \/ (s = sec[t] /\ pc[t] \in {"filing", "resetting"})
        BY <3>2, <3>4 DEF TookAt
      <3> QED BY <1>p, <1>1, <3>5 DEF InSection
    <2>2. MemRecord(l, v)
      BY <1>3 DEF MemInv, MemHolds
    <2> QED BY <1>1, <2>1, <2>2 DEF MemRecord
  <1>4. CASE mode = "replay"
    <2>1. k \in Clocks(l) /\ recorded[l][k + 1] = <<t, s>>
      BY <1>2, <1>4 DEF IssuedTo
    <2>2. PICK L, I, w : L = Left(l) /\ I = Inside(l) /\ w = mem[v]
      OBVIOUS
    <2>3. /\ L \subseteq Clocks(l) /\ I \subseteq Clocks(l) /\ k \in I /\ k \notin L
      BY <1>p, <1>1, <2>1, <2>2, LeftInside
    <2>4. /\ AfterIn(l, L, I, v, w) /\ OrderIn(l, L, I) /\ InsideAt(l, k, t, s, a, v, w)
      <3>1. MemReplay(l, v)
        BY <1>4 DEF MemInv, MemHolds
      <3>2. OrderIn(l, L, I)
        BY <1>4, <2>2 DEF OrderInv
      <3> QED BY <1>p, <1>1, <2>1, <2>2, <3>1, <3>2 DEF MemReplay, InsideHolds
    <2>5. CASE KindOf(l, k) \in {"load", "atomicload"}
      <3>1. SettledIn(l, L, I, k, v) /\ ~StoresTo(l, k, v) /\ k \in 0..Len(recorded[l])
        BY <2>3, <2>4, <2>5, LoadSettled
      <3>2. HoldsAfter(Program, recorded[l], k, v, w)
        BY <2>4, <3>1 DEF AfterIn
      <3>3. SilentOn(Program, t, s, a, v)
        <4>1. SilentOn(Program, t, s, End(Program, t, s), v)
          BY <2>1, <2>5, LoadSilent DEF SilentAt
        <4>2. Len(Body(Program, t, s)) \in Nat
          BY <1>1, BodyTyped
        <4>3. \A b \in 1..(a - 1) : b \in 1..(End(Program, t, s) - 1)
          BY <1>1, <4>2 DEF End
        <4> QED BY <4>1, <4>3 DEF SilentOn
      <3> QED BY <1>p, <2>2, <3>2, <3>3 DEF HoldsAt
    <2>6. CASE KindOf(l, k) \notin {"load", "atomicload"}
      <3>1. ~IsStore(KindOf(l, k))
        <4> SUFFICES ASSUME IsStore(KindOf(l, k)) PROVE FALSE
          OBVIOUS
        <4>1. IsStore(KindAt(t, s))
          BY <2>1 DEF KindOf
        <4>2. Len(Body(Program, t, s)) = 1 /\ Body(Program, t, s)[1].op = "store"
          BY <1>1, <4>1, StoreSection
        <4>3. a = 1
          BY <1>1, <4>2
        <4> QED BY <1>p, <4>2, <4>3 DEF IsRead
      <3>2. Exclusive(l, k) /\ ~StoresTo(l, k, v)
        BY <2>6, <3>1 DEF Exclusive, StoresTo
      <3> QED BY <1>p, <2>2, <2>4, <3>2 DEF InsideAt
    <2> QED BY <2>5, <2>6
  <1> QED BY <1>3, <1>4 DEF TypeOK, ProgramTypeOK

\* A value that is read is the one its variable has at this place of the order.
LEMMA LogAccess ==
  ASSUME TypeOK, Inductive, OrderInv, MemInv, KindsTold(program), NEW t \in Threads,
         Step(t), ProgramStep(t), LogShape(t), LogFinds(t)
  PROVE  LogShape(t)' /\ LogFinds(t)'
  <1>1. /\ UNCHANGED <<sec, recorded, program, mode>>
        /\ InSection(t) /\ InSection(t)' /\ HasSection(t)
        /\ acc'[t] = acc[t] + 1
        /\ acc[t] \in 1..Len(Body(Program, t, sec[t]))
        /\ NextAccess(t) = Body(Program, t, sec[t])[acc[t]] /\ NextAccess(t) \in Accesses
        /\ log'[t] = IF NextAccess(t).op = "store" THEN log[t]
                     ELSE Append(log[t], mem[NextAccess(t).var])
        /\ \A l \in Locks : SamePrefix(recorded[l], recorded'[l], Len(recorded[l]))
    BY StepFrame, AccessFrame
  <1>2. /\ Program' = Program /\ \A s : LockAt(t, s)' = LockAt(t, s)
        /\ sec[t] \in 1..Len(Program[t]) /\ Len(Program[t]) \in Nat
        /\ LockOf(t) = LockAt(t, sec[t]) /\ LockOf(t) \in Locks
    BY <1>1, SectionType, ProgramTyped, LockKept
  <1>3. \A s, k : ClockIs(t, s, k)' <=> ClockIs(t, s, k)
    BY <1>1, <1>2 DEF ClockIs, IssuedTo, Clocks
  <1>8. \A p : PlaceOf(Program, t, p)' = PlaceOf(Program, t, p)
    BY <1>1 DEF Program
  <1>9. Program' = Program /\ program' = program /\ recorded' = recorded
    BY <1>1, <1>2
  <1>4. Past(t)' = Reads(Program, t, sec[t], acc[t] + 1)
    BY <1>1, <1>2 DEF Past
  <1>7. /\ <<sec[t], acc[t]>> \notin Past(t)
        /\ Past(t)' = IF IsRead(Program, t, sec[t], acc[t])
                      THEN Past(t) \cup {<<sec[t], acc[t]>>} ELSE Past(t)
    <2>1. /\ <<sec[t], acc[t]>> \notin Reads(Program, t, sec[t], acc[t])
          /\ IsRead(Program, t, sec[t], acc[t]) =>
               Reads(Program, t, sec[t], acc[t] + 1)
                 = Reads(Program, t, sec[t], acc[t]) \cup {<<sec[t], acc[t]>>}
          /\ ~IsRead(Program, t, sec[t], acc[t]) =>
               Reads(Program, t, sec[t], acc[t] + 1) = Reads(Program, t, sec[t], acc[t])
      <3>1. /\ sec[t] \in 1..Len(Program[t]) /\ Len(Program[t]) \in Nat
            /\ acc[t] \in 1..Len(Body(Program, t, sec[t]))
        BY <1>1, <1>2
      <3> QED BY ONLY <3>1, ReadsNext
    <2> QED BY <1>4, <2>1 DEF Past
  <1>5. CASE ~IsRead(Program, t, sec[t], acc[t])
    <2>1. Past(t)' = Past(t) /\ log'[t] = log[t]
      BY <1>1, <1>5, <1>7 DEF IsRead
    <2> QED BY <1>1, <1>3, <2>1, LogKept
  <1>6. CASE IsRead(Program, t, sec[t], acc[t])
    <2>q. PICK q, w, n :
            q = <<sec[t], acc[t]>> /\ w = mem[NextAccess(t).var] /\ n = Len(log[t])
      OBVIOUS
    <2>1. Past(t)' = Past(t) \cup {q} /\ q \notin Past(t)
      BY <1>6, <1>7, <2>q
    <2>2. VarAt(t, q) = NextAccess(t).var /\ NextAccess(t).var \in Vars
      BY <1>1, <2>q DEF VarAt, Accesses
    <2>3. /\ n \in Nat /\ Len(log'[t]) = n + 1 /\ log'[t][n + 1] = w
          /\ \A i \in 1..n : log'[t][i] = log[t][i]
      <3>1. log[t] \in Seq(Values) /\ w \in Values
        BY <2>2, <2>q DEF TypeOK, ProgramTypeOK
      <3>2. log'[t] = Append(log[t], w)
        BY <1>1, <1>6, <2>q DEF IsRead
      <3> QED BY <2>q, <3>1, <3>2
    <2>4. Shape(Program, t, sec[t], acc[t] + 1, n + 1) /\ PlaceOf(Program, t, q) = n + 1
      BY <1>1, <1>2, <1>6, <2>q, <2>3, ShapeNext DEF LogShape
    <2>5. LogShape(t)'
      BY <1>1, <1>2, <2>3, <2>4 DEF LogShape
    <2>6. \A p \in Past(t) : PlaceOf(Program, t, p) \in 1..n
      BY <2>q DEF LogShape, Shape, Past
    <2>8. \A p : VarAt(t, p)' = VarAt(t, p)
      BY <1>2 DEF VarAt
    <2>9. ASSUME NEW p \in Past(t), NEW k \in Nat, ClockIs(t, p[1], k)'
          PROVE  Finds(t, p, k, log[t][PlaceOf(Program, t, p)])'
      <3>1. log'[t][PlaceOf(Program, t, p)] = log[t][PlaceOf(Program, t, p)]
        BY <2>3, <2>6
      <3>2. ClockIs(t, p[1], k)
        BY <1>3, <2>9
      <3>3. Finds(t, p, k, log[t][PlaceOf(Program, t, p)])
        BY <3>2 DEF LogFinds
      <3>4. (log[t][PlaceOf(Program, t, p)])' = log[t][PlaceOf(Program, t, p)]
        BY <1>8, <3>1
      <3> QED BY <1>9, <2>8, <3>3, <3>4 DEF Finds
    <2>10. ASSUME NEW k \in Nat, ClockIs(t, q[1], k)'
           PROVE  Finds(t, q, k, log[t][PlaceOf(Program, t, q)])'
      <3>0. q[1] = sec[t] /\ q[2] = acc[t] /\ ClockIs(t, sec[t], k)
        <4>1. q[1] = sec[t] /\ q[2] = acc[t] /\ ClockIs(t, q[1], k)
          BY <1>3, <2>q, <2>10
        <4> QED BY <4>1
      <3>1. ASSUME NEW l \in Locks, GuardedBy(program, l, VarAt(t, q))
            PROVE  HoldsAt(Program, recorded[l], k, t, q[1], q[2], VarAt(t, q), w)
        <4>1. l = LockOf(t)
          BY <1>1, <1>2, <2>q, <3>1, GuardOf DEF VarAt
        <4>2. PICK v \in Vars : v = VarAt(t, q)
          BY <2>2
        <4>3. HoldsAt(Program, recorded[l], k, t, sec[t], acc[t], v, mem[v])
          BY <1>6, <3>0, <3>1, <4>1, <4>2, ReadHolds
        <4> QED BY <2>2, <2>q, <3>0, <4>2, <4>3
      <3>2. (log[t][PlaceOf(Program, t, q)])' = w
        BY <1>8, <2>3, <2>4
      <3> QED BY <1>9, <2>8, <3>1, <3>2 DEF Finds
    <2>11. LogFinds(t)'
      <3> SUFFICES ASSUME NEW p \in Past(t)', NEW k \in Nat, ClockIs(t, p[1], k)'
                   PROVE  Finds(t, p, k, log[t][PlaceOf(Program, t, p)])'
        BY DEF LogFinds
      <3> QED BY <2>1, <2>9, <2>10
    <2> QED BY <2>5, <2>11
  <1> QED BY <1>5, <1>6

\* Every step of a thread keeps the logs.
LEMMA LogStep ==
  ASSUME TypeOK, Inductive, BodyInv, OrderInv, MemInv, LogInv, KindsTold(program),
         NEW t \in Threads, Step(t)
  PROVE  LogInv'
  <1> SUFFICES ASSUME NEW u \in Threads
               PROVE  LogShape(u)' /\ LogFinds(u)'
    BY DEF LogInv
  <1>1. LogShape(u) /\ LogFinds(u)
    BY DEF LogInv
  <1> QED BY <1>1, LogOthers, LogGate, LogAccess

\* And what is kept of the recorded run.
LEMMA KeptStep ==
  ASSUME TypeOK, Inductive, KeptInv, NEW t \in Threads, Step(t)
  PROVE  KeptInv'
  <1>1. /\ UNCHANGED <<program, mode, recLog, recMem>>
        /\ ~GateOutRecord(t) => recorded' = recorded
    BY StepFrame
  <1> SUFFICES ASSUME mode = "replay" PROVE KeptInv'
    BY <1>1 DEF KeptInv
  <1>2. recorded' = recorded
    BY <1>1 DEF GateOutRecord
  <1>3. /\ Program' = Program /\ \A u, p : VarAt(u, p)' = VarAt(u, p)
        /\ \A u, s : LockAt(u, s)' = LockAt(u, s)
    BY <1>1 DEF Program, VarAt, LockAt, GateLock, MultiClock
  <1>4. \A l, k, u, s : IssuedTo(l, k, u, s)' <=> IssuedTo(l, k, u, s)
    BY <1>2 DEF IssuedTo, Clocks
  <1>5. \A u \in Threads : RecLogHolds(u)'
    BY <1>1, <1>2, <1>3, <1>4 DEF KeptInv, RecLogHolds, Finds, IssuedTo, Clocks
  <1> QED BY <1>1, <1>2, <1>3, <1>5 DEF KeptInv

-------------------------------------------------------------------------------
\* The first state, and the start of the replay.

\* Before a thread has read anything its log is right.
LEMMA NothingRead ==
  ASSUME NEW code, NEW u
  PROVE  /\ Reads(code, u, 1, 1) = {} /\ Shape(code, u, 1, 1, 0)
         /\ \A order, v : HoldsAfter(code, order, 0, v, <<>>)
  <1>1. \A order, v : HoldsAfter(code, order, 0, v, <<>>)
    BY DEF HoldsAfter
  <1> QED BY <1>1, ReadsFirst, ShapeFirst

\* The first state.
LEMMA InitSerial == ASSUME Init PROVE SerialInv
  <1>1. /\ mode = "record"
        /\ \A t \in Threads : /\ pc[t] = "run" /\ sec[t] = 1 /\ acc[t] = 1
                              /\ log[t] = <<>> /\ file[t] = <<>>
        /\ \A v \in Vars : mem[v] = <<>>
        /\ \A l \in Locks : recorded[l] = <<>>
    BY DEF Init, ProgramInit
  <1>2. BodyInv
    BY <1>1 DEF BodyInv, InSection
  <1>3. StoreInv
    BY <1>1 DEF StoreInv
  <1>4. OrderInv /\ KeptInv
    BY <1>1 DEF OrderInv, KeptInv
  <1>5. MemInv
    BY <1>1, NothingRead DEF MemInv, MemHolds, MemRecord, InSection
  <1>6. LogInv
    <2> SUFFICES ASSUME NEW t \in Threads PROVE LogShape(t) /\ LogFinds(t)
      BY DEF LogInv
    <2>1. Past(t) = {} /\ Shape(Program, t, 1, 1, 0)
      BY <1>1, NothingRead DEF Past
    <2>2. Len(log[t]) = 0
      BY <1>1
    <2> QED BY <1>1, <2>1, <2>2 DEF LogShape, LogFinds
  <1> QED BY <1>2, <1>3, <1>4, <1>5, <1>6 DEF SerialInv

\* When every thread has finished, every read is past.
LEMMA DoneParts ==
  ASSUME TypeOK, Inductive, BodyInv, AllDone, NEW t \in Threads
  PROVE  /\ sec[t] = Len(Program[t]) + 1 /\ Past(t) = AllReads(Program, t)
         /\ ~InSection(t)
  <1>1. /\ pc[t] = "run" /\ ~(sec[t] <= Len(Program[t]))
        /\ sec[t] \in 1..(Len(Program[t]) + 1) /\ acc[t] = 1
    BY DEF AllDone, HasSection, Inductive, NestingInv, BodyInv
  <1>2. Len(Program[t]) \in Nat
    BY ProgramTyped
  <1>3. sec[t] = Len(Program[t]) + 1
    BY <1>1, <1>2
  <1> QED BY <1>1, <1>3 DEF Past, AllReads, InSection

\* No section was left or entered when the second run starts.
LEMMA NoneYet ==
  ASSUME TypeOK, Inductive, Rerun, NEW l \in Locks
  PROVE  Left(l)' = {} /\ Inside(l)' = {}
  <1>1. /\ recorded' = recorded
        /\ \A u \in Threads : sec'[u] = 1 /\ pc'[u] = "run"
    BY DEF Rerun, StartReplay
  <1>2. ASSUME NEW c \in Clocks(l)
        PROVE  /\ recorded[l][c + 1][1] \in Threads
               /\ recorded[l][c + 1][2] \in Nat \ {0}
    <2>1. c + 1 \in 1..Len(recorded[l]) /\ recorded[l][c + 1] \in Threads \X Nat
      BY EntryType
    <2>2. recorded[l][c + 1][2] \in 1..Len(Program[recorded[l][c + 1][1]])
      BY <2>1 DEF Inductive, HistoryInv
    <2> QED BY <2>1, <2>2
  <1>3. Left(l)' = {}
    BY <1>1, <1>2 DEF Left, Clocks
  <1>4. Inside(l)' = {}
    BY <1>1, <1>2 DEF Inside, InSection, Clocks
  <1> QED BY <1>3, <1>4

\* The replay starts with a memory nobody has written.
LEMMA RerunMemory ==
  ASSUME TypeOK, Inductive, Rerun, NEW l \in Locks, NEW v \in Vars
  PROVE  MemReplay(l, v)'
  <1>1. /\ UNCHANGED <<program, recorded>> /\ mem'[v] = <<>>
        /\ \A u \in Threads : pc'[u] = "run"
    BY DEF Rerun, StartReplay
  <1>2. Left(l)' = {} /\ Inside(l)' = {}
    BY NoneYet
  <1>3. AfterIn(l, {}, {}, v, <<>>)
    <2> SUFFICES ASSUME NEW d \in 0..Len(recorded[l]), SettledIn(l, {}, {}, d, v)
                 PROVE  HoldsAfter(Program, recorded[l], d, v, <<>>)
      BY DEF AfterIn
    <2>1. d \in Nat /\ 0 \in Nat /\ 0 <= d
      BY DEF TypeOK
    <2>2. \A c \in 0..(d - 1) : SilentAt(l, c, v)
      BY DEF SettledIn
    <2>3. HoldsAfter(Program, recorded[l], 0, v, <<>>)
      BY NothingRead
    <2> QED BY <2>1, <2>2, <2>3, HoldsOn
  <1>4. PICK L, I, w : L = {} /\ I = {} /\ w = <<>>
    OBVIOUS
  <1>5. L = Left(l)' /\ I = Inside(l)' /\ w = mem'[v] /\ AfterIn(l, L, I, v, w)
    BY <1>1, <1>2, <1>3, <1>4
  <1>6. \A u \in Threads : ~InSection(u)'
    BY <1>1 DEF InSection
  <1> QED BY <1>1, <1>5, <1>6, MemAgain

\* The second run starts with the record of the first.
LEMMA RerunSerial ==
  ASSUME TypeOK, Inductive, BodyInv, MemInv, LogInv, Rerun
  PROVE  BodyInv' /\ MemInv' /\ LogInv' /\ KeptInv'
  <1>1. /\ mode = "record" /\ mode' = "replay" /\ AllDone
        /\ \A t \in Threads :
             pc'[t] = "run" /\ sec'[t] = 1 /\ acc'[t] = 1 /\ log'[t] = <<>>
        /\ UNCHANGED <<recorded, program>> /\ recLog' = log /\ recMem' = mem
    BY DEF Rerun, StartReplay
  <1>2. /\ Program' = Program
        /\ \A t, s : LockAt(t, s)' = LockAt(t, s)
        /\ \A t, p : VarAt(t, p)' = VarAt(t, p)
    BY <1>1 DEF Program, LockAt, GateLock, MultiClock, VarAt
  <1>3. BodyInv'
    BY <1>1 DEF BodyInv, InSection
  <1>6. MemInv'
    BY <1>1, RerunMemory DEF MemInv, MemHolds
  <1>7. LogInv'
    <2> SUFFICES ASSUME NEW t \in Threads PROVE LogShape(t)' /\ LogFinds(t)'
      BY DEF LogInv
    <2>1. Past(t)' = {} /\ Shape(Program, t, 1, 1, 0)
      BY <1>1, <1>2, NothingRead DEF Past
    <2>2. Len(log'[t]) = 0
      BY <1>1
    <2> QED BY <1>1, <1>2, <2>1, <2>2 DEF LogShape, LogFinds
  <1>8. KeptInv'
    <2>1. ASSUME NEW t \in Threads
          PROVE  RecLogHolds(t)'
      <3>1. /\ Past(t) = AllReads(Program, t) /\ LogShape(t) /\ LogFinds(t)
        BY <1>1, DoneParts DEF LogInv
      <3>2. ASSUME NEW p \in AllReads(Program, t), NEW k \in Nat,
                   IssuedTo(LockAt(t, p[1]), k, t, p[1])
            PROVE  Finds(t, p, k, log[t][PlaceOf(Program, t, p)])
        BY <3>1, <3>2 DEF LogFinds, ClockIs
      <3>3. /\ IsFiniteSet(AllReads(Program, t))
            /\ Len(log[t]) = Cardinality(AllReads(Program, t))
        BY <3>1 DEF LogShape, Shape, Past
      <3>4. \A l, k, s : IssuedTo(l, k, t, s)' <=> IssuedTo(l, k, t, s)
        BY <1>1 DEF IssuedTo, Clocks
      <3> QED BY <1>1, <1>2, <3>2, <3>3, <3>4 DEF RecLogHolds, Finds, IssuedTo, Clocks
    <2>2. ASSUME NEW l \in Locks, NEW v \in Vars, GuardedBy(program, l, v)
          PROVE  HoldsAfter(Program, recorded[l], Len(recorded[l]), v, mem[v])
      <3>1. MemRecord(l, v) /\ \A t \in Threads : ~InSection(t)
        BY <1>1, <2>2, DoneParts DEF MemInv, MemHolds
      <3> QED BY <3>1 DEF MemRecord
    <2> QED BY <1>1, <1>2, <2>1, <2>2 DEF KeptInv
  <1> QED BY <1>3, <1>6, <1>7, <1>8

\* Nothing changes.
LEMMA IdleSerial ==
  ASSUME BodyInv, MemInv, LogInv, KeptInv, UNCHANGED vars
  PROVE  BodyInv' /\ MemInv' /\ LogInv' /\ KeptInv'
  <1>1. /\ UNCHANGED <<program, mode, pc, sec, acc, mem, log, recLog, recMem, recorded>>
        /\ Program' = Program /\ MultiClock' = MultiClock
    BY DEF vars, programVars, gateVars, Program, MultiClock
  <1>2. /\ \A t \in Threads : InSection(t)' <=> InSection(t)
        /\ \A t : LockOf(t)' = LockOf(t)
        /\ \A t, s : LockAt(t, s)' = LockAt(t, s)
        /\ \A t, p : VarAt(t, p)' = VarAt(t, p)
        /\ \A t : Past(t)' = Past(t)
    BY <1>1 DEF InSection, LockOf, Section, GateLock, LockAt, VarAt, Past
  <1>3. BodyInv'
    BY <1>1, <1>2 DEF BodyInv
  <1>4. ASSUME NEW l \in Locks, NEW v \in Vars, GuardedBy(program, l, v)
        PROVE  MemHolds(l, v)'
    <2>1. mode = "record" => MemRecord(l, v)'
      BY <1>1, <1>2, <1>4 DEF MemInv, MemHolds, MemRecord
    <2>2. ASSUME mode = "replay" PROVE MemReplay(l, v)'
      <3>1. AfterIn(l, Left(l), Inside(l), v, mem[v]) /\ InsideHolds(l, v)
        BY <1>4, <2>2 DEF MemInv, MemHolds, MemReplay
      <3>2. Left(l)' = Left(l) /\ Inside(l)' = Inside(l)
        BY <1>1 DEF Left, Inside, InSection, Clocks
      <3>3. PICK L, I, w : L = Left(l) /\ I = Inside(l) /\ w = mem[v]
        OBVIOUS
      <3>4. L = Left(l)' /\ I = Inside(l)' /\ w = mem'[v] /\ AfterIn(l, L, I, v, w)
        BY <1>1, <3>1, <3>2, <3>3
      <3>5. \A u \in Threads : \A e \in Clocks(l) :
              InSection(u)' /\ recorded[l][e + 1] = <<u, sec'[u]>> =>
                InsideAt(l, e, u, sec'[u], acc'[u], v, w)
        BY <1>1, <1>2, <3>1, <3>3 DEF InsideHolds
      <3> QED BY <1>1, <3>4, <3>5, MemAgain
    <2> QED BY <1>1, <2>1, <2>2 DEF MemHolds
  <1>5. MemInv'
    BY <1>1, <1>4 DEF MemInv
  <1>6. \A l, k, u, s : IssuedTo(l, k, u, s)' <=> IssuedTo(l, k, u, s)
    BY <1>1 DEF IssuedTo, Clocks
  <1>7. LogInv'
    BY <1>1, <1>2 DEF LogInv, LogShape, LogFinds, Finds, ClockIs, IssuedTo, Clocks, InSection
  <1>8. KeptInv'
    BY <1>1, <1>2 DEF KeptInv, RecLogHolds, Finds, IssuedTo, Clocks
  <1> QED BY <1>3, <1>5, <1>7, <1>8

\* The program is one of those assumed.
LEMMA OneProgram == Spec => [](program \in Programs)
  <1>1. Init => program \in Programs
    BY DEF Init, ProgramInit
  <1>2. program \in Programs /\ [Next]_vars => (program \in Programs)'
    BY SameProgram
  <1> QED BY <1>1, <1>2, PTL DEF Spec

\* Both runs execute the sections of each lock as if one after the other, but for the
\* stores that a later store of their run overwrites.
LEMMA Serial ==
  ASSUME \A p \in Programs : KindsTold(p) /\ OneStored(p)
  PROVE  Spec /\ []SlotsFresh => []SerialInv
  <1>1. Init => SerialInv
    BY InitSerial
  <1>2. TypeOK /\ Inductive /\ program \in Programs /\ SlotsFresh /\ SerialInv
          /\ [Next]_vars => SerialInv'
    <2> SUFFICES ASSUME TypeOK, Inductive, KindsTold(program), OneStored(program),
                        SlotsFresh, SerialInv, [Next]_vars
                 PROVE  SerialInv'
      OBVIOUS
    <2>1. StoreInv' /\ OrderInv'
      BY StoreStep, OrderStep DEF SerialInv
    <2>i. BodyInv /\ MemInv /\ LogInv /\ KeptInv
      BY DEF SerialInv
    <2>2. ASSUME NEW t \in Threads, Step(t)
          PROVE  BodyInv' /\ MemInv' /\ LogInv' /\ KeptInv'
      BY <2>1, <2>2, BodyStep, MemStep, LogStep, KeptStep DEF SerialInv
    <2>3. ASSUME Rerun PROVE BodyInv' /\ MemInv' /\ LogInv' /\ KeptInv'
      BY <2>i, <2>3, RerunSerial
    <2>4. ASSUME UNCHANGED vars PROVE BodyInv' /\ MemInv' /\ LogInv' /\ KeptInv'
      BY <2>i, <2>4, IdleSerial
    <2>5. BodyInv' /\ MemInv' /\ LogInv' /\ KeptInv'
      BY <2>2, <2>3, <2>4 DEF Next, Ended
    <2> QED BY <2>1, <2>5 DEF SerialInv
  <1> QED BY <1>1, <1>2, EpochInvariance, OneProgram, PTL DEF Spec

-------------------------------------------------------------------------------
\* What the replay observes.

\* The entries of an order are sections of the program.
LEMMA OrderTyped ==
  ASSUME TypeOK, HistoryInv, NEW l \in Locks, NEW e \in 1..Len(recorded[l])
  PROVE  End(Program, recorded[l][e][1], recorded[l][e][2]) \in Int
  <1>1. recorded[l][e] \in Threads \X Nat
    BY DEF TypeOK
  <1>2. recorded[l][e][2] \in 1..Len(Program[recorded[l][e][1]])
    BY DEF HistoryInv
  <1>3. End(Program, recorded[l][e][1], recorded[l][e][2]) \in Nat
    BY <1>1, <1>2, BodyTyped
  <1> QED BY <1>3

\* A value read in the replay is the one of the same read of the recorded run.
LEMMA LogsAgree ==
  ASSUME TypeOK, Inductive, SerialInv, OneGateEach(program), mode = "replay",
         NEW t \in Threads
  PROVE  /\ Len(log[t]) <= Len(recLog[t])
         /\ \A i \in 1..Len(log[t]) : log[t][i] = recLog[t][i]
  <1> USE DEF SerialInv
  <1>1. LogShape(t) /\ LogFinds(t) /\ RecLogHolds(t)
    BY DEF LogInv, KeptInv
  <1>2. Past(t) \subseteq AllReads(Program, t)
    <2>1. /\ sec[t] \in Nat /\ acc[t] \in Nat /\ Len(Program[t]) \in Nat
          /\ sec[t] \in 1..(Len(Program[t]) + 1)
      <3>1. sec[t] \in Nat /\ acc[t] \in Nat
        BY DEF TypeOK, ProgramTypeOK
      <3> QED BY <3>1, ProgramTyped DEF Inductive, NestingInv
    <2>2. sec[t] = Len(Program[t]) + 1 => acc[t] = 1
      BY <2>1 DEF Inductive, NestingInv, HasSection, BodyInv
    <2>3. sec[t] < Len(Program[t]) + 1 \/ (sec[t] = Len(Program[t]) + 1 /\ acc[t] <= 1)
      BY <2>1, <2>2
    <2> QED BY <2>1, <2>3, ReadsGrow DEF Past, AllReads
  <1>3. Len(log[t]) <= Len(recLog[t])
    BY <1>1, <1>2, FS_Subset DEF LogShape, Shape, Past, RecLogHolds
  <1>4. ASSUME NEW i \in 1..Len(log[t])
        PROVE  log[t][i] = recLog[t][i]
    <2>1. PICK p \in Past(t) : PlaceOf(Program, t, p) = i
      BY <1>1 DEF LogShape, Shape, Past
    <2>2. /\ p[1] \in 1..Len(Program[t]) /\ p[2] \in Nat /\ VarAt(t, p) \in Vars
          /\ p \in AllReads(Program, t)
      BY <1>2, PastTyped DEF Past
    <2>3. PICK l \in Locks : GuardedBy(program, l, VarAt(t, p))
      BY <2>2 DEF OneGateEach
    <2>4. l = LockAt(t, p[1])
      BY <2>3, PastTyped DEF Past
    <2>5. PICK k \in Clocks(l) : IssuedTo(l, k, t, p[1])
      <3>1. p[1] \in 1..Len(file[t])
        BY <2>2 DEF Inductive, ReplayInv
      <3> QED BY <2>4, <3>1 DEF Inductive, EpochInv
    <2>6. k \in Nat /\ Len(recorded[l]) \in Nat /\ \A e \in 1..k : e \in 1..Len(recorded[l])
      <3>1. k \in Nat /\ k + 1 \in 1..Len(recorded[l]) /\ Len(recorded[l]) \in Nat
        BY EntryType DEF TypeOK
      <3> QED BY <3>1
    <2>7. Finds(t, p, k, log[t][i]) /\ Finds(t, p, k, recLog[t][i])
      <3>1. ClockIs(t, p[1], k)
        BY <2>4, <2>5 DEF ClockIs
      <3> QED BY <1>1, <2>1, <2>2, <2>4, <2>5, <2>6, <3>1 DEF LogFinds, RecLogHolds
    <2>8. \A e \in 1..k : End(Program, recorded[l][e][1], recorded[l][e][2]) \in Int
      BY <2>6, OrderTyped DEF Inductive
    <2>9. /\ HoldsAt(Program, recorded[l], k, t, p[1], p[2], VarAt(t, p), log[t][i])
          /\ HoldsAt(Program, recorded[l], k, t, p[1], p[2], VarAt(t, p), recLog[t][i])
      BY <2>3, <2>7 DEF Finds
    <2>10. p[2] \in Int
      BY <2>2
    <2> QED BY <2>6, <2>8, <2>9, <2>10, OneValueAt
  <1> QED BY <1>3, <1>4

\* A replay that has ended has executed every section of the order.
LEMMA OrdersFollowed ==
  ASSUME TypeOK, Inductive, SerialInv, mode = "replay", AllDone, NEW l \in Locks,
         NEW v \in Vars, GuardedBy(program, l, v)
  PROVE  HoldsAfter(Program, recorded[l], Len(recorded[l]), v, mem[v])
  <1> USE DEF SerialInv
  <1>p. PICK L, I, n : L = Left(l) /\ I = Inside(l) /\ n = Len(recorded[l])
    OBVIOUS
  <1>1. n \in Nat /\ Clocks(l) = 0..(n - 1)
    BY <1>p DEF TypeOK, Clocks
  <1>2. L \subseteq Clocks(l) /\ I \subseteq Clocks(l)
    BY <1>p, LeftInside
  <1>3. ASSUME NEW c \in Clocks(l)
        PROVE  c \in L
    <2>1. PICK t \in Threads, s \in Nat : recorded[l][c + 1] = <<t, s>>
      BY EntryType
    <2>2. s \in 1..Len(Program[t])
      BY <2>1, EntrySection DEF Inductive
    <2>3. sec[t] = Len(Program[t]) + 1 /\ Len(Program[t]) \in Nat
      BY DoneParts, ProgramTyped
    <2>4. s < sec[t]
      BY <2>2, <2>3
    <2> QED BY <1>p, <2>1, <2>4 DEF Left
  <1>4. SettledIn(l, L, I, n, v)
    <2>1. \A c \in L \cup I : c < n
      BY <1>1, <1>2
    <2> QED BY <1>1, <1>3, <2>1 DEF SettledIn
  <1>5. ~StoresTo(l, n, v)
    BY <1>1 DEF StoresTo
  <1>6. AfterIn(l, L, I, v, mem[v])
    BY <1>p DEF MemInv, MemHolds, MemReplay
  <1>7. n \in 0..Len(recorded[l])
    BY <1>p, <1>1
  <1> QED BY <1>p, <1>4, <1>5, <1>6, <1>7 DEF AfterIn

\* Where every variable has one gate, the invariant is that of a faithful replay.
LEMMA Faithful ==
  ASSUME TypeOK, Inductive, SerialInv, OneGateEach(program)
  PROVE  ReplayFaithful
  <1> SUFFICES ASSUME mode = "replay", AllDone
               PROVE  mem = recMem
    BY LogsAgree DEF ReplayFaithful
  <1>1. ASSUME NEW v \in Vars
        PROVE  mem[v] = recMem[v]
    <2>1. PICK l \in Locks : GuardedBy(program, l, v)
      BY DEF OneGateEach
    <2>2. HoldsAfter(Program, recorded[l], Len(recorded[l]), v, mem[v])
      BY <2>1, OrdersFollowed
    <2>3. HoldsAfter(Program, recorded[l], Len(recorded[l]), v, recMem[v])
      BY <2>1 DEF SerialInv, KeptInv
    <2>4. \A e \in 1..Len(recorded[l]) :
            End(Program, recorded[l][e][1], recorded[l][e][2]) \in Int
      BY OrderTyped DEF Inductive
    <2>5. Len(recorded[l]) \in Nat
      BY DEF TypeOK
    <2> QED BY <2>2, <2>3, <2>4, <2>5, OneValueAfter
  <1>2. mem \in [Vars -> Values] /\ recMem \in [Vars -> Values]
    BY DEF TypeOK, ProgramTypeOK
  <1> QED BY <1>1, <1>2

\* The replay of the concurrent gate is faithful although sections overlap: every thread
\* reads what it read in the recorded run, and the memory ends as it did.  The program
\* accesses a variable in the sections of one gate lock, the pass told the kinds of
\* section, the stores of a gate lock are to one variable, and reomp_ccgate_is_next_store
\* never took a slot for the next store's that was not.
THEOREM EpochReadsReplayed ==
  ASSUME \A p \in Programs : OneGateEach(p) /\ KindsTold(p) /\ OneStored(p)
  PROVE  Spec /\ []SlotsFresh => []ReplayFaithful
  <1>1. TypeOK /\ Inductive /\ SerialInv /\ program \in Programs => ReplayFaithful
    BY Faithful
  <1>2. Spec /\ []SlotsFresh => []SerialInv
    BY Serial
  <1> QED BY <1>1, <1>2, EpochInvariance, OneProgram, PTL

-------------------------------------------------------------------------------
\* Where no slot is used twice.

\* A lock has given out no more clocks than it has sections.
LEMMA ClocksFew ==
  ASSUME TypeOK, HistoryInv, FewSections(program), NEW l \in Locks
  PROVE  Len(recorded[l]) \in Nat /\ Len(recorded[l]) < SlotCount
  <1> DEFINE S == SectionsOf(program, l)
             n == Len(recorded[l])
             f == [i \in 1..n |-> recorded[l][i]]
  <1>1. n \in Nat /\ recorded[l] \in Seq(Threads \X Nat)
    BY DEF TypeOK
  <1>2. ASSUME NEW i \in 1..n
        PROVE  recorded[l][i] \in S
    <2>1. PICK t \in Threads, s \in Nat : recorded[l][i] = <<t, s>>
      BY <1>1
    <2>2. recorded[l][i][1] = t /\ recorded[l][i][2] = s
      BY <2>1
    <2>3. /\ recorded[l][i][2] \in 1..Len(Program[recorded[l][i][1]])
          /\ LockAt(recorded[l][i][1], recorded[l][i][2]) = l
      BY DEF HistoryInv
    <2>4. s \in 1..Len(program.code[t]) /\ (program.multi_clock => program.code[t][s].lock = l)
      BY <2>2, <2>3 DEF LockAt, GateLock, MultiClock, Program
    <2>5. <<t, s>> \in {t} \X {r \in 1..Len(program.code[t]) :
                                  program.multi_clock => program.code[t][r].lock = l}
      BY <2>4
    <2> QED BY <2>1, <2>5 DEF SectionsOf
  <1>3. \A i, j \in 1..n : recorded[l][i] = recorded[l][j] => i = j
    BY DEF HistoryInv
  <1> HIDE DEF S
  <1>4. f \in Injection(1..n, S)
    BY <1>2, <1>3 DEF Injection, IsInjective
  <1>5. IsFiniteSet(S) /\ Cardinality(S) < SlotCount
    BY DEF FewSections, S
  <1> HIDE DEF n, f
  <1>6. Cardinality(1..n) <= Cardinality(S)
    BY <1>4, <1>5, FS_Injection
  <1>7. Cardinality(1..n) = n
    BY <1>1, FS_Interval
  <1>8. Cardinality(S) \in Nat
    BY <1>5, FS_CardinalityType
  <1>9. n < SlotCount
    BY <1>1, <1>5, <1>6, <1>7, <1>8, EpochAssumption
  <1> QED BY <1>1, <1>9 DEF n

\* A slot with a store shows the kind of its own clock.
SlotTrue(l, x) ==
  IsStore(previous[l][x]) => x \in Clocks(l) /\ KindOf(l, x) = previous[l][x]
FreshInv == mode = "record" => \A l \in Locks : \A x \in Slots : SlotTrue(l, x)

\* While the table has room the slot of a clock is the one of its number.
LEMMA SlotFits ==
  ASSUME NEW c \in Nat, c < SlotCount
  PROVE  SlotOf(c) = c /\ c \in Slots
  BY EpochAssumption DEF SlotOf, Slots

\* Every step keeps the slots true.
LEMMA FreshStep ==
  ASSUME TypeOK, Inductive, FewSections(program), FreshInv, [Next]_vars
  PROVE  FreshInv'
  <1> SUFFICES ASSUME mode' = "record", NEW l \in Locks, NEW x \in Slots,
                      IsStore(previous'[l][x])
               PROVE  x \in Clocks(l)' /\ KindOf(l, x)' = previous'[l][x]
    BY DEF FreshInv, SlotTrue
  <1>1. mode = "record" /\ ~Rerun
    <2>1. ~Rerun
      BY DEF Rerun, StartReplay
    <2>2. ASSUME NEW t \in Threads, Step(t) PROVE mode' = mode
      BY <2>2, StepFrame
    <2> QED BY <2>1, <2>2 DEF Next, Ended, vars, programVars
  <1>2. IsStore(previous[l][x]) => x \in Clocks(l) /\ KindOf(l, x) = previous[l][x]
    BY <1>1 DEF FreshInv, SlotTrue
  <1>3. CASE previous'[l][x] = previous[l][x]
    <2>1. x \in Clocks(l) /\ KindOf(l, x) = previous'[l][x]
      BY <1>2, <1>3
    <2> QED BY <2>1, HistoryGrows DEF Inductive
  <1>4. ASSUME NEW t \in Threads, GateOutRecord(t), previous'[l][x] # previous[l][x]
        PROVE  x \in Clocks(l)' /\ KindOf(l, x)' = previous'[l][x]
    <2>p. PICK c, rw : c = current_clocks[LockOf(t)] /\ rw = Section(t).rw
      OBVIOUS
    <2>1. previous' = [previous EXCEPT ![LockOf(t)] = [previous[LockOf(t)] EXCEPT ![SlotOf(c)] = rw]]
      BY <1>4, <2>p DEF GateOutRecord
    <2>2. LockOf(t) \in Locks /\ HasSection(t)
      BY <1>4, SectionType DEF GateOutRecord, AtGateOut, Inductive, NestingInv
    <2>3. c = Len(recorded[LockOf(t)]) /\ c \in Nat /\ c < SlotCount
      <3>1. c = Len(recorded[LockOf(t)])
        BY <1>1, <2>2, <2>p DEF Inductive, RecordInv
      <3> QED BY <2>2, <3>1, ClocksFew DEF Inductive
    <2>4. SlotOf(c) = c /\ c \in Slots
      BY <2>3, SlotFits
    <2>5. l = LockOf(t) /\ x = c /\ previous'[l][x] = rw
      <3>1. previous \in [Locks -> [Slots -> RwTypes \cup {"null"}]]
        BY DEF TypeOK
      <3>2. l = LockOf(t)
        BY <1>4, <2>1, <2>2, <3>1
      <3>3. previous'[l] = [previous[l] EXCEPT ![c] = rw]
        BY <2>1, <2>2, <2>4, <3>1, <3>2
      <3> QED BY <1>4, <2>4, <3>1, <3>2, <3>3
    <2>6. /\ Len(recorded'[l]) = c + 1 /\ recorded'[l][c + 1] = <<t, sec[t]>>
      BY <1>4, <2>3, <2>5, RecordedAfter DEF Inductive
    <2>7. x \in Clocks(l)'
      BY <2>3, <2>5, <2>6 DEF Clocks
    <2>9. KindAt(t, sec[t])' = rw
      <3>1. program' = program /\ sec'[t] = sec[t]
        BY <1>4 DEF GateOutRecord, GoTo
      <3>2. Program' = Program
        BY <3>1 DEF Program
      <3> QED BY <2>p, <3>1, <3>2 DEF KindAt, Section
    <2>10. KindOf(l, x)' = rw
      BY <1>4, <2>5, <2>6, <2>9 DEF KindOf, KindAt, GateOutRecord, GoTo
    <2> QED BY <2>5, <2>7, <2>10
  <1>5. ASSUME NEW t \in Threads, Step(t), ~GateOutRecord(t)
        PROVE  previous'[l][x] = previous[l][x]
    <2>1. CASE ResetSlot(t)
      <3>1. previous' = [previous EXCEPT ![LockOf(t)][SlotToReset(clock[t])] = "null"]
        BY <2>1 DEF ResetSlot
      <3>2. previous'[l][x] = previous[l][x] \/ previous'[l][x] = "null"
        BY <3>1 DEF TypeOK
      <3> QED BY <3>2 DEF IsStore
    <2>2. CASE ~ResetSlot(t)
      <3>1. previous' = previous
        BY <1>5, <2>2 DEF Step, GateInRecord, GateInReplay, NestedIn, NestedOut, ProgramStep,
           FileEpoch, GateOutReplay, gateVars
      <3> QED BY <3>1
    <2> QED BY <2>1, <2>2
  <1>6. CASE UNCHANGED vars
    BY <1>3, <1>6 DEF vars, gateVars
  <1> QED BY <1>1, <1>3, <1>4, <1>5, <1>6 DEF Next, Ended

\* So a store in the next slot is the next store.
LEMMA FreshSlot ==
  ASSUME TypeOK, Inductive, FewSections(program), FreshInv
  PROVE  SlotsFresh
  <1> SUFFICES ASSUME NEW t \in Threads, pc[t] = "filing",
                      NextIsStore(previous[LockOf(t)], clock[t])
               PROVE  StoreNext(LockOf(t), clock[t])
    BY DEF SlotsFresh
  <1>p. PICK l, c : l = LockOf(t) /\ c = clock[t]
    OBVIOUS
  <1>1. mode = "record"
    <2>1. mode # "replay"
      BY DEF Inductive, ReplayInv
    <2> QED BY <2>1 DEF TypeOK, ProgramTypeOK
  <1>2. l \in Locks /\ c \in Clocks(l)
    <2>1. l \in Locks
      BY <1>p, SectionType DEF Inductive, NestingInv
    <2> QED BY <1>p, <2>1 DEF Inductive, EpochInv, IssuedTo
  <1>3. c + 1 \in Nat /\ c + 1 < SlotCount
    <2>1. Len(recorded[l]) \in Nat /\ Len(recorded[l]) < SlotCount
      BY <1>2, ClocksFew DEF Inductive
    <2>2. c \in Nat /\ c + 1 \in 1..Len(recorded[l])
      BY <1>2, EntryType
    <2> QED BY <2>1, <2>2, EpochAssumption
  <1>4. PICK x : x = c + 1
    OBVIOUS
  <1>5. SlotOf(x) = x /\ x \in Slots
    BY <1>3, <1>4, SlotFits
  <1>6. IsStore(previous[l][x])
    BY <1>p, <1>4, <1>5 DEF NextIsStore
  <1>7. x \in Clocks(l) /\ KindOf(l, x) = previous[l][x]
    BY <1>1, <1>2, <1>5, <1>6 DEF FreshInv, SlotTrue
  <1> QED BY <1>p, <1>4, <1>6, <1>7 DEF StoreNext

\* A program with fewer sections at a lock than the table has slots, run with tables
\* that hold no store when they are allocated (valloc in reomp_cgate_init, not
\* cleared), is replayed faithfully, however long a thread is delayed.
COROLLARY ShortRunsReplayed ==
  ASSUME \A p \in Programs :
           OneGateEach(p) /\ KindsTold(p) /\ OneStored(p) /\ FewSections(p),
         \A f \in FreshSlots : ~IsStore(f)
  PROVE  Spec => []ReplayFaithful
  <1>1. Init => FreshInv
    BY DEF Init, FreshInv, SlotTrue
  <1>2. /\ TypeOK /\ Inductive /\ program \in Programs /\ FreshInv /\ [Next]_vars => FreshInv'
        /\ TypeOK /\ Inductive /\ program \in Programs /\ FreshInv => SlotsFresh
    BY FreshStep, FreshSlot
  <1>3. Spec => []SlotsFresh
    BY <1>1, <1>2, EpochInvariance, OneProgram, PTL DEF Spec
  <1>4. Spec /\ []SlotsFresh => []ReplayFaithful
    BY EpochReadsReplayed
  <1> QED BY <1>3, <1>4, PTL
===============================================================================
