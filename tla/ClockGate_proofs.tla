--------------------------- MODULE ClockGate_proofs ---------------------------
(***************************************************************************)
(* Proofs about the clock gate, for every team, every set of locks, every  *)
(* program and both settings of multi_clock.  The inductive invariant is   *)
(* Inductive: a ticket names the place of a section in the recorded order, *)
(* so two threads that both hold the ticket the clock shows are the same   *)
(* thread.                                                                 *)
(***************************************************************************)
EXTENDS ClockGate, SharedLemmas

\* The program that is run has the type of a program.
LEMMA ProgramTyped ==
  ASSUME TypeOK
  PROVE  Program \in [Threads -> Seq(Sections)] /\ MultiClock \in BOOLEAN
  BY DEF TypeOK, ProgramTypeOK, ProgramType, Program, MultiClock

\* No step changes the program.
LEMMA SameProgram ==
  ASSUME [Next]_vars
  PROVE  program' = program
  <1>1. ASSUME NEW t \in Threads, Step(t)
        PROVE  program' = program
    BY <1>1 DEF Step, GateInRecord, GateInReplay, NestedIn, NestedOut, ProgramStep,
       Access, GateOutRecord, FileTicket, GateOutReplay, GoTo, NextSection
  <1> QED BY <1>1 DEF Next, Ended, Rerun, StartReplay, vars, programVars

\* While a thread stays in its section, the lock of that section stays the same.
LEMMA LockKept ==
  ASSUME program' = program, NEW t \in Threads
  PROVE  /\ Program' = Program
         /\ \A s : LockAt(t, s)' = LockAt(t, s)
         /\ sec'[t] = sec[t] => LockOf(t)' = LockOf(t)
  BY DEF Program, MultiClock, LockAt, LockOf, Section, GateLock

\* Where a thread has a section, the section and its lock have their types.
LEMMA SectionType ==
  ASSUME TypeOK, NEW t \in Threads, HasSection(t)
  PROVE  /\ sec[t] \in 1..Len(Program[t])
         /\ Section(t) \in Sections
         /\ LockOf(t) \in Locks
         /\ LockOf(t) = LockAt(t, sec[t])
  <1>1. sec[t] \in 1..Len(Program[t])
    BY ProgramTyped DEF TypeOK, ProgramTypeOK, HasSection
  <1>2. Section(t) \in Sections
    BY <1>1, ProgramTyped DEF Section
  <1>3. Section(t).lock \in Locks
    BY <1>2 DEF Sections
  <1>4. LockOf(t) \in Locks
    BY <1>3, ProgramAssumption DEF LockOf, GateLock
  <1> QED
    BY <1>1, <1>2, <1>4 DEF LockOf, LockAt, Section

\* The same for any section of the program.
LEMMA LockAtType ==
  ASSUME TypeOK, NEW t \in Threads, NEW s \in 1..Len(Program[t])
  PROVE  LockAt(t, s) \in Locks
  <1>1. Program[t][s] \in Sections
    BY ProgramTyped
  <1>2. Program[t][s].lock \in Locks
    BY <1>1 DEF Sections
  <1> QED BY <1>2, ProgramAssumption DEF LockAt, GateLock

\* A thread in the middle of a body executes an access of its section.
LEMMA AccessType ==
  ASSUME TypeOK, NestingInv, NEW t \in Threads, InSection(t), HasAccess(t)
  PROVE  NextAccess(t) \in Accesses
  <1>1. HasSection(t)
    BY DEF NestingInv, InSection
  <1>2. Section(t) \in Sections
    BY <1>1, SectionType
  <1>3. Section(t).body \in Seq(Accesses)
    BY <1>2 DEF Sections
  <1>4. acc[t] \in 1..Len(Section(t).body)
    BY <1>3 DEF HasAccess, TypeOK, ProgramTypeOK
  <1> QED BY <1>3, <1>4 DEF NextAccess

\* The first state is well typed and satisfies the invariant.
LEMMA InitInductive == Init => Inductive
  <1> SUFFICES ASSUME Init PROVE Inductive
    OBVIOUS
  <1>1. TypeOK
    BY ProgramAssumption DEF Init, ProgramInit, TypeOK, ProgramTypeOK, Places, Values
  <1>2. NestingInv
    <2> SUFFICES ASSUME NEW t \in Threads
                 PROVE  /\ nest_num[t] = IF pc[t] = "body" THEN 1
                                         ELSE IF InSection(t) THEN 2 ELSE 0
                        /\ sec[t] \in 1..(Len(Program[t]) + 1)
                        /\ pc[t] # "run" => HasSection(t)
      BY DEF NestingInv
    <2>1. pc[t] = "run" /\ sec[t] = 1 /\ nest_num[t] = 0
      BY DEF Init, ProgramInit
    <2>2. Len(Program[t]) \in Nat
      BY <1>1, ProgramTyped
    <2> QED BY <2>1, <2>2 DEF InSection
  <1>3. TicketInv
    BY DEF Init, ProgramInit, TicketInv
  <1>4. RecordInv /\ ReplayInv
    BY DEF Init, ProgramInit, RecordInv, ReplayInv, InSection
  <1> QED BY <1>1, <1>2, <1>3, <1>4 DEF Inductive

-------------------------------------------------------------------------------

\* Every step keeps the state well typed.
LEMMA TypeStep ==
  ASSUME TypeOK, NestingInv, [Next]_vars
  PROVE  TypeOK'
  <1> USE DEF TypeOK, ProgramTypeOK
  <1>1. ASSUME NEW t \in Threads, GateInRecord(t)
        PROVE  TypeOK'
    <2>1. omp_locks' \in [Locks -> Threads \cup {NoThread}]
      BY <1>1 DEF GateInRecord
    <2>2. nest_num' \in [Threads -> Nat] /\ pc' \in [Threads -> Places]
      BY <1>1 DEF GateInRecord, GoTo, Places
    <2> QED BY <1>1, <2>1, <2>2 DEF GateInRecord, GoTo
  <1>2. ASSUME NEW t \in Threads, GateInReplay(t)
        PROVE  TypeOK'
    <2>1. nest_num' \in [Threads -> Nat] /\ pos' \in [Threads -> Nat]
      BY <1>2 DEF GateInReplay
    <2>2. pc' \in [Threads -> Places]
      BY <1>2 DEF GateInReplay, GoTo, Places
    <2> QED BY <1>2, <2>1, <2>2 DEF GateInReplay, GoTo
  <1>3. ASSUME NEW t \in Threads, NestedIn(t)
        PROVE  TypeOK'
    <2>1. nest_num' \in [Threads -> Nat]
      BY <1>3 DEF NestedIn
    <2>2. pc' \in [Threads -> Places]
      BY <1>3 DEF NestedIn, GoTo, Places
    <2> QED BY <1>3, <2>1, <2>2 DEF NestedIn, GoTo
  <1>4. ASSUME NEW t \in Threads, NestedOut(t)
        PROVE  TypeOK'
    <2>1. nest_num' \in [Threads -> Nat]
      BY <1>4 DEF NestedOut, ReentryOut
    <2>2. pc' \in [Threads -> Places]
      BY <1>4 DEF NestedOut, GoTo, Places
    <2> QED BY <1>4, <2>1, <2>2 DEF NestedOut, GoTo
  <1>5. ASSUME NEW t \in Threads, ProgramStep(t)
        PROVE  TypeOK'
    <2>1. NextAccess(t) \in Accesses
      BY <1>5, AccessType DEF ProgramStep, Access
    <2>2. NextAccess(t).var \in Vars
      BY <2>1 DEF Accesses
    <2>3. <<t, sec[t], acc[t]>> \in Values /\ mem[NextAccess(t).var] \in Values
      BY <2>2 DEF Values
    <2>4. mem' \in [Vars -> Values]
      BY <1>5, <2>3 DEF ProgramStep, Access
    <2>5. log' \in [Threads -> Seq(Values)]
      BY <1>5, <2>3 DEF ProgramStep, Access
    <2>6. pc' \in [Threads -> Places] /\ acc' \in [Threads -> Nat \ {0}]
      BY <1>5 DEF ProgramStep, Access, Places
    <2> QED BY <1>5, <2>4, <2>5, <2>6 DEF ProgramStep, Access, gateVars
  <1>6. ASSUME NEW t \in Threads, GateOutRecord(t)
        PROVE  TypeOK'
    <2>1. LockOf(t) \in Locks
      BY <1>6, SectionType DEF GateOutRecord, AtGateOut, NestingInv
    <2>2. nest_num[t] = 1
      BY <1>6 DEF GateOutRecord, AtGateOut, NestingInv
    <2>3. nest_num' \in [Threads -> Nat] /\ pc' \in [Threads -> Places]
      BY <1>6, <2>2 DEF GateOutRecord, GoTo, Places
    <2>4. omp_locks' \in [Locks -> Threads \cup {NoThread}]
      BY <1>6, <2>1 DEF GateOutRecord
    <2>5. current_clocks' \in [Locks -> Nat]
      BY <1>6, <2>1 DEF GateOutRecord
    <2>6. clock' \in [Threads -> Nat]
      BY <1>6, <2>1 DEF GateOutRecord
    <2>7. recorded' \in [Locks -> Seq(Threads \X Nat)]
      BY <1>6, <2>1 DEF GateOutRecord
    <2> QED BY <1>6, <2>3, <2>4, <2>5, <2>6, <2>7 DEF GateOutRecord, GoTo
  <1>7. ASSUME NEW t \in Threads, FileTicket(t)
        PROVE  TypeOK'
    <2>1. clock[t] \in Nat /\ file[t] \in Seq(Nat)
      OBVIOUS
    <2>2. file' \in [Threads -> Seq(Nat)]
      BY <1>7, <2>1 DEF FileTicket, TicketToFile
    <2>3. pc' \in [Threads -> Places]
      BY <1>7 DEF FileTicket, NextSection, Places
    <2>4. sec' \in [Threads -> Nat \ {0}] /\ acc' \in [Threads -> Nat \ {0}]
      BY <1>7 DEF FileTicket, NextSection
    <2> QED BY <1>7, <2>2, <2>3, <2>4 DEF FileTicket, NextSection
  <1>8. ASSUME NEW t \in Threads, GateOutReplay(t)
        PROVE  TypeOK'
    <2>1. LockOf(t) \in Locks
      BY <1>8, SectionType DEF GateOutReplay, AtGateOut, NestingInv
    <2>2. nest_num[t] = 1
      BY <1>8 DEF GateOutReplay, AtGateOut, NestingInv
    <2>3. nest_num' \in [Threads -> Nat] /\ pc' \in [Threads -> Places]
      BY <1>8, <2>2 DEF GateOutReplay, NextSection, Places
    <2>4. sec' \in [Threads -> Nat \ {0}] /\ acc' \in [Threads -> Nat \ {0}]
      BY <1>8 DEF GateOutReplay, NextSection
    <2>5. current_clocks' \in [Locks -> Nat]
      BY <1>8, <2>1 DEF GateOutReplay
    <2>6. replayed' \in [Locks -> Seq(Threads \X Nat)]
      BY <1>8, <2>1 DEF GateOutReplay
    <2> QED BY <1>8, <2>3, <2>4, <2>5, <2>6 DEF GateOutReplay, NextSection
  <1>9. CASE Rerun
    <2>1. ProgramTypeOK'
      <3>1. pc' \in [Threads -> Places]
        BY <1>9 DEF Rerun, StartReplay, Places
      <3>2. /\ sec' \in [Threads -> Nat \ {0}]
            /\ acc' \in [Threads -> Nat \ {0}]
        BY <1>9 DEF Rerun, StartReplay
      <3>3. /\ mem' \in [Vars -> Values]
            /\ log' \in [Threads -> Seq(Values)]
        BY <1>9 DEF Rerun, StartReplay, Values
      <3> QED BY <1>9, <3>1, <3>2, <3>3 DEF Rerun, StartReplay
    <2> QED BY <1>9, <2>1 DEF Rerun
  <1>10. CASE UNCHANGED vars
    BY <1>10 DEF vars, programVars, gateVars
  <1> QED
    BY <1>1, <1>2, <1>3, <1>4, <1>5, <1>6, <1>7, <1>8, <1>9, <1>10
    DEF Next, Step, Ended

\* Nesting counters follow the gates: only a thread's own step moves its place,
\* its section or its counter.
LEMMA NestingStep ==
  ASSUME TypeOK, NestingInv, [Next]_vars
  PROVE  NestingInv'
  <1> SUFFICES ASSUME NEW u \in Threads
               PROVE  /\ nest_num[u]' = IF pc[u]' = "body" THEN 1
                                        ELSE IF InSection(u)' THEN 2 ELSE 0
                      /\ sec[u]' \in 1..(Len(Program[u]) + 1)
                      /\ pc[u]' # "run" => HasSection(u)'
    BY SameProgram, LockKept DEF NestingInv
  <1> USE DEF InSection, HasSection
  <1>0. Len(Program[u]) \in Nat /\ Program' = Program
    BY ProgramTyped, SameProgram, LockKept
  <1> USE <1>0
  <1>1. CASE UNCHANGED <<nest_num, pc, sec>>
    BY <1>1 DEF NestingInv
  <1>2. ASSUME NEW t \in Threads,
               \/ GateInRecord(t) \/ GateInReplay(t) \/ NestedIn(t)
               \/ NestedOut(t) \/ ProgramStep(t) \/ GateOutRecord(t)
               \/ FileTicket(t) \/ GateOutReplay(t),
               u # t
        PROVE  UNCHANGED <<nest_num[u], pc[u], sec[u]>>
    <2> USE <1>2 DEF TypeOK, ProgramTypeOK, GoTo, NextSection
    <2>1. CASE GateInRecord(t) \/ GateInReplay(t)
      BY <2>1 DEF GateInRecord, GateInReplay
    <2>2. CASE NestedIn(t) \/ NestedOut(t)
      BY <2>2 DEF NestedIn, NestedOut
    <2>3. CASE ProgramStep(t)
      BY <2>3 DEF ProgramStep, Access, gateVars
    <2>4. CASE GateOutRecord(t) \/ GateOutReplay(t)
      BY <2>4 DEF GateOutRecord, GateOutReplay
    <2>5. CASE FileTicket(t)
      BY <2>5 DEF FileTicket
    <2> QED BY <2>1, <2>2, <2>3, <2>4, <2>5
  <1>3. CASE \/ GateInRecord(u) \/ GateInReplay(u)
    <2>1. pc[u] = "run" /\ HasSection(u) /\ nest_num[u] = 0 /\ UNCHANGED sec
      BY <1>3 DEF NestingInv, GateInRecord, GateInReplay, AtGateIn, GoTo
    <2>2. pc'[u] = "body" /\ nest_num'[u] = nest_num[u] + 1
      BY <1>3 DEF TypeOK, ProgramTypeOK, GateInRecord, GateInReplay, GoTo
    <2> QED BY <2>1, <2>2 DEF NestingInv
  <1>4. CASE \/ NestedIn(u) \/ NestedOut(u)
    <2>1. CASE NestedIn(u)
      BY <2>1 DEF TypeOK, ProgramTypeOK, NestingInv, NestedIn, AtNestedIn, GoTo
    <2>2. CASE NestedOut(u)
      BY <2>2 DEF TypeOK, ProgramTypeOK, NestingInv, NestedOut, GoTo
    <2> QED BY <1>4, <2>1, <2>2
  <1>5. CASE ProgramStep(u)
    <2>1. UNCHANGED <<nest_num, sec>> /\ HasSection(u)
      BY <1>5 DEF NestingInv, ProgramStep, Access, gateVars
    <2>2. \/ pc[u] = "body" /\ pc'[u] = "body"
          \/ pc[u] = "nested" /\ pc'[u] = "nestout"
      BY <1>5 DEF TypeOK, ProgramTypeOK, ProgramStep, Access
    <2> QED BY <2>1, <2>2 DEF NestingInv
  <1>6. CASE GateOutRecord(u)
    BY <1>6 DEF TypeOK, ProgramTypeOK, NestingInv, GateOutRecord, AtGateOut, GoTo
  <1>7. CASE FileTicket(u)
    <2>1. pc[u] = "filing" /\ HasSection(u) /\ nest_num[u] = 0
      BY <1>7 DEF NestingInv, FileTicket
    <2>2. pc'[u] = "run" /\ sec'[u] = sec[u] + 1 /\ UNCHANGED nest_num
      BY <1>7 DEF TypeOK, ProgramTypeOK, FileTicket, NextSection
    <2> QED BY <1>0, <2>1, <2>2 DEF NestingInv
  <1>8. CASE GateOutReplay(u)
    <2>1. pc[u] = "body" /\ HasSection(u) /\ nest_num[u] = 1
      BY <1>8 DEF NestingInv, GateOutReplay, AtGateOut
    <2>2. pc'[u] = "run" /\ sec'[u] = sec[u] + 1 /\ nest_num'[u] = nest_num[u] - 1
      BY <1>8 DEF TypeOK, ProgramTypeOK, GateOutReplay, NextSection
    <2> QED BY <1>0, <2>1, <2>2 DEF NestingInv
  <1>9. CASE Rerun
    BY <1>0, <1>9 DEF Rerun, StartReplay
  <1>10. CASE UNCHANGED vars
    BY <1>1, <1>10 DEF vars, programVars, gateVars
  <1>11. ASSUME NEW t \in Threads, Step(t)
         PROVE  /\ nest_num[u]' = IF pc[u]' = "body" THEN 1
                                  ELSE IF InSection(u)' THEN 2 ELSE 0
                /\ sec[u]' \in 1..(Len(Program[u]) + 1)
                /\ pc[u]' # "run" => HasSection(u)'
    <2>1. CASE u # t
      BY <1>2, <1>11, <2>1 DEF Step, NestingInv
    <2>2. CASE u = t
      BY <1>3, <1>4, <1>5, <1>6, <1>7, <1>8, <1>11, <2>2 DEF Step
    <2> QED BY <2>1, <2>2
  <1> QED BY <1>9, <1>10, <1>11 DEF Next, Ended

-------------------------------------------------------------------------------

\* What GATE_OUT does to the recorded order: one entry at the end of one lock's.
LEMMA RecordedAfter ==
  ASSUME TypeOK, NestingInv, NEW t \in Threads, GateOutRecord(t)
  PROVE  /\ LockOf(t) \in Locks
         /\ Len(recorded'[LockOf(t)]) = Len(recorded[LockOf(t)]) + 1
         /\ recorded'[LockOf(t)][Len(recorded[LockOf(t)]) + 1] = <<t, sec[t]>>
         /\ \A i \in 1..Len(recorded[LockOf(t)]) :
              recorded'[LockOf(t)][i] = recorded[LockOf(t)][i]
         /\ \A l \in Locks : l # LockOf(t) => recorded'[l] = recorded[l]
  <1>1. LockOf(t) \in Locks
    BY SectionType DEF GateOutRecord, AtGateOut, NestingInv
  <1>2. <<t, sec[t]>> \in Threads \X Nat
    BY DEF TypeOK, ProgramTypeOK
  <1>3. recorded[LockOf(t)] \in Seq(Threads \X Nat)
    BY <1>1 DEF TypeOK
  <1>4. recorded'[LockOf(t)] = Append(recorded[LockOf(t)], <<t, sec[t]>>)
    BY <1>1 DEF GateOutRecord, TypeOK
  <1>5. \A l \in Locks : l # LockOf(t) => recorded'[l] = recorded[l]
    BY DEF GateOutRecord, TypeOK
  <1> QED BY <1>1, <1>2, <1>3, <1>4, <1>5

LEMMA ReplayedAfter ==
  ASSUME TypeOK, NestingInv, NEW t \in Threads, GateOutReplay(t)
  PROVE  /\ LockOf(t) \in Locks
         /\ replayed' = [replayed EXCEPT
                           ![LockOf(t)] = Append(@, <<t, sec[t]>>)]
         /\ Len(replayed'[LockOf(t)]) = Len(replayed[LockOf(t)]) + 1
         /\ replayed'[LockOf(t)][Len(replayed[LockOf(t)]) + 1] = <<t, sec[t]>>
         /\ \A i \in 1..Len(replayed[LockOf(t)]) :
              replayed'[LockOf(t)][i] = replayed[LockOf(t)][i]
         /\ \A l \in Locks : l # LockOf(t) => replayed'[l] = replayed[l]
  <1>1. LockOf(t) \in Locks
    BY SectionType DEF GateOutReplay, AtGateOut, NestingInv
  <1>2. <<t, sec[t]>> \in Threads \X Nat
    BY DEF TypeOK, ProgramTypeOK
  <1>3. replayed[LockOf(t)] \in Seq(Threads \X Nat)
    BY <1>1 DEF TypeOK
  <1>4. replayed' = [replayed EXCEPT ![LockOf(t)] = Append(@, <<t, sec[t]>>)]
    BY DEF GateOutReplay
  <1>5. replayed'[LockOf(t)] = Append(replayed[LockOf(t)], <<t, sec[t]>>)
    BY <1>1, <1>4 DEF TypeOK
  <1>6. \A l \in Locks : l # LockOf(t) => replayed'[l] = replayed[l]
    BY <1>4 DEF TypeOK
  <1> QED BY <1>1, <1>2, <1>3, <1>4, <1>5, <1>6

\* A ticket once issued stays issued to the same section.
LEMMA IssuedStays ==
  ASSUME TypeOK, NestingInv, NEW t \in Threads, GateOutRecord(t),
         NEW l \in Locks, NEW e \in Nat, NEW u, NEW s, IssuedTo(l, e, u, s)
  PROVE  e < Len(recorded'[l]) /\ recorded'[l][e + 1] = <<u, s>>
  <1>1. Len(recorded[l]) \in Nat
    BY DEF TypeOK
  <1>2. CASE l = LockOf(t)
    BY <1>1, <1>2, RecordedAfter DEF IssuedTo
  <1>3. CASE l # LockOf(t)
    BY <1>3, RecordedAfter DEF IssuedTo
  <1> QED BY <1>2, <1>3

\* The same when the recorded order does not change.
LEMMA TicketKept ==
  ASSUME TypeOK, TicketInv, UNCHANGED <<program, file, recorded>>,
         \A t \in Threads : pc'[t] = "filing" =>
            pc[t] = "filing" /\ sec'[t] = sec[t] /\ clock'[t] = clock[t]
  PROVE  TicketInv'
  <1>1. Program' = Program
    BY LockKept DEF Program
  <1>2. ASSUME NEW t \in Threads, NEW s \in 1..Len(file'[t])
        PROVE  s <= Len(Program'[t]) /\ IssuedTo(LockAt(t, s), file[t][s], t, s)'
    <2>1. /\ s <= Len(Program[t])
          /\ IssuedTo(LockAt(t, s), file[t][s], t, s)
      BY <1>2 DEF TicketInv
    <2>2. LockAt(t, s)' = LockAt(t, s)
      BY LockKept
    <2> QED BY <1>1, <2>1, <2>2 DEF IssuedTo
  <1>3. ASSUME NEW t \in Threads, pc'[t] = "filing"
        PROVE  IssuedTo(LockOf(t), clock[t], t, sec[t])'
    <2>1. pc[t] = "filing" /\ sec'[t] = sec[t] /\ clock'[t] = clock[t]
      BY <1>3
    <2>2. IssuedTo(LockOf(t), clock[t], t, sec[t])
      BY <2>1 DEF TicketInv
    <2>3. LockOf(t)' = LockOf(t)
      BY <2>1, LockKept
    <2> QED BY <2>1, <2>2, <2>3 DEF IssuedTo
  <1> QED BY <1>2, <1>3 DEF TicketInv

\* Every step keeps the agreement of tickets, files and histories.
LEMMA TicketStep ==
  ASSUME TypeOK, NestingInv, TicketInv, RecordInv, ReplayInv, [Next]_vars
  PROVE  TicketInv'
  <1>1. ASSUME NEW t \in Threads, GateInRecord(t) \/ GateInReplay(t)
        PROVE  TicketInv'
    BY <1>1, SameProgram, TicketKept DEF TypeOK, ProgramTypeOK, GateInRecord, GateInReplay, GoTo
  <1>2. ASSUME NEW t \in Threads, NestedIn(t) \/ NestedOut(t)
        PROVE  TicketInv'
    BY <1>2, SameProgram, TicketKept DEF TypeOK, ProgramTypeOK, NestedIn, NestedOut, GoTo
  <1>3. ASSUME NEW t \in Threads, ProgramStep(t)
        PROVE  TicketInv'
    BY <1>3, SameProgram, TicketKept DEF TypeOK, ProgramTypeOK, ProgramStep, Access, gateVars
  <1>4. ASSUME NEW t \in Threads, GateOutReplay(t)
        PROVE  TicketInv'
    BY <1>4, SameProgram, TicketKept DEF TypeOK, ProgramTypeOK, GateOutReplay, NextSection
  <1>5. ASSUME NEW t \in Threads, GateOutRecord(t)
        PROVE  TicketInv'
    <2>1. /\ file' = file /\ sec' = sec
          /\ clock'[t] = current_clocks[LockOf(t)]
          /\ \A u \in Threads : u # t => clock'[u] = clock[u] /\ pc'[u] = pc[u]
      BY <1>5 DEF TypeOK, ProgramTypeOK, GateOutRecord, GoTo
    <2>2. ASSUME NEW u \in Threads, NEW s \in 1..Len(file[u])
          PROVE  /\ s <= Len(Program[u])
                 /\ IssuedTo(LockAt(u, s), file[u][s], u, s)'
      <3>1. s <= Len(Program[u]) /\ IssuedTo(LockAt(u, s), file[u][s], u, s)
        BY DEF TicketInv
      <3>2. LockAt(u, s) \in Locks
        BY <3>1, LockAtType, ProgramTyped
      <3>3. file[u][s] \in Nat
        BY DEF TypeOK
      <3>4. /\ file[u][s] < Len(recorded'[LockAt(u, s)])
            /\ recorded'[LockAt(u, s)][file[u][s] + 1] = <<u, s>>
        BY <1>5, <3>1, <3>2, <3>3, IssuedStays
      <3> QED BY <2>1, <3>1, <3>4, SameProgram, LockKept DEF IssuedTo
    <2>3. ASSUME NEW u \in Threads, pc'[u] = "filing"
          PROVE  /\ clock'[u] < Len(recorded'[LockOf(u)])
                 /\ recorded'[LockOf(u)][clock'[u] + 1] = <<u, sec[u]>>
      <3>1. CASE u = t
        <4>1. mode = "record" /\ LockOf(t) \in Locks
          BY <1>5, RecordedAfter DEF GateOutRecord
        <4>2. Len(recorded[LockOf(t)]) = current_clocks[LockOf(t)]
          BY <4>1 DEF RecordInv
        <4>3. current_clocks[LockOf(t)] \in Nat
          BY <4>1 DEF TypeOK
        <4> QED BY <1>5, <2>1, <3>1, <4>1, <4>2, <4>3, RecordedAfter
      <3>2. CASE u # t
        <4>1. pc[u] = "filing" /\ clock'[u] = clock[u] /\ HasSection(u)
          BY <2>1, <2>3, <3>2 DEF NestingInv
        <4>2. LockOf(u) \in Locks /\ IssuedTo(LockOf(u), clock[u], u, sec[u])
          BY <4>1, SectionType DEF TicketInv
        <4>3. clock[u] \in Nat
          BY DEF TypeOK
        <4> QED BY <1>5, <4>1, <4>2, <4>3, IssuedStays
      <3> QED BY <3>1, <3>2
    <2>4. \A u \in Threads : LockOf(u)' = LockOf(u)
      BY <2>1, SameProgram, LockKept
    <2> QED BY <2>1, <2>2, <2>3, <2>4, SameProgram, LockKept DEF TicketInv, IssuedTo
  <1>6. ASSUME NEW t \in Threads, FileTicket(t)
        PROVE  TicketInv'
    <2>1. /\ pc[t] = "filing" /\ HasSection(t)
          /\ mode = "record" /\ Len(file[t]) = sec[t] - 1
      <3>1. pc[t] = "filing"
        BY <1>6 DEF FileTicket
      <3>2. mode = "record"
        BY <3>1 DEF TypeOK, ProgramTypeOK, ReplayInv
      <3> QED BY <3>1, <3>2 DEF NestingInv, RecordInv
    <2>2. /\ UNCHANGED <<recorded, clock>>
          /\ file'[t] = Append(file[t], clock[t])
          /\ pc'[t] = "run"
          /\ \A u \in Threads : u # t =>
               file'[u] = file[u] /\ pc'[u] = pc[u] /\ sec'[u] = sec[u]
      BY <1>6 DEF TypeOK, ProgramTypeOK, FileTicket, TicketToFile, NextSection
    <2>3. /\ sec[t] \in 1..Len(Program[t])
          /\ IssuedTo(LockAt(t, sec[t]), clock[t], t, sec[t])
      BY <2>1, SectionType DEF TicketInv
    <2>4. ASSUME NEW u \in Threads, NEW s \in 1..Len(file'[u])
          PROVE  /\ s <= Len(Program[u])
                 /\ IssuedTo(LockAt(u, s), file'[u][s], u, s)
      <3>1. CASE u = t /\ s = sec[t]
        <4>1. file'[u][s] = clock[t]
          BY <2>1, <2>2, <3>1 DEF TypeOK, ProgramTypeOK
        <4> QED BY <2>3, <3>1, <4>1
      <3>2. CASE s \in 1..Len(file[u]) /\ file'[u][s] = file[u][s]
        BY <3>2 DEF TicketInv
      <3>3. CASE u # t
        BY <2>2, <3>2, <3>3
      <3>4. CASE u = t
        <4>1. file[t] \in Seq(Nat) /\ clock[t] \in Nat
          BY DEF TypeOK
        <4>2. /\ Len(file'[t]) = sec[t]
              /\ \A i \in 1..Len(file[t]) : file'[t][i] = file[t][i]
          <5>1. file'[t] = Append(file[t], clock[t])
            BY <2>2
          <5>2. Len(file[t]) = sec[t] - 1
            BY <2>1
          <5> QED BY <4>1, <5>1, <5>2, <2>3
        <4> QED BY <2>1, <3>1, <3>2, <3>4, <4>1, <4>2
      <3> QED BY <3>3, <3>4
    <2>5. ASSUME NEW u \in Threads, pc'[u] = "filing"
          PROVE  LockOf(u)' = LockOf(u) /\ IssuedTo(LockOf(u), clock[u], u, sec'[u])
      BY <2>2, <2>5, SameProgram, LockKept DEF TicketInv
    <2>6. ASSUME NEW u \in Threads, NEW s \in 1..Len(file'[u])
          PROVE  (s <= Len(Program[u]) /\ IssuedTo(LockAt(u, s), file[u][s], u, s))'
      <3>1. LockAt(u, s)' = LockAt(u, s) /\ Program' = Program
        BY SameProgram, LockKept
      <3> QED BY <2>2, <2>4, <3>1 DEF IssuedTo
    <2>7. ASSUME NEW u \in Threads, pc'[u] = "filing"
          PROVE  IssuedTo(LockOf(u), clock[u], u, sec[u])'
      BY <2>2, <2>5, <2>7 DEF IssuedTo
    <2> QED BY <2>6, <2>7 DEF TicketInv
  <1>7. CASE Rerun
    BY <1>7, SameProgram, TicketKept DEF Rerun, StartReplay
  <1>8. CASE UNCHANGED vars
    BY <1>8, SameProgram, TicketKept DEF vars, programVars, gateVars
  <1> QED
    BY <1>1, <1>2, <1>3, <1>4, <1>5, <1>6, <1>7, <1>8 DEF Next, Step, Ended

-------------------------------------------------------------------------------

\* In either run, two threads inside sections of one lock are one thread: both
\* hold the lock, or both hold the ticket that the clock shows.
LEMMA Exclusion ==
  ASSUME TypeOK, Inductive
  PROVE  SectionExclusion
  <1> USE DEF Inductive
  <1> SUFFICES ASSUME NEW t \in Threads, NEW u \in Threads,
                      InSection(t), InSection(u), LockOf(t) = LockOf(u)
               PROVE  t = u
    BY DEF SectionExclusion
  <1>1. CASE mode = "record"
    BY <1>1 DEF RecordInv
  <1>2. CASE mode = "replay"
    <2>1. HasSection(t) /\ HasSection(u)
      BY DEF NestingInv, InSection
    <2>2. /\ file[t][sec[t]] = current_clocks[LockOf(t)]
          /\ file[u][sec[u]] = current_clocks[LockOf(t)]
      BY <1>2 DEF ReplayInv
    <2>3. /\ sec[t] \in 1..Len(file[t]) /\ LockOf(t) = LockAt(t, sec[t])
          /\ sec[u] \in 1..Len(file[u]) /\ LockOf(u) = LockAt(u, sec[u])
      BY <1>2, <2>1, SectionType DEF ReplayInv
    <2>4. /\ IssuedTo(LockOf(t), current_clocks[LockOf(t)], t, sec[t])
          /\ IssuedTo(LockOf(t), current_clocks[LockOf(t)], u, sec[u])
      BY <2>2, <2>3 DEF TicketInv
    <2> QED BY <2>4 DEF IssuedTo
  <1> QED BY <1>1, <1>2 DEF TypeOK, ProgramTypeOK

\* An entry of the recorded order belongs to a section that was left.
LeftAt(e) == e[2] < sec[e[1]] \/ (e[2] = sec[e[1]] /\ pc[e[1]] = "filing")

LEMMA EntryLeft ==
  ASSUME TypeOK, RecordInv, mode = "record",
         NEW l \in Locks, NEW i \in 1..Len(recorded[l])
  PROVE  recorded[l][i] \in Threads \X Nat /\ LeftAt(recorded[l][i])
  <1>1. recorded[l][i] \in Threads \X Nat
    BY DEF TypeOK
  <1>2. LeftAt(recorded[l][i])
    BY DEF RecordInv, LeftAt
  <1> QED BY <1>1, <1>2

\* Sections that were left stay left while threads only go forward.
LEMMA LeftStays ==
  ASSUME TypeOK, NEW e \in Threads \X Nat, LeftAt(e),
         \/ sec'[e[1]] = sec[e[1]] /\ (pc[e[1]] = "filing" => pc'[e[1]] = "filing")
         \/ sec'[e[1]] = sec[e[1]] + 1
  PROVE  LeftAt(e)'
  <1>1. e[1] \in Threads /\ e[2] \in Nat
    OBVIOUS
  <1>2. sec[e[1]] \in Nat
    BY <1>1 DEF TypeOK, ProgramTypeOK
  <1> QED BY <1>1, <1>2 DEF LeftAt

\* The steps of the recorded run that leave the clocks, the histories and the
\* files alone and start no section.
LEMMA RecordKept ==
  ASSUME TypeOK, RecordInv, mode = "record",
         UNCHANGED <<program, omp_locks, current_clocks, file, sec, recorded,
                     replayed>>,
         \A u \in Threads : InSection(u)' => InSection(u),
         \A u \in Threads : pc[u] = "filing" => pc'[u] = "filing"
  PROVE  RecordInv'
  <1>1. \A u \in Threads : LockOf(u)' = LockOf(u)
    BY LockKept
  <1>2. ASSUME NEW l \in Locks, NEW i \in 1..Len(recorded[l])
        PROVE  LeftAt(recorded[l][i])'
    BY EntryLeft, LeftStays DEF TypeOK, ProgramTypeOK
  <1> QED BY <1>1, <1>2 DEF RecordInv, LeftAt

\* Every step of the recorded run keeps the invariant of the lock holders.
LEMMA RecordStep ==
  ASSUME TypeOK, Inductive, [Next]_vars, mode' = "record"
  PROVE  RecordInv'
  <1> USE DEF Inductive
  <1>1. CASE UNCHANGED vars
    BY <1>1 DEF vars, programVars, gateVars, RecordInv, InSection, LockOf, Section,
       GateLock, MultiClock, Program
  <1>2. ASSUME NEW t \in Threads, GateInRecord(t)
        PROVE  RecordInv'
    <2>1. /\ pc[t] = "run" /\ LockOf(t) \in Locks
          /\ omp_locks[LockOf(t)] = NoThread /\ omp_locks'[LockOf(t)] = t
          /\ \A l \in Locks : l # LockOf(t) => omp_locks'[l] = omp_locks[l]
      BY <1>2, SectionType DEF TypeOK, GateInRecord, AtGateIn, LockIsFree
    <2>2. /\ UNCHANGED <<mode, sec, current_clocks, file, recorded, replayed>>
          /\ mode = "record"
          /\ \A u \in Threads : u # t => pc'[u] = pc[u]
      BY <1>2 DEF TypeOK, ProgramTypeOK, GateInRecord, GoTo
    <2>3. \A u \in Threads : LockOf(u)' = LockOf(u)
      BY <2>2, SameProgram, LockKept
    <2>4. ASSUME NEW u \in Threads, InSection(u)'
          PROVE  omp_locks'[LockOf(u)] = u
      <3>1. CASE u = t
        BY <2>1, <3>1
      <3>2. CASE u # t
        <4>1. InSection(u) /\ HasSection(u)
          BY <2>2, <2>4, <3>2 DEF InSection, NestingInv
        <4>2. LockOf(u) \in Locks /\ omp_locks[LockOf(u)] = u
          BY <2>2, <4>1, SectionType DEF RecordInv
        <4> QED BY <2>1, <4>2, NoThreadAssumption
      <3> QED BY <3>1, <3>2
    <2>5. ASSUME NEW l \in Locks, NEW i \in 1..Len(recorded[l])
          PROVE  LeftAt(recorded[l][i])'
      <3>1. recorded[l][i] \in Threads \X Nat /\ LeftAt(recorded[l][i])
        BY <2>2, EntryLeft
      <3>2. pc[recorded[l][i][1]] = "filing" => pc'[recorded[l][i][1]] = "filing"
        BY <2>1, <2>2, <3>1
      <3> QED BY <2>2, <3>1, <3>2, LeftStays
    <2> QED BY <2>2, <2>3, <2>4, <2>5 DEF RecordInv, LeftAt
  <1>3. ASSUME NEW t \in Threads, NestedIn(t) \/ NestedOut(t) \/ ProgramStep(t)
        PROVE  RecordInv'
    <2>1. /\ UNCHANGED <<mode, omp_locks, current_clocks, file, sec, recorded, replayed>>
          /\ pc[t] \in {"body", "nested", "nestout"}
          /\ \A u \in Threads : u # t => pc'[u] = pc[u]
      BY <1>3 DEF TypeOK, ProgramTypeOK, NestedIn, AtNestedIn, NestedOut, ProgramStep,
         Access, InSection, gateVars, GoTo
    <2> QED BY <2>1, SameProgram, RecordKept DEF InSection
  <1>4. ASSUME NEW t \in Threads, GateOutRecord(t)
        PROVE  RecordInv'
    <2>1. /\ UNCHANGED <<mode, sec, file, replayed>>
          /\ mode = "record" /\ pc[t] = "body" /\ pc'[t] = "filing"
          /\ \A u \in Threads : u # t => pc'[u] = pc[u]
          /\ \A l \in Locks : l # LockOf(t) =>
               omp_locks'[l] = omp_locks[l] /\ current_clocks'[l] = current_clocks[l]
      BY <1>4 DEF TypeOK, ProgramTypeOK, GateOutRecord, AtGateOut, GoTo
    <2>2. /\ LockOf(t) \in Locks
          /\ current_clocks'[LockOf(t)] = current_clocks[LockOf(t)] + 1
      BY <1>4, RecordedAfter DEF TypeOK, GateOutRecord
    <2>3. \A u \in Threads : LockOf(u)' = LockOf(u)
      BY <2>1, SameProgram, LockKept
    <2>4. ASSUME NEW u \in Threads, InSection(u)'
          PROVE  omp_locks'[LockOf(u)] = u
      <3>1. u # t /\ InSection(u) /\ HasSection(u)
        BY <2>1, <2>4 DEF InSection, NestingInv
      <3>2. /\ LockOf(u) \in Locks /\ omp_locks[LockOf(u)] = u
            /\ omp_locks[LockOf(t)] = t
        BY <2>1, <3>1, SectionType DEF RecordInv, InSection
      <3> QED BY <2>1, <3>1, <3>2
    <2>5. ASSUME NEW l \in Locks
          PROVE  Len(recorded'[l]) = current_clocks'[l] /\ replayed'[l] = <<>>
      BY <1>4, <2>1, <2>2, RecordedAfter DEF RecordInv
    <2>6. ASSUME NEW l \in Locks, NEW i \in 1..Len(recorded'[l])
          PROVE  LeftAt(recorded[l][i])'
      <3>1. CASE i \in 1..Len(recorded[l]) /\ recorded'[l][i] = recorded[l][i]
        <4>1. recorded[l][i] \in Threads \X Nat /\ LeftAt(recorded[l][i])
          BY <2>1, <3>1, EntryLeft
        <4>2. \A u \in Threads : pc[u] = "filing" => pc'[u] = "filing"
          BY <2>1
        <4>3. LET e == recorded[l][i]
              IN  e[2] < sec'[e[1]] \/ (e[2] = sec'[e[1]] /\ pc'[e[1]] = "filing")
          BY <2>1, <4>1, <4>2 DEF LeftAt
        <4> QED BY <3>1, <4>3 DEF LeftAt
      <3>2. CASE recorded'[l][i] = <<t, sec[t]>>
        BY <2>1, <3>2 DEF LeftAt
      <3>3. Len(recorded[l]) \in Nat
        BY DEF TypeOK
      <3> QED BY <1>4, <3>1, <3>2, <3>3, RecordedAfter
    <2>7. \A u \in Threads : Len(file'[u]) = sec'[u] - 1
      BY <2>1 DEF RecordInv
    <2> QED BY <2>3, <2>4, <2>5, <2>6, <2>7 DEF RecordInv, LeftAt
  <1>5. ASSUME NEW t \in Threads, FileTicket(t)
        PROVE  RecordInv'
    <2>1. /\ UNCHANGED <<mode, omp_locks, current_clocks, recorded, replayed>>
          /\ mode = "record" /\ pc[t] = "filing" /\ pc'[t] = "run"
          /\ sec'[t] = sec[t] + 1 /\ file'[t] = Append(file[t], clock[t])
          /\ \A u \in Threads : u # t =>
               pc'[u] = pc[u] /\ sec'[u] = sec[u] /\ file'[u] = file[u]
      BY <1>5, mode' = "record"
      DEF TypeOK, ProgramTypeOK, FileTicket, TicketToFile, NextSection
    <2>2. ASSUME NEW u \in Threads, InSection(u)'
          PROVE  omp_locks'[LockOf(u)'] = u
      BY <2>1, <2>2, SameProgram, LockKept DEF RecordInv, InSection
    <2>3. ASSUME NEW u \in Threads
          PROVE  Len(file'[u]) = sec'[u] - 1
      <3>1. CASE u = t
        <4>1. Len(file'[t]) = Len(file[t]) + 1
          BY <2>1 DEF TypeOK
        <4> QED BY <2>1, <3>1, <4>1 DEF RecordInv, TypeOK, ProgramTypeOK
      <3>2. CASE u # t
        BY <2>1, <3>2 DEF RecordInv
      <3> QED BY <3>1, <3>2
    <2>4. ASSUME NEW l \in Locks, NEW i \in 1..Len(recorded[l])
          PROVE  LeftAt(recorded[l][i])'
      <3>1. recorded[l][i] \in Threads \X Nat /\ LeftAt(recorded[l][i])
        BY <2>1, EntryLeft
      <3>2. LET u == recorded[l][i][1]
            IN  \/ sec'[u] = sec[u] /\ (pc[u] = "filing" => pc'[u] = "filing")
                \/ sec'[u] = sec[u] + 1
        BY <2>1, <3>1
      <3> QED BY <2>1, <3>1, <3>2, LeftStays
    <2> QED BY <2>1, <2>2, <2>3, <2>4 DEF RecordInv, LeftAt
  <1>6. CASE Rerun
    BY <1>6 DEF Rerun, StartReplay, RecordInv
  <1>7. ASSUME NEW t \in Threads, GateInReplay(t) \/ GateOutReplay(t)
        PROVE  RecordInv'
    BY <1>7 DEF GateInReplay, GateOutReplay, GoTo, NextSection, RecordInv
  <1> QED
    BY <1>1, <1>2, <1>3, <1>4, <1>5, <1>6, <1>7 DEF Next, Step, Ended

-------------------------------------------------------------------------------

\* The replaying section that leaves is the next one of the recorded order.
LEMMA NextInOrder ==
  ASSUME TypeOK, Inductive, NEW t \in Threads, GateOutReplay(t)
  PROVE  /\ LockOf(t) \in Locks
         /\ Len(replayed[LockOf(t)]) = current_clocks[LockOf(t)]
         /\ Len(replayed[LockOf(t)]) < Len(recorded[LockOf(t)])
         /\ recorded[LockOf(t)][Len(replayed[LockOf(t)]) + 1] = <<t, sec[t]>>
  <1> USE DEF Inductive
  <1>1. mode = "replay" /\ InSection(t) /\ HasSection(t)
    BY DEF GateOutReplay, AtGateOut, InSection, NestingInv
  <1>2. /\ LockOf(t) \in Locks /\ LockOf(t) = LockAt(t, sec[t])
        /\ sec[t] \in 1..Len(file[t])
    BY <1>1, SectionType DEF ReplayInv
  <1>3. IssuedTo(LockOf(t), file[t][sec[t]], t, sec[t])
    BY <1>2 DEF TicketInv
  <1>4. /\ file[t][sec[t]] = current_clocks[LockOf(t)]
        /\ Len(replayed[LockOf(t)]) = current_clocks[LockOf(t)]
    BY <1>1, <1>2 DEF ReplayInv
  <1> QED BY <1>2, <1>3, <1>4 DEF IssuedTo

\* A replaying thread's own part of ReplayInv.
ThreadFollows(u) ==
  /\ Len(file[u]) = Len(Program[u])
  /\ pc[u] # "filing"
  /\ pos[u] = IF InSection(u) THEN sec[u] ELSE sec[u] - 1
  /\ InSection(u) => file[u][sec[u]] = current_clocks[LockOf(u)]

LockFollows(l) ==
  /\ Len(replayed[l]) = current_clocks[l]
  /\ Len(replayed[l]) <= Len(recorded[l])
  /\ \A i \in 1..Len(replayed[l]) : replayed[l][i] = recorded[l][i]

LEMMA ReplayParts ==
  ReplayInv <=> (mode = "replay" => /\ \A u \in Threads : ThreadFollows(u)
                                   /\ \A l \in Locks : LockFollows(l))
  BY DEF ReplayInv, ThreadFollows, LockFollows

\* Every step of the replay keeps the invariant of the turns.
LEMMA ReplayStep ==
  ASSUME TypeOK, Inductive, [Next]_vars, mode' = "replay"
  PROVE  ReplayInv'
  <1> USE DEF Inductive
  <1>0. Program' = Program
    BY SameProgram DEF Program
  <1>1. CASE UNCHANGED vars
    BY <1>1 DEF vars, programVars, gateVars, ReplayInv, InSection, LockOf, Section,
       GateLock, MultiClock, Program
  <1>2. CASE Rerun
    <2>1. ASSUME NEW u \in Threads
          PROVE  ThreadFollows(u)'
      <3>1. /\ mode = "record" /\ ~HasSection(u) /\ file' = file
            /\ pc'[u] = "run" /\ sec'[u] = 1 /\ pos'[u] = 0
        BY <1>2 DEF Rerun, StartReplay, AllDone
      <3>2. Len(file[u]) = sec[u] - 1
        BY <3>1 DEF RecordInv
      <3>3. sec[u] = Len(Program[u]) + 1
        BY <3>1, ProgramTyped DEF NestingInv, HasSection
      <3> QED BY <1>0, <3>1, <3>2, <3>3, ProgramTyped
          DEF ThreadFollows, InSection
    <2>2. ASSUME NEW l \in Locks
          PROVE  LockFollows(l)'
      BY <1>2 DEF Rerun, StartReplay, RecordInv, LockFollows, TypeOK
    <2> QED BY <2>1, <2>2 DEF ReplayInv, ThreadFollows, LockFollows
  <1>3. ASSUME NEW t \in Threads, GateInReplay(t)
        PROVE  ReplayInv'
    <2>1. /\ UNCHANGED <<sec, file, current_clocks, recorded, replayed>>
          /\ mode = "replay" /\ pc[t] = "run" /\ pc'[t] = "body"
          /\ pos'[t] = pos[t] + 1
          /\ file[t][pos[t] + 1] = current_clocks[LockOf(t)]
          /\ \A u \in Threads : u # t => pc'[u] = pc[u] /\ pos'[u] = pos[u]
      BY <1>3 DEF TypeOK, ProgramTypeOK, GateInReplay, AtGateIn, HasTicket, NextTicket,
         TicketIsUp, GoTo
    <2>2. \A u \in Threads : LockOf(u)' = LockOf(u)
      BY <2>1, SameProgram, LockKept
    <2>3. ASSUME NEW u \in Threads
          PROVE  ThreadFollows(u)'
      <3>1. ThreadFollows(u)
        BY <2>1 DEF ReplayInv, ThreadFollows
      <3>2. CASE u = t
        BY <1>0, <2>1, <2>2, <3>1, <3>2 DEF ThreadFollows, InSection, TypeOK, ProgramTypeOK
      <3>3. CASE u # t
        BY <1>0, <2>1, <2>2, <3>1, <3>3 DEF ThreadFollows, InSection
      <3> QED BY <3>2, <3>3
    <2>4. \A l \in Locks : LockFollows(l)'
      BY <2>1 DEF ReplayInv, LockFollows
    <2> QED BY <2>3, <2>4 DEF ReplayInv, ThreadFollows, LockFollows
  <1>4. ASSUME NEW t \in Threads, NestedIn(t) \/ NestedOut(t) \/ ProgramStep(t)
        PROVE  ReplayInv'
    <2>1. /\ UNCHANGED <<mode, sec, file, pos, current_clocks, recorded, replayed>>
          /\ \A u \in Threads : InSection(u)' <=> InSection(u)
          /\ \A u \in Threads : pc[u] # "filing" => pc'[u] # "filing"
      BY <1>4 DEF TypeOK, ProgramTypeOK, NestedIn, AtNestedIn, NestedOut, ProgramStep,
         Access, InSection, gateVars, GoTo
    <2>2. \A u \in Threads : LockOf(u)' = LockOf(u)
      BY <2>1, SameProgram, LockKept
    <2> QED BY <1>0, <2>1, <2>2 DEF ReplayInv
  <1>5. ASSUME NEW t \in Threads, GateOutReplay(t)
        PROVE  ReplayInv'
    <2>1. /\ UNCHANGED <<file, pos, recorded>>
          /\ mode = "replay" /\ pc[t] = "body" /\ pc'[t] = "run"
          /\ sec'[t] = sec[t] + 1
          /\ \A u \in Threads : u # t => pc'[u] = pc[u] /\ sec'[u] = sec[u]
          /\ \A l \in Locks : l # LockOf(t) => current_clocks'[l] = current_clocks[l]
      BY <1>5 DEF TypeOK, ProgramTypeOK, GateOutReplay, AtGateOut, NextSection
    <2>2. current_clocks'[LockOf(t)] = current_clocks[LockOf(t)] + 1
      BY <1>5, NextInOrder DEF TypeOK, GateOutReplay
    <2>3. ASSUME NEW u \in Threads
          PROVE  ThreadFollows(u)'
      <3>1. ThreadFollows(u)
        BY <2>1 DEF ReplayInv, ThreadFollows
      <3>2. CASE u = t
        <4>1. sec[t] \in Nat /\ pos[t] = sec[t] /\ pos'[t] = pos[t]
          BY <2>1, <3>1, <3>2 DEF ThreadFollows, InSection, TypeOK, ProgramTypeOK
        <4> QED BY <1>0, <2>1, <3>1, <3>2, <4>1 DEF ThreadFollows, InSection
      <3>3. CASE u # t
        <4>1. InSection(u) => LockOf(u) \in Locks /\ LockOf(u) # LockOf(t)
          BY <2>1, <3>3, Exclusion, SectionType
          DEF SectionExclusion, InSection, NestingInv
        <4>2. LockOf(u)' = LockOf(u)
          BY <2>1, <3>3, SameProgram, LockKept
        <4> QED BY <1>0, <2>1, <3>1, <3>3, <4>1, <4>2 DEF ThreadFollows, InSection
      <3> QED BY <3>2, <3>3
    <2>4. ASSUME NEW l \in Locks
          PROVE  LockFollows(l)'
      <3>1. LockFollows(l)
        BY <2>1 DEF ReplayInv, LockFollows
      <3>2. CASE l = LockOf(t)
        <4>1. Len(replayed[l]) \in Nat /\ Len(recorded[l]) \in Nat
          BY DEF TypeOK
        <4>2. /\ Len(replayed'[l]) = Len(replayed[l]) + 1
              /\ Len(replayed[l]) < Len(recorded[l])
              /\ replayed'[l][Len(replayed[l]) + 1] = recorded[l][Len(replayed[l]) + 1]
              /\ \A i \in 1..Len(replayed[l]) : replayed'[l][i] = replayed[l][i]
          BY <1>5, <3>2, NextInOrder, ReplayedAfter
        <4>3. \A i \in 1..Len(replayed'[l]) : replayed'[l][i] = recorded[l][i]
          BY <3>1, <4>1, <4>2 DEF LockFollows
        <4> QED BY <2>1, <2>2, <3>1, <3>2, <4>1, <4>2, <4>3 DEF LockFollows
      <3>3. CASE l # LockOf(t)
        BY <1>5, <2>1, <3>1, <3>3, ReplayedAfter DEF LockFollows
      <3> QED BY <3>2, <3>3
    <2> QED BY <2>3, <2>4 DEF ReplayInv, ThreadFollows, LockFollows
  <1>6. ASSUME NEW t \in Threads,
               GateInRecord(t) \/ GateOutRecord(t) \/ FileTicket(t)
        PROVE  ReplayInv'
    BY <1>6, mode' = "replay" DEF GateInRecord, GateOutRecord, FileTicket, GoTo,
       NextSection, ReplayInv
  <1> QED
    BY <1>1, <1>2, <1>3, <1>4, <1>5, <1>6 DEF Next, Step, Ended

-------------------------------------------------------------------------------

\* The inductive invariant, for every team, program and number of locks: tickets,
\* clocks, locks and the two orders agree in every reachable state.
THEOREM Invariance == Spec => []Inductive
  <1>1. Init => Inductive
    BY InitInductive
  <1>2. Inductive /\ [Next]_vars => Inductive'
    <2> SUFFICES ASSUME TypeOK, Inductive, [Next]_vars
                 PROVE  Inductive'
      BY DEF Inductive
    <2>1. TypeOK'
      BY TypeStep DEF Inductive
    <2>2. NestingInv' /\ TicketInv'
      BY NestingStep, TicketStep DEF Inductive
    <2>3. mode' \in {"record", "replay"}
      BY <2>1 DEF TypeOK, ProgramTypeOK
    <2>4. RecordInv'
      BY <2>3, RecordStep DEF RecordInv
    <2>5. ReplayInv'
      BY <2>3, ReplayStep DEF ReplayInv
    <2> QED BY <2>1, <2>2, <2>4, <2>5 DEF Inductive
  <1> QED BY <1>1, <1>2, PTL DEF Spec

\* The state of the gate and of the program always has its type.
THEOREM TypeCorrect == Spec => []TypeOK
  <1>1. Inductive => TypeOK
    BY DEF Inductive
  <1> QED BY <1>1, Invariance, PTL

\* In both runs at most one thread is inside the sections of a lock; in the
\* replay, where no lock is taken, the tickets alone see to it.
THEOREM MutualExclusion == Spec => []SectionExclusion
  BY Invariance, TypeCorrect, Exclusion, PTL

\* Both runs are runs of one of the programs, and of the same one.
LEMMA OneProgram == Spec => [](program \in Programs)
  <1>1. Init => program \in Programs
    BY DEF Init, ProgramInit
  <1>2. program \in Programs /\ [Next]_vars => (program \in Programs)'
    BY SameProgram
  <1> QED BY <1>1, <1>2, PTL DEF Spec

\* Sections pass the gate of every lock in the recorded order: the clock gate
\* implements GateOrder.
THEOREM FollowsRecordedOrder == Spec => OrderSpec
  <1>1. Init => Order!Init
    BY DEF Init, ProgramInit, Order!Init
  <1>2. ASSUME TypeOK, Inductive, program \in Programs, [Next]_vars
        PROVE  [Order!Next]_(Order!vars)
    <2>1. CASE UNCHANGED <<mode, recorded, replayed>>
      BY <2>1 DEF Order!vars
    <2>2. CASE Rerun
      BY <2>2 DEF Rerun, StartReplay, Order!Next, Order!Rerun
    <2>3. ASSUME NEW t \in Threads, GateOutRecord(t)
          PROVE  Order!Next
      <3>1. LockOf(t) \in Locks /\ HasSection(t) /\ pc[t] = "body" /\ mode = "record"
        BY <1>2, <2>3, RecordedAfter DEF Inductive, GateOutRecord, AtGateOut, NestingInv
      <3>2. <<t, sec[t]>> \in SectionIds
        BY <1>2, <3>1, SectionType DEF SectionIds, Program
      <3>3. ~Order!Passed(recorded, <<t, sec[t]>>)
        <4> SUFFICES ASSUME NEW l \in Locks, NEW i \in 1..Len(recorded[l]),
                            recorded[l][i] = <<t, sec[t]>>
                     PROVE  FALSE
          BY DEF Order!Passed
        <4>1. LeftAt(<<t, sec[t]>>)
          BY <1>2, <3>1, EntryLeft DEF Inductive
        <4> QED BY <1>2, <3>1, <4>1 DEF LeftAt, TypeOK, ProgramTypeOK
      <3> QED BY <2>3, <3>1, <3>2, <3>3
              DEF GateOutRecord, GoTo, Order!Next, Order!Record
    <2>4. ASSUME NEW t \in Threads, GateOutReplay(t)
          PROVE  Order!Next
      BY <1>2, <2>4, NextInOrder, ReplayedAfter
      DEF Inductive, GateOutReplay, NextSection, Order!Next, Order!Replay
    <2>5. ASSUME NEW t \in Threads, Step(t)
          PROVE  Order!Next \/ UNCHANGED <<mode, recorded, replayed>>
      BY <2>3, <2>4, <2>5 DEF Step, GateInRecord, GateInReplay, NestedIn, NestedOut,
         ProgramStep, Access, FileTicket, GoTo, NextSection, gateVars
    <2> QED BY <1>2, <2>1, <2>2, <2>5
            DEF Next, Ended, vars, programVars, gateVars, Order!vars
  <1> QED BY <1>1, <1>2, Invariance, TypeCorrect, OneProgram, PTL DEF Spec, OrderSpec, Order!Spec

-------------------------------------------------------------------------------
\* The replay reads what the recorded run read.  What both runs do is compared with
\* the sections executed one after the other in the recorded order of each lock: a
\* variable with one gate holds what the sections that have left the gate, and the
\* one that is inside, have written (MemInv); every value a thread has read is the
\* one its variable had at that place of the order (LogInv).

\* The ticket of section s of thread t, from the moment the thread is inside.
TicketOf(t, s) ==
  IF s <= Len(file[t]) THEN file[t][s]
  ELSE IF pc[t] = "filing" THEN clock[t] ELSE current_clocks[LockOf(t)]

\* Where a thread is in the body of its section.
BodyInv ==
  \A t \in Threads :
    /\ InSection(t) \/ pc[t] \in {"run", "filing"}
    /\ pc[t] = "run" => acc[t] = 1
    /\ InSection(t) => acc[t] <= End(Program, t, sec[t])
    /\ pc[t] = "filing" => acc[t] = End(Program, t, sec[t])

\* An entry of the recorded order is a section of its lock and has its ticket.
EntryInv ==
  \A l \in Locks : \A e \in 1..Len(recorded[l]) :
    \A t \in Threads : \A s \in Nat : recorded[l][e] = <<t, s>> =>
      /\ s \in 1..Len(Program[t]) /\ LockAt(t, s) = l
      /\ s <= Len(file[t]) \/ (s = sec[t] /\ pc[t] = "filing")
      /\ TicketOf(t, s) = e - 1

\* The clock of the replay is past the tickets of the sections that have left.
PassedInv ==
  mode = "replay" =>
    \A t \in Threads : \A s \in 1..(sec[t] - 1) : file[t][s] < current_clocks[LockAt(t, s)]

\* The shared memory.
MemHolds(l, v) ==
  /\ \A t \in Threads : InSection(t) /\ LockOf(t) = l =>
       HoldsAt(Program, recorded[l], current_clocks[l], t, sec[t], acc[t], v, mem[v])
  /\ (\A t \in Threads : ~(InSection(t) /\ LockOf(t) = l)) =>
       HoldsAfter(Program, recorded[l], current_clocks[l], v, mem[v])
MemInv == \A l \in Locks : \A v \in Vars : GuardedBy(program, l, v) => MemHolds(l, v)

\* w is what the read p = <<s, a>> of thread t finds when the section has this ticket.
VarAt(t, p) == Body(Program, t, p[1])[p[2]].var
Finds(t, p, ticket, w) ==
  \A l \in Locks : GuardedBy(program, l, VarAt(t, p)) =>
    HoldsAt(Program, recorded[l], ticket, t, p[1], p[2], VarAt(t, p), w)

\* The values a thread has read in this run.
Past(t) == Reads(Program, t, sec[t], acc[t])
LogShape(t) == Shape(Program, t, sec[t], acc[t], Len(log[t]))
LogFinds(t) ==
  \A p \in Past(t) : Finds(t, p, TicketOf(t, p[1]), log[t][PlaceOf(Program, t, p)])
LogInv == \A t \in Threads : LogShape(t) /\ LogFinds(t)

\* What is kept of the recorded run.
RecLogHolds(t) ==
  /\ IsFiniteSet(AllReads(Program, t))
  /\ Len(recLog[t]) = Cardinality(AllReads(Program, t))
  /\ \A p \in AllReads(Program, t) :
       Finds(t, p, file[t][p[1]], recLog[t][PlaceOf(Program, t, p)])
KeptInv ==
  mode = "replay" =>
    /\ \A t \in Threads : RecLogHolds(t)
    /\ \A l \in Locks : \A v \in Vars : GuardedBy(program, l, v) =>
         HoldsAfter(Program, recorded[l], Len(recorded[l]), v, recMem[v])

SerialInv == BodyInv /\ EntryInv /\ PassedInv /\ MemInv /\ LogInv /\ KeptInv

\* The body of a section of the program.
LEMMA BodyTyped ==
  ASSUME TypeOK, NEW t \in Threads, NEW s \in 1..Len(Program[t])
  PROVE  /\ Body(Program, t, s) \in Seq(Accesses)
         /\ Len(Body(Program, t, s)) \in Nat /\ End(Program, t, s) \in Nat
  <1>1. Program[t][s] \in Sections
    BY ProgramTyped
  <1>2. Program[t][s].body \in Seq(Accesses)
    BY <1>1 DEF Sections
  <1> QED BY <1>2 DEF Body, End

\* The lock that guards a variable is that of every section that accesses it.
LEMMA GuardOf ==
  ASSUME NEW l, NEW v, GuardedBy(program, l, v), NEW t \in Threads,
         NEW s \in 1..Len(Program[t]), NEW a \in 1..Len(Body(Program, t, s)),
         Body(Program, t, s)[a].var = v
  PROVE  LockAt(t, s) = l
  BY DEF GuardedBy, LockAt, GateLock, MultiClock, Program, Body

\* A read that is past.
LEMMA PastTyped ==
  ASSUME TypeOK, NEW t \in Threads, NEW s, NEW a, NEW p \in Reads(Program, t, s, a)
  PROVE  /\ p[1] \in 1..Len(Program[t]) /\ p[2] \in 1..Len(Body(Program, t, p[1]))
         /\ p[1] \in Nat /\ p[2] \in Nat
         /\ p[1] < s \/ (p[1] = s /\ p[2] < a)
         /\ IsRead(Program, t, p[1], p[2]) /\ VarAt(t, p) \in Vars
         /\ \A l : GuardedBy(program, l, VarAt(t, p)) => l = LockAt(t, p[1])
  <1>1. /\ p[1] \in 1..Len(Program[t]) /\ p[2] \in 1..Len(Body(Program, t, p[1]))
        /\ p[1] < s \/ (p[1] = s /\ p[2] < a)
        /\ IsRead(Program, t, p[1], p[2])
    BY DEF Reads
  <1>2. Len(Program[t]) \in Nat /\ Len(Body(Program, t, p[1])) \in Nat
    BY <1>1, ProgramTyped, BodyTyped
  <1>3. Body(Program, t, p[1])[p[2]] \in Accesses
    BY <1>1, BodyTyped
  <1>4. VarAt(t, p) \in Vars
    BY <1>3 DEF VarAt, Accesses
  <1>5. \A l : GuardedBy(program, l, VarAt(t, p)) => l = LockAt(t, p[1])
    BY <1>1, GuardOf DEF VarAt
  <1> QED BY <1>1, <1>2, <1>4, <1>5

\* The section a thread is in, when it has reads of its own behind it.
LEMMA PastSection ==
  ASSUME TypeOK, NestingInv, BodyInv, NEW t \in Threads, NEW p \in Past(t),
         p[1] = sec[t]
  PROVE  pc[t] # "run" /\ HasSection(t)
  <1>1. /\ p[2] \in 1..Len(Body(Program, t, p[1])) /\ p[2] \in Nat
        /\ p[1] < sec[t] \/ (p[1] = sec[t] /\ p[2] < acc[t])
    BY PastTyped DEF Past
  <1>2. p[2] >= 1 /\ p[2] < acc[t]
    BY <1>1 DEF TypeOK, ProgramTypeOK
  <1>3. acc[t] # 1
    BY <1>1, <1>2
  <1> QED BY <1>3 DEF BodyInv, NestingInv

\* The ticket of a section with reads that are past is that of an entry of the order,
\* or the next one.
LEMMA TicketBound ==
  ASSUME TypeOK, Inductive, BodyInv, NEW t \in Threads, NEW p \in Past(t)
  PROVE  /\ LockAt(t, p[1]) \in Locks
         /\ TicketOf(t, p[1]) \in Nat
         /\ TicketOf(t, p[1]) <= Len(recorded[LockAt(t, p[1])])
  <1> USE DEF Inductive
  <1>1. /\ p[1] \in 1..Len(Program[t]) /\ p[1] \in Nat
        /\ p[1] < sec[t] \/ p[1] = sec[t]
    BY PastTyped DEF Past
  <1>2. LockAt(t, p[1]) \in Locks
    BY <1>1, LockAtType
  <1>3. Len(recorded[LockAt(t, p[1])]) \in Nat /\ sec[t] \in Nat /\ Len(file[t]) \in Nat
    BY <1>2 DEF TypeOK, ProgramTypeOK
  <1>4. CASE p[1] <= Len(file[t])
    <2>1. p[1] \in 1..Len(file[t])
      BY <1>1, <1>3, <1>4
    <2>2. IssuedTo(LockAt(t, p[1]), file[t][p[1]], t, p[1])
      BY <2>1 DEF TicketInv
    <2>3. file[t][p[1]] \in Nat
      BY <2>1 DEF TypeOK
    <2> QED BY <1>2, <1>3, <1>4, <2>2, <2>3 DEF TicketOf, IssuedTo
  <1>5. CASE ~(p[1] <= Len(file[t]))
    <2>1. mode = "record"
      <3>1. mode # "replay"
        BY <1>1, <1>5 DEF ReplayInv
      <3> QED BY <3>1 DEF TypeOK, ProgramTypeOK
    <2>2. p[1] = sec[t]
      BY <1>1, <1>3, <1>5, <2>1 DEF RecordInv
    <2>3. pc[t] # "run" /\ HasSection(t)
      BY <2>2, PastSection
    <2>4. LockAt(t, p[1]) = LockOf(t)
      BY <2>2, <2>3, SectionType
    <2>5. CASE pc[t] = "filing"
      <3>1. IssuedTo(LockOf(t), clock[t], t, sec[t]) /\ clock[t] \in Nat
        BY <2>5 DEF TicketInv, TypeOK
      <3> QED BY <1>2, <1>3, <1>5, <2>4, <2>5, <3>1 DEF TicketOf, IssuedTo
    <2>6. CASE pc[t] # "filing"
      <3>1. TicketOf(t, p[1]) = current_clocks[LockOf(t)]
        BY <1>5, <2>6 DEF TicketOf
      <3>2. Len(recorded[LockOf(t)]) = current_clocks[LockOf(t)]
        BY <1>2, <2>1, <2>4 DEF RecordInv
      <3> QED BY <1>2, <1>3, <2>4, <3>1, <3>2
    <2> QED BY <2>5, <2>6
  <1> QED BY <1>4, <1>5

\* A thread inside has the ticket its clock shows, in both runs.
LEMMA TicketInside ==
  ASSUME TypeOK, Inductive, NEW t \in Threads, InSection(t)
  PROVE  TicketOf(t, sec[t]) = current_clocks[LockOf(t)]
  <1> USE DEF Inductive
  <1>1. HasSection(t) /\ pc[t] # "filing" /\ sec[t] \in Nat
    BY DEF NestingInv, InSection, TypeOK, ProgramTypeOK
  <1>2. CASE mode = "record"
    <2>1. Len(file[t]) = sec[t] - 1
      BY <1>2 DEF RecordInv
    <2> QED BY <1>1, <2>1 DEF TicketOf
  <1>3. CASE mode = "replay"
    <2>1. sec[t] <= Len(file[t]) /\ file[t][sec[t]] = current_clocks[LockOf(t)]
      BY <1>1, <1>3 DEF ReplayInv, HasSection
    <2> QED BY <2>1 DEF TicketOf
  <1> QED BY <1>2, <1>3 DEF TypeOK, ProgramTypeOK

-------------------------------------------------------------------------------
\* How the steps act on what SerialInv speaks of.

\* What a step of thread t leaves alone.
LEMMA StepFrame ==
  ASSUME TypeOK, Inductive, NEW t \in Threads, Step(t)
  PROVE  /\ UNCHANGED <<program, mode, recLog, recMem>>
         /\ \A u \in Threads : u # t =>
              /\ pc'[u] = pc[u] /\ sec'[u] = sec[u] /\ acc'[u] = acc[u]
              /\ log'[u] = log[u] /\ file'[u] = file[u] /\ clock'[u] = clock[u]
         /\ \A l \in Locks : current_clocks'[l] # current_clocks[l] =>
              InSection(t) /\ LockOf(t) = l
         /\ \A l \in Locks : SamePrefix(recorded[l], recorded'[l], Len(recorded[l]))
  <1> USE DEF TypeOK, ProgramTypeOK, SamePrefix
  <1>1. CASE GateInRecord(t) \/ GateInReplay(t)
    BY <1>1 DEF GateInRecord, GateInReplay, GoTo
  <1>2. CASE NestedIn(t) \/ NestedOut(t)
    BY <1>2 DEF NestedIn, NestedOut, GoTo
  <1>3. CASE ProgramStep(t)
    BY <1>3 DEF ProgramStep, Access, gateVars
  <1>4. CASE GateOutRecord(t)
    <2>1. InSection(t)
      BY <1>4 DEF GateOutRecord, AtGateOut, InSection
    <2>2. \A l \in Locks : SamePrefix(recorded[l], recorded'[l], Len(recorded[l]))
      BY <1>4, RecordedAfter DEF Inductive
    <2> QED BY <1>4, <2>1, <2>2 DEF GateOutRecord, GoTo
  <1>5. CASE FileTicket(t)
    BY <1>5 DEF FileTicket, NextSection
  <1>6. CASE GateOutReplay(t)
    BY <1>6 DEF GateOutReplay, AtGateOut, InSection, NextSection
  <1> QED BY <1>1, <1>2, <1>3, <1>4, <1>5, <1>6 DEF Step

\* A thread enters a gate or leaves a nested one.
Quiet(t) == GateInRecord(t) \/ GateInReplay(t) \/ NestedIn(t) \/ NestedOut(t)

LEMMA QuietFrame ==
  ASSUME TypeOK, Inductive, NEW t \in Threads, Quiet(t)
  PROVE  /\ UNCHANGED <<sec, acc, mem, log, file, clock, recorded, current_clocks>>
         /\ pc'[t] \in {"body", "nested"} /\ HasSection(t)
         /\ pc[t] \in {"run", "body", "nestout"}
  <1> USE DEF TypeOK, ProgramTypeOK
  <1>1. CASE GateInRecord(t) \/ GateInReplay(t)
    BY <1>1 DEF GateInRecord, GateInReplay, AtGateIn, GoTo
  <1>2. CASE NestedIn(t) \/ NestedOut(t)
    BY <1>2 DEF NestedIn, AtNestedIn, NestedOut, GoTo, Inductive, NestingInv
  <1> QED BY <1>1, <1>2 DEF Quiet

\* An access of the body.
LEMMA AccessFrame ==
  ASSUME TypeOK, Inductive, NEW t \in Threads, ProgramStep(t)
  PROVE  LET a == NextAccess(t) IN
         /\ UNCHANGED <<sec, file, clock, recorded, current_clocks>>
         /\ InSection(t) /\ InSection(t)' /\ HasSection(t)
         /\ acc'[t] = acc[t] + 1
         /\ acc[t] \in 1..Len(Body(Program, t, sec[t]))
         /\ a = Body(Program, t, sec[t])[acc[t]] /\ a \in Accesses
         /\ mem' = IF a.op = "load" THEN mem
                   ELSE [mem EXCEPT ![a.var] = <<t, sec[t], acc[t]>>]
         /\ log'[t] = IF a.op = "store" THEN log[t] ELSE Append(log[t], mem[a.var])
  <1> USE DEF TypeOK, ProgramTypeOK
  <1>1. Access(t) /\ UNCHANGED gateVars
    BY DEF ProgramStep
  <1>2. InSection(t) /\ HasAccess(t)
    BY <1>1 DEF Access
  <1>3. HasSection(t) /\ sec[t] \in 1..Len(Program[t])
    BY <1>2, SectionType DEF Inductive, NestingInv, InSection
  <1>4. acc[t] \in 1..Len(Body(Program, t, sec[t]))
    BY <1>2, <1>3, BodyTyped DEF HasAccess, Section, Body
  <1>5. NextAccess(t) = Body(Program, t, sec[t])[acc[t]]
    BY DEF NextAccess, Section, Body
  <1>6. NextAccess(t) \in Accesses
    BY <1>2, AccessType DEF Inductive
  <1>7. pc'[t] \in {"body", "nestout"} /\ acc'[t] = acc[t] + 1
    BY <1>1 DEF Access
  <1>8. UNCHANGED <<sec, file, clock, recorded, current_clocks>>
    BY <1>1 DEF Access, gateVars
  <1>9. /\ mem' = IF NextAccess(t).op = "load" THEN mem
                  ELSE [mem EXCEPT ![NextAccess(t).var] = <<t, sec[t], acc[t]>>]
        /\ log'[t] = IF NextAccess(t).op = "store" THEN log[t]
                     ELSE Append(log[t], mem[NextAccess(t).var])
    BY <1>1 DEF Access
  <1> QED BY <1>2, <1>3, <1>4, <1>5, <1>6, <1>7, <1>8, <1>9 DEF InSection

\* A recording thread leaves its section.
LEMMA LeaveRecordFrame ==
  ASSUME TypeOK, Inductive, BodyInv, NEW t \in Threads, GateOutRecord(t)
  PROVE  /\ UNCHANGED <<sec, acc, mem, log, file>>
         /\ mode = "record" /\ pc[t] = "body" /\ pc'[t] = "filing"
         /\ HasSection(t) /\ LockOf(t) \in Locks
         /\ acc[t] = End(Program, t, sec[t])
         /\ clock'[t] = current_clocks[LockOf(t)]
         /\ current_clocks[LockOf(t)] = Len(recorded[LockOf(t)])
         /\ current_clocks'[LockOf(t)] = current_clocks[LockOf(t)] + 1
         /\ Len(recorded'[LockOf(t)]) = Len(recorded[LockOf(t)]) + 1
         /\ recorded'[LockOf(t)][Len(recorded[LockOf(t)]) + 1] = <<t, sec[t]>>
         /\ \A l \in Locks : l # LockOf(t) =>
              recorded'[l] = recorded[l] /\ current_clocks'[l] = current_clocks[l]
  <1> USE DEF TypeOK, ProgramTypeOK
  <1>1. /\ UNCHANGED <<sec, acc, mem, log, file>>
        /\ mode = "record" /\ pc[t] = "body" /\ ~HasAccess(t) /\ pc'[t] = "filing"
        /\ clock'[t] = current_clocks[LockOf(t)]
        /\ \A l \in Locks : l # LockOf(t) => current_clocks'[l] = current_clocks[l]
    BY DEF GateOutRecord, AtGateOut, GoTo
  <1>2. HasSection(t) /\ sec[t] \in 1..Len(Program[t]) /\ LockOf(t) \in Locks
    BY <1>1, SectionType DEF Inductive, NestingInv
  <1>3. current_clocks'[LockOf(t)] = current_clocks[LockOf(t)] + 1
    BY <1>2 DEF GateOutRecord
  <1>4. current_clocks[LockOf(t)] = Len(recorded[LockOf(t)])
    BY <1>1, <1>2 DEF Inductive, RecordInv
  <1>5. acc[t] = End(Program, t, sec[t])
    <2>1. acc[t] <= End(Program, t, sec[t])
      BY <1>1 DEF BodyInv, InSection
    <2>2. ~(acc[t] <= Len(Body(Program, t, sec[t]))) /\ acc[t] \in Nat
      BY <1>1 DEF HasAccess, Section, Body
    <2>3. Len(Body(Program, t, sec[t])) \in Nat
      BY <1>2, BodyTyped
    <2> QED BY <2>1, <2>2, <2>3 DEF End
  <1>6. /\ Len(recorded'[LockOf(t)]) = Len(recorded[LockOf(t)]) + 1
        /\ recorded'[LockOf(t)][Len(recorded[LockOf(t)]) + 1] = <<t, sec[t]>>
        /\ \A l \in Locks : l # LockOf(t) => recorded'[l] = recorded[l]
    BY RecordedAfter DEF Inductive
  <1> QED BY <1>1, <1>2, <1>3, <1>4, <1>5, <1>6

\* It files its ticket.
LEMMA FileFrame ==
  ASSUME TypeOK, Inductive, BodyInv, NEW t \in Threads, FileTicket(t)
  PROVE  /\ UNCHANGED <<mem, log, clock, recorded, current_clocks>>
         /\ mode = "record" /\ pc[t] = "filing" /\ pc'[t] = "run"
         /\ sec'[t] = sec[t] + 1 /\ acc'[t] = 1
         /\ HasSection(t) /\ sec[t] \in 1..Len(Program[t])
         /\ acc[t] = End(Program, t, sec[t])
         /\ Len(file[t]) = sec[t] - 1 /\ Len(file'[t]) = sec[t]
         /\ \A s \in 1..Len(file[t]) : file'[t][s] = file[t][s]
         /\ file'[t][sec[t]] = clock[t]
  <1> USE DEF TypeOK, ProgramTypeOK
  <1>1. /\ UNCHANGED <<mem, log, clock, recorded, current_clocks>>
        /\ pc[t] = "filing" /\ pc'[t] = "run" /\ sec'[t] = sec[t] + 1 /\ acc'[t] = 1
        /\ file'[t] = Append(file[t], clock[t])
    BY DEF FileTicket, TicketToFile, NextSection
  <1>2. mode = "record"
    BY <1>1 DEF Inductive, ReplayInv
  <1>3. HasSection(t) /\ sec[t] \in 1..Len(Program[t])
    BY <1>1, SectionType DEF Inductive, NestingInv
  <1>4. Len(file[t]) = sec[t] - 1
    BY <1>2 DEF Inductive, RecordInv
  <1>5. /\ Len(file'[t]) = Len(file[t]) + 1
        /\ \A s \in 1..Len(file[t]) : file'[t][s] = file[t][s]
        /\ file'[t][Len(file[t]) + 1] = clock[t]
    BY <1>1
  <1>6. acc[t] = End(Program, t, sec[t])
    BY <1>1 DEF BodyInv
  <1>7. Len(file'[t]) = sec[t] /\ file'[t][sec[t]] = clock[t]
    BY <1>4, <1>5
  <1> QED BY <1>1, <1>2, <1>3, <1>4, <1>5, <1>6, <1>7

\* A replaying thread leaves its section.
LEMMA LeaveReplayFrame ==
  ASSUME TypeOK, Inductive, BodyInv, NEW t \in Threads, GateOutReplay(t)
  PROVE  /\ UNCHANGED <<mem, log, file, clock, recorded>>
         /\ mode = "replay" /\ pc[t] = "body" /\ pc'[t] = "run"
         /\ sec'[t] = sec[t] + 1 /\ acc'[t] = 1
         /\ HasSection(t) /\ sec[t] \in 1..Len(Program[t]) /\ LockOf(t) \in Locks
         /\ LockOf(t) = LockAt(t, sec[t])
         /\ acc[t] = End(Program, t, sec[t])
         /\ file[t][sec[t]] = current_clocks[LockOf(t)]
         /\ recorded[LockOf(t)][current_clocks[LockOf(t)] + 1] = <<t, sec[t]>>
         /\ current_clocks'[LockOf(t)] = current_clocks[LockOf(t)] + 1
         /\ \A l \in Locks : l # LockOf(t) => current_clocks'[l] = current_clocks[l]
  <1> USE DEF TypeOK, ProgramTypeOK
  <1>1. /\ UNCHANGED <<mem, log, file, clock, recorded>>
        /\ mode = "replay" /\ pc[t] = "body" /\ ~HasAccess(t)
        /\ pc'[t] = "run" /\ sec'[t] = sec[t] + 1 /\ acc'[t] = 1
        /\ \A l \in Locks : l # LockOf(t) => current_clocks'[l] = current_clocks[l]
    BY DEF GateOutReplay, AtGateOut, NextSection
  <1>2. /\ HasSection(t) /\ sec[t] \in 1..Len(Program[t]) /\ LockOf(t) \in Locks
        /\ LockOf(t) = LockAt(t, sec[t])
    BY <1>1, SectionType DEF Inductive, NestingInv
  <1>3. current_clocks'[LockOf(t)] = current_clocks[LockOf(t)] + 1
    BY <1>2 DEF GateOutReplay
  <1>4. acc[t] = End(Program, t, sec[t])
    <2>1. acc[t] <= End(Program, t, sec[t])
      BY <1>1 DEF BodyInv, InSection
    <2>2. ~(acc[t] <= Len(Body(Program, t, sec[t]))) /\ acc[t] \in Nat
      BY <1>1 DEF HasAccess, Section, Body
    <2>3. Len(Body(Program, t, sec[t])) \in Nat
      BY <1>2, BodyTyped
    <2> QED BY <2>1, <2>2, <2>3 DEF End
  <1>5. file[t][sec[t]] = current_clocks[LockOf(t)]
    BY <1>1 DEF Inductive, ReplayInv, InSection
  <1>6. recorded[LockOf(t)][current_clocks[LockOf(t)] + 1] = <<t, sec[t]>>
    BY NextInOrder
  <1> QED BY <1>1, <1>2, <1>3, <1>4, <1>5, <1>6

-------------------------------------------------------------------------------
\* Every step of a thread keeps it in the body of its section.
LEMMA BodyStep ==
  ASSUME TypeOK, Inductive, BodyInv, NEW t \in Threads, Step(t)
  PROVE  BodyInv'
  <1> SUFFICES ASSUME NEW u \in Threads
               PROVE  /\ InSection(u)' \/ pc'[u] \in {"run", "filing"}
                      /\ pc'[u] = "run" => acc'[u] = 1
                      /\ InSection(u)' => acc'[u] <= End(Program, u, sec'[u])
                      /\ pc'[u] = "filing" => acc'[u] = End(Program, u, sec'[u])
    BY StepFrame DEF BodyInv, Program
  <1>1. CASE u # t
    <2>1. pc'[u] = pc[u] /\ sec'[u] = sec[u] /\ acc'[u] = acc[u]
      BY <1>1, StepFrame
    <2> QED BY <2>1 DEF BodyInv, InSection
  <1>2. CASE u = t /\ Quiet(t)
    <2>1. /\ sec' = sec /\ acc' = acc /\ pc'[t] \in {"body", "nested"} /\ HasSection(t)
          /\ pc[t] \in {"run", "body", "nestout"}
      BY <1>2, QuietFrame
    <2>2. CASE pc[t] = "run"
      <3>1. acc[t] = 1 /\ sec[t] \in 1..Len(Program[t])
        BY <2>1, <2>2, SectionType DEF BodyInv
      <3>2. Len(Body(Program, t, sec[t])) \in Nat
        BY <3>1, BodyTyped
      <3> QED BY <1>2, <2>1, <3>1, <3>2 DEF End, InSection
    <2>3. CASE pc[t] # "run"
      BY <1>2, <2>1, <2>3 DEF BodyInv, InSection
    <2> QED BY <2>2, <2>3
  <1>3. CASE u = t /\ ProgramStep(t)
    <2>1. /\ sec' = sec /\ InSection(t)' /\ acc'[t] = acc[t] + 1
          /\ acc[t] \in 1..Len(Body(Program, t, sec[t])) /\ HasSection(t)
      BY <1>3, AccessFrame
    <2>2. Len(Body(Program, t, sec[t])) \in Nat
      BY <2>1, SectionType, BodyTyped
    <2> QED BY <1>3, <2>1, <2>2 DEF End, InSection
  <1>4. CASE u = t /\ GateOutRecord(t)
    BY <1>4, LeaveRecordFrame DEF InSection
  <1>5. CASE u = t /\ FileTicket(t)
    BY <1>5, FileFrame DEF InSection
  <1>6. CASE u = t /\ GateOutReplay(t)
    BY <1>6, LeaveReplayFrame DEF InSection
  <1> QED BY <1>1, <1>2, <1>3, <1>4, <1>5, <1>6 DEF Step, Quiet

\* Every step keeps the entries of the order.
LEMMA EntryStep ==
  ASSUME TypeOK, Inductive, BodyInv, EntryInv, NEW t \in Threads, Step(t)
  PROVE  EntryInv'
  <1>t. /\ \A u \in Threads : sec[u] \in Nat /\ Len(file[u]) \in Nat
        /\ \A m \in Locks : Len(recorded[m]) \in Nat
    BY DEF TypeOK, ProgramTypeOK
  <1>0. Program' = Program /\ \A u, s : LockAt(u, s)' = LockAt(u, s)
    BY StepFrame DEF Program, LockAt, GateLock, MultiClock
  <1> DEFINE Entry(l, e, u, s) ==
               /\ s \in 1..Len(Program[u]) /\ LockAt(u, s) = l
               /\ s <= Len(file[u]) \/ (s = sec[u] /\ pc[u] = "filing")
               /\ TicketOf(u, s) = e - 1
  <1> SUFFICES ASSUME NEW l \in Locks, NEW e \in 1..Len(recorded'[l]),
                      NEW u \in Threads, NEW s \in Nat, recorded'[l][e] = <<u, s>>
               PROVE  Entry(l, e, u, s)'
    BY DEF EntryInv
  <1>1. ASSUME e \in 1..Len(recorded[l]), recorded[l][e] = <<u, s>>
        PROVE  Entry(l, e, u, s)
    BY <1>1 DEF EntryInv
  <1>2. CASE recorded' = recorded /\ ~FileTicket(t)
    <2>1. Entry(l, e, u, s)
      BY <1>1, <1>2
    <2>2. CASE u # t
      <3>1. pc'[u] = pc[u] /\ sec'[u] = sec[u] /\ file'[u] = file[u] /\ clock'[u] = clock[u]
        BY <2>2, StepFrame
      <3>2. TicketOf(u, s)' = TicketOf(u, s)
        BY <1>t, <2>1, <3>1 DEF TicketOf
      <3> QED BY <1>0, <1>t, <2>1, <3>1, <3>2
    <2>3. CASE u = t
      <3>1. file'[t] = file[t] /\ pc[t] # "filing"
        <4>1. CASE Quiet(t)
          BY <4>1, QuietFrame
        <4>2. CASE ProgramStep(t)
          BY <4>2, AccessFrame DEF InSection
        <4>3. CASE GateOutRecord(t)
          BY <4>3, LeaveRecordFrame
        <4>4. CASE GateOutReplay(t)
          BY <4>4, LeaveReplayFrame
        <4> QED BY <1>2, <4>1, <4>2, <4>3, <4>4 DEF Step, Quiet
      <3>2. s <= Len(file[t])
        BY <2>1, <2>3, <3>1
      <3>3. TicketOf(t, s)' = TicketOf(t, s)
        BY <1>t, <3>1, <3>2 DEF TicketOf
      <3> QED BY <1>0, <2>1, <2>3, <3>1, <3>2, <3>3
    <2> QED BY <2>2, <2>3
  <1>3. CASE FileTicket(t)
    <2>1. Entry(l, e, u, s)
      BY <1>1, <1>3, FileFrame
    <2>2. CASE u # t
      <3>1. pc'[u] = pc[u] /\ sec'[u] = sec[u] /\ file'[u] = file[u] /\ clock'[u] = clock[u]
        BY <2>2, StepFrame
      <3>2. TicketOf(u, s)' = TicketOf(u, s)
        BY <1>t, <2>1, <3>1 DEF TicketOf
      <3> QED BY <1>0, <1>t, <2>1, <3>1, <3>2
    <2>3. CASE u = t
      <3>1. /\ pc[t] = "filing" /\ sec[t] \in Nat
            /\ Len(file[t]) = sec[t] - 1 /\ Len(file'[t]) = sec[t]
            /\ \A i \in 1..Len(file[t]) : file'[t][i] = file[t][i]
            /\ file'[t][sec[t]] = clock[t]
        BY <1>3, FileFrame
      <3>2. /\ s \in 1..Len(Program[t]) /\ LockAt(t, s) = l
            /\ s <= Len(file[t]) \/ s = sec[t]
            /\ TicketOf(t, s) = e - 1
        BY <2>1, <2>3
      <3>3. CASE s <= Len(file[t])
        <4>1. s \in 1..Len(file[t]) /\ s <= Len(file'[t])
          BY <1>t, <3>1, <3>2, <3>3
        <4>2. TicketOf(t, s) = file[t][s] /\ TicketOf(t, s)' = file'[t][s]
          BY <1>t, <4>1 DEF TicketOf
        <4> QED BY <1>0, <2>3, <3>1, <3>2, <4>1, <4>2
      <3>4. CASE ~(s <= Len(file[t]))
        <4>1. s = sec[t] /\ s <= Len(file'[t])
          BY <1>t, <3>1, <3>2, <3>4
        <4>2. TicketOf(t, s) = clock[t] /\ TicketOf(t, s)' = file'[t][s]
          BY <1>t, <3>1, <3>4, <4>1 DEF TicketOf
        <4> QED BY <1>0, <2>3, <3>1, <3>2, <4>1, <4>2
      <3> QED BY <3>3, <3>4
    <2> QED BY <2>2, <2>3
  <1>4. CASE GateOutRecord(t)
    <2>1. /\ UNCHANGED <<sec, file>>
          /\ pc[t] = "body" /\ pc'[t] = "filing" /\ HasSection(t) /\ LockOf(t) \in Locks
          /\ clock'[t] = current_clocks[LockOf(t)]
          /\ current_clocks[LockOf(t)] = Len(recorded[LockOf(t)])
          /\ Len(recorded'[LockOf(t)]) = Len(recorded[LockOf(t)]) + 1
          /\ recorded'[LockOf(t)][Len(recorded[LockOf(t)]) + 1] = <<t, sec[t]>>
          /\ \A m \in Locks : m # LockOf(t) => recorded'[m] = recorded[m]
      BY <1>4, LeaveRecordFrame
    <2>2. SamePrefix(recorded[l], recorded'[l], Len(recorded[l]))
      BY StepFrame
    <2>3. sec[t] \in 1..Len(Program[t]) /\ LockOf(t) = LockAt(t, sec[t])
      BY <2>1, SectionType
    <2>4. Len(file[t]) = sec[t] - 1
      BY <1>4 DEF GateOutRecord, Inductive, RecordInv
    <2>5. CASE e \in 1..Len(recorded[l])
      <3>1. Entry(l, e, u, s)
        BY <1>1, <2>2, <2>5 DEF SamePrefix
      <3>2. CASE u # t
        <4>1. pc'[u] = pc[u] /\ clock'[u] = clock[u]
          BY <3>2, StepFrame
        <4>2. TicketOf(u, s)' = TicketOf(u, s)
          BY <1>t, <2>1, <3>1, <4>1 DEF TicketOf
        <4> QED BY <1>0, <2>1, <3>1, <4>1, <4>2
      <3>3. CASE u = t
        <4>1. s <= Len(file[t])
          BY <2>1, <3>1, <3>3
        <4>2. TicketOf(t, s)' = TicketOf(t, s)
          BY <1>t, <2>1, <4>1 DEF TicketOf
        <4> QED BY <1>0, <2>1, <3>1, <3>3, <4>1, <4>2
      <3> QED BY <3>2, <3>3
    <2>6. CASE e \notin 1..Len(recorded[l])
      <3>1. l = LockOf(t)
        BY <2>1, <2>6
      <3>2. Len(recorded[l]) \in Nat /\ e \in 1..(Len(recorded[l]) + 1)
        BY <1>t, <2>1, <3>1
      <3>3. e = Len(recorded[l]) + 1
        BY <2>6, <3>2
      <3>4. u = t /\ s = sec[t]
        BY <2>1, <3>1, <3>3
      <3>5. TicketOf(t, s)' = clock'[t]
        BY <1>t, <2>1, <2>4, <3>4 DEF TicketOf
      <3> QED BY <1>0, <2>1, <2>3, <3>1, <3>2, <3>3, <3>4, <3>5
    <2> QED BY <2>5, <2>6
  <1>5. ~GateOutRecord(t) => recorded' = recorded
    <2>1. CASE Quiet(t)
      BY <2>1, QuietFrame
    <2>2. CASE ProgramStep(t) \/ FileTicket(t) \/ GateOutReplay(t)
      BY <2>2, AccessFrame, FileFrame, LeaveReplayFrame
    <2> QED BY <2>1, <2>2 DEF Step, Quiet
  <1> QED BY <1>2, <1>3, <1>4, <1>5

\* Every step keeps the clock past the tickets of the sections that have left.
LEMMA PassedStep ==
  ASSUME TypeOK, Inductive, BodyInv, PassedInv, NEW t \in Threads, Step(t)
  PROVE  PassedInv'
  <1>t. /\ \A u \in Threads : sec[u] \in Nat /\ file[u] \in Seq(Nat)
        /\ \A l \in Locks : current_clocks[l] \in Nat
    BY DEF TypeOK, ProgramTypeOK
  <1>0. mode' = mode /\ \A u, s : LockAt(u, s)' = LockAt(u, s)
    BY StepFrame DEF LockAt, GateLock, MultiClock, Program
  <1> SUFFICES ASSUME mode = "replay", NEW u \in Threads, NEW s \in 1..(sec'[u] - 1)
               PROVE  file'[u][s] < current_clocks'[LockAt(u, s)]
    BY <1>0 DEF PassedInv
  <1>1. ~GateOutRecord(t) /\ ~FileTicket(t)
    BY FileFrame DEF GateOutRecord
  <1>2. CASE ~GateOutReplay(t)
    <2>1. sec' = sec /\ file' = file /\ current_clocks' = current_clocks
      <3>1. CASE Quiet(t)
        BY <3>1, QuietFrame
      <3>2. CASE ProgramStep(t)
        BY <3>2, AccessFrame
      <3> QED BY <1>1, <1>2, <3>1, <3>2 DEF Step, Quiet
    <2> QED BY <2>1 DEF PassedInv
  <1>3. CASE GateOutReplay(t)
    <2>1. /\ file' = file /\ sec'[t] = sec[t] + 1 /\ sec[t] \in 1..Len(Program[t])
          /\ LockOf(t) \in Locks /\ LockOf(t) = LockAt(t, sec[t])
          /\ file[t][sec[t]] = current_clocks[LockOf(t)]
          /\ current_clocks'[LockOf(t)] = current_clocks[LockOf(t)] + 1
          /\ \A l \in Locks : l # LockOf(t) => current_clocks'[l] = current_clocks[l]
      BY <1>3, LeaveReplayFrame
    <2>2. current_clocks[LockOf(t)] \in Nat
      BY <1>t, <2>1
    <2>3. CASE u = t /\ s = sec[t]
      BY <2>1, <2>2, <2>3
    <2>4. CASE ~(u = t /\ s = sec[t])
      <3>1. s \in 1..(sec[u] - 1)
        <4>1. CASE u = t
          BY <1>t, <2>1, <2>4, <4>1
        <4>2. CASE u # t
          <5>1. sec'[u] = sec[u]
            BY <4>2, StepFrame
          <5> QED BY <5>1
        <4> QED BY <4>1, <4>2
      <3>2. file[u][s] < current_clocks[LockAt(u, s)]
        BY <3>1 DEF PassedInv
      <3>3. s \in 1..Len(Program[u]) /\ s \in 1..Len(file[u])
        <4>1. sec[u] \in 1..(Len(Program[u]) + 1) /\ Len(file[u]) = Len(Program[u])
          BY DEF Inductive, NestingInv, ReplayInv
        <4>2. Len(Program[u]) \in Nat
          BY ProgramTyped
        <4> QED BY <3>1, <4>1, <4>2
      <3>4. LockAt(u, s) \in Locks /\ file[u][s] \in Nat
        BY <1>t, <3>3, LockAtType
      <3>5. current_clocks[LockAt(u, s)] \in Nat /\ current_clocks'[LockAt(u, s)] \in
              {current_clocks[LockAt(u, s)], current_clocks[LockAt(u, s)] + 1}
        BY <1>t, <2>1, <3>4
      <3> QED BY <2>1, <3>2, <3>4, <3>5
    <2> QED BY <2>3, <2>4
  <1> QED BY <1>2, <1>3

-------------------------------------------------------------------------------
\* The shared memory.

\* A thread that enters a gate finds its variables as the last section left them.
LEMMA MemQuiet ==
  ASSUME TypeOK, Inductive, SectionExclusion', BodyInv, NEW t \in Threads, Step(t), Quiet(t),
         NEW l \in Locks, NEW v \in Vars, MemHolds(l, v)
  PROVE  MemHolds(l, v)'
  <1>1. /\ UNCHANGED <<sec, acc, mem, recorded, current_clocks, program>>
        /\ InSection(t)' /\ pc[t] \in {"run", "body", "nestout"}
        /\ \A u \in Threads : u # t => pc'[u] = pc[u]
    BY StepFrame, QuietFrame DEF InSection
  <1>2. Program' = Program /\ \A u \in Threads : LockOf(u)' = LockOf(u)
    BY <1>1, LockKept DEF Program
  <1>3. \A u \in Threads : u # t => (InSection(u)' <=> InSection(u))
    BY <1>1 DEF InSection
  <1>4. CASE InSection(t) \/ LockOf(t) # l
    BY <1>1, <1>2, <1>3, <1>4 DEF MemHolds
  <1>5. CASE ~InSection(t) /\ LockOf(t) = l
    <2>1. acc[t] = 1
      BY <1>1, <1>5 DEF BodyInv, InSection
    <2>2. \A u \in Threads : ~(InSection(u) /\ LockOf(u) = l)
      BY <1>1, <1>2, <1>3, <1>5 DEF SectionExclusion
    <2>3. HoldsAfter(Program, recorded[l], current_clocks[l], v, mem[v])
      BY <2>2 DEF MemHolds
    <2>4. HoldsAt(Program, recorded[l], current_clocks[l], t, sec[t], acc[t], v, mem[v])
      BY <2>1, <2>3, HoldsAtFirst
    <2> QED BY <1>1, <1>2, <1>3, <1>5, <2>2, <2>4 DEF MemHolds
  <1> QED BY <1>4, <1>5

\* An access of the section inside writes what the order says.
LEMMA MemAccess ==
  ASSUME TypeOK, Inductive, SectionExclusion, BodyInv, NEW t \in Threads, Step(t),
         ProgramStep(t), NEW l \in Locks, NEW v \in Vars, GuardedBy(program, l, v),
         MemHolds(l, v)
  PROVE  MemHolds(l, v)'
  <1> DEFINE a == NextAccess(t)
  <1>1. /\ UNCHANGED <<sec, recorded, current_clocks, program>>
        /\ InSection(t) /\ InSection(t)' /\ HasSection(t)
        /\ acc'[t] = acc[t] + 1 /\ acc[t] \in 1..Len(Body(Program, t, sec[t]))
        /\ a = Body(Program, t, sec[t])[acc[t]]
        /\ mem' = IF a.op = "load" THEN mem
                  ELSE [mem EXCEPT ![a.var] = <<t, sec[t], acc[t]>>]
        /\ \A u \in Threads : u # t => pc'[u] = pc[u] /\ acc'[u] = acc[u]
    BY StepFrame, AccessFrame
  <1>2. Program' = Program /\ \A u \in Threads : LockOf(u)' = LockOf(u)
    BY <1>1, LockKept DEF Program
  <1>3. \A u \in Threads : InSection(u)' <=> InSection(u)
    BY <1>1 DEF InSection
  <1>4. sec[t] \in 1..Len(Program[t]) /\ LockOf(t) = LockAt(t, sec[t])
    BY <1>1, SectionType
  <1>5. mem'[v] = IF WritesTo(Program, t, sec[t], acc[t], v)
                  THEN <<t, sec[t], acc[t]>> ELSE mem[v]
    BY <1>1 DEF WritesTo, TypeOK, ProgramTypeOK
  <1>6. CASE LockOf(t) = l
    <2>1. \A u \in Threads : u # t => ~(InSection(u) /\ LockOf(u) = l)
      BY <1>1, <1>6 DEF SectionExclusion
    <2>2. HoldsAt(Program, recorded[l], current_clocks[l], t, sec[t], acc[t], v, mem[v])
      BY <1>1, <1>6 DEF MemHolds
    <2>3. acc[t] \in Nat \ {0}
      BY DEF TypeOK, ProgramTypeOK
    <2>4. HoldsAt(Program, recorded[l], current_clocks[l], t, sec[t], acc[t] + 1, v, mem'[v])
      BY <1>5, <2>2, <2>3, HoldsNext
    <2> QED BY <1>1, <1>2, <1>3, <1>6, <2>1, <2>4 DEF MemHolds
  <1>7. CASE LockOf(t) # l
    <2>1. a.var # v
      BY <1>1, <1>4, <1>7, GuardOf
    <2>2. mem'[v] = mem[v]
      BY <1>1, <1>5, <2>1 DEF WritesTo
    <2>3. \A u \in Threads : InSection(u) /\ LockOf(u) = l => acc'[u] = acc[u]
      BY <1>1, <1>7
    <2> HIDE DEF a
    <2>4. UNCHANGED <<sec, recorded, current_clocks>>
      BY <1>1
    <2> QED BY <1>2, <1>3, <2>2, <2>3, <2>4 DEF MemHolds
  <1> QED BY <1>6, <1>7

\* A section that leaves is the next one of the order.
LEMMA MemLeave ==
  ASSUME TypeOK, Inductive, SectionExclusion, BodyInv, NEW t \in Threads, Step(t),
         NEW l \in Locks, NEW v \in Vars, MemHolds(l, v),
         GateOutRecord(t) \/ GateOutReplay(t)
  PROVE  MemHolds(l, v)'
  <1>1. /\ mem' = mem /\ program' = program
        /\ InSection(t) /\ ~InSection(t)' /\ LockOf(t) \in Locks
        /\ acc[t] = End(Program, t, sec[t])
        /\ recorded'[LockOf(t)][current_clocks[LockOf(t)] + 1] = <<t, sec[t]>>
        /\ current_clocks'[LockOf(t)] = current_clocks[LockOf(t)] + 1
        /\ l # LockOf(t) => recorded'[l] = recorded[l] /\ current_clocks'[l] = current_clocks[l]
        /\ \A u \in Threads : u # t =>
             pc'[u] = pc[u] /\ sec'[u] = sec[u] /\ acc'[u] = acc[u]
    <2>1. CASE GateOutRecord(t)
      BY <2>1, StepFrame, LeaveRecordFrame DEF InSection
    <2>2. CASE GateOutReplay(t)
      BY <2>2, StepFrame, LeaveReplayFrame DEF InSection
    <2> QED BY <2>1, <2>2
  <1>2. /\ Program' = Program
        /\ \A u \in Threads : u # t => LockOf(u)' = LockOf(u)
    BY <1>1, LockKept DEF Program
  <1>3. \A u \in Threads : u # t => (InSection(u)' <=> InSection(u))
    BY <1>1 DEF InSection
  <1>4. CASE l # LockOf(t)
    BY <1>1, <1>2, <1>3, <1>4 DEF MemHolds
  <1>5. CASE l = LockOf(t)
    <2>1. \A u \in Threads : ~(InSection(u)' /\ LockOf(u)' = l)
      BY <1>1, <1>2, <1>3, <1>5 DEF SectionExclusion
    <2>2. HoldsAt(Program, recorded[l], current_clocks[l], t, sec[t],
                  End(Program, t, sec[t]), v, mem[v])
      BY <1>1, <1>5 DEF MemHolds
    <2>3. current_clocks[l] \in Nat
      BY DEF TypeOK
    <2>4. SamePrefix(recorded[l], recorded'[l], current_clocks[l])
      <3>1. Len(recorded[l]) \in Nat /\ current_clocks[l] <= Len(recorded[l])
        <4>1. Len(recorded[l]) \in Nat
          BY DEF TypeOK
        <4>2. CASE mode = "record"
          BY <2>3, <4>1, <4>2 DEF Inductive, RecordInv
        <4>3. CASE mode = "replay"
          BY <4>1, <4>3 DEF Inductive, ReplayInv
        <4> QED BY <4>1, <4>2, <4>3 DEF TypeOK, ProgramTypeOK
      <3>2. SamePrefix(recorded[l], recorded'[l], Len(recorded[l]))
        BY StepFrame
      <3> QED BY <2>3, <3>1, <3>2 DEF SamePrefix
    <2>5. HoldsAt(Program, recorded'[l], current_clocks[l], t, sec[t],
                  End(Program, t, sec[t]), v, mem[v])
      BY <2>2, <2>3, <2>4, HoldsKept
    <2>6. HoldsAfter(Program, recorded'[l], current_clocks[l] + 1, v, mem[v])
      BY <1>1, <1>5, <2>3, <2>5, HoldsEnd
    <2> QED BY <1>1, <1>2, <1>5, <2>1, <2>6 DEF MemHolds
  <1> QED BY <1>4, <1>5

\* Every step keeps what is known of the memory.
LEMMA MemStep ==
  ASSUME TypeOK, Inductive, SectionExclusion, SectionExclusion', BodyInv, MemInv,
         NEW t \in Threads, Step(t)
  PROVE  MemInv'
  <1> SUFFICES ASSUME NEW l \in Locks, NEW v \in Vars, GuardedBy(program, l, v)
               PROVE  MemHolds(l, v)'
    BY StepFrame DEF MemInv
  <1>1. MemHolds(l, v)
    BY DEF MemInv
  <1>2. CASE FileTicket(t)
    <2>1. /\ UNCHANGED <<mem, recorded, current_clocks, program>>
          /\ ~InSection(t) /\ ~InSection(t)'
          /\ \A u \in Threads : u # t =>
               pc'[u] = pc[u] /\ sec'[u] = sec[u] /\ acc'[u] = acc[u]
      BY <1>2, StepFrame, FileFrame DEF InSection
    <2>2. /\ Program' = Program
          /\ \A u \in Threads : u # t => LockOf(u)' = LockOf(u)
      BY <2>1, LockKept DEF Program
    <2>3. \A u \in Threads : u # t => (InSection(u)' <=> InSection(u))
      BY <2>1 DEF InSection
    <2> QED BY <1>1, <2>1, <2>2, <2>3 DEF MemHolds
  <1> QED BY <1>1, <1>2, MemQuiet, MemAccess, MemLeave DEF Step, Quiet

-------------------------------------------------------------------------------
\* The values that were read.

\* What a read finds at its ticket stays true when the order grows behind it.
LEMMA FindsKept ==
  ASSUME TypeOK, NEW u \in Threads, NEW s, NEW a, NEW p \in Reads(Program, u, s, a), NEW w,
         NEW k \in Nat, k <= Len(recorded[LockAt(u, p[1])]), Finds(u, p, k, w),
         program' = program,
         \A l \in Locks : SamePrefix(recorded[l], recorded'[l], Len(recorded[l]))
  PROVE  Finds(u, p, k, w)'
  <1>1. Program' = Program /\ VarAt(u, p)' = VarAt(u, p)
    BY DEF Program, VarAt
  <1> SUFFICES ASSUME NEW l \in Locks, GuardedBy(program, l, VarAt(u, p))
               PROVE  HoldsAt(Program, recorded'[l], k, u, p[1], p[2], VarAt(u, p), w)
    BY <1>1 DEF Finds
  <1>2. l = LockAt(u, p[1])
    BY PastTyped
  <1>3. SamePrefix(recorded[l], recorded'[l], k)
    <2>1. Len(recorded[l]) \in Nat /\ k <= Len(recorded[l])
      BY <1>2 DEF TypeOK
    <2> QED BY <2>1 DEF SamePrefix
  <1>4. HoldsAt(Program, recorded[l], k, u, p[1], p[2], VarAt(u, p), w)
    BY DEF Finds
  <1> QED BY <1>3, <1>4, HoldsKept

\* So a log stays right while the thread reads nothing and the tickets stay.
LEMMA LogKept ==
  ASSUME TypeOK, Inductive, BodyInv, NEW u \in Threads, LogShape(u), LogFinds(u),
         program' = program, Past(u)' = Past(u), log'[u] = log[u],
         \A l \in Locks : SamePrefix(recorded[l], recorded'[l], Len(recorded[l])),
         \A p \in Past(u) : TicketOf(u, p[1])' = TicketOf(u, p[1])
  PROVE  LogShape(u)' /\ LogFinds(u)'
  <1>1. Program' = Program /\ \A p : PlaceOf(Program, u, p)' = PlaceOf(Program, u, p)
    BY DEF Program
  <1>2. LogShape(u)'
    BY <1>1 DEF LogShape, Shape, Past
  <1>3. ASSUME NEW p \in Past(u)
        PROVE  Finds(u, p, TicketOf(u, p[1]), log[u][PlaceOf(Program, u, p)])'
    <2> DEFINE k == TicketOf(u, p[1])
               w == log[u][PlaceOf(Program, u, p)]
    <2>1. k \in Nat /\ k <= Len(recorded[LockAt(u, p[1])])
      BY TicketBound
    <2>2. Finds(u, p, k, w)
      BY DEF LogFinds
    <2>3. k' = k /\ w' = w
      BY <1>1
    <2> HIDE DEF k, w
    <2>4. p \in Reads(Program, u, sec[u], acc[u])
      BY DEF Past
    <2>5. ASSUME NEW m \in Nat, NEW x, m = k, x = w
          PROVE  Finds(u, p, m, x)'
      BY <2>1, <2>2, <2>4, <2>5, FindsKept
    <2>6. Finds(u, p, k, w)'
      BY <2>1, <2>3, <2>5 DEF Finds
    <2> QED BY <2>6 DEF k, w
  <1> QED BY <1>2, <1>3 DEF LogFinds

\* The section whose ticket is neither in the file nor on its way there.
LEMMA TicketPending ==
  ASSUME TypeOK, Inductive, BodyInv, NEW u \in Threads, NEW p \in Past(u),
         ~(p[1] <= Len(file[u]))
  PROVE  /\ p[1] = sec[u] /\ HasSection(u) /\ mode = "record"
         /\ pc[u] # "filing" => InSection(u)
  <1> USE DEF Inductive
  <1>1. /\ p[1] \in 1..Len(Program[u]) /\ p[1] \in Nat
        /\ p[1] < sec[u] \/ p[1] = sec[u]
    BY PastTyped DEF Past
  <1>2. sec[u] \in Nat /\ Len(file[u]) \in Nat
    BY DEF TypeOK, ProgramTypeOK
  <1>3. mode = "record"
    <2>1. mode # "replay"
      BY <1>1 DEF ReplayInv
    <2> QED BY <2>1 DEF TypeOK, ProgramTypeOK
  <1>4. p[1] = sec[u]
    BY <1>1, <1>2, <1>3 DEF RecordInv
  <1>5. pc[u] # "run" /\ HasSection(u)
    BY <1>4, PastSection
  <1> QED BY <1>3, <1>4, <1>5 DEF BodyInv

\* The threads that do not step keep their logs.
LEMMA LogOthers ==
  ASSUME TypeOK, Inductive, SectionExclusion, BodyInv, NEW t \in Threads, Step(t),
         NEW u \in Threads, u # t, LogShape(u), LogFinds(u)
  PROVE  LogShape(u)' /\ LogFinds(u)'
  <1>1. /\ program' = program /\ log'[u] = log[u]
        /\ pc'[u] = pc[u] /\ sec'[u] = sec[u] /\ acc'[u] = acc[u]
        /\ file'[u] = file[u] /\ clock'[u] = clock[u]
        /\ \A l \in Locks : current_clocks'[l] # current_clocks[l] =>
             InSection(t) /\ LockOf(t) = l
        /\ \A l \in Locks : SamePrefix(recorded[l], recorded'[l], Len(recorded[l]))
    BY StepFrame
  <1>2. Past(u)' = Past(u)
    BY <1>1 DEF Past, Program
  <1>3. LockOf(u)' = LockOf(u)
    BY <1>1, LockKept
  <1>4. ASSUME NEW p \in Past(u)
        PROVE  TicketOf(u, p[1])' = TicketOf(u, p[1])
    <2>1. CASE p[1] <= Len(file[u]) \/ pc[u] = "filing"
      BY <1>1, <2>1 DEF TicketOf
    <2>2. CASE ~(p[1] <= Len(file[u])) /\ pc[u] # "filing"
      <3>1. InSection(u) /\ HasSection(u)
        BY <2>2, TicketPending
      <3>2. LockOf(u) \in Locks
        BY <3>1, SectionType
      <3>3. current_clocks'[LockOf(u)] = current_clocks[LockOf(u)]
        BY <1>1, <3>1, <3>2 DEF SectionExclusion
      <3> QED BY <1>1, <1>3, <2>2, <3>3 DEF TicketOf
    <2> QED BY <2>1, <2>2
  <1> QED BY <1>1, <1>2, <1>4, LogKept

\* The thread that enters or leaves a gate, or files its ticket, keeps its log: the
\* ticket of its section stays the same on its way from the clock to the file.
LEMMA LogGate ==
  ASSUME TypeOK, Inductive, BodyInv, NEW t \in Threads, Step(t), ~ProgramStep(t),
         LogShape(t), LogFinds(t)
  PROVE  LogShape(t)' /\ LogFinds(t)'
  <1>t. Len(file[t]) \in Nat /\ sec[t] \in Nat
    BY DEF TypeOK, ProgramTypeOK
  <1>1. /\ program' = program
        /\ \A l \in Locks : SamePrefix(recorded[l], recorded'[l], Len(recorded[l]))
    BY StepFrame
  <1>0. Program' = Program /\ (sec'[t] = sec[t] => LockOf(t)' = LockOf(t))
    BY <1>1, LockKept DEF Program
  <1>2. CASE Quiet(t)
    <2>1. /\ UNCHANGED <<sec, acc, log, file, clock, current_clocks>>
          /\ pc[t] # "filing" /\ pc'[t] # "filing"
      BY <1>2, QuietFrame
    <2>2. Past(t)' = Past(t)
      BY <1>0, <2>1 DEF Past
    <2>3. \A p \in Past(t) : TicketOf(t, p[1])' = TicketOf(t, p[1])
      BY <1>0, <2>1 DEF TicketOf
    <2> QED BY <1>1, <2>1, <2>2, <2>3, LogKept
  <1>3. CASE GateOutRecord(t)
    <2>1. /\ UNCHANGED <<sec, acc, log, file>>
          /\ pc[t] = "body" /\ pc'[t] = "filing"
          /\ clock'[t] = current_clocks[LockOf(t)]
      BY <1>3, LeaveRecordFrame
    <2>2. Past(t)' = Past(t)
      BY <1>0, <2>1 DEF Past
    <2>3. \A p \in Past(t) : TicketOf(t, p[1])' = TicketOf(t, p[1])
      BY <2>1 DEF TicketOf
    <2> QED BY <1>1, <2>1, <2>2, <2>3, LogKept
  <1>4. CASE FileTicket(t)
    <2>1. /\ log' = log
          /\ pc[t] = "filing"
          /\ sec'[t] = sec[t] + 1 /\ acc'[t] = 1
          /\ sec[t] \in 1..Len(Program[t])
          /\ acc[t] = End(Program, t, sec[t])
          /\ Len(file[t]) = sec[t] - 1 /\ Len(file'[t]) = sec[t]
          /\ \A s \in 1..Len(file[t]) : file'[t][s] = file[t][s]
          /\ file'[t][sec[t]] = clock[t]
      BY <1>4, FileFrame
    <2>2. Past(t)' = Past(t)
      BY <1>0, <2>1, BodyTyped, ProgramTyped, ReadsEnd DEF Past
    <2>3. ASSUME NEW p \in Past(t)
          PROVE  TicketOf(t, p[1])' = TicketOf(t, p[1])
      <3>1. p[1] \in Nat \ {0} /\ (p[1] <= Len(file[t]) \/ p[1] = sec[t])
        BY PastTyped, TicketPending DEF Past
      <3>2. CASE p[1] <= Len(file[t])
        <4>1. p[1] \in 1..Len(file[t]) /\ p[1] <= Len(file'[t])
          BY <1>t, <2>1, <3>1, <3>2
        <4>2. TicketOf(t, p[1]) = file[t][p[1]] /\ TicketOf(t, p[1])' = file'[t][p[1]]
          BY <4>1, <3>2 DEF TicketOf
        <4>3. file'[t][p[1]] = file[t][p[1]]
          BY <2>1, <4>1
        <4> QED BY <4>2, <4>3
      <3>3. CASE ~(p[1] <= Len(file[t]))
        <4>1. p[1] = sec[t] /\ p[1] <= Len(file'[t])
          BY <1>t, <2>1, <3>1, <3>3
        <4> QED BY <2>1, <3>3, <4>1 DEF TicketOf
      <3> QED BY <3>2, <3>3
    <2> QED BY <1>1, <2>1, <2>2, <2>3, LogKept
  <1>5. CASE GateOutReplay(t)
    <2>1. /\ UNCHANGED <<log, file>>
          /\ mode = "replay"
          /\ sec'[t] = sec[t] + 1 /\ acc'[t] = 1
          /\ sec[t] \in 1..Len(Program[t])
          /\ acc[t] = End(Program, t, sec[t])
      BY <1>5, LeaveReplayFrame
    <2>2. Past(t)' = Past(t)
      BY <1>0, <2>1, BodyTyped, ProgramTyped, ReadsEnd DEF Past
    <2>3. \A p \in Past(t) : p[1] <= Len(file[t])
      BY <2>1, TicketPending
    <2>4. \A p \in Past(t) : TicketOf(t, p[1])' = TicketOf(t, p[1])
      BY <2>1, <2>3 DEF TicketOf
    <2> QED BY <1>1, <2>1, <2>2, <2>4, LogKept
  <1> QED BY <1>2, <1>3, <1>4, <1>5 DEF Step, Quiet

\* A value that is read is the one its variable has at this place of the order.
LEMMA LogAccess ==
  ASSUME TypeOK, Inductive, BodyInv, MemInv, NEW t \in Threads, Step(t), ProgramStep(t),
         LogShape(t), LogFinds(t)
  PROVE  LogShape(t)' /\ LogFinds(t)'
  <1>1. /\ UNCHANGED <<sec, file, clock, recorded, current_clocks, program>>
        /\ InSection(t) /\ InSection(t)' /\ HasSection(t)
        /\ acc'[t] = acc[t] + 1
        /\ acc[t] \in 1..Len(Body(Program, t, sec[t]))
        /\ NextAccess(t) = Body(Program, t, sec[t])[acc[t]] /\ NextAccess(t) \in Accesses
        /\ log'[t] = IF NextAccess(t).op = "store" THEN log[t]
                     ELSE Append(log[t], mem[NextAccess(t).var])
        /\ \A l \in Locks : SamePrefix(recorded[l], recorded'[l], Len(recorded[l]))
    BY StepFrame, AccessFrame
  <1>2. /\ Program' = Program /\ LockOf(t)' = LockOf(t)
        /\ sec[t] \in 1..Len(Program[t]) /\ Len(Program[t]) \in Nat
        /\ LockOf(t) = LockAt(t, sec[t]) /\ LockOf(t) \in Locks
    BY <1>1, SectionType, ProgramTyped, LockKept DEF Program
  <1>3. \A s : TicketOf(t, s)' = TicketOf(t, s)
    BY <1>1, <1>2 DEF TicketOf, InSection
  <1>8. \A p : PlaceOf(Program, t, p)' = PlaceOf(Program, t, p)
    BY <1>1 DEF Program
  <1>9. Program' = Program /\ program' = program /\ recorded' = recorded
    BY <1>1, <1>2
  <1>4. Past(t)' = Reads(Program, t, sec[t], acc[t] + 1)
    BY <1>1, <1>2 DEF Past
  <1>7. /\ <<sec[t], acc[t]>> \notin Past(t)
        /\ Past(t)' = IF IsRead(Program, t, sec[t], acc[t])
                      THEN Past(t) \cup {<<sec[t], acc[t]>>} ELSE Past(t)
    <2>1. /\ <<sec[t], acc[t]>> \notin Reads(Program, t, sec[t], acc[t])
          /\ IsRead(Program, t, sec[t], acc[t]) =>
               Reads(Program, t, sec[t], acc[t] + 1)
                 = Reads(Program, t, sec[t], acc[t]) \cup {<<sec[t], acc[t]>>}
          /\ ~IsRead(Program, t, sec[t], acc[t]) =>
               Reads(Program, t, sec[t], acc[t] + 1) = Reads(Program, t, sec[t], acc[t])
      <3>1. /\ sec[t] \in 1..Len(Program[t]) /\ Len(Program[t]) \in Nat
            /\ acc[t] \in 1..Len(Body(Program, t, sec[t]))
        BY <1>1, <1>2
      <3> QED BY ONLY <3>1, ReadsNext
    <2> QED BY <1>4, <2>1 DEF Past
  <1>5. CASE ~IsRead(Program, t, sec[t], acc[t])
    <2>1. Past(t)' = Past(t) /\ log'[t] = log[t]
      BY <1>1, <1>5, <1>7 DEF IsRead
    <2> QED BY <1>1, <1>3, <2>1, LogKept
  <1>6. CASE IsRead(Program, t, sec[t], acc[t])
    <2>q. PICK q, w, n :
            q = <<sec[t], acc[t]>> /\ w = mem[NextAccess(t).var] /\ n = Len(log[t])
      OBVIOUS
    <2>1. Past(t)' = Past(t) \cup {q} /\ q \notin Past(t)
      BY <1>6, <1>7, <2>q
    <2>2. VarAt(t, q) = NextAccess(t).var /\ NextAccess(t).var \in Vars
      BY <1>1, <2>q DEF VarAt, Accesses
    <2>3. /\ n \in Nat /\ Len(log'[t]) = n + 1 /\ log'[t][n + 1] = w
          /\ \A i \in 1..n : log'[t][i] = log[t][i]
      <3>1. log[t] \in Seq(Values) /\ w \in Values
        BY <2>2, <2>q DEF TypeOK, ProgramTypeOK
      <3>2. log'[t] = Append(log[t], w)
        BY <1>1, <1>6, <2>q DEF IsRead
      <3> QED BY <2>q, <3>1, <3>2
    <2>4. Shape(Program, t, sec[t], acc[t] + 1, n + 1) /\ PlaceOf(Program, t, q) = n + 1
      BY <1>1, <1>2, <1>6, <2>q, <2>3, ShapeNext DEF LogShape
    <2>5. LogShape(t)'
      BY <1>1, <1>2, <2>3, <2>4 DEF LogShape
    <2>6. \A p \in Past(t) : PlaceOf(Program, t, p) \in 1..n
      BY <2>q DEF LogShape, Shape, Past
    <2>8. \A p : VarAt(t, p)' = VarAt(t, p)
      BY <1>2 DEF VarAt
    <2>9. ASSUME NEW p \in Past(t)
          PROVE  Finds(t, p, TicketOf(t, p[1]), log[t][PlaceOf(Program, t, p)])'
      <3>1. log'[t][PlaceOf(Program, t, p)] = log[t][PlaceOf(Program, t, p)]
        BY <2>3, <2>6
      <3>2. Finds(t, p, TicketOf(t, p[1]), log[t][PlaceOf(Program, t, p)])
        BY DEF LogFinds
      <3>3. /\ TicketOf(t, p[1])' = TicketOf(t, p[1])
            /\ (log[t][PlaceOf(Program, t, p)])' = log[t][PlaceOf(Program, t, p)]
        BY <1>3, <1>8, <3>1
      <3> QED BY <1>9, <2>8, <3>2, <3>3 DEF Finds
    <2>10. Finds(t, q, TicketOf(t, q[1]), log[t][PlaceOf(Program, t, q)])'
      <3>1. ASSUME NEW l \in Locks, GuardedBy(program, l, VarAt(t, q))
            PROVE  HoldsAt(Program, recorded[l], TicketOf(t, sec[t]), t, sec[t], acc[t],
                           VarAt(t, q), w)
        <4>1. l = LockOf(t)
          BY <1>1, <1>2, <2>q, <3>1, GuardOf DEF VarAt
        <4>2. MemHolds(l, VarAt(t, q))
          BY <2>2, <3>1 DEF MemInv
        <4>3. TicketOf(t, sec[t]) = current_clocks[l]
          BY <1>1, <4>1, TicketInside
        <4> QED BY <1>1, <2>2, <2>q, <4>1, <4>2, <4>3 DEF MemHolds
      <3>2. log'[t][PlaceOf(Program, t, q)] = w
        BY <2>3, <2>4
      <3>3. TicketOf(t, q[1])' = TicketOf(t, sec[t])
        BY <1>3, <2>q
      <3>4. (log[t][PlaceOf(Program, t, q)])' = w
        BY <1>8, <3>2
      <3> SUFFICES ASSUME NEW l \in Locks, GuardedBy(program, l, VarAt(t, q))
                   PROVE  HoldsAt(Program, recorded[l], TicketOf(t, sec[t]), t, q[1], q[2],
                                  VarAt(t, q), w)
        BY <1>9, <2>8, <3>3, <3>4 DEF Finds
      <3> QED BY <2>q, <3>1
    <2>11. LogFinds(t)'
      <3> SUFFICES ASSUME NEW p \in Past(t)'
                     PROVE  Finds(t, p, TicketOf(t, p[1]), log[t][PlaceOf(Program, t, p)])'
        BY DEF LogFinds
      <3> QED BY <2>1, <2>9, <2>10
    <2> QED BY <2>5, <2>11
  <1> QED BY <1>5, <1>6

\* Every step of a thread keeps the logs.
LEMMA LogStep ==
  ASSUME TypeOK, Inductive, SectionExclusion, BodyInv, MemInv, LogInv,
         NEW t \in Threads, Step(t)
  PROVE  LogInv'
  <1> SUFFICES ASSUME NEW u \in Threads
               PROVE  LogShape(u)' /\ LogFinds(u)'
    BY DEF LogInv
  <1>1. LogShape(u) /\ LogFinds(u)
    BY DEF LogInv
  <1> QED BY <1>1, LogOthers, LogGate, LogAccess

\* And what is kept of the recorded run.
LEMMA KeptStep ==
  ASSUME TypeOK, Inductive, BodyInv, KeptInv, NEW t \in Threads, Step(t)
  PROVE  KeptInv'
  <1>1. UNCHANGED <<program, mode, recLog, recMem>>
    BY StepFrame
  <1> SUFFICES ASSUME mode = "replay" PROVE KeptInv'
    BY <1>1 DEF KeptInv
  <1>2. UNCHANGED <<file, recorded>>
    <2>1. CASE Quiet(t)
      BY <2>1, QuietFrame
    <2>2. CASE ProgramStep(t) \/ GateOutReplay(t)
      BY <2>2, AccessFrame, LeaveReplayFrame
    <2>3. ~FileTicket(t) /\ ~GateOutRecord(t)
      BY FileFrame DEF GateOutRecord
    <2> QED BY <2>1, <2>2, <2>3 DEF Step, Quiet
  <1>3. Program' = Program /\ \A u, p : VarAt(u, p)' = VarAt(u, p)
    BY <1>1 DEF Program, VarAt
  <1> QED BY <1>1, <1>2, <1>3 DEF KeptInv, RecLogHolds, Finds

-------------------------------------------------------------------------------
\* The first state, and the start of the replay.

\* Before a thread has read anything its log is right.
LEMMA NothingRead ==
  ASSUME NEW code, NEW u
  PROVE  /\ Reads(code, u, 1, 1) = {} /\ Shape(code, u, 1, 1, 0)
         /\ \A order, v : HoldsAfter(code, order, 0, v, <<>>)
  <1>1. \A order, v : HoldsAfter(code, order, 0, v, <<>>)
    BY DEF HoldsAfter
  <1> QED BY <1>1, ReadsFirst, ShapeFirst

\* The first state.
LEMMA InitSerial == ASSUME Init PROVE SerialInv
  <1>1. /\ mode = "record"
        /\ \A t \in Threads : pc[t] = "run" /\ sec[t] = 1 /\ acc[t] = 1 /\ log[t] = <<>>
        /\ \A v \in Vars : mem[v] = <<>>
        /\ \A l \in Locks : current_clocks[l] = 0 /\ recorded[l] = <<>>
    BY DEF Init, ProgramInit
  <1>2. BodyInv
    BY <1>1 DEF BodyInv, InSection
  <1>3. EntryInv
    BY <1>1 DEF EntryInv
  <1>4. PassedInv /\ KeptInv
    BY <1>1 DEF PassedInv, KeptInv
  <1>5. MemInv
    BY <1>1, NothingRead DEF MemInv, MemHolds, InSection
  <1>6. LogInv
    <2> SUFFICES ASSUME NEW t \in Threads PROVE LogShape(t) /\ LogFinds(t)
      BY DEF LogInv
    <2>1. Past(t) = {} /\ Shape(Program, t, 1, 1, 0)
      BY <1>1, NothingRead DEF Past
    <2>2. Len(log[t]) = 0
      BY <1>1
    <2> QED BY <1>1, <2>1, <2>2 DEF LogShape, LogFinds
  <1> QED BY <1>2, <1>3, <1>4, <1>5, <1>6 DEF SerialInv

\* When every thread has finished, every read is past and every clock has given
\* out the tickets of its order.
LEMMA DoneParts ==
  ASSUME TypeOK, Inductive, BodyInv, AllDone, NEW t \in Threads
  PROVE  /\ sec[t] = Len(Program[t]) + 1 /\ Past(t) = AllReads(Program, t)
         /\ ~InSection(t)
  <1>1. /\ pc[t] = "run" /\ ~(sec[t] <= Len(Program[t]))
        /\ sec[t] \in 1..(Len(Program[t]) + 1) /\ acc[t] = 1
    BY DEF AllDone, HasSection, Inductive, NestingInv, BodyInv
  <1>2. Len(Program[t]) \in Nat
    BY ProgramTyped
  <1>3. sec[t] = Len(Program[t]) + 1
    BY <1>1, <1>2
  <1> QED BY <1>1, <1>3 DEF Past, AllReads, InSection

\* The second run starts with the record of the first.
LEMMA RerunSerial ==
  ASSUME TypeOK, Inductive, SerialInv, Rerun
  PROVE  SerialInv'
  <1> USE DEF SerialInv
  <1>1. /\ mode = "record" /\ AllDone
        /\ \A t \in Threads :
             pc'[t] = "run" /\ sec'[t] = 1 /\ acc'[t] = 1 /\ log'[t] = <<>>
        /\ \A v \in Vars : mem'[v] = <<>>
        /\ \A l \in Locks : current_clocks'[l] = 0
        /\ UNCHANGED <<file, recorded, program>> /\ recLog' = log /\ recMem' = mem
    BY DEF Rerun, StartReplay
  <1>2. /\ Program' = Program
        /\ \A t, s : LockAt(t, s)' = LockAt(t, s)
        /\ \A t, p : VarAt(t, p)' = VarAt(t, p)
    BY <1>1 DEF Program, LockAt, GateLock, MultiClock, VarAt
  <1>3. BodyInv'
    BY <1>1 DEF BodyInv, InSection
  <1>4. EntryInv'
    <2> SUFFICES ASSUME NEW l \in Locks, NEW e \in 1..Len(recorded[l]),
                        NEW t \in Threads, NEW s \in Nat, recorded[l][e] = <<t, s>>
                 PROVE  /\ s \in 1..Len(Program[t]) /\ LockAt(t, s) = l
                        /\ s <= Len(file'[t]) /\ TicketOf(t, s)' = e - 1
      BY <1>1, <1>2 DEF EntryInv
    <2>1. /\ s \in 1..Len(Program[t]) /\ LockAt(t, s) = l
          /\ s <= Len(file[t]) \/ (s = sec[t] /\ pc[t] = "filing")
          /\ TicketOf(t, s) = e - 1
      BY DEF EntryInv
    <2>2. s <= Len(file[t])
      BY <1>1, <2>1 DEF AllDone
    <2> QED BY <1>1, <2>1, <2>2 DEF TicketOf
  <1>5. PassedInv'
    BY <1>1 DEF PassedInv
  <1>6. MemInv'
    BY <1>1, <1>2, NothingRead DEF MemInv, MemHolds, InSection
  <1>7. LogInv'
    <2> SUFFICES ASSUME NEW t \in Threads PROVE LogShape(t)' /\ LogFinds(t)'
      BY DEF LogInv
    <2>1. Past(t)' = {} /\ Shape(Program, t, 1, 1, 0)
      BY <1>1, <1>2, NothingRead DEF Past
    <2>2. Len(log'[t]) = 0
      BY <1>1
    <2> QED BY <1>1, <1>2, <2>1, <2>2 DEF LogShape, LogFinds
  <1>8. KeptInv'
    <2>1. ASSUME NEW t \in Threads
          PROVE  RecLogHolds(t)'
      <3>1. /\ Past(t) = AllReads(Program, t) /\ LogShape(t) /\ LogFinds(t)
            /\ sec[t] = Len(Program[t]) + 1 /\ Len(Program[t]) \in Nat
        BY <1>1, DoneParts, ProgramTyped DEF LogInv
      <3>2. Len(file[t]) = Len(Program[t])
        BY <1>1, <3>1 DEF Inductive, RecordInv
      <3>3. ASSUME NEW p \in AllReads(Program, t)
            PROVE  Finds(t, p, file[t][p[1]], log[t][PlaceOf(Program, t, p)])
        <4>1. p[1] \in 1..Len(Program[t])
          BY PastTyped DEF AllReads
        <4>2. TicketOf(t, p[1]) = file[t][p[1]]
          BY <3>1, <3>2, <4>1 DEF TicketOf
        <4> QED BY <3>1, <4>2 DEF LogFinds
      <3> QED BY <1>1, <1>2, <3>1, <3>3 DEF RecLogHolds, LogShape, Shape, Past, Finds
    <2>2. ASSUME NEW l \in Locks, NEW v \in Vars, GuardedBy(program, l, v)
          PROVE  HoldsAfter(Program, recorded[l], Len(recorded[l]), v, mem[v])
      <3>1. MemHolds(l, v) /\ \A t \in Threads : ~InSection(t)
        BY <1>1, <2>2, DoneParts DEF MemInv
      <3>2. Len(recorded[l]) = current_clocks[l]
        BY <1>1 DEF Inductive, RecordInv
      <3> QED BY <3>1, <3>2 DEF MemHolds
    <2> QED BY <1>1, <1>2, <2>1, <2>2 DEF KeptInv
  <1> QED BY <1>3, <1>4, <1>5, <1>6, <1>7, <1>8

\* Nothing changes.
LEMMA IdleSerial ==
  ASSUME SerialInv, UNCHANGED vars
  PROVE  SerialInv'
  <1> USE DEF SerialInv
  <1>1. /\ UNCHANGED programVars /\ UNCHANGED gateVars
        /\ Program' = Program /\ MultiClock' = MultiClock
    BY DEF vars, programVars, Program, MultiClock
  <1>2. /\ \A t \in Threads : InSection(t)' <=> InSection(t)
        /\ \A t : LockOf(t)' = LockOf(t)
        /\ \A t, s : LockAt(t, s)' = LockAt(t, s) /\ TicketOf(t, s)' = TicketOf(t, s)
        /\ \A t, p : VarAt(t, p)' = VarAt(t, p)
        /\ \A t : Past(t)' = Past(t)
    BY <1>1 DEF programVars, gateVars, InSection, LockOf, Section, GateLock, LockAt,
       TicketOf, VarAt, Past
  <1>3. BodyInv' /\ EntryInv' /\ PassedInv' /\ MemInv'
    BY <1>1, <1>2 DEF programVars, gateVars, BodyInv, EntryInv, PassedInv, MemInv, MemHolds
  <1>4. LogInv' /\ KeptInv'
    BY <1>1, <1>2 DEF programVars, gateVars, LogInv, LogShape, LogFinds, KeptInv,
       RecLogHolds, Finds
  <1> QED BY <1>3, <1>4

\* Both runs execute the sections of each lock as if one after the other.
LEMMA Serial == Spec => []SerialInv
  <1>1. Init => SerialInv
    BY InitSerial
  <1>2. ASSUME TypeOK, Inductive, SectionExclusion, SectionExclusion', SerialInv,
               [Next]_vars
        PROVE  SerialInv'
    <2>1. ASSUME NEW t \in Threads, Step(t)
          PROVE  SerialInv'
      BY <1>2, <2>1, BodyStep, EntryStep, PassedStep, MemStep, LogStep, KeptStep
      DEF SerialInv
    <2>2. CASE Rerun
      BY <1>2, <2>2, RerunSerial
    <2>3. CASE UNCHANGED vars
      BY <1>2, <2>3, IdleSerial
    <2> QED BY <1>2, <2>1, <2>2, <2>3 DEF Next, Ended
  <1> QED BY <1>1, <1>2, Invariance, TypeCorrect, MutualExclusion, PTL DEF Spec

-------------------------------------------------------------------------------
\* What the replay observes.

\* The entries of an order are sections of the program.
LEMMA OrderTyped ==
  ASSUME TypeOK, EntryInv, NEW l \in Locks, NEW e \in 1..Len(recorded[l])
  PROVE  /\ recorded[l][e] \in Threads \X Nat
         /\ recorded[l][e][2] \in 1..Len(Program[recorded[l][e][1]])
         /\ End(Program, recorded[l][e][1], recorded[l][e][2]) \in Int
  <1>1. recorded[l][e] \in Threads \X Nat
    BY DEF TypeOK
  <1>2. recorded[l][e] = <<recorded[l][e][1], recorded[l][e][2]>>
    BY <1>1
  <1>3. recorded[l][e][2] \in 1..Len(Program[recorded[l][e][1]])
    BY <1>1, <1>2 DEF EntryInv
  <1>4. End(Program, recorded[l][e][1], recorded[l][e][2]) \in Nat
    BY <1>1, <1>3, BodyTyped
  <1> QED BY <1>1, <1>3, <1>4

\* A value read in the replay is the one of the same read of the recorded run.
LEMMA LogsAgree ==
  ASSUME TypeOK, Inductive, SerialInv, OneGateEach(program), mode = "replay",
         NEW t \in Threads
  PROVE  /\ Len(log[t]) <= Len(recLog[t])
         /\ \A i \in 1..Len(log[t]) : log[t][i] = recLog[t][i]
  <1> USE DEF SerialInv
  <1>1. LogShape(t) /\ LogFinds(t) /\ RecLogHolds(t)
    BY DEF LogInv, KeptInv
  <1>2. Past(t) \subseteq AllReads(Program, t)
    <2>1. /\ sec[t] \in Nat /\ acc[t] \in Nat /\ Len(Program[t]) \in Nat
          /\ sec[t] \in 1..(Len(Program[t]) + 1)
      <3>1. sec[t] \in Nat /\ acc[t] \in Nat
        BY DEF TypeOK, ProgramTypeOK
      <3> QED BY <3>1, ProgramTyped DEF Inductive, NestingInv
    <2>2. sec[t] = Len(Program[t]) + 1 => acc[t] = 1
      BY <2>1 DEF Inductive, NestingInv, HasSection, BodyInv
    <2>3. sec[t] < Len(Program[t]) + 1 \/ (sec[t] = Len(Program[t]) + 1 /\ acc[t] <= 1)
      BY <2>1, <2>2
    <2> QED BY <2>1, <2>3, ReadsGrow DEF Past, AllReads
  <1>3. Len(log[t]) <= Len(recLog[t])
    BY <1>1, <1>2, FS_Subset DEF LogShape, Shape, Past, RecLogHolds
  <1>4. ASSUME NEW i \in 1..Len(log[t])
        PROVE  log[t][i] = recLog[t][i]
    <2>1. PICK p \in Past(t) : PlaceOf(Program, t, p) = i
      BY <1>1 DEF LogShape, Shape, Past
    <2>2. p[1] \in 1..Len(Program[t]) /\ p[2] \in Nat /\ VarAt(t, p) \in Vars
      BY PastTyped DEF Past
    <2>3. TicketOf(t, p[1]) = file[t][p[1]]
      <3>1. Len(file[t]) = Len(Program[t])
        BY DEF Inductive, ReplayInv
      <3> QED BY <2>2, <3>1 DEF TicketOf
    <2>4. /\ Finds(t, p, file[t][p[1]], log[t][i])
          /\ Finds(t, p, file[t][p[1]], recLog[t][i])
      BY <1>1, <1>2, <2>1, <2>3 DEF LogFinds, RecLogHolds
    <2>5. PICK l \in Locks : GuardedBy(program, l, VarAt(t, p))
      BY <2>2 DEF OneGateEach
    <2>6. l = LockAt(t, p[1])
      BY <2>5, PastTyped DEF Past
    <2>7. file[t][p[1]] \in Nat /\ file[t][p[1]] <= Len(recorded[l])
      BY <2>3, <2>6, TicketBound
    <2>8. \A e \in 1..file[t][p[1]] :
            End(Program, recorded[l][e][1], recorded[l][e][2]) \in Int
      <3>1. Len(recorded[l]) \in Nat
        BY DEF TypeOK
      <3>2. \A e \in 1..file[t][p[1]] : e \in 1..Len(recorded[l])
        BY <2>7, <3>1
      <3> QED BY <3>2, OrderTyped
    <2>9. /\ HoldsAt(Program, recorded[l], file[t][p[1]], t, p[1], p[2], VarAt(t, p), log[t][i])
          /\ HoldsAt(Program, recorded[l], file[t][p[1]], t, p[1], p[2], VarAt(t, p), recLog[t][i])
      BY <2>4, <2>5 DEF Finds
    <2>10. p[2] \in Int
      BY <2>2
    <2> QED BY <2>7, <2>8, <2>9, <2>10, OneValueAt
  <1> QED BY <1>3, <1>4

\* A replay that has ended has followed every order to its end.
LEMMA OrdersFollowed ==
  ASSUME TypeOK, Inductive, SerialInv, mode = "replay", AllDone, NEW l \in Locks
  PROVE  current_clocks[l] = Len(recorded[l])
  <1> USE DEF SerialInv
  <1>1. /\ current_clocks[l] \in Nat /\ Len(recorded[l]) \in Nat
        /\ current_clocks[l] <= Len(recorded[l])
    BY DEF TypeOK, Inductive, ReplayInv
  <1>2. ASSUME current_clocks[l] < Len(recorded[l])
        PROVE  FALSE
    <2>1. current_clocks[l] + 1 \in 1..Len(recorded[l])
      BY <1>1, <1>2
    <2>2. PICK t \in Threads, s \in Nat : recorded[l][current_clocks[l] + 1] = <<t, s>>
      <3>1. recorded[l][current_clocks[l] + 1] \in Threads \X Nat
        BY <2>1, OrderTyped
      <3> QED BY <3>1
    <2>3. /\ s \in 1..Len(Program[t]) /\ LockAt(t, s) = l
          /\ TicketOf(t, s) = current_clocks[l]
      <3>1. PICK e \in 1..Len(recorded[l]) : e = current_clocks[l] + 1
        BY <2>1
      <3>2. /\ s \in 1..Len(Program[t]) /\ LockAt(t, s) = l
            /\ TicketOf(t, s) = e - 1
        BY <2>2, <3>1 DEF EntryInv
      <3> QED BY <1>1, <3>1, <3>2
    <2>4. Len(file[t]) = Len(Program[t]) /\ sec[t] = Len(Program[t]) + 1
      BY DoneParts DEF Inductive, ReplayInv
    <2>5. file[t][s] = current_clocks[l]
      BY <1>1, <2>3, <2>4 DEF TicketOf
    <2>6. s \in 1..(sec[t] - 1)
      BY <2>3, <2>4, ProgramTyped
    <2>7. file[t][s] < current_clocks[l]
      BY <2>3, <2>6 DEF PassedInv
    <2> QED BY <1>1, <2>5, <2>7
  <1> QED BY <1>1, <1>2

\* Where every variable has one gate, the invariant is that of a faithful replay.
LEMMA Faithful ==
  ASSUME TypeOK, Inductive, SerialInv, OneGateEach(program)
  PROVE  ReplayFaithful
  <1> SUFFICES ASSUME mode = "replay", AllDone
               PROVE  mem = recMem
    BY LogsAgree DEF ReplayFaithful
  <1>1. ASSUME NEW v \in Vars
        PROVE  mem[v] = recMem[v]
    <2>1. PICK l \in Locks : GuardedBy(program, l, v)
      BY DEF OneGateEach
    <2>2. current_clocks[l] = Len(recorded[l]) /\ Len(recorded[l]) \in Nat
      BY OrdersFollowed DEF TypeOK
    <2>3. MemHolds(l, v) /\ \A t \in Threads : ~InSection(t)
      BY <2>1, DoneParts DEF SerialInv, MemInv
    <2>4. HoldsAfter(Program, recorded[l], Len(recorded[l]), v, mem[v])
      BY <2>2, <2>3 DEF MemHolds
    <2>5. HoldsAfter(Program, recorded[l], Len(recorded[l]), v, recMem[v])
      BY <2>1 DEF SerialInv, KeptInv
    <2>6. \A e \in 1..Len(recorded[l]) :
            End(Program, recorded[l][e][1], recorded[l][e][2]) \in Int
      BY OrderTyped DEF SerialInv
    <2> QED BY <2>2, <2>4, <2>5, <2>6, OneValueAfter
  <1>2. mem \in [Vars -> Values] /\ recMem \in [Vars -> Values]
    BY DEF TypeOK, ProgramTypeOK
  <1> QED BY <1>1, <1>2

\* The replay reads what the recorded run read and ends with its memory, for every
\* team, every number of locks and every program in which a variable is accessed in
\* the sections of one gate lock.
THEOREM ReadsReplayed ==
  ASSUME \A p \in Programs : OneGateEach(p)
  PROVE  Spec => []ReplayFaithful
  <1>1. TypeOK /\ Inductive /\ SerialInv /\ program \in Programs => ReplayFaithful
    BY Faithful
  <1> QED BY <1>1, Invariance, TypeCorrect, Serial, OneProgram, PTL

\* Without multi_clock there is no such condition: every gate uses lock 0.
COROLLARY OneClockReplays ==
  ASSUME \A p \in Programs : ~p.multi_clock
  PROVE  Spec => []ReplayFaithful
  <1>1. \A p \in Programs : OneGateEach(p)
    BY ProgramAssumption DEF OneGateEach, GuardedBy
  <1> QED BY <1>1, ReadsReplayed
===============================================================================
