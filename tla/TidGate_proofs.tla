---------------------------- MODULE TidGate_proofs ----------------------------
(***************************************************************************)
(* Proofs about the thread id gate, for every team and every program.  All *)
(* threads share current_tid and nest_num, so the invariant says whose     *)
(* they are: a thread that is past a gate holds the lock (recording with   *)
(* one lock) or has the turn (replaying), is current_tid, and nest_num is  *)
(* its own depth.  A recorded run with a lock for each set of races, or    *)
(* without the one lock, has no such invariant; what is claimed of it is   *)
(* types, and more where the locks it sets are made (ManyInv).             *)
(***************************************************************************)
EXTENDS TidGate, SharedLemmas

\* Where a thread can be, and what its section then looks like.
AtNested(t) == HasAccess(t) /\ NextAccess(t).gate # NoLock
PastNested(t) ==
  acc[t] - 1 \in 1..Len(Section(t).body) /\ Section(t).body[acc[t] - 1].gate # NoLock
Counts(t, by, after) == counting[t].by = by /\ counting[t].after = after

PlaceInv(t) ==
  /\ pc[t] \in {"run", "body", "nested", "nestout", "lock", "test", "nestlock",
                "load", "store"}
  /\ pc[t] # "run" => HasSection(t)
  /\ pc[t] \in {"lock", "test"} => ~Ungated(t)
  /\ pc[t] = "test" => mode = "replay"
  /\ pc[t] = "nestlock" => mode = "record"
  /\ pc[t] \in {"nestlock", "nested"} => AtNested(t)
  /\ pc[t] = "nestout" => PastNested(t)
  /\ pc[t] \in {"load", "store"} =>
       \/ Counts(t, 1, "nested") /\ AtNested(t)
       \/ Counts(t, -1, "body") \/ Counts(t, 1, "body") \/ Counts(t, -1, "run")

\* The runs in which gated sections exclude each other.
Ordered == mode = "replay" \/ OneLocked

\* The thread is past the gate of its section, or of an access of a reduction.
Holds(t) == Inside(t) \/ (pc[t] \in {"nested", "nestout"} /\ Ungated(t))
Owner(t) == IF mode = "record" THEN record_locks[0] = t ELSE replay_thread_num = t

\* How many gates have counted the thread.
Depth(t) ==
  IF /\ \/ pc[t] \in {"nested", "nestout"}
        \/ pc[t] \in {"load", "store"} /\ counting[t].after = "body"
     /\ ~Ungated(t)
  THEN 1 ELSE 0

ThreadInv(t) ==
  /\ Holds(t) => Owner(t) /\ current_tid = t /\ nest_num = Depth(t)
  /\ current_tid = t => Holds(t)
  /\ pc[t] = "nestlock" => Ungated(t)
  /\ pc[t] \in {"load", "store"} =>
       ~Ungated(t) /\ (Counts(t, 1, "nested") \/ Counts(t, -1, "body"))
  /\ pc[t] = "store" => counting[t].loaded = nest_num

Idle == current_tid = NoThread => nest_num = 0

Serial == Ordered => Idle /\ \A t \in Threads : ThreadInv(t)

IInv == TypeOK /\ TurnIsLocked /\ Serial /\ \A t \in Threads : PlaceInv(t)

-------------------------------------------------------------------------------
\* How the operators the gate is built from act.

\* Types of what the program is.
LEMMA ProgramTyped ==
  ASSUME TypeOK
  PROVE  Program \in [Threads -> Seq(Sections)] /\ MultiClock \in BOOLEAN
  BY DEF TypeOK, ProgramTypeOK, ProgramType, Program, MultiClock

\* The section a thread is in or enters next.
LEMMA SectionTyped ==
  ASSUME TypeOK, NEW t \in Threads, HasSection(t)
  PROVE  /\ Section(t) \in Sections
         /\ Section(t).body \in Seq(Accesses)
         /\ LockOf(t) \in Locks
  <1>1. sec[t] \in 1..Len(Program[t])
    BY ProgramTyped DEF TypeOK, ProgramTypeOK, HasSection
  <1>2. Section(t) \in Sections
    BY <1>1, ProgramTyped DEF Section
  <1>3. Section(t).lock \in Locks /\ Section(t).body \in Seq(Accesses)
    BY <1>2 DEF Sections
  <1> QED BY <1>2, <1>3, ProgramAssumption DEF LockOf, GateLock

\* The access a thread executes next.
LEMMA AccessTyped ==
  ASSUME TypeOK, NEW t \in Threads, HasSection(t), HasAccess(t)
  PROVE  NextAccess(t) \in Accesses
  <1>1. Section(t).body \in Seq(Accesses)
    BY SectionTyped
  <1>2. acc[t] \in 1..Len(Section(t).body)
    BY <1>1 DEF HasAccess, TypeOK, ProgramTypeOK
  <1> QED BY <1>1, <1>2 DEF NextAccess

\* The locks of nested gates are locks.
LEMMA NestedLocksTyped ==
  ASSUME TypeOK, NEW t \in Threads, HasSection(t)
  PROVE  /\ AtNested(t) => NestedLock(t) \in Locks
         /\ PastNested(t) => NestedLockOut(t) \in Locks
  <1>1. Section(t).body \in Seq(Accesses)
    BY SectionTyped
  <1>2. ASSUME AtNested(t) PROVE NestedLock(t) \in Locks
    <2>1. NextAccess(t).gate \in Locks
      BY <1>2, AccessTyped DEF AtNested, Accesses
    <2> QED BY <2>1, ProgramAssumption DEF NestedLock, GateLock, NextAccess
  <1>3. ASSUME PastNested(t) PROVE NestedLockOut(t) \in Locks
    <2>1. Section(t).body[acc[t] - 1] \in Accesses
      BY <1>1, <1>3 DEF PastNested
    <2>2. Section(t).body[acc[t] - 1].gate \in Locks
      BY <1>3, <2>1 DEF PastNested, Accesses
    <2> QED BY <2>2, ProgramAssumption DEF NestedLockOut, GateLock
  <1> QED BY <1>2, <1>3

\* A thread that goes on in its section: where everyone is afterwards.
LEMMA GoToMoves ==
  ASSUME TypeOK, NEW t \in Threads, NEW place, GoTo(t, place)
  PROVE  /\ pc'[t] = place
         /\ \A u \in Threads : u # t => pc'[u] = pc[u]
         /\ sec' = sec /\ acc' = acc /\ program' = program /\ mode' = mode
  BY DEF GoTo, TypeOK, ProgramTypeOK

\* A thread that is done with its section: where everyone is afterwards.
LEMMA NextSectionMoves ==
  ASSUME TypeOK, NEW t \in Threads, NextSection(t)
  PROVE  /\ pc'[t] = "run"
         /\ \A u \in Threads : u # t => /\ pc'[u] = pc[u]
                                       /\ sec'[u] = sec[u]
                                       /\ acc'[u] = acc[u]
         /\ program' = program /\ mode' = mode
  BY DEF NextSection, TypeOK, ProgramTypeOK

\* A thread that begins to count a nested gate.
LEMMA CountSets ==
  ASSUME TypeOK, NEW t \in Threads, NEW by, NEW after, Count(t, by, after)
  PROVE  /\ counting'[t].by = by /\ counting'[t].after = after
         /\ \A u \in Threads : u # t => counting'[u] = counting[u]
         /\ GoTo(t, "load")
         /\ UNCHANGED <<record_locks, current_tid, nest_num, file, recorded, replayVars>>
  BY DEF Count, TypeOK

\* A thread that has not moved in its section finds the same section.
LEMMA SectionKept ==
  ASSUME NEW t \in Threads, program' = program, sec'[t] = sec[t], acc'[t] = acc[t]
  PROVE  /\ HasSection(t)' = HasSection(t)
         /\ Ungated(t)' = Ungated(t)
         /\ HasAccess(t)' = HasAccess(t)
         /\ AtNested(t)' = AtNested(t)
         /\ PastNested(t)' = PastNested(t)
         /\ MultiClock' = MultiClock /\ OneLocked' = OneLocked
  BY DEF HasSection, Ungated, HasAccess, AtNested, PastNested, NextAccess, Section,
     Program, MultiClock, OneLocked

\* A thread is left where it is.
Stays(t) ==
  /\ program' = program /\ mode' = mode
  /\ pc'[t] = pc[t] /\ sec'[t] = sec[t] /\ acc'[t] = acc[t]
  /\ counting'[t] = counting[t]

\* A thread that is left alone is still where it can be.
LEMMA PlaceStays ==
  ASSUME NEW t \in Threads, Stays(t), PlaceInv(t)
  PROVE  PlaceInv(t)'
  BY SectionKept DEF Stays, PlaceInv, Counts

\* A thread that is left alone still holds, or does not hold, the gate.
LEMMA HoldsStays ==
  ASSUME NEW t \in Threads, Stays(t)
  PROVE  Holds(t)' = Holds(t) /\ Depth(t)' = Depth(t) /\ Ungated(t)' = Ungated(t)
         /\ Ordered' = Ordered
  BY SectionKept DEF Stays, Holds, Inside, InSection, Depth, Ordered

\* What a step of another thread must leave alone.
LEMMA OtherUnchanged ==
  ASSUME NEW u \in Threads, Stays(u), ThreadInv(u),
         UNCHANGED <<record_locks, current_tid, nest_num, replay_thread_num>>
  PROVE  ThreadInv(u)'
  BY HoldsStays DEF ThreadInv, Stays, Owner, Counts

\* A thread that holds nothing is free of the shared state but current_tid.
LEMMA OtherFree ==
  ASSUME NEW u \in Threads, Stays(u), ThreadInv(u), ~Holds(u), current_tid' # u
  PROVE  ThreadInv(u)'
  <1>1. pc[u] \notin {"load", "store"}
    BY DEF ThreadInv, Holds, Inside
  <1> QED BY <1>1, HoldsStays DEF ThreadInv, Stays

\* Every step of a thread leaves the other threads where they are.
LEMMA StepStays ==
  ASSUME TypeOK, NEW t \in Threads, Step(t), NEW u \in Threads, u # t
  PROVE  Stays(u)
  <1> USE DEF Stays
  <1>1. CASE SkipGateIn(t)
    BY <1>1, GoToMoves DEF SkipGateIn, gateVars
  <1>2. CASE GateIn(t)
    BY <1>2, GoToMoves, CountSets DEF GateIn, gateVars
  <1>3. CASE Lock(t) \/ TestLock(t) \/ NestedSetLock(t)
    BY <1>3, GoToMoves DEF Lock, TestLock, NestedSetLock
  <1>4. CASE Turn(t)
    BY <1>4, GoToMoves DEF Turn
  <1>5. CASE NestedIn(t)
    BY <1>5, GoToMoves, CountSets DEF NestedIn, gateVars
  <1>6. CASE ProgramStep(t)
    BY <1>6 DEF ProgramStep, Access, gateVars, TypeOK, ProgramTypeOK
  <1>7. CASE NestedOut(t)
    BY <1>7, GoToMoves, CountSets DEF NestedOut
  <1>8. CASE GateOut(t)
    BY <1>8, NextSectionMoves, CountSets, GoToMoves DEF GateOut, gateVars
  <1>9. CASE LoadCount(t)
    BY <1>9, GoToMoves DEF LoadCount, TypeOK
  <1>10. CASE StoreCount(t)
    <2>1. counting' = counting
      BY <1>10 DEF StoreCount
    <2> QED BY <1>10, <2>1, GoToMoves, NextSectionMoves DEF StoreCount
  <1> QED BY <1>1, <1>2, <1>3, <1>4, <1>5, <1>6, <1>7, <1>8, <1>9, <1>10 DEF Step

-------------------------------------------------------------------------------
\* Where a thread is after a step of its own.

\* A step leaves its thread where a thread can be.
LEMMA PlaceStep ==
  ASSUME TypeOK, NEW t \in Threads, PlaceInv(t), Step(t)
  PROVE  PlaceInv(t)'
  <1>1. CASE SkipGateIn(t)
    BY <1>1, GoToMoves, SectionKept DEF SkipGateIn, AtGateIn, PlaceInv, Counts
  <1>2. CASE GateIn(t)
    <2>1. HasSection(t) /\ ~Ungated(t)
      BY <1>2 DEF GateIn, AtGateIn
    <2>2. CASE Count(t, 1, "body")
      BY <2>1, <2>2, CountSets, GoToMoves, SectionKept DEF PlaceInv, Counts
    <2>3. CASE GoTo(t, "lock")
      BY <2>1, <2>3, GoToMoves, SectionKept DEF PlaceInv, Counts
    <2> QED BY <1>2, <2>2, <2>3 DEF GateIn
  <1>3. CASE Lock(t)
    BY <1>3, GoToMoves, SectionKept DEF Lock, PlaceInv, Counts
  <1>4. CASE Turn(t)
    <2>1. GoTo(t, "body") \/ GoTo(t, "test")
      BY <1>4 DEF Turn
    <2> QED BY <1>4, <2>1, GoToMoves, SectionKept DEF Turn, PlaceInv, Counts
  <1>5. CASE TestLock(t)
    BY <1>5, GoToMoves, SectionKept DEF TestLock, PlaceInv, Counts
  <1>6. CASE NestedIn(t)
    <2>1. HasSection(t) /\ AtNested(t)
      BY <1>6 DEF NestedIn, AtNestedIn, AtNested, PlaceInv
    <2>2. CASE Count(t, 1, "nested")
      BY <2>1, <2>2, CountSets, GoToMoves, SectionKept DEF PlaceInv, Counts
    <2>3. CASE GoTo(t, "nestlock") /\ mode = "record"
      BY <2>1, <2>3, GoToMoves, SectionKept DEF PlaceInv, Counts
    <2> QED BY <1>6, <2>2, <2>3 DEF NestedIn
  <1>7. CASE NestedSetLock(t)
    BY <1>7, GoToMoves, SectionKept DEF NestedSetLock, PlaceInv, Counts
  <1>8. CASE ProgramStep(t)
    <2>1. /\ HasSection(t) /\ HasAccess(t)
          /\ program' = program /\ sec'[t] = sec[t] /\ acc'[t] = acc[t] + 1
          /\ pc'[t] = IF NextAccess(t).gate = NoLock THEN "body" ELSE "nestout"
      BY <1>8 DEF ProgramStep, Access, InSection, PlaceInv, TypeOK, ProgramTypeOK
    <2>2. Section(t)' = Section(t) /\ HasSection(t)' = HasSection(t)
      BY <2>1 DEF Section, HasSection, Program
    <2>3. acc[t] \in 1..Len(Section(t).body)
      BY <2>1, SectionTyped DEF HasAccess, TypeOK, ProgramTypeOK
    <2>4. acc'[t] - 1 = acc[t]
      BY <2>1, <2>3
    <2>5. pc'[t] = "nestout" => PastNested(t)'
      BY <2>1, <2>2, <2>3, <2>4 DEF PastNested, NextAccess
    <2> QED BY <2>1, <2>2, <2>5 DEF PlaceInv
  <1>9. CASE NestedOut(t)
    <2>1. HasSection(t)
      BY <1>9 DEF NestedOut, PlaceInv
    <2>2. CASE Count(t, -1, "body")
      BY <2>1, <2>2, CountSets, GoToMoves, SectionKept DEF PlaceInv, Counts
    <2>3. CASE GoTo(t, "body")
      BY <2>1, <2>3, GoToMoves, SectionKept DEF PlaceInv, Counts
    <2> QED BY <1>9, <2>2, <2>3 DEF NestedOut
  <1>10. CASE GateOut(t)
    <2>1. HasSection(t)
      BY <1>10 DEF GateOut, AtGateOut, PlaceInv
    <2>2. CASE Count(t, -1, "run")
      BY <2>1, <2>2, CountSets, GoToMoves, SectionKept DEF PlaceInv, Counts
    <2>3. CASE NextSection(t)
      BY <2>3, NextSectionMoves DEF PlaceInv
    <2> QED BY <1>10, <2>2, <2>3 DEF GateOut
  <1>11. CASE LoadCount(t)
    <2>1. counting'[t].by = counting[t].by /\ counting'[t].after = counting[t].after
      BY <1>11 DEF LoadCount, TypeOK
    <2> QED BY <1>11, <2>1, GoToMoves, SectionKept DEF LoadCount, PlaceInv, Counts
  <1>12. CASE StoreCount(t)
    <2>1. CASE counting[t].after = "run"
      BY <1>12, <2>1, NextSectionMoves DEF StoreCount, PlaceInv
    <2>2. CASE counting[t].after # "run"
      <3>1. GoTo(t, counting[t].after) /\ pc[t] = "store"
        BY <1>12, <2>2 DEF StoreCount
      <3>2. \/ counting[t].after = "nested" /\ AtNested(t)
            \/ counting[t].after = "body"
        BY <2>2, <3>1 DEF PlaceInv, Counts
      <3> QED BY <3>1, <3>2, GoToMoves, SectionKept DEF PlaceInv
    <2> QED BY <2>1, <2>2
  <1> QED BY <1>1, <1>2, <1>3, <1>4, <1>5, <1>6, <1>7, <1>8, <1>9, <1>10, <1>11, <1>12
          DEF Step

-------------------------------------------------------------------------------
\* Types.

\* The counter does not go below 0 where it has to stay a natural number.
LEMMA CountTyped ==
  ASSUME TypeOK, Serial, NEW t \in Threads, StoreCount(t)
  PROVE  nest_num' \in Int /\ (OneLocked => nest_num' \in Nat)
  <1>1. /\ nest_num' = counting[t].loaded + counting[t].by
        /\ counting[t].loaded \in Int /\ counting[t].by \in {-1, 0, 1}
        /\ pc[t] = "store"
    BY DEF StoreCount, TypeOK
  <1>2. CASE ~OneLocked
    BY <1>1, <1>2
  <1>3. CASE OneLocked
    <2>1. ThreadInv(t) /\ nest_num \in Nat
      BY <1>3 DEF Serial, Ordered, TypeOK
    <2>2. counting[t].loaded = nest_num /\ ~Ungated(t)
          /\ (counting[t].by = -1 => counting[t].after = "body")
      BY <1>1, <2>1 DEF ThreadInv, Counts
    <2>3. Holds(t)
      BY <1>1, <2>2 DEF Holds, Inside
    <2>4. nest_num = Depth(t)
      BY <2>1, <2>3 DEF ThreadInv
    <2>5. counting[t].by = -1 => nest_num = 1
      BY <1>1, <2>2, <2>4 DEF Depth
    <2> QED BY <1>1, <1>3, <2>1, <2>2, <2>5
  <1> QED BY <1>2, <1>3

\* The moves of a thread keep the state of the program well typed.
LEMMA PlacesTyped ==
  ASSUME TypeOK, NEW t \in Threads, NEW place \in Places
  PROVE  /\ GoTo(t, place) => ProgramTypeOK'
         /\ NextSection(t) => ProgramTypeOK'
  <1>1. ASSUME GoTo(t, place) PROVE ProgramTypeOK'
    BY <1>1 DEF GoTo, TypeOK, ProgramTypeOK
  <1>2. ASSUME NextSection(t) PROVE ProgramTypeOK'
    <2>1. pc' \in [Threads -> Places]
      BY <1>2 DEF NextSection, TypeOK, ProgramTypeOK, Places
    <2>2. sec \in [Threads -> Nat \ {0}] /\ acc \in [Threads -> Nat \ {0}]
      BY DEF TypeOK, ProgramTypeOK
    <2>3. sec' \in [Threads -> Nat \ {0}]
      BY <1>2, <2>2 DEF NextSection
    <2>4. acc' \in [Threads -> Nat \ {0}]
      BY <1>2, <2>2 DEF NextSection
    <2> QED BY <1>2, <2>1, <2>3, <2>4 DEF NextSection, TypeOK, ProgramTypeOK
  <1> QED BY <1>1, <1>2

\* What has to be shown of a step that leaves the program's own state well typed.
GateTypeOK ==
  /\ record_locks \in [MadeLocks -> Threads \cup {NoThread}]
  /\ current_tid \in Threads \cup {NoThread}
  /\ counting \in [Threads -> [by : {-1, 0, 1}, loaded : Int, after : Places]]
  /\ file \in Seq(Threads)
  /\ pos \in 0..Len(file)
  /\ replay_thread_num \in Threads \cup {NoThread}
  /\ file_read_locked \in BOOLEAN
  /\ recorded \in Seq(Threads \X Nat)

CountTypeOK == nest_num \in Int /\ (OneLocked => nest_num \in Nat)

\* The types fall into those of the program, of the gate, and of nest_num.
LEMMA TypeParts == TypeOK <=> ProgramTypeOK /\ GateTypeOK /\ CountTypeOK
  <1>1. nest_num \in (IF OneLocked THEN Nat ELSE Int)
        <=> nest_num \in Int /\ (OneLocked => nest_num \in Nat)
    <2>1. CASE ~OneLocked
      BY <2>1
    <2>2. CASE OneLocked
      BY <2>2
    <2> QED BY <2>1, <2>2
  <1> HIDE DEF OneLocked
  <1> QED BY <1>1 DEF TypeOK, GateTypeOK, CountTypeOK

\* nest_num stays well typed when it does not change.
LEMMA CountTypeKept ==
  ASSUME TypeOK, program' = program, nest_num' = nest_num
  PROVE  CountTypeOK'
  <1>1. OneLocked' = OneLocked
    BY DEF OneLocked, MultiClock
  <1>2. CountTypeOK
    BY TypeParts
  <1> QED BY <1>1, <1>2 DEF CountTypeOK

\* Enough for a step that does not write nest_num.
LEMMA TypeFromParts ==
  ASSUME TypeOK, program' = program, nest_num' = nest_num, ProgramTypeOK', GateTypeOK'
  PROVE  TypeOK'
  <1>1. CountTypeOK'
    BY CountTypeKept
  <1> QED BY <1>1, TypeParts, PTL

\* Beginning to count keeps the types.
LEMMA CountKeepsTypes ==
  ASSUME TypeOK, NEW t \in Threads, NEW by \in {-1, 0, 1}, NEW after \in Places,
         Count(t, by, after)
  PROVE  TypeOK'
  <1>1. counting' \in [Threads -> [by : {-1, 0, 1}, loaded : Int, after : Places]]
    BY DEF Count, TypeOK
  <1>2. ProgramTypeOK' /\ program' = program
    BY PlacesTyped, CountSets, GoToMoves DEF Places
  <1>3. GateTypeOK' /\ nest_num' = nest_num
    BY TypeParts, <1>1, <1>2 DEF Count, GateTypeOK, replayVars
  <1> QED BY <1>2, <1>3, TypeFromParts

\* Leaving a gate keeps the types.
LEMMA LeaveKeepsTypes ==
  ASSUME TypeOK, NEW t \in Threads, NEW l \in Locks, Leave(t, l), ProgramTypeOK',
         program' = program, UNCHANGED <<nest_num, counting, pos>>
  PROVE  TypeOK'
  <1>2. CASE mode = "record"
    <2>1. /\ record_locks' \in [MadeLocks -> Threads \cup {NoThread}]
          /\ file' = Append(file, t) /\ file \in Seq(Threads)
      BY <1>2 DEF Leave, LeaveRecord, Locked, TypeOK
    <2>2. file' \in Seq(Threads) /\ pos' \in 0..Len(file')
      BY <2>1 DEF TypeOK
    <2>3. recorded' \in Seq(Threads \X Nat)
      <3>1. recorded' = Append(recorded, <<t, sec[t]>>)
        BY <1>2 DEF Leave, LeaveRecord
      <3> QED BY <3>1 DEF TypeOK, ProgramTypeOK
    <2>4. GateTypeOK' /\ nest_num' = nest_num
      BY TypeParts, <1>2, <2>1, <2>2, <2>3 DEF Leave, GateTypeOK
    <2> QED BY <2>4, TypeFromParts
  <1>3. CASE mode # "record"
    <2>1. GateTypeOK' /\ nest_num' = nest_num
      BY TypeParts, <1>3 DEF Leave, LeaveReplay, GateTypeOK
    <2> QED BY <2>1, TypeFromParts
  <1> QED BY <1>2, <1>3

\* Taking a lock keeps the types.
LEMMA SetLockTyped ==
  ASSUME TypeOK, NEW t \in Threads, NEW l \in Locks, NEW place \in Places,
         SetLock(t, l), GoTo(t, place), UNCHANGED <<nest_num, counting, file, recorded, replayVars>>
  PROVE  TypeOK'
  <1>1. ProgramTypeOK' /\ program' = program
    BY PlacesTyped, GoToMoves
  <1>2. record_locks' \in [MadeLocks -> Threads \cup {NoThread}] /\ current_tid' = t
    BY DEF SetLock, Locked, TypeOK
  <1>3. GateTypeOK' /\ nest_num' = nest_num
    BY TypeParts, <1>1, <1>2 DEF GateTypeOK, replayVars
  <1> QED BY <1>1, <1>3, TypeFromParts

\* So does moving only.
LEMMA GoToKeepsTypes ==
  ASSUME TypeOK, NEW t \in Threads, NEW place \in Places, GoTo(t, place), UNCHANGED gateVars
  PROVE  TypeOK'
  <1>1. ProgramTypeOK' /\ program' = program
    BY PlacesTyped, GoToMoves
  <1>2. GateTypeOK' /\ nest_num' = nest_num
    BY TypeParts, <1>1 DEF GateTypeOK, gateVars
  <1> QED BY <1>1, <1>2, TypeFromParts

\* Every step keeps the state well typed.
LEMMA TypeStep ==
  ASSUME TypeOK, Serial, NEW t \in Threads, PlaceInv(t), Step(t)
  PROVE  TypeOK'
  <1>0. {"run", "body", "nested", "lock", "test", "nestlock", "load", "store"} \subseteq Places
    BY DEF Places
  <1>1. CASE SkipGateIn(t)
    BY <1>0, <1>1, GoToKeepsTypes DEF SkipGateIn
  <1>2. CASE GateIn(t)
    BY <1>0, <1>2, GoToKeepsTypes, CountKeepsTypes DEF GateIn
  <1>3. CASE Lock(t)
    <2>1. LockOf(t) \in Locks
      BY <1>3, SectionTyped DEF Lock, PlaceInv
    <2> QED BY <1>0, <1>3, <2>1, SetLockTyped DEF Lock
  <1>4. CASE Turn(t)
    <2>1. GoTo(t, "body") \/ GoTo(t, "test")
      BY <1>4 DEF Turn
    <2>2. ProgramTypeOK' /\ program' = program
      BY <1>0, <2>1, PlacesTyped, GoToMoves
    <2>3. current_tid' \in Threads \cup {NoThread}
      BY <1>4 DEF Turn, TypeOK
    <2>4. GateTypeOK' /\ nest_num' = nest_num
      BY TypeParts, <1>4, <2>2, <2>3 DEF Turn, GateTypeOK, replayVars
    <2> QED BY <2>2, <2>4, TypeFromParts
  <1>5. CASE TestLock(t)
    <2>1. ProgramTypeOK' /\ program' = program
      BY <1>0, <1>5, PlacesTyped, GoToMoves DEF TestLock
    <2>2. /\ pos' \in 0..Len(file)
          /\ replay_thread_num' \in Threads \cup {NoThread}
          /\ file_read_locked' \in BOOLEAN
      <3>1. CASE file_read_locked
        BY <1>5, <3>1 DEF TestLock, TypeOK, replayVars
      <3>2. CASE ~file_read_locked
        <4>1. pos \in Nat /\ pos < Len(file) /\ file \in Seq(Threads)
          BY <1>5, <3>2 DEF TestLock, TypeOK
        <4>2. file[pos + 1] \in Threads
          BY <4>1
        <4> QED BY <1>5, <3>2, <4>1, <4>2 DEF TestLock
      <3> QED BY <3>1, <3>2
    <2>3. GateTypeOK' /\ nest_num' = nest_num
      BY TypeParts, <1>5, <2>1, <2>2 DEF TestLock, GateTypeOK
    <2> QED BY <2>1, <2>3, TypeFromParts
  <1>6. CASE NestedIn(t)
    BY <1>0, <1>6, GoToKeepsTypes, CountKeepsTypes DEF NestedIn
  <1>7. CASE NestedSetLock(t)
    <2>1. NestedLock(t) \in Locks
      BY <1>7, NestedLocksTyped DEF NestedSetLock, PlaceInv
    <2> QED BY <1>0, <1>7, <2>1, SetLockTyped DEF NestedSetLock
  <1>8. CASE ProgramStep(t)
    <2>1. NextAccess(t) \in Accesses
      BY <1>8, AccessTyped DEF ProgramStep, Access, InSection, PlaceInv
    <2>2. NextAccess(t).var \in Vars
      BY <2>1 DEF Accesses
    <2>3. <<t, sec[t], acc[t]>> \in Values /\ mem[NextAccess(t).var] \in Values
      BY <2>2 DEF Values, TypeOK, ProgramTypeOK
    <2>4. mem' \in [Vars -> Values]
      BY <1>8, <2>3 DEF ProgramStep, Access, TypeOK, ProgramTypeOK
    <2>5. log' \in [Threads -> Seq(Values)]
      BY <1>8, <2>3 DEF ProgramStep, Access, TypeOK, ProgramTypeOK
    <2>6. pc' \in [Threads -> Places] /\ acc' \in [Threads -> Nat \ {0}]
      <3>1. pc \in [Threads -> Places] /\ acc \in [Threads -> Nat \ {0}]
        BY DEF TypeOK, ProgramTypeOK
      <3>2. pc' \in [Threads -> Places]
        BY <1>8, <3>1 DEF ProgramStep, Access, Places
      <3>3. acc' \in [Threads -> Nat \ {0}]
        BY <1>8, <3>1 DEF ProgramStep, Access
      <3> QED BY <3>2, <3>3
    <2>7. program' = program
      BY <1>8 DEF ProgramStep, Access
    <2>8. ProgramTypeOK'
      BY <1>8, <2>4, <2>5, <2>6 DEF ProgramStep, Access, TypeOK, ProgramTypeOK
    <2>9. UNCHANGED gateVars
      BY <1>8 DEF ProgramStep
    <2>10. GateTypeOK' /\ nest_num' = nest_num
      BY TypeParts, <2>9 DEF gateVars, GateTypeOK
    <2> QED BY <2>7, <2>8, <2>10, TypeFromParts
  <1>9. CASE NestedOut(t)
    <2>1. CASE Count(t, -1, "body")
      BY <1>0, <2>1, CountKeepsTypes
    <2>2. CASE ~Count(t, -1, "body")
      <3>1. /\ Leave(t, NestedLockOut(t)) /\ GoTo(t, "body")
            /\ UNCHANGED <<nest_num, counting, pos>>
        BY <1>9, <2>2 DEF NestedOut
      <3>2. NestedLockOut(t) \in Locks
        BY <1>9, NestedLocksTyped DEF NestedOut, PlaceInv
      <3>3. ProgramTypeOK' /\ program' = program
        BY <1>0, <3>1, PlacesTyped, GoToMoves
      <3> QED BY <3>1, <3>2, <3>3, LeaveKeepsTypes
    <2> QED BY <2>1, <2>2
  <1>10. CASE GateOut(t)
    <2>1. CASE Count(t, -1, "run")
      BY <1>0, <2>1, CountKeepsTypes
    <2>2. CASE NextSection(t) /\ UNCHANGED gateVars
      <3>1. ProgramTypeOK' /\ program' = program
        BY <1>0, <2>2, PlacesTyped, NextSectionMoves
      <3>2. GateTypeOK' /\ nest_num' = nest_num
        BY TypeParts, <2>2, <3>1 DEF GateTypeOK, gateVars
      <3> QED BY <3>1, <3>2, TypeFromParts
    <2>3. CASE /\ Leave(t, LockOf(t)) /\ NextSection(t)
               /\ UNCHANGED <<nest_num, counting, pos>>
      <3>1. LockOf(t) \in Locks
        BY <1>10, SectionTyped DEF GateOut, AtGateOut, PlaceInv
      <3>2. ProgramTypeOK' /\ program' = program
        BY <1>0, <2>3, PlacesTyped, NextSectionMoves
      <3> QED BY <2>3, <3>1, <3>2, LeaveKeepsTypes
    <2> QED BY <1>10, <2>1, <2>2, <2>3 DEF GateOut
  <1>11. CASE LoadCount(t)
    <2>1. ProgramTypeOK' /\ program' = program
      BY <1>0, <1>11, PlacesTyped, GoToMoves DEF LoadCount
    <2>2. nest_num \in Int
      BY ProgramTyped DEF TypeOK
    <2>3. counting' \in [Threads -> [by : {-1, 0, 1}, loaded : Int, after : Places]]
      BY <1>11, <2>2 DEF LoadCount, TypeOK
    <2>4. GateTypeOK' /\ nest_num' = nest_num
      BY TypeParts, <1>11, <2>1, <2>3 DEF LoadCount, GateTypeOK, replayVars
    <2> QED BY <2>1, <2>4, TypeFromParts
  <1>12. CASE StoreCount(t)
    <2>1. NextSection(t) \/ GoTo(t, counting[t].after)
      BY <1>12 DEF StoreCount
    <2>2. counting[t].after \in Places
      BY DEF TypeOK
    <2>3. ProgramTypeOK' /\ program' = program
      BY <2>1, <2>2, PlacesTyped, NextSectionMoves, GoToMoves
    <2>4. nest_num' \in Int /\ (OneLocked => nest_num' \in Nat)
      BY <1>12, CountTyped
    <2>5. GateTypeOK'
      BY TypeParts, <1>12 DEF StoreCount, GateTypeOK, replayVars
    <2>6. CountTypeOK'
      <3>1. OneLocked' = OneLocked
        BY <2>3 DEF OneLocked, MultiClock
      <3> QED BY <2>4, <3>1 DEF CountTypeOK
    <2> QED BY <2>3, <2>5, <2>6, TypeParts, PTL
  <1> QED BY <1>1, <1>2, <1>3, <1>4, <1>5, <1>6, <1>7, <1>8, <1>9, <1>10, <1>11, <1>12
          DEF Step

-------------------------------------------------------------------------------
\* One thread at a time.

\* No step of a thread changes the program or the run.
LEMMA StepKeepsRun ==
  ASSUME NEW t \in Threads, Step(t)
  PROVE  program' = program /\ mode' = mode
  BY DEF Step, SkipGateIn, GateIn, Lock, Turn, TestLock, NestedIn, NestedSetLock,
     ProgramStep, NestedOut, GateOut, LoadCount, StoreCount, Count, GoTo, NextSection, Access

\* A step that leaves the shared state alone concerns the thread only.
LEMMA SerialAlone ==
  ASSUME TypeOK, Serial, Ordered, NEW t \in Threads, Step(t),
         UNCHANGED <<record_locks, current_tid, nest_num, replay_thread_num>>,
         ThreadInv(t)'
  PROVE  Serial'
  <1>1. Idle'
    BY DEF Serial, Idle
  <1>2. ASSUME NEW u \in Threads, u # t PROVE ThreadInv(u)'
    BY <1>2, StepStays, OtherUnchanged DEF Serial
  <1> QED BY <1>1, <1>2 DEF Serial

\* A step of the thread that holds the gate, or of one that finds it free.
LEMMA SerialOwned ==
  ASSUME TypeOK, Serial, Ordered, NEW t \in Threads, Step(t),
         \A u \in Threads : u # t => ~Holds(u) /\ current_tid' # u,
         ThreadInv(t)', Idle'
  PROVE  Serial'
  <1>1. ASSUME NEW u \in Threads, u # t PROVE ThreadInv(u)'
    BY <1>1, StepStays, OtherFree DEF Serial
  <1> QED BY <1>1 DEF Serial

\* With one lock a free lock, and in the replay nobody's turn, means that no
\* thread holds the gate.
LEMMA FreeGate ==
  ASSUME TypeOK, Serial, Ordered, NEW t \in Threads, ~Holds(t),
         \A u \in Threads : u # t => ~Owner(u)
  PROVE  /\ \A u \in Threads : ~Holds(u)
         /\ current_tid = NoThread /\ nest_num = 0
  <1>1. \A u \in Threads : ~Holds(u)
    BY DEF Serial, ThreadInv
  <1>2. \A u \in Threads : current_tid # u
    BY <1>1 DEF Serial, ThreadInv
  <1> QED BY <1>1, <1>2 DEF Serial, Idle, TypeOK

\* The thread that holds the gate leaves it.
LEMMA LeaveFrees ==
  ASSUME TypeOK, Serial, Ordered, NEW t \in Threads, NEW l, Step(t), Holds(t),
         Leave(t, l), nest_num' = 0, ThreadInv(t)'
  PROVE  Serial'
  <1>1. current_tid = t /\ current_tid' = NoThread
    BY DEF Serial, ThreadInv, Leave
  <1>2. \A u \in Threads : u # t => ~Holds(u) /\ current_tid' # u
    BY <1>1, NoThreadAssumption DEF Serial, ThreadInv
  <1> QED BY <1>2, SerialOwned DEF Idle

\* A thread enters a gate that nobody holds.
LEMMA EnterSerial ==
  ASSUME TypeOK, Serial, Ordered, NEW t \in Threads, Step(t), ~Holds(t),
         \A u \in Threads : u # t => ~Owner(u),
         current_tid' = t, nest_num' = nest_num, Holds(t)', Owner(t)', Depth(t)' = 0,
         pc'[t] \notin {"nestlock", "load", "store"}
  PROVE  Serial'
  <1>1. (\A u \in Threads : ~Holds(u)) /\ nest_num = 0
    BY FreeGate
  <1>2. ThreadInv(t)'
    BY <1>1 DEF ThreadInv
  <1>3. Idle'
    BY NoThreadAssumption DEF Idle
  <1> QED BY <1>1, <1>2, <1>3, SerialOwned

\* Every step keeps the gate with one thread at a time, where sections exclude each other.
LEMMA SerialStep ==
  ASSUME TypeOK, TurnIsLocked, Serial, NEW t \in Threads, PlaceInv(t), Step(t)
  PROVE  Serial'
  <1> SUFFICES ASSUME Ordered PROVE Serial'
    BY StepKeepsRun DEF Serial, Ordered, OneLocked, MultiClock
  <1>0. /\ ThreadInv(t)
        /\ Ungated(t) \in BOOLEAN
    BY DEF Serial, Ungated
  <1>1. CASE SkipGateIn(t)
    <2>1. pc[t] = "run" /\ Ungated(t) /\ GoTo(t, "body") /\ UNCHANGED gateVars
      BY <1>1 DEF SkipGateIn, AtGateIn
    <2>2. pc'[t] = "body" /\ Ungated(t)'
      BY <2>1, GoToMoves, SectionKept
    <2>3. ~Holds(t)' /\ current_tid # t
      BY <1>0, <2>1, <2>2 DEF ThreadInv, Holds, Inside, InSection
    <2>4. ThreadInv(t)'
      BY <2>1, <2>2, <2>3 DEF ThreadInv, gateVars
    <2> QED BY <2>1, <2>4, SerialAlone DEF gateVars
  <1>2. CASE GateIn(t)
    <2>1. pc[t] = "run" /\ ~Ungated(t)
      BY <1>2 DEF GateIn, AtGateIn
    <2>2. current_tid # t
      BY <1>0, <2>1 DEF ThreadInv, Holds, Inside, InSection
    <2>3. GoTo(t, "lock") /\ UNCHANGED gateVars
      BY <1>2, <2>2 DEF GateIn, Reentry
    <2>4. pc'[t] = "lock"
      BY <2>3, GoToMoves
    <2>5. ThreadInv(t)'
      BY <2>2, <2>3, <2>4 DEF ThreadInv, gateVars, Holds, Inside, InSection
    <2> QED BY <2>3, <2>5, SerialAlone DEF gateVars
  <1>3. CASE Lock(t)
    <2>1. /\ mode = "record" /\ pc[t] = "lock" /\ ~Ungated(t)
          /\ SetLock(t, LockOf(t)) /\ GoTo(t, "body") /\ nest_num' = nest_num
      BY <1>3 DEF Lock, PlaceInv
    <2>2. LockOf(t) = 0 /\ 0 \in MadeLocks
      BY <2>1 DEF Ordered, OneLocked, LockOf, GateLock
    <2>3. pc'[t] = "body" /\ ~Ungated(t)' /\ mode' = "record"
      BY <2>1, GoToMoves, SectionKept
    <2>4. record_locks[0] = NoThread /\ record_locks'[0] = t /\ current_tid' = t
      BY <2>1, <2>2 DEF SetLock, Locked, TypeOK
    <2>5. ~Holds(t) /\ \A u \in Threads : u # t => ~Owner(u)
      BY <2>1, <2>4, NoThreadAssumption DEF Holds, Inside, InSection, Owner
    <2>6. Holds(t)' /\ Owner(t)' /\ Depth(t)' = 0
      BY <2>3, <2>4 DEF Holds, Inside, InSection, Owner, Depth
    <2> QED BY <2>1, <2>3, <2>4, <2>5, <2>6, EnterSerial
  <1>4. CASE Turn(t)
    <2>1. /\ mode = "replay" /\ pc[t] = "lock" /\ ~Ungated(t)
          /\ UNCHANGED <<record_locks, nest_num, replay_thread_num>>
      BY <1>4 DEF Turn, PlaceInv, replayVars
    <2>2. CASE IsTurnOf(t)
      <3>1. current_tid' = t /\ GoTo(t, "body") /\ replay_thread_num = t
        BY <1>4, <2>2 DEF Turn, IsTurnOf
      <3>2. pc'[t] = "body" /\ ~Ungated(t)' /\ mode' = "replay"
        BY <2>1, <3>1, GoToMoves, SectionKept
      <3>3. ~Holds(t) /\ \A u \in Threads : u # t => ~Owner(u)
        BY <2>1, <3>1 DEF Holds, Inside, InSection, Owner
      <3>4. Holds(t)' /\ Owner(t)' /\ Depth(t)' = 0
        BY <2>1, <3>1, <3>2 DEF Holds, Inside, InSection, Owner, Depth
      <3> QED BY <2>1, <3>1, <3>2, <3>3, <3>4, EnterSerial
    <2>3. CASE ~IsTurnOf(t)
      <3>1. GoTo(t, "test") /\ current_tid' = current_tid
        BY <1>4, <2>3 DEF Turn
      <3>2. pc'[t] = "test"
        BY <3>1, GoToMoves
      <3>3. current_tid # t
        BY <1>0, <2>1 DEF ThreadInv, Holds, Inside, InSection
      <3>4. ThreadInv(t)'
        BY <3>1, <3>2, <3>3 DEF ThreadInv, Holds, Inside, InSection
      <3> QED BY <2>1, <3>1, <3>4, SerialAlone
    <2> QED BY <2>2, <2>3
  <1>5. CASE TestLock(t)
    <2>1. /\ mode = "replay" /\ pc[t] = "test" /\ GoTo(t, "lock")
          /\ UNCHANGED <<record_locks, current_tid, nest_num>>
      BY <1>5 DEF TestLock, PlaceInv
    <2>2. pc'[t] = "lock" /\ mode' = "replay"
      BY <2>1, GoToMoves
    <2>3. current_tid # t
      BY <1>0, <2>1 DEF ThreadInv, Holds, Inside, InSection
    <2>4. ThreadInv(t)'
      BY <2>1, <2>2, <2>3 DEF ThreadInv, Holds, Inside, InSection
    <2>5. CASE file_read_locked
      BY <1>5, <2>1, <2>4, <2>5, SerialAlone DEF TestLock, replayVars
    <2>6. CASE ~file_read_locked
      <3>1. ~Holds(t) /\ \A u \in Threads : u # t => ~Owner(u)
        BY <2>1, <2>6, NoThreadAssumption DEF TurnIsLocked, Holds, Inside, InSection, Owner
      <3>2. (\A u \in Threads : ~Holds(u)) /\ current_tid = NoThread /\ nest_num = 0
        BY <3>1, FreeGate
      <3> QED BY <2>1, <2>4, <3>2, NoThreadAssumption, SerialOwned DEF Idle
    <2> QED BY <2>5, <2>6
  <1>6. CASE NestedIn(t)
    <2>1. pc[t] = "body"
      BY <1>6 DEF NestedIn, AtNestedIn
    <2>2. CASE Reentry(t)
      <3>1. current_tid = t /\ Count(t, 1, "nested")
        BY <1>6, <2>2 DEF NestedIn, Reentry
      <3>2. Holds(t) /\ Owner(t) /\ ~Ungated(t) /\ nest_num = 0
        BY <1>0, <2>1, <3>1 DEF ThreadInv, Holds, Inside, InSection, Depth
      <3>3. /\ pc'[t] = "load" /\ Counts(t, 1, "nested")' /\ mode' = mode
            /\ UNCHANGED <<record_locks, current_tid, nest_num, replay_thread_num>>
        BY <3>1, CountSets, GoToMoves DEF Counts, replayVars
      <3>4. ~Ungated(t)'
        BY <3>1, <3>2, CountSets, GoToMoves, SectionKept
      <3>5. Depth(t)' = 0 /\ Holds(t)' /\ Owner(t)'
        BY <3>2, <3>3, <3>4 DEF Depth, Counts, Holds, Inside, Owner
      <3>6. ThreadInv(t)'
        BY <3>1, <3>2, <3>3, <3>4, <3>5 DEF ThreadInv
      <3> QED BY <3>3, <3>6, SerialAlone
    <2>3. CASE ~Reentry(t)
      <3>1. current_tid # t /\ GoTo(t, "nestlock") /\ UNCHANGED gateVars
        BY <1>6, <2>3 DEF NestedIn, Reentry
      <3>2. Ungated(t)
        BY <1>0, <2>1, <3>1 DEF ThreadInv, Holds, Inside, InSection
      <3>3. pc'[t] = "nestlock" /\ Ungated(t)'
        BY <3>1, <3>2, GoToMoves, SectionKept
      <3>4. ThreadInv(t)'
        BY <3>1, <3>3 DEF ThreadInv, Holds, Inside, gateVars
      <3> QED BY <3>1, <3>4, SerialAlone DEF gateVars
    <2> QED BY <2>2, <2>3
  <1>7. CASE NestedSetLock(t)
    <2>1. /\ mode = "record" /\ pc[t] = "nestlock" /\ Ungated(t)
          /\ SetLock(t, NestedLock(t)) /\ GoTo(t, "nested") /\ nest_num' = nest_num
      BY <1>0, <1>7 DEF NestedSetLock, PlaceInv, ThreadInv
    <2>2. NestedLock(t) = 0 /\ 0 \in MadeLocks
      BY <2>1 DEF Ordered, OneLocked, NestedLock, GateLock
    <2>3. pc'[t] = "nested" /\ Ungated(t)' /\ mode' = "record"
      BY <2>1, GoToMoves, SectionKept
    <2>4. record_locks[0] = NoThread /\ record_locks'[0] = t /\ current_tid' = t
      BY <2>1, <2>2 DEF SetLock, Locked, TypeOK
    <2>5. ~Holds(t) /\ \A u \in Threads : u # t => ~Owner(u)
      BY <2>1, <2>4, NoThreadAssumption DEF Holds, Inside, InSection, Owner
    <2>6. Holds(t)' /\ Owner(t)' /\ Depth(t)' = 0
      BY <2>3, <2>4 DEF Holds, Inside, InSection, Owner, Depth
    <2> QED BY <2>1, <2>3, <2>4, <2>5, <2>6, EnterSerial
  <1>8. CASE ProgramStep(t)
    <2>1. /\ UNCHANGED gateVars /\ HasAccess(t)
          /\ program' = program /\ mode' = mode /\ sec'[t] = sec[t]
          /\ \/ pc[t] = "body" /\ pc'[t] = "body"
             \/ pc[t] = "nested" /\ pc'[t] = "nestout"
      BY <1>8 DEF ProgramStep, Access, TypeOK, ProgramTypeOK
    <2>2. Ungated(t)' = Ungated(t)
      BY <2>1 DEF Ungated, Section, Program
    <2>3. Holds(t)' = Holds(t) /\ Depth(t)' = Depth(t)
      BY <1>0, <2>1, <2>2 DEF Holds, Inside, InSection, Depth
    <2>4. ThreadInv(t)'
      BY <1>0, <2>1, <2>3 DEF ThreadInv, Owner, gateVars
    <2> QED BY <2>1, <2>4, SerialAlone DEF gateVars
  <1>9. CASE NestedOut(t)
    <2>1. pc[t] = "nestout" /\ Holds(t)
      BY <1>9 DEF NestedOut, Holds, Inside, InSection
    <2>2. Owner(t) /\ current_tid = t /\ nest_num = Depth(t)
      BY <1>0, <2>1 DEF ThreadInv
    <2>3. CASE Nested
      <3>1. Count(t, -1, "body") /\ ~Ungated(t) /\ nest_num = 1
        BY <1>9, <2>2, <2>3 DEF NestedOut, Nested, Depth
      <3>2. /\ pc'[t] = "load" /\ Counts(t, -1, "body")' /\ mode' = mode
            /\ UNCHANGED <<record_locks, current_tid, nest_num, replay_thread_num>>
        BY <3>1, CountSets, GoToMoves DEF Counts, replayVars
      <3>3. ~Ungated(t)'
        BY <3>1, CountSets, GoToMoves, SectionKept
      <3>4. Depth(t)' = 1 /\ Holds(t)' /\ Owner(t)'
        BY <2>2, <3>2, <3>3 DEF Depth, Counts, Holds, Inside, Owner
      <3>5. ThreadInv(t)'
        BY <2>2, <3>1, <3>2, <3>3, <3>4 DEF ThreadInv
      <3> QED BY <3>2, <3>5, SerialAlone
    <2>4. CASE ~Nested
      <3>1. /\ Leave(t, NestedLockOut(t)) /\ GoTo(t, "body") /\ nest_num' = nest_num
            /\ nest_num = 0
        BY <1>9, <2>4 DEF NestedOut, Nested
      <3>2. Ungated(t)
        BY <2>1, <2>2, <3>1 DEF Depth
      <3>3. pc'[t] = "body" /\ Ungated(t)' /\ current_tid' = NoThread
        BY <3>1, <3>2, GoToMoves, SectionKept DEF Leave
      <3>4. ThreadInv(t)'
        BY <3>3, NoThreadAssumption DEF ThreadInv, Holds, Inside
      <3> QED BY <2>1, <3>1, <3>4, LeaveFrees
    <2> QED BY <2>3, <2>4
  <1>10. CASE GateOut(t)
    <2>1. pc[t] = "body"
      BY <1>10 DEF GateOut, AtGateOut
    <2>2. CASE Ungated(t)
      <3>1. NextSection(t) /\ UNCHANGED gateVars
        BY <1>10, <2>2 DEF GateOut
      <3>2. pc'[t] = "run"
        BY <3>1, NextSectionMoves
      <3>3. current_tid # t
        BY <1>0, <2>1, <2>2 DEF ThreadInv, Holds, Inside
      <3>4. ThreadInv(t)'
        BY <3>1, <3>2, <3>3 DEF ThreadInv, Holds, Inside, InSection, gateVars
      <3> QED BY <3>1, <3>4, SerialAlone DEF gateVars
    <2>3. CASE ~Ungated(t)
      <3>1. Holds(t)
        BY <2>1, <2>3 DEF Holds, Inside, InSection
      <3>2. nest_num = 0
        BY <1>0, <2>1, <3>1 DEF ThreadInv, Depth
      <3>3. Leave(t, LockOf(t)) /\ NextSection(t) /\ nest_num' = nest_num
        BY <1>10, <2>3, <3>2 DEF GateOut, Nested
      <3>4. pc'[t] = "run" /\ current_tid' = NoThread
        BY <3>3, NextSectionMoves DEF Leave
      <3>5. ThreadInv(t)'
        BY <3>4, NoThreadAssumption DEF ThreadInv, Holds, Inside, InSection
      <3> QED BY <3>1, <3>2, <3>3, <3>5, LeaveFrees
    <2> QED BY <2>2, <2>3
  <1>11. CASE LoadCount(t)
    <2>1. /\ pc[t] = "load" /\ GoTo(t, "store")
          /\ UNCHANGED <<record_locks, current_tid, nest_num, replay_thread_num>>
          /\ counting'[t].by = counting[t].by /\ counting'[t].after = counting[t].after
          /\ counting'[t].loaded = nest_num
      BY <1>11 DEF LoadCount, TypeOK, replayVars
    <2>2. pc'[t] = "store" /\ mode' = mode /\ Ungated(t)' = Ungated(t)
      BY <2>1, GoToMoves, SectionKept
    <2>3. /\ ~Ungated(t) /\ (Counts(t, 1, "nested") \/ Counts(t, -1, "body"))
      BY <1>0, <2>1 DEF ThreadInv
    <2>4. Holds(t) /\ Holds(t)'
      BY <2>1, <2>2, <2>3 DEF Holds, Inside
    <2>5. Depth(t)' = Depth(t) /\ Owner(t)' = Owner(t)
      BY <2>1, <2>2, <2>3 DEF Depth, Owner
    <2>6. Counts(t, 1, "nested")' \/ Counts(t, -1, "body")'
      BY <2>1, <2>3 DEF Counts
    <2>7. Owner(t) /\ current_tid = t /\ nest_num = Depth(t)
      BY <1>0, <2>4 DEF ThreadInv
    <2>8. ThreadInv(t)'
      BY <2>1, <2>2, <2>3, <2>4, <2>5, <2>6, <2>7 DEF ThreadInv
    <2> QED BY <2>1, <2>8, SerialAlone
  <1>12. CASE StoreCount(t)
    <2>1. /\ pc[t] = "store" /\ nest_num' = counting[t].loaded + counting[t].by
          /\ UNCHANGED <<record_locks, current_tid, counting, replay_thread_num>>
      BY <1>12 DEF StoreCount, replayVars
    <2>2. /\ ~Ungated(t) /\ (Counts(t, 1, "nested") \/ Counts(t, -1, "body"))
          /\ counting[t].loaded = nest_num
      BY <1>0, <2>1 DEF ThreadInv
    <2>3. Holds(t)
      BY <2>1, <2>2 DEF Holds, Inside
    <2>4. Owner(t) /\ current_tid = t /\ nest_num = Depth(t)
      BY <1>0, <2>3 DEF ThreadInv
    <2>5. GoTo(t, counting[t].after)
      BY <1>12, <2>2 DEF StoreCount, Counts
    <2>6. pc'[t] = counting[t].after /\ mode' = mode /\ Ungated(t)' = Ungated(t)
      BY <2>5, GoToMoves, SectionKept
    <2>7. Owner(t)' /\ current_tid' = t
      BY <2>1, <2>4, <2>6 DEF Owner
    <2>8. pc'[t] \in {"nested", "body"} /\ Holds(t)'
      BY <2>2, <2>6 DEF Counts, Holds, Inside, InSection
    <2>9. nest_num' = Depth(t)'
      <3>1. CASE Counts(t, 1, "nested")
        <4>1. nest_num' = 1
          BY <2>1, <2>2, <2>4, <3>1 DEF Depth, Counts
        <4> QED BY <2>2, <2>6, <3>1, <4>1 DEF Depth, Counts
      <3>2. CASE Counts(t, -1, "body")
        <4>1. nest_num' = 0
          BY <2>1, <2>2, <2>4, <3>2 DEF Depth, Counts
        <4> QED BY <2>6, <3>2, <4>1 DEF Depth, Counts
      <3> QED BY <2>2, <3>1, <3>2
    <2>10. ThreadInv(t)'
      BY <2>7, <2>8, <2>9 DEF ThreadInv
    <2>11. \A u \in Threads : u # t => ~Holds(u) /\ current_tid' # u
      BY <2>4, <2>7 DEF Serial, ThreadInv
    <2>12. Idle'
      BY <2>7, NoThreadAssumption DEF Idle
    <2> QED BY <2>10, <2>11, <2>12, SerialOwned
  <1> QED BY <1>1, <1>2, <1>3, <1>4, <1>5, <1>6, <1>7, <1>8, <1>9, <1>10, <1>11, <1>12
          DEF Step

\* Every step keeps the file lock set while it is a thread's turn.
LEMMA TurnStep ==
  ASSUME TurnIsLocked, NEW t \in Threads, Step(t)
  PROVE  TurnIsLocked'
  <1>1. CASE UNCHANGED <<replay_thread_num, file_read_locked>>
    BY <1>1 DEF TurnIsLocked
  <1>2. CASE TestLock(t)
    BY <1>2 DEF TestLock, TurnIsLocked, replayVars
  <1>3. ASSUME NEW l, Leave(t, l) PROVE TurnIsLocked'
    BY <1>3 DEF Leave, LeaveReplay, TurnIsLocked
  <1>4. CASE SkipGateIn(t) \/ GateIn(t) \/ NestedIn(t) \/ ProgramStep(t)
    BY <1>1, <1>4 DEF SkipGateIn, GateIn, NestedIn, ProgramStep, Count, gateVars, replayVars
  <1>5. CASE Lock(t) \/ Turn(t) \/ NestedSetLock(t) \/ LoadCount(t) \/ StoreCount(t)
    BY <1>1, <1>5 DEF Lock, Turn, NestedSetLock, LoadCount, StoreCount, replayVars
  <1>6. CASE NestedOut(t)
    BY <1>1, <1>3, <1>6 DEF NestedOut, Count, replayVars
  <1>7. CASE GateOut(t)
    BY <1>1, <1>3, <1>7 DEF GateOut, Count, gateVars, replayVars
  <1> QED BY <1>2, <1>4, <1>5, <1>6, <1>7 DEF Step

-------------------------------------------------------------------------------
\* The invariant.

\* The first state satisfies the invariant.
LEMMA IInvInit == Init => IInv
  <1> SUFFICES ASSUME Init PROVE IInv
    OBVIOUS
  <1>1. ProgramTypeOK
    BY ProgramAssumption DEF Init, ProgramInit, ProgramTypeOK, Places, Values
  <1>2. GateTypeOK
    <2>1. counting \in [Threads -> [by : {-1, 0, 1}, loaded : Int, after : Places]]
      BY DEF Init, Places
    <2>2. file \in Seq(Threads) /\ pos \in 0..Len(file) /\ recorded \in Seq(Threads \X Nat)
      BY DEF Init
    <2> QED BY <2>1, <2>2 DEF Init, GateTypeOK
  <1>3. CountTypeOK
    BY DEF Init, CountTypeOK
  <1>4. TurnIsLocked
    BY DEF Init, TurnIsLocked
  <1>5. Serial
    BY NoThreadAssumption DEF Init, ProgramInit, Serial, Idle, ThreadInv, Holds, Inside, InSection
  <1>6. \A t \in Threads : PlaceInv(t)
    BY DEF Init, ProgramInit, PlaceInv
  <1> QED BY <1>1, <1>2, <1>3, <1>4, <1>5, <1>6, TypeParts DEF IInv

\* So does the first state of the replay.
LEMMA IInvRerun ==
  ASSUME IInv, Rerun
  PROVE  IInv'
  <1>1. ProgramTypeOK'
    <2>1. program \in ProgramType /\ log \in [Threads -> Seq(Values)] /\ mem \in [Vars -> Values]
      BY DEF IInv, TypeOK, ProgramTypeOK
    <2>2. program' \in ProgramType /\ recLog' \in [Threads -> Seq(Values)]
          /\ recMem' \in [Vars -> Values] /\ mode' = "replay"
      BY <2>1 DEF Rerun, StartReplay
    <2>3. pc' \in [Threads -> Places] /\ mem' \in [Vars -> Values]
      BY DEF Rerun, StartReplay, Places, Values
    <2>4. /\ sec' \in [Threads -> Nat \ {0}] /\ acc' \in [Threads -> Nat \ {0}]
          /\ log' \in [Threads -> Seq(Values)]
      BY DEF Rerun, StartReplay
    <2> QED BY <2>2, <2>3, <2>4 DEF ProgramTypeOK
  <1>2. GateTypeOK'
    <2>1. counting' \in [Threads -> [by : {-1, 0, 1}, loaded : Int, after : Places]]
      BY DEF Rerun, Places
    <2>2. file' \in Seq(Threads) /\ pos' \in 0..Len(file')
          /\ recorded' \in Seq(Threads \X Nat)
      BY DEF IInv, TypeOK, Rerun
    <2> QED BY <2>1, <2>2 DEF Rerun, GateTypeOK
  <1>3. CountTypeOK'
    BY DEF Rerun, CountTypeOK
  <1>4. TurnIsLocked'
    BY DEF Rerun, TurnIsLocked
  <1>5. Serial'
    BY NoThreadAssumption DEF Rerun, StartReplay, Serial, Idle, ThreadInv, Holds, Inside, InSection
  <1>6. \A t \in Threads : PlaceInv(t)'
    BY DEF Rerun, StartReplay, PlaceInv
  <1>7. TypeOK'
    BY <1>1, <1>2, <1>3, TypeParts, PTL
  <1> QED BY <1>4, <1>5, <1>6, <1>7 DEF IInv

\* Stuttering keeps the invariant.
LEMMA IInvUnchanged ==
  ASSUME IInv, UNCHANGED vars
  PROVE  IInv'
  <1> USE DEF vars, programVars, gateVars
  <1>1. TypeOK'
    BY DEF IInv, TypeOK, ProgramTypeOK, MultiClock, OneLocked
  <1>2. TurnIsLocked'
    BY DEF IInv, TurnIsLocked
  <1>3. ASSUME NEW t \in Threads PROVE Stays(t)
    BY DEF Stays
  <1>4. \A t \in Threads : PlaceInv(t)'
    BY <1>3, PlaceStays DEF IInv
  <1>5. Serial'
    <2>1. Ordered' = Ordered /\ Idle' = Idle
      BY DEF Ordered, Idle, MultiClock, OneLocked
    <2>2. \A t \in Threads : ThreadInv(t) => ThreadInv(t)'
      BY <1>3, OtherUnchanged
    <2> QED BY <2>1, <2>2 DEF IInv, Serial
  <1> QED BY <1>1, <1>2, <1>4, <1>5 DEF IInv

\* Every step of a thread keeps the invariant.
LEMMA IInvStep ==
  ASSUME IInv, NEW t \in Threads, Step(t)
  PROVE  IInv'
  <1>1. TypeOK'
    BY TypeStep DEF IInv
  <1>2. TurnIsLocked'
    BY TurnStep DEF IInv
  <1>3. Serial'
    BY SerialStep DEF IInv
  <1>4. ASSUME NEW u \in Threads PROVE PlaceInv(u)'
    <2>1. CASE u = t
      BY <2>1, PlaceStep DEF IInv
    <2>2. CASE u # t
      BY <2>2, StepStays, PlaceStays DEF IInv
    <2> QED BY <2>1, <2>2
  <1> QED BY <1>1, <1>2, <1>3, <1>4 DEF IInv

\* The invariant gives what is to be shown: two threads inside are both current_tid.
LEMMA IInvSerial == IInv => TurnsSerial
  <1> SUFFICES ASSUME IInv, mode = "replay", NEW t \in Threads, NEW u \in Threads,
                      Inside(t), Inside(u)
               PROVE  t = u
    BY DEF IInv, TurnsSerial, ReplaySerial
  <1>1. current_tid = t /\ current_tid = u
    BY DEF IInv, Serial, Ordered, ThreadInv, Holds
  <1> QED BY <1>1

\* The invariant holds in every run.
LEMMA Invariance == Spec => []IInv
  <1>1. IInv /\ [Next]_vars => IInv'
    <2> SUFFICES ASSUME IInv, [Next]_vars PROVE IInv'
      OBVIOUS
    <2>1. CASE Rerun
      BY <2>1, IInvRerun
    <2>2. CASE Ended \/ UNCHANGED vars
      BY <2>2, IInvUnchanged DEF Ended
    <2>3. CASE \E t \in Threads : Step(t)
      BY <2>3, IInvStep
    <2> QED BY <2>1, <2>2, <2>3 DEF Next
  <1> QED BY <1>1, IInvInit, PTL DEF Spec

\* In the replay the gated sections of the whole process run one at a time, in
\* every program, whatever locks they had when they were recorded (the replay loop
\* of reomp_tgate_in); the file lock is set while it is some thread's turn.
THEOREM TidTurnsSerial == Spec => []TurnsSerial
  BY Invariance, IInvSerial, PTL

-------------------------------------------------------------------------------
\* The replay reads what the recorded run read, for the programs for which that can
\* be expected.  What both runs do is compared with the sections executed one after
\* the other in the order of the record file: a variable with one gate holds what the
\* sections that have left, and the one that is inside its gate, have written; a
\* thread's own variable holds what the thread has written; every value a thread has
\* read is the one its variable had at that place of the order.

\* How many entries of the record are those of sections that have left.
Cur == IF mode = "record" THEN Len(recorded)
       ELSE IF file_read_locked THEN pos - 1 ELSE pos

GatedAt(t, s) == Program[t][s].rw # "reduction"
LockAt(t, s)  == GateLock(Program[t][s].lock)

\* The programs that are spoken of.
Ready == ~CountsMix /\ LocksMade(program) /\ OrderedVars(program)

\* The recorded run with many locks.
ManyInv ==
  mode = "record" /\ MultiClock =>
    /\ nest_num = 0
    /\ \A t \in Threads :
         /\ pc[t] \in {"run", "lock", "body"}
         /\ Inside(t) => record_locks[LockOf(t)] = t
         /\ current_tid = t => Inside(t)

\* Where a thread is in the body of its section.
Outside(t) == pc[t] \in {"run", "lock", "test"}
BodyInv ==
  \A t \in Threads :
    /\ sec[t] <= Len(Program[t]) + 1
    /\ Outside(t) => acc[t] = 1
    /\ ~Outside(t) => acc[t] <= End(Program, t, sec[t])

\* The record file names the gated sections, those of a thread in the order of its
\* program, and the sections that have left are the first of them.
EntryOf(i, t, s) ==
  /\ file[i] = t
  /\ s \in 1..Len(Program[t]) /\ GatedAt(t, s)
  /\ i <= Cur <=> s < sec[t]
  /\ \A j \in (i + 1)..Len(recorded) : \A r \in Nat : recorded[j] = <<t, r>> => s < r
EntryInv ==
  /\ Len(recorded) = Len(file)
  /\ \A i \in 1..Len(recorded) : \A t \in Threads : \A s \in Nat :
       recorded[i] = <<t, s>> => EntryOf(i, t, s)
  /\ \A t \in Threads : \A s \in 1..Len(Program[t]) :
       GatedAt(t, s) /\ (mode = "record" => s < sec[t]) =>
         \E i \in 1..Len(recorded) : recorded[i] = <<t, s>>

\* Replaying, the turn is that of the last entry read.
TurnInv == mode = "replay" /\ file_read_locked => pos > 0 /\ replay_thread_num = file[pos]

\* The shared memory.
GatedVar(l, v) == GuardedBy(program, l, v) /\ ~ReducedIn(program, v)
InGate(t, l)   == Inside(t) /\ LockOf(t) = l
OwnOrder(u)    == [i \in Nat |-> <<u, i>>]
MemHolds(l, v) ==
  /\ \A t \in Threads : InGate(t, l) =>
       HoldsAt(Program, recorded, Cur, t, sec[t], acc[t], v, mem[v])
  /\ (\A t \in Threads : ~InGate(t, l)) => HoldsAfter(Program, recorded, Cur, v, mem[v])
OwnHolds(u, v) ==
  HoldsAt(Program, OwnOrder(u), sec[u] - 1, u, sec[u], acc[u], v, mem[v])
MemInv ==
  \A v \in Vars : /\ \A l \in Locks : GatedVar(l, v) => MemHolds(l, v)
                  /\ \A u \in Threads : OwnOf(program, u, v) => OwnHolds(u, v)

\* The section after the first k entries of the record is section s of thread t; the
\* section a recording thread is in may come after all of them.
NextIs(k, t, s) ==
  IF k < Len(recorded) THEN recorded[k + 1] = <<t, s>>
                       ELSE mode = "record" /\ s = sec[t]

\* w is what the read p = <<s, a>> of thread t finds.
VarAt(t, p) == Body(Program, t, p[1])[p[2]].var
Finds(t, p, w) ==
  /\ \A l \in Locks : GatedVar(l, VarAt(t, p)) =>
       \A k \in 0..Len(recorded) : NextIs(k, t, p[1]) =>
         HoldsAt(Program, recorded, k, t, p[1], p[2], VarAt(t, p), w)
  /\ OwnOf(program, t, VarAt(t, p)) =>
       HoldsAt(Program, OwnOrder(t), p[1] - 1, t, p[1], p[2], VarAt(t, p), w)

\* The values a thread has read in this run.
Past(t) == Reads(Program, t, sec[t], acc[t])
LogInv ==
  \A t \in Threads :
    /\ Shape(Program, t, sec[t], acc[t], Len(log[t]))
    /\ \A p \in Past(t) : Finds(t, p, log[t][PlaceOf(Program, t, p)])

\* What is kept of the recorded run.
RecLogHolds(t) ==
  /\ IsFiniteSet(AllReads(Program, t))
  /\ Len(recLog[t]) = Cardinality(AllReads(Program, t))
  /\ \A p \in AllReads(Program, t) : Finds(t, p, recLog[t][PlaceOf(Program, t, p)])
RecMemHolds(v) ==
  /\ \A l \in Locks : GatedVar(l, v) =>
       HoldsAfter(Program, recorded, Len(recorded), v, recMem[v])
  /\ \A u \in Threads : OwnOf(program, u, v) =>
       HoldsAfter(Program, OwnOrder(u), Len(Program[u]), v, recMem[v])
KeptInv ==
  mode = "replay" => /\ \A t \in Threads : RecLogHolds(t)
                     /\ \A v \in Vars : RecMemHolds(v)

OrderInv ==
  ManyInv /\ BodyInv /\ EntryInv /\ TurnInv /\ MemInv /\ LogInv /\ KeptInv

\* A section the thread can be in.
LEMMA SectionHere ==
  ASSUME TypeOK, NEW t \in Threads, HasSection(t)
  PROVE  /\ sec[t] \in 1..Len(Program[t])
         /\ Section(t) = Program[t][sec[t]]
         /\ Section(t).body = Body(Program, t, sec[t])
         /\ LockOf(t) = LockAt(t, sec[t]) /\ (Ungated(t) <=> ~GatedAt(t, sec[t]))
  BY ProgramTyped DEF TypeOK, ProgramTypeOK, HasSection, Section, Body, LockOf, LockAt,
     Ungated, GatedAt

\* The body of a section of the program.
LEMMA BodyTyped ==
  ASSUME TypeOK, NEW t \in Threads, NEW s \in 1..Len(Program[t])
  PROVE  /\ Body(Program, t, s) \in Seq(Accesses)
         /\ Len(Body(Program, t, s)) \in Nat /\ End(Program, t, s) \in Nat
         /\ LockAt(t, s) \in Locks
  <1>1. Program[t][s] \in Sections
    BY ProgramTyped
  <1>2. Program[t][s].body \in Seq(Accesses) /\ Program[t][s].lock \in Locks
    BY <1>1 DEF Sections
  <1> QED BY <1>2, ProgramAssumption DEF Body, End, LockAt, GateLock

\* No gate is inside a reduction, nor, with many locks, inside any section.
LEMMA PlainSection ==
  ASSUME TypeOK, Ready, NEW t \in Threads, HasSection(t), Ungated(t) \/ MultiClock
  PROVE  ~AtNested(t) /\ ~PastNested(t)
  <1>1. \A i \in DOMAIN Section(t).body : Section(t).body[i].gate = NoLock
    <2>1. sec[t] \in DOMAIN program.code[t]
      BY SectionHere, ProgramTyped DEF Program
    <2>2. CASE Ungated(t)
      BY <2>1, <2>2 DEF Ready, OrderedVars, ReductionsPlain, Ungated, Section, Program
    <2>3. CASE MultiClock
      BY <2>1, <2>3 DEF Ready, CountsMix, MixesCounts, MultiClock, Section, Program
    <2> QED BY <2>2, <2>3
  <1>2. Section(t).body \in Seq(Accesses)
    BY SectionTyped
  <1>3. \A i \in 1..Len(Section(t).body) : Section(t).body[i].gate = NoLock
    BY <1>1, <1>2
  <1>4. acc[t] \in Nat \ {0}
    BY DEF TypeOK, ProgramTypeOK
  <1> QED BY <1>2, <1>3, <1>4 DEF AtNested, PastNested, HasAccess, NextAccess

\* The locks these programs set are made.
LEMMA SetsMadeLocks ==
  ASSUME TypeOK, Ready
  PROVE  /\ ~MultiClock => OneLocked
         /\ MultiClock => \A t \in Threads :
              HasSection(t) /\ ~Ungated(t) => LockOf(t) \in MadeLocks
  <1>1. ~MultiClock => OneLocked
    BY DEF Ready, LocksMade, OneLocked, MultiClock
  <1>2. ASSUME MultiClock, NEW t \in Threads, HasSection(t), ~Ungated(t)
        PROVE  LockOf(t) \in MadeLocks
    <2>1. sec[t] \in DOMAIN program.code[t]
      BY <1>2, SectionHere, ProgramTyped DEF Program
    <2> QED BY <1>2, <2>1 DEF Ready, LocksMade, LockOf, GateLock, MultiClock, Ungated,
                Section, Program
  <1> QED BY <1>1, <1>2

\* Where a thread of these programs is.
LEMMA Structure ==
  ASSUME IInv, Ready, ManyInv, NEW t \in Threads
  PROVE  /\ pc[t] \in {"run", "lock", "test", "body", "nested", "nestout", "load", "store"}
         /\ pc[t] # "run" => HasSection(t)
         /\ pc[t] \in {"lock", "test", "nested", "nestout", "load", "store"} => ~Ungated(t)
         /\ Inside(t) <=> ~Outside(t) /\ ~Ungated(t)
         /\ current_tid = t => Inside(t)
         /\ Inside(t) /\ pc[t] = "body" => nest_num = 0
         /\ pc[t] = "nestout" => nest_num # 0
         /\ pc[t] \in {"load", "store"} => counting[t].after \in {"nested", "body"}
         /\ Inside(t) /\ Ordered => current_tid = t /\ Owner(t)
         /\ Inside(t) /\ ~Ordered => record_locks[LockOf(t)] = t
  <1>1. PlaceInv(t) /\ TypeOK
    BY DEF IInv
  <1>2. CASE Ordered
    <2>1. ThreadInv(t)
      BY <1>2 DEF IInv, Serial
    <2>2. pc[t] \in {"nested", "nestout"} => ~Ungated(t)
      BY <1>1, PlainSection DEF PlaceInv
    <2>3. pc[t] # "nestlock"
      BY <1>1, <2>1, PlainSection DEF PlaceInv, ThreadInv
    <2>4. Holds(t) <=> Inside(t)
      BY <2>2 DEF Holds
    <2>5. Inside(t) <=> ~Outside(t) /\ ~Ungated(t)
      BY <1>1, <2>3 DEF PlaceInv, Inside, InSection, Outside
    <2>6. pc[t] = "nestout" => nest_num = 1
      BY <2>1, <2>2, <2>4, <2>5 DEF ThreadInv, Depth, Outside
    <2>7. Inside(t) /\ pc[t] = "body" => nest_num = 0
      BY <2>1, <2>4 DEF ThreadInv, Depth
    <2> QED BY <1>1, <1>2, <2>1, <2>2, <2>3, <2>4, <2>5, <2>6, <2>7
            DEF PlaceInv, ThreadInv, Counts
  <1>3. CASE ~Ordered
    <2>1. mode = "record" /\ MultiClock
      BY <1>1, <1>3, SetsMadeLocks DEF Ordered, TypeOK, ProgramTypeOK
    <2>2. /\ nest_num = 0 /\ pc[t] \in {"run", "lock", "body"}
          /\ Inside(t) => record_locks[LockOf(t)] = t
          /\ current_tid = t => Inside(t)
      BY <2>1 DEF ManyInv
    <2> QED BY <1>1, <1>3, <2>2 DEF PlaceInv, Inside, InSection, Outside
  <1> QED BY <1>2, <1>3

\* Two threads are not in the same gate, and replaying only one is in any.
Alone ==
  \A t, u \in Threads :
    Inside(t) /\ Inside(u) /\ (mode = "replay" \/ LockOf(t) = LockOf(u)) => t = u

\* So it is in these programs.
LEMMA AloneInside == IInv /\ Ready /\ ManyInv => Alone
  BY Structure DEF Ordered, Alone

-------------------------------------------------------------------------------
\* The steps of a thread of these programs.

\* The thread moves at a gate: nothing changes that the order is about.
Quiet(t) ==
  /\ UNCHANGED <<sec, acc, mem, log, file, recorded>> /\ Cur' = Cur
  /\ Outside(t)' => Outside(t)
  /\ Outside(t)' \/ HasSection(t)
  /\ Inside(t) => Inside(t)'

\* It leaves a section without a gate, or a gated one.
Skips(t) ==
  /\ pc[t] = "body" /\ Ungated(t) /\ ~HasAccess(t)
  /\ NextSection(t) /\ UNCHANGED gateVars
Leaves(t) ==
  /\ pc[t] = "body" /\ ~Ungated(t) /\ ~HasAccess(t)
  /\ Leave(t, LockOf(t)) /\ NextSection(t) /\ UNCHANGED <<nest_num, counting, pos>>

\* A thread that goes on in its section, and what the record then counts.
LEMMA QuietMove ==
  ASSUME IInv, Ready, ManyInv, NEW t \in Threads,
         NEW place \in {"lock", "test", "body", "nested", "load", "store"}, GoTo(t, place),
         UNCHANGED <<file, recorded, replayVars>>, HasSection(t),
         place \in {"lock", "test"} => Outside(t)
  PROVE  Quiet(t)
  <1>1. pc'[t] = place /\ sec' = sec /\ acc' = acc /\ program' = program /\ mode' = mode
    BY GoToMoves DEF IInv
  <1>2. Ungated(t)' = Ungated(t) /\ HasSection(t)' = HasSection(t)
    BY <1>1, SectionKept
  <1>3. mem' = mem /\ log' = log
    BY DEF GoTo
  <1>4. Cur' = Cur
    BY <1>1 DEF Cur, replayVars
  <1>5. Outside(t)' <=> place \in {"lock", "test"}
    BY <1>1 DEF Outside
  <1>6. Inside(t) => ~Outside(t) /\ ~Ungated(t)
    BY Structure
  <1>7. Inside(t) => Inside(t)'
    <2> SUFFICES ASSUME Inside(t) PROVE Inside(t)'
      OBVIOUS
    <2> QED BY <1>1, <1>2, <1>5, <1>6 DEF Inside, InSection
  <1> QED BY <1>1, <1>3, <1>4, <1>5, <1>7 DEF Quiet

\* These are all the steps of a thread of these programs.
LEMMA StepKinds ==
  ASSUME IInv, Ready, ManyInv, NEW t \in Threads, Step(t)
  PROVE  Quiet(t) \/ ProgramStep(t) \/ Skips(t) \/ Leaves(t)
  <1>0. /\ TypeOK /\ pc[t] # "nestlock"
        /\ pc[t] # "run" => HasSection(t)
        /\ pc[t] \in {"lock", "test", "nested", "nestout", "load", "store"} => ~Ungated(t)
        /\ pc[t] \in {"run", "lock", "test"} => ~Inside(t)
        /\ pc[t] = "body" /\ ~Ungated(t) => Inside(t)
        /\ pc[t] = "nestout" => Inside(t)
    BY Structure DEF IInv, Outside
  <1>1. CASE SkipGateIn(t)
    BY <1>1, QuietMove DEF SkipGateIn, AtGateIn, gateVars, replayVars
  <1>2. CASE GateIn(t)
    <2>1. pc[t] = "run" /\ HasSection(t)
      BY <1>2 DEF GateIn, AtGateIn
    <2>2. ~Reentry(t)
      BY <1>0, <2>1, Structure DEF Reentry
    <2>3. GoTo(t, "lock") /\ UNCHANGED gateVars /\ Outside(t)
      BY <1>2, <2>1, <2>2 DEF GateIn, Outside
    <2> QED BY <2>1, <2>3, QuietMove DEF gateVars, replayVars
  <1>3. CASE Lock(t)
    BY <1>0, <1>3, QuietMove DEF Lock
  <1>4. CASE Turn(t)
    BY <1>0, <1>4, QuietMove DEF Turn, Outside
  <1>5. CASE TestLock(t)
    <2>1. pc[t] = "test" /\ GoTo(t, "lock") /\ mode = "replay"
      BY <1>5 DEF TestLock, IInv, PlaceInv
    <2>2. pc'[t] = "lock" /\ sec' = sec /\ acc' = acc /\ mode' = "replay"
      BY <1>0, <2>1, GoToMoves
    <2>3. Cur' = Cur
      BY <1>0, <1>5, <2>1, <2>2 DEF TestLock, Cur, replayVars, TypeOK
    <2>4. Outside(t) /\ ~Inside(t)
      BY <1>0, <2>1 DEF Outside
    <2> QED BY <1>5, <2>1, <2>2, <2>3, <2>4 DEF Quiet, TestLock, GoTo, Outside
  <1>6. CASE NestedIn(t)
    <2>1. pc[t] = "body" /\ HasSection(t) /\ AtNested(t)
      BY <1>0, <1>6 DEF NestedIn, AtNestedIn, AtNested
    <2>2. ~Ungated(t) /\ ~MultiClock
      BY <1>0, <2>1, PlainSection
    <2>3. current_tid = t
      BY <1>0, <2>1, <2>2, Structure, SetsMadeLocks DEF Ordered
    <2>4. Count(t, 1, "nested")
      BY <1>6, <2>3 DEF NestedIn, Reentry
    <2> QED BY <2>1, <2>4, QuietMove DEF Count
  <1>7. CASE NestedSetLock(t)
    BY <1>0, <1>7 DEF NestedSetLock
  <1>8. CASE ProgramStep(t)
    BY <1>8
  <1>9. CASE NestedOut(t)
    <2>1. pc[t] = "nestout" /\ nest_num # 0
      BY <1>9, Structure DEF NestedOut
    <2>2. Count(t, -1, "body")
      BY <1>9, <2>1 DEF NestedOut, Nested
    <2> QED BY <1>0, <2>1, <2>2, QuietMove DEF Count
  <1>10. CASE GateOut(t)
    <2>1. pc[t] = "body" /\ ~HasAccess(t)
      BY <1>10 DEF GateOut, AtGateOut
    <2>2. ~Ungated(t) => ~Nested
      BY <1>0, <2>1, Structure DEF Nested
    <2> QED BY <1>10, <2>1, <2>2 DEF GateOut, Skips, Leaves
  <1>11. CASE LoadCount(t)
    BY <1>0, <1>11, QuietMove DEF LoadCount
  <1>12. CASE StoreCount(t)
    <2>1. counting[t].after \in {"nested", "body"} /\ pc[t] = "store"
      BY <1>12, Structure DEF StoreCount
    <2>2. GoTo(t, counting[t].after)
      BY <1>12, <2>1 DEF StoreCount
    <2> QED BY <1>0, <1>12, <2>1, <2>2, QuietMove DEF StoreCount
  <1> QED BY <1>1, <1>2, <1>3, <1>4, <1>5, <1>6, <1>7, <1>8, <1>9, <1>10, <1>11, <1>12
          DEF Step

\* Every step keeps the locks of a recorded run with many locks exclusive.
LEMMA ManyStep ==
  ASSUME IInv, Ready, ManyInv, NEW t \in Threads, Step(t)
  PROVE  ManyInv'
  <1> SUFFICES ASSUME mode = "record", MultiClock
               PROVE  /\ nest_num' = 0
                      /\ \A u \in Threads :
                           /\ pc'[u] \in {"run", "lock", "body"}
                           /\ Inside(u)' => record_locks'[LockOf(u)'] = u
                           /\ current_tid' = u => Inside(u)'
    <2>1. mode' = mode /\ MultiClock' = MultiClock
      BY StepKeepsRun DEF MultiClock
    <2> QED BY <2>1 DEF ManyInv
  <1>1. /\ TypeOK /\ PlaceInv(t) /\ nest_num = 0
        /\ \A u \in Threads :
             /\ pc[u] \in {"run", "lock", "body"}
             /\ Inside(u) => record_locks[LockOf(u)] = u
             /\ current_tid = u => Inside(u)
             /\ Inside(u) => HasSection(u)
    BY DEF IInv, ManyInv, PlaceInv, Inside, InSection
  <1>2. ASSUME NEW u \in Threads, Stays(u)
        PROVE  /\ Inside(u)' = Inside(u) /\ LockOf(u)' = LockOf(u) /\ pc'[u] = pc[u]
    BY <1>2, SectionKept DEF Stays, Inside, InSection, LockOf, GateLock, MultiClock,
       Section, Program
  <1>3. \A u \in Threads : u # t => Stays(u)
    BY <1>1, StepStays
  <1>4. ASSUME UNCHANGED <<record_locks, current_tid, nest_num>>,
               pc'[t] \in {"run", "lock", "body"}, Inside(t)' <=> Inside(t),
               Inside(t) => LockOf(t)' = LockOf(t)
        PROVE  /\ nest_num' = 0
               /\ \A u \in Threads :
                    /\ pc'[u] \in {"run", "lock", "body"}
                    /\ Inside(u)' => record_locks'[LockOf(u)'] = u
                    /\ current_tid' = u => Inside(u)'
    BY <1>1, <1>2, <1>3, <1>4
  <1>5. CASE SkipGateIn(t)
    <2>1. GoTo(t, "body") /\ Ungated(t) /\ UNCHANGED gateVars
      BY <1>5 DEF SkipGateIn
    <2>2. pc'[t] = "body" /\ Ungated(t)' = Ungated(t)
      BY <1>1, <2>1, GoToMoves, SectionKept
    <2>3. ~Inside(t) /\ ~Inside(t)'
      BY <2>1, <2>2 DEF Inside
    <2> QED BY <1>4, <2>1, <2>2, <2>3 DEF gateVars
  <1>6. CASE GateIn(t)
    <2>1. pc[t] = "run" /\ ~Inside(t)
      BY <1>6 DEF GateIn, AtGateIn, Inside, InSection
    <2>2. GoTo(t, "lock") /\ UNCHANGED gateVars
      BY <1>1, <1>6, <2>1 DEF GateIn, Reentry
    <2>3. pc'[t] = "lock" /\ ~Inside(t)'
      BY <1>1, <2>2, GoToMoves DEF Inside, InSection
    <2> QED BY <1>4, <2>1, <2>2, <2>3 DEF gateVars
  <1>7. CASE Lock(t)
    <2>1. /\ pc[t] = "lock" /\ GoTo(t, "body") /\ SetLock(t, LockOf(t))
          /\ nest_num' = nest_num /\ HasSection(t) /\ ~Ungated(t)
      BY <1>1, <1>7 DEF Lock, PlaceInv
    <2>2. /\ pc'[t] = "body" /\ Ungated(t)' = Ungated(t)
          /\ program' = program /\ sec' = sec
      BY <1>1, <2>1, GoToMoves, SectionKept
    <2>3. LockOf(t) \in MadeLocks /\ LockOf(t)' = LockOf(t)
      BY <1>1, <2>1, <2>2, SetsMadeLocks DEF LockOf, GateLock, MultiClock, Section, Program
    <2>4. /\ record_locks'[LockOf(t)] = t /\ current_tid' = t
          /\ record_locks[LockOf(t)] = NoThread
          /\ \A l \in MadeLocks : l # LockOf(t) => record_locks'[l] = record_locks[l]
      BY <1>1, <2>1, <2>3 DEF SetLock, Locked, TypeOK
    <2>5. Inside(t)'
      BY <2>1, <2>2 DEF Inside, InSection
    <2>6. \A u \in Threads : Inside(u) => LockOf(u) # LockOf(t) /\ LockOf(u) \in MadeLocks
      BY <1>1, <2>4, NoThreadAssumption, SetsMadeLocks DEF Inside
    <2>7. ASSUME NEW u \in Threads, u # t, Inside(u)'
          PROVE  record_locks'[LockOf(u)'] = u
      BY <1>1, <1>2, <1>3, <2>4, <2>6, <2>7
    <2> QED BY <1>1, <1>2, <1>3, <2>1, <2>2, <2>3, <2>4, <2>5, <2>7
  <1>8. CASE NestedIn(t)
    <2>1. HasSection(t) /\ AtNested(t)
      BY <1>1, <1>8 DEF NestedIn, AtNestedIn, AtNested, PlaceInv
    <2> QED BY <1>1, <2>1, PlainSection
  <1>9. CASE ProgramStep(t)
    <2>1. pc[t] = "body" /\ HasSection(t)
      BY <1>1, <1>9 DEF ProgramStep, Access, InSection, PlaceInv
    <2>2. ~AtNested(t)
      BY <1>1, <2>1, PlainSection
    <2>3. pc'[t] = "body" /\ program' = program /\ sec' = sec /\ UNCHANGED gateVars
      BY <1>1, <1>9, <2>2 DEF ProgramStep, Access, AtNested, TypeOK, ProgramTypeOK
    <2>4. Inside(t)' = Inside(t) /\ LockOf(t)' = LockOf(t)
      BY <2>1, <2>3 DEF Inside, InSection, Ungated, LockOf, GateLock, MultiClock, Section,
         Program
    <2> QED BY <1>4, <2>3, <2>4 DEF gateVars
  <1>10. CASE GateOut(t)
    <2>1. pc[t] = "body" /\ ~Nested
      BY <1>1, <1>10 DEF GateOut, AtGateOut, Nested
    <2>2. CASE Ungated(t)
      <3>1. NextSection(t) /\ UNCHANGED gateVars /\ ~Inside(t)
        BY <1>10, <2>2 DEF GateOut, Inside
      <3>2. pc'[t] = "run" /\ ~Inside(t)'
        BY <1>1, <3>1, NextSectionMoves DEF Inside, InSection
      <3> QED BY <1>4, <3>1, <3>2 DEF gateVars
    <2>3. CASE ~Ungated(t)
      <3>1. Leave(t, LockOf(t)) /\ NextSection(t) /\ nest_num' = nest_num /\ Inside(t)
        BY <1>10, <2>1, <2>3 DEF GateOut, Inside, InSection
      <3>2. pc'[t] = "run" /\ ~Inside(t)'
        BY <1>1, <3>1, NextSectionMoves DEF Inside, InSection
      <3>3. /\ current_tid' = NoThread
            /\ \A l \in MadeLocks : l # LockOf(t) => record_locks'[l] = record_locks[l]
        BY <1>1, <3>1 DEF Leave, LeaveRecord, Locked, TypeOK
      <3>4. \A u \in Threads : Inside(u) /\ u # t => LockOf(u) # LockOf(t) /\ LockOf(u) \in MadeLocks
        BY <1>1, <3>1, SetsMadeLocks DEF Inside
      <3>5. ASSUME NEW u \in Threads, u # t, Inside(u)'
            PROVE  record_locks'[LockOf(u)'] = u
        BY <1>1, <1>2, <1>3, <3>3, <3>4, <3>5
      <3> QED BY <1>1, <1>2, <1>3, <3>1, <3>2, <3>3, <3>5, NoThreadAssumption
    <2> QED BY <2>2, <2>3
  <1>11. ~(Turn(t) \/ TestLock(t) \/ NestedSetLock(t) \/ NestedOut(t) \/ LoadCount(t) \/ StoreCount(t))
    BY <1>1 DEF Turn, TestLock, NestedSetLock, NestedOut, LoadCount, StoreCount
  <1> QED BY <1>5, <1>6, <1>7, <1>8, <1>9, <1>10, <1>11 DEF Step

-------------------------------------------------------------------------------
\* How the steps act on what the order is about.

\* What a step of thread t leaves alone.
LEMMA StepFrame ==
  ASSUME IInv, NEW t \in Threads, Step(t)
  PROVE  /\ UNCHANGED <<program, mode, recLog, recMem>>
         /\ \A u \in Threads : u # t => Stays(u) /\ log'[u] = log[u]
  <1>1. UNCHANGED <<program, mode, recLog, recMem>>
    BY DEF Step, SkipGateIn, GateIn, Lock, Turn, TestLock, NestedIn, NestedSetLock,
       ProgramStep, NestedOut, GateOut, LoadCount, StoreCount, Count, GoTo, NextSection,
       Access
  <1>2. log' = log \/ ProgramStep(t)
    BY DEF Step, SkipGateIn, GateIn, Lock, Turn, TestLock, NestedIn, NestedSetLock,
       NestedOut, GateOut, LoadCount, StoreCount, Count, GoTo, NextSection
  <1>3. ProgramStep(t) => \A u \in Threads : u # t => log'[u] = log[u]
    BY DEF ProgramStep, Access, IInv, TypeOK, ProgramTypeOK
  <1> QED BY <1>1, <1>2, <1>3, StepStays DEF IInv

\* A thread left where it is.
LEMMA StaysInside ==
  ASSUME NEW u \in Threads, Stays(u)
  PROVE  /\ Inside(u)' = Inside(u) /\ LockOf(u)' = LockOf(u) /\ Outside(u)' = Outside(u)
         /\ sec'[u] = sec[u] /\ acc'[u] = acc[u]
  BY SectionKept DEF Stays, Inside, InSection, LockOf, GateLock, MultiClock, Section,
     Program, Outside

\* The program does not change, nor what is said of its sections.
LEMMA SameProgram ==
  ASSUME program' = program
  PROVE  /\ Program' = Program
         /\ \A t, s : LockAt(t, s)' = LockAt(t, s)
         /\ \A t, s : GatedAt(t, s)' = GatedAt(t, s)
         /\ \A l, v : GatedVar(l, v)' = GatedVar(l, v)
         /\ \A t, p : VarAt(t, p)' = VarAt(t, p)
  BY DEF Program, LockAt, GatedAt, GateLock, MultiClock, GatedVar, VarAt

\* An access of the body.
LEMMA AccessFrame ==
  ASSUME IInv, Ready, ManyInv, NEW t \in Threads, ProgramStep(t)
  PROVE  LET a == NextAccess(t) IN
         /\ UNCHANGED <<sec, file, recorded>> /\ Cur' = Cur
         /\ ~Outside(t) /\ ~Outside(t)' /\ HasSection(t) /\ Inside(t)' = Inside(t)
         /\ LockOf(t)' = LockOf(t)
         /\ acc'[t] = acc[t] + 1
         /\ acc[t] \in 1..Len(Body(Program, t, sec[t]))
         /\ a = Body(Program, t, sec[t])[acc[t]] /\ a \in Accesses
         /\ mem' = IF a.op = "load" THEN mem
                   ELSE [mem EXCEPT ![a.var] = <<t, sec[t], acc[t]>>]
         /\ log'[t] = IF a.op = "store" THEN log[t] ELSE Append(log[t], mem[a.var])
  <1> USE DEF TypeOK, ProgramTypeOK
  <1>1. Access(t) /\ UNCHANGED gateVars /\ TypeOK
    BY DEF ProgramStep, IInv
  <1>2. InSection(t) /\ HasAccess(t) /\ program' = program /\ mode' = mode /\ sec' = sec
    BY <1>1 DEF Access
  <1>3. HasSection(t)
    BY <1>2, Structure DEF InSection
  <1>4. acc[t] \in 1..Len(Body(Program, t, sec[t]))
    <2>1. /\ Len(Body(Program, t, sec[t])) \in Nat
          /\ Section(t).body = Body(Program, t, sec[t])
      BY <1>1, <1>3, SectionHere, BodyTyped
    <2>2. acc[t] \in Nat \ {0}
      BY <1>1
    <2> QED BY <1>2, <2>1, <2>2 DEF HasAccess
  <1>5. NextAccess(t) = Body(Program, t, sec[t])[acc[t]]
    BY DEF NextAccess, Section, Body
  <1>6. NextAccess(t) \in Accesses
    BY <1>1, <1>2, <1>3, AccessTyped
  <1>7. pc'[t] \in {"body", "nestout"} /\ acc'[t] = acc[t] + 1
    BY <1>1 DEF Access
  <1>8. UNCHANGED <<sec, file, recorded>> /\ Cur' = Cur
    BY <1>1, <1>2 DEF gateVars, Cur
  <1>9. /\ mem' = IF NextAccess(t).op = "load" THEN mem
                  ELSE [mem EXCEPT ![NextAccess(t).var] = <<t, sec[t], acc[t]>>]
        /\ log'[t] = IF NextAccess(t).op = "store" THEN log[t]
                     ELSE Append(log[t], mem[NextAccess(t).var])
    BY <1>1 DEF Access
  <1>10. ~Outside(t) /\ ~Outside(t)'
    BY <1>2, <1>7 DEF InSection, Outside
  <1>11. Ungated(t)' = Ungated(t) /\ LockOf(t)' = LockOf(t)
    BY <1>2 DEF Ungated, LockOf, GateLock, MultiClock, Section, Program
  <1>12. Inside(t)' = Inside(t)
    BY <1>2, <1>7, <1>11 DEF Inside, InSection
  <1> QED BY <1>3, <1>4, <1>5, <1>6, <1>7, <1>8, <1>9, <1>10, <1>11, <1>12

\* A thread leaves its section.
LEMMA LeaveFrame ==
  ASSUME IInv, Ready, ManyInv, BodyInv, NEW t \in Threads, Skips(t) \/ Leaves(t)
  PROVE  /\ UNCHANGED <<mem, log, pos>>
         /\ pc'[t] = "run" /\ sec'[t] = sec[t] + 1 /\ acc'[t] = 1 /\ ~Inside(t)'
         /\ HasSection(t) /\ sec[t] \in 1..Len(Program[t])
         /\ acc[t] = End(Program, t, sec[t])
         /\ LockOf(t) = LockAt(t, sec[t]) /\ LockOf(t) \in Locks
         /\ Skips(t) => /\ UNCHANGED <<file, recorded>> /\ Cur' = Cur
                        /\ ~GatedAt(t, sec[t]) /\ ~Inside(t)
         /\ Leaves(t) => Inside(t) /\ GatedAt(t, sec[t])
  <1> USE DEF TypeOK, ProgramTypeOK
  <1>1. /\ TypeOK /\ NextSection(t) /\ pc[t] = "body" /\ ~HasAccess(t)
        /\ pos' = pos
    BY DEF Skips, Leaves, IInv, gateVars
  <1>2. UNCHANGED <<mem, log, mode>> /\ pc'[t] = "run" /\ sec'[t] = sec[t] + 1 /\ acc'[t] = 1
    BY <1>1 DEF NextSection
  <1>3. ~Inside(t)'
    BY <1>2 DEF Inside, InSection
  <1>4. HasSection(t)
    BY <1>1, Structure
  <1>5. /\ sec[t] \in 1..Len(Program[t]) /\ LockOf(t) = LockAt(t, sec[t])
        /\ LockOf(t) \in Locks /\ (Ungated(t) <=> ~GatedAt(t, sec[t]))
        /\ Section(t).body = Body(Program, t, sec[t])
    BY <1>1, <1>4, SectionHere, SectionTyped
  <1>6. acc[t] = End(Program, t, sec[t])
    <2>1. acc[t] <= End(Program, t, sec[t])
      BY <1>1 DEF BodyInv, Outside
    <2>2. ~(acc[t] <= Len(Body(Program, t, sec[t]))) /\ acc[t] \in Nat
      BY <1>1, <1>5 DEF HasAccess
    <2>3. Len(Body(Program, t, sec[t])) \in Nat
      BY <1>1, <1>5, BodyTyped
    <2> QED BY <2>1, <2>2, <2>3 DEF End
  <1>7. Skips(t) => UNCHANGED <<file, recorded>> /\ Cur' = Cur /\ Ungated(t)
    BY <1>2 DEF Skips, gateVars, Cur
  <1>8. Leaves(t) => ~Ungated(t)
    BY DEF Leaves
  <1>9. Inside(t) <=> ~Ungated(t)
    BY <1>1 DEF Inside, InSection
  <1> QED BY <1>1, <1>2, <1>3, <1>4, <1>5, <1>6, <1>7, <1>8, <1>9

\* Every step of a thread keeps it in the body of its section.
LEMMA BodyStep ==
  ASSUME IInv, Ready, ManyInv, BodyInv, NEW t \in Threads, Step(t)
  PROVE  BodyInv'
  <1> SUFFICES ASSUME NEW u \in Threads
               PROVE  /\ sec'[u] <= Len(Program[u]) + 1
                      /\ Outside(u)' => acc'[u] = 1
                      /\ ~Outside(u)' => acc'[u] <= End(Program, u, sec'[u])
    BY StepFrame, SameProgram DEF BodyInv
  <1>0. /\ TypeOK /\ sec[t] \in Nat /\ acc[t] \in Nat
        /\ Program[t] \in Seq(Sections)
    BY ProgramTyped DEF IInv, TypeOK, ProgramTypeOK
  <1>1. CASE u # t
    BY <1>1, StepFrame, StaysInside DEF BodyInv
  <1>2. CASE u = t /\ Quiet(t)
    <2>1. sec' = sec /\ acc' = acc /\ (Outside(t)' => Outside(t))
          /\ (Outside(t)' \/ HasSection(t))
      BY <1>2 DEF Quiet
    <2>2. HasSection(t) => 1 <= End(Program, t, sec[t])
      BY <1>0, SectionHere, BodyTyped DEF End
    <2> QED BY <1>2, <2>1, <2>2 DEF BodyInv
  <1>3. CASE u = t /\ ProgramStep(t)
    <2>1. /\ sec' = sec /\ ~Outside(t)' /\ acc'[t] = acc[t] + 1
          /\ acc[t] \in 1..Len(Body(Program, t, sec[t])) /\ HasSection(t)
      BY <1>3, AccessFrame
    <2>2. Len(Body(Program, t, sec[t])) \in Nat
      BY <1>0, <2>1, SectionHere, BodyTyped
    <2> QED BY <1>3, <2>1, <2>2 DEF BodyInv, End
  <1>4. CASE u = t /\ (Skips(t) \/ Leaves(t))
    <2>1. pc'[t] = "run" /\ sec'[t] = sec[t] + 1 /\ acc'[t] = 1 /\ sec[t] \in 1..Len(Program[t])
      BY <1>4, LeaveFrame
    <2> QED BY <1>0, <1>4, <2>1 DEF Outside
  <1> QED BY <1>1, <1>2, <1>3, <1>4, StepKinds

\* What the record counts is part of the record.
LEMMA CurTyped ==
  ASSUME IInv, EntryInv, TurnInv
  PROVE  /\ recorded \in Seq(Threads \X Nat) /\ Len(recorded) \in Nat
         /\ Len(file) = Len(recorded)
         /\ Cur \in 0..Len(recorded) /\ Cur \in Nat
         /\ mode = "record" => Cur = Len(recorded)
         /\ mode = "replay" /\ file_read_locked => Cur + 1 = pos /\ pos \in 1..Len(recorded)
  <1>1. /\ recorded \in Seq(Threads \X Nat) /\ Len(recorded) \in Nat
        /\ pos \in 0..Len(file) /\ Len(file) = Len(recorded) /\ mode \in {"record", "replay"}
    BY DEF IInv, TypeOK, ProgramTypeOK, EntryInv
  <1>2. CASE mode = "record"
    BY <1>1, <1>2 DEF Cur
  <1>3. CASE mode = "replay" /\ file_read_locked
    <2>1. pos > 0
      BY <1>3 DEF TurnInv
    <2> QED BY <1>1, <1>3, <2>1 DEF Cur
  <1>4. CASE mode = "replay" /\ ~file_read_locked
    BY <1>1, <1>4 DEF Cur
  <1> QED BY <1>1, <1>2, <1>3, <1>4

\* An entry of the record.
LEMMA EntryTyped ==
  ASSUME IInv, EntryInv, NEW i \in 1..Len(recorded)
  PROVE  \E t \in Threads : \E s \in 1..Len(Program[t]) :
           recorded[i] = <<t, s>> /\ EntryOf(i, t, s) /\ s \in Nat
  <1>1. recorded[i] \in Threads \X Nat
    BY DEF IInv, TypeOK
  <1>2. PICK t \in Threads, s \in Nat : recorded[i] = <<t, s>>
    BY <1>1
  <1>3. EntryOf(i, t, s)
    BY <1>2 DEF EntryInv
  <1> QED BY <1>2, <1>3 DEF EntryOf

\* The thread that is inside in the replay is in the section that is next in the record.
LEMMA NextInOrder ==
  ASSUME IInv, Ready, ManyInv, EntryInv, TurnInv, mode = "replay",
         NEW t \in Threads, Inside(t)
  PROVE  Cur + 1 \in 1..Len(recorded) /\ recorded[Cur + 1] = <<t, sec[t]>>
  <1>1. replay_thread_num = t
    BY Structure DEF Ordered, Owner
  <1>2. file_read_locked /\ file[pos] = t
    BY <1>1, NoThreadAssumption DEF IInv, TurnIsLocked, TurnInv
  <1>3. Cur + 1 = pos /\ pos \in 1..Len(recorded) /\ Cur \in Nat
    BY <1>2, CurTyped
  <1>4. PICK u \in Threads, r \in Nat : recorded[pos] = <<u, r>> /\ EntryOf(pos, u, r)
    BY <1>3, EntryTyped
  <1>5. u = t /\ ~(r < sec[t]) /\ \A j \in (pos + 1)..Len(recorded) : \A s \in Nat :
          recorded[j] = <<t, s>> => r < s
    BY <1>2, <1>3, <1>4 DEF EntryOf
  <1>6. HasSection(t) /\ ~Ungated(t)
    BY Structure DEF Outside
  <1>7. sec[t] \in 1..Len(Program[t]) /\ GatedAt(t, sec[t]) /\ sec[t] \in Nat
    BY <1>6, SectionHere DEF IInv, TypeOK, ProgramTypeOK
  <1>8. PICK i \in 1..Len(recorded) : recorded[i] = <<t, sec[t]>>
    BY <1>7 DEF EntryInv
  <1>9. EntryOf(i, t, sec[t])
    BY <1>7, <1>8 DEF EntryInv
  <1>10. ~(i <= Cur)
    BY <1>7, <1>9 DEF EntryOf
  <1>11. ~(i > pos)
    <2> SUFFICES ASSUME i > pos PROVE FALSE
      OBVIOUS
    <2>1. i \in (pos + 1)..Len(recorded)
      BY <1>3
    <2>2. r < sec[t]
      BY <1>5, <1>7, <1>8, <2>1
    <2> QED BY <1>5, <2>2
  <1>12. i = pos
    BY <1>3, <1>10, <1>11
  <1> QED BY <1>3, <1>8, <1>12

\* The section that is left is, or becomes, the next one of the record.
LEMMA LeaveOrder ==
  ASSUME IInv, Ready, ManyInv, BodyInv, EntryInv, TurnInv, NEW t \in Threads, Leaves(t)
  PROVE  /\ Cur' = Cur + 1 /\ Cur + 1 \in 1..Len(recorded')
         /\ recorded'[Cur + 1] = <<t, sec[t]>> /\ Len(recorded') \in Nat
         /\ SamePrefix(recorded, recorded', Len(recorded))
         /\ mode = "record" => /\ Len(recorded') = Len(recorded) + 1
                               /\ file' = Append(file, t)
         /\ mode = "replay" => recorded' = recorded /\ file' = file
  <1>1. /\ recorded \in Seq(Threads \X Nat) /\ Len(recorded) \in Nat
        /\ Cur \in 0..Len(recorded) /\ Cur \in Nat
        /\ mode = "record" => Cur = Len(recorded)
    BY CurTyped
  <1>2. Leave(t, LockOf(t)) /\ mode' = mode /\ pos' = pos
    BY DEF Leaves, NextSection
  <1>3. Inside(t)
    BY LeaveFrame
  <1>4. CASE mode = "record"
    <2>1. recorded' = Append(recorded, <<t, sec[t]>>) /\ file' = Append(file, t)
      BY <1>2, <1>4 DEF Leave, LeaveRecord
    <2>2. /\ Len(recorded') = Len(recorded) + 1 /\ recorded'[Len(recorded) + 1] = <<t, sec[t]>>
          /\ \A i \in 1..Len(recorded) : recorded'[i] = recorded[i]
      <3>1. sec[t] \in Nat
        BY DEF IInv, TypeOK, ProgramTypeOK
      <3> QED BY <1>1, <2>1, <3>1
    <2>3. Cur' = Len(recorded')
      BY <1>2, <1>4 DEF Cur
    <2> QED BY <1>1, <1>4, <2>1, <2>2, <2>3 DEF SamePrefix
  <1>5. CASE mode = "replay"
    <2>1. recorded' = recorded /\ file' = file /\ ~file_read_locked'
      BY <1>2, <1>5 DEF Leave, LeaveReplay
    <2>2. replay_thread_num = t
      BY <1>3, <1>5, Structure DEF Ordered, Owner
    <2>3. file_read_locked
      BY <2>2, NoThreadAssumption DEF IInv, TurnIsLocked
    <2>4. Cur + 1 = pos
      BY <1>5, <2>3, CurTyped
    <2>5. Cur' = pos
      BY <1>2, <1>5, <2>1 DEF Cur
    <2>6. Cur + 1 \in 1..Len(recorded) /\ recorded[Cur + 1] = <<t, sec[t]>>
      BY <1>3, <1>5, NextInOrder
    <2> QED BY <1>1, <1>5, <2>1, <2>4, <2>5, <2>6 DEF SamePrefix
  <1> QED BY <1>4, <1>5 DEF IInv, TypeOK, ProgramTypeOK

\* Every step keeps the turn that of the last entry read.
LEMMA TurnKept ==
  ASSUME IInv, TurnInv, NEW t \in Threads, Step(t)
  PROVE  TurnInv'
  <1> SUFFICES ASSUME mode = "replay" PROVE TurnInv'
    BY StepFrame DEF TurnInv
  <1>1. CASE UNCHANGED <<file, pos, replay_thread_num, file_read_locked>>
    BY <1>1 DEF TurnInv
  <1>2. CASE TestLock(t)
    <2>1. CASE file_read_locked
      BY <1>1, <1>2, <2>1 DEF TestLock, replayVars
    <2>2. CASE ~file_read_locked
      <3>1. pos' = pos + 1 /\ replay_thread_num' = file[pos + 1] /\ file' = file
        BY <1>2, <2>2 DEF TestLock
      <3>2. pos \in Nat
        BY DEF IInv, TypeOK
      <3> QED BY <3>1, <3>2 DEF TurnInv
    <2> QED BY <2>1, <2>2
  <1>3. ASSUME NEW l, Leave(t, l) PROVE TurnInv'
    BY <1>3 DEF Leave, LeaveReplay, TurnInv
  <1>4. CASE SkipGateIn(t) \/ GateIn(t) \/ NestedIn(t) \/ ProgramStep(t)
    BY <1>1, <1>4 DEF SkipGateIn, GateIn, NestedIn, ProgramStep, Count, gateVars, replayVars
  <1>5. CASE Lock(t) \/ Turn(t) \/ NestedSetLock(t) \/ LoadCount(t) \/ StoreCount(t)
    BY <1>1, <1>5 DEF Lock, Turn, NestedSetLock, LoadCount, StoreCount, replayVars
  <1>6. CASE NestedOut(t)
    BY <1>1, <1>3, <1>6 DEF NestedOut, Count, replayVars
  <1>7. CASE GateOut(t)
    BY <1>1, <1>3, <1>7 DEF GateOut, Count, gateVars, replayVars
  <1> QED BY <1>2, <1>4, <1>5, <1>6, <1>7 DEF Step

\* A section without a gate is left without a trace in the record.
LEMMA EntrySkip ==
  ASSUME IInv, Ready, ManyInv, BodyInv, EntryInv, NEW t \in Threads, Step(t), Skips(t)
  PROVE  EntryInv'
  <1>0. /\ UNCHANGED <<file, recorded, program, mode>> /\ Cur' = Cur /\ ~GatedAt(t, sec[t])
        /\ sec'[t] = sec[t] + 1 /\ sec[t] \in Nat
        /\ \A u \in Threads : u # t => sec'[u] = sec[u]
    BY LeaveFrame, StepFrame, StaysInside DEF IInv, TypeOK, ProgramTypeOK
  <1>1. \A u \in Threads : \A s \in Nat : GatedAt(u, s) => (s < sec'[u] <=> s < sec[u])
    <2> SUFFICES ASSUME NEW u \in Threads, NEW s \in Nat, GatedAt(u, s)
                 PROVE  s < sec'[u] <=> s < sec[u]
      OBVIOUS
    <2>1. CASE u = t
      BY <1>0, <2>1
    <2>2. CASE u # t
      BY <1>0, <2>2
    <2> QED BY <2>1, <2>2
  <1>2. ASSUME NEW i \in 1..Len(recorded), NEW u \in Threads, NEW s \in Nat,
               recorded[i] = <<u, s>>
        PROVE  EntryOf(i, u, s)'
    <2>1. EntryOf(i, u, s)
      BY <1>2 DEF EntryInv
    <2> QED BY <1>0, <1>1, <2>1, SameProgram DEF EntryOf
  <1>3. ASSUME NEW u \in Threads, NEW s \in 1..Len(Program[u]), GatedAt(u, s),
               mode = "record" => s < sec'[u]
        PROVE  \E i \in 1..Len(recorded) : recorded[i] = <<u, s>>
    <2>1. Program[u] \in Seq(Sections)
      BY ProgramTyped DEF IInv
    <2>2. mode = "record" => s < sec[u]
      BY <1>1, <1>3, <2>1
    <2> QED BY <1>3, <2>2 DEF EntryInv
  <1>4. Len(recorded') = Len(file')
    BY <1>0 DEF EntryInv
  <1> QED BY <1>0, <1>2, <1>3, <1>4, SameProgram DEF EntryInv

\* A gated section that is left in the recorded run is the last of the record.
LEMMA EntryRecord ==
  ASSUME IInv, Ready, ManyInv, BodyInv, EntryInv, TurnInv, NEW t \in Threads, Step(t),
         Leaves(t), mode = "record"
  PROVE  EntryInv'
  <1>n. PICK n \in Nat : n = Len(recorded)
    BY CurTyped
  <1>0. /\ UNCHANGED <<program, mode>> /\ GatedAt(t, sec[t]) /\ sec[t] \in 1..Len(Program[t])
        /\ sec'[t] = sec[t] + 1 /\ sec[t] \in Nat
        /\ \A u \in Threads : u # t => sec'[u] = sec[u]
        /\ \A u \in Threads : sec[u] \in Nat
    BY LeaveFrame, StepFrame, StaysInside DEF IInv, TypeOK, ProgramTypeOK
  <1>1. /\ Len(recorded') = n + 1 /\ recorded'[n + 1] = <<t, sec[t]>>
        /\ \A i \in 1..n : recorded'[i] = recorded[i]
        /\ Cur = n /\ Cur' = n + 1 /\ file' = Append(file, t)
    BY <1>n, LeaveOrder, CurTyped DEF SamePrefix
  <1>2. /\ Len(file) = n /\ Len(file') = n + 1 /\ file'[n + 1] = t
        /\ \A i \in 1..n : file'[i] = file[i]
    BY <1>n, <1>1 DEF EntryInv, IInv, TypeOK
  <1>3. ASSUME NEW i \in 1..(n + 1), NEW u \in Threads, NEW s \in Nat, recorded'[i] = <<u, s>>
        PROVE  EntryOf(i, u, s)'
    <2>1. CASE i \in 1..n
      <3>1. recorded[i] = <<u, s>>
        BY <1>1, <1>3, <2>1
      <3>2. EntryOf(i, u, s)
        BY <1>n, <2>1, <3>1 DEF EntryInv
      <3>3. s < sec[u] /\ i <= n + 1 /\ file'[i] = u
        BY <1>1, <1>2, <2>1, <3>2 DEF EntryOf
      <3>4. s < sec'[u]
        BY <1>0, <3>3
      <3>5. ASSUME NEW j \in (i + 1)..(n + 1), NEW r \in Nat, recorded'[j] = <<u, r>>
            PROVE  s < r
        <4>1. CASE j = n + 1
          BY <1>0, <1>1, <3>3, <3>5, <4>1
        <4>2. CASE j # n + 1
          <5>1. j \in (i + 1)..Len(recorded) /\ recorded[j] = <<u, r>>
            BY <1>n, <1>1, <2>1, <3>5, <4>2
          <5> QED BY <3>2, <5>1 DEF EntryOf
        <4> QED BY <4>1, <4>2
      <3> QED BY <1>0, <1>1, <3>2, <3>3, <3>4, <3>5, SameProgram DEF EntryOf
    <2>2. CASE i \notin 1..n
      <3>1. i = n + 1 /\ u = t /\ s = sec[t]
        BY <1>1, <1>3, <2>2
      <3>2. s < sec'[t] /\ (i + 1)..(n + 1) = {}
        BY <1>0, <3>1
      <3> QED BY <1>0, <1>1, <1>2, <3>1, <3>2, SameProgram DEF EntryOf
    <2> QED BY <2>1, <2>2
  <1>4. ASSUME NEW u \in Threads, NEW s \in 1..Len(Program[u]), GatedAt(u, s), s < sec'[u]
        PROVE  \E i \in 1..(n + 1) : recorded'[i] = <<u, s>>
    <2>1. s \in Nat
      BY ProgramTyped DEF IInv
    <2>2. CASE u = t /\ s = sec[t]
      BY <1>1, <2>2
    <2>3. CASE ~(u = t /\ s = sec[t])
      <3>1. s < sec[u]
        BY <1>0, <1>4, <2>1, <2>3
      <3>2. PICK i \in 1..Len(recorded) : recorded[i] = <<u, s>>
        BY <1>4, <3>1 DEF EntryInv
      <3>3. i \in 1..(n + 1) /\ recorded'[i] = <<u, s>>
        BY <1>n, <1>1, <3>2
      <3> QED BY <3>3
    <2> QED BY <2>2, <2>3
  <1>5. \A u \in Threads : \A s \in 1..Len(Program'[u]) :
          GatedAt(u, s)' /\ (mode' = "record" => s < sec'[u]) =>
            \E i \in 1..Len(recorded') : recorded'[i] = <<u, s>>
    BY <1>0, <1>1, <1>4, SameProgram
  <1>6. Len(recorded') = Len(file')
    BY <1>1, <1>2
  <1> QED BY <1>1, <1>3, <1>5, <1>6 DEF EntryInv

\* In the replay it is the next of the record.
LEMMA EntryReplay ==
  ASSUME IInv, Ready, ManyInv, BodyInv, EntryInv, TurnInv, NEW t \in Threads, Step(t),
         Leaves(t), mode = "replay"
  PROVE  EntryInv'
  <1>n. PICK n \in Nat : n = Cur
    BY CurTyped
  <1>0. /\ UNCHANGED <<program, mode>>
        /\ sec'[t] = sec[t] + 1 /\ sec[t] \in Nat
        /\ \A u \in Threads : u # t => sec'[u] = sec[u]
        /\ \A u \in Threads : sec[u] \in Nat
    BY LeaveFrame, StepFrame, StaysInside DEF IInv, TypeOK, ProgramTypeOK
  <1>1. /\ recorded' = recorded /\ file' = file /\ Cur' = n + 1
        /\ n + 1 \in 1..Len(recorded) /\ recorded[n + 1] = <<t, sec[t]>>
    BY <1>n, LeaveOrder
  <1>2. EntryOf(n + 1, t, sec[t])
    BY <1>0, <1>1 DEF EntryInv
  <1>3. ASSUME NEW i \in 1..Len(recorded), NEW u \in Threads, NEW s \in Nat,
               recorded[i] = <<u, s>>
        PROVE  EntryOf(i, u, s)'
    <2>1. EntryOf(i, u, s)
      BY <1>3 DEF EntryInv
    <2>2. i <= n <=> s < sec[u]
      BY <1>n, <2>1 DEF EntryOf
    <2>3. i <= n + 1 <=> s < sec'[u]
      <3>1. CASE u # t
        <4>1. i # n + 1
          BY <1>1, <1>3, <3>1
        <4> QED BY <1>0, <2>2, <3>1, <4>1
      <3>2. CASE u = t /\ i <= n + 1
        <4>1. i = n + 1 => s = sec[t]
          BY <1>1, <1>3
        <4> QED BY <1>0, <2>2, <3>2, <4>1
      <3>3. CASE u = t /\ ~(i <= n + 1)
        <4>1. i \in (n + 1 + 1)..Len(recorded)
          BY <3>3
        <4>2. sec[t] < s
          BY <1>2, <1>3, <3>3, <4>1 DEF EntryOf
        <4> QED BY <1>0, <3>3, <4>2
      <3> QED BY <3>1, <3>2, <3>3
    <2> QED BY <1>0, <1>1, <2>1, <2>3, SameProgram DEF EntryOf
  <1>4. Len(recorded') = Len(file')
    BY <1>1 DEF EntryInv
  <1>5. \A u \in Threads : \A s \in 1..Len(Program[u]) :
          GatedAt(u, s) => \E i \in 1..Len(recorded) : recorded[i] = <<u, s>>
    BY DEF EntryInv
  <1>6. \A u \in Threads : \A s \in 1..Len(Program'[u]) :
          GatedAt(u, s)' => \E i \in 1..Len(recorded') : recorded'[i] = <<u, s>>
    BY <1>0, <1>1, <1>5, SameProgram
  <1> QED BY <1>1, <1>3, <1>4, <1>6 DEF EntryInv

\* Every step keeps the record in the order of the program.
LEMMA EntryStep ==
  ASSUME IInv, Ready, ManyInv, BodyInv, EntryInv, TurnInv, NEW t \in Threads, Step(t)
  PROVE  EntryInv'
  <1>1. CASE Quiet(t) \/ ProgramStep(t)
    <2>1. UNCHANGED <<file, recorded, sec, program, mode>> /\ Cur' = Cur
      BY <1>1, AccessFrame, StepFrame DEF Quiet
    <2>2. \A i, u, s : EntryOf(i, u, s)' <=> EntryOf(i, u, s)
      BY <2>1, SameProgram DEF EntryOf
    <2> QED BY <2>1, <2>2, SameProgram DEF EntryInv
  <1>2. CASE Skips(t)
    BY <1>2, EntrySkip
  <1>3. CASE Leaves(t)
    BY <1>3, EntryRecord, EntryReplay DEF IInv, TypeOK, ProgramTypeOK
  <1> QED BY <1>1, <1>2, <1>3, StepKinds

-------------------------------------------------------------------------------
\* The shared memory.

\* The sections that access a variable with a gate are those of the gate.
LEMMA GuardOf ==
  ASSUME TypeOK, NEW l, NEW v, GatedVar(l, v), NEW t \in Threads,
         NEW s \in 1..Len(Program[t]), NEW a \in 1..Len(Body(Program, t, s)),
         Body(Program, t, s)[a].var = v
  PROVE  LockAt(t, s) = l /\ GatedAt(t, s)
  <1>1. LockAt(t, s) = l
    BY DEF GatedVar, GuardedBy, LockAt, GateLock, MultiClock, Program, Body
  <1>2. s \in DOMAIN Program[t] /\ a \in DOMAIN Program[t][s].body
    BY ProgramTyped, BodyTyped DEF Body
  <1>3. GatedAt(t, s)
    BY <1>2 DEF GatedVar, ReducedIn, GatedAt, Body, Program
  <1> QED BY <1>1, <1>3

\* Any other section does not write it.
LEMMA SilentSection ==
  ASSUME TypeOK, NEW l, NEW v, GatedVar(l, v), NEW t \in Threads,
         NEW s \in 1..Len(Program[t]), LockAt(t, s) # l
  PROVE  SilentOn(Program, t, s, End(Program, t, s), v)
  <1>1. Len(Body(Program, t, s)) \in Nat
    BY BodyTyped
  <1>2. \A a \in 1..(End(Program, t, s) - 1) : a \in 1..Len(Body(Program, t, s))
    BY <1>1 DEF End
  <1> QED BY <1>2, GuardOf DEF SilentOn, WritesTo

\* A thread's own variable is accessed by the thread only.
LEMMA OwnerOf ==
  ASSUME TypeOK, NEW u, NEW v, OwnOf(program, u, v), NEW t \in Threads,
         NEW s \in 1..Len(Program[t]), NEW a \in 1..Len(Body(Program, t, s)),
         Body(Program, t, s)[a].var = v
  PROVE  t = u
  <1>1. s \in DOMAIN Program[t] /\ a \in DOMAIN Program[t][s].body
    BY ProgramTyped, BodyTyped DEF Body
  <1> QED BY <1>1 DEF OwnOf, Body, Program

\* A thread that enters a gate finds its variables as the last section left them.
LEMMA MemQuiet ==
  ASSUME IInv, Ready, ManyInv, Alone', BodyInv, NEW t \in Threads, Step(t), Quiet(t),
         NEW l \in Locks, NEW v \in Vars, MemHolds(l, v)
  PROVE  MemHolds(l, v)'
  <1>1. /\ UNCHANGED <<sec, acc, mem, recorded, program>> /\ Cur' = Cur
        /\ Inside(t) => Inside(t)'
        /\ \A u \in Threads : u # t => Inside(u)' = Inside(u)
    BY StepFrame, StaysInside DEF Quiet
  <1>2. Program' = Program /\ \A u \in Threads : LockOf(u)' = LockOf(u)
    BY <1>1 DEF Program, LockOf, GateLock, MultiClock, Section
  <1>3. \A u \in Threads : u # t => (InGate(u, l)' <=> InGate(u, l))
    BY <1>1, <1>2 DEF InGate
  <1>4. CASE InGate(t, l) \/ ~InGate(t, l)'
    <2>1. \A u \in Threads : InGate(u, l)' <=> InGate(u, l)
      BY <1>1, <1>2, <1>3, <1>4 DEF InGate
    <2> QED BY <1>1, <1>2, <2>1 DEF MemHolds
  <1>5. CASE ~InGate(t, l) /\ InGate(t, l)'
    <2>1. acc[t] = 1
      <3>1. ~Inside(t) /\ Inside(t)'
        BY <1>2, <1>5 DEF InGate
      <3>2. Ungated(t)' = Ungated(t)
        BY <1>1, <1>2 DEF Ungated, Section
      <3>3. Outside(t)
        BY <3>1, <3>2, Structure DEF Inside
      <3> QED BY <3>3 DEF BodyInv
    <2>2. \A u \in Threads : ~InGate(u, l)
      BY <1>2, <1>3, <1>5 DEF Alone, InGate
    <2>3. HoldsAfter(Program, recorded, Cur, v, mem[v])
      BY <2>2 DEF MemHolds
    <2>4. HoldsAt(Program, recorded, Cur, t, sec[t], acc[t], v, mem[v])
      BY <2>1, <2>3, HoldsAtFirst
    <2>5. \A u \in Threads : InGate(u, l)' => u = t
      BY <1>3, <2>2
    <2> QED BY <1>1, <1>2, <1>5, <2>4, <2>5 DEF MemHolds
  <1> QED BY <1>4, <1>5

\* What an access does to a variable.
LEMMA AccessWrites ==
  ASSUME IInv, Ready, ManyInv, NEW t \in Threads, ProgramStep(t), NEW v \in Vars
  PROVE  mem'[v] = IF WritesTo(Program, t, sec[t], acc[t], v)
                   THEN <<t, sec[t], acc[t]>> ELSE mem[v]
  <1>1. /\ NextAccess(t) = Body(Program, t, sec[t])[acc[t]]
        /\ mem' = IF NextAccess(t).op = "load" THEN mem
                  ELSE [mem EXCEPT ![NextAccess(t).var] = <<t, sec[t], acc[t]>>]
    BY AccessFrame
  <1>2. mem \in [Vars -> Values]
    BY DEF IInv, TypeOK, ProgramTypeOK
  <1> QED BY <1>1, <1>2 DEF WritesTo

\* An access of the section inside writes what the order says.
LEMMA MemAccess ==
  ASSUME IInv, Ready, ManyInv, Alone, NEW t \in Threads, Step(t), ProgramStep(t),
         NEW l \in Locks, NEW v \in Vars, GatedVar(l, v), MemHolds(l, v)
  PROVE  MemHolds(l, v)'
  <1>1. /\ UNCHANGED <<sec, recorded, program>> /\ Cur' = Cur /\ HasSection(t)
        /\ acc'[t] = acc[t] + 1 /\ acc[t] \in 1..Len(Body(Program, t, sec[t]))
        /\ Inside(t)' = Inside(t) /\ LockOf(t)' = LockOf(t) /\ ~Outside(t)
        /\ \A u \in Threads : u # t =>
             Inside(u)' = Inside(u) /\ LockOf(u)' = LockOf(u) /\ acc'[u] = acc[u]
    BY StepFrame, StaysInside, AccessFrame
  <1>2. Program' = Program /\ \A u \in Threads : InGate(u, l)' <=> InGate(u, l)
    BY <1>1 DEF Program, InGate
  <1>3. /\ sec[t] \in 1..Len(Program[t]) /\ LockOf(t) = LockAt(t, sec[t])
        /\ Ungated(t) <=> ~GatedAt(t, sec[t])
    BY <1>1, SectionHere DEF IInv
  <1>4. mem'[v] = IF WritesTo(Program, t, sec[t], acc[t], v)
                  THEN <<t, sec[t], acc[t]>> ELSE mem[v]
    BY AccessWrites
  <1>5. CASE InGate(t, l)
    <2>1. \A u \in Threads : InGate(u, l) => u = t
      BY <1>5 DEF Alone, InGate
    <2>2. HoldsAt(Program, recorded, Cur, t, sec[t], acc[t], v, mem[v])
      BY <1>5 DEF MemHolds
    <2>3. acc[t] \in Nat \ {0}
      BY DEF IInv, TypeOK, ProgramTypeOK
    <2>4. HoldsAt(Program, recorded, Cur, t, sec[t], acc[t] + 1, v, mem'[v])
      BY <1>4, <2>2, <2>3, HoldsNext
    <2> QED BY <1>1, <1>2, <1>5, <2>1, <2>4 DEF MemHolds
  <1>6. CASE ~InGate(t, l)
    <2>1. Body(Program, t, sec[t])[acc[t]].var # v
      <3> SUFFICES ASSUME Body(Program, t, sec[t])[acc[t]].var = v PROVE FALSE
        OBVIOUS
      <3>1. LockOf(t) = l /\ ~Ungated(t)
        BY <1>1, <1>3, GuardOf DEF IInv
      <3> QED BY <1>1, <1>6, <3>1, Structure DEF InGate
    <2>2. mem'[v] = mem[v]
      BY <1>4, <2>1 DEF WritesTo
    <2>3. \A u \in Threads : InGate(u, l) => acc'[u] = acc[u]
      BY <1>1, <1>6
    <2> QED BY <1>1, <1>2, <2>2, <2>3 DEF MemHolds
  <1> QED BY <1>5, <1>6

\* A section that leaves is the next one of the order.
LEMMA MemLeave ==
  ASSUME IInv, Ready, ManyInv, Alone, BodyInv, EntryInv, TurnInv, NEW t \in Threads, Step(t),
         NEW l \in Locks, NEW v \in Vars, GatedVar(l, v), MemHolds(l, v), Leaves(t)
  PROVE  MemHolds(l, v)'
  <1>n. PICK n \in Nat : n = Cur
    BY CurTyped
  <1>1. /\ UNCHANGED <<mem, program>> /\ Inside(t) /\ ~Inside(t)'
        /\ sec[t] \in 1..Len(Program[t]) /\ acc[t] = End(Program, t, sec[t])
        /\ LockOf(t) = LockAt(t, sec[t])
        /\ \A u \in Threads : u # t =>
             /\ Inside(u)' = Inside(u) /\ LockOf(u)' = LockOf(u)
             /\ sec'[u] = sec[u] /\ acc'[u] = acc[u]
    BY StepFrame, StaysInside, LeaveFrame
  <1>2. Program' = Program
    BY <1>1 DEF Program
  <1>3. /\ Cur' = n + 1 /\ recorded'[n + 1] = <<t, sec[t]>>
        /\ SamePrefix(recorded, recorded', n)
    <2>1. Cur' = n + 1 /\ recorded'[n + 1] = <<t, sec[t]>>
      BY <1>n, LeaveOrder
    <2>2. SamePrefix(recorded, recorded', Len(recorded))
      BY LeaveOrder
    <2>3. n <= Len(recorded) /\ Len(recorded) \in Nat
      BY <1>n, CurTyped
    <2> QED BY <2>1, <2>2, <2>3 DEF SamePrefix
  <1>4. CASE LockOf(t) = l
    <2>1. \A u \in Threads : ~InGate(u, l)'
      BY <1>1, <1>4 DEF Alone, InGate
    <2>2. HoldsAt(Program, recorded, n, t, sec[t], End(Program, t, sec[t]), v, mem[v])
      BY <1>n, <1>1, <1>4 DEF MemHolds, InGate
    <2>3. HoldsAt(Program, recorded', n, t, sec[t], End(Program, t, sec[t]), v, mem[v])
      BY <1>3, <2>2, HoldsKept
    <2>4. HoldsAfter(Program, recorded', n + 1, v, mem[v])
      BY <1>3, <2>3, HoldsEnd
    <2> QED BY <1>1, <1>2, <1>3, <2>1, <2>4 DEF MemHolds
  <1>5. CASE LockOf(t) # l
    <2>1. \A u \in Threads : InGate(u, l)' => u # t /\ InGate(u, l)
      BY <1>1 DEF InGate
    <2>2. \A u \in Threads : InGate(u, l) => InGate(u, l)'
      BY <1>1, <1>5 DEF InGate
    <2>3. SilentOn(Program, recorded'[n + 1][1], recorded'[n + 1][2],
                   End(Program, recorded'[n + 1][1], recorded'[n + 1][2]), v)
      BY <1>1, <1>3, <1>5, SilentSection DEF IInv
    <2>4. \A w : HoldsAfter(Program, recorded, n, v, w) =>
                   HoldsAfter(Program, recorded', n + 1, v, w)
      BY <1>3, <2>3, HoldsKept, HoldsSilent
    <2>5. \A u, s, a, w : HoldsAt(Program, recorded, n, u, s, a, v, w) =>
                            HoldsAt(Program, recorded', n + 1, u, s, a, v, w)
      BY <1>3, <2>3, HoldsKept, HoldsSilent
    <2>6. ASSUME NEW u \in Threads, InGate(u, l)'
          PROVE  HoldsAt(Program, recorded', n + 1, u, sec'[u], acc'[u], v, mem[v])
      <3>1. InGate(u, l) /\ sec'[u] = sec[u] /\ acc'[u] = acc[u]
        BY <1>1, <2>1, <2>6
      <3>2. HoldsAt(Program, recorded, n, u, sec[u], acc[u], v, mem[v])
        BY <1>n, <3>1 DEF MemHolds
      <3> QED BY <2>5, <3>1, <3>2
    <2>7. ASSUME \A u \in Threads : ~InGate(u, l)'
          PROVE  HoldsAfter(Program, recorded', n + 1, v, mem[v])
      BY <1>n, <2>2, <2>4, <2>7 DEF MemHolds
    <2> QED BY <1>1, <1>2, <1>3, <2>6, <2>7 DEF MemHolds
  <1> QED BY <1>4, <1>5

\* What a thread finds in its own variables is what it has written.
LEMMA OwnStep ==
  ASSUME IInv, Ready, ManyInv, BodyInv, NEW t \in Threads, Step(t),
         NEW u \in Threads, NEW v \in Vars, OwnOf(program, u, v), OwnHolds(u, v)
  PROVE  OwnHolds(u, v)'
  <1>0. Program' = Program /\ OwnOrder(u)' = OwnOrder(u)
    BY StepFrame, SameProgram DEF OwnOrder
  <1>1. CASE Quiet(t)
    BY <1>0, <1>1 DEF Quiet, OwnHolds
  <1>2. CASE ProgramStep(t)
    <2>1. /\ sec' = sec /\ acc'[t] = acc[t] + 1 /\ HasSection(t)
          /\ acc[t] \in 1..Len(Body(Program, t, sec[t]))
          /\ \A w \in Threads : w # t => acc'[w] = acc[w]
      BY <1>2, AccessFrame, StepFrame, StaysInside
    <2>2. mem'[v] = IF WritesTo(Program, t, sec[t], acc[t], v)
                    THEN <<t, sec[t], acc[t]>> ELSE mem[v]
      BY <1>2, AccessWrites
    <2>3. CASE u # t
      <3>1. Body(Program, t, sec[t])[acc[t]].var # v
        BY <2>1, <2>3, SectionHere, OwnerOf DEF IInv
      <3>2. mem'[v] = mem[v]
        BY <2>2, <3>1 DEF WritesTo
      <3> QED BY <1>0, <2>1, <2>3, <3>2 DEF OwnHolds
    <2>4. CASE u = t
      <3>1. acc[t] \in Nat \ {0}
        BY DEF IInv, TypeOK, ProgramTypeOK
      <3>2. HoldsAt(Program, OwnOrder(t), sec[t] - 1, t, sec[t], acc[t], v, mem[v])
        BY <2>4 DEF OwnHolds
      <3>3. HoldsAt(Program, OwnOrder(t), sec[t] - 1, t, sec[t], acc[t] + 1, v, mem'[v])
        BY <2>2, <3>1, <3>2, HoldsNext
      <3> QED BY <1>0, <2>1, <2>4, <3>3 DEF OwnHolds
    <2> QED BY <2>3, <2>4
  <1>3. CASE Skips(t) \/ Leaves(t)
    <2>1. /\ mem' = mem /\ sec'[t] = sec[t] + 1 /\ acc'[t] = 1
          /\ acc[t] = End(Program, t, sec[t])
          /\ \A w \in Threads : w # t => sec'[w] = sec[w] /\ acc'[w] = acc[w]
      BY <1>3, LeaveFrame, StepFrame, StaysInside
    <2>2. CASE u # t
      BY <1>0, <2>1, <2>2 DEF OwnHolds
    <2>3. CASE u = t
      <3>0. sec[t] \in Nat \ {0}
        BY DEF IInv, TypeOK, ProgramTypeOK
      <3>n. PICK n \in Nat : n = sec[t] - 1
        BY <3>0
      <3>1. sec[t] = n + 1 /\ sec'[t] - 1 = n + 1
        BY <2>1, <3>0, <3>n
      <3>2. OwnOrder(t)[n + 1] = <<t, sec[t]>>
        BY <3>1 DEF OwnOrder
      <3>3. HoldsAt(Program, OwnOrder(t), n, t, sec[t], End(Program, t, sec[t]), v, mem[v])
        BY <2>1, <2>3, <3>n DEF OwnHolds
      <3>4. HoldsAfter(Program, OwnOrder(t), n + 1, v, mem[v])
        BY <3>2, <3>3, HoldsEnd
      <3>5. HoldsAt(Program, OwnOrder(t), n + 1, t, sec'[t], 1, v, mem[v])
        BY <3>4, HoldsAtFirst
      <3> QED BY <1>0, <2>1, <2>3, <3>1, <3>5 DEF OwnHolds
    <2> QED BY <2>2, <2>3
  <1> QED BY <1>1, <1>2, <1>3, StepKinds

\* A section without a gate does not come near the variables that have one.
LEMMA MemSkip ==
  ASSUME IInv, Ready, ManyInv, BodyInv, NEW t \in Threads, Step(t), Skips(t),
         NEW l \in Locks, NEW v \in Vars, MemHolds(l, v)
  PROVE  MemHolds(l, v)'
  <1>1. /\ UNCHANGED <<mem, recorded, program>> /\ Cur' = Cur /\ ~Inside(t) /\ ~Inside(t)'
        /\ \A u \in Threads : u # t =>
             /\ Inside(u)' = Inside(u) /\ LockOf(u)' = LockOf(u)
             /\ sec'[u] = sec[u] /\ acc'[u] = acc[u]
    BY StepFrame, StaysInside, LeaveFrame
  <1>2. Program' = Program /\ \A u \in Threads : InGate(u, l)' <=> InGate(u, l)
    BY <1>1 DEF Program, InGate
  <1>3. \A u \in Threads : InGate(u, l) => sec'[u] = sec[u] /\ acc'[u] = acc[u]
    BY <1>1 DEF InGate
  <1> QED BY <1>1, <1>2, <1>3 DEF MemHolds

\* Every step keeps what is known of the memory.
LEMMA MemStep ==
  ASSUME IInv, Ready, ManyInv, Alone', BodyInv, EntryInv, TurnInv, MemInv,
         NEW t \in Threads, Step(t)
  PROVE  MemInv'
  <1>0. Alone
    BY AloneInside
  <1>1. ASSUME NEW v \in Vars, NEW l \in Locks, GatedVar(l, v)
        PROVE  MemHolds(l, v)'
    <2>1. MemHolds(l, v)
      BY <1>1 DEF MemInv
    <2> QED BY <1>0, <1>1, <2>1, StepKinds, MemQuiet, MemAccess, MemSkip, MemLeave
  <1>2. ASSUME NEW v \in Vars, NEW u \in Threads, OwnOf(program, u, v)
        PROVE  OwnHolds(u, v)'
    BY <1>2, OwnStep DEF MemInv
  <1>3. program' = program
    BY StepFrame
  <1>4. \A l, v : GatedVar(l, v)' = GatedVar(l, v)
    BY <1>3, SameProgram
  <1> QED BY <1>1, <1>2, <1>3, <1>4 DEF MemInv

-------------------------------------------------------------------------------
\* The values that were read.

\* A read that is past.
LEMMA PastTyped ==
  ASSUME TypeOK, NEW t \in Threads, NEW s, NEW a, NEW p \in Reads(Program, t, s, a)
  PROVE  /\ p[1] \in 1..Len(Program[t]) /\ p[2] \in 1..Len(Body(Program, t, p[1]))
         /\ p[1] \in Nat /\ p[2] \in Nat
         /\ p[1] < s \/ (p[1] = s /\ p[2] < a)
         /\ IsRead(Program, t, p[1], p[2]) /\ VarAt(t, p) \in Vars
         /\ \A l : GatedVar(l, VarAt(t, p)) => LockAt(t, p[1]) = l /\ GatedAt(t, p[1])
         /\ \A u : OwnOf(program, u, VarAt(t, p)) => u = t
  <1>1. /\ p[1] \in 1..Len(Program[t]) /\ p[2] \in 1..Len(Body(Program, t, p[1]))
        /\ p[1] < s \/ (p[1] = s /\ p[2] < a)
        /\ IsRead(Program, t, p[1], p[2])
    BY DEF Reads
  <1>2. Len(Program[t]) \in Nat /\ Len(Body(Program, t, p[1])) \in Nat
    BY <1>1, ProgramTyped, BodyTyped
  <1>3. Body(Program, t, p[1])[p[2]] \in Accesses
    BY <1>1, BodyTyped
  <1>4. VarAt(t, p) \in Vars
    BY <1>3 DEF VarAt, Accesses
  <1>5. \A l : GatedVar(l, VarAt(t, p)) => LockAt(t, p[1]) = l /\ GatedAt(t, p[1])
    BY <1>1, GuardOf DEF VarAt
  <1>6. \A u : OwnOf(program, u, VarAt(t, p)) => u = t
    BY <1>1, OwnerOf DEF VarAt
  <1> QED BY <1>1, <1>2, <1>4, <1>5, <1>6

\* A thread with a gated read behind it in its section is inside.
LEMMA PastInside ==
  ASSUME IInv, Ready, ManyInv, BodyInv, NEW t \in Threads, NEW p \in Past(t),
         p[1] = sec[t], NEW l, GatedVar(l, VarAt(t, p))
  PROVE  Inside(t) /\ LockOf(t) = l
  <1>1. /\ p[2] \in 1..Len(Body(Program, t, p[1])) /\ p[2] \in Nat
        /\ p[1] < sec[t] \/ (p[1] = sec[t] /\ p[2] < acc[t])
        /\ LockAt(t, sec[t]) = l /\ GatedAt(t, sec[t])
    BY PastTyped DEF Past, IInv
  <1>2. sec[t] \in Nat /\ acc[t] \in Nat
    BY DEF IInv, TypeOK, ProgramTypeOK
  <1>3. acc[t] # 1
    BY <1>1, <1>2
  <1>4. ~Outside(t) /\ HasSection(t)
    BY <1>3, Structure DEF BodyInv, Outside
  <1>5. LockOf(t) = LockAt(t, sec[t]) /\ (Ungated(t) <=> ~GatedAt(t, sec[t]))
    BY <1>4, SectionHere DEF IInv
  <1> QED BY <1>1, <1>4, <1>5, Structure

\* The section that a thread is in comes after the sections that have left.
LEMMA NextIsCur ==
  ASSUME IInv, Ready, ManyInv, EntryInv, TurnInv, NEW t \in Threads, Inside(t),
         NEW k \in 0..Len(recorded), NextIs(k, t, sec[t])
  PROVE  k = Cur
  <1>n. PICK n \in Nat, m \in Nat : n = Cur /\ m = Len(recorded) /\ n <= m
    BY CurTyped
  <1>1. k \in 0..m /\ (mode = "record" => n = m) /\ sec[t] \in Nat
        /\ mode \in {"record", "replay"}
    BY <1>n, CurTyped DEF IInv, TypeOK, ProgramTypeOK
  <1>2. CASE k < m
    <2>1. recorded[k + 1] = <<t, sec[t]>> /\ k + 1 \in 1..m
      BY <1>n, <1>1, <1>2 DEF NextIs
    <2>2. EntryOf(k + 1, t, sec[t])
      BY <1>n, <1>1, <2>1 DEF EntryInv
    <2>3. ~(k + 1 <= n)
      BY <1>n, <1>1, <2>2 DEF EntryOf
    <2>4. mode = "replay"
      BY <1>1, <1>2, <2>3
    <2>5. n + 1 \in 1..m /\ recorded[n + 1] = <<t, sec[t]>>
      BY <1>n, <2>4, NextInOrder
    <2>6. EntryOf(n + 1, t, sec[t])
      BY <1>n, <1>1, <2>5 DEF EntryInv
    <2>7. ~(k + 1 \in (n + 1 + 1)..m)
      BY <1>n, <1>1, <2>1, <2>6 DEF EntryOf
    <2> QED BY <1>n, <2>1, <2>3, <2>7
  <1>3. CASE ~(k < m)
    BY <1>n, <1>1, <1>3 DEF NextIs
  <1> QED BY <1>2, <1>3

\* What a read finds stays true when the record grows: at the end of the record for
\* the section that is appended, behind it for the sections that others are in.
LEMMA FindsKept ==
  ASSUME IInv, Ready, ManyInv, BodyInv, EntryInv, TurnInv, NEW t \in Threads, Step(t),
         NEW u \in Threads, NEW p \in Past(u), NEW w, Finds(u, p, w)
  PROVE  Finds(u, p, w)'
  <1>v. PICK v \in Vars : v = VarAt(u, p)
    BY PastTyped DEF Past, IInv
  <1>m. PICK m \in Nat : m = Len(recorded)
    BY CurTyped
  <1>0. /\ program' = program /\ mode' = mode
        /\ Program' = Program /\ VarAt(u, p)' = v /\ OwnOrder(u)' = OwnOrder(u)
        /\ \A l : GatedVar(l, v)' = GatedVar(l, v)
    BY <1>v, StepFrame, SameProgram DEF OwnOrder
  <1>1. /\ p[1] \in Nat /\ sec[u] \in Nat /\ p[1] <= sec[u]
    <2>1. p[1] \in Nat /\ (p[1] < sec[u] \/ p[1] = sec[u])
      BY PastTyped DEF Past, IInv
    <2>2. sec[u] \in Nat
      BY DEF IInv, TypeOK, ProgramTypeOK
    <2> QED BY <2>1, <2>2
  <1>2. p[1] = sec'[u] => p[1] = sec[u]
    <2>1. sec'[u] = sec[u] \/ sec'[u] = sec[u] + 1
      BY StepKinds, StepFrame, StaysInside, AccessFrame, LeaveFrame DEF Quiet
    <2> QED BY <1>1, <2>1
  <1> SUFFICES ASSUME NEW l \in Locks, GatedVar(l, v),
                      NEW k \in 0..Len(recorded'), NextIs(k, u, p[1])'
               PROVE  HoldsAt(Program, recorded', k, u, p[1], p[2], v, w)
    BY <1>0, <1>v DEF Finds
  <1>3. \A j \in 0..m : NextIs(j, u, p[1]) => HoldsAt(Program, recorded, j, u, p[1], p[2], v, w)
    BY <1>m, <1>v DEF Finds
  <1>4. CASE recorded' = recorded
    <2>1. NextIs(k, u, p[1])
      BY <1>0, <1>2, <1>4 DEF NextIs
    <2> QED BY <1>m, <1>3, <1>4, <2>1
  <1>5. CASE recorded' # recorded
    <2>1. Leaves(t) /\ mode = "record"
      BY <1>5, StepKinds, AccessFrame, LeaveFrame, LeaveOrder
      DEF Quiet, IInv, TypeOK, ProgramTypeOK
    <2>2. /\ Len(recorded') = m + 1 /\ recorded'[m + 1] = <<t, sec[t]>>
          /\ SamePrefix(recorded, recorded', m) /\ sec'[t] = sec[t] + 1
      BY <1>m, <2>1, LeaveOrder, LeaveFrame, CurTyped
    <2>3. ASSUME NEW j \in Nat, j <= m, HoldsAt(Program, recorded, j, u, p[1], p[2], v, w)
          PROVE  HoldsAt(Program, recorded', j, u, p[1], p[2], v, w)
      <3>1. SamePrefix(recorded, recorded', j)
        BY <2>2, <2>3 DEF SamePrefix
      <3> QED BY <2>3, <3>1, HoldsKept
    <2>4. CASE k < m
      <3>1. recorded'[k + 1] = <<u, p[1]>>
        BY <2>2, <2>4 DEF NextIs
      <3>2. recorded[k + 1] = <<u, p[1]>>
        BY <2>2, <2>4, <3>1 DEF SamePrefix
      <3>3. NextIs(k, u, p[1]) /\ k \in 0..m
        BY <1>m, <2>4, <3>2 DEF NextIs
      <3> QED BY <1>3, <2>3, <3>3
    <2>5. CASE k = m
      <3>1. recorded'[m + 1] = <<u, p[1]>>
        BY <2>2, <2>5 DEF NextIs
      <3>2. NextIs(m, u, p[1])
        BY <1>m, <2>1, <2>2, <3>1 DEF NextIs
      <3> QED BY <1>3, <2>3, <2>5, <3>2
    <2>6. CASE k = m + 1
      <3>1. p[1] = sec'[u]
        BY <2>2, <2>6 DEF NextIs
      <3>2. p[1] = sec[u] /\ u # t
        BY <1>1, <1>2, <2>2, <3>1
      <3>3. NextIs(m, u, p[1])
        BY <1>m, <2>1, <3>2 DEF NextIs
      <3>4. HoldsAt(Program, recorded', m, u, p[1], p[2], v, w)
        BY <1>3, <2>3, <3>3
      <3>5. Inside(u) /\ LockOf(u) = l
        BY <1>v, <3>2, PastInside
      <3>6. /\ Inside(t) /\ sec[t] \in 1..Len(Program[t]) /\ LockOf(t) = LockAt(t, sec[t])
        BY <2>1, LeaveFrame
      <3>7. LockAt(t, sec[t]) # l
        BY <3>2, <3>5, <3>6, AloneInside DEF Alone
      <3>8. SilentOn(Program, recorded'[m + 1][1], recorded'[m + 1][2],
                     End(Program, recorded'[m + 1][1], recorded'[m + 1][2]), v)
        BY <2>2, <3>6, <3>7, SilentSection DEF IInv
      <3> QED BY <2>6, <3>4, <3>8, HoldsSilent
    <2> QED BY <2>2, <2>4, <2>5, <2>6
  <1> QED BY <1>4, <1>5


\* What is known of the log of a thread.
LogOf(t) ==
  /\ Shape(Program, t, sec[t], acc[t], Len(log[t]))
  /\ \A p \in Past(t) : Finds(t, p, log[t][PlaceOf(Program, t, p)])

\* A log stays right while its thread reads nothing.
LEMMA LogKept ==
  ASSUME IInv, Ready, ManyInv, BodyInv, EntryInv, TurnInv, NEW t \in Threads, Step(t),
         NEW u \in Threads, LogOf(u), log'[u] = log[u],
         Past(u)' = Past(u),
         Shape(Program, u, sec'[u], acc'[u], Len(log[u]))
  PROVE  LogOf(u)'
  <1>1. Program' = Program /\ \A p : PlaceOf(Program, u, p)' = PlaceOf(Program, u, p)
    BY StepFrame, SameProgram
  <1>2. Shape(Program, u, sec[u], acc[u], Len(log[u]))'
    BY <1>1
  <1>3. ASSUME NEW p \in Past(u)
        PROVE  Finds(u, p, log[u][PlaceOf(Program, u, p)])'
    <2>w. PICK w : w = log[u][PlaceOf(Program, u, p)]
      OBVIOUS
    <2>1. Finds(u, p, w)
      BY <2>w DEF LogOf
    <2>2. Finds(u, p, w)'
      BY <2>1, FindsKept
    <2>3. (log[u][PlaceOf(Program, u, p)])' = w
      BY <1>1, <2>w
    <2> QED BY <2>2, <2>3 DEF Finds
  <1> QED BY <1>2, <1>3 DEF LogOf

\* A value that is read is the one its variable has at this place of the order.
LEMMA ReadFinds ==
  ASSUME IInv, Ready, ManyInv, BodyInv, EntryInv, TurnInv, MemInv, NEW t \in Threads,
         ProgramStep(t), NEW q, q = <<sec[t], acc[t]>>
  PROVE  Finds(t, q, mem[NextAccess(t).var])
  <1>1. /\ ~Outside(t) /\ HasSection(t)
        /\ acc[t] \in 1..Len(Body(Program, t, sec[t]))
        /\ NextAccess(t) = Body(Program, t, sec[t])[acc[t]] /\ NextAccess(t) \in Accesses
    BY AccessFrame
  <1>2. /\ sec[t] \in 1..Len(Program[t]) /\ LockOf(t) = LockAt(t, sec[t])
        /\ Ungated(t) <=> ~GatedAt(t, sec[t])
    BY <1>1, SectionHere DEF IInv
  <1>3. VarAt(t, q) = NextAccess(t).var /\ NextAccess(t).var \in Vars
    BY <1>1 DEF VarAt, Accesses
  <1>4. ASSUME NEW l \in Locks, GatedVar(l, VarAt(t, q)),
               NEW k \in 0..Len(recorded), NextIs(k, t, q[1])
        PROVE  HoldsAt(Program, recorded, k, t, q[1], q[2], VarAt(t, q), mem[NextAccess(t).var])
    <2>1. LockAt(t, sec[t]) = l /\ GatedAt(t, sec[t])
      BY <1>1, <1>2, <1>3, <1>4, GuardOf DEF IInv
    <2>2. InGate(t, l)
      BY <1>1, <1>2, <2>1, Structure DEF InGate
    <2>3. k = Cur
      BY <1>4, <2>2, NextIsCur DEF InGate
    <2>4. MemHolds(l, VarAt(t, q))
      BY <1>3, <1>4 DEF MemInv
    <2> QED BY <1>3, <2>2, <2>3, <2>4 DEF MemHolds
  <1>5. ASSUME OwnOf(program, t, VarAt(t, q))
        PROVE  HoldsAt(Program, OwnOrder(t), q[1] - 1, t, q[1], q[2], VarAt(t, q),
                       mem[NextAccess(t).var])
    BY <1>3, <1>5 DEF MemInv, OwnHolds
  <1> QED BY <1>4, <1>5 DEF Finds

\* So the log of a thread that reads stays right.
LEMMA LogAccess ==
  ASSUME IInv, Ready, ManyInv, BodyInv, EntryInv, TurnInv, MemInv, NEW t \in Threads, Step(t),
         ProgramStep(t), LogOf(t)
  PROVE  LogOf(t)'
  <1>1. /\ sec' = sec /\ acc'[t] = acc[t] + 1 /\ HasSection(t)
        /\ acc[t] \in 1..Len(Body(Program, t, sec[t]))
        /\ NextAccess(t) = Body(Program, t, sec[t])[acc[t]] /\ NextAccess(t) \in Accesses
        /\ log'[t] = IF NextAccess(t).op = "store" THEN log[t]
                     ELSE Append(log[t], mem[NextAccess(t).var])
    BY AccessFrame
  <1>2. sec[t] \in 1..Len(Program[t]) /\ Len(Program[t]) \in Nat /\ Program' = Program
    BY <1>1, SectionHere, ProgramTyped, StepFrame, SameProgram DEF IInv
  <1>3. \A p : PlaceOf(Program, t, p)' = PlaceOf(Program, t, p)
    BY <1>2
  <1>4. Past(t)' = Reads(Program, t, sec[t], acc[t] + 1)
    BY <1>1, <1>2 DEF Past
  <1>5. /\ <<sec[t], acc[t]>> \notin Past(t)
        /\ IsRead(Program, t, sec[t], acc[t]) =>
             Past(t)' = Past(t) \cup {<<sec[t], acc[t]>>}
        /\ ~IsRead(Program, t, sec[t], acc[t]) => Past(t)' = Past(t)
    <2>1. /\ <<sec[t], acc[t]>> \notin Reads(Program, t, sec[t], acc[t])
          /\ IsRead(Program, t, sec[t], acc[t]) =>
               Reads(Program, t, sec[t], acc[t] + 1)
                 = Reads(Program, t, sec[t], acc[t]) \cup {<<sec[t], acc[t]>>}
          /\ ~IsRead(Program, t, sec[t], acc[t]) =>
               Reads(Program, t, sec[t], acc[t] + 1) = Reads(Program, t, sec[t], acc[t])
      <3>1. /\ sec[t] \in 1..Len(Program[t]) /\ Len(Program[t]) \in Nat
            /\ acc[t] \in 1..Len(Body(Program, t, sec[t]))
        BY <1>1, <1>2
      <3> QED BY ONLY <3>1, ReadsNext
    <2> QED BY <1>4, <2>1 DEF Past
  <1>n. PICK n \in Nat : n = Len(log[t])
    BY DEF IInv, TypeOK, ProgramTypeOK
  <1>6. /\ IsRead(Program, t, sec[t], acc[t]) =>
             /\ Shape(Program, t, sec[t], acc[t] + 1, n + 1)
             /\ PlaceOf(Program, t, <<sec[t], acc[t]>>) = n + 1
        /\ ~IsRead(Program, t, sec[t], acc[t]) => Shape(Program, t, sec[t], acc[t] + 1, n)
    <2>1. Shape(Program, t, sec[t], acc[t], n)
      BY <1>n DEF LogOf
    <2> QED BY <1>1, <1>2, <2>1, ShapeNext
  <1>7. CASE ~IsRead(Program, t, sec[t], acc[t])
    <2>1. Past(t)' = Past(t) /\ log'[t] = log[t]
      BY <1>1, <1>5, <1>7 DEF IsRead
    <2>2. Shape(Program, t, sec'[t], acc'[t], Len(log[t]))
      BY <1>1, <1>6, <1>7, <1>n
    <2> QED BY <2>1, <2>2, LogKept
  <1>8. CASE IsRead(Program, t, sec[t], acc[t])
    <2>q. PICK q, w : q = <<sec[t], acc[t]>> /\ w = mem[NextAccess(t).var]
      OBVIOUS
    <2>1. /\ Past(t)' = Past(t) \cup {q} /\ PlaceOf(Program, t, q) = n + 1
          /\ Shape(Program, t, sec[t], acc[t] + 1, n + 1)
      BY <1>5, <1>6, <1>8, <2>q
    <2>2. /\ Len(log'[t]) = n + 1 /\ log'[t][n + 1] = w
          /\ \A i \in 1..n : log'[t][i] = log[t][i]
      <3>1. NextAccess(t).var \in Vars
        BY <1>1 DEF Accesses
      <3>2. log[t] \in Seq(Values) /\ w \in Values
        BY <2>q, <3>1 DEF IInv, TypeOK, ProgramTypeOK
      <3>3. log'[t] = Append(log[t], w)
        BY <1>1, <1>8, <2>q DEF IsRead
      <3> QED BY <1>n, <3>2, <3>3
    <2>3. Shape(Program, t, sec[t], acc[t], Len(log[t]))'
      BY <1>1, <1>2, <2>1, <2>2
    <2>4. \A p \in Past(t) : PlaceOf(Program, t, p) \in 1..n
      BY <1>n DEF LogOf, Shape, Past
    <2>5. /\ program' = program /\ mode' = mode /\ recorded' = recorded
          /\ \A p : VarAt(t, p)' = VarAt(t, p)
          /\ \A l, v : GatedVar(l, v)' = GatedVar(l, v)
      BY AccessFrame, StepFrame, SameProgram
    <2>6. ASSUME NEW p, NEW x, Finds(t, p, x), log'[t][PlaceOf(Program, t, p)] = x
          PROVE  Finds(t, p, log[t][PlaceOf(Program, t, p)])'
      <3>1. (log[t][PlaceOf(Program, t, p)])' = x
        BY <1>3, <2>6
      <3>2. \A k : NextIs(k, t, p[1])' <=> NextIs(k, t, p[1])
        BY <1>1, <2>5 DEF NextIs
      <3>3. OwnOrder(t)' = OwnOrder(t)
        BY DEF OwnOrder
      <3> QED BY <1>2, <2>5, <2>6, <3>1, <3>2, <3>3 DEF Finds
    <2>7. ASSUME NEW p \in Past(t)
          PROVE  Finds(t, p, log[t][PlaceOf(Program, t, p)])'
      <3>1. log'[t][PlaceOf(Program, t, p)] = log[t][PlaceOf(Program, t, p)]
        BY <2>2, <2>4
      <3>2. Finds(t, p, log[t][PlaceOf(Program, t, p)])
        BY DEF LogOf
      <3> QED BY <2>6, <3>1, <3>2
    <2>8. Finds(t, q, log[t][PlaceOf(Program, t, q)])'
      <3>1. Finds(t, q, w)
        BY <2>q, ReadFinds
      <3> QED BY <2>1, <2>2, <2>6, <3>1
    <2>9. \A p \in Past(t)' : Finds(t, p, log[t][PlaceOf(Program, t, p)])'
      BY <2>1, <2>7, <2>8
    <2> QED BY <2>3, <2>9 DEF LogOf
  <1> QED BY <1>7, <1>8

\* Every step of a thread keeps the logs.
LEMMA LogStep ==
  ASSUME IInv, Ready, ManyInv, BodyInv, EntryInv, TurnInv, MemInv, LogInv,
         NEW t \in Threads, Step(t)
  PROVE  LogInv'
  <1> SUFFICES ASSUME NEW u \in Threads
               PROVE  LogOf(u)'
    BY DEF LogInv, LogOf
  <1>1. LogOf(u) /\ Shape(Program, u, sec[u], acc[u], Len(log[u]))
    BY DEF LogInv, LogOf
  <1>2. Program' = Program
    BY StepFrame, SameProgram
  <1>3. CASE u # t \/ Quiet(t)
    <2>1. sec'[u] = sec[u] /\ acc'[u] = acc[u] /\ log'[u] = log[u]
      BY <1>3, StepFrame, StaysInside DEF Quiet
    <2>2. Past(u)' = Past(u)
      BY <1>2, <2>1 DEF Past
    <2> QED BY <1>1, <2>1, <2>2, LogKept
  <1>4. CASE u = t /\ ProgramStep(t)
    BY <1>1, <1>4, LogAccess
  <1>5. CASE u = t /\ (Skips(t) \/ Leaves(t))
    <2>1. /\ log' = log /\ sec'[t] = sec[t] + 1 /\ acc'[t] = 1
          /\ sec[t] \in 1..Len(Program[t]) /\ acc[t] = End(Program, t, sec[t])
      BY <1>5, LeaveFrame
    <2>2. Len(Program[t]) \in Nat /\ Len(Body(Program, t, sec[t])) \in Nat
      BY <2>1, ProgramTyped, BodyTyped DEF IInv
    <2>3. Past(t)' = Past(t)
      BY <1>2, <2>1, <2>2, ReadsEnd DEF Past
    <2>4. Shape(Program, t, sec'[t], acc'[t], Len(log[t]))
      BY <1>1, <1>5, <2>1, <2>2, ShapeEnd
    <2> QED BY <1>1, <1>5, <2>1, <2>3, <2>4, LogKept
  <1> QED BY <1>3, <1>4, <1>5, StepKinds

\* And what is kept of the recorded run.
LEMMA KeptStep ==
  ASSUME IInv, Ready, ManyInv, BodyInv, EntryInv, TurnInv, KeptInv,
         NEW t \in Threads, Step(t)
  PROVE  KeptInv'
  <1>1. UNCHANGED <<program, mode, recLog, recMem>>
    BY StepFrame
  <1> SUFFICES ASSUME mode = "replay" PROVE KeptInv'
    BY <1>1 DEF KeptInv
  <1>2. recorded' = recorded
    <2>1. CASE Quiet(t) \/ ProgramStep(t)
      BY <2>1, AccessFrame DEF Quiet
    <2>2. CASE Skips(t) \/ Leaves(t)
      BY <2>2, LeaveFrame, LeaveOrder
    <2> QED BY <2>1, <2>2, StepKinds
  <1>3. /\ Program' = Program /\ \A u, p : VarAt(u, p)' = VarAt(u, p)
        /\ \A l, v : GatedVar(l, v)' = GatedVar(l, v)
    BY <1>1, SameProgram
  <1>4. \A k, u, s : NextIs(k, u, s)' <=> NextIs(k, u, s)
    BY <1>1, <1>2 DEF NextIs
  <1>5. \A u, p, w : Finds(u, p, w)' <=> Finds(u, p, w)
    BY <1>1, <1>2, <1>3, <1>4 DEF Finds, OwnOrder
  <1>6. \A u \in Threads : RecLogHolds(u)'
    BY <1>1, <1>3, <1>5 DEF KeptInv, RecLogHolds
  <1>7. \A v \in Vars : RecMemHolds(v)'
    BY <1>1, <1>2, <1>3 DEF KeptInv, RecMemHolds, OwnOrder
  <1> QED BY <1>6, <1>7 DEF KeptInv

-------------------------------------------------------------------------------
\* The first state, and the start of the replay.

\* Before a thread has read anything its log is right.
LEMMA NothingRead ==
  ASSUME NEW code, NEW u
  PROVE  /\ Reads(code, u, 1, 1) = {} /\ Shape(code, u, 1, 1, 0)
         /\ \A order, v : HoldsAfter(code, order, 0, v, <<>>)
         /\ \A order, t, v : HoldsAt(code, order, 0, t, 1, 1, v, <<>>)
  <1>1. \A order, v : HoldsAfter(code, order, 0, v, <<>>)
    BY DEF HoldsAfter
  <1>2. \A order, t, v : HoldsAt(code, order, 0, t, 1, 1, v, <<>>)
    BY <1>1, HoldsAtFirst
  <1> QED BY <1>1, <1>2, ReadsFirst, ShapeFirst

\* Where every thread is before its first section.
AtStart ==
  /\ \A t \in Threads : pc[t] = "run" /\ sec[t] = 1 /\ acc[t] = 1 /\ log[t] = <<>>
  /\ \A v \in Vars : mem[v] = <<>>
  /\ Cur = 0 /\ current_tid = NoThread /\ nest_num = 0 /\ file_read_locked = FALSE

\* There the parts of the invariant that are about the run that starts hold.
LEMMA StartOrder ==
  AtStart /\ (\A t \in Threads : Len(Program[t]) \in Nat) =>
    ManyInv /\ BodyInv /\ TurnInv /\ MemInv /\ LogInv
  <1> SUFFICES ASSUME AtStart, \A t \in Threads : Len(Program[t]) \in Nat
               PROVE  ManyInv /\ BodyInv /\ TurnInv /\ MemInv /\ LogInv
    OBVIOUS
  <1> USE DEF AtStart
  <1>1. \A t \in Threads : ~Inside(t) /\ Outside(t)
    BY DEF Inside, InSection, Outside
  <1>2. ManyInv
    BY <1>1, NoThreadAssumption DEF ManyInv
  <1>3. BodyInv
    <2> SUFFICES ASSUME NEW t \in Threads
                 PROVE  sec[t] <= Len(Program[t]) + 1 /\ Outside(t) /\ acc[t] = 1
      BY DEF BodyInv
    <2>1. sec[t] = 1 /\ acc[t] = 1 /\ Len(Program[t]) \in Nat
      OBVIOUS
    <2> QED BY <1>1, <2>1
  <1>4. TurnInv
    BY DEF TurnInv
  <1>5. MemInv
    <2>1. ASSUME NEW v \in Vars, NEW l
          PROVE  MemHolds(l, v)
      BY <1>1, NothingRead DEF MemHolds, InGate
    <2>2. ASSUME NEW v \in Vars, NEW u \in Threads
          PROVE  OwnHolds(u, v)
      <3>1. HoldsAt(Program, OwnOrder(u), 0, u, 1, 1, v, <<>>)
        BY NothingRead
      <3>2. sec[u] - 1 = 0 /\ sec[u] = 1 /\ acc[u] = 1 /\ mem[v] = <<>>
        OBVIOUS
      <3> QED BY <3>1, <3>2 DEF OwnHolds
    <2> QED BY <2>1, <2>2 DEF MemInv
  <1>6. LogInv
    <2> SUFFICES ASSUME NEW t \in Threads
                 PROVE  /\ Shape(Program, t, sec[t], acc[t], Len(log[t]))
                        /\ \A p \in Past(t) : Finds(t, p, log[t][PlaceOf(Program, t, p)])
      BY DEF LogInv
    <2>1. Past(t) = {} /\ Shape(Program, t, 1, 1, 0)
      BY NothingRead DEF Past
    <2>2. Len(log[t]) = 0
      OBVIOUS
    <2> QED BY <2>1, <2>2
  <1> QED BY <1>2, <1>3, <1>4, <1>5, <1>6

\* The first state.
LEMMA OrderInit ==
  ASSUME Init
  PROVE  OrderInv
  <1>1. \A t \in Threads : Len(Program[t]) \in Nat
    <2>1. TypeOK
      BY IInvInit DEF IInv
    <2> QED BY <2>1, ProgramTyped
  <1>2. mode = "record" /\ recorded = <<>> /\ file = <<>>
    BY DEF Init, ProgramInit
  <1>3. AtStart
    BY <1>2 DEF Init, ProgramInit, AtStart, Cur
  <1>4. EntryInv
    <2>1. \A t \in Threads : \A s \in 1..Len(Program[t]) : ~(s < sec[t])
      BY <1>1, <1>3 DEF AtStart
    <2>2. Len(recorded) = 0 /\ Len(file) = 0
      BY <1>2
    <2> QED BY <1>2, <2>1, <2>2 DEF EntryInv
  <1>5. KeptInv
    BY <1>2 DEF KeptInv
  <1> QED BY <1>1, <1>3, <1>4, <1>5, StartOrder DEF OrderInv

\* When every thread has finished, every read is past and all sections have left.
LEMMA DoneParts ==
  ASSUME IInv, BodyInv, AllDone, NEW t \in Threads
  PROVE  /\ sec[t] = Len(Program[t]) + 1 /\ acc[t] = 1 /\ Len(Program[t]) \in Nat
         /\ Past(t) = AllReads(Program, t) /\ ~Inside(t)
  <1>1. /\ pc[t] = "run" /\ ~(sec[t] <= Len(Program[t])) /\ sec[t] <= Len(Program[t]) + 1
        /\ acc[t] = 1 /\ sec[t] \in Nat
    BY DEF AllDone, HasSection, BodyInv, Outside, IInv, TypeOK, ProgramTypeOK
  <1>2. Len(Program[t]) \in Nat
    BY ProgramTyped DEF IInv
  <1>3. sec[t] = Len(Program[t]) + 1
    BY <1>1, <1>2
  <1> QED BY <1>1, <1>2, <1>3 DEF Past, AllReads, Inside, InSection

\* So a run that has ended has followed the record to its end.
LEMMA DoneCur ==
  ASSUME IInv, BodyInv, EntryInv, TurnInv, AllDone
  PROVE  Cur = Len(recorded)
  <1>n. PICK n \in Nat, m \in Nat : n = Cur /\ m = Len(recorded) /\ n <= m
    BY CurTyped
  <1>1. ASSUME n < m
        PROVE  FALSE
    <2>1. m \in 1..Len(recorded)
      BY <1>n, <1>1
    <2>2. PICK t \in Threads, s \in Nat :
            s \in 1..Len(Program[t]) /\ recorded[m] = <<t, s>> /\ EntryOf(m, t, s)
      BY <2>1, EntryTyped
    <2>3. m <= n <=> s < sec[t]
      BY <1>n, <2>2 DEF EntryOf
    <2>4. s < sec[t]
      BY <2>2, DoneParts
    <2> QED BY <1>n, <1>1, <2>3, <2>4
  <1> QED BY <1>n, <1>1

\* The entries of the record stand for the whole program when the replay starts.
LEMMA RerunEntries ==
  ASSUME IInv, BodyInv, EntryInv, TurnInv, Rerun
  PROVE  EntryInv'
  <1>1. /\ mode = "record" /\ AllDone /\ mode' = "replay" /\ program' = program
        /\ \A t \in Threads : sec'[t] = 1
        /\ UNCHANGED <<file, recorded>>
    BY DEF Rerun, StartReplay
  <1>2. Cur' = 0
    BY <1>1 DEF Rerun, Cur
  <1>3. ASSUME NEW i \in 1..Len(recorded), NEW t \in Threads, NEW s \in Nat,
               recorded[i] = <<t, s>>
        PROVE  EntryOf(i, t, s)'
    <2>1. EntryOf(i, t, s)
      BY <1>3 DEF EntryInv
    <2>2. ~(i <= 0)
      OBVIOUS
    <2>3. s \in 1..Len(Program[t])
      BY <2>1 DEF EntryOf
    <2>4. ~(s < 1)
      BY <2>3
    <2> QED BY <1>1, <1>2, <2>1, <2>2, <2>4, SameProgram DEF EntryOf
  <1>4. ASSUME NEW t \in Threads, NEW s \in 1..Len(Program[t]), GatedAt(t, s)
        PROVE  \E i \in 1..Len(recorded) : recorded[i] = <<t, s>>
    <2>1. s < sec[t]
      BY <1>1, DoneParts
    <2> QED BY <1>4, <2>1 DEF EntryInv
  <1>5. Len(recorded') = Len(file')
    BY <1>1 DEF EntryInv
  <1>6. \A t \in Threads : \A s \in 1..Len(Program'[t]) :
          GatedAt(t, s)' => \E i \in 1..Len(recorded') : recorded'[i] = <<t, s>>
    BY <1>1, <1>4, SameProgram
  <1> QED BY <1>1, <1>3, <1>5, <1>6 DEF EntryInv

\* What the first run has read and left in memory is what the record says.
LEMMA RerunKept ==
  ASSUME IInv, OrderInv, Rerun
  PROVE  KeptInv'
  <1> USE DEF OrderInv
  <1>1. /\ mode = "record" /\ AllDone /\ mode' = "replay" /\ program' = program
        /\ recorded' = recorded /\ recLog' = log /\ recMem' = mem
    BY DEF Rerun, StartReplay
  <1>2. /\ Program' = Program /\ \A t, p : VarAt(t, p)' = VarAt(t, p)
        /\ \A l, v : GatedVar(l, v)' = GatedVar(l, v)
    BY <1>1, SameProgram
  <1>3. \A k, t, s : NextIs(k, t, s)' => NextIs(k, t, s)
    BY <1>1 DEF NextIs
  <1>4. \A t, p, w : Finds(t, p, w) => Finds(t, p, w)'
    BY <1>1, <1>2, <1>3 DEF Finds, OwnOrder
  <1>5. ASSUME NEW t \in Threads
        PROVE  RecLogHolds(t)'
    <2>1. Past(t) = AllReads(Program, t)
      BY <1>1, DoneParts
    <2>2. /\ Shape(Program, t, sec[t], acc[t], Len(log[t]))
          /\ \A p \in Past(t) : Finds(t, p, log[t][PlaceOf(Program, t, p)])
      BY DEF LogInv
    <2>3. IsFiniteSet(AllReads(Program, t)) /\ Len(log[t]) = Cardinality(AllReads(Program, t))
      BY <2>1, <2>2 DEF Shape, Past
    <2>4. ASSUME NEW p \in AllReads(Program, t)
          PROVE  Finds(t, p, recLog[t][PlaceOf(Program, t, p)])'
      <3>1. PICK w : w = log[t][PlaceOf(Program, t, p)]
        OBVIOUS
      <3>2. Finds(t, p, w)'
        BY <1>4, <2>1, <2>2, <3>1
      <3>3. recLog'[t][PlaceOf(Program', t, p)] = w
        BY <1>1, <1>2, <3>1
      <3> QED BY <3>2, <3>3
    <2> QED BY <1>1, <1>2, <2>3, <2>4 DEF RecLogHolds
  <1>6. ASSUME NEW v \in Vars
        PROVE  RecMemHolds(v)'
    <2>1. ASSUME NEW l \in Locks, GatedVar(l, v)
          PROVE  HoldsAfter(Program, recorded, Len(recorded), v, mem[v])
      <3>1. MemHolds(l, v) /\ Cur = Len(recorded)
        BY <1>1, <2>1, DoneCur DEF MemInv
      <3>2. \A t \in Threads : ~InGate(t, l)
        BY <1>1, DoneParts DEF InGate
      <3> QED BY <3>1, <3>2 DEF MemHolds
    <2>2. ASSUME NEW u \in Threads, OwnOf(program, u, v)
          PROVE  HoldsAfter(Program, OwnOrder(u), Len(Program[u]), v, mem[v])
      <3>1. OwnHolds(u, v)
        BY <2>2 DEF MemInv
      <3>2. sec[u] - 1 = Len(Program[u]) /\ acc[u] = 1
        BY <1>1, DoneParts
      <3> QED BY <3>1, <3>2, HoldsAtFirst DEF OwnHolds
    <2> QED BY <1>1, <1>2, <2>1, <2>2 DEF RecMemHolds, OwnOrder
  <1> QED BY <1>5, <1>6 DEF KeptInv

\* The second run starts with the record of the first.
LEMMA OrderRerun ==
  ASSUME IInv, OrderInv, Rerun
  PROVE  OrderInv'
  <1>1. /\ mode' = "replay" /\ program' = program
        /\ \A t \in Threads :
             pc'[t] = "run" /\ sec'[t] = 1 /\ acc'[t] = 1 /\ log'[t] = <<>>
        /\ \A v \in Vars : mem'[v] = <<>>
    BY DEF Rerun, StartReplay
  <1>2. AtStart'
    BY <1>1 DEF Rerun, AtStart, Cur
  <1>3. (\A t \in Threads : Len(Program[t]) \in Nat)'
    <2>1. TypeOK
      BY DEF IInv
    <2>2. \A t \in Threads : Len(Program[t]) \in Nat
      BY <2>1, ProgramTyped
    <2> QED BY <1>1, <2>2, SameProgram
  <1>4. (AtStart /\ (\A t \in Threads : Len(Program[t]) \in Nat) =>
           ManyInv /\ BodyInv /\ TurnInv /\ MemInv /\ LogInv)'
    BY StartOrder, PTL
  <1>5. EntryInv'
    BY RerunEntries DEF OrderInv
  <1>6. KeptInv'
    BY RerunKept
  <1> QED BY <1>2, <1>3, <1>4, <1>5, <1>6 DEF OrderInv

\* Nothing changes.
LEMMA OrderIdle ==
  ASSUME OrderInv, UNCHANGED vars
  PROVE  OrderInv'
  <1> USE DEF OrderInv
  <1>1. /\ UNCHANGED programVars /\ UNCHANGED gateVars /\ program' = program
    BY DEF vars, programVars
  <1>2. /\ Program' = Program /\ MultiClock' = MultiClock
        /\ \A t, s : LockAt(t, s)' = LockAt(t, s)
        /\ \A t, s : GatedAt(t, s)' = GatedAt(t, s)
        /\ \A l, v : GatedVar(l, v)' = GatedVar(l, v)
        /\ \A t, p : VarAt(t, p)' = VarAt(t, p)
    BY <1>1, SameProgram DEF MultiClock
  <1>3. /\ \A t : Inside(t)' = Inside(t) /\ LockOf(t)' = LockOf(t) /\ Outside(t)' = Outside(t)
        /\ \A t, l : InGate(t, l)' = InGate(t, l)
        /\ Cur' = Cur /\ \A t : Past(t)' = Past(t)
    BY <1>1, <1>2 DEF programVars, gateVars, Inside, InSection, Ungated, LockOf, Section,
       GateLock, Outside, InGate, Cur, Past
  <1>4. /\ \A k, t, s : NextIs(k, t, s)' <=> NextIs(k, t, s)
        /\ \A i, t, s : EntryOf(i, t, s)' <=> EntryOf(i, t, s)
    BY <1>1, <1>2, <1>3 DEF programVars, gateVars, NextIs, EntryOf
  <1>5. \A t, p, w : Finds(t, p, w)' <=> Finds(t, p, w)
    BY <1>1, <1>2, <1>4 DEF programVars, gateVars, Finds, OwnOrder
  <1>6. ManyInv' /\ BodyInv' /\ TurnInv'
    BY <1>1, <1>2, <1>3 DEF programVars, gateVars, ManyInv, BodyInv, TurnInv
  <1>7. EntryInv'
    BY <1>1, <1>2, <1>4 DEF programVars, gateVars, EntryInv
  <1>8. MemInv'
    <2>1. \A l, v : MemHolds(l, v)' <=> MemHolds(l, v)
      BY <1>1, <1>2, <1>3 DEF programVars, gateVars, MemHolds
    <2>2. \A u, v : OwnHolds(u, v)' <=> OwnHolds(u, v)
      BY <1>1, <1>2 DEF programVars, OwnHolds, OwnOrder
    <2> QED BY <1>1, <1>2, <2>1, <2>2 DEF MemInv
  <1>9. LogInv'
    BY <1>1, <1>2, <1>3, <1>5 DEF programVars, LogInv
  <1>10. KeptInv'
    <2>1. \A t : RecLogHolds(t)' <=> RecLogHolds(t)
      BY <1>1, <1>2, <1>5 DEF programVars, RecLogHolds
    <2>2. \A v : RecMemHolds(v)' <=> RecMemHolds(v)
      BY <1>1, <1>2 DEF programVars, gateVars, RecMemHolds, OwnOrder
    <2> QED BY <1>1, <2>1, <2>2 DEF programVars, KeptInv
  <1> QED BY <1>6, <1>7, <1>8, <1>9, <1>10

\* The program is one of Programs, and stays the same.
LEMMA OneProgram == Spec => [](program \in Programs)
  <1>1. Init => program \in Programs
    BY DEF Init, ProgramInit
  <1>2. ASSUME IInv, [Next]_vars
        PROVE  program' = program
    <2>1. CASE \E t \in Threads : Step(t)
      BY <1>2, <2>1, StepFrame
    <2>2. CASE ~\E t \in Threads : Step(t)
      BY <1>2, <2>2 DEF Next, Rerun, StartReplay, Ended, vars, programVars
    <2> QED BY <2>1, <2>2
  <1>3. IInv /\ program \in Programs /\ [Next]_vars => (program \in Programs)'
    BY <1>2
  <1> QED BY <1>1, <1>3, Invariance, PTL DEF Spec

\* Both runs of these programs execute their gated sections as if one after the
\* other, in the order of the record file.
LEMMA InOrder == Spec => [](Ready => OrderInv)
  <1>1. Init => OrderInv
    BY OrderInit
  <1>2. ASSUME IInv, IInv', IInv' /\ Ready' /\ ManyInv' => Alone', Ready => OrderInv,
               [Next]_vars, Ready'
        PROVE  OrderInv'
    <2>1. program' = program
      BY <1>2, StepFrame DEF Next, Rerun, StartReplay, Ended, vars, programVars
    <2>2. Ready' = Ready
      BY <2>1 DEF Ready, CountsMix
    <2>3. Ready /\ OrderInv
      BY <1>2, <2>2
    <2>4. ASSUME NEW t \in Threads, Step(t)
          PROVE  OrderInv'
      <3>1. ManyInv' /\ BodyInv' /\ EntryInv' /\ TurnInv'
        BY <1>2, <2>3, <2>4, ManyStep, BodyStep, EntryStep, TurnKept DEF OrderInv
      <3>2. Alone'
        BY <1>2, <3>1
      <3>3. MemInv'
        BY <1>2, <2>3, <2>4, <3>2, MemStep DEF OrderInv
      <3>4. LogInv' /\ KeptInv'
        BY <1>2, <2>3, <2>4, LogStep, KeptStep DEF OrderInv
      <3> QED BY <3>1, <3>3, <3>4 DEF OrderInv
    <2>5. CASE Rerun
      BY <1>2, <2>3, <2>5, OrderRerun
    <2>6. CASE UNCHANGED vars
      BY <2>3, <2>6, OrderIdle
    <2> QED BY <1>2, <2>4, <2>5, <2>6 DEF Next, Ended
  <1>3. IInv /\ IInv' /\ (IInv' /\ Ready' /\ ManyInv' => Alone') /\ (Ready => OrderInv)
          /\ [Next]_vars => (Ready => OrderInv)'
    BY <1>2
  <1>4. (IInv /\ Ready /\ ManyInv => Alone)'
    BY AloneInside, PTL
  <1>5. IInv /\ IInv' /\ (Ready => OrderInv) /\ [Next]_vars => (Ready => OrderInv)'
    BY <1>3, <1>4
  <1> QED BY <1>1, <1>5, Invariance, PTL DEF Spec

-------------------------------------------------------------------------------
\* What the replay observes.

\* The sections of the orders end somewhere.
LEMMA OrderEnds ==
  ASSUME IInv, EntryInv
  PROVE  /\ \A i \in 1..Len(recorded) :
              End(Program, recorded[i][1], recorded[i][2]) \in Int
         /\ \A u \in Threads : \A i \in 1..Len(Program[u]) :
              End(Program, OwnOrder(u)[i][1], OwnOrder(u)[i][2]) \in Int
  <1>1. ASSUME NEW i \in 1..Len(recorded)
        PROVE  End(Program, recorded[i][1], recorded[i][2]) \in Int
    <2>1. PICK t \in Threads, s \in Nat : recorded[i] = <<t, s>> /\ s \in 1..Len(Program[t])
      BY EntryTyped
    <2>2. End(Program, t, s) \in Nat
      BY <2>1, BodyTyped DEF IInv
    <2> QED BY <2>1, <2>2
  <1>2. ASSUME NEW u \in Threads, NEW i \in 1..Len(Program[u])
        PROVE  End(Program, OwnOrder(u)[i][1], OwnOrder(u)[i][2]) \in Int
    <2>1. OwnOrder(u)[i] = <<u, i>>
      BY DEF OwnOrder
    <2>2. End(Program, u, i) \in Nat
      BY BodyTyped DEF IInv
    <2> QED BY <2>1, <2>2
  <1> QED BY <1>1, <1>2

\* What a read finds is one value.
LEMMA OneFind ==
  ASSUME IInv, Ready, EntryInv, mode = "replay", NEW t \in Threads,
         NEW p \in AllReads(Program, t), NEW w, NEW x, Finds(t, p, w), Finds(t, p, x)
  PROVE  w = x
  <1>v. PICK v \in Vars : v = VarAt(t, p)
    BY PastTyped DEF AllReads, IInv
  <1>1. /\ p[1] \in 1..Len(Program[t]) /\ p[1] \in Nat /\ p[2] \in Int
        /\ \A l : GatedVar(l, v) => GatedAt(t, p[1])
        /\ \A u : OwnOf(program, u, v) => u = t
        /\ Len(Program[t]) \in Nat
    <2>1. TypeOK
      BY DEF IInv
    <2>2. p[1] \in Nat /\ p[2] \in Nat /\ p[1] \in 1..Len(Program[t])
      BY <2>1, PastTyped DEF AllReads
    <2>3. /\ \A l : GatedVar(l, v) => GatedAt(t, p[1])
          /\ \A u : OwnOf(program, u, v) => u = t
      BY <1>v, <2>1, PastTyped DEF AllReads
    <2> QED BY <2>1, <2>2, <2>3, ProgramTyped
  <1>2. CASE \E u \in Threads : OwnOf(program, u, v)
    <2>1. /\ HoldsAt(Program, OwnOrder(t), p[1] - 1, t, p[1], p[2], v, w)
          /\ HoldsAt(Program, OwnOrder(t), p[1] - 1, t, p[1], p[2], v, x)
      BY <1>v, <1>1, <1>2 DEF Finds
    <2>2. PICK k \in Nat : k = p[1] - 1 /\ k <= Len(Program[t])
      BY <1>1
    <2>3. \A i \in 1..k : End(Program, OwnOrder(t)[i][1], OwnOrder(t)[i][2]) \in Int
      <3>1. \A i \in 1..k : i \in 1..Len(Program[t])
        BY <1>1, <2>2
      <3> QED BY <3>1, OrderEnds
    <2> QED BY <1>1, <2>1, <2>2, <2>3, OneValueAt
  <1>3. CASE \E l \in Locks : GatedVar(l, v)
    <2>1. PICK l \in Locks : GatedVar(l, v)
      BY <1>3
    <2>2. PICK i \in 1..Len(recorded) : recorded[i] = <<t, p[1]>>
      BY <1>1, <2>1 DEF EntryInv
    <2>3. PICK k \in Nat : k = i - 1 /\ k < Len(recorded) /\ k \in 0..Len(recorded)
      BY DEF IInv, TypeOK
    <2>4. NextIs(k, t, p[1])
      BY <2>2, <2>3 DEF NextIs
    <2>5. /\ HoldsAt(Program, recorded, k, t, p[1], p[2], v, w)
          /\ HoldsAt(Program, recorded, k, t, p[1], p[2], v, x)
      BY <1>v, <2>1, <2>3, <2>4 DEF Finds
    <2>6. \A j \in 1..k : End(Program, recorded[j][1], recorded[j][2]) \in Int
      <3>1. \A j \in 1..k : j \in 1..Len(recorded)
        BY <2>3
      <3> QED BY <3>1, OrderEnds
    <2> QED BY <1>1, <2>5, <2>6, OneValueAt
  <1> QED BY <1>2, <1>3 DEF Ready, OrderedVars, GatedVar

\* A value read in the replay is the one of the same read of the recorded run.
LEMMA LogsAgree ==
  ASSUME IInv, Ready, OrderInv, mode = "replay", NEW t \in Threads
  PROVE  /\ Len(log[t]) <= Len(recLog[t])
         /\ \A i \in 1..Len(log[t]) : log[t][i] = recLog[t][i]
  <1> USE DEF OrderInv
  <1>1. /\ Shape(Program, t, sec[t], acc[t], Len(log[t]))
        /\ \A p \in Past(t) : Finds(t, p, log[t][PlaceOf(Program, t, p)])
        /\ RecLogHolds(t)
    BY DEF LogInv, KeptInv
  <1>2. Past(t) \subseteq AllReads(Program, t)
    <2>1. sec[t] \in Nat \ {0} /\ acc[t] \in Nat /\ Len(Program[t]) \in Nat
      <3>1. TypeOK
        BY DEF IInv
      <3> QED BY <3>1, ProgramTyped DEF TypeOK, ProgramTypeOK
    <2>2. sec[t] = Len(Program[t]) + 1 => acc[t] = 1
      <3>1. ~Outside(t) => HasSection(t)
        BY Structure DEF Outside
      <3> QED BY <2>1, <3>1 DEF BodyInv, HasSection
    <2>3. sec[t] < Len(Program[t]) + 1 \/ (sec[t] = Len(Program[t]) + 1 /\ acc[t] <= 1)
      BY <2>1, <2>2 DEF BodyInv
    <2> QED BY <2>1, <2>3, ReadsGrow DEF Past, AllReads
  <1>3. Len(log[t]) <= Len(recLog[t])
    BY <1>1, <1>2, FS_Subset DEF Shape, Past, RecLogHolds
  <1>4. ASSUME NEW i \in 1..Len(log[t])
        PROVE  log[t][i] = recLog[t][i]
    <2>1. PICK p \in Past(t) : PlaceOf(Program, t, p) = i
      BY <1>1 DEF Shape, Past
    <2>2. p \in AllReads(Program, t)
      BY <1>2
    <2>3. Finds(t, p, log[t][i]) /\ Finds(t, p, recLog[t][i])
      BY <1>1, <2>1, <2>2 DEF RecLogHolds
    <2> QED BY <2>2, <2>3, OneFind
  <1> QED BY <1>3, <1>4

\* A replay that has ended has the memory of the recorded run.
LEMMA MemAgrees ==
  ASSUME IInv, Ready, OrderInv, mode = "replay", AllDone
  PROVE  mem = recMem
  <1> USE DEF OrderInv
  <1>m. PICK m \in Nat : m = Len(recorded)
    BY CurTyped
  <1>1. ASSUME NEW v \in Vars
        PROVE  mem[v] = recMem[v]
    <2>0. RecMemHolds(v)
      BY DEF KeptInv
    <2>1. CASE \E u \in Threads : OwnOf(program, u, v)
      <3>1. PICK u \in Threads : OwnOf(program, u, v)
        BY <2>1
      <3>2. PICK k \in Nat : k = Len(Program[u]) /\ sec[u] - 1 = k /\ acc[u] = 1
        BY DoneParts
      <3>3. HoldsAt(Program, OwnOrder(u), k, u, sec[u], 1, v, mem[v])
        BY <3>1, <3>2 DEF MemInv, OwnHolds
      <3>4. HoldsAfter(Program, OwnOrder(u), k, v, mem[v])
        BY <3>3, HoldsAtFirst
      <3>5. HoldsAfter(Program, OwnOrder(u), k, v, recMem[v])
        BY <2>0, <3>1, <3>2 DEF RecMemHolds
      <3>6. \A i \in 1..k : End(Program, OwnOrder(u)[i][1], OwnOrder(u)[i][2]) \in Int
        BY <3>2, OrderEnds
      <3> QED BY <3>4, <3>5, <3>6, OneValueAfter
    <2>2. CASE \E l \in Locks : GatedVar(l, v)
      <3>1. PICK l \in Locks : GatedVar(l, v)
        BY <2>2
      <3>2. MemHolds(l, v) /\ Cur = m
        BY <1>m, <3>1, DoneCur DEF MemInv
      <3>3. \A t \in Threads : ~InGate(t, l)
        BY DoneParts DEF InGate
      <3>4. HoldsAfter(Program, recorded, m, v, mem[v])
        BY <3>2, <3>3 DEF MemHolds
      <3>5. HoldsAfter(Program, recorded, m, v, recMem[v])
        BY <1>m, <2>0, <3>1 DEF RecMemHolds
      <3>6. \A i \in 1..m : End(Program, recorded[i][1], recorded[i][2]) \in Int
        BY <1>m, OrderEnds
      <3> QED BY <3>4, <3>5, <3>6, OneValueAfter
    <2> QED BY <2>1, <2>2 DEF Ready, OrderedVars, GatedVar
  <1>2. mem \in [Vars -> Values] /\ recMem \in [Vars -> Values]
    BY DEF IInv, TypeOK, ProgramTypeOK
  <1> QED BY <1>1, <1>2

\* The replay reads what the recorded run read and ends with its memory, for every
\* team and every program whose locks reomp_tgate_init_locks has made, without gates
\* inside of sections under many locks, in which a variable is accessed in the
\* sections of one gate, outside of reductions, or by one thread only.
THEOREM TidReadsReplayed ==
  ASSUME \A p \in Programs : MixesCounts(p) \/ OrderedVars(p)
  PROVE  Spec => []ReplayFaithfulUnmixed
  <1>1. IInv /\ (Ready => OrderInv) /\ program \in Programs => ReplayFaithfulUnmixed
    <2> SUFFICES ASSUME IInv, Ready => OrderInv, program \in Programs,
                        ~CountsMix, ~LocksMissing
                 PROVE  ReplayFaithful
      BY DEF ReplayFaithfulUnmixed
    <2>1. Ready
      BY DEF Ready, CountsMix, LocksMissing
    <2>2. OrderInv
      BY <2>1
    <2> QED BY <2>1, <2>2, LogsAgree, MemAgrees DEF ReplayFaithful
  <1> QED BY <1>1, Invariance, InOrder, OneProgram, PTL
===============================================================================
