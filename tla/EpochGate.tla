------------------------------- MODULE EpochGate -------------------------------
(***************************************************************************)
(* ReOMP's concurrent clock gate (REOMP_METHOD=0, the default;             *)
(* reomp_ccgate_* in reomp_gate_clock.cpp).  The recorded run serialises   *)
(* the sections of a lock as the clock gate does, but files an epoch: the  *)
(* clock minus the number of directly preceding sections of the same kind, *)
(* so that in the replay a run of loads, or of stores that a later store   *)
(* overwrites, may pass together.  What kind of section took which clock   *)
(* is kept in a table of slots that the threads share.                     *)
(*                                                                         *)
(* recorded is a history variable: which section took each clock.          *)
(***************************************************************************)
EXTENDS OmpProgram, FiniteSets

CONSTANTS
  NoThread,      \* the holder of a free lock
  SlotCount,     \* REOMP_CCGATE_PREVIOUSE_SIZE, the length of a slot table
  Window,        \* REOMP_CCGATE_WINDOW_SIZE, how far back a run is counted
  FreshSlots     \* what valloc'd memory may hold: {"null"} when it is zeroed

ASSUME EpochAssumption ==
  /\ NoThread \notin Threads
  /\ SlotCount \in Nat \ {0}
  /\ Window \in 1..(SlotCount - 1)
  /\ FreshSlots \subseteq RwTypes \cup {"null"}

VARIABLES
  omp_locks,        \* the holder of each lock
  current_clocks,   \* reomp_cgate.current_clocks
  nest_num,         \* reomp_cgate.nest_num
  previous,         \* reomp_ccgate_previous: a slot table for each lock
  clock, count,     \* local variables of reomp_ccgate_out
  file,             \* the record file of each thread: its epochs
  pos,              \* how many epochs each thread has read back
  recorded

gateVars == <<omp_locks, current_clocks, nest_num, previous, clock, count,
              file, pos, recorded>>
vars == <<programVars, gateVars>>

Slots == 0..(SlotCount - 1)

TypeOK ==
  /\ ProgramTypeOK
  /\ omp_locks \in [Locks -> Threads \cup {NoThread}]
  /\ current_clocks \in [Locks -> Nat]
  /\ nest_num \in [Threads -> Nat]
  /\ previous \in [Locks -> [Slots -> RwTypes \cup {"null"}]]
  /\ clock \in [Threads -> Nat]
  /\ count \in [Threads -> 0..Window]
  /\ file \in [Threads -> Seq(Int)]
  /\ pos \in [Threads -> Nat]
  /\ recorded \in [Locks -> Seq(Threads \X Nat)]

\* reomp_cgate_init; the slot tables are allocated and not written.
Init ==
  /\ ProgramInit
  /\ omp_locks = [l \in Locks |-> NoThread]
  /\ current_clocks = [l \in Locks |-> 0]
  /\ nest_num = [t \in Threads |-> 0]
  /\ previous \in [Locks -> [Slots -> FreshSlots]]
  /\ clock = [t \in Threads |-> 0]
  /\ count = [t \in Threads |-> 0]
  /\ file = [t \in Threads |-> <<>>]
  /\ pos = [t \in Threads |-> 0]
  /\ recorded = [l \in Locks |-> <<>>]

-------------------------------------------------------------------------------
\* The slot table.

IsLoadOrStore(rw) == rw \in {"load", "store", "atomicload", "atomicstore"}
IsStore(rw) == rw \in {"store", "atomicstore"}

SlotOf(c) == c % SlotCount

\* reomp_ccgate_test_concecutive_load_store: how many of the slots directly
\* before c's hold the kind rw, looking at most Window slots back.
\* Mutant _Any takes every kind alike.
ConsecutiveCount_Any(table, c, rw) ==
  CHOOSE n \in 0..Window :
    /\ \A i \in 1..n : IsLoadOrStore(table[SlotOf(c + SlotCount - i)])
    /\ n = Window \/ ~IsLoadOrStore(table[SlotOf(c + SlotCount - (n + 1))])
ConsecutiveCount(table, c, rw) ==
  IF ~IsLoadOrStore(rw) THEN 0
  ELSE CHOOSE n \in 0..Window :
         /\ \A i \in 1..n : table[SlotOf(c + SlotCount - i)] = rw
         /\ n = Window \/ table[SlotOf(c + SlotCount - (n + 1))] # rw

\* reomp_ccgate_is_next_store = 1, the only answer that keeps a store's count.
\* The loop that would wait for the next slot to be filled never runs: its
\* condition ends in "&& !retry" and retry is 100.
\* Mutant _Unchecked: a run of stores is treated like a run of loads.
NextIsStore_Unchecked(table, c) == TRUE
NextIsStore(table, c) == IsStore(table[SlotOf(c + 1)])

\* reomp_ccgate_reset_concecutive_load_store clears the slot a third ahead.
SlotToReset(c) == SlotOf(c + SlotCount \div 3)

\* What is filed: the clock less the count.  Mutant _Later: one too many.
Epoch_Later(c, n) == c - n + 1
Epoch(c, n) == c - n

-------------------------------------------------------------------------------

ReentryIn(t)  == nest_num[t] > 0
ReentryOut(t) == nest_num[t] - 1 > 0

\* reomp_ccgate_in in record mode.
GateInRecord(t) ==
  /\ mode = "record"
  /\ AtGateIn(t)
  /\ ~ReentryIn(t)
  /\ omp_locks[LockOf(t)] = NoThread
  /\ omp_locks' = [omp_locks EXCEPT ![LockOf(t)] = t]
  /\ nest_num' = [nest_num EXCEPT ![t] = @ + 1]
  /\ GoTo(t, "body")
  /\ UNCHANGED <<current_clocks, previous, clock, count, file, pos, recorded>>

\* The spin of reomp_ccgate_in in replay mode ends once as many sections have
\* left the gate as the epoch says.
EpochReached(t) == file[t][pos[t] + 1] <= current_clocks[LockOf(t)]

GateInReplay(t) ==
  /\ mode = "replay"
  /\ AtGateIn(t)
  /\ ~ReentryIn(t)
  /\ pos[t] < Len(file[t])
  /\ EpochReached(t)
  /\ pos' = [pos EXCEPT ![t] = @ + 1]
  /\ nest_num' = [nest_num EXCEPT ![t] = @ + 1]
  /\ GoTo(t, "body")
  /\ UNCHANGED <<omp_locks, current_clocks, previous, clock, count, file, recorded>>

\* A gate inside a section counts and returns.
NestedIn(t) ==
  /\ AtNestedIn(t)
  /\ ReentryIn(t)
  /\ nest_num' = [nest_num EXCEPT ![t] = @ + 1]
  /\ GoTo(t, "nested")
  /\ UNCHANGED <<omp_locks, current_clocks, previous, clock, count, file, pos,
                 recorded>>

NestedOut(t) ==
  /\ pc[t] = "nestout"
  /\ ReentryOut(t)
  /\ nest_num' = [nest_num EXCEPT ![t] = @ - 1]
  /\ GoTo(t, "body")
  /\ UNCHANGED <<omp_locks, current_clocks, previous, clock, count, file, pos,
                 recorded>>

ProgramStep(t) == Access(t) /\ UNCHANGED gateVars

\* reomp_ccgate_out in record mode up to omp_unset_lock: take the clock, set the
\* slot, count the run.
GateOutRecord(t) ==
  /\ mode = "record"
  /\ AtGateOut(t)
  /\ ~ReentryOut(t)
  /\ LET l  == LockOf(t)
         c  == current_clocks[l]
         rw == Section(t).rw
         table == [previous[l] EXCEPT ![SlotOf(c)] = rw]
     IN  /\ clock' = [clock EXCEPT ![t] = c]
         /\ current_clocks' = [current_clocks EXCEPT ![l] = @ + 1]
         /\ previous' = [previous EXCEPT ![l] = table]
         /\ count' = [count EXCEPT ![t] = ConsecutiveCount(table, c, rw)]
         /\ omp_locks' = [omp_locks EXCEPT ![l] = NoThread]
         /\ recorded' = [recorded EXCEPT ![l] = Append(@, <<t, sec[t]>>)]
  /\ nest_num' = [nest_num EXCEPT ![t] = @ - 1]
  /\ GoTo(t, "filing")
  /\ UNCHANGED <<file, pos>>

\* After the unlock: a store keeps its count only if the slot after its own
\* shows a store right now; then the epoch is filed.
FileEpoch(t) ==
  /\ pc[t] = "filing"
  /\ count' = [count EXCEPT
       ![t] = IF /\ IsStore(Section(t).rw)
                 /\ ~NextIsStore(previous[LockOf(t)], clock[t])
              THEN 0 ELSE @]
  /\ file' = [file EXCEPT ![t] = Append(@, Epoch(clock[t], count'[t]))]
  /\ GoTo(t, "resetting")
  /\ UNCHANGED <<omp_locks, current_clocks, nest_num, previous, clock, pos,
                 recorded>>

\* Still outside the lock, the thread clears a slot for a clock to come.
ResetSlot(t) ==
  /\ pc[t] = "resetting"
  /\ previous' = [previous EXCEPT ![LockOf(t)][SlotToReset(clock[t])] = "null"]
  /\ NextSection(t)
  /\ UNCHANGED <<omp_locks, current_clocks, nest_num, clock, count, file, pos,
                 recorded>>

\* reomp_ccgate_out in replay mode: an atomic increment.
GateOutReplay(t) ==
  /\ mode = "replay"
  /\ AtGateOut(t)
  /\ ~ReentryOut(t)
  /\ nest_num' = [nest_num EXCEPT ![t] = @ - 1]
  /\ current_clocks' = [current_clocks EXCEPT ![LockOf(t)] = @ + 1]
  /\ NextSection(t)
  /\ UNCHANGED <<omp_locks, previous, clock, count, file, pos, recorded>>

\* The slot tables are not used in a replay; they are left as they are.
Rerun ==
  /\ StartReplay
  /\ omp_locks' = [l \in Locks |-> NoThread]
  /\ current_clocks' = [l \in Locks |-> 0]
  /\ nest_num' = [t \in Threads |-> 0]
  /\ clock' = [t \in Threads |-> 0]
  /\ count' = [t \in Threads |-> 0]
  /\ pos' = [t \in Threads |-> 0]
  /\ UNCHANGED <<previous, file, recorded>>

Step(t) ==
  \/ GateInRecord(t) \/ GateInReplay(t)
  \/ NestedIn(t) \/ ProgramStep(t) \/ NestedOut(t)
  \/ GateOutRecord(t) \/ FileEpoch(t) \/ ResetSlot(t) \/ GateOutReplay(t)

Ended == mode = "replay" /\ AllDone /\ UNCHANGED vars

Next == Rerun \/ Ended \/ \E t \in Threads : Step(t)

Spec == Init /\ [][Next]_vars

\* Every thread keeps running and the program is run again.
Fairness == WF_vars(Rerun) /\ \A t \in Threads : WF_vars(Step(t))
FairSpec == Spec /\ Fairness

-------------------------------------------------------------------------------

\* Only sections of the same kind overlap in the replay, and only loads and
\* stores: a load never runs beside a store of its lock, and a critical section
\* or an atomic update runs alone.
OnlyLikeOverlap ==
  \A t, u \in Threads :
    /\ t # u
    /\ InSection(t) /\ InSection(u)
    /\ LockOf(t) = LockOf(u)
    => IsLoadOrStore(Section(t).rw) /\ Section(t).rw = Section(u).rw

\* Sections overlap as the epochs allow, and the state is well typed: which
\* slot a clock uses, and who may read it, in both runs.
OverlapSafe == TypeOK /\ OnlyLikeOverlap

\* The inductive invariant behind OverlapSafe.  LockAt and KindAt are the gate
\* lock and the kind of the s-th section of t, wherever t is.
LockAt(t, s) == GateLock(Program[t][s].lock)
KindAt(t, s) == Program[t][s].rw

\* The clocks of l that were taken, by whom, and by what kind of section.
Clocks(l) == 0..(Len(recorded[l]) - 1)
IssuedTo(l, c, t, s) == c \in Clocks(l) /\ recorded[l][c + 1] = <<t, s>>
KindOf(l, c) == KindAt(recorded[l][c + 1][1], recorded[l][c + 1][2])

\* The clocks from a to b went to loads, or all to stores, of one kind.
Alike(l, a, b) ==
  \A i \in a..b : IsLoadOrStore(KindOf(l, b)) /\ KindOf(l, i) = KindOf(l, b)

\* What may be filed for clock c: c, or less by a run of one kind up to c.
EpochFits(l, c, e) ==
  /\ e <= c
  /\ e < c => \A i \in 0..c : e <= i => Alike(l, i, c)

\* nest_num is the depth of the gates the thread is in.
NestingInv ==
  \A t \in Threads :
    /\ nest_num[t] = IF pc[t] = "body" THEN 1
                     ELSE IF InSection(t) THEN 2 ELSE 0
    /\ sec[t] \in 1..(Len(Program[t]) + 1)
    /\ pc[t] # "run" => HasSection(t)

\* A clock was taken by a section of its lock, and a section takes one clock.
HistoryInv ==
  \A l \in Locks :
    /\ \A i \in 1..Len(recorded[l]) :
         LET t == recorded[l][i][1]
             s == recorded[l][i][2]
         IN  s \in 1..Len(Program[t]) /\ LockAt(t, s) = l
    /\ \A i, j \in 1..Len(recorded[l]) : recorded[l][i] = recorded[l][j] => i = j

\* Every epoch in a file, or on its way there, fits the clock of its section.
EpochInv ==
  /\ \A t \in Threads : \A s \in 1..Len(file[t]) :
       /\ s <= Len(Program[t])
       /\ \E c \in Clocks(LockAt(t, s)) :
            /\ IssuedTo(LockAt(t, s), c, t, s)
            /\ EpochFits(LockAt(t, s), c, file[t][s])
  /\ \A t \in Threads : pc[t] = "filing" =>
       /\ IssuedTo(LockOf(t), clock[t], t, sec[t])
       /\ EpochFits(LockOf(t), clock[t], clock[t] - count[t])

\* As far back as the table reaches, a slot shows the kind of its clock or nothing.
SlotInv ==
  mode = "record" =>
    \A l \in Locks : \A c \in Clocks(l) :
      Len(recorded[l]) <= c + SlotCount =>
        previous[l][SlotOf(c)] \in {KindOf(l, c), "null"}

\* The recorded run: the holder of the lock is inside, the clock counts what it
\* gave out, and only sections that were left have a clock.
RecordInv ==
  mode = "record" =>
    /\ \A t \in Threads : InSection(t) => omp_locks[LockOf(t)] = t
    /\ \A t \in Threads :
         Len(file[t]) = IF pc[t] = "resetting" THEN sec[t] ELSE sec[t] - 1
    /\ \A l \in Locks : Len(recorded[l]) = current_clocks[l]
    /\ \A l \in Locks : \A i \in 1..Len(recorded[l]) :
         LET t == recorded[l][i][1]
             s == recorded[l][i][2]
         IN  \/ s < sec[t]
             \/ s = sec[t] /\ pc[t] \in {"filing", "resetting"}

\* The clocks of the sections the threads have left, and of those they are in.
Left(l) == {c \in Clocks(l) :
              recorded[l][c + 1][2] < sec[recorded[l][c + 1][1]]}
Inside(l) == {c \in Clocks(l) :
                /\ recorded[l][c + 1][2] = sec[recorded[l][c + 1][1]]
                /\ InSection(recorded[l][c + 1][1])}

\* The replay: the clock counts the sections that were left, and a section was
\* entered only when each section of an earlier clock that is not left yet belongs
\* to one run with it.
ReplayInv ==
  mode = "replay" =>
    /\ \A t \in Threads :
         /\ Len(file[t]) = Len(Program[t])
         /\ pc[t] \notin {"filing", "resetting"}
         /\ pos[t] = IF InSection(t) THEN sec[t] ELSE sec[t] - 1
    /\ \A l \in Locks :
         /\ current_clocks[l] = Cardinality(Left(l))
         /\ \A d \in Left(l) \cup Inside(l) : \A c \in 0..d :
              c \in Left(l) \/ c = d \/ Alike(l, c, d)

\* Epochs, clocks, slots, locks and history agree in every reachable state.
Inductive == NestingInv /\ HistoryInv /\ EpochInv /\ SlotInv /\ RecordInv /\ ReplayInv

-------------------------------------------------------------------------------
\* Where the replay is faithful.

\* The pass tells the kinds of section: a load section stores nothing, and a store
\* section is one store (each is put around one instruction).
KindsTold(p) ==
  \A t \in Threads : \A s \in 1..Len(p.code[t]) :
    LET S == p.code[t][s] IN
      /\ S.rw \in {"load", "atomicload"} => \A a \in 1..Len(S.body) : S.body[a].op = "load"
      /\ IsStore(S.rw) => Len(S.body) = 1 /\ S.body[1].op = "store"

\* The store sections of a gate lock store to one variable.
OneStored(p) ==
  \A t, u \in Threads : \A s \in 1..Len(p.code[t]) : \A r \in 1..Len(p.code[u]) :
    LET S == p.code[t][s]
        R == p.code[u][r]
    IN  /\ IsStore(S.rw) /\ IsStore(R.rw)
        /\ p.multi_clock => S.lock = R.lock
        => S.body[1].var = R.body[1].var

\* A lock has fewer sections than slots, so that no slot is used by two clocks.
SectionsOf(p, l) ==
  UNION {{t} \X {s \in 1..Len(p.code[t]) : p.multi_clock => p.code[t][s].lock = l} :
         t \in Threads}
FewSections(p) ==
  \A l \in Locks : /\ IsFiniteSet(SectionsOf(p, l))
                   /\ Cardinality(SectionsOf(p, l)) < SlotCount

\* The next clock of l was taken, by a store.
StoreNext(l, c) == c + 1 \in Clocks(l) /\ IsStore(KindOf(l, c + 1))

\* A storing thread that sees a store in the slot after its own sees the one of the
\* next clock, and not what the slot held before.
SlotsFresh ==
  \A t \in Threads :
    /\ pc[t] = "filing" /\ IsStore(Section(t).rw)
    /\ NextIsStore(previous[LockOf(t)], clock[t])
    => StoreNext(LockOf(t), clock[t])
===============================================================================
