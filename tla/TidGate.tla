-------------------------------- MODULE TidGate --------------------------------
(***************************************************************************)
(* ReOMP's thread id gate (REOMP_METHOD=2, reomp_gate_tid.cpp): one record *)
(* file for the process, into which every section writes its thread id     *)
(* while it holds the lock of its gate.  In the replay whoever gets the    *)
(* file lock reads the next id for all, and the thread it names enters.    *)
(*                                                                         *)
(* Unlike in the clock gates, the reentry test is on state that all        *)
(* threads share: the id of the last thread to enter and one counter.      *)
(***************************************************************************)
EXTENDS OmpProgram

CONSTANTS
  NumLocks,    \* num_locks: the sets of data races the pass has found
  NoThread     \* -1: no thread

ASSUME NoThreadAssumption == NoThread \notin Threads

\* The sets are numbered from 2 (REOMP_RR_LOCK_DATARACE_BEGIN).
ASSUME NumLocksAssumption == NumLocks \in Nat /\ Locks \subseteq 0..(NumLocks + 1)

\* reomp_tgate_init_locks makes num_locks locks.  Unlike the clock gate's it leaves
\* out the ids below 2, so the last ids, or id 0 where there is no race, are past
\* the end of the array.
MadeLocks == {l \in Locks : l < NumLocks}

VARIABLES
  record_locks,        \* the holder of each lock of the array
  current_tid,         \* the last thread to pass GATE_IN
  nest_num,            \* the nesting counter
  counting,            \* a thread's update of nest_num that is under way
  file,                \* the record file: thread ids
  pos,                 \* how many of them have been read back
  replay_thread_num,   \* the thread whose turn it is
  file_read_locked,    \* file_read_mutex_lock is set
  recorded             \* history: the section of each id of the record file

gateVars == <<record_locks, current_tid, nest_num, counting, file, pos,
              replay_thread_num, file_read_locked, recorded>>
replayVars == <<pos, replay_thread_num, file_read_locked>>
vars == <<programVars, gateVars>>

\* Every gate sets the same lock, and there is such a lock.
OneLocked == ~MultiClock /\ 0 \in MadeLocks

TypeOK ==
  /\ ProgramTypeOK
  /\ record_locks \in [MadeLocks -> Threads \cup {NoThread}]
  /\ current_tid \in Threads \cup {NoThread}
  /\ nest_num \in IF OneLocked THEN Nat ELSE Int
  /\ counting \in [Threads -> [by : {-1, 0, 1}, loaded : Int, after : Places]]
  /\ file \in Seq(Threads)
  /\ pos \in 0..Len(file)
  /\ replay_thread_num \in Threads \cup {NoThread}
  /\ file_read_locked \in BOOLEAN
  /\ recorded \in Seq(Threads \X Nat)

Init ==
  /\ ProgramInit
  /\ record_locks = [l \in MadeLocks |-> NoThread]
  /\ current_tid = NoThread
  /\ nest_num = 0
  /\ counting = [t \in Threads |-> [by |-> 0, loaded |-> 0, after |-> "run"]]
  /\ file = <<>>
  /\ recorded = <<>>
  /\ pos = 0
  /\ replay_thread_num = NoThread
  /\ file_read_locked = FALSE

-------------------------------------------------------------------------------

\* The reduction hooks of this gate return at once: a reduction has no gate.
Ungated(t) == Section(t).rw = "reduction"

\* The lock of the nested gate a thread is in or entering.
NestedLock(t) == GateLock(Section(t).body[acc[t]].gate)
NestedLockOut(t) == GateLock(Section(t).body[acc[t] - 1].gate)

\* reomp_tgate_in, the reentry test.  Mutant _Never: no call counts as nested.
Reentry_Never(t) == FALSE
Reentry(t) == t = current_tid

\* reomp_tgate_out, the reentry test.
Nested == nest_num # 0

\* "nest_num++" and "nest_num--" are a load and a store that other threads may
\* come between: nothing protects the counter when sections have locks of
\* their own.
Count(t, by, after) ==
  /\ counting' = [counting EXCEPT
                    ![t] = [by |-> by, loaded |-> 0, after |-> after]]
  /\ GoTo(t, "load")
  /\ UNCHANGED <<record_locks, current_tid, nest_num, file, recorded, replayVars>>

LoadCount(t) ==
  /\ pc[t] = "load"
  /\ counting' = [counting EXCEPT ![t].loaded = nest_num]
  /\ GoTo(t, "store")
  /\ UNCHANGED <<record_locks, current_tid, nest_num, file, recorded, replayVars>>

StoreCount(t) ==
  /\ pc[t] = "store"
  /\ nest_num' = counting[t].loaded + counting[t].by
  /\ IF counting[t].after = "run" THEN NextSection(t)
                                  ELSE GoTo(t, counting[t].after)
  /\ UNCHANGED <<record_locks, current_tid, counting, file, recorded, replayVars>>

SkipGateIn(t) ==
  /\ AtGateIn(t)
  /\ Ungated(t)
  /\ GoTo(t, "body")
  /\ UNCHANGED gateVars

\* The call of GATE_IN, up to the loop or omp_set_lock.
GateIn(t) ==
  /\ AtGateIn(t)
  /\ ~Ungated(t)
  /\ \/ /\ Reentry(t)
        /\ Count(t, 1, "body")
     \/ /\ ~Reentry(t)
        /\ GoTo(t, "lock")
        /\ UNCHANGED gateVars

\* omp_set_lock and omp_unset_lock: what becomes of the array.
Locked(l, who) ==
  IF l \in MadeLocks THEN [record_locks EXCEPT ![l] = who] ELSE record_locks

\* Past the end of the array there is no lock, and what omp_set_lock does with the
\* memory found there is undefined: the call may return whoever is inside, and it
\* may never return (Sure).
SetLock(t, l) ==
  /\ l \in MadeLocks => record_locks[l] = NoThread
  /\ record_locks' = Locked(l, t)
  /\ current_tid' = t

\* Recording, the thread gets the lock of its gate.
Lock(t) ==
  /\ mode = "record"
  /\ pc[t] = "lock"
  /\ SetLock(t, LockOf(t))
  /\ GoTo(t, "body")
  /\ UNCHANGED <<nest_num, counting, file, recorded, replayVars>>

\* The replay loop, "while (tid != replay_thread_num)": either it is the thread's
\* turn, or it goes on to omp_test_lock, which may find that things have changed.
IsTurnOf_Anyone(t) == replay_thread_num # NoThread
IsTurnOf(t) == t = replay_thread_num

Turn(t) ==
  /\ mode = "replay"
  /\ pc[t] = "lock"
  /\ IF IsTurnOf(t) THEN /\ current_tid' = t
                         /\ GoTo(t, "body")
     ELSE /\ GoTo(t, "test")
          /\ UNCHANGED current_tid
  /\ UNCHANGED <<record_locks, nest_num, counting, file, recorded, replayVars>>

\* omp_test_lock: the thread that gets the file lock reads the next id.  At the
\* end of the file MUTIL_ERR stops the program.
TestLock(t) ==
  /\ pc[t] = "test"
  /\ IF file_read_locked THEN UNCHANGED replayVars
     ELSE /\ pos < Len(file)
          /\ pos' = pos + 1
          /\ replay_thread_num' = file[pos + 1]
          /\ file_read_locked' = TRUE
  /\ GoTo(t, "lock")
  /\ UNCHANGED <<record_locks, current_tid, nest_num, counting, file, recorded>>

\* A gate inside the section.  When another thread has entered a gate since, the
\* thread is taken for a newcomer and waits for the lock of the inner gate.  This
\* happens to recording threads only: a replaying thread inside is alone there
\* (ReplaySerial), so the last thread to enter is itself.
NestedIn(t) ==
  /\ AtNestedIn(t)
  /\ \/ /\ Reentry(t)
        /\ Count(t, 1, "nested")
     \/ /\ ~Reentry(t)
        /\ mode = "record"
        /\ GoTo(t, "nestlock")
        /\ UNCHANGED gateVars

NestedSetLock(t) ==
  /\ pc[t] = "nestlock"
  /\ SetLock(t, NestedLock(t))
  /\ GoTo(t, "nested")
  /\ UNCHANGED <<nest_num, counting, file, recorded, replayVars>>

ProgramStep(t) == Access(t) /\ UNCHANGED gateVars

\* reomp_tgate_out past its reentry test: the id goes into the file before the
\* lock is released; replaying, the turn ends before the file lock is released.
\* Mutant _EarlyUnlock: the file lock is released, the turn does not end.
LeaveReplay_EarlyUnlock ==
  /\ file_read_locked' = FALSE
  /\ UNCHANGED replay_thread_num
LeaveReplay ==
  /\ replay_thread_num' = NoThread
  /\ file_read_locked' = FALSE

LeaveRecord(t, l) ==
  /\ file' = Append(file, t)
  /\ recorded' = Append(recorded, <<t, sec[t]>>)
  /\ record_locks' = Locked(l, NoThread)

Leave(t, l) ==
  /\ current_tid' = NoThread
  /\ IF mode = "record"
     THEN LeaveRecord(t, l) /\ UNCHANGED <<replay_thread_num, file_read_locked>>
     ELSE LeaveReplay /\ UNCHANGED <<file, recorded, record_locks>>

NestedOut(t) ==
  /\ pc[t] = "nestout"
  /\ \/ /\ Nested
        /\ Count(t, -1, "body")
     \/ /\ ~Nested
        /\ Leave(t, NestedLockOut(t))
        /\ GoTo(t, "body")
        /\ UNCHANGED <<nest_num, counting, pos>>

GateOut(t) ==
  /\ AtGateOut(t)
  /\ \/ /\ Ungated(t)
        /\ NextSection(t)
        /\ UNCHANGED gateVars
     \/ /\ ~Ungated(t) /\ Nested
        /\ Count(t, -1, "run")
     \/ /\ ~Ungated(t) /\ ~Nested
        /\ Leave(t, LockOf(t))
        /\ NextSection(t)
        /\ UNCHANGED <<nest_num, counting, pos>>

\* reomp_tgate_finalize, and a new process that reads the file.
Rerun ==
  /\ StartReplay
  /\ record_locks' = [l \in MadeLocks |-> NoThread]
  /\ current_tid' = NoThread
  /\ nest_num' = 0
  /\ counting' = [t \in Threads |-> [by |-> 0, loaded |-> 0, after |-> "run"]]
  /\ pos' = 0
  /\ replay_thread_num' = NoThread
  /\ file_read_locked' = FALSE
  /\ UNCHANGED <<file, recorded>>

Step(t) ==
  \/ SkipGateIn(t) \/ GateIn(t) \/ Lock(t) \/ Turn(t) \/ TestLock(t)
  \/ NestedIn(t) \/ NestedSetLock(t) \/ ProgramStep(t) \/ NestedOut(t)
  \/ GateOut(t) \/ LoadCount(t) \/ StoreCount(t)

Ended == mode = "replay" /\ AllDone /\ UNCHANGED vars

Next == Rerun \/ Ended \/ \E t \in Threads : Step(t)

Spec == Init /\ [][Next]_vars

\* The thread sets a lock that is none.
SetsNoLock(t) ==
  /\ mode = "record"
  /\ \/ pc[t] = "lock" /\ LockOf(t) \notin MadeLocks
     \/ pc[t] = "nestlock" /\ NestedLock(t) \notin MadeLocks
Sure(t) == ~SetsNoLock(t) /\ Step(t)

\* Every thread keeps running, unless it sets a lock that is none.  A thread in the
\* replay loop moves between its two conditions for ever, so its own fairness is no
\* help when it is not its turn; what it needs is that the others keep running too.
Fairness == WF_vars(Rerun) /\ \A t \in Threads : WF_vars(Sure(t))
FairSpec == Spec /\ Fairness

-------------------------------------------------------------------------------

\* While it is some thread's turn the file lock is set, so no other thread can
\* read the next id before that thread has left its section.
TurnIsLocked == replay_thread_num # NoThread => file_read_locked

\* The thread is between the outer GATE_IN and GATE_OUT of a gated section.
Inside(t) ==
  /\ InSection(t) \/ pc[t] \in {"load", "store", "nestlock"}
  /\ ~Ungated(t)

\* In the replay the gated sections of the whole process are executed one at a
\* time, whatever locks they had in the recorded run.
ReplaySerial ==
  mode = "replay" => \A t, u \in Threads : Inside(t) /\ Inside(u) => t = u

\* nest_num is one counter for all locks.  With a lock for each set of races,
\* threads under different locks mix up their counts when a section contains a
\* gate: then the recorded run itself may hang, and file ids nobody waits for.
MixesCounts(p) ==
  /\ p.multi_clock
  /\ \E t \in Threads : \E s \in DOMAIN p.code[t] :
       \E i \in DOMAIN p.code[t][s].body : p.code[t][s].body[i].gate # NoLock
CountsMix == MixesCounts(program)

\* The recorded run sets no lock past the end of the array, wherever MixesCounts
\* leaves out gates in sections.
LocksMade(p) ==
  IF p.multi_clock
  THEN \A t \in Threads : \A s \in DOMAIN p.code[t] :
         p.code[t][s].rw # "reduction" => p.code[t][s].lock \in MadeLocks
  ELSE 0 \in MadeLocks
LocksMissing == ~LocksMade(program)

\* For every other program the replay reads what the recorded run read.
ReplayFaithfulUnmixed == CountsMix \/ LocksMissing \/ ReplayFaithful

\* The programs for which this can be expected: no gate is inside a reduction, and
\* each variable is a thread's own or is accessed in the sections of one gate, and
\* outside of reductions, which this gate does not order.
ReducedIn(p, v) ==
  \E t \in Threads : \E s \in DOMAIN p.code[t] :
    /\ p.code[t][s].rw = "reduction"
    /\ \E i \in DOMAIN p.code[t][s].body : p.code[t][s].body[i].var = v
OwnOf(p, u, v) ==
  \A t \in Threads : \A s \in DOMAIN p.code[t] : \A i \in DOMAIN p.code[t][s].body :
    p.code[t][s].body[i].var = v => t = u
ReductionsPlain(p) ==
  \A t \in Threads : \A s \in DOMAIN p.code[t] : \A i \in DOMAIN p.code[t][s].body :
    p.code[t][s].rw = "reduction" => p.code[t][s].body[i].gate = NoLock
OrderedVars(p) ==
  /\ ReductionsPlain(p)
  /\ \A v \in Vars : \/ \E u \in Threads : OwnOf(p, u, v)
                     \/ ~ReducedIn(p, v) /\ \E l \in Locks : GuardedBy(p, l, v)

\* For every other program both runs end, although replaying threads spin.
RunsEndUnmixed == CountsMix \/ LocksMissing \/ BothRunsEnd

\* The turns of the replay: well typed, locked, and one at a time.
TurnsSerial == TypeOK /\ TurnIsLocked /\ ReplaySerial
===============================================================================
