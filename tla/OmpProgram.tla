------------------------------ MODULE OmpProgram ------------------------------
(***************************************************************************)
(* An OpenMP program as ReOMP's compiler pass leaves it, and what its runs *)
(* observe.  Every thread of one parallel region executes a sequence of    *)
(* gated sections.  A section is the code between the REOMP_CONTROL calls  *)
(* GATE_IN and GATE_OUT (a racy load or store, an atomic) or between       *)
(* BEF_CRITICAL_BEGIN and AFT_CRITICAL_END (a critical section, a user     *)
(* lock).  Its body is a sequence of accesses to shared variables; an      *)
(* access of the body may carry a gate of its own (a racy access written   *)
(* inside a critical section), which makes a nested call of the gate.      *)
(*                                                                         *)
(* The modules of the gates (ClockGate, EpochGate, TidGate) extend this    *)
(* one with the shared state of a gate.  The program runs twice: once in   *)
(* mode "record" and, when that run has ended, once in mode "replay".      *)
(***************************************************************************)
EXTENDS Integers, Sequences

CONSTANTS
  Threads,       \* the threads of the team (omp_get_thread_num())
  Locks,         \* lock ids: 0 is REOMP_RR_LOCK_GLOBAL, > 1 a set of data races
  Vars,          \* the shared variables
  NoLock,        \* "this access has no gate of its own"
  Programs       \* the programs, each with a configuration of ReOMP

\* The kinds of section the pass distinguishes (REOMP_RR_TYPE_...), as far as
\* the gates do: every kind that is not a load, a store or a reduction counts
\* as "other".
RwTypes == {"load", "store", "atomicload", "atomicstore", "reduction", "other"}

Accesses == [op : {"load", "store", "update"}, var : Vars,
             gate : Locks \cup {NoLock}]
Sections == [lock : Locks, rw : RwTypes, body : Seq(Accesses)]

\* A program, and reomp_config.multi_clock.
ProgramType == [code : [Threads -> Seq(Sections)], multi_clock : BOOLEAN]

ASSUME ProgramAssumption ==
  /\ Locks \subseteq Nat
  /\ 0 \in Locks
  /\ NoLock \notin Locks
  /\ Programs \subseteq ProgramType

VARIABLES
  program,  \* the program that is run; it never changes
  mode,     \* reomp_config.mode: "record", then "replay"
  pc,       \* where each thread is
  sec,      \* the section each thread is in, or enters next
  acc,      \* the access of that section each thread executes next
  mem,      \* the shared variables
  log,      \* the values each thread has read in this run
  recLog,   \* the values each thread read in the recorded run
  recMem    \* the shared variables when the recorded run ended

programVars == <<program, mode, pc, sec, acc, mem, log, recLog, recMem>>

Program    == program.code           \* what each thread executes
MultiClock == program.multi_clock

\* A value names the access that wrote it, so that two runs agree on a value
\* exactly when they agree on its writer.  <<>> is the value before any write.
Values == {<<>>} \cup (Threads \X Nat \X Nat)

\* "run": outside; "body": inside a section; "nested", "nestout": inside a
\* nested gate, before and after its access.  The others are steps of a gate.
\* Clock and epoch gate: "filing" past the unlock of GATE_OUT, the ticket not in
\* the record file yet; "resetting" before the epoch gate clears a slot.  Thread
\* id gate: "lock" in the call of GATE_IN, "test" between the two conditions of
\* its replay loop, "nestlock" in the call of a nested GATE_IN that waits, "load"
\* and "store" while it counts nested gates.
Places == {"run", "body", "nested", "nestout", "filing", "resetting",
           "lock", "test", "nestlock", "load", "store"}

ProgramTypeOK ==
  /\ program \in ProgramType
  /\ mode \in {"record", "replay"}
  /\ pc \in [Threads -> Places]
  /\ sec \in [Threads -> Nat \ {0}]
  /\ acc \in [Threads -> Nat \ {0}]
  /\ mem \in [Vars -> Values]
  /\ log \in [Threads -> Seq(Values)]
  /\ recLog \in [Threads -> Seq(Values)]
  /\ recMem \in [Vars -> Values]

ProgramInit ==
  /\ program \in Programs
  /\ mode = "record"
  /\ pc = [t \in Threads |-> "run"]
  /\ sec = [t \in Threads |-> 1]
  /\ acc = [t \in Threads |-> 1]
  /\ mem = [v \in Vars |-> <<>>]
  /\ log = [t \in Threads |-> <<>>]
  /\ recLog = log
  /\ recMem = mem

-------------------------------------------------------------------------------

HasSection(t) == sec[t] <= Len(Program[t])
Section(t)    == Program[t][sec[t]]

\* REOMP_CONTROL: without multi_clock every GATE_IN and GATE_OUT uses lock 0.
GateLock(id) == IF MultiClock THEN id ELSE 0
LockOf(t)    == GateLock(Section(t).lock)

InSection(t) == pc[t] \in {"body", "nested", "nestout"}

HasAccess(t)  == acc[t] <= Len(Section(t).body)
NextAccess(t) == Section(t).body[acc[t]]

\* The thread is outside and calls the gate of its next section.
AtGateIn(t)   == pc[t] = "run" /\ HasSection(t)

\* The thread has finished the body of its section and calls GATE_OUT.
AtGateOut(t)  == pc[t] = "body" /\ ~HasAccess(t)

\* The next access of the body has a gate of its own, not entered yet.
AtNestedIn(t) == pc[t] = "body" /\ HasAccess(t) /\ NextAccess(t).gate # NoLock

\* One access of the body: an aligned load, store or update of a variable.
Access(t) ==
  /\ InSection(t) /\ HasAccess(t)
  /\ pc[t] = IF NextAccess(t).gate = NoLock THEN "body" ELSE "nested"
  /\ LET a == NextAccess(t) IN
       /\ mem' = IF a.op = "load" THEN mem
                 ELSE [mem EXCEPT ![a.var] = <<t, sec[t], acc[t]>>]
       /\ log' = IF a.op = "store" THEN log
                 ELSE [log EXCEPT ![t] = Append(@, mem[a.var])]
       /\ pc' = [pc EXCEPT ![t] = IF a.gate = NoLock THEN "body" ELSE "nestout"]
  /\ acc' = [acc EXCEPT ![t] = @ + 1]
  /\ UNCHANGED <<program, mode, sec, recLog, recMem>>

GoTo(t, place) ==
  /\ pc' = [pc EXCEPT ![t] = place]
  /\ UNCHANGED <<program, mode, sec, acc, mem, log, recLog, recMem>>

\* The thread is done with its section and goes on to the next one.
NextSection(t) ==
  /\ pc' = [pc EXCEPT ![t] = "run"]
  /\ sec' = [sec EXCEPT ![t] = @ + 1]
  /\ acc' = [acc EXCEPT ![t] = 1]
  /\ UNCHANGED <<program, mode, mem, log, recLog, recMem>>

AllDone == \A t \in Threads : pc[t] = "run" /\ ~HasSection(t)

\* The recorded run has ended (REOMP_AFT_MAIN) and the program is started again
\* in replay mode (REOMP_BEF_MAIN); what the first run observed is kept.
StartReplay ==
  /\ mode = "record"
  /\ AllDone
  /\ mode' = "replay"
  /\ pc' = [t \in Threads |-> "run"]
  /\ sec' = [t \in Threads |-> 1]
  /\ acc' = [t \in Threads |-> 1]
  /\ mem' = [v \in Vars |-> <<>>]
  /\ log' = [t \in Threads |-> <<>>]
  /\ recLog' = log
  /\ recMem' = mem
  /\ UNCHANGED program

-------------------------------------------------------------------------------
\* What a replay promises, whatever the gate.

\* Every value a thread reads in the replay is the value it read at the same
\* point of the recorded run, and the replay ends with the recorded memory.
ReplayFaithful ==
  mode = "replay" =>
    /\ \A t \in Threads :
         /\ Len(log[t]) <= Len(recLog[t])
         /\ \A i \in 1..Len(log[t]) : log[t][i] = recLog[t][i]
    /\ AllDone => mem = recMem

\* Every access to v is in sections of the gate of lock l, or in nested gates
\* inside of them.
GuardedBy(p, l, v) ==
  \A t \in Threads : \A s \in 1..Len(p.code[t]) :
    \A a \in 1..Len(p.code[t][s].body) :
      p.code[t][s].body[a].var = v =>
        l = IF p.multi_clock THEN p.code[t][s].lock ELSE 0

\* Each variable has one gate.  With one clock it always holds; with many it is what
\* joining the races with an access in common (drace_data_race_lock_sets) is for, and
\* fails where a section of another kind accesses the variable as well.
OneGateEach(p) == \A v \in Vars : \E l \in Locks : GuardedBy(p, l, v)

\* Both runs end: no thread waits forever in a gate.
BothRunsEnd == <>(mode = "replay" /\ AllDone)
===============================================================================
