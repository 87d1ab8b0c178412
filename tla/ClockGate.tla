------------------------------- MODULE ClockGate -------------------------------
(***************************************************************************)
(* ReOMP's clock gate (REOMP_METHOD=1, reomp_gate_clock.cpp): in the       *)
(* recorded run a section holds the lock of its gate, takes the value of   *)
(* the lock's clock as its ticket and appends it to its thread's own       *)
(* record file after it has released the lock; in the replay it reads the  *)
(* ticket back and spins until the clock of the lock shows it.             *)
(*                                                                         *)
(* recorded and replayed are history variables: the sections in the order  *)
(* in which they advanced the clock of each lock.                          *)
(***************************************************************************)
EXTENDS OmpProgram

CONSTANT NoThread    \* the holder of a free lock

ASSUME NoThreadAssumption == NoThread \notin Threads

VARIABLES
  omp_locks,        \* reomp_cgate.omp_locks: the holder of each lock
  current_clocks,   \* reomp_cgate.current_clocks
  nest_num,         \* reomp_cgate.nest_num
  clock,            \* the local variable of reomp_cgate_leave
  file,             \* the record file of each thread: its tickets
  pos,              \* how many tickets each thread has read back
  recorded, replayed

gateVars == <<omp_locks, current_clocks, nest_num, clock, file, pos,
              recorded, replayed>>
vars == <<programVars, gateVars>>

TypeOK ==
  /\ ProgramTypeOK
  /\ omp_locks \in [Locks -> Threads \cup {NoThread}]
  /\ current_clocks \in [Locks -> Nat]
  /\ nest_num \in [Threads -> Nat]
  /\ clock \in [Threads -> Nat]
  /\ file \in [Threads -> Seq(Nat)]
  /\ pos \in [Threads -> Nat]
  /\ recorded \in [Locks -> Seq(Threads \X Nat)]
  /\ replayed \in [Locks -> Seq(Threads \X Nat)]

\* reomp_cgate_init: all clocks and nesting counters zero, all locks free.
Init ==
  /\ ProgramInit
  /\ omp_locks = [l \in Locks |-> NoThread]
  /\ current_clocks = [l \in Locks |-> 0]
  /\ nest_num = [t \in Threads |-> 0]
  /\ clock = [t \in Threads |-> 0]
  /\ pos = [t \in Threads |-> 0]
  /\ file = [t \in Threads |-> <<>>]
  /\ recorded = [l \in Locks |-> <<>>]
  /\ replayed = [l \in Locks |-> <<>>]

-------------------------------------------------------------------------------

\* reomp_cgate_filter_reentry_in: the thread is inside a section already.
ReentryIn(t) == nest_num[t] > 0

\* reomp_cgate_filter_reentry_out, after the decrement: still inside one.
ReentryOut(t) == nest_num[t] - 1 > 0

\* The ticket the thread reads next; at the end of the file fread fails and
\* MUTIL_ERR stops the program.
HasTicket(t)  == pos[t] < Len(file[t])
NextTicket(t) == file[t][pos[t] + 1]

\* The spin of a replaying thread ends when the clock shows its ticket.
\* Mutant _Early: the comparison lets later tickets pass.
TicketIsUp_Early(t, ticket) == ticket >= current_clocks[LockOf(t)]
TicketIsUp(t, ticket) == ticket = current_clocks[LockOf(t)]

\* omp_set_lock waits for the lock.  Mutant _Unchecked: it does not.
LockIsFree_Unchecked(t) == TRUE
LockIsFree(t) == omp_locks[LockOf(t)] = NoThread

\* The number that goes into the record file.  Mutants: one off.
TicketToFile_Next(t) == clock[t] + 1
TicketToFile(t) == clock[t]

\* reomp_cgate_in in record mode: omp_set_lock of the gate's lock.
GateInRecord(t) ==
  /\ mode = "record"
  /\ AtGateIn(t)
  /\ ~ReentryIn(t)
  /\ LockIsFree(t)
  /\ omp_locks' = [omp_locks EXCEPT ![LockOf(t)] = t]
  /\ nest_num' = [nest_num EXCEPT ![t] = @ + 1]
  /\ GoTo(t, "body")
  /\ UNCHANGED <<current_clocks, clock, file, pos, recorded, replayed>>

\* reomp_cgate_in in replay mode: read the ticket, spin until it is up.  Only
\* this thread reads its file, so reading and the end of the spin are one step.
GateInReplay(t) ==
  /\ mode = "replay"
  /\ AtGateIn(t)
  /\ ~ReentryIn(t)
  /\ HasTicket(t)
  /\ TicketIsUp(t, NextTicket(t))
  /\ pos' = [pos EXCEPT ![t] = @ + 1]
  /\ nest_num' = [nest_num EXCEPT ![t] = @ + 1]
  /\ GoTo(t, "body")
  /\ UNCHANGED <<omp_locks, current_clocks, clock, file, recorded, replayed>>

\* A gate inside a section: reomp_cgate_ticket_wait counts and returns, without
\* a lock and without a ticket, whatever lock id the inner gate has.
NestedIn(t) ==
  /\ AtNestedIn(t)
  /\ ReentryIn(t)
  /\ nest_num' = [nest_num EXCEPT ![t] = @ + 1]
  /\ GoTo(t, "nested")
  /\ UNCHANGED <<omp_locks, current_clocks, clock, file, pos, recorded, replayed>>

NestedOut(t) ==
  /\ pc[t] = "nestout"
  /\ ReentryOut(t)
  /\ nest_num' = [nest_num EXCEPT ![t] = @ - 1]
  /\ GoTo(t, "body")
  /\ UNCHANGED <<omp_locks, current_clocks, clock, file, pos, recorded, replayed>>

ProgramStep(t) == Access(t) /\ UNCHANGED gateVars

\* reomp_cgate_leave in record mode, up to omp_unset_lock.
GateOutRecord(t) ==
  /\ mode = "record"
  /\ AtGateOut(t)
  /\ ~ReentryOut(t)
  /\ nest_num' = [nest_num EXCEPT ![t] = @ - 1]
  /\ clock' = [clock EXCEPT ![t] = current_clocks[LockOf(t)]]
  /\ current_clocks' = [current_clocks EXCEPT ![LockOf(t)] = @ + 1]
  /\ omp_locks' = [omp_locks EXCEPT ![LockOf(t)] = NoThread]
  /\ recorded' = [recorded EXCEPT ![LockOf(t)] = Append(@, <<t, sec[t]>>)]
  /\ GoTo(t, "filing")
  /\ UNCHANGED <<file, pos, replayed>>

\* reomp_cgate_record_ticket_number: the lock is free again by now.
FileTicket(t) ==
  /\ pc[t] = "filing"
  /\ file' = [file EXCEPT ![t] = Append(@, TicketToFile(t))]
  /\ NextSection(t)
  /\ UNCHANGED <<omp_locks, current_clocks, nest_num, clock, pos,
                 recorded, replayed>>

\* reomp_cgate_leave in replay mode: the clock moves on to the next ticket.  The
\* code's increment is not atomic; SectionExclusion, which covers the thread
\* until this step, is why no other increment can overlap it.
GateOutReplay(t) ==
  /\ mode = "replay"
  /\ AtGateOut(t)
  /\ ~ReentryOut(t)
  /\ nest_num' = [nest_num EXCEPT ![t] = @ - 1]
  /\ current_clocks' = [current_clocks EXCEPT ![LockOf(t)] = @ + 1]
  /\ replayed' = [replayed EXCEPT ![LockOf(t)] = Append(@, <<t, sec[t]>>)]
  /\ NextSection(t)
  /\ UNCHANGED <<omp_locks, clock, file, pos, recorded>>

\* The second run starts with the files of the first one and a fresh gate
\* (reomp_cgate_finalize, then reomp_cgate_init in a new process).
Rerun ==
  /\ StartReplay
  /\ omp_locks' = [l \in Locks |-> NoThread]
  /\ current_clocks' = [l \in Locks |-> 0]
  /\ nest_num' = [t \in Threads |-> 0]
  /\ clock' = [t \in Threads |-> 0]
  /\ pos' = [t \in Threads |-> 0]
  /\ UNCHANGED <<file, recorded, replayed>>

Step(t) ==
  \/ GateInRecord(t) \/ GateInReplay(t)
  \/ NestedIn(t) \/ ProgramStep(t) \/ NestedOut(t)
  \/ GateOutRecord(t) \/ FileTicket(t) \/ GateOutReplay(t)

\* Both runs are over.
Ended == mode = "replay" /\ AllDone /\ UNCHANGED vars

Next == Rerun \/ Ended \/ \E t \in Threads : Step(t)

Spec == Init /\ [][Next]_vars

\* Every thread keeps running (the spin loops and omp_set_lock included) and the
\* program is run again.
Fairness == WF_vars(Rerun) /\ \A t \in Threads : WF_vars(Step(t))
FairSpec == Spec /\ Fairness

-------------------------------------------------------------------------------

\* No two threads are inside sections of the same lock, in either run.  In the
\* recorded run omp_set_lock sees to it; in the replay no lock is taken, and it
\* rests on no ticket of a lock ever being issued twice.
SectionExclusion ==
  \A t, u \in Threads :
    InSection(t) /\ InSection(u) /\ LockOf(t) = LockOf(u) => t = u

\* The inductive invariant behind SectionExclusion and OrderSpec.  LockAt is the
\* gate lock of the s-th section of t, wherever t is.
LockAt(t, s) == GateLock(Program[t][s].lock)

\* nest_num is the depth of the gates the thread is in.
NestingInv ==
  \A t \in Threads :
    /\ nest_num[t] = IF pc[t] = "body" THEN 1
                     ELSE IF InSection(t) THEN 2 ELSE 0
    /\ sec[t] \in 1..(Len(Program[t]) + 1)
    /\ pc[t] # "run" => HasSection(t)

\* The e-th ticket of l's clock went to section <<t, s>>.
IssuedTo(l, e, t, s) == e < Len(recorded[l]) /\ recorded[l][e + 1] = <<t, s>>

\* Every ticket in a file, or on its way there, is where the history says it
\* was issued; so no ticket of a lock is in the files twice.
TicketInv ==
  /\ \A t \in Threads : \A s \in 1..Len(file[t]) :
       /\ s <= Len(Program[t])
       /\ IssuedTo(LockAt(t, s), file[t][s], t, s)
  /\ \A t \in Threads :
       pc[t] = "filing" => IssuedTo(LockOf(t), clock[t], t, sec[t])

\* The recorded run: the holder of the lock is inside, clocks count the tickets,
\* and only sections that were left have one.
RecordInv ==
  mode = "record" =>
    /\ \A t \in Threads : InSection(t) => omp_locks[LockOf(t)] = t
    /\ \A t \in Threads : Len(file[t]) = sec[t] - 1
    /\ \A l \in Locks : /\ Len(recorded[l]) = current_clocks[l]
                        /\ replayed[l] = <<>>
    /\ \A l \in Locks : \A i \in 1..Len(recorded[l]) :
         LET t == recorded[l][i][1]
             s == recorded[l][i][2]
         IN  s < sec[t] \/ (s = sec[t] /\ pc[t] = "filing")

\* The replay: a thread inside holds the ticket the clock shows, and the clock
\* counts how far the recorded order has been followed.
ReplayInv ==
  mode = "replay" =>
    /\ \A t \in Threads :
         /\ Len(file[t]) = Len(Program[t])
         /\ pc[t] # "filing"
         /\ pos[t] = IF InSection(t) THEN sec[t] ELSE sec[t] - 1
         /\ InSection(t) => file[t][sec[t]] = current_clocks[LockOf(t)]
    /\ \A l \in Locks :
         /\ Len(replayed[l]) = current_clocks[l]
         /\ Len(replayed[l]) <= Len(recorded[l])
         /\ \A i \in 1..Len(replayed[l]) : replayed[l][i] = recorded[l][i]

\* Tickets, clocks, locks and histories agree in every reachable state.
Inductive == TypeOK /\ NestingInv /\ TicketInv /\ RecordInv /\ ReplayInv

\* Sections pass every gate in the recorded order (see GateOrder).
SectionIds ==
  UNION { UNION { {t} \X (1..Len(p.code[t])) : t \in Threads } : p \in Programs }
Order == INSTANCE GateOrder WITH Sections <- SectionIds
OrderSpec == Order!Spec

===============================================================================
