# Verification of ReMPI and ReOMP

ReMPI and ReOMP record the nondeterminism of a parallel program and force it in a
later run. ReMPI (`src/src/rempi`) intercepts MPI calls: it records which message
each receive, test and probe got, and in the replay makes each call get the same.
ReOMP (`src/src/reomp`) instruments an OpenMP program with *gates* around racy
accesses, critical sections and reductions, and makes threads pass the gates of
the replay in the recorded order. Both promise one thing: what a process (a
thread) observes in the replay is what it observed in the recorded run, and the
replay ends. This project models the code that makes that promise, checks it with
TLC and proves part of it with TLAPS.

Paths below are relative to the repository root `src/`, so `reomp/x` is
`src/src/reomp/x`.

## 1. Inventory

### ReOMP

| Part | State | Operations | What makes it correct |
|---|---|---|---|
| Compiler pass (`reomp_ir_pass.cpp`) | none at run time | puts `REOMP_CONTROL` calls around racy accesses, criticals, reductions | which sections a program has (a constant here) |
| Control (`reomp.cpp`) | `reomp_config` | chooses the lock of a gate (0 unless `multi_clock`), forwards to a gate | - |
| Clock gate (`reomp_gate_clock.cpp`, `reomp_cgate_*`) | lock and clock per lock id, nesting depth and file per thread | in, out | sections of a lock pass in the recorded order, alone, with the recorded values |
| Epoch gate (same file, `reomp_ccgate_*`) | also two tables of the last accesses of each clock | in, out | accesses that share an epoch commute |
| Thread id gate (`reomp_gate_tid.cpp`) | an array of `num_locks` locks, one `current_tid`, `nest_num`, file | in, out | all sections of the process pass one at a time in the recorded order |
| Reduction hooks (`reomp_gate_clock.cpp`, `..._reduce_...`) | a placeholder in the file for the method | before and after `__kmpc_reduce` and its end | the method and the order of combining are the recorded ones |
| Serial clock gate (`reomp_scgate_*`) | one clock | in, out | as the clock gate |
| Data race reports (`reomp_drace.cpp`) | sets of racing source lines | merge races into sets, look up a line | racing lines get one lock id |

Threads interact through the locks, the clocks and the tables; each thread owns
its record file. Hard: the replay of the clock gate holds no lock at all; files
are written after the lock is released; the epoch gate looks at its tables with
the lock released; the thread id gate shares two plain variables between threads
under different locks, and its array of locks ends before the last lock ids; gates
nest.

### ReMPI

| Part | State | Operations | What makes it correct |
|---|---|---|---|
| MPI wrappers (`rempi_pmpi.cpp`, `rempi_mpi_init.cpp`) | thread level of the program | every C and Fortran entry of MPI; handle and index conversions | the application keeps its handles, statuses and indices, in both languages |
| Dispatch (`rempi_re.cpp`) | mode, encoder | choose the recorder's handler; collectives with their clocks | a call is recorded or left to MPI by what its requests are |
| Recorder (`rempi_recorder.cpp`) | event of each open receive, ids | isend, irecv, matching calls, probes, cancel, free, finalize, in both modes | replayed calls return what recorded ones returned |
| Request manager (`rempi_request_mg.cpp`) | tables of requests; call sites and tags of each matching set | register, deregister, "is this call recorded"; set of a call | every recorded request is known exactly while it is active; a call has the same set in both runs |
| Matching functions (`rempi_mf.cpp`) | none | one, some, all and any variants as one call with counts | - |
| Event list (`rempi_event_list.cpp`) | previous event, queue, closed flag | push, push_all, pop; enqueue_replay, dequeue_replay | no event lost, doubled, overtaken |
| Queue (`rempi_spsc_queue.h`) | linked nodes, two counters | enqueue, dequeue, rough_size | FIFO between two threads without locks |
| Basic encoder, I/O thread (`rempi_encoder_basic.cpp`, `rempi_io_thread.cpp`) | the chunk | extract, encode, write; read, decode, insert | events reach the file after their source is known |
| CDC encoder (`rempi_encoder_cdc.cpp`, `rempi_clock_delta_compression.cpp`, `rempi_compression_util.cpp`) | a table per matching set; the decoding state | turn observed messages into moves against clock order, write, read, undo | decoding inverts encoding, whatever order messages arrive in |
| CDC recorder (`rempi_recorder_cdc.cpp`) | requests, pending events | as the recorder, by clocks | as the recorder |
| Clocks, propagation (`rempi_clock.cpp`, `rempi_cp.cpp`) | local clock; one-sided windows with the next clock and the send counts of each rank | tick, sync; publish, gather | what is known of another rank's next clock is never too high, and grows |
| Message buffers (`rempi_msg_buffer.cpp`) | receives posted, messages collected, receives posted for probed messages | post, progress, take | no message is passed over or collected twice |
| REP recorder (`rempi_recorder_rep.cpp`, `rempi_encoder_rep.cpp`) | logical clocks | matching by clock order | the order is a function of the clocks |
| Compression (`rempi_compress*.cpp`) | - | zlib, linear prediction | inverse of each other |
| Configuration, errors, memory, threads | - | - | - |

A process has two threads: the application's (the recorder runs in it) and the
I/O thread. They share the event list and, while recording, the events in it: the
application fills in the source of a receive when it completes, although its event
is already in the queue and perhaps in the hands of the I/O thread. Hard: messages
of the replay arrive in any order; the end of the record races with the last
chunk; a bounded queue sits between two threads that wait for each other.

With clock delta compression (CDC, chosen with `REMPI_ENCODE`; the default is the
basic encoder, `rempi_config.cpp:81`) ranks also depend on each other in the
replay. A record says only how the observed order differs from the order of
Lamport clocks, so a rank may decode a message only when it knows that none with a
smaller clock is still to come; it learns this from clocks that the others publish
in windows it reads one-sidedly, and what it publishes itself depends on what it
waits for. Hard: bounds that are old when they are used, clock and count read in
two halves, messages that come in between two tests, chunks whose messages overlap
in time, calls that name their matching set differently in the two runs, records
cut off by a crash.

`PROJECT.json` lists every part with its status, and under `hazards` each place
of the code where one of these difficulties bites.

## 2. Modules

| Module | Models | Implements |
|---|---|---|
| `OmpProgram` | a program with gates as its threads execute it; the two runs; `ReplayFaithful`, `BothRunsEnd` | |
| `GateOrder` | the promise of a gate: each lock's sections pass in the recorded order | |
| `ClockGate` | `reomp_cgate_in/out` | `GateOrder` |
| `EpochGate` | `reomp_ccgate_in/out` | |
| `TidGate` | `reomp_tgate_in/out` | |
| `Mpi` | the MPI library as ReMPI uses it (external): sends, non-overtaking matching, probe, cancel | |
| `MpiReplay` | recorder, request manager and matching functions of all processes, over `Mpi`; the two runs | |
| `RecordStream` | one recording process: recorder, event list, encoder, I/O thread | |
| `EventStream` | the promise of the replaying list: the recorded events in order, then the end | |
| `ReplayStream` | the replaying event list, its I/O thread and decoder | `EventStream` |
| `Fifo` | a bounded queue | |
| `SpscQueue` | the queue, one step per load and store of shared memory | `Fifo` |
| `EditPath` | the permutation of a chunk as a shortest edit script, and linear prediction: pure operators | |
| `CdcTable` | one table of the CDC encoder: adding events, moves, the words of the file, reading them back, decoding with bounds | |
| `CdcCodec` | one rank: record, write in chunks, crash, read, decode while messages arrive and bounds become known | |
| `CdcReplay` | all ranks: Lamport clocks, sends, receives, collectives, windows and what is published in them, over `CdcTable` | |
| `MatchingSets` | call sites, tags and the sets they fall into, in both runs | |
| `MsgBuffer` | the receives of one replaying rank, tested one by one while messages come in, over `MatchingSets` | |
| `Wrappers` | the C and Fortran wrappers over the request manager's tables and MPI's handles | |
| `ClockGate_proofs`, `EpochGate_proofs`, `TidGate_proofs`, `SpscQueue_proofs`, `MpiReplay_proofs`, `Wrappers_proofs` | theorems about these modules | |
| `Streams_proofs` | theorems about `RecordStream` and `ReplayStream` | |
| `MpiReplayInv` | the invariants that `MpiReplay_proofs` proves, and what a step does to the values they are about | |
| `SharedLemmas` | the least number of a set, induction over an interval as a fact about sets; `FlattenSeq` of a sequence that grows, and of counted events; what a thread reads when accesses to a variable are executed in the same order twice; queues that lose and gain elements, sets of numbers in order, prefixes | |
| `MCOmpProgram`, `MC...` | values of the constants for TLC | |

`OmpProgram` is extended by the three gates; `Mpi` by `MpiReplay`; `EditPath` by
`CdcTable`, which both `CdcCodec` and `CdcReplay` extend; `MatchingSets` by
`MsgBuffer`. The CDC modules divide the code at the interfaces where it can be
divided: `CdcCodec` lets a rank know *any* true bound at any time and shows that
decoding then is right; `CdcReplay` shows that the bounds the ranks compute are true
(`BoundsHold`) and that enough of them become known; `MsgBuffer` shows that arriving
messages reach the lists in the order the decoder expects. `RecordStream`
and `ReplayStream` take the queue as a sequence, which `SpscQueue` justifies
(`FifoSpec`); `MpiReplay` takes the way from recorder to file and back as a
sequence per process, which `RecordStream` (`StreamInOrder`) and `ReplayStream`
(`StreamSpec`) justify. All three are proved (section 5).

### The gates

`Program[t]` is the sequence of sections of thread `t`; a section has a lock id, a
kind and a body of accesses, each of which may carry a gate of its own. `program`
is a variable that never changes: its initial value ranges over `Programs`, so one
run of TLC covers a family of programs. A value in memory is the name of the write
that made it; two runs agree when each thread reads the same writes (`log` against
`recLog`) and the memories at the end agree. `StartReplay` ends the recorded run
and starts the same program in mode "replay" with the record files it left.

Correspondence, for the clock gate (the others are alike, see the comments):

| Action | Code |
|---|---|
| `GateInRecord` | `reomp_cgate_in`, recording: reentry filter, `omp_set_lock` (`reomp_gate_clock.cpp:382-400`) |
| `GateInReplay` | the same, replaying: read the ticket, spin (400-412) |
| `NestedIn`, `NestedOut` | the calls the reentry filter cuts short (339-371) |
| `GateOutRecord` | `reomp_cgate_leave` up to `omp_unset_lock` (451-463) |
| `FileTicket` | its write of the ticket, the lock being free (464) |
| `GateOutReplay` | the increment of the clock (467) |
| `Rerun` | finalize, a new process, init |

The replay's reading of a ticket and the end of its spin are one step because only
the thread itself reads its file and, while it spins, does nothing else. The plain
`++` on the replaying clock is one step because no two threads of a lock are ever
there together: this is `SectionExclusion`, which is proved.

In `EpochGate` the slot tables are read and written in steps of their own after
the unlock (`FileEpoch`, `ResetSlot`); the history variable `recorded` names the
section that took each clock. In `TidGate`, `nest_num++` and `nest_num--`
are a load and a store, and the two conditions of the replay loop are two steps; the
history variable `recorded` names the section of each entry of the record file.
`reomp_tgate_init_locks` makes `num_locks` locks, as many as there are sets of races,
while the ids are 0 and, for the sets, 2 to `num_locks + 1`; the clock gate adds the
offset, this gate does not. `record_locks` therefore has only `MadeLocks`. A thread that
sets another one gets memory past the array: `SetLock` lets it in whoever is inside, and
its step is not fair (`Sure`), so that it may also wait for ever. (That such a call
damages other data is not modelled.) The replay sets none of these locks.

### ReMPI

`MpiReplay`: each process runs a straight program of sends, receives, matching
calls (`MPI_Wait/Test`, any, some, all), probes, cancels and calls ReMPI does not
support. `Mpi` matches messages with receives in the order in which both are
posted, per source; which source comes first is free in each run. `events[p]` is
the record; `seen[p]` what the application observed. A failed assertion, an exception or
`REMPI_ERR` puts the process in `failed`: so does `Cancel` of anything but a registered
receive, for which `record_cancel` finds no event (`.at` throws) and `replay_cancel`
reports an error. Two variables are there for the properties and
the proof only: `history[p][k]` is the state process `p` was in before its operation `k`
of the recorded run, `recMsg` the message each of its requests had.

`RecordStream`: application and I/O thread of one process, down to the steps in
which the I/O thread looks at the queue, at an event's source, at the closed flag
and at the length of the list. `ReplayStream`: the same for the reading side, with
the order "look at the flag, dequeue, judge" of `dequeue_replay`.

`EditPath` and `CdcTable`: a chunk's messages are a sequence of clocks in the order
of observation; against the order of clocks it is a permutation. The code finds a
shortest script of deletions and insertions row by row over a band, follows it back
and keeps for each moved message its place and its delay, as words of `Word` bits in
which negative delays wrap; linear prediction turns them into differences. The
operators do the same on sequences; `CdcTable` adds events that matched nothing,
events returned together, the footer with sources and sets, and the test whether the
next message may be decoded.

`CdcCodec` (one rank): `phase` goes from "record" over "closed", "aborted" or
"crashed" to "replay" and "done" ("failed" when ReMPI gives up). `Add`
is the recorder giving an event to its table, `Flush` the writing of a full chunk,
`Close` the last chunk and the footer; `Crash` cuts the file anywhere. The replay reads
the footer (`ReadFooter`). Each call of the application (`Call`) runs the decoder, whose
states are actions: `CreateRead` looks for the next chunk, `DecodeChunk` reads it,
`Insert` decodes what the bounds allow, `CloseRead` is the end of the file; `Dequeue`
answers the call from what is decoded, or repeats it. The environment delivers messages
(`Arrive`) and lets bounds become known (`Learn`).

`CdcReplay` (all ranks): the steps of a rank between which the others' windows may
change are steps of their own: the look at the clock, the look at the send counts, the
test for arrived messages, the decision, the publication. A message has its clock in
it (the piggyback); it is under way (`net`) until it lands.

`MsgBuffer` (one rank): `TestOne` is the test of one posted receive, `Probe` the
probing loop when the tests brought nothing, `Decode` the delivery to the call; other
ranks' messages come in at any time (`ComesIn`).

`Wrappers`: the application calls any wrapper that is legal with the handles it has;
MPI reuses handles as soon as they are free. `Complete` gives what MPI returns; the
wrappers copy handles in and out for Fortran, shift indices, set the undefined ones.
`CompleteUndefined` is a `MPI_Testany` or `MPI_Waitany` of persistent requests of which
none is started: MPI returns the undefined index, and ReMPI looks it up in its arrays
(`rempi_recorder.cpp:549`, `:1081`). What is read there is not known: the process may
stop, or any request may be struck off the tables.

## 3. Runs

Passing (each explores between a few hundred and 800,000 distinct states):

| Run | Question | Bounds |
|---|---|---|
| `clock` | does the clock gate replay every program exactly, exclusively and without deadlock | 3 threads, 4 gated sections: every program of sections out of 3 kinds with one lock (nested gates), out of 5 kinds with a lock per race; 2 larger programs |
| `epoch` | do accesses that share an epoch commute | the same shape; 16 slots, window 2, cleared tables |
| `tid` | is the replay of the thread id gate serial and faithful | the same shape; a nested program with several locks; 4 locks made (ids 0 to 3) and two programs that set id 4 |
| `record` | do events reach the file once, in order, complete; does finalize return | 2 handles, 2 receives, 1 test or probe, 2 sources, chunks of 1, frees |
| `mpi` | does every process observe the same in the replay | 3 processes, 3 programs: wildcards with polling and answers, tags, probes with cancel |
| `spsc` | is the queue a FIFO for every interleaving of its loads and stores | 6 items, bound 2 |
| `replay_stream` | does the replay get every event before it is told the end | one record of three chunks, with merged events; queue bound 2 |
| `codec` | does decoding undo encoding, for every order of observation, every order of arrival and every moment of a crash | every permutation of 5 messages in one chunk; 3 events of 2 sources in 2 sets with tests in vain, several messages per call, one or several chunks, a crash after 2 |
| `cdc` | do the ranks' bounds hold, do the clocks agree, does nobody wait for ever | 3 ranks, 6 programs with relays, polling, exchanges, a rank that must publish to free another, a barrier; a program around each of 15 collectives |
| `wrappers` | are tables, handles, indices and statuses right under any legal sequence of calls | 2 request variables, 3 handles, C and Fortran, both modes, three thread levels |
| `sets` | does each call find its set and its messages while they come in between tests | 7 programs by hand; every choice of tag, source and order of 3 messages, posted together, one by one or completed by one call |

The invariants that are checked as one are conjunctions of named parts:
`Inductive` of `ClockGate` (types, and the rest of it as in section 5) and of `EpochGate`,
`EpochGate.OverlapSafe` (types, only like accesses overlap), `TidGate.TurnsSerial` (types, the turn is locked, the replay is serial), `RecordStream.StreamInOrder`
(types, order, sources known), `MpiReplay.NoError`, `SpscQueue.MemorySafe` (types,
private nodes, bounded memory, items in order), `CdcReplay.ClocksAgree` (types, same
clocks), `Wrappers.KeptTrue` (types, tables, no failure), `MsgBuffer.KeptInOrder`
(types, no gap, received in order).

Why the bounds are enough: a violation of a gate needs two threads in conflict and
a third that shifts the clock between them, two consecutive sections of one thread
(so that a thread comes back), and one level of nesting; the families contain every
arrangement of these. `SlotCount` and `Window` are 1024 and 10 in the code; a run
of accesses longer than the window and a table longer than the program keep the
two cases apart (a table as short as the program is a demonstration below). Two
receives and one test are enough for events to merge, to be completed out of
order and to be split over chunks. The queue's nodes are reused after three items,
so six items go twice round. Five messages give moves in both directions, moves that
cross, and more than one shortest script; two sources give ties of clocks, chunks of
one event give a boundary between any two. Three ranks are needed for a bound that
depends on a third rank, and for two that publish to each other. Three messages of
two tags and two sources, in every order, are every way in which two receives compete
for a message and a third is between them.

The violation, a `finding`:

| Run | What TLC shows |
|---|---|
| `sets_overtaken` | two receives posted at once for one source and tag are tested one after the other; when both messages come in between the two tests, the second is collected first (`rempi_msg_buffer.cpp:308`), and the call that wants the first stops with "Different clock error", although the test order is there "To avoid out-of-order message receive" (`rempi_msg_buffer.cpp:419`) |

The passing runs say where each stops: `epoch` gives each clock one racing
variable, `RunsEndUnmixed` and `ReplayFaithfulUnmixed` except the mixed counters
(`CountsMix`) and the programs that set locks which are not made (`LocksMissing`), `RecordEnds` and `HandleForgotten` speak of runs without a freed
receive, the programs of `mpi` are `Replayable` and `Accepted` (section 5), so they cancel only
receives, each once, and only such as nothing can match,
`AlikeChunksReplay` speaks of records whose chunks have the same sets and sources,
`codec` lets no message be observed in a later chunk than one its source sent after
it, `cdc` reads a pair of clock and count whole and has collectives in the middle of
a program only where all ranks wait for all, `wrappers` takes no risk of
`Risks`, and in `sets` receives that are posted together differ in tag or source.
What happens beyond each of these limits is in section 6.

Mutants: each property of a passing run is shown to fail when one definition of
the code is changed to a plausible bug; the variants (`Def_Bug`) stand before the
definition they replace.

## 4. Fairness

Threads are scheduled by the operating system: each step of a thread is weakly
fair (`WF_vars(Step(t))`; in `TidGate` all but the setting of a lock that is none). This is what spinning needs: a spinning thread has no
step in the clock and epoch gates (the spin is a guard), and steps that change
nothing important in `TidGate`, where progress comes from the others' fairness.
`omp_set_lock` is not assumed to be fair between threads; every thread has
finitely many sections, so none can be overtaken for ever. `Mpi` delivers every
message (weak fairness of `Deliver`), and nothing else is promised by MPI. The two
threads of `SpscQueue`, `RecordStream` and `ReplayStream` are each weakly fair.

In `CdcReplay` each rank keeps running (weak fairness of `GoesOn(p)`, any step that
brings rank `p` forward) and each message lands (`Land`); in `MsgBuffer` the rank
goes on and the messages come in. In `CdcCodec` the rank goes on too, and it asks for strong fairness of its
environment, since the bound of one source and the message of another may be
interleaved with steps of the rank that disable them for a moment: `Arrive` and
`Learn` stand for the other ranks, and that their messages arrive and their bounds
become known is what `CdcReplay` checks as `BothRunsEnd`. Fairness is stated of
`GoesOn` and not of the actions one by one: its guard is written out so that TLC need
not expand every action to find out whether it is enabled.

The second run is started (fairness of `Rerun`, `StartReplay`) so that liveness
speaks of it. Deadlock checking is off only where the code may really stop: `record`
(a freed receive), `tid` (mixed counters, locks that are none), `codec` (a record that ended), `wrappers`
(a program that ended).

## 5. Proofs

Assumptions are those on the constants: `ProgramAssumption` (the programs are
programs, 0 is a lock id, lock ids are numbers), `NoThreadAssumption` (the mark of a
free lock is no thread), `NumLocksAssumption` (lock ids end at `num_locks + 1`), the epoch gate's (`EpochAssumption`: the same, and a window
shorter than the slot table), the queue's (finitely many nodes, a null pointer that is
none of them, a bound of at least 1, a number of items), the recording side's
(`RecordStreamNumbers`: its bounds are numbers; `RecordStreamNone`: the null pointer is
no event and no number of one) and the replaying side's (`ReplayStreamAssumption`: the
file is a sequence of chunks of counted events, the queue has room for one, the null
pointer is no event).

### The clock gate

`ClockGate_proofs` proves for every set of threads, locks and variables, every
program (of any length, with nested gates) and both settings of `multi_clock`:

- `TypeCorrect`: `Spec => []TypeOK`
- `Invariance`: `Spec => []Inductive`
- `MutualExclusion`: `Spec => []SectionExclusion`
- `FollowsRecordedOrder`: `Spec => OrderSpec`, that is, the gate implements
  `GateOrder`

Exclusion in the recorded run is the lock's doing. In the replay nobody takes a
lock: the argument is that the thread inside holds the ticket which the clock
shows, and that a ticket names one place in the recorded order, where exactly one
section stands. So the invariant has to carry the whole history:

- `NestingInv`: `nest_num` is the depth of gates the thread is in, so the reentry
  filter is right;
- `TicketInv`: the `s`-th ticket of a thread's file, and the one it is about to
  write, is the place of its `s`-th section in `recorded` of that section's lock;
- `RecordInv`: while recording, the thread inside holds the lock, the clock counts
  `recorded`, each thread's file is as long as its finished sections, and only
  finished sections are in `recorded` (so no section is there twice);
- `ReplayInv`: while replaying, files are complete, the thread inside holds the
  ticket its clock shows, and `replayed` is the beginning of `recorded`, as long as
  the clock says.

`SectionExclusion` alone is not inductive: without `TicketInv` two files could hold
one ticket, and without `RecordInv` nothing says so at the moment the runs change.
The proof has a lemma per conjunct (`TypeStep`, `NestingStep`, `TicketStep`,
`RecordStep`, `ReplayStep`), each split by action. `OneProgram` says that the
program never changes, which the refinement needs.

What the gate is for is proved on top of it: `ReadsReplayed`, `Spec => []ReplayFaithful`,
for programs in which each variable has one gate (`OneGateEach`). This is what
`drace_data_race_lock_sets` achieves by joining races that have an access in common, and
where a section of another kind accesses the variable as well it fails, with several
clocks (the demonstration `NestedPrograms` below); without `multi_clock` it always
holds (`OneClockReplays`). TLC checks that the programs of the run satisfy it
(`ProgramsGated`). Both runs are compared with a third one that never happens:
`SharedLemmas` defines what an access finds when the sections in `recorded[l]` are executed
one after the other (`HoldsAfter`, `HoldsAt`), and that there is one such value
(`OneValueAt`). The invariant `SerialInv` says of either run that the memory holds the value
after as many sections as the clock says (`MemInv`), and of every read in the log that it
is the value at its section's ticket (`LogInv`); `KeptInv` is the same of what is kept of
the recorded run, so the logs agree. Counting the reads of a thread is induction over its
program, done with cardinalities of sets of places (`Shape`) so that no recursive function
is needed.

### The epoch gate

`EpochGate_proofs` proves `EpochOverlapSafe`: `Spec => []OverlapSafe` for every team, set
of locks and program, both settings of `multi_clock`, any contents of the slot tables,
which the code does not clear, and any delay of a thread between its unlock and its look
at the tables. Of the numbers it needs that the window is shorter than the table
(`EpochAssumption`; 10 and 1024 in the code): were they equal, a count that goes round the
table would meet the slot it started from. The invariant is `Inductive`, which TLC
checks too; it is about the history variable `recorded`, the section of each clock:

- `SlotInv`: a slot that the table still reaches shows the kind of its clock, or it was
  cleared. Other threads clear slots at any time, but nobody writes a kind into
  the slot of a clock that was taken, before the table comes round;
- `EpochInv`: an epoch in a file, or on its way there, is at most the section's clock,
  and the clocks from it on went to sections of one kind (`EpochFits`). A count that is
  too low because slots were cleared only orders more than necessary;
- `ReplayInv`: in the replay the clock counts the sections that were left (`Left`), and a
  section was entered only when each one of an earlier clock was left or is of one
  run with it (`Alike`). This is a pigeonhole argument: as many sections were left as the
  epoch says; if one of a clock below the epoch is not among them, one of a clock not
  below it is, and that one, having been entered, is of one run with the missing one.

So two sections that are inside together are of one run (`LikeOverlap`).

What the gate is for, `EpochReadsReplayed`: `Spec /\ []SlotsFresh => []ReplayFaithful`,
supposes of the program that each variable has one gate (`OneGateEach`), that the kinds of
section are true (`KindsTold`: the pass puts `LOAD` and `STORE` around one instruction
each, `reomp_ir_pass.cpp:294-302`, and so for atomic ones) and that the stores of a gate lock
are to one variable (`OneStored`); and of the run that a storing thread which sees a store
in the slot after its own sees the next store (`SlotsFresh`). Each of these is needed: the
demonstrations `SharedClockPrograms`, `StaleSlotPrograms` and `UnclearedPrograms` of section 6
are runs without `OneStored` and without `SlotsFresh`. `ShortRunsReplayed` replaces the last by
two conditions on constants: fewer sections at each lock than slots, and tables that hold no
store at first; the module of the run states them as an assumption (`ProgramsFit`), so
TLC checks that its programs meet them.

The comparison is again with the sections executed one after the other, but a section may
be overtaken, so no single count says what a variable holds:

- `StoreInv`: an epoch that lets a store pass early was filed with the next store in
  sight, so `OrderInv`: where a section was entered before one of a lower clock had left,
  both are of one run, and if they store, another store follows;
- `MemInv`, recorded run: as in the clock gate. Replay: take any clock such that exactly
  the sections before it, of those that write the variable, were entered and have left
  (`SettledIn`). Unless the section of that clock will overwrite it, the variable
  holds what the order says (`AfterIn`). A store that may be overtaken leaves a variable that
  is settled only at clocks of stores, all of one run and to this variable (`LeaveHolds`, an
  induction up the run); the last of the run goes alone (`Alone`) and what it writes
  lasts (`HoldsOn`). A section of another kind runs alone and knows its variables (`InsideAt`);
- `LogInv`: a load finds its variable settled, because whatever overlaps it or was
  overtaken by it is a load too (`LoadSettled`); the rest as in the clock gate.

`SerialInv` joins them with where a thread is in its section (`BodyInv`) and what is kept of
the recorded run (`KeptInv`).

### The queue

`SpscQueue_proofs` proves `QueueMemorySafe`: `Spec => []MemorySafe` for every bound,
any finite set of nodes and any number of items. `MemorySafe` says that
the producer never holds a node which the consumer can reach, that no more nodes are
allocated than the bound allows, and that the items come out in the order in which
they went in. The invariant (`IInv`) is about the whole list: there are a
lowest item `lo`, a place `tc` of the producer's stale copy of the tail, and a
numbering `at` of nodes by items, such that the nodes of `lo .. Last` are different,
each is linked to the next and holds its item, and `first`, `tailCopy`, `tail`,
`head` are at the ends they should be (`Chained`); and the two counters lag behind
the list in one direction only (`Counting`), which is why an unsigned difference of
them is safe. Each action moves `lo`, `tc` or the end of the numbering by one.

`QueueIsFifo`: `Spec => FifoSpec` says that the linked list *is* the bounded queue
`Fifo`. The queue it stands for is read off the memory: walk from `tail` along `next`
(`Reached`, a recursive function of the number of links), as far as the null pointer.
From the invariant, the `k`-th node of that walk is the node of item
`Len(taken) + k` (`WalkIsReached`), and there are no more links than nodes
(`WalkFits`), so the queue holds exactly the items from `Len(taken) + 1` to `Last`
(`ContentsAre`). Then `Link` is the abstract enqueue, `MoveTail` the abstract dequeue,
and every other load and store is not seen (`StepRefines`).

### The thread id gate

`TidGate_proofs` proves `TidTurnsSerial`: `Spec => []TurnsSerial`, for every team and
every program, with one lock or several, made or not: all gated sections of the process run one at
a time in the replay, and the file lock is set while it is a thread's turn. Since
`current_tid` and `nest_num` are shared by all threads, the invariant says whose they
are: a thread past a gate has the turn (or, recording with one lock, the lock), is
`current_tid`, and `nest_num` is its own depth (`ThreadInv`); when `current_tid` is
nobody, `nest_num` is 0 (`Idle`); and where each thread can be (`PlaceInv`). For the
recorded run with several locks, or without the one lock, there is no such invariant,
and there none is claimed (`Ordered`): that is the run which `MCTidGateHang` shows to hang.

`TidReadsReplayed`: `Spec => []ReplayFaithfulUnmixed`, for programs that set none but
made locks, whose counters do not mix and in which each variable is some thread's own or is
accessed in the sections of one gate and not in a reduction, for which this gate does
nothing. The first two are what the property itself excepts (`LocksMissing`, `CountsMix`),
the third is the theorem's assumption (`OrderedVars`; TLC checks it of the run's programs,
`ProgramsOrdered`). The proof uses the same lemmas with the order of the
record file, which is one for all locks. The file has thread ids only, so the history
variable `recorded` names the section of each entry, and `EntryInv` says that the entries
of a thread are its gated sections in program order: the replay cannot take one for
another. While recording with several locks, sections of different locks overlap, and the
order of the file is that in which they left.

### The recording side

`Streams_proofs` proves `RecordedInOrder`: `Spec => []StreamInOrder` for any
handles, sources, numbers of calls, chunk length and bound on the queue. An event
passes through five places (created by the call, held back as `previous`, queued, held
by the I/O thread, in the chunk) before it is in the file, merged on the way, and its
source is written into it by the other thread meanwhile. That no step loses, doubles
or swaps one is `InOrder` itself, once the parts are cut at the right places: the chunk,
what is held, the queue and `previous` are one sequence (`Pushing`) that the I/O thread
only cuts elsewhere (`SameOrder`), and `push` adds one event at its end, in three ways
(`PushKeepsOrder`). `SourceKnown` needs more (`IInv`): an event that is filed under a handle
has no source yet and is filed once (`Filed`), events of receives to come have none
(`Fresh`), what is in a chunk has its source unless the list is closed (`ChunkKnown`),
and the application does nothing after closing it (`ClosedLast`). From these, a source
changes only from unknown to known and only while the list is open (`Settled`), hence
never behind the encoder's back.

`HandlesForgotten`: `Spec => []HandleForgotten` needs the same invariant and that an event
is filed only under a registered handle (`FiledRegistered`): ReMPI forgets the event in
the step that unregisters the request, before MPI can give the handle out again.

### The replaying side

`Streams_proofs` proves `ReplayIsStream`: `ReplaySpec => StreamSpec` for every record
file: any chunks, any merging, any bound on the queue. `ReplayedInOrder` says that what was
handed out followed by what waits (the event in hand, the queue, the rest of the chunk)
is what was read; so what is handed out is a beginning of the whole record (`Ahead`), and
handing out one event is the abstract delivery of the next (`PopDelivers`). "Finish" is
the hard part: `InHand` says that a thread which read the closed flag *before* it found
the queue empty cannot have missed an event, and `FinishIsLast` that the answer never
changes afterwards.

Both streams rest on `SharedLemmas`: `FlattenSeq` of the community modules is a
recursive function, and that it distributes over `\o` is proved by comparing it with
the function that joins the first `i` sequences (`JoinsExist`, `JoinsUnique`,
`FlattenIsJoin`). The induction there is not the library's, which takes an operator as a
parameter, but the statement that a set of numbers has a least one (`LeastNumber`,
`InductionFrom`).

### The processes of an MPI program

`MpiReplay_proofs` proves `MpiReplayFaithful`: `Spec => []ReplayFaithful` for any number
of processes and any programs of any length, wildcard receives, polling tests, probes and
sends that depend on what was received included: in the replay every matching call and
every probe returns what it returned in the recorded run, with the very same messages,
in whatever order they arrive.

It is proved of programs that are `Replayable`; a program that is not can really go
wrong. A receive whose source the record does not know when the replay posts it (it was
cancelled, or never completed in a call) is posted with the application's wildcard and
may take a message that another receive should get, so each receive has to be waited for
by a call that must complete it, or be one that nothing is sent to: `CancelPrograms`
(section 6) breaks this. And a call whose requests ReMPI keeps no account of goes
to MPI in both runs, where it may complete other requests if it has a choice. TLC checks
that the programs of the run are `Replayable`, and `Accepted` (`ProgramsReplayable`).

`MpiNeverStops` proves `Spec => []NoError` of the programs that are also `Accepted`: types
are kept, and nothing stops a process in either run. A matching call that mixes requests is
not met, what is cancelled is a receive that is still registered, a replayed receive finds
the event of a receive, and every check that `replay_mf_input` and `replay_pf` make of an
event succeeds. `Accepted` is what an application has to see to: it sends to a process, it
uses the source of the last message only after an operation that cannot return without one
(`Informs`), it cancels only receives and each once, and it gives a request ReMPI keeps no
account of to a call of its own (`SendCancelPrograms` and `MixedPrograms` in section 6 do
not, and are stopped). That such a receive is still registered takes an invariant of its
own, `Nulled`: a receive is over only when it has its message, and a receive that a
`Replayable` program cancels never gets one.

The invariants are in `MpiReplayInv`. That of the first theorem (`Inv`) has three parts,
defined over the values of the state so that they can be said of either run and of a
process before or after a step.

- `Channels` is what MPI promises, in both runs: the messages of a pair of processes are
  in order while they travel and while they wait unexpected, each sent message is in one
  place and goes to one receive (`Pipes`, `MessagesRight`), receives are posted in program
  order and none waits while a message is there that it matches (`PostedRight`,
  `OpenPosted`), and messages of one source are received in turn (`InTurn`).
- `Recording` reads the history entry by entry: `Kept` says for each kind of operation
  how the state before and after it differ and which events it left in the record, from
  which on only the source of a receive is still changed (`EventsGrow`), and `RanksRight`
  that a completed receive has its source in its event.
- `Replaying` says that a process of the replay is in the state the history has for its
  place (`ReplayingAt`), that a receive which has a message has the one it had before
  (`SameMessages`), and that a posted receive has the source it got its message from
  (`PostedSources`).

The step that carries it is `GetsRecorded`: a receive posted with the recorded source
gets the recorded message. By induction the messages sent so far are those of the
recorded run (`SentBefore`); messages of one source come in the order sent; an earlier
one that would match went, in the recorded run, to an earlier receive, and that receive
is still posted in the replay with the same source and would take it first
(`EarlierWaits`). Because a later event of the record tells the source of an earlier
receive, the end of the recorded run is needed to know that every source is filled in
(`SourcesRecorded`): this is where `Replayable` is used. The group of events that a
matching call reads back is found by the marks on its events (`GroupEnds`) and names the
requests it had completed (`GroupCompletes`).

The second theorem needs another invariant (`Sure`), since `Inv` says nothing of the table of
wanted sources, which only the checks read. `WantedRight` says that it has the peer the
application named, as the history knows it; `PostsWanted` that in the recorded run a receive
is posted with that source; so what a receive got and what a probe saw came from where the
application looked (`GotFrom`, `ProbesRight`), and the replay, whose messages are the same,
passes the checks (`RequestPlausible`, `ChecksSucceed`). `SourceKnown` and `NullKnown` say
when the last source is a process, `IgnoredLost` which requests ReMPI has no account of
(`NeverMixed`), `RanksGiven` that the record names a source for every receive. That the
events a process reads are those it wrote for the operation at hand is `Inv`'s, whose
preservation the steps of `Sure` use.

### The wrappers

`Wrappers_proofs` proves `TablesKeptTrue`, `RequestsNamed` and `AnswersRight`, that is
`KeptTrue`, `HandlesTrue` and `ResultsRight`, for any finite number of request variables,
any handles and any arrays of variables without repetition. They are proved of what ReMPI
supports (`Supported`): an application that takes none of the `Risks` (each of which does
stop it or spoil its tables, section 6), the encoding the build has, and an MPI that
grants `MPI_THREAD_FUNNELED`. The run has the same hypotheses in its configuration.

None of the three is inductive: the tables are right only because a handle they list is
not handed out again, that is because it is still held. The invariant (`IInv`) adds that
what a variable holds is there and is what the variable shows, also in Fortran, where
variables past their completion are not written back (`HeldLive`); that no two variables
hold one request (`OneName`); that a blocking call has one of its own (`LocalOwn`) and
that every request is held by somebody (`AllNamed`). Then a request under way is added to
the tables (`MakesTables`), and leaves them (`ReleasedStates`), together with the
variable that names it. A call that completes requests of an array has to put its answer
in the order of the array; that a finite set of positions has such an order
(`PositionsInOrder`) is shown by the position of each, the number of those not past it.

### Only model-checked

`ReplayFaithful` of the CDC modules and `MsgBuffer`, and the other properties of these
modules. All liveness, which with `ENABLED` is out of the prover's reach. `EditPath`, `CdcTable` and `CdcCodec` compute
with recursive functions and folds over data; what such a function computes for every input
needs induction over data, which the library states with an operator as a parameter, so
`AlikeChunksReplay`, `ShortestRecord` and `ReplayFaithful` of `CdcCodec` and `CdcReplay` stay
with TLC.

## 6. Demonstrations

These configurations and changes show further places where the code departs from what
it promises, or what a limit of a passing run is there for. TLC finds each violated;
they are for reading next to the code.

| Configuration | Violates | Shows |
|---|---|---|
| `MCTidGateHang` | `BothRunsEnd` | with `multi_clock`, threads under different locks overwrite `current_tid` and mix up `nest_num` when gates nest; the run hangs |
| `MCCdcCodecChunks` | `NeverAborts` | records whose chunks differ in sets or sources: the decoder counts those of one chunk against another's and aborts (`rempi_encoder_cdc.cpp:1245`) |
| `MCCdcCodecOvertake` | `ReplayFaithful` | a message observed in a later chunk than one its source sent after it is taken for the wrong chunk (`rempi_encoder_cdc.cpp:110`) |
| `MCCdcReplayTorn` | `ReplayFaithful` | the pair of clock and send count is read while its owner writes it, the count first (`rempi_cp.cpp:340`) |
| `MCCdcReplayBcast` | `ReplayFaithful` | a broadcast does not wait for all ranks; its clock is still published when the next message is under way (`rempi_recorder_cdc.cpp:620`) |
| `MCCdcReplayRendezvous` | `ReplayFaithful` | messages of one rank that do not come in in the order sent (large and small ones) |

Changes of one constant or property in the configuration of a passing run:

| Module | Change | Violates | Shows |
|---|---|---|---|
| `MCClockGate` | `Programs <- NestedPrograms` | `ReplayFaithful` | with `multi_clock` a racy access inside a critical section is passed without its own clock (`reomp_gate_clock.cpp:387`) |
| `MCEpochGate` | `Programs <- SharedClockPrograms`, `Window = 3` | `ReplayFaithful` | by default all sets of races share one table; the last of two stores to `x` may share an epoch with a store to `y` and be replayed first |
| `MCEpochGate` | `Programs <- StaleSlotPrograms`, `SlotCount = 6` | `ReplayFaithful` | a thread delayed by a lap of the table reads another lap's slot (`reomp_gate_clock.cpp:702`) |
| `MCEpochGate` | `Programs <- UnclearedPrograms`, `FreshSlots <- Garbage`, `SlotCount = 4` | `ReplayFaithful` | slot tables come from `valloc` and are not cleared (`reomp_gate_clock.cpp:201`) |
| `MCTidGate` | `Programs <- PastEndPrograms` | `ReplayFaithful`, `BothRunsEnd` | two threads set the lock of id 4, which is past the end of an array of 4: both are inside at once, or one never gets in (`reomp_gate_tid.cpp:155`) |
| `MCTidGate` | `Programs <- ReductionPrograms` | `ReplayFaithfulUnmixed` | the thread id gate's reduction hooks are empty (`reomp_gate_tid.cpp:281`) |
| `MCRecordStream` | `Sources <- OneSource`, `ChunkLength = 3`, `MaxRecvs = 1` | `AllWritten` | the I/O thread may leave with the last events in a chunk it never writes (`rempi_io_thread.cpp:90`) |
| `MCRecordStream` | `Sources <- OneSource`, `MaxRecvs = 1`, `MaxTests = 2` | `FinalizeReturns` | after `MPI_Request_free` of an active receive `MPI_Finalize` does not return |
| `MCRecordStream` | `MaxSize = 1` | `RecordEnds` | a full queue and a receive without source wait for each other (`rempi_event_list.cpp:92`); 1 stands for the code's large bound |
| `MCMpiReplay` | `Programs <- CancelPrograms` | `ReplayFaithful` | a receive that completes although it was cancelled is replayed with another message (`rempi_recorder.cpp:392`) |
| `MCMpiReplay` | `Programs <- SendCancelPrograms` | `NothingFails` | cancelling a send stops the program: the record has no event for it (`rempi_recorder.cpp:392`), the replay refuses it (`rempi_recorder.cpp:407`) |
| `MCMpiReplay` | `Programs <- MixedPrograms` | `NothingFails` | a call on supported and unsupported requests stops the program (`rempi_request_mg.cpp:723`) |
| `MCWrappers` | `Risks = {"free receive"}`, `Risks = {"cancel"}` | `NothingFails` | a receive that is freed stays in the table of events under a handle that MPI reuses; the Fortran wrapper of `MPI_Cancel` passes on a handle that it never set |
| `MCWrappers` | `Risks = {"stale"}` | `NothingFails` | the application goes on with a variable whose request was completed through an array: the handle in it may be another request's by then |
| `MCWrappers` | `Risks = {"no index"}` | `NothingFails`, `TablesTrue` | a `MPI_Testany` or `MPI_Waitany` of persistent requests, none of them started, is taken to have completed the request at the position `MPI_UNDEFINED`: an access out of bounds, or another request struck off |
| `MCWrappers` | none | `LeftToMpi` | requests of functions that are not supported (`MPI_Send_init`, `MPI_Recv_init`) stop the program |
| `MCWrappers` | none | `NoneIsUndefined` | in the replay, a call that completes no request returns an index that was never set, not the undefined index of the recorded run |
| `MCMsgBuffer` | `const_Borrowed`, `const_Cancelled`, `const_Backwards`, `const_Small` | `ReplayFaithful` | a receive waited for by another set's call; a cancelled receive whose tag nothing else has; the second of two receives waited for first; a receive smaller than the probed one |
| `MCMsgBuffer` | `const_Stolen` | `BothRunsEnd` | a receive for any tag posted again for a probed message takes the message of another set |

## 7. Not modelled

- The reduction hooks of the clock and epoch gate and the serial clock gate
  (`reomp_gate_clock.cpp:882-1014`): they need a model of `__kmpc_reduce` and of the
  combining it does inside the OpenMP runtime. The two hazards they carry are in
  `PROJECT.json`.
- The older variants of the CDC encoder (`_permutation_diff`, `_row_wise_diff`), which
  no recorder constructs; the REP recorder, which is chosen with `REMPI_ENCODE`; the
  PnMPI piggyback module, whose clock is part of the message here; the message
  manager, which nothing uses; the set schemes that `REMPI_TEST_ID` 0, 2 and 3 choose
  in the request manager (`MatchingSets` is the default, 1).
- The parsing of data race reports (`reomp_drace.cpp`): text processing before the
  program runs; its result is the constant `Locks`.
- Byte layout, zlib, file errors: pure data or I/O. The words of a CDC record and a
  file cut anywhere are modelled.
- Widths: clocks, tickets and event counts are unbounded here, `int` and `size_t` in
  the code, which overflow only after 2^31 and more steps. The words of the CDC
  record have their width (`Word`), since negative delays wrap in them.
- Weak memory: loads and stores of the gates' and the queue's shared words are
  sequentially consistent here. In the code the queue puts a `__sync_synchronize`
  around its shared loads and stores (`rempi_spsc_queue.h:38-54`), the clock gate
  puts one around the increment of the replay clock
  (`reomp_gate_clock.cpp:466-490`) and the thread-id gate has two that are
  compiled only with `ENABLE_MEM_SYNC`, which no build file sets
  (`reomp_gate_tid.cpp:216,240`); everything else relies on the locks and on
  `volatile`.
- Process crashes outside the CDC record: no other code reads a record that was cut
  short in a way that could notice.
- Parts with status `not_modelled` in `PROJECT.json`, for the reasons there.

## 8. Plan

1. `ReduceGate`: the reduction hooks over an external model of `__kmpc_reduce`
   (method lock or atomic, barrier at the end, placeholder in the file, master and
   workers), with order and method replayed; then the serial clock gate as a variant
   of `ClockGate`.
2. Proofs: `KeptInOrder` of `MsgBuffer`; `BoundsHold` of `CdcReplay`.
3. REP, and the partition of data race reports.
