------------------------------- MODULE MpiReplay -------------------------------
(***************************************************************************)
(* Record and replay of an MPI program (rempi_recorder.cpp, REMPI_ENCODE   *)
(* 0), all processes at once.  The recorded run files, for each process,   *)
(* the source of each receive and the result of each matching function     *)
(* (test or wait) and probe; the replay posts every receive with the       *)
(* source it had and returns from a matching function when the recorded    *)
(* requests are complete.  Which message a receive gets is left to the     *)
(* MPI library in both runs.                                               *)
(*                                                                         *)
(* The record of a process is a sequence of events that the application    *)
(* appends to and reads back: the event lists, the I/O thread and the file *)
(* between them are RecordStream's.                                        *)
(***************************************************************************)
EXTENDS Mpi, FiniteSets

CONSTANTS
  LastSource,    \* "the source of the message this process got last"
  Canceled,      \* REMPI_MPI_EVENT_RANK_CANCELED
  Programs       \* what the processes may do

\* A program is straight: it does the same operations whatever it receives, but
\* whom it sends to may depend on that.  "match" stands for MPI_Wait, MPI_Test
\* and their any, some and all variants; "unsupported" makes a request by other
\* means (MPI_Start, MPI_Ibarrier), of which ReMPI keeps no account.
Peers == Ranks \cup {LastSource, AnySource}
Operations ==
  [op : {"isend", "irecv", "probe", "iprobe"}, peer : Peers, tag : Tags \cup {AnyTag}]
    \cup [op : {"match"}, kind : {"one", "some", "all"}, waits : BOOLEAN, among : Seq(Nat)]
    \cup [op : {"cancel"}, k : Nat] \cup [op : {"unsupported"}]

\* A process refers to requests it has made.
Refers(code, k) ==
  /\ code[k].op = "cancel" => code[k].k \in 1..(k - 1)
  /\ code[k].op = "match" => ToSet(code[k].among) \subseteq 1..(k - 1)

ASSUME ProgramAssumption ==
  /\ Programs \subseteq [Ranks -> Seq(Operations)]
  /\ \A program \in Programs : \A p \in Ranks :
       \A k \in DOMAIN program[p] : Refers(program[p], k)
  /\ Canceled \notin Ranks

VARIABLES
  Program,       \* what each process does; it never changes
  mode,
  at,            \* the operation each process executes next
  request,       \* what ReMPI knows of the request of each operation
  wanted,        \* source in its rempi_reqmg_recv_args
  lastSource,
  events,        \* the record of each process
  pos,           \* how many events each process has read back
  failed,        \* processes that an error or assertion of ReMPI has stopped
  seen,          \* what each process has observed in this run
  recSeen,       \* what it observed in the recorded run
  history,       \* history: each process before each operation of the recorded run
  recMsg         \* history: the message of each request of the recorded run

appVars == <<at, lastSource, seen>>
remVars == <<request, wanted, events, pos, failed>>
recVars == <<recSeen, history, recMsg>>
vars    == <<Program, mode, appVars, remVars, recVars, mpiVars>>

\* "send" and "recv": registered.  "ignored": not registered (any more), not null.
RequestStates == {"none", "send", "recv", "ignored", "null"}
Ops(p) == DOMAIN Program[p]

\* flag and next are 0 or 1, as in the record.
Sources == Ranks \cup {AnySource, Canceled, None}
Events == [kind : {"recv"}, k : Nat, rank : Sources]
            \cup [kind : {"test"}, flag : {0, 1}, rank : Sources,
                  next : BOOLEAN, index : Nat]

TypeOK ==
  /\ Program \in [Ranks -> Seq(Operations)]
  /\ mode \in {"record", "replay"}
  /\ \A p \in Ranks :
       /\ at[p] \in 1..(Len(Program[p]) + 1)
       /\ request[p] \in [Ops(p) -> RequestStates]
       /\ wanted[p] \in [Ops(p) -> Ranks \cup {AnySource, None}]
       /\ msg[p] \in [Ops(p) -> Messages \cup {None}]
       /\ lastSource[p] \in Ranks \cup {None}
       /\ events[p] \in Seq(Events)
       /\ pos[p] \in 0..Len(events[p])
       /\ posted[p] \in Seq(Receives)
       /\ unexpected[p] \in Seq(Messages)
  /\ failed \subseteq Ranks

FreshProcesses ==
  [request |-> [p \in Ranks |-> [k \in Ops(p) |-> "none"]],
   msg     |-> [p \in Ranks |-> [k \in Ops(p) |-> None]],
   zero    |-> [p \in Ranks |-> 0],
   empty   |-> [p \in Ranks |-> <<>>]]

\* Where a process is: what decides what it does next.
Now(p) ==
  [request |-> request[p], lastSource |-> lastSource[p], seen |-> seen[p],
   events |-> IF mode = "record" THEN Len(events[p]) ELSE pos[p]]

Init ==
  /\ Program \in Programs
  /\ MpiInit
  /\ msg = FreshProcesses.msg
  /\ mode = "record"
  /\ at = [p \in Ranks |-> 1]
  /\ request = FreshProcesses.request
  /\ wanted = FreshProcesses.msg
  /\ lastSource = [p \in Ranks |-> None]
  /\ events = FreshProcesses.empty
  /\ pos = FreshProcesses.zero
  /\ failed = {}
  /\ seen = FreshProcesses.empty
  /\ recSeen = FreshProcesses.empty
  /\ history = [p \in Ranks |-> [k \in 1..(Len(Program[p]) + 1) |-> Now(p)]]
  /\ recMsg = msg

-------------------------------------------------------------------------------

\* The process executes an operation of this kind.
Executes(p, op) ==
  /\ p \notin failed
  /\ at[p] \in Ops(p)
  /\ Program[p][at[p]].op = op

Op(p)   == Program[p][at[p]]
Peer(p) == IF Op(p).peer = LastSource THEN lastSource[p] ELSE Op(p).peer

Return(p) == at' = [at EXCEPT ![p] = @ + 1]
Observes(p, what) == seen' = [seen EXCEPT ![p] = Append(@, <<at[p], what>>)]

\* rempi_reqmg_register_request.
RegistersSend(p) ==
  /\ request' = [request EXCEPT ![p][at[p]] = "send"]
  /\ UNCHANGED wanted
RegistersRecv(p) ==
  /\ request' = [request EXCEPT ![p][at[p]] = "recv"]
  /\ wanted' = [wanted EXCEPT ![p][at[p]] = Peer(p)]

Stop(p) ==
  /\ failed' = failed \cup {p}
  /\ UNCHANGED <<appVars, request, wanted, events, pos, mpiVars>>

Record(p, es) == events' = [events EXCEPT ![p] = @ \o es]

\* dequeue_replay returns an event; past the end the process tries for ever.
HasEvent(p) == pos[p] < Len(events[p])
NextEvent(p) == events[p][pos[p] + 1]

\* record_isend and replay_isend.
Isend(p) ==
  /\ Executes(p, "isend")
  /\ Send(p, at[p], Peer(p), Op(p).tag)
  /\ RegistersSend(p)
  /\ Return(p)
  /\ UNCHANGED <<lastSource, seen, events, pos, failed>>

Unsupported(p) ==
  /\ Executes(p, "unsupported")
  /\ request' = [request EXCEPT ![p][at[p]] = "ignored"]
  /\ Return(p)
  /\ UNCHANGED <<lastSource, seen, wanted, events, pos, failed, mpiVars>>

IrecvRecord(p) ==
  /\ Executes(p, "irecv")
  /\ mode = "record"
  /\ Receive(p, at[p], Peer(p), Op(p).tag)
  /\ RegistersRecv(p)
  /\ Record(p, <<[kind |-> "recv", k |-> at[p], rank |-> AnySource]>>)
  /\ Return(p)
  /\ UNCHANGED <<lastSource, seen, pos, failed>>

\* The source a replayed receive is posted with.  Mutant _AsPosted: the
\* application's.
ReplayingSource_AsPosted(p, e) == Peer(p)
ReplayingSource(p, e) == IF e.rank = Canceled THEN Peer(p) ELSE e.rank

IrecvReplay(p) ==
  /\ Executes(p, "irecv")
  /\ mode = "replay"
  /\ HasEvent(p)
  /\ IF NextEvent(p).kind # "recv" THEN Stop(p)
     ELSE /\ Receive(p, at[p], ReplayingSource(p, NextEvent(p)), Op(p).tag)
          /\ RegistersRecv(p)
          /\ pos' = [pos EXCEPT ![p] = @ + 1]
          /\ Return(p)
          /\ UNCHANGED <<lastSource, seen, events, failed>>

-------------------------------------------------------------------------------
\* Matching functions.  Requests are known by their index in the call.

Indices(p) == 1..Len(Op(p).among)
Info(p, i) == request[p][Op(p).among[i]]
Got(p, i)  == msg[p][Op(p).among[i]]
With(p, states) == {i \in Indices(p) : Info(p, i) \in states}

\* rempi_reqmg_is_record_and_replay, and calls with null requests only.
NotRecorded(p) == With(p, {"send", "recv"}) = {}
\* Requests ReMPI keeps no account of together with others are an error.
Mixed(p) == With(p, {"ignored"}) \notin {{}, Indices(p)}

\* The other process of a message, which the record calls its rank.
Rank(p, m) == IF m = None THEN AnySource ELSE IF m.from = p THEN m.to ELSE m.from

Completed(p, is) ==
  request' = [request EXCEPT ![p] = [k \in Ops(p) |->
                IF \E i \in is : Op(p).among[i] = k THEN "null" ELSE @[k]]]

\* The order in which a call returns requests: that of its array.
InOrder(is) ==
  CHOOSE s \in [1..Cardinality(is) -> is] : \A i, j \in DOMAIN s : i < j => s[i] < s[j]

\* A null request has no message, nor has one that was cancelled.
Results(p, is) ==
  [j \in DOMAIN InOrder(is) |->
     LET i == InOrder(is)[j]
     IN  <<i, IF Info(p, i) = "null" THEN None ELSE Got(p, i)>>]

Received(p, is) == {i \in is : Info(p, i) \in {"recv", "ignored"} /\ Got(p, i) # None}
LastReceived(p, is) ==
  IF Received(p, is) = {} THEN lastSource[p]
  ELSE LET i == CHOOSE i \in Received(p, is) : \A j \in Received(p, is) : j <= i
       IN  Got(p, i).from

Returns(p, is) ==
  /\ Completed(p, is)
  /\ Observes(p, Results(p, is))
  /\ lastSource' = [lastSource EXCEPT ![p] = LastReceived(p, is)]
  /\ Return(p)
  /\ UNCHANGED <<wanted, mpiVars>>

\* Which sets of requests MPI may complete in this call.
Outcome(p, is) ==
  LET active == With(p, {"send", "recv", "ignored"})
      ready  == {i \in active : Info(p, i) = "ignored" \/ Got(p, i) # None}
  IN  \/ ~Op(p).waits /\ is = {}
      \/ Op(p).kind = "one"  /\ \E i \in ready : is = {i}
      \/ Op(p).kind = "some" /\ is \in SUBSET ready /\ is # {}
      \/ Op(p).kind = "all"  /\ ready = active /\ is = Indices(p)

\* A call that is not recorded goes to MPI in both runs.
MatchUnrecorded(p) ==
  /\ Executes(p, "match")
  /\ NotRecorded(p) /\ ~Mixed(p)
  /\ IF With(p, {"ignored"}) = {} THEN Returns(p, {})
     ELSE \E is \in SUBSET Indices(p) : Outcome(p, is) /\ Returns(p, is)
  /\ UNCHANGED <<events, pos, failed>>

\* The events of a call: one for every request it completed.  Mutant _Apart: none
\* of them says that another one follows.
WithNext_Apart(j, n) == FALSE
WithNext(j, n) == j < n

NoMatch == [kind |-> "test", flag |-> 0, rank |-> None, next |-> FALSE, index |-> 0]
TestEvents(p, is) ==
  IF is = {} THEN <<NoMatch>>
  ELSE [j \in DOMAIN InOrder(is) |->
          LET i == InOrder(is)[j]
          IN  [kind |-> "test", flag |-> 1, index |-> i,
               rank |-> IF Info(p, i) = "null" THEN AnySource ELSE Rank(p, Got(p, i)),
               next |-> WithNext(j, Cardinality(is))]]

\* What a completed receive leaves in its event.
SetRank(m) == m.from

\* set_rank on the events of the receives that the call completed.
RanksSet(p, is) ==
  [n \in DOMAIN events[p] |->
     LET e == events[p][n] IN
       IF e.kind = "recv" /\ \E i \in is : Op(p).among[i] = e.k /\ Info(p, i) = "recv"
       THEN [e EXCEPT !.rank = SetRank(msg[p][e.k])] ELSE e]

MatchRecord(p) ==
  /\ Executes(p, "match")
  /\ mode = "record"
  /\ Mixed(p) \/ ~NotRecorded(p)
  /\ IF Mixed(p) THEN Stop(p)
     ELSE /\ \E is \in SUBSET Indices(p) :
               /\ Outcome(p, is)
               /\ events' = [events EXCEPT ![p] = RanksSet(p, is) \o TestEvents(p, is)]
               /\ Returns(p, is)
          /\ UNCHANGED <<pos, failed>>

\* get_next_events: up to the event that no other one follows.
LastOfGroup(p) ==
  SelectInSubSeq(events[p], pos[p] + 1, Len(events[p]),
                 LAMBDA e : e.kind = "recv" \/ ~e.next)
Group(p) == SubSeq(events[p], pos[p] + 1, LastOfGroup(p))

\* The checks of replay_mf_input on one event.
Plausible(p, e) ==
  /\ e.kind = "test"
  /\ e.flag = 1 =>
       /\ e.index \in Indices(p)
       /\ Info(p, e.index) # "ignored"
       /\ Info(p, e.index) = "send" => e.rank = Got(p, e.index).to
       /\ Info(p, e.index) = "recv" =>
            wanted[p][Op(p).among[e.index]] \in {AnySource, Got(p, e.index).from}

\* replay_mf: the checks follow the wait for the requests the events name.  (A
\* record has no call that mixes requests: it would have stopped there.)
MatchReplay(p) ==
  /\ Executes(p, "match")
  /\ mode = "replay"
  /\ ~NotRecorded(p) /\ ~Mixed(p)
  /\ LastOfGroup(p) # 0
  /\ LET tests == {e \in ToSet(Group(p)) : e.kind = "test" /\ e.flag = 1}
         is == {e.index : e \in tests}
     IN  /\ \A i \in is \cap With(p, {"recv"}) : Got(p, i) # None
         /\ IF \E e \in ToSet(Group(p)) : ~Plausible(p, e) THEN Stop(p)
            ELSE /\ Returns(p, is)
                 /\ pos' = [pos EXCEPT ![p] = LastOfGroup(p)]
                 /\ UNCHANGED <<events, failed>>

-------------------------------------------------------------------------------
\* Probes.

Sees(p, m) ==
  /\ Observes(p, m)
  /\ lastSource' = [lastSource EXCEPT ![p] = IF m = None THEN @ ELSE m.from]
  /\ Return(p)
  /\ UNCHANGED <<request, wanted, failed, mpiVars>>

ProbeEvent(m) ==
  IF m = None THEN NoMatch
  ELSE [kind |-> "test", flag |-> 1, rank |-> m.from, next |-> FALSE, index |-> 0]

\* record_pf.
ProbeRecord(p) ==
  /\ Executes(p, "probe") \/ Executes(p, "iprobe")
  /\ mode = "record"
  /\ LET i == Found(p, Peer(p), Op(p).tag) IN
       \E m \in IF i = 0 THEN {None} ELSE {unexpected[p][i]} :
         /\ Op(p).op = "probe" => m # None
         /\ Sees(p, m)
         /\ Record(p, <<ProbeEvent(m)>>)
  /\ UNCHANGED pos

\* The source a replayed probe waits for.
ProbedSource(p, e) == e.rank

\* replay_pf does not look at the type of the event; the flag of a receive event
\* is 0.  A matched probe waits for a message from the recorded source.
ProbeReplay(p) ==
  /\ Executes(p, "probe") \/ Executes(p, "iprobe")
  /\ mode = "replay"
  /\ HasEvent(p)
  /\ LET e == NextEvent(p)
         i == Found(p, ProbedSource(p, e), Op(p).tag)
     IN  IF e.kind = "recv" \/ e.flag = 0
         THEN /\ Sees(p, None)
              /\ pos' = [pos EXCEPT ![p] = @ + 1]
              /\ UNCHANGED events
         ELSE IF Peer(p) \notin {AnySource, e.rank} THEN Stop(p)
         ELSE /\ i # 0
              /\ Sees(p, unexpected[p][i])
              /\ pos' = [pos EXCEPT ![p] = @ + 1]
              /\ UNCHANGED events

\* What a cancelled receive leaves in its event: only that it was cancelled, whether or
\* not MPI could still cancel it.
CanceledEvent(p, k) ==
  [n \in DOMAIN events[p] |->
     LET e == events[p][n] IN
       IF e.kind = "recv" /\ e.k = k THEN [e EXCEPT !.rank = Canceled] ELSE e]

CancelRecv(p) ==
  /\ request' = [request EXCEPT ![p][Op(p).k] = "ignored"]
  /\ events' = IF mode = "record"
               THEN [events EXCEPT ![p] = CanceledEvent(p, Op(p).k)] ELSE events
  /\ CancelReceive(p, Op(p).k)
  /\ Return(p)
  /\ UNCHANGED <<lastSource, seen, wanted, pos, failed>>

\* record_cancel and replay_cancel.  To cancel anything but a registered receive is an
\* exception in the recorded run (no event to find) and an error in the replay.
Cancel(p) ==
  /\ Executes(p, "cancel")
  /\ IF request[p][Op(p).k] # "recv" THEN Stop(p) ELSE CancelRecv(p)

-------------------------------------------------------------------------------

AllDone == \A p \in Ranks : at[p] \notin Ops(p)

\* MPI_Finalize in all processes, and a second run in replay mode.
Rerun ==
  /\ mode = "record"
  /\ AllDone
  /\ mode' = "replay"
  /\ at' = [p \in Ranks |-> 1]
  /\ travelling' = [channel \in Ranks \X Ranks |-> <<>>]
  /\ unexpected' = FreshProcesses.empty
  /\ posted' = FreshProcesses.empty
  /\ msg' = FreshProcesses.msg
  /\ request' = FreshProcesses.request
  /\ wanted' = FreshProcesses.msg
  /\ lastSource' = [p \in Ranks |-> None]
  /\ pos' = FreshProcesses.zero
  /\ seen' = FreshProcesses.empty
  /\ recSeen' = seen
  /\ recMsg' = msg
  /\ UNCHANGED <<Program, events, failed, history>>

Step(p) ==
  /\ \/ Isend(p) \/ Unsupported(p) \/ IrecvRecord(p) \/ IrecvReplay(p)
     \/ MatchUnrecorded(p) \/ MatchRecord(p) \/ MatchReplay(p)
     \/ ProbeRecord(p) \/ ProbeReplay(p) \/ Cancel(p)
  /\ UNCHANGED <<Program, mode, recSeen, recMsg>>
  /\ history' = IF mode = "record"
                THEN [history EXCEPT ![p][at'[p]] = Now(p)'] ELSE history

Deliver == /\ \E s, d \in Ranks : Arrive(s, d)
           /\ UNCHANGED <<Program, mode, appVars, remVars, recVars>>

Ended == mode = "replay" /\ AllDone /\ UNCHANGED vars

Next == Rerun \/ Deliver \/ Ended \/ \E p \in Ranks : Step(p)

Spec == Init /\ [][Next]_vars

\* Messages arrive, processes keep running, and the program is run again.
Fairness == WF_vars(Rerun) /\ WF_vars(Deliver) /\ \A p \in Ranks : WF_vars(Step(p))
FairSpec == Spec /\ Fairness

-------------------------------------------------------------------------------

\* Every process observes in the replay what it observed at the same point of the
\* recorded run: the same requests complete in the same calls, with the very same
\* messages, whatever order they arrive in.
ReplayFaithful ==
  mode = "replay" => \A p \in Ranks : IsPrefix(seen[p], recSeen[p])

\* The programs of which this can be expected.  No send has a tag that receive k of
\* process p takes; or the process waits for it by a call that has no choice.
NoSender(program, p, k) ==
  \A q \in Ranks : \A n \in DOMAIN program[q] :
    program[q][n].op = "isend" => program[p][k].tag \notin {AnyTag, program[q][n].tag}
NoChoice(call) == call.waits /\ (call.kind = "all" \/ Len(call.among) = 1)
WaitsFor(code, k) ==
  \E j \in DOMAIN code : /\ code[j].op = "match" /\ k \in ToSet(code[j].among)
                         /\ NoChoice(code[j])
Cancels(code, k) == \E j \in DOMAIN code : code[j].op = "cancel" /\ code[j].k = k

\* Each receive gets no message or is waited for, and a request ReMPI keeps no account
\* of is not in a call that has a choice.
Replayable(program) ==
  \A p \in Ranks : \A k \in DOMAIN program[p] :
    /\ program[p][k].op = "irecv" =>
         \/ NoSender(program, p, k)
         \/ WaitsFor(program[p], k) /\ ~Cancels(program[p], k)
    /\ program[p][k].op = "match" /\ ~NoChoice(program[p][k]) =>
         \A j \in ToSet(program[p][k].among) :
           program[p][j].op # "unsupported" /\ ~Cancels(program[p], j)

\* Before operation k, ReMPI has no account of request j (any more).
CanceledBefore(code, k, j) == \E i \in 1..(k - 1) : code[i].op = "cancel" /\ code[i].k = j
Lost(code, k, j) == code[j].op = "unsupported" \/ CanceledBefore(code, k, j)

\* Operation j returns only when the process has got a message.
AwaitedReceives(code, j) ==
  {k \in ToSet(code[j].among) : code[k].op = "irecv" /\ ~CanceledBefore(code, j, k)}
Informs(code, j) ==
  \/ code[j].op = "probe"
  \/ /\ code[j].op = "match" /\ code[j].waits
     /\ AwaitedReceives(code, j) # {}
     /\ code[j].kind = "all" \/ AwaitedReceives(code, j) = ToSet(code[j].among)

\* The programs that nothing need stop: messages are sent to a process, the source of the
\* last message is used once there is one, only a receive is cancelled and only once, and
\* a call that is given a request ReMPI has no account of is given no other.
Accepted(program) ==
  \A p \in Ranks : \A k \in DOMAIN program[p] :
    /\ program[p][k].op = "isend" =>
         program[p][k].peer \in Ranks \cup {LastSource} /\ program[p][k].tag \in Tags
    /\ program[p][k].op \in {"isend", "irecv"} /\ program[p][k].peer = LastSource =>
         \E j \in 1..(k - 1) : Informs(program[p], j)
    /\ program[p][k].op = "cancel" =>
         /\ program[p][program[p][k].k].op = "irecv"
         /\ ~CanceledBefore(program[p], k, program[p][k].k)
    /\ program[p][k].op = "match" =>
         \A i, j \in ToSet(program[p][k].among) : Lost(program[p], k, i) => i = j

\* No error or assertion of ReMPI stops a process.
NothingFails == failed = {}

\* Both runs end.
BothRunsEnd == <>(mode = "replay" /\ AllDone)

\* Nothing stops a process, and the tables of requests and events are well formed.
NoError == TypeOK /\ NothingFails
===============================================================================
