------------------------------ MODULE MsgBuffer ------------------------------
(***************************************************************************)
(* The receives of one rank under the CDC recorder, recorded and replayed   *)
(* (rempi_msg_buffer.cpp with the matching sets of rempi_request_mg.cpp).   *)
(*                                                                         *)
(* In the replay ReMPI posts receives of its own, for what the application  *)
(* asks for (user) and for what it has probed (rempi), tests them one after *)
(* the other while messages come in, and hands each message to the decoder  *)
(* of its matching set.  A call returns what was recorded next for its set, *)
(* once the messages are there; CdcTable says how the decoder finds that    *)
(* out, here it simply knows.                                               *)
(***************************************************************************)
EXTENDS MatchingSets

CONSTANTS
    Source,     \* the ranks this rank receives from
    ANY_SOURCE, ANY_TAG,
    Programs    \* what the application and the other ranks do

(* A program: the operations of this rank, at their call sites, and the     *)
(* messages each source sends, in order.  A request is the position of the  *)
(* operation that posts it.                                                 *)
Operation ==
    LET Sites == STRING
    IN  [op : {"irecv"}, call : Sites, source : Source \union {ANY_SOURCE},
         tag : Nat \union {ANY_TAG}, size : Nat]
        \union [op : {"waitany", "waitall", "testany"}, call : Sites, requests : Seq(Nat)]
        \union [op : {"cancel"}, requests : Seq(Nat)]

Message == [source : Source, tag : Nat, clock : Nat, size : Nat]

ASSUME BufferAssumption ==
    \A p \in Programs :
        /\ \A i \in DOMAIN p.ops : p.ops[i] \in Operation
        /\ \A s \in Source : \A i \in DOMAIN p.sends[s] :
              /\ p.sends[s][i] \in Message /\ p.sends[s][i].source = s
              /\ i > 1 => p.sends[s][i - 1].clock < p.sends[s][i].clock

VARIABLES
    program,    \* the program of this behaviour
    mode,       \* "record" or "replay"
    pc,         \* "run", in the replay "scan", "decode"; "failed" after an error
    ip,         \* the operation the rank executes
    tables,     \* of the matching sets
    came,       \* of each source the number of messages that came in
    unexpected, \* MPI: messages that no receive was posted for
    active,     \* the receives posted to MPI: in the replay active_recv_list
    inactive,   \* inactive_recv_list
    pushed,     \* the messages given to the decoder, with their set
    at,         \* the receive progress_active_recv tests next
    progressed, \* is_active_recv_progressed
    probed,     \* probed_message_source_set
    record,     \* for each set the results of its calls, in order
    replayed,   \* for each set how many of them were replayed
    filed,      \* of each call its set and its results when it was recorded
    now,        \* the set of the call being replayed
    results     \* what the calls returned in the replay

record_vars == <<record, filed>>
scan_vars == <<at, progressed, probed>>
vars == <<program, mode, pc, ip, tables, came, unexpected, active, inactive, pushed,
          scan_vars, record_vars, replayed, now, results>>

Current == program.ops[ip]
Does(op) == pc = "run" /\ ip <= Len(program.ops) /\ Current.op = op

-----------------------------------------------------------------------------
(* MPI: a message goes to the first posted receive that accepts it, a       *)
(* receive takes the first message that waits.  A receive too small for its *)
(* message is an error (MPI_ERR_TRUNCATE).                                  *)
Accepts(r, x) ==
    /\ r.got = << >>
    /\ r.source \in {ANY_SOURCE, x.source} /\ r.tag \in {ANY_TAG, x.tag}

Receive(slot, source, tag, size, set, howto) ==
    [slot |-> slot, source |-> source, tag |-> tag, size |-> size, set |-> set,
     howto |-> howto, got |-> << >>]

Truncates(rs) == \E i \in DOMAIN rs : rs[i].got # << >> /\ rs[i].got[1].size > rs[i].size

(* PMPI_Irecv: the posted receives and the unexpected messages after it. *)
Post(rs, queue, r) ==
    LET able == {i \in DOMAIN queue : Accepts(r, queue[i])}
    IN  IF able = {} THEN [active |-> Append(rs, r), unexpected |-> queue]
        ELSE [active |-> Append(rs, [r EXCEPT !.got = <<queue[Min(able)]>>]),
              unexpected |-> RemoveAt(queue, Min(able))]

(* A message comes in, at any time. *)
Arrive(s) ==
    /\ pc # "failed" /\ came[s] < Len(program.sends[s])
    /\ came' = [came EXCEPT ![s] = @ + 1]
    /\ LET x    == program.sends[s][came[s] + 1]
           able == {i \in DOMAIN active : Accepts(active[i], x)}
       IN  IF able = {} THEN unexpected' = Append(unexpected, x) /\ UNCHANGED <<active, pc>>
           ELSE /\ active' = [active EXCEPT ![Min(able)].got = <<x>>]
                /\ pc' = IF Truncates(active') THEN "failed" ELSE pc
                /\ UNCHANGED unexpected
    /\ UNCHANGED <<program, mode, ip, tables, inactive, pushed, scan_vars, record_vars,
                   replayed, now, results>>

-----------------------------------------------------------------------------
(* The recorded run: the application's receives are MPI's.                  *)

RecordIrecv ==
    /\ mode = "record" /\ Does("irecv")
    /\ tables' = RecordRecv(tables, ip, Current.call, Current.tag)
    /\ LET p == Post(active, unexpected,
                     Receive(ip, Current.source, Current.tag, Current.size, UNKNOWN, "user"))
       IN  /\ active' = p.active /\ unexpected' = p.unexpected
           /\ pc' = IF Truncates(active') THEN "failed" ELSE pc
    /\ ip' = ip + 1
    /\ UNCHANGED <<program, mode, came, inactive, pushed, scan_vars, record_vars, replayed, now,
                   results>>

(* The requests of the call that are not MPI_REQUEST_NULL, and the message  *)
(* each of them has got, if any.                                            *)
Pending == SelectSeq(Current.requests, LAMBDA q : q \in DOMAIN tables.args)
GotBy(q) == CHOOSE got \in {r.got : r \in {x \in ToSet(active) : x.slot = q}} : TRUE

(* The requests a call may complete. *)
Outcomes ==
    LET complete == {q \in ToSet(Pending) : GotBy(q) # << >>}
        one      == {<<q>> : q \in complete}
    IN  CASE Current.op = "waitany" -> one
          [] Current.op = "testany" -> one \union {<< >>}
          [] Current.op = "waitall" -> IF complete = ToSet(Pending) THEN {Pending} ELSE {}

IsCall == Does("waitany") \/ Does("waitall") \/ Does("testany")

(* rempi_recorder::record_mf, the set chosen before MPI's call *)
RecordMf ==
    /\ mode = "record" /\ IsCall /\ Pending # << >>
    /\ \E done \in Outcomes :
          LET r      == RecordCall(tables, Current.call, Current.requests)
              got(q) == GotBy(q)[1]
              events == [i \in DOMAIN done |->
                            [index |-> CHOOSE k \in DOMAIN Current.requests : Current.requests[k] = done[i],
                             source |-> got(done[i]).source, clock |-> got(done[i]).clock]]
              after  == FoldLeft(LAMBDA t, q : Report(t, q, got(q).tag), r.tables, done)
              old    == IF r.set \in DOMAIN record THEN record[r.set] ELSE << >>
          IN  IF r.tables.failed
              THEN pc' = "failed" /\ UNCHANGED <<ip, tables, active, record_vars>>
              ELSE /\ tables' = after
                   /\ active' = SelectSeq(active, LAMBDA x : x.slot \notin ToSet(done))
                   /\ record' = Put(record, r.set, Append(old, events))
                   /\ filed' = Put(filed, ip, [set |-> r.set, events |-> events])
                   /\ ip' = ip + 1
                   /\ UNCHANGED pc
    /\ UNCHANGED <<program, mode, came, unexpected, inactive, pushed, scan_vars, replayed, now,
                   results>>

(* A call on requests that all completed before is not recorded. *)
Trivial ==
    /\ IsCall /\ Pending = << >>
    /\ ip' = ip + 1
    /\ UNCHANGED <<program, mode, pc, tables, came, unexpected, active, inactive, pushed,
                   scan_vars, record_vars, replayed, now, results>>

(* record_cancel, of a receive no message came for; replay_cancel of the    *)
(* CDC recorder forgets the request and leaves ReMPI's own receive alone.   *)
Cancel ==
    /\ Does("cancel")
    /\ LET q == Current.requests[1]
       IN  /\ tables' = Deregister(tables, q)
           /\ IF mode = "replay" THEN UNCHANGED active
              ELSE /\ GotBy(q) = << >>
                   /\ active' = SelectSeq(active, LAMBDA x : x.slot # q)
    /\ ip' = ip + 1
    /\ UNCHANGED <<program, mode, pc, came, unexpected, inactive, pushed, scan_vars, record_vars,
                   replayed, now, results>>

(* MPI_Finalize writes the sets of the tags; the replay reads them. *)
StartReplay ==
    /\ mode = "record" /\ pc = "run" /\ ip > Len(program.ops)
    /\ LET t == TagsToSets(tables)
       IN  IF t.failed THEN pc' = "failed" /\ UNCHANGED <<mode, tables>>
           ELSE pc' = pc /\ mode' = "replay" /\ tables' = Reread(t)
    /\ ip' = 1
    /\ came' = [s \in Source |-> 0]
    /\ unexpected' = << >> /\ active' = << >>
    /\ replayed' = [set \in DOMAIN record |-> 0]
    /\ UNCHANGED <<program, inactive, pushed, scan_vars, record, filed, now, results>>

-----------------------------------------------------------------------------
(* The replay.                                                              *)

(* is_activated_request: the first receive posted for a probed message that *)
(* asks for the same size, source and tag counts as the user's from now on. *)
IsSame(x, r) ==
    x.howto = "rempi" /\ x.size = r.size /\ x.source = r.source /\ x.tag = r.tag

Same(list, r) == {i \in DOMAIN list : IsSame(list[i], r)}

TakeOver(list, r) == [list EXCEPT ![Min(Same(list, r))].howto = "user"]

(* activate_recv on the lists of the buffer and MPI's queue. *)
activate_recv(b, r) ==
    LET c == IF Same(b.inactive, r) # {} THEN [b EXCEPT !.inactive = TakeOver(@, r)]
             ELSE IF Same(b.active, r) # {} THEN [b EXCEPT !.active = TakeOver(@, r)]
             ELSE b
        p == Post(c.active, c.unexpected, r)
    IN  IF c # b /\ r.howto = "user" THEN c
        ELSE [c EXCEPT !.active = p.active, !.unexpected = p.unexpected]

Buffers == [active |-> active, inactive |-> inactive, unexpected |-> unexpected]

(* replay_irecv: a tag without a set is "No such matching set id". *)
ReplayIrecv ==
    /\ mode = "replay" /\ Does("irecv")
    /\ tables' = ReplayRecv(tables, ip, Current.tag)
    /\ IF tables'.failed THEN pc' = "failed" /\ UNCHANGED <<active, inactive, unexpected>>
       ELSE LET b == activate_recv(Buffers,
                        Receive(ip, Current.source, Current.tag, Current.size,
                                tables'.args[ip].set, "user"))
            IN  /\ active' = b.active /\ inactive' = b.inactive /\ unexpected' = b.unexpected
                /\ pc' = IF Truncates(active') THEN "failed" ELSE pc
    /\ ip' = ip + 1
    /\ UNCHANGED <<program, mode, came, pushed, scan_vars, record_vars, replayed, now, results>>

(* replay_mf: the set of the call, then the loop of get_next_events. *)
StartScan == at' = 1 /\ progressed' = FALSE

ReplayMf ==
    /\ mode = "replay" /\ IsCall /\ Pending # << >>
    /\ LET r == ReplayCall(tables, Current.requests)
       IN  /\ pc' = IF r.tables.failed THEN "failed" ELSE "scan"
           /\ now' = r.set
    /\ StartScan /\ probed' = {}
    /\ UNCHANGED <<program, mode, ip, tables, came, unexpected, active, inactive, pushed,
                   record_vars, replayed, results>>

(* progress_active_recv tests one receive: complete, it moves to the other  *)
(* list and its message to the decoder.                                     *)
Inactive(r) ==
    [source |-> r.source, tag |-> r.tag, size |-> r.size, set |-> r.set, howto |-> r.howto,
     message |-> r.got[1]]

TestOne ==
    /\ pc = "scan" /\ at <= Len(active)
    /\ LET r == active[at]
       IN  IF r.got # << >>
           THEN /\ active' = RemoveAt(active, at)
                /\ inactive' = Append(inactive, Inactive(r))
                /\ pushed' = pushed \union {<<r.set, r.got[1].source, r.got[1].clock>>}
                /\ progressed' = TRUE
                /\ UNCHANGED at
           ELSE /\ at' = at + 1
                /\ UNCHANGED <<active, inactive, pushed, progressed>>
    /\ UNCHANGED <<program, mode, pc, ip, tables, came, unexpected, probed, record_vars, replayed,
                   now, results>>

(* probe_msg receives the first unexpected message of each source.          *)
(* (pred_ranks: the sources in the record.)                                 *)
PredRanks ==
    {s \in Source : \E set \in DOMAIN record : \E i \in DOMAIN record[set] :
        \E e \in ToSet(record[set][i]) : e.source = s}

ProbeOne_SetOfCall(b, s) ==
    LET mine == {i \in DOMAIN b.unexpected : b.unexpected[i].source = s}
        x    == b.unexpected[Min(mine)]
    IN  IF mine = {} THEN b
        ELSE activate_recv(b, Receive(0, x.source, x.tag, x.size, now, "rempi"))

ProbeOne(b, s) ==
    LET mine == {i \in DOMAIN b.unexpected : b.unexpected[i].source = s}
        x    == b.unexpected[Min(mine)]
    IN  IF mine = {} THEN b
        ELSE activate_recv(b, Receive(0, x.source, x.tag, x.size, tables.set_of_tag[x.tag], "rempi"))

GoesRound_Never == FALSE

(* rempi_msgb_progress_recv goes round again if a receive was complete. *)
GoesRound == progressed

Probe ==
    /\ pc = "scan" /\ at > Len(active)
    /\ LET ranks == SetToSortSeq(PredRanks, LAMBDA x, y : x < y)
           b     == FoldLeft(ProbeOne, Buffers, ranks)
           seen  == {s \in PredRanks : \E i \in DOMAIN unexpected : unexpected[i].source = s}
           lost  == \E i \in DOMAIN unexpected :
                        unexpected[i].source \in PredRanks
                            /\ unexpected[i].tag \notin DOMAIN tables.set_of_tag
       IN  IF lost THEN pc' = "failed" /\ UNCHANGED <<active, inactive, unexpected, probed>>
           ELSE /\ active' = b.active /\ inactive' = b.inactive /\ unexpected' = b.unexpected
                /\ probed' = seen
                /\ pc' = IF GoesRound THEN "scan" ELSE "decode"
    /\ StartScan
    /\ UNCHANGED <<program, mode, ip, tables, came, pushed, record_vars, replayed, now, results>>

(* The next results of the set, if there are more and all are there.        *)
NextEvents == record[now][replayed[now] + 1]

Ready ==
    /\ now \in DOMAIN record /\ replayed[now] < Len(record[now])
    /\ \A e \in ToSet(NextEvents) : <<now, e.source, e.clock>> \in pushed

(* rempi_msgb_recv_msg: the first message of the set and the source with    *)
(* the receive's tag; another clock than the recorded one is an error.      *)
MessageFor(list, e, tag) ==
    {i \in DOMAIN list : /\ list[i].set = now
                         /\ list[i].message.source = e.source
                         /\ tag \in {ANY_TAG, list[i].message.tag}}

TakeMessage(x, e) ==
    LET q     == Current.requests[e.index]
        found == MessageFor(x.inactive, e, x.tables.args[q].tag)
    IN  IF x.failed \/ e.index \notin DOMAIN Current.requests THEN [x EXCEPT !.failed = TRUE]
        ELSE IF q \notin DOMAIN x.tables.args \/ found = {} THEN [x EXCEPT !.failed = TRUE]
        ELSE IF x.inactive[Min(found)].message.clock # e.clock THEN [x EXCEPT !.failed = TRUE]
        ELSE [x EXCEPT !.inactive = RemoveAt(@, Min(found)), !.tables = Deregister(@, q)]

(* replay_mf_input; without a complete answer the loop goes on. *)
Decode ==
    /\ pc = "decode"
    /\ IF ~Ready
       THEN pc' = "scan" /\ UNCHANGED <<ip, tables, inactive, replayed, results>>
       ELSE LET x == FoldLeft(TakeMessage,
                              [inactive |-> inactive, tables |-> tables, failed |-> FALSE], NextEvents)
            IN  /\ pc' = IF x.failed THEN "failed" ELSE "run"
                /\ ip' = ip + 1
                /\ tables' = x.tables /\ inactive' = x.inactive
                /\ replayed' = [replayed EXCEPT ![now] = @ + 1]
                /\ results' = Put(results, ip, NextEvents)
    /\ StartScan
    /\ UNCHANGED <<program, mode, came, unexpected, active, pushed, probed, record_vars, now>>

-----------------------------------------------------------------------------
Init ==
    /\ program \in Programs
    /\ mode = "record" /\ pc = "run" /\ ip = 1
    /\ tables = EmptyTables
    /\ came = [s \in Source |-> 0]
    /\ unexpected = << >> /\ active = << >> /\ inactive = << >> /\ pushed = {}
    /\ at = 1 /\ progressed = FALSE /\ probed = {}
    /\ record = << >> /\ filed = << >> /\ replayed = << >>
    /\ now = UNKNOWN /\ results = << >>

Own ==
    \/ RecordIrecv \/ RecordMf \/ Trivial \/ Cancel \/ StartReplay
    \/ ReplayIrecv \/ ReplayMf \/ TestOne \/ Probe \/ Decode

Ended == mode = "replay" /\ pc = "run" /\ ip > Len(program.ops)

Next == \/ \E s \in Source : Arrive(s)
        \/ Own
        \/ Ended /\ UNCHANGED vars

(* The messages come in, all of them, and the rank's thread runs unless it  *)
(* waits for one in the recorded run.  No other step than its own changes   *)
(* what GoesOn names, and each of them does.                                *)
CanGo ==
    \/ pc \in {"scan", "decode"}
    \/ /\ pc = "run" /\ ~Ended
       /\ mode = "record" /\ IsCall /\ Pending # << >> => Outcomes # {}

GoesOn ==
    /\ CanGo
    /\ pc' \in {"run", "scan", "decode", "failed"}
    /\ ip' \in {1, ip, ip + 1}
    /\ at' \in {1, at, at + 1}
    /\ mode' \in {mode, "replay"}
    /\ progressed' \in BOOLEAN
    /\ \/ pushed' = pushed
       \/ \E s \in Source, set \in {r.set : r \in ToSet(active)} :
             \E x \in ToSet(program.sends[s]) : pushed' = pushed \union {<<set, s, x.clock>>}

ComesIn == \E s \in Source : came[s] < Len(program.sends[s]) /\ came' = [came EXCEPT ![s] = @ + 1]

Fairness == WF_<<pc, ip, at, mode, progressed, pushed>>(GoesOn) /\ WF_came(ComesIn)

Spec == Init /\ [][Next]_vars /\ Fairness

-----------------------------------------------------------------------------
(* Properties.                                                              *)

(* The tables name the sets and receives of the program, and positions lie  *)
(* in their lists.                                                          *)
TypeOK ==
    /\ program \in Programs /\ mode \in {"record", "replay"}
    /\ pc \in {"run", "scan", "decode", "failed"}
    /\ ip \in 1..(Len(program.ops) + 1)
    /\ DOMAIN tables.args \subseteq 1..Len(program.ops)
    /\ \A s \in Source : came[s] <= Len(program.sends[s])
    /\ at \in 1..(Len(active) + 1)

(* When the receives have made progress and a source was not probed, its    *)
(* messages were received without a gap, whatever came in between the tests *)
(* of single receives: the look-ahead of the decoder relies on it ("To      *)
(* avoid out-of-order message receive", rempi_msgb_progress_recv).          *)
NoGap ==
    pc = "decode" =>
        \A s \in Source \ probed :
            \A i, j \in 1..came[s] :
                LET received(k) == \E set \in {p[1] : p \in pushed} :
                                       <<set, s, program.sends[s][k].clock>> \in pushed
                IN  i < j /\ received(j) => received(i)

(* The messages of one source for one set and tag are kept in the order     *)
(* they were sent, which is the order recv_msg takes them in ("To avoid     *)
(* out-of-order message receive, if a request is matched, check all         *)
(* requests", rempi_msgb_progress_recv).                                    *)
ReceivedInOrder ==
    \A i, j \in DOMAIN inactive :
        LET x == inactive[i].message
            y == inactive[j].message
        IN  /\ i < j /\ inactive[i].set = inactive[j].set
            /\ x.source = y.source /\ x.tag = y.tag
            => x.clock < y.clock

(* A replayed call asks for the set its results were recorded under,        *)
(* although the replay knows the tags only and the recorded run went by     *)
(* call sites (rempi_reqmg_get_matching_set_id_3).                          *)
SameSets == mode = "replay" /\ pc \in {"scan", "decode"} => now = filed[ip].set

(* Every call returns the messages it returned when it was recorded, to the *)
(* same requests, from the same set, and no error ends either run.          *)
ReplayFaithful ==
    /\ pc # "failed"
    /\ SameSets
    /\ \A i \in DOMAIN results : results[i] = filed[i].events

(* What was recorded to its end is replayed to its end. *)
BothRunsEnd == <>Ended

(* The messages kept for the calls to come: none missing, in their order.   *)
KeptInOrder == TypeOK /\ NoGap /\ ReceivedInOrder
=============================================================================
