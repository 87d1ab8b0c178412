------------------------------ MODULE CdcTable ------------------------------
(***************************************************************************)
(* The tables of clock delta compression, one per matching set and chunk    *)
(* (rempi_encoder_input_format_test_table), as pure operators: filling and  *)
(* formatting a table, writing it as words and reading it back, and one     *)
(* call of cdc_decode_ordering, which decides from the messages that have   *)
(* arrived what the next replayed call returns.                             *)
(*                                                                         *)
(* An event is a record; sizes are counted in words, not bytes.             *)
(***************************************************************************)
EXTENDS EditPath, TLC

CONSTANT Word    \* number of values of a machine word (2^64 in the code)

INPUT_IGNORE == 0

(* REMPI_CLOCK_COLLECTIVE_CLOCK and REMPI_CLOCK_INITIAL_CLOCK *)
COLLECTIVE_CLOCK == 3
INITIAL_CLOCK    == 10

(* compare, and compare2 with a bare (rank, clock) on its left *)
Before(clock1, source1, clock2, source2) ==
    clock1 < clock2 \/ (clock1 = clock2 /\ source1 < source2)

compare(e, f) == Before(e.clock, e.source, f.clock, f.source)

-----------------------------------------------------------------------------
(* Recording: rempi_encoder_cdc_input_format.                               *)

EmptyTable ==
    [events |-> << >>, with_previous |-> << >>, index |-> << >>,
     unmatched_id |-> << >>, unmatched_count |-> << >>]

(* An unmatched test that follows another at the same place only raises     *)
(* its count.                                                               *)
AddTo(table, e) ==
    LET here == Len(table.events)
        last == Len(table.unmatched_id)
    IN  IF e.flag = 1
        THEN [table EXCEPT
                !.events = Append(@, e),
                !.with_previous = IF e.with_next = 1 THEN Append(@, here) ELSE @,
                !.index = Append(@, e.index)]
        ELSE IF last > 0 /\ table.unmatched_id[last] = here
             THEN [table EXCEPT !.unmatched_count[last] = @ + e.count]
             ELSE [table EXCEPT !.unmatched_id = Append(@, here),
                                !.unmatched_count = Append(@, e.count)]

(* The share of a table in total_length. *)
TableLength(table) == Len(table.events) + Len(table.unmatched_id)

Sorted(table) == SortSeq(table.events, compare)

(* The two errors of format: a call whose events are cut by the end of the  *)
(* chunk, and two events of one source with one clock.                      *)
FormatFails(table) ==
    \/ table.events # << >> /\ Last(table.events).with_next = 1
    \/ \E i, j \in DOMAIN table.events :
           /\ i < j
           /\ table.events[i].source = table.events[j].source
           /\ table.events[i].clock = table.events[j].clock
           /\ table.events[i].clock # INPUT_IGNORE

(* The last clock of every source of the chunk. *)
EpochLine(table) ==
    LET sources == {table.events[i].source : i \in DOMAIN table.events}
    IN  [s \in sources |->
            Max({table.events[i].clock :
                    i \in {k \in DOMAIN table.events : table.events[k].source = s}})]

(* The observed order in terms of the sorted one. *)
Observed(table) ==
    LET sorted == Sorted(table)
    IN  [i \in DOMAIN table.events |->
            (CHOOSE k \in DOMAIN sorted : sorted[k] = table.events[i]) - 1]

-----------------------------------------------------------------------------
(* Encoding: compress_non_matched_events and compress_matched_events push   *)
(* these words in this order.                                               *)

Sources(epoch) == SetToSortSeq(DOMAIN epoch, LAMBDA a, b : a < b)

MovesWords(moves) ==
    <<2 * Len(moves)>>
    \o compress_by_linear_prediction([i \in DOMAIN moves |-> moves[i].id], Word)
    \o compress_by_linear_prediction([i \in DOMAIN moves |-> moves[i].delay], Word)

Words(set, table) ==
    LET epoch == EpochLine(table)
        ranks == Sources(epoch)
        prev  == compress_by_linear_prediction(table.with_previous, Word)
        ids   == compress_by_linear_prediction(table.unmatched_id, Word)
    IN  <<set, Len(table.events)>>
        \o <<Len(ranks)>> \o ranks \o [i \in DOMAIN ranks |-> epoch[ranks[i]]]
        \o <<Len(prev), Len(prev)>> \o prev
        \o <<Len(table.index), Len(table.index)>> \o table.index
        \o <<Len(ids)>> \o ids
        \o <<Len(ids)>> \o table.unmatched_count
        \o MovesWords(compress(Observed(table)))

(* encode: the tables of the chunk in the order of their ids. *)
Encode(tables) ==
    FoldLeft(LAMBDA acc, s : acc \o Words(s, tables[s]), << >>, Sources(tables))

-----------------------------------------------------------------------------
(* Decoding: rempi_encoder_cdc::decode walks the words with one address.    *)

Slice(words, at, n) == SubSeq(words, at, at + n - 1)

(* The table that starts at `at', and the address after it. *)
ReadTable(words, at) ==
    LET ranks  == at + 2
        n      == words[ranks]
        prev   == ranks + 1 + 2 * n
        index  == prev + 2 + words[prev + 1]
        ids    == index + 2 + words[index + 1]
        counts == ids + 1 + words[ids]
        moves  == counts + 1 + words[counts]
        half   == words[moves] \div 2
        after  == decompress_by_linear_prediction(
                      Slice(words, prev + 2, words[prev + 1]), Word)
        at_id  == decompress_by_linear_prediction(Slice(words, ids + 1, words[ids]), Word)
        id     == decompress_by_linear_prediction(Slice(words, moves + 1, half), Word)
        delay  == decompress_by_linear_prediction(Slice(words, moves + 1 + half, half), Word)
        count  == words[at + 1]
        line   == [s \in {words[ranks + i] : i \in 1..n} |->
                      words[ranks + n + (CHOOSE i \in 1..n : words[ranks + i] = s)]]
    IN  [next |-> moves + 1 + words[moves],
         table |->
           [count     |-> count,
            line      |-> line,
            with_next |-> {after[i] : i \in DOMAIN after},
            index     |-> Slice(words, index + 2, words[index + 1]),
            unmatched |-> [u \in {at_id[i] : i \in DOMAIN at_id} |->
                              words[counts + (CHOOSE i \in DOMAIN at_id : at_id[i] = u)]],
            position  |-> cdc_prepare_decode_indices(count,
                            [i \in 1..half |-> [id    |-> Signed(id[i], Word),
                                                delay |-> Signed(delay[i], Word)]]),
            reached   |-> [s \in DOMAIN line |-> 0],
            ordered   |-> << >>,
            solid     |-> << >>,
            replayed  |-> 0]]

(* All tables of a chunk, by matching set. *)
Decode(words) ==
    LET from[at \in 1..(Len(words) + 1)] ==
            IF at > Len(words) THEN << >>
            ELSE LET t == ReadTable(words, at)
                 IN  (words[at] :> t.table) @@ from[t.next]
    IN  from[1]

-----------------------------------------------------------------------------
(* Replaying from a decoded table.                                          *)

is_decoded_all_More(t) == DOMAIN t.unmatched = {} /\ t.replayed > t.count

is_decoded_all(t) == DOMAIN t.unmatched = {} /\ t.replayed >= t.count

within_epoch(t, e) == e.source \in DOMAIN t.line /\ e.clock <= t.line[e.source]

is_reached_epoch_line(t) == t.reached = t.line

UnmatchedEvent(n) ==
    [flag |-> 0, source |-> INPUT_IGNORE, clock |-> INPUT_IGNORE,
     with_next |-> 0, index |-> INPUT_IGNORE, count |-> n]

(* Operation A: the arrived events of this chunk join the ordered list. *)
TakeArrived(t, list) ==
    LET mine == SelectSeq(list, LAMBDA e : within_epoch(t, e))
    IN  [t EXCEPT
           !.ordered = SortSeq(@ \o mine, compare),
           !.reached = [s \in DOMAIN @ |->
               LET from == SelectSeq(mine, LAMBDA e : e.source = s)
               IN  IF from = << >> THEN @[s] ELSE Last(from).clock]]

(* Operation B: how many of them nothing can precede any more. *)
SolidCount_All(t, min) == Len(t.ordered)

SolidCount(t, min) ==
    IF min.clock = COLLECTIVE_CLOCK \/ is_reached_epoch_line(t) THEN Len(t.ordered)
    ELSE LET late == {i \in DOMAIN t.ordered :
                         Before(min.clock, min.rank, t.ordered[i].clock, t.ordered[i].source)}
         IN  IF late = {} THEN Len(t.ordered) ELSE Min(late) - 1

Solidify(t, n) ==
    LET first == t.replayed + Len(t.solid)
    IN  [t EXCEPT
           !.ordered = SubSeq(@, n + 1, Len(@)),
           !.solid = @ \o [i \in 1..n |->
               [event |-> t.ordered[i], clock_order |-> first + i - 1]]]

OutOfOrder(t) ==
    \E i \in 1..(Len(t.solid) - 1) : ~compare(t.solid[i].event, t.solid[i + 1].event)

(* The number of events the next call returned when it was recorded. *)
Outcount(t) ==
    1 + Min({k \in 0..t.count : t.replayed + k \notin t.with_next})

(* The place of a solid event in the next call's answer, from 0.  An order  *)
(* past the end of the vector counts as one that should be replayed already.*)
Place(t, s) ==
    IF s.clock_order \in DOMAIN t.position
    THEN t.position[s.clock_order] - t.replayed ELSE -1

(* For each place of the answer the solid event that goes there, 0: none.   *)
Answer(t) ==
    [p \in 1..Outcount(t) |->
        LET here == {i \in DOMAIN t.solid : Place(t, t.solid[i]) = p - 1}
        IN  IF here = {} THEN 0 ELSE Min(here)]

(* A solid event that should have been replayed earlier is an error when    *)
(* the scan meets it before the answer is complete.                         *)
PlaceFails(t) ==
    LET answer == Answer(t)
        last   == IF \E p \in DOMAIN answer : answer[p] = 0 THEN Len(t.solid)
                  ELSE Max({answer[p] : p \in DOMAIN answer})
    IN  \E i \in 1..last : Place(t, t.solid[i]) < 0

InterimClock_Twice(t, min, local) ==
    LET answer  == Answer(t)
        missing(p) == Cardinality({q \in 1..p : answer[q] = 0})
        clock(p) == IF answer[p] # 0 THEN t.solid[answer[p]].event.clock
                    ELSE IF missing(p) <= Len(t.ordered)
                         THEN Min({t.ordered[missing(p)].clock, min.clock})
                         ELSE min.clock
        after[p \in 0..Len(answer)] ==
            IF p = 0 THEN local ELSE Max({after[p - 1], clock(p) + 1}) + 1
    IN  after[Len(answer)]

InterimClock_Local(t, min, local) == local

InterimClock(t, min, local) ==
    LET answer  == Answer(t)
        missing(p) == Cardinality({q \in 1..p : answer[q] = 0})
        clock(p) == IF answer[p] # 0 THEN t.solid[answer[p]].event.clock
                    ELSE IF missing(p) <= Len(t.ordered)
                         THEN Min({t.ordered[missing(p)].clock, min.clock})
                         ELSE min.clock
        after[p \in 0..Len(answer)] ==
            IF p = 0 THEN local ELSE Max({after[p - 1], clock(p)}) + 1
    IN  after[Len(answer)]

(* compute_look_ahead_recv_clock: the least of the bounds known for the     *)
(* sources, those in a collective left out unless all are.                  *)
LookAhead(t, bound) ==
    LET ranks  == DOMAIN t.line
        moving == {r \in ranks : bound[r] # COLLECTIVE_CLOCK}
        least  == CHOOSE r \in moving :
                     \A q \in moving : r = q \/ Before(bound[r], r, bound[q], q)
    IN  IF ranks = {} THEN [rank |-> 0, clock |-> 0]
        ELSE IF moving = {} THEN [rank |-> Min(ranks), clock |-> COLLECTIVE_CLOCK]
        ELSE [rank |-> least, clock |-> bound[least]]

(* One call of cdc_decode_ordering for a table that is not decoded yet:     *)
(* the table and the list of arrived events after it, the events to replay, *)
(* the new interim clock (-1: unchanged) and whether it ended in an error.  *)
cdc_decode_ordering(table, list, min, local) ==
    IF is_decoded_all(table)
    THEN [table |-> table, list |-> list, replay |-> << >>, interim |-> -1,
          failed |-> FALSE, finished |-> FALSE]
    ELSE IF table.replayed \in DOMAIN table.unmatched
    THEN LET after == [table EXCEPT !.unmatched =
                          [u \in DOMAIN @ \ {table.replayed} |-> @[u]]]
         IN  [table |-> after, list |-> list,
              replay |-> <<UnmatchedEvent(table.unmatched[table.replayed])>>,
              interim |-> -1, failed |-> FALSE, finished |-> is_decoded_all(after)]
    ELSE LET taken   == TakeArrived(table, list)
             solid   == Solidify(taken, SolidCount(taken, min))
             answer  == Answer(solid)
             n       == Len(answer)
             ready   == \A p \in 1..n : answer[p] # 0
             gone    == {answer[p] : p \in 1..n}
             left    == SelectSeq([i \in DOMAIN solid.solid |->
                                      [s |-> solid.solid[i], out |-> i \in gone]],
                                  LAMBDA x : ~x.out)
             after   == [solid EXCEPT !.replayed = @ + n,
                                      !.solid = [i \in DOMAIN left |-> left[i].s]]
             event(p) == [solid.solid[answer[p]].event EXCEPT
                             !.with_next = IF p = n THEN 0 ELSE 1,
                             !.index = solid.index[solid.replayed + p]]
         IN  [table    |-> IF ready THEN after ELSE solid,
              list     |-> SelectSeq(list, LAMBDA e : ~within_epoch(table, e)),
              replay   |-> IF ready THEN [p \in 1..n |-> event(p)] ELSE << >>,
              interim  |-> IF min.clock = COLLECTIVE_CLOCK THEN -1
                           ELSE InterimClock(solid, min, local),
              failed   |-> OutOfOrder(solid) \/ PlaceFails(solid),
              finished |-> ready /\ is_decoded_all(after)]

-----------------------------------------------------------------------------
(* The queue of decoded events: dequeue_replay_event_set takes a complete   *)
(* answer, 0 events if there is none; an unmatched event is taken once for  *)
(* every time it was recorded.                                              *)
Answered(q) ==
    IF \E k \in DOMAIN q : q[k].with_next = 0
    THEN Min({k \in DOMAIN q : q[k].with_next = 0}) ELSE 0

AfterAnswer(q) ==
    IF q[1].count > 1 THEN [q EXCEPT ![1].count = @ - 1]
    ELSE SubSeq(q, Answered(q) + 1, Len(q))

(* rempi_clock_sync_clock: this rank's clock after a call returned these    *)
(* events.                                                                  *)
ClockAfter(clock, events) ==
    FoldLeft(LAMBDA c, e : IF e.flag = 0 THEN c ELSE Max({c, e.clock}) + 1, clock, events)

=============================================================================
