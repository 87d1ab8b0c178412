------------------------------ MODULE CdcCodec ------------------------------
(***************************************************************************)
(* Clock delta compression from end to end for one rank: the recorder's     *)
(* events go through the tables into the record file, chunk by chunk; the   *)
(* replay reads the file back and decides, while messages arrive in an      *)
(* order of their own, what each call returns                               *)
(* (rempi_encoder_cdc.cpp, the replay queues of rempi_event_list.cpp).      *)
(*                                                                         *)
(* The other ranks are the environment: each source sends its messages in   *)
(* the order of their clocks, and at any moment this rank knows, for each   *)
(* source, some lower bound on the clocks still to come.  CdcReplay models  *)
(* how that bound is obtained; here any true bound may be known.            *)
(***************************************************************************)
EXTENDS CdcTable

CONSTANTS
    Source,     \* the ranks this rank receives from
    MatchingSet,    \* the ids of the matching sets
    Workloads,  \* what the recorded runs are like
    MayOvertake     \* may a message be observed in a later chunk than a message
                    \* its source sent after it?

(* A workload bounds the recorded run: which sets may match messages of     *)
(* which sources (source 0: may test in vain), the clocks of the messages,  *)
(* the number of events, whether calls may return several messages, the     *)
(* values of rempi_max_event_length (REMPI_MAX), and the numbers of events  *)
(* after which the process may die.                                         *)
Workload ==
    [traffic : SUBSET (MatchingSet \X (Source \union {0})), clocks : SUBSET Nat,
     events : Nat, several : BOOLEAN, lengths : SUBSET Nat, crashes : SUBSET Nat]

ASSUME CodecAssumption ==
    /\ Source \subseteq Nat /\ MatchingSet \subseteq Nat /\ 0 \notin Source
    /\ Workloads \subseteq Workload
    /\ \A w \in Workloads : \A c \in w.clocks : c >= INITIAL_CLOCK
    /\ MayOvertake \in BOOLEAN

VARIABLES
    phase,      \* "record", "closed", "aborted", "crashed", then "replay", "failed", "done"
    workload,   \* the workload of this behaviour
    max_length, \* rempi_max_event_length
    history,    \* the events given to the encoder, in order
    tables,     \* input_format->test_tables_map while recording
    chunks,     \* of every chunk written its matching sets and its sources
    file,       \* the record file, word by word
    state,      \* decoding_state
    at,         \* the read position in the file
    decoded,    \* input_format->test_tables_map while replaying
    finished,   \* finished_testsome_count
    pc,         \* where the application is in the loop of get_next_events
    came,       \* the messages that have arrived
    arrived,    \* recording_event_list: for each set the messages that arrived
    waiting,    \* matched_events_list_umap
    next_clocks,    \* solid_mc_next_clocks_umap_umap
    replaying,  \* replaying_event_list: for each set the decoded events
    delivered,  \* for each set, what the application got back
    interim,    \* interim_min_clock_in_next_event_umap
    clock,      \* this rank's clock
    published   \* rempi_cp_scatter_clock: the bound the other ranks see

record_vars == <<workload, max_length, history, tables, chunks, file>>
decode_vars == <<state, at, decoded, finished, waiting, interim>>
replay_vars == <<came, arrived, next_clocks, replaying, delivered, clock, published>>
vars == <<phase, pc, record_vars, decode_vars, replay_vars>>

Separator == 0      \* all_epoch_rank_separator

Events == {history[i] : i \in DOMAIN history}
Matched == {e \in Events : e.flag = 1}

(* The events of source s that are still in the table of a set. *)
InChunk(s, set) ==
    IF set \notin DOMAIN tables THEN {}
    ELSE {e \in ToSet(tables[set].events) : e.source = s}

Init ==
    /\ phase = "record" /\ workload \in Workloads /\ max_length \in workload.lengths
    /\ history = << >> /\ tables = << >> /\ chunks = << >> /\ file = << >>
    /\ state = "CREATE_READ" /\ at = 1 /\ decoded = << >> /\ finished = 0
    /\ pc = "loop"
    /\ came = {}
    /\ arrived = [m \in MatchingSet |-> << >>] /\ waiting = [m \in MatchingSet |-> << >>]
    /\ next_clocks = << >>
    /\ replaying = [m \in MatchingSet |-> << >>]
    /\ delivered = [m \in MatchingSet |-> << >>]
    /\ interim = [m \in MatchingSet |-> 0]
    /\ clock = INITIAL_CLOCK /\ published = 0

-----------------------------------------------------------------------------
(* Recording.                                                               *)

Length == FoldFunction(LAMBDA t, n : n + TableLength(t), 0, tables)

(* The chunk takes no event more: extract_encoder_input_format_chunk.       *)
LastCompletes == IF history = << >> THEN TRUE ELSE Last(history).with_next = 0
Full_Always == Length > max_length

Full == Length > max_length /\ LastCompletes

(* What one matching call may report next: a call that returned several     *)
(* messages gives several events, all but the last with_next.               *)
NextEvents ==
    LET clocks(s) == workload.clocks \ {e.clock : e \in {f \in Matched : f.source = s}}
        sets      == IF LastCompletes THEN MatchingSet ELSE {Last(history).set}
        room      == IF workload.several /\ Len(history) + 1 < workload.events THEN {0, 1} ELSE {0}
        matched(m, s) ==
            {[set |-> m, flag |-> 1, source |-> s, clock |-> c, with_next |-> w,
              index |-> c - INITIAL_CLOCK, count |-> 1] : c \in clocks(s), w \in room}
        unmatched(m) ==
            {[set |-> m, flag |-> 0, source |-> INPUT_IGNORE, clock |-> INPUT_IGNORE,
              with_next |-> 0, index |-> INPUT_IGNORE, count |-> 1]}
    IN  UNION {IF x[2] # INPUT_IGNORE THEN matched(x[1], x[2])
               ELSE IF LastCompletes THEN unmatched(x[1]) ELSE {} :
                  x \in {y \in workload.traffic : y[1] \in sets}}

(* Across chunks the messages of a source are observed in sending order,    *)
(* unless MayOvertake.                                                      *)
InOrder(e) ==
    \A f \in Matched :
        (f.set = e.set /\ f.source = e.source /\ f \notin InChunk(e.source, e.set))
            => f.clock < e.clock

(* input_format->add *)
Add ==
    /\ phase = "record" /\ ~Full /\ Len(history) < workload.events
    /\ \E e \in NextEvents :
          /\ e.flag = 1 /\ ~MayOvertake => InOrder(e)
          /\ history' = Append(history, e)
          /\ tables' = (e.set :> AddTo(IF e.set \in DOMAIN tables THEN tables[e.set]
                                       ELSE EmptyTable, e)) @@ tables
    /\ UNCHANGED <<phase, pc, workload, max_length, chunks, file, decode_vars, replay_vars>>

Shape(t) ==
    [sets    |-> DOMAIN t,
     sources |-> {e.source : e \in UNION {ToSet(t[m].events) : m \in DOMAIN t}}]

Sized(words) == <<Len(words)>> \o words

(* format, encode and write_record_file: the chunk behind its size. *)
WriteChunk ==
    IF \E m \in DOMAIN tables : FormatFails(tables[m])
    THEN /\ phase' = "aborted"
         /\ UNCHANGED <<tables, chunks, file>>
    ELSE /\ file' = file \o Sized(Encode(tables))
         /\ tables' = << >>
         /\ chunks' = Append(chunks, Shape(tables))
         /\ UNCHANGED phase

(* A full chunk is written before the next event is taken. *)
Flush ==
    /\ phase = "record" /\ Full
    /\ WriteChunk
    /\ UNCHANGED <<pc, workload, max_length, history, decode_vars, replay_vars>>

(* write_footer: the separator, every rank received from, and the ids of    *)
(* the matching sets.                                                       *)
Footer ==
    LET ranks == SetToSortSeq({e.source : e \in Matched}, LAMBDA a, b : a < b)
        sets  == SetToSortSeq({e.set : e \in Events}, LAMBDA a, b : a < b)
    IN  <<Separator, Len(ranks)>> \o ranks \o <<Len(sets)>> \o sets \o sets

(* What the file holds once the rest and the footer are written. *)
WholeFile ==
    file \o (IF tables = << >> THEN << >> ELSE Sized(Encode(tables))) \o Footer

(* MPI_Finalize: push_all closes the list, the I/O thread writes the rest   *)
(* and the footer.                                                          *)
Close ==
    /\ phase = "record" /\ ~Full /\ LastCompletes
    /\ IF \E m \in DOMAIN tables : FormatFails(tables[m])
       THEN phase' = "aborted" /\ UNCHANGED <<tables, file, chunks>>
       ELSE /\ phase' = "closed"
            /\ file' = WholeFile
            /\ chunks' = IF tables = << >> THEN chunks ELSE Append(chunks, Shape(tables))
            /\ tables' = << >>
    /\ UNCHANGED <<pc, workload, max_length, history, decode_vars, replay_vars>>

(* The process dies while it records or while it writes the end: the file   *)
(* holds some prefix of what was to be in it.                               *)
Crash ==
    /\ phase = "record" /\ ~Full /\ LastCompletes /\ Len(history) \in workload.crashes
    /\ phase' = "crashed"
    /\ \E whole \in {WholeFile} : \E n \in 0..(Len(whole) - 1) : file' = SubSeq(whole, 1, n)
    /\ UNCHANGED <<pc, workload, max_length, history, tables, chunks, decode_vars, replay_vars>>

-----------------------------------------------------------------------------
(* Replaying.                                                               *)

(* read_footer skips the chunks; where a size cannot be read the record is  *)
(* broken.                                                                  *)
SeparatorAt_EndOfFile ==
    LET to[i \in 1..(Len(file) + 1)] ==
            IF i > Len(file) THEN i
            ELSE IF file[i] = Separator THEN i
            ELSE IF i + 1 + file[i] > Len(file) THEN 0 ELSE to[i + 1 + file[i]]
    IN  to[1]

SeparatorAt ==
    LET to[i \in 1..(Len(file) + 1)] ==
            IF i > Len(file) THEN 0
            ELSE IF file[i] = Separator THEN i
            ELSE IF i + 1 + file[i] > Len(file) THEN 0 ELSE to[i + 1 + file[i]]
    IN  to[1]

(* Behind the separator a list that is cut is an error; a length that is    *)
(* missing is not noticed, and what is used for it was never initialised.   *)
FooterReads ==
    LET ranks == SeparatorAt + 1
        sets  == ranks + 1 + file[ranks]
        end   == sets + 2 * file[sets]
    IN  IF ranks > Len(file) THEN {TRUE, FALSE}
        ELSE IF sets - 1 > Len(file) THEN {FALSE}
        ELSE IF sets > Len(file) THEN {TRUE, FALSE}
        ELSE {end <= Len(file)}

ReadFooter ==
    /\ phase \in {"closed", "crashed"}
    /\ \E read \in IF SeparatorAt = 0 THEN {FALSE} ELSE FooterReads :
          phase' = IF read THEN "replay" ELSE "failed"
    /\ UNCHANGED <<pc, record_vars, decode_vars, replay_vars>>

(* The environment. *)

ToCome(s) == {e \in Matched \ came : e.source = s}

(* The next message of a source is put on the queue of its matching set. *)
Arrive(s) ==
    /\ phase = "replay" /\ pc = "loop" /\ ToCome(s) # {}
    /\ LET first == CHOOSE e \in ToCome(s) : \A f \in ToCome(s) : e.clock <= f.clock
       IN  /\ came' = came \union {first}
           /\ arrived' = [arrived EXCEPT ![first.set] =
                  Append(@, [first EXCEPT !.with_next = 0, !.index = INPUT_IGNORE])]
    /\ UNCHANGED <<phase, pc, record_vars, decode_vars, next_clocks, replaying, delivered, clock, published>>

(* The bound on a source's clocks rises to its next one, to the clock of a  *)
(* rank that waits in a collective if it sends nothing more.                *)
Bound(s) ==
    IF ToCome(s) # {} THEN Min({e.clock : e \in ToCome(s)}) ELSE COLLECTIVE_CLOCK

Learn(s) ==
    /\ phase = "replay" /\ pc = "loop"
    /\ \E m \in DOMAIN next_clocks : s \in DOMAIN next_clocks[m] /\ next_clocks[m][s] # Bound(s)
    /\ next_clocks' = [m \in DOMAIN next_clocks |->
           [r \in DOMAIN next_clocks[m] |-> IF r = s THEN Bound(s) ELSE next_clocks[m][r]]]
    /\ UNCHANGED <<phase, pc, record_vars, decode_vars, came, arrived, replaying, delivered, clock, published>>

(* The application repeats its calls: the next one is on the matching set   *)
(* of the first recorded event it has not got back.                         *)
Given == FoldFunction(LAMBDA q, n : n + Len(q), 0, delivered)
CallSet == history[Given + 1].set

ChunkSources(t) == UNION {DOMAIN t[m].line : m \in DOMAIN t}

(* Every pass updates the bounds of all sets it has met for all sources of  *)
(* the chunk; a source a set does not know ends the program.                *)
Call ==
    /\ phase = "replay" /\ pc = "loop" /\ Given < Len(history)
    /\ pc' = "progress"
    /\ phase' = IF \A m \in DOMAIN next_clocks : ChunkSources(decoded) \subseteq DOMAIN next_clocks[m]
                THEN phase ELSE "failed"
    /\ published' = Max({published, clock})
    /\ UNCHANGED <<record_vars, decode_vars, came, arrived, next_clocks, replaying,
                   delivered, clock>>

(* progress_decoding, one state at a time, for the application's set. *)

(* read_record_file *)
CreateRead ==
    /\ phase = "replay" /\ pc = "progress" /\ state = "CREATE_READ"
    /\ state' = IF file[at] = Separator THEN "CLOSE" ELSE "DECODE"
    /\ UNCHANGED <<phase, pc, record_vars, at, decoded, finished, waiting, interim, replay_vars>>

(* decode, and the clocks it starts for the sets it has not met before.     *)
(* For a set it has met it compares the number of sets with the number of   *)
(* sources of the chunk.                                                    *)
DecodeChunk ==
    /\ phase = "replay" /\ pc = "progress" /\ state = "DECODE"
    /\ \E t \in {Decode(Slice(file, at + 1, file[at]))} :
       LET ranks == ChunkSources(t)
           known == DOMAIN next_clocks
           met(m) == known \union {k \in DOMAIN t : k < m}
           fails == \/ known # {} /\ Cardinality(known) < Cardinality(DOMAIN t)
                    \/ \E m \in known \intersect DOMAIN t : Cardinality(met(m)) # Cardinality(ranks)
       IN  /\ decoded' = t
           /\ next_clocks' = next_clocks @@ [m \in DOMAIN t |-> [r \in ranks |-> 0]]
           /\ phase' = IF fails THEN "failed" ELSE phase
    /\ at' = at + 1 + file[at]
    /\ state' = "INSERT"
    /\ UNCHANGED <<pc, record_vars, finished, waiting, interim,
                   came, arrived, replaying, delivered, clock, published>>

(* insert_encoder_input_format_chunk_recv_test_id; when the last table of   *)
(* the chunk is finished the next chunk is read at once.                    *)
Insert ==
    /\ phase = "replay" /\ pc = "progress" /\ state = "INSERT"
    /\ LET m == CallSet
       IN  IF \/ m \notin DOMAIN decoded
              \/ ~(DOMAIN decoded[m].line \subseteq DOMAIN next_clocks[m])
           THEN phase' = "failed" /\ UNCHANGED <<pc, decode_vars, arrived, replaying>>
           ELSE \E r \in {cdc_decode_ordering(decoded[m], waiting[m] \o arrived[m],
                                               LookAhead(decoded[m], next_clocks[m]), clock)} :
                LET done == finished + (IF r.finished THEN 1 ELSE 0)
                    last == r.finished /\ done >= Cardinality(DOMAIN decoded)
                IN  /\ phase' = IF r.failed THEN "failed" ELSE phase
                    /\ waiting' = [waiting EXCEPT ![m] = r.list]
                    /\ arrived' = [arrived EXCEPT ![m] = << >>]
                    /\ decoded' = IF last THEN << >> ELSE [decoded EXCEPT ![m] = r.table]
                    /\ replaying' = [replaying EXCEPT ![m] = @ \o r.replay]
                    /\ interim' = [interim EXCEPT ![m] = IF r.interim = -1 THEN @ ELSE r.interim]
                    /\ finished' = IF last THEN 0 ELSE done
                    /\ state' = IF last THEN "CREATE_READ" ELSE "INSERT"
                    /\ pc' = IF last THEN "progress" ELSE "dequeue"
                    /\ UNCHANGED at
    /\ UNCHANGED <<record_vars, came, next_clocks, delivered, clock, published>>

(* close_push; all is decoded from here on. *)
CloseRead ==
    /\ phase = "replay" /\ pc = "progress" /\ state \in {"CLOSE", "COMPLETE"}
    /\ state' = "COMPLETE" /\ pc' = "dequeue"
    /\ UNCHANGED <<phase, record_vars, at, decoded, finished, waiting, interim, replay_vars>>

(* dequeue_replay_event_set and replay_mf_input: a complete answer goes to  *)
(* the application, an unmatched event once for every time it was recorded; *)
(* the clock follows each message (rempi_clock_sync_clock).  Without one    *)
(* the interim clock of the set is published and the loop goes on.          *)
Dequeue ==
    /\ phase = "replay" /\ pc = "dequeue"
    /\ pc' = "loop"
    /\ LET m == CallSet
           q == replaying[m]
           n == Answered(q)
       IN  IF n = 0
           THEN /\ published' = Max({published, interim[m]})
                /\ UNCHANGED <<replaying, delivered, clock>>
           ELSE /\ replaying' = [replaying EXCEPT ![m] = AfterAnswer(q)]
                /\ delivered' = [delivered EXCEPT ![m] =
                      @ \o [k \in 1..n |-> [q[k] EXCEPT !.count = 1]]]
                /\ clock' = ClockAfter(clock, SubSeq(q, 1, n))
                /\ UNCHANGED published
    /\ UNCHANGED <<phase, record_vars, decode_vars, came, arrived, next_clocks>>

Finish ==
    /\ phase = "replay" /\ pc = "loop" /\ Given = Len(history)
    /\ phase' = "done"
    /\ UNCHANGED <<pc, record_vars, decode_vars, replay_vars>>

Next ==
    \/ Add \/ Flush \/ Close \/ Crash \/ ReadFooter
    \/ \E s \in Source : Arrive(s) \/ Learn(s)
    \/ Call \/ CreateRead \/ DecodeChunk \/ Insert \/ CloseRead \/ Dequeue \/ Finish

(* The recording may stop at any time; a replay goes on: messages arrive,   *)
(* the bounds of the sources are fetched again and again, and the rank's    *)
(* own thread runs its loop.  No step but one of its own changes what       *)
(* GoesOn names, and each of them does.  There are only finitely many       *)
(* messages and bounds, so fairness for all sources together is enough.     *)
GoesOn ==
    /\ phase \in {"closed", "crashed", "replay"}
    /\ phase' \in {"replay", "failed", "done"}
    /\ pc' \in {"loop", "progress", "dequeue"}
    /\ state' \in {"CREATE_READ", "DECODE", "INSERT", "CLOSE", "COMPLETE"}

Spec ==
    /\ Init /\ [][Next]_vars
    /\ WF_<<phase, pc, state>>(GoesOn)
    /\ SF_<<came, next_clocks>>(\E s \in Source : Arrive(s) \/ Learn(s))

-----------------------------------------------------------------------------
(* Properties.                                                              *)

(* The phases and positions, the file of words, and the clocks. *)
TypeOK ==
    /\ phase \in {"record", "closed", "aborted", "crashed", "replay", "failed", "done"}
    /\ max_length \in workload.lengths
    /\ file \in Seq(0..(Word - 1))
    /\ state \in {"CREATE_READ", "DECODE", "INSERT", "CLOSE", "COMPLETE"}
    /\ pc \in {"loop", "progress", "dequeue"}
    /\ at \in 1..(Len(file) + 1)
    /\ clock >= INITIAL_CLOCK /\ published \in Nat

(* Of the events observed so far only those are moved that do not belong to *)
(* a longest run in clock order: no record of moves could be shorter, and a *)
(* run observed in clock order costs nothing (add_node).                    *)
LongestRun(observed) ==
    Max({Cardinality(S) : S \in
            {T \in SUBSET DOMAIN observed :
                \A i, j \in T : i < j => observed[i] < observed[j]}})

ShortestRecord ==
    \A m \in DOMAIN tables :
        LET observed == Observed(tables[m])
        IN  /\ ~Search(observed).failed
            /\ Len(compress(observed)) = Len(observed) - LongestRun(observed)

(* What a call returned: which requests completed, with which messages, or  *)
(* none.                                                                    *)
Returned(q) ==
    [k \in DOMAIN q |-> <<q[k].flag, q[k].source, q[k].clock, q[k].with_next, q[k].index>>]

Recorded(m) == Returned(SelectSeq(history, LAMBDA e : e.set = m))

(* For every matching set the calls of the replay return what they returned *)
(* when they were recorded, in the same order: messages, request indices,   *)
(* calls that returned several messages, and unmatched tests (encode,       *)
(* decode, cdc_decode_ordering).                                            *)
ReplayFaithful ==
    \A m \in MatchingSet : IsPrefix(Returned(delivered[m]), Recorded(m))

(* Neither the recording nor a replay aborts as long as every chunk has the *)
(* same matching sets and the same sources, and as many of one as of the    *)
(* other if there are several chunks (the REMPI_ERR of format, decode,      *)
(* compute_look_ahead_recv_clock and cdc_decode_ordering).                  *)
Alike ==
    \A i \in DOMAIN chunks :
        /\ chunks[i] = chunks[1]
        /\ Len(chunks) > 1 => Cardinality(chunks[i].sets) = Cardinality(chunks[i].sources)

IsWhole == SeparatorAt # 0 /\ SeparatorAt + Len(Footer) - 1 = Len(file)

AlikeChunksReplay ==
    /\ TypeOK
    /\ phase # "aborted"
    /\ phase = "failed" /\ IsWhole => ~Alike

(* The clock published while a call waits is never above the clock the rank *)
(* has when the call returns, so no message it sends later contradicts it   *)
(* (update_local_look_ahead_send_clock).                                    *)
LookAheadHolds == [][delivered' # delivered => published <= clock']_vars

(* A replay never starts from a record that lacks one of its chunks         *)
(* (read_footer: "Record is broken").                                       *)
ChunkSizes ==
    LET from[i \in 1..(Len(file) + 1)] ==
            IF i > Len(file) \/ i = SeparatorAt THEN 0 ELSE 1 + from[i + 1 + file[i]]
    IN  from[1]

CutRecordRefused ==
    [][phase' = "replay" => Len(history) = 0 \/ ChunkSizes = Len(chunks) + (IF tables = << >> THEN 0 ELSE 1)]_phase

(* Every replay ends: all recorded results are returned, or it aborts. *)
ReplayEnds == (phase = "replay") ~> (phase \in {"done", "failed"})

(* What the comments promise for records of several chunks as well ("This   *)
(* event should be decoded in the next epoch").                             *)
NeverAborts == ~(phase = "failed" /\ IsWhole)
=============================================================================
