------------------------------ MODULE CdcReplay ------------------------------
(***************************************************************************)
(* A program of several ranks recorded and replayed by the CDC recorder     *)
(* (rempi_recorder_cdc.cpp with rempi_clock.cpp, rempi_cp.cpp,              *)
(* rempi_msg_buffer.cpp and the look-ahead clocks of rempi_encoder_cdc.cpp).*)
(*                                                                         *)
(* Every rank has a Lamport clock that its messages carry.  In the replay a *)
(* rank may only decide what a call returns when no message with a smaller  *)
(* clock can still arrive; to know that, it reads from every rank it        *)
(* receives from, by one-sided communication, a bound on the clocks of the  *)
(* messages to come and the number of messages sent so far.  What is        *)
(* written to and read from the record file is CdcTable's.                  *)
(***************************************************************************)
EXTENDS CdcTable

CONSTANTS
    Rank,       \* the ranks of MPI_COMM_WORLD
    MatchingSet,
    Programs,   \* what the ranks may do
    MaxSome,    \* the most messages one call returns
    CountFirst, \* is the send count read before the clock?
    Rendezvous, \* may a later message of a rank complete before an earlier one?
    Root        \* the root of the collectives that have one

(* A program is a sequence of operations:                                   *)
(*   send: an MPI_Isend of a message that belongs to a matching set         *)
(*   test: one test of the outstanding receives of a set                    *)
(*   until: MPI_Waitsome until so many messages of a set were received      *)
(*   the name of a collective operation of MPI_COMM_WORLD                   *)
(* MPI_Finalize comes after the last.                                       *)
Synchronising ==
    {"MPI_Barrier", "MPI_Allreduce", "MPI_Allgather", "MPI_Allgatherv", "MPI_Alltoall",
     "MPI_Reduce_scatter", "MPI_Comm_split", "MPI_Comm_create"}
ToRoot == {"MPI_Reduce", "MPI_Gather", "MPI_Gatherv"}
FromRoot == {"MPI_Bcast", "MPI_Scatter", "MPI_Scatterv"}
Collectives == Synchronising \union ToRoot \union FromRoot \union {"MPI_Scan"}

Operation ==
    [op : {"send"}, to : Rank, set : MatchingSet]
        \union [op : {"test"}, set : MatchingSet]
        \union [op : {"until"}, set : MatchingSet, count : Nat]
        \union [op : Collectives]

ASSUME ReplayAssumption ==
    /\ Rank \subseteq Nat /\ MatchingSet \subseteq Nat
    /\ Programs \subseteq [Rank -> Seq(Operation)]
    /\ MaxSome \in Nat \ {0}
    /\ {CountFirst, Rendezvous} \subseteq BOOLEAN
    /\ Root \in Rank

VARIABLES
    program,    \* the program of this behaviour
    mode,       \* "record" or "replay"
    pc,         \* where each rank is in its operation
    ip,         \* the operation each rank executes
    partners,   \* the ranks each rank must meet in its collective
    clock,      \* local_clock
    net,        \* net[s][d]: the messages from s to d that no receive has got, and
                \* whether they have come in
    got,        \* got[d][m]: how many messages of set m were returned to d
    history,    \* history[d]: the events recorded
    sent,       \* sent[s]: the clocks of the messages sent in this run
    old_sent,   \* those of the recorded run
    table,      \* table[d]: test_tables_map
    list,       \* list[d][m]: arrived messages of set m not yet decoded
    bound,      \* bound[d][m][s]: solid_mc_next_clocks
    last,       \* last[d][s]: max_recved_clock
    count,      \* count[d][s]: rempi_recv_counts
    window,     \* window[s][i]: what the rank with index i at s reads
    fetched,    \* fetched[d][s]: rempi_cp_gather_pc
    scatter,    \* rempi_cp_scatter_clock
    saved,      \* tmp_fd_next_clock
    interim,    \* interim_min_clock_in_next_event
    replaying,  \* replaying[d][m]: the decoded events
    delivered   \* delivered[d]: the events returned to the application

app_vars == <<mode, pc, ip, partners>>
record_vars == <<history, old_sent>>
table_vars == <<table, list, bound, last, count, interim, replaying>>
clock_vars == <<window, scatter, saved>>
vars == <<program, app_vars, clock, net, got, record_vars, sent, table_vars, clock_vars,
          fetched, delivered>>

ByRank(x) == [p \in Rank |-> x]

-----------------------------------------------------------------------------
(* Who reads whose clock: rempi_cp_init.                                    *)

(* rempi_cp_init_pred_ranks: the sources in the footer of the record. *)
pred_ranks(d) == {e.source : e \in {f \in ToSet(history[d]) : f.flag = 1}}

(* rempi_cp_remote_indexing: s learns who reads it, in the order of the     *)
(* ranks, and tells every reader its place.                                 *)
succ_ranks(s) == {d \in Rank : s \in pred_ranks(d) /\ mode = "replay"}
index(s, d) == Cardinality({r \in succ_ranks(s) : r < d})

(* rempi_cp_set_scatter_clock *)
SetScatter(w, c) == [i \in DOMAIN w |-> [w[i] EXCEPT !.clock = c]]

(* update_local_look_ahead_send_clock: never lowers what is published. *)
Publish(p, c) ==
    /\ scatter' = [scatter EXCEPT ![p] = Max({@, c})]
    /\ window' = [window EXCEPT ![p] = IF scatter[p] < c THEN SetScatter(@, c) ELSE @]

-----------------------------------------------------------------------------
Current(p) == program[p][ip[p]]
Running(p) == ip[p] <= Len(program[p])
Does(p, op) == Running(p) /\ Current(p).op = op

(* An operation that has nothing to wait for any more is left. *)
Calls(p) ==
    \/ Does(p, "test")
    \/ Does(p, "until") /\ got[p][Current(p).set] < Current(p).count

NextIp(p) == ip' = [ip EXCEPT ![p] = @ + 1]

Skip(p) ==
    /\ pc[p] = "run" /\ Does(p, "until") /\ ~Calls(p)
    /\ NextIp(p)
    /\ UNCHANGED <<program, mode, pc, partners, clock, net, got, record_vars, sent, table_vars,
                   clock_vars, fetched, delivered>>

-----------------------------------------------------------------------------
(* The network: a message sent comes in sometime, in its turn unless        *)
(* Rendezvous.                                                              *)

Message(m, c) == [set |-> m, clock |-> c, here |-> FALSE]

Land(s, d) ==
    /\ \E i \in DOMAIN net[s][d] :
          /\ ~net[s][d][i].here
          /\ Rendezvous \/ \A j \in 1..(i - 1) : net[s][d][j].here
          /\ net' = [net EXCEPT ![s][d][i].here = TRUE]
    /\ UNCHANGED <<program, app_vars, clock, got, record_vars, sent, table_vars, clock_vars,
                   fetched, delivered>>

-----------------------------------------------------------------------------
(* The recorded run.                                                        *)

(* record_isend: the message carries the clock before it is counted up. *)
RecordSend(p) ==
    /\ mode = "record" /\ Does(p, "send")
    /\ LET c == Current(p)
       IN  net' = [net EXCEPT ![p][c.to] = Append(@, Message(c.set, clock[p]))]
    /\ sent' = [sent EXCEPT ![p] = Append(@, clock[p])]
    /\ clock' = [clock EXCEPT ![p] = @ + 1]
    /\ NextIp(p)
    /\ UNCHANGED <<program, mode, pc, partners, got, record_vars, table_vars, clock_vars,
                   fetched, delivered>>

(* The messages a call may return, with the rest of the network: the first  *)
(* of each source, then perhaps another.                                    *)
FirstOf(q, m) ==
    LET mine == {i \in DOMAIN q : q[i].set = m}
    IN  IF mine = {} THEN 0 ELSE IF q[Min(mine)].here THEN Min(mine) ELSE 0

Matches(p, m, n) ==
    LET more[k \in 0..n] ==
            IF k = 0 THEN {[events |-> << >>, net |-> net]}
            ELSE UNION {
                LET able == {s \in Rank : FirstOf(x.net[s][p], m) # 0}
                    take(s) ==
                        LET i == FirstOf(x.net[s][p], m)
                            e == [set |-> m, flag |-> 1, source |-> s, clock |-> x.net[s][p][i].clock,
                                  with_next |-> IF k < n THEN 1 ELSE 0,
                                  index |-> got[p][m] + k - 1, count |-> 1]
                        IN  [events |-> Append(x.events, e),
                             net |-> [x.net EXCEPT ![s][p] = RemoveAt(@, i)]]
                IN  {take(s) : s \in able} : x \in more[k - 1]}
    IN  more[n]

NoMatch(m) ==
    [set |-> m, flag |-> 0, source |-> INPUT_IGNORE, clock |-> INPUT_IGNORE,
     with_next |-> 0, index |-> INPUT_IGNORE, count |-> 1]

(* record_mf: the messages MPI returns are recorded with their clocks, the  *)
(* local clock passes each of them.  A test may return none.                *)
RecordCall(p) ==
    /\ mode = "record" /\ Calls(p)
    /\ LET m == Current(p).set
       IN  \/ \E n \in 1..MaxSome : \E x \in Matches(p, m, n) :
                 /\ net' = x.net
                 /\ history' = [history EXCEPT ![p] = @ \o x.events]
                 /\ clock' = [clock EXCEPT ![p] = ClockAfter(@, x.events)]
                 /\ got' = [got EXCEPT ![p][m] = @ + n]
           \/ /\ Does(p, "test")
              /\ history' = [history EXCEPT ![p] = Append(@, NoMatch(m))]
              /\ UNCHANGED <<net, clock, got>>
    /\ IF Does(p, "test") THEN NextIp(p) ELSE UNCHANGED ip
    /\ UNCHANGED <<program, mode, pc, partners, sent, old_sent, table_vars, clock_vars, fetched,
                   delivered>>

(* MPI_Finalize of all ranks and the start of the replay: every rank reads  *)
(* its record back.                                                         *)
FillTables(q) ==
    FoldLeft(LAMBDA t, e : (e.set :> AddTo(IF e.set \in DOMAIN t THEN t[e.set] ELSE EmptyTable, e)) @@ t,
             << >>, q)

Finished == \A p \in Rank : pc[p] = "final"

StartReplay ==
    /\ mode = "record" /\ Finished
    /\ mode' = "replay" /\ pc' = ByRank("run")
    /\ ip' = ByRank(1) /\ clock' = ByRank(INITIAL_CLOCK)
    /\ got' = ByRank([m \in MatchingSet |-> 0])
    /\ sent' = ByRank(<< >>) /\ old_sent' = sent
    /\ table' = [p \in Rank |-> Decode(Encode(FillTables(history[p])))]
    /\ bound' = [p \in Rank |-> [m \in MatchingSet |-> [s \in pred_ranks(p) |-> 0]]]
    /\ window' = [s \in Rank |->
           [i \in 0..(Cardinality({d \in Rank : s \in pred_ranks(d)}) - 1) |->
               [clock |-> 0, count |-> 0]]]
    /\ UNCHANGED <<program, partners, net, history, list, last, count, interim, replaying,
                   scatter, saved, fetched, delivered>>

-----------------------------------------------------------------------------
(* The replay: sending.                                                     *)

(* replay_isend first counts the message (rempi_cp_record_send) ... *)
CountSend(p) ==
    /\ mode = "replay" /\ pc[p] = "run" /\ Does(p, "send")
    /\ pc' = [pc EXCEPT ![p] = "counted"]
    /\ window' = [window EXCEPT ![p][index(p, Current(p).to)].count = @ + 1]
    /\ UNCHANGED <<program, mode, ip, partners, clock, net, got, record_vars, sent, table_vars,
                   scatter, saved, fetched, delivered>>

(* ... then sends it, counts the clock up and publishes it. *)
ReplaySend_Counted(p) ==
    /\ pc[p] = "counted"
    /\ LET c == Current(p)
       IN  net' = [net EXCEPT ![p][c.to] = Append(@, Message(c.set, clock[p] + 1))]
    /\ sent' = [sent EXCEPT ![p] = Append(@, clock[p] + 1)]
    /\ clock' = [clock EXCEPT ![p] = @ + 1]
    /\ Publish(p, clock[p] + 1)
    /\ pc' = [pc EXCEPT ![p] = "run"]
    /\ NextIp(p)
    /\ UNCHANGED <<program, mode, partners, got, record_vars, table_vars, saved, fetched,
                   delivered>>

ReplaySend(p) ==
    /\ pc[p] = "counted"
    /\ LET c == Current(p)
       IN  net' = [net EXCEPT ![p][c.to] = Append(@, Message(c.set, clock[p]))]
    /\ sent' = [sent EXCEPT ![p] = Append(@, clock[p])]
    /\ clock' = [clock EXCEPT ![p] = @ + 1]
    /\ Publish(p, clock[p] + 1)
    /\ pc' = [pc EXCEPT ![p] = "run"]
    /\ NextIp(p)
    /\ UNCHANGED <<program, mode, partners, got, record_vars, table_vars, saved, fetched,
                   delivered>>

-----------------------------------------------------------------------------
(* The replay: matching functions.                                          *)

(* get_next_events publishes the local clock and enters its loop. *)
EnterCall(p) ==
    /\ mode = "replay" /\ pc[p] = "run" /\ Calls(p)
    /\ pc' = [pc EXCEPT ![p] = "fetch"]
    /\ Publish(p, clock[p])
    /\ UNCHANGED <<program, mode, ip, partners, clock, net, got, record_vars, sent, table_vars,
                   saved, fetched, delivered>>

(* rempi_cp_gather_clocks: MPI_Get of one rank's {clock, send_count}, which *)
(* is not atomic.  Both parts are read once a pass.                         *)
Parts == IF CountFirst THEN <<"count", "clock">> ELSE <<"clock", "count">>

Remote(p, s) == window[s][index(s, p)]

Fetch(p) ==
    /\ pc[p] \in {"fetch", "torn", "fetch_after", "torn_after"}
    /\ LET part == IF pc[p] \in {"fetch", "fetch_after"} THEN Parts[1] ELSE Parts[2]
       IN  fetched' = [fetched EXCEPT ![p] =
               [s \in pred_ranks(p) |->
                   IF part = "clock" THEN [@[s] EXCEPT !.clock = Remote(p, s).clock]
                   ELSE [@[s] EXCEPT !.count = Remote(p, s).count]]]
    /\ pc' = [pc EXCEPT ![p] =
           CASE @ = "fetch" -> "torn" [] @ = "torn" -> "loop"
             [] @ = "fetch_after" -> "torn_after" [] @ = "torn_after" -> "leave"]
    /\ UNCHANGED <<program, mode, ip, partners, clock, net, got, record_vars, sent, table_vars,
                   clock_vars, delivered>>

(* rempi_msgb_progress_recv: what has come in is received, pass after pass  *)
(* until nothing more is; then MPI_Iprobe may see what came in meanwhile.   *)
Here(p, s) == SelectSeq(net[s][p], LAMBDA x : x.here)
Probed(p) == SUBSET {s \in pred_ranks(p) : Len(net[s][p]) > Len(Here(p, s))}

(* update_local_look_ahead_recv_clock for one source: nothing while a       *)
(* message is probed; the last clock received while messages are in flight; *)
(* else the clock the source has published.                                 *)
NextBound_Published(b, probed, in_flight, received, remote) ==
    IF probed THEN b ELSE IF b < remote \/ remote = COLLECTIVE_CLOCK THEN remote ELSE b

NextBound(b, probed, in_flight, received, remote) ==
    IF probed THEN b
    ELSE IF in_flight THEN IF received > b THEN received ELSE b
    ELSE IF b < remote \/ remote = COLLECTIVE_CLOCK THEN remote ELSE b

Progress(p) ==
    LET new(s, m) ==
            LET mine == SelectSeq(Here(p, s), LAMBDA x : x.set = m)
            IN  [k \in DOMAIN mine |->
                    [set |-> m, flag |-> 1, source |-> s, clock |-> mine[k].clock,
                     with_next |-> 0, index |-> INPUT_IGNORE, count |-> 1]]
        ranks == SetToSortSeq(pred_ranks(p), LAMBDA a, b : a < b)
    IN  [net   |-> [s \in Rank |-> [net[s] EXCEPT ![p] =
                      IF s \in pred_ranks(p) THEN SelectSeq(@, LAMBDA x : ~x.here) ELSE @]],
         list  |-> [m \in MatchingSet |->
                      list[p][m] \o FoldLeft(LAMBDA q, s : q \o new(s, m), << >>, ranks)],
         last  |-> [s \in pred_ranks(p) |->
                      Max({last[p][s]} \union {x.clock : x \in ToSet(Here(p, s))})],
         count |-> [s \in pred_ranks(p) |-> count[p][s] + Len(Here(p, s))]]

Bounds(p, x, probed) ==
    [m \in MatchingSet |-> [s \in pred_ranks(p) |->
        NextBound(bound[p][m][s], s \in probed, fetched[p][s].count > x.count[s],
                  x.last[s], fetched[p][s].clock)]]

(* A pass of the loop: progress, bounds, decoding for the set of the call,  *)
(* and the answer if there is one.  Without one the interim clock is        *)
(* published.                                                               *)
Pass(p) ==
    /\ pc[p] = "loop"
    /\ \E probed \in Probed(p), x \in {Progress(p)}, m \in {Current(p).set} :
       \E b \in {Bounds(p, x, probed)} :
       \E r \in {cdc_decode_ordering(table[p][m], x.list[m], LookAhead(table[p][m], b[m]), clock[p])} :
             LET q == replaying[p][m] \o r.replay
                 n == Answered(q)
                 i == IF r.interim = -1 THEN interim[p][m] ELSE r.interim
             IN  /\ net' = x.net
                 /\ last' = [last EXCEPT ![p] = x.last]
                 /\ count' = [count EXCEPT ![p] = x.count]
                 /\ bound' = [bound EXCEPT ![p] = b]
                 /\ list' = [list EXCEPT ![p] = [x.list EXCEPT ![m] = r.list]]
                 /\ table' = [table EXCEPT ![p][m] = r.table]
                 /\ interim' = [interim EXCEPT ![p][m] = i]
                 /\ IF r.failed
                    THEN /\ pc' = [pc EXCEPT ![p] = "failed"]
                         /\ UNCHANGED <<ip, got, clock, replaying, delivered, scatter, window>>
                    ELSE IF n = 0
                    THEN /\ pc' = [pc EXCEPT ![p] = "fetch"]
                         /\ replaying' = [replaying EXCEPT ![p][m] = q]
                         /\ Publish(p, i)
                         /\ UNCHANGED <<ip, got, clock, delivered>>
                    ELSE LET answer == SubSeq(q, 1, n)
                             now    == ClockAfter(clock[p], answer)
                         IN  /\ pc' = [pc EXCEPT ![p] = "run"]
                             /\ replaying' = [replaying EXCEPT ![p][m] = AfterAnswer(q)]
                             /\ delivered' = [delivered EXCEPT ![p] =
                                    @ \o [k \in 1..n |-> ("set" :> m) @@ answer[k]]]
                             /\ got' = [got EXCEPT ![p][m] = @ + IF answer[1].flag = 1 THEN n ELSE 0]
                             /\ clock' = [clock EXCEPT ![p] = now]
                             /\ IF Does(p, "test") THEN NextIp(p) ELSE UNCHANGED ip
                             /\ UNCHANGED <<scatter, window>>
    /\ UNCHANGED <<program, mode, partners, record_vars, sent, saved, fetched>>

-----------------------------------------------------------------------------
(* Collectives, in both runs: the clocks of all ranks are set to the        *)
(* largest (PNMPIMOD_collective_sync_clock).  While a rank waits for the    *)
(* others it publishes COLLECTIVE_CLOCK instead of its clock.  Then comes   *)
(* MPI's own collective, which a rank may leave when the ranks whose data   *)
(* it needs have entered it.                                                *)

PreCollective(p, others) ==
    /\ pc' = [pc EXCEPT ![p] = "collective"]
    /\ partners' = [partners EXCEPT ![p] = others]
    /\ IF mode = "replay"
       THEN /\ saved' = [saved EXCEPT ![p] = scatter[p]]
            /\ scatter' = [scatter EXCEPT ![p] = COLLECTIVE_CLOCK]
            /\ window' = [window EXCEPT ![p] = SetScatter(@, COLLECTIVE_CLOCK)]
       ELSE UNCHANGED clock_vars
    /\ UNCHANGED <<program, mode, ip, clock, net, got, record_vars, sent, table_vars, fetched,
                   delivered>>

Collective(p, name, others) ==
    /\ pc[p] = "run" /\ Does(p, name)
    /\ PreCollective(p, others)

OfRoot(p) == IF p = Root THEN Rank ELSE {}

MPI_Barrier(p) == Collective(p, "MPI_Barrier", Rank)
MPI_Allreduce(p) == Collective(p, "MPI_Allreduce", Rank)
MPI_Reduce(p) == Collective(p, "MPI_Reduce", OfRoot(p))
MPI_Scan(p) == Collective(p, "MPI_Scan", {q \in Rank : q < p})
MPI_Allgather(p) == Collective(p, "MPI_Allgather", Rank)
MPI_Gatherv(p) == Collective(p, "MPI_Gatherv", OfRoot(p))
MPI_Reduce_scatter(p) == Collective(p, "MPI_Reduce_scatter", Rank)
MPI_Scatterv(p) == Collective(p, "MPI_Scatterv", {Root})
MPI_Allgatherv(p) == Collective(p, "MPI_Allgatherv", Rank)
MPI_Scatter(p) == Collective(p, "MPI_Scatter", {Root})
MPI_Bcast(p) == Collective(p, "MPI_Bcast", {Root})
MPI_Alltoall(p) == Collective(p, "MPI_Alltoall", Rank)
MPI_Gather(p) == Collective(p, "MPI_Gather", OfRoot(p))
MPI_Comm_split(p) == Collective(p, "MPI_Comm_split", Rank)
MPI_Comm_create(p) == Collective(p, "MPI_Comm_create", Rank)

AnyCollective(p) ==
    \/ MPI_Barrier(p) \/ MPI_Allreduce(p) \/ MPI_Reduce(p) \/ MPI_Scan(p)
    \/ MPI_Allgather(p) \/ MPI_Gatherv(p) \/ MPI_Reduce_scatter(p)
    \/ MPI_Scatterv(p) \/ MPI_Allgatherv(p) \/ MPI_Scatter(p) \/ MPI_Bcast(p)
    \/ MPI_Alltoall(p) \/ MPI_Gather(p) \/ MPI_Comm_split(p) \/ MPI_Comm_create(p)

(* record_finalize, replay_finalize: a barrier like the others, and nothing *)
(* after it.                                                                *)
Finalize(p) ==
    /\ pc[p] = "run" /\ ~Running(p)
    /\ PreCollective(p, Rank)

SyncClocks ==
    /\ \A p \in Rank : pc[p] = "collective"
    /\ clock' = ByRank(Max({clock[p] : p \in Rank}))
    /\ pc' = ByRank("synced")
    /\ UNCHANGED <<program, mode, ip, partners, net, got, record_vars, sent, table_vars,
                   clock_vars, fetched, delivered>>

(* set_fd_clock_state(0), and into MPI's collective. *)
Restore(p) ==
    /\ pc[p] = "synced"
    /\ pc' = [pc EXCEPT ![p] = "restored"]
    /\ IF mode = "record" THEN UNCHANGED clock_vars
       ELSE /\ scatter' = [scatter EXCEPT ![p] = saved[p]]
            /\ window' = [window EXCEPT ![p] = SetScatter(@, saved[p])]
            /\ UNCHANGED saved
    /\ UNCHANGED <<program, mode, ip, partners, clock, net, got, record_vars, sent, table_vars,
                   fetched, delivered>>

Met(p) == \A q \in partners[p] : pc[q] # "synced"

LeaveCollective(p) ==
    /\ pc[p] = "restored" /\ Met(p)
    /\ IF ~Running(p) THEN pc' = [pc EXCEPT ![p] = "final"] /\ UNCHANGED ip
       ELSE IF mode = "record" THEN pc' = [pc EXCEPT ![p] = "run"] /\ NextIp(p)
       ELSE pc' = [pc EXCEPT ![p] = "fetch_after"] /\ UNCHANGED ip
    /\ UNCHANGED <<program, mode, partners, clock, net, got, record_vars, sent, table_vars,
                   clock_vars, fetched, delivered>>

(* post_process_collective, in the replay: fetch, progress, bounds, publish. *)
PostCollective(p) ==
    /\ pc[p] = "leave"
    /\ \E probed \in Probed(p) :
             LET x == Progress(p)
             IN  /\ net' = x.net
                 /\ last' = [last EXCEPT ![p] = x.last]
                 /\ count' = [count EXCEPT ![p] = x.count]
                 /\ list' = [list EXCEPT ![p] = x.list]
                 /\ bound' = [bound EXCEPT ![p] = Bounds(p, x, probed)]
    /\ Publish(p, clock[p])
    /\ pc' = [pc EXCEPT ![p] = "run"]
    /\ NextIp(p)
    /\ UNCHANGED <<program, mode, partners, clock, got, record_vars, sent, table, interim,
                   replaying, saved, fetched, delivered>>

-----------------------------------------------------------------------------
Init ==
    /\ program \in Programs
    /\ mode = "record"
    /\ pc = ByRank("run") /\ ip = ByRank(1) /\ partners = ByRank({})
    /\ clock = ByRank(INITIAL_CLOCK)
    /\ net = ByRank(ByRank(<< >>))
    /\ got = ByRank([m \in MatchingSet |-> 0])
    /\ history = ByRank(<< >>)
    /\ sent = ByRank(<< >>) /\ old_sent = ByRank(<< >>)
    /\ table = ByRank(<< >>)
    /\ list = ByRank([m \in MatchingSet |-> << >>])
    /\ bound = ByRank([m \in MatchingSet |-> << >>])
    /\ last = ByRank(ByRank(0))
    /\ count = ByRank(ByRank(0))
    /\ window = ByRank(<< >>)
    /\ fetched = ByRank(ByRank([clock |-> 0, count |-> 0]))
    /\ scatter = ByRank(0) /\ saved = ByRank(0)
    /\ interim = ByRank([m \in MatchingSet |-> 0])
    /\ replaying = ByRank([m \in MatchingSet |-> << >>])
    /\ delivered = ByRank(<< >>)

Done == mode = "replay" /\ Finished /\ UNCHANGED vars

Step(p) ==
    \/ Skip(p) \/ RecordSend(p) \/ RecordCall(p)
    \/ CountSend(p) \/ ReplaySend(p) \/ EnterCall(p) \/ Fetch(p) \/ Pass(p)
    \/ AnyCollective(p) \/ Finalize(p)
    \/ Restore(p) \/ LeaveCollective(p) \/ PostCollective(p)

Next ==
    \/ \E p \in Rank : Step(p)
    \/ \E s, d \in Rank : Land(s, d)
    \/ SyncClocks \/ StartReplay \/ Done

(* What a rank waits for: in the recorded run a message, in both runs the   *)
(* others in a collective.  In the replay it never waits: it loops.         *)
CanGo(p) ==
    CASE pc[p] \in {"collective", "failed", "final"} -> FALSE
      [] pc[p] = "restored" -> Met(p)
      [] pc[p] = "run" ->
            (mode = "record" /\ Does(p, "until") /\ Calls(p)) =>
                \E s \in Rank : FirstOf(net[s][p], Current(p).set) # 0
      [] OTHER -> TRUE

Position == {"run", "counted", "fetch", "torn", "loop", "failed", "collective",
             "synced", "restored", "final", "fetch_after", "torn_after", "leave"}

(* Every step of rank p, and no other, changes these so. *)
GoesOn(p) ==
    /\ CanGo(p)
    /\ \E x \in Position : pc' = [pc EXCEPT ![p] = x]
    /\ ip' \in {ip, [ip EXCEPT ![p] = @ + 1]}
    /\ \E m \in MatchingSet : \E n \in 0..MaxSome : got' = [got EXCEPT ![p][m] = @ + n]

(* Ranks go on, messages come in (there are finitely many), a finished run  *)
(* is replayed.                                                             *)
Fairness ==
    /\ \A p \in Rank : WF_<<pc, ip, got>>(GoesOn(p))
    /\ WF_net(\E s, d \in Rank : Land(s, d))
    /\ WF_pc(SyncClocks)
    /\ WF_mode(mode = "record" /\ Finished /\ mode' = "replay")

Spec == Init /\ [][Next]_vars /\ Fairness

-----------------------------------------------------------------------------
(* Properties.                                                              *)

TypeOK ==
    /\ program \in Programs /\ mode \in {"record", "replay"}
    /\ \A p \in Rank :
          /\ pc[p] \in Position
          /\ ip[p] \in 1..(Len(program[p]) + 1)
          /\ clock[p] >= INITIAL_CLOCK
          /\ scatter[p] \in Nat

Returned(q) ==
    [k \in DOMAIN q |-> <<q[k].set, q[k].flag, q[k].source, q[k].clock, q[k].with_next, q[k].index>>]

(* Every rank gets back from its calls what it got when it was recorded:    *)
(* the same messages by source and clock, in the same order, at the same    *)
(* indices (get_next_events, replay_mf_input).                              *)
ReplayFaithful ==
    \A p \in Rank : IsPrefix(Returned(delivered[p]), Returned(history[p]))

(* A message carries in the replay the clock it carried when it was         *)
(* recorded.                                                                *)
SameClocks == mode = "replay" => \A p \in Rank : IsPrefix(sent[p], old_sent[p])

(* What a rank publishes never exceeds the clock of a message it has still  *)
(* to send (update_local_look_ahead_send_clock, the interim clock).         *)
PublishedHolds ==
    mode = "replay" =>
        \A p \in Rank : \A i \in (Len(sent[p]) + 1)..Len(old_sent[p]) :
            scatter[p] <= old_sent[p][i]

(* What a rank takes for the least clock still to come from another is not  *)
(* above the clock of any message that is under way from it or still to be  *)
(* sent by it (update_local_look_ahead_recv_clock).                         *)
BoundsHold ==
    mode = "replay" =>
        \A p \in Rank : \A m \in MatchingSet : \A s \in pred_ranks(p) :
            /\ \A x \in ToSet(net[s][p]) : bound[p][m][s] <= x.clock
            /\ \A i \in (Len(sent[s]) + 1)..Len(old_sent[s]) : bound[p][m][s] <= old_sent[s][i]

(* Every program that was recorded to its end is replayed to its end.       *)
BothRunsEnd == <>(mode = "replay" /\ Finished)

(* The clocks of the two runs agree message by message.                     *)
ClocksAgree == TypeOK /\ SameClocks
=============================================================================
