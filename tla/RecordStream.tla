----------------------------- MODULE RecordStream ------------------------------
(***************************************************************************)
(* How ReMPI records one MPI process: the application's thread turns every *)
(* receive it posts and every result of a test, wait or probe into an      *)
(* event and pushes it to rempi_event_list, which merges equal results and *)
(* hands the others to the I/O thread through a queue; the I/O thread      *)
(* collects them in a chunk, and encodes and writes the chunk when it is   *)
(* long enough or the list is closed (rempi_recorder.cpp,                  *)
(* rempi_event_list.cpp, rempi_encoder_basic.cpp, rempi_io_thread.cpp).    *)
(*                                                                         *)
(* The event of a receive is pushed when the receive is posted, without    *)
(* its source: the application's thread fills it in when the receive is    *)
(* matched, while the event may be anywhere on its way to the file.        *)
(***************************************************************************)
EXTENDS Naturals, Sequences, SequencesExt

CONSTANTS
  Handles,       \* MPI_Request handles; MPI reuses them
  Sources,       \* the ranks a message can come from
  AnySource,     \* MPI_ANY_SOURCE: the source is not known yet
  Canceled,      \* REMPI_MPI_EVENT_RANK_CANCELED
  None,          \* NULL
  MaxSize,       \* max_size of the event list (10,000,000)
  ChunkLength,   \* rempi_max_event_length (131,072)
  MaxRecvs, MaxTests    \* bounds: receives, and results that complete none

ASSUME RecordStreamNumbers ==
  MaxSize \in Nat /\ ChunkLength \in Nat /\ MaxRecvs \in Nat /\ MaxTests \in Nat

VARIABLES
  mpc,           \* the application's thread
  todo,          \* events it has created and not pushed yet
  active,        \* handles of requests that MPI has not completed or freed
  registered,    \* request_to_recv_args_umap
  recvEvent,     \* request_to_recv_event_umap: the receive event of a handle
  rank,          \* the source in each receive event
  recvs, tests,  \* how many calls of each kind there were
  freed,         \* history: an active receive was freed
  previous,      \* previous_recording_event
  queue,         \* events, the queue between the threads
  closed,        \* is_push_closed
  iopc,          \* the I/O thread
  held,          \* event_dequeued
  chunk,         \* the input_format being filled
  file,          \* the record file
  pushed         \* history: every event, in program order

appVars  == <<mpc, todo, active, registered, recvEvent, rank, recvs, tests, freed,
              pushed>>
listVars == <<previous, queue, closed>>
ioVars   == <<iopc, held, chunk, file>>
vars     == <<appVars, listVars, ioVars>>

\* Events.  A receive event is known by its number, its source is rank[n].  The
\* index of a result is taken to be the same for all, which merges the most.
RecvEvents == [kind : {"recv"}, n : 1..MaxRecvs]
TestEvents == [kind : {"test"}, rank : Sources \cup {None}, next : BOOLEAN]
Events     == RecvEvents \cup TestEvents
Counted    == [event : Events, count : Nat \ {0}]
Written    == [event : Events, count : Nat \ {0},
               rank : Sources \cup {AnySource, Canceled, None}]

Recv(n) == [kind |-> "recv", n |-> n]
Result(r, next) == [kind |-> "test", rank |-> r, next |-> next]
Unmatched == Result(None, FALSE)
Once(e) == [event |-> e, count |-> 1]

\* NULL is neither an event nor the number of one.
ASSUME RecordStreamNone == None \notin Counted /\ None \notin 1..MaxRecvs

TypeOK ==
  /\ mpc \in {"run", "flush", "close", "join", "abort"}
  /\ todo \in Seq(Events)
  /\ registered \subseteq active /\ active \subseteq Handles
  /\ recvEvent \in [Handles -> 1..MaxRecvs \cup {None}]
  /\ rank \in [1..MaxRecvs -> Sources \cup {AnySource, Canceled}]
  /\ recvs \in 0..MaxRecvs /\ tests \in 0..MaxTests
  /\ previous \in Counted \cup {None}
  /\ queue \in Seq(Counted) /\ Len(queue) <= MaxSize
  /\ closed \in BOOLEAN /\ freed \in BOOLEAN
  /\ iopc \in {"fill", "fillwait", "check", "drain", "drainwait", "write",
               "end", "done"}
  /\ held \in Counted \cup {None}
  /\ chunk \in Seq(Counted)
  /\ file \in Seq(Written)
  /\ pushed \in Seq(Events)

Init ==
  /\ mpc = "run" /\ todo = <<>> /\ active = {} /\ registered = {}
  /\ recvEvent = [h \in Handles |-> None]
  /\ rank = [n \in 1..MaxRecvs |-> AnySource]
  /\ recvs = 0 /\ tests = 0 /\ freed = FALSE
  /\ previous = None /\ queue = <<>> /\ closed = FALSE
  /\ iopc = "fill" /\ held = None /\ chunk = <<>> /\ file = <<>>
  /\ pushed = <<>>

-------------------------------------------------------------------------------
\* The application's thread, between two pushes.

Calls == mpc = "run" /\ todo = <<>>

Creates(es) == todo' = es /\ pushed' = pushed \o es

\* record_irecv.  MPI gives the request a handle that is not in use; an event
\* still filed under that handle makes REMPI_ERR stop the program.
Irecv(h) ==
  /\ Calls
  /\ recvs < MaxRecvs
  /\ h \notin active
  /\ active' = active \cup {h}
  /\ registered' = registered \cup {h}
  /\ recvs' = recvs + 1
  /\ Creates(<<Recv(recvs + 1)>>)
  /\ IF recvEvent[h] = None
     THEN /\ recvEvent' = [recvEvent EXCEPT ![h] = recvs + 1]
          /\ UNCHANGED mpc
     ELSE /\ mpc' = "abort"
          /\ UNCHANGED recvEvent
  /\ UNCHANGED <<rank, tests, freed, listVars, ioVars>>

\* record_mf and record_pf without a matched receive: nothing matched (r = None),
\* a send completed or a probe saw a message.
TestOrProbe(r) ==
  /\ Calls
  /\ tests < MaxTests
  /\ tests' = tests + 1
  /\ Creates(<<Result(r, FALSE)>>)
  /\ UNCHANGED <<mpc, active, registered, recvEvent, rank, recvs, freed, listVars, ioVars>>

\* The receive event learns its source and is forgotten.  Mutant _Never: it is
\* not erased from the map.
Forgotten_Never(hs) == recvEvent
Forgotten(hs) == [h \in Handles |-> IF h \in hs THEN None ELSE recvEvent[h]]

\* record_mf that completes the receives hs, in this order, with these sources.
Completion(hs, sources) ==
  /\ Calls
  /\ ToSet(hs) \subseteq registered
  /\ rank' = [n \in 1..MaxRecvs |->
       IF \E i \in DOMAIN hs : recvEvent[hs[i]] = n
       THEN sources[CHOOSE i \in DOMAIN hs : recvEvent[hs[i]] = n]
       ELSE rank[n]]
  /\ active' = active \ ToSet(hs)
  /\ registered' = registered \ ToSet(hs)
  /\ recvEvent' = Forgotten(ToSet(hs))
  /\ Creates([i \in DOMAIN hs |-> Result(sources[i], i < Len(hs))])
  /\ UNCHANGED <<mpc, recvs, tests, freed, listVars, ioVars>>

\* Wait and Test complete one receive, Waitall and Testsome several.
CompleteOne ==
  \E h \in Handles, s \in Sources : Completion(<<h>>, <<s>>)
CompleteTwo ==
  \E h, g \in Handles, s, r \in Sources : h # g /\ Completion(<<h, g>>, <<s, r>>)

\* record_cancel.  ReMPI no longer follows the request; the application still
\* completes it.
Cancel(h) ==
  /\ Calls
  /\ h \in registered
  /\ registered' = registered \ {h}
  /\ rank' = [rank EXCEPT ![recvEvent[h]] = Canceled]
  /\ recvEvent' = Forgotten({h})
  /\ UNCHANGED <<mpc, todo, active, recvs, tests, freed, pushed, listVars, ioVars>>

\* record_mf of a request it does not know (REMPI_IGNR_REQUEST) makes no event.
CompleteCanceled(h) ==
  /\ Calls
  /\ h \in active \ registered
  /\ active' = active \ {h}
  /\ UNCHANGED <<mpc, todo, registered, recvEvent, rank, recvs, tests, freed, pushed,
                 listVars, ioVars>>

\* MPI_Request_free of an active receive: re_request_free deregisters the request;
\* its receive event is left as it is.
RequestFree(h) ==
  /\ Calls
  /\ h \in registered
  /\ registered' = registered \ {h}
  /\ active' = active \ {h}
  /\ freed' = TRUE
  /\ UNCHANGED <<mpc, todo, recvEvent, rank, recvs, tests, pushed, listVars, ioVars>>

\* record_finalize: MPI wants every request completed or freed by now.
Finalize ==
  /\ Calls
  /\ active = {}
  /\ mpc' = "flush"
  /\ UNCHANGED <<todo, active, registered, recvEvent, rank, recvs, tests, freed, pushed,
                 listVars, ioVars>>

-------------------------------------------------------------------------------
\* rempi_event_list.

\* Only results are ever merged.
Same(e, f) == e.kind = "test" /\ e = f

\* operator++ on the previous event.
Merged(p) == [p EXCEPT !.count = @ + 1]

HasRoom == Len(queue) < MaxSize

\* push: the first event waits as previous; an equal one is counted; any other
\* one sends previous into the queue, once there is room.
Push ==
  /\ mpc \in {"run", "abort"}
  /\ todo # <<>>
  /\ todo' = Tail(todo)
  /\ \/ /\ previous = None
        /\ previous' = Once(Head(todo))
        /\ UNCHANGED queue
     \/ /\ previous # None
        /\ Same(previous.event, Head(todo))
        /\ previous' = Merged(previous)
        /\ UNCHANGED queue
     \/ /\ previous # None
        /\ ~Same(previous.event, Head(todo))
        /\ HasRoom
        /\ queue' = Append(queue, previous)
        /\ previous' = Once(Head(todo))
  /\ UNCHANGED <<mpc, active, registered, recvEvent, rank, recvs, tests, freed, pushed,
                 closed, ioVars>>

\* push_all sends the last event into the queue, and after that closes the list.
PushLast ==
  /\ mpc = "flush"
  /\ IF previous = None THEN UNCHANGED <<previous, queue>>
     ELSE /\ HasRoom
          /\ queue' = Append(queue, previous)
          /\ previous' = None
  /\ mpc' = "close"
  /\ UNCHANGED <<todo, active, registered, recvEvent, rank, recvs, tests, freed, pushed,
                 closed, ioVars>>

\* Mutant _Never: push_all leaves the list open.
ClosePush_Never == UNCHANGED closed
ClosePush == closed' = TRUE

Close ==
  /\ mpc = "close"
  /\ ClosePush
  /\ mpc' = "join"
  /\ UNCHANGED <<todo, active, registered, recvEvent, rank, recvs, tests, freed, pushed,
                 previous, queue, ioVars>>

-------------------------------------------------------------------------------
\* The I/O thread: write_record and extract_encoder_input_format_chunk.

\* Mutant _Never: the I/O thread does not wait for the source.
NoSource_Never(c) == FALSE
NoSource(c) == c.event.kind = "recv" /\ rank[c.event.n] = AnySource

\* One turn of a loop that pops events until the queue is empty.
Pop(here, wait, after) ==
  /\ iopc = here
  /\ IF queue = <<>> THEN /\ iopc' = after
                          /\ UNCHANGED <<queue, held>>
     ELSE /\ held' = Head(queue)
          /\ queue' = Tail(queue)
          /\ iopc' = wait
  /\ UNCHANGED <<appVars, previous, closed, chunk, file>>

AddToChunk(next) ==
  /\ chunk' = Append(chunk, held)
  /\ held' = None
  /\ iopc' = next
  /\ UNCHANGED <<appVars, listVars, file>>

\* The first loop waits for the source of a receive unless the list is closed.
Fill == Pop("fill", "fillwait", "check")
FillAdd ==
  /\ iopc = "fillwait"
  /\ ~NoSource(held) \/ closed
  /\ AddToChunk("fill")

Check ==
  /\ iopc = "check"
  /\ iopc' = IF chunk # <<>> /\ (Len(chunk) > ChunkLength \/ closed)
             THEN "drain" ELSE "end"
  /\ UNCHANGED <<appVars, listVars, held, chunk, file>>

\* The second loop waits for the source, closed or not.
Drain == Pop("drain", "drainwait", "write")
DrainAdd ==
  /\ iopc = "drainwait"
  /\ ~NoSource(held)
  /\ AddToChunk("drain")

\* encode copies the events of the chunk as they are now, and frees them.
Encoded(c) ==
  [event |-> c.event, count |-> c.count,
   rank |-> IF c.event.kind = "recv" THEN rank[c.event.n] ELSE c.event.rank]

Write ==
  /\ iopc = "write"
  /\ file' = file \o [i \in DOMAIN chunk |-> Encoded(chunk[i])]
  /\ chunk' = <<>>
  /\ iopc' = "end"
  /\ UNCHANGED <<appVars, listVars, held>>

\* "if the events is empty, we can finish recoding": the chunk is deleted.
EndOrContinue ==
  /\ iopc = "end"
  /\ IF closed /\ queue = <<>> THEN /\ iopc' = "done"
                                    /\ chunk' = <<>>
     ELSE /\ iopc' = "fill"
          /\ UNCHANGED chunk
  /\ UNCHANGED <<appVars, listVars, held, file>>

-------------------------------------------------------------------------------

AppStep ==
  \/ \E h \in Handles : Irecv(h) \/ Cancel(h) \/ CompleteCanceled(h) \/ RequestFree(h)
  \/ \E r \in Sources \cup {None} : TestOrProbe(r)
  \/ CompleteOne \/ CompleteTwo \/ Finalize
  \/ Push \/ PushLast \/ Close

IoStep ==
  \/ Fill \/ FillAdd \/ Check \/ Drain \/ DrainAdd \/ Write \/ EndOrContinue

\* MPI_Finalize returns once the I/O thread has ended (join).
Ended == mpc = "join" /\ iopc = "done" /\ UNCHANGED vars

Next == AppStep \/ IoStep \/ Ended

Spec == Init /\ [][Next]_vars

\* Both threads keep running; the application makes finitely many calls, then
\* calls MPI_Finalize.
FairSpec == Spec /\ WF_vars(AppStep) /\ WF_vars(IoStep)

-------------------------------------------------------------------------------

Unfold(s) == FlattenSeq([i \in DOMAIN s |-> [j \in 1..s[i].count |-> s[i].event]])
AsSeq(c)  == IF c = None THEN <<>> ELSE <<c>>

\* Until the I/O thread ends, no event is lost, repeated, or overtakes another one,
\* and merging forgets nothing: what is written, collected, held, queued and
\* waiting to be pushed is exactly what the application did, in its order.
InOrder ==
  iopc # "done" =>
    Unfold(file) \o Unfold(chunk \o AsSeq(held) \o queue \o AsSeq(previous)) \o todo
      = pushed

\* A receive is written with the source it was matched with.  Its event is freed
\* when it is written, so no event is written that can still be given a source.
SourceKnown ==
  \A i \in DOMAIN file :
    file[i].event.kind = "recv" =>
      /\ file[i].rank = rank[file[i].event.n]
      /\ file[i].rank = AnySource => closed

\* No event is filed under a handle that MPI may give to another request, as
\* long as the application completes or cancels its receives.
HandleForgotten ==
  ~freed => \A h \in Handles : recvEvent[h] # None => h \in active

\* When the I/O thread has ended, the file holds everything.
AllWritten == iopc = "done" => Unfold(file) = pushed

\* MPI_Finalize returns, if the application completes or cancels its receives.
RecordEnds == <>(freed \/ (mpc = "join" /\ iopc = "done"))

\* MPI_Finalize returns, come what may.
FinalizeReturns == <>(mpc = "join" /\ iopc = "done")

\* The stream on its way to the file: complete, in order and with its sources.
StreamInOrder == TypeOK /\ InOrder /\ SourceKnown
===============================================================================
