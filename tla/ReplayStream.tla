------------------------------ MODULE ReplayStream ------------------------------
(***************************************************************************)
(* How ReMPI replays one MPI process (REMPI_ENCODE 0): the I/O thread      *)
(* reads the record file chunk by chunk and enqueues the events; the       *)
(* application's thread dequeues one whenever it calls MPI, and hands out  *)
(* a merged event as often as its count says (rempi_io_thread.cpp,         *)
(* rempi_encoder_basic.cpp, rempi_event_list.cpp, rempi_event.cpp).        *)
(***************************************************************************)
EXTENDS Naturals, Sequences, SequencesExt

CONSTANTS
  RecordedEvents,  \* what there is to record
  File,            \* the record file: chunks of counted events
  ReplayMaxSize,   \* max_size of the event list
  NoEvent          \* NULL

RecordedRuns == [event : RecordedEvents, count : Nat \ {0}]

ASSUME ReplayStreamAssumption ==
  /\ File \in Seq(Seq(RecordedRuns))
  /\ ReplayMaxSize \in Nat \ {0}
  /\ NoEvent \notin RecordedRuns

VARIABLES
  readpc,        \* the I/O thread
  chunks,        \* how many chunks it has read
  left,          \* what it has not yet enqueued of the last one
  created,       \* replay_events has a queue
  replayEvents,  \* that queue
  replayClosed,  \* is_push_closed
  apc,           \* the application's thread, in dequeue_replay
  sawClosed,     \* what it read of is_push_closed
  replaying,     \* previous_replaying_event_umap
  delivered,     \* history: the events returned
  status         \* the status last returned

readVars   == <<readpc, chunks, left, created, replayClosed>>
callVars   == <<apc, sawClosed, replaying, delivered, status>>
replayVars == <<readVars, replayEvents, callVars>>

ReplayTypeOK ==
  /\ readpc \in {"read", "insert", "enqueue", "done"}
  /\ chunks \in 0..Len(File)
  /\ left \in Seq(RecordedRuns)
  /\ created \in BOOLEAN
  /\ replayEvents \in Seq(RecordedRuns) /\ Len(replayEvents) <= ReplayMaxSize
  /\ replayClosed \in BOOLEAN
  /\ apc \in {"call", "dequeue", "pop", "report"}
  /\ sawClosed \in BOOLEAN
  /\ replaying \in RecordedRuns \cup {NoEvent}
  /\ delivered \in Seq(RecordedEvents)
  /\ status \in {"none", "empty", "dequeued", "finish"}

ReplayInit ==
  /\ readpc = "read" /\ chunks = 0 /\ left = <<>> /\ created = FALSE
  /\ replayEvents = <<>> /\ replayClosed = FALSE
  /\ apc = "call" /\ sawClosed = FALSE /\ replaying = NoEvent
  /\ delivered = <<>> /\ status = "none"

-------------------------------------------------------------------------------
\* The I/O thread: read_record_lite.

ReadChunk ==
  /\ readpc = "read"
  /\ chunks < Len(File)
  /\ chunks' = chunks + 1
  /\ left' = File[chunks + 1]
  /\ readpc' = "insert"
  /\ UNCHANGED <<created, replayClosed, replayEvents, callVars>>

\* The end of the file: close_push, after the last enqueue.
CloseList ==
  /\ readpc = "read"
  /\ chunks = Len(File)
  /\ replayClosed' = TRUE
  /\ readpc' = "done"
  /\ UNCHANGED <<chunks, left, created, replayEvents, callVars>>

\* insert_encoder_input_format_chunk: enqueue_replay for each event.  The first
\* one finds no queue and makes it.
Insert ==
  /\ readpc = "insert"
  /\ readpc' = IF left = <<>> THEN "read" ELSE "enqueue"
  /\ created' = (created \/ left # <<>>)
  /\ UNCHANGED <<chunks, left, replayClosed, replayEvents, callVars>>

\* It waits for room.
RoomToReplay == Len(replayEvents) < ReplayMaxSize

EnqueueReplay ==
  /\ readpc = "enqueue"
  /\ RoomToReplay
  /\ replayEvents' = Append(replayEvents, Head(left))
  /\ left' = Tail(left)
  /\ readpc' = "insert"
  /\ UNCHANGED <<chunks, created, replayClosed, callVars>>

-------------------------------------------------------------------------------
\* The application's thread: dequeue_replay.

\* Without a queue the list is "empty".  Else an event that was dequeued before
\* goes first; else is_push_closed is read, before the queue is looked at.
LookUp ==
  /\ apc = "call"
  /\ \/ /\ ~created
        /\ status' = "empty"
        /\ UNCHANGED <<apc, sawClosed>>
     \/ /\ created /\ replaying # NoEvent
        /\ apc' = "pop"
        /\ UNCHANGED <<sawClosed, status>>
     \/ /\ created /\ replaying = NoEvent
        /\ apc' = "dequeue"
        /\ sawClosed' = replayClosed
        /\ UNCHANGED status
  /\ UNCHANGED <<readVars, replayEvents, replaying, delivered>>

Dequeue ==
  /\ apc = "dequeue"
  /\ \/ /\ replayEvents # <<>>
        /\ replaying' = Head(replayEvents)
        /\ replayEvents' = Tail(replayEvents)
        /\ apc' = "pop"
     \/ /\ replayEvents = <<>>
        /\ apc' = "report"
        /\ UNCHANGED <<replaying, replayEvents>>
  /\ UNCHANGED <<readVars, sawClosed, delivered, status>>

\* Which answer an empty queue gives.  Mutant _Late: is_push_closed is read now.
WasClosed_Late == replayClosed
WasClosed == sawClosed

Report ==
  /\ apc = "report"
  /\ status' = IF WasClosed THEN "finish" ELSE "empty"
  /\ apc' = "call"
  /\ UNCHANGED <<readVars, replayEvents, sawClosed, replaying, delivered>>

\* What pop leaves of a merged event.  Mutant _Nothing: it is handed out once.
Rest_Nothing(e) == NoEvent
Rest(e) == IF e.count = 1 THEN NoEvent ELSE [e EXCEPT !.count = @ - 1]

PopReplay ==
  /\ apc = "pop"
  /\ delivered' = Append(delivered, replaying.event)
  /\ replaying' = Rest(replaying)
  /\ status' = "dequeued"
  /\ apc' = "call"
  /\ UNCHANGED <<readVars, replayEvents, sawClosed>>

-------------------------------------------------------------------------------

ReadStep == ReadChunk \/ CloseList \/ Insert \/ EnqueueReplay

\* get_next_events and replay_irecv call until an event is returned, whatever the
\* status; the application then calls MPI again.
CallStep == LookUp \/ Dequeue \/ Report \/ PopReplay

ReplayNext == ReadStep \/ CallStep

ReplaySpec == ReplayInit /\ [][ReplayNext]_replayVars

\* Both threads keep running and the application keeps calling.
FairReplay == ReplaySpec /\ WF_replayVars(ReadStep) /\ WF_replayVars(CallStep)

-------------------------------------------------------------------------------

Repeated(e) == [i \in 1..e.count |-> e.event]
Replayed(s) == FlattenSeq([i \in DOMAIN s |-> Repeated(s[i])])

\* The application gets the recorded run back, whatever the chunks and however
\* events were merged, and is told "finish" at the end of it only.
Stream == INSTANCE EventStream
            WITH Recorded <- Replayed(FlattenSeq(File)),
                 finished <- status = "finish"
StreamSpec == Stream!Spec

\* The whole record is delivered.
AllDelivered == <>(delivered = Replayed(FlattenSeq(File)))
===============================================================================
