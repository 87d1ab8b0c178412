--------------------------- MODULE Streams_proofs ----------------------------
(***************************************************************************)
(* Proofs about the stream of events between an MPI process and its record *)
(* file, in both directions.  First the recording side, for any number of  *)
(* handles, sources, receives and tests, any chunk length and any bound on *)
(* the queue.  Then the replaying side, for every record file, however it  *)
(* is cut into chunks and its events were merged, and any bound on the     *)
(* queue: it gives the application the recorded run back.                  *)
(***************************************************************************)
EXTENDS RecordStream, ReplayStream, SharedLemmas

\* The I/O thread holds an event just while it waits for the event's source.
HeldWhileWaiting == held # None <=> iopc \in {"fillwait", "drainwait"}

\* A receive event that is filed under a handle has no source yet, is filed under
\* no other, and is one of those there have been.
Filed ==
  \A h \in Handles : recvEvent[h] # None =>
    /\ recvEvent[h] <= recvs
    /\ rank[recvEvent[h]] = AnySource
    /\ \A g \in Handles : recvEvent[g] = recvEvent[h] => g = h

\* Receives that have not been posted have no source.
Fresh == \A k \in 1..MaxRecvs : k > recvs => rank[k] = AnySource

\* After the list is closed the application does nothing more.
ClosedLast == closed => mpc = "join"

\* What is in a chunk has its source, unless none will come.
ChunkKnown == \A i \in DOMAIN chunk : NoSource(chunk[i]) => closed

IInv ==
  /\ TypeOK /\ HeldWhileWaiting /\ Filed /\ Fresh /\ ClosedLast /\ ChunkKnown
  /\ InOrder /\ SourceKnown

-------------------------------------------------------------------------------

\* Nothing has happened yet.
LEMMA InitEstablishes == ASSUME Init PROVE IInv
  <1>1. TypeOK
    <2>1. <<>> \in Seq(Events) /\ <<>> \in Seq(Counted) /\ <<>> \in Seq(Written)
      BY EmptySeq
    <2>2. Len(queue) = 0
      BY DEF Init
    <2>3. recvEvent \in [Handles -> 1..MaxRecvs \cup {None}]
          /\ rank \in [1..MaxRecvs -> Sources \cup {AnySource, Canceled}]
      BY DEF Init
    <2>4. /\ todo = <<>> /\ queue = <<>> /\ chunk = <<>> /\ file = <<>> /\ pushed = <<>>
          /\ mpc = "run" /\ iopc = "fill" /\ active = {} /\ registered = {}
          /\ recvs = 0 /\ tests = 0 /\ previous = None /\ held = None
          /\ freed = FALSE /\ closed = FALSE
      BY DEF Init
    <2>5. /\ todo \in Seq(Events) /\ queue \in Seq(Counted) /\ chunk \in Seq(Counted)
          /\ file \in Seq(Written) /\ pushed \in Seq(Events)
      BY <2>1, <2>4, Zenon
    <2>6. recvs \in 0..MaxRecvs /\ tests \in 0..MaxTests /\ Len(queue) <= MaxSize
      BY <2>2, <2>4, RecordStreamNumbers
    <2> QED BY <2>3, <2>4, <2>5, <2>6, Zenon DEF TypeOK
  <1>2. HeldWhileWaiting /\ Filed /\ Fresh /\ ClosedLast /\ ChunkKnown /\ SourceKnown
    BY DEF Init, HeldWhileWaiting, Filed, Fresh, ClosedLast, ChunkKnown, SourceKnown
  <1>3. InOrder
    <2>1. Unfold(<<>>) = <<>>
      BY UnfoldedEmpty DEF Unfold, Unfolded, Copies
    <2>2. <<>> \o <<>> = <<>>
      OBVIOUS
    <2> QED BY <2>1, <2>2 DEF Init, InOrder, AsSeq
  <1> QED BY <1>1, <1>2, <1>3 DEF IInv

\* What the application's thread does to its own data leaves them well formed.
LEMMA CallsType ==
  ASSUME TypeOK,
         \/ \E h \in Handles :
              Irecv(h) \/ Cancel(h) \/ CompleteCanceled(h) \/ RequestFree(h)
         \/ \E r \in Sources \cup {None} : TestOrProbe(r)
         \/ Finalize
  PROVE  TypeOK'
  <1> USE RecordStreamNumbers
  <1>1. ASSUME NEW h \in Handles, Irecv(h) PROVE TypeOK'
    <2>1. Recv(recvs + 1) \in Events
      BY <1>1 DEF TypeOK, Irecv, Events, RecvEvents, Recv
    <2>2. todo' \in Seq(Events) /\ pushed' \in Seq(Events)
      BY <1>1, <2>1 DEF TypeOK, Irecv, Creates
    <2>3. recvs \in 0..MaxRecvs /\ recvs' = recvs + 1 /\ recvs < MaxRecvs
      BY <1>1 DEF TypeOK, Irecv
    <2>4. recvs' \in 0..MaxRecvs /\ recvs + 1 \in 1..MaxRecvs
      BY <2>3
    <2>5. recvEvent' \in [Handles -> 1..MaxRecvs \cup {None}]
      BY <1>1, <2>4 DEF TypeOK, Irecv
    <2> QED BY <1>1, <2>2, <2>4, <2>5 DEF TypeOK, Irecv, listVars, ioVars
  <1>2. ASSUME NEW h \in Handles, Cancel(h) PROVE TypeOK'
    <2>1. rank' \in [1..MaxRecvs -> Sources \cup {AnySource, Canceled}]
      BY <1>2 DEF TypeOK, Cancel
    <2>2. recvEvent' \in [Handles -> 1..MaxRecvs \cup {None}]
      BY <1>2 DEF TypeOK, Cancel, Forgotten
    <2> QED BY <1>2, <2>1, <2>2 DEF TypeOK, Cancel, listVars, ioVars
  <1>3. ASSUME NEW h \in Handles, CompleteCanceled(h) \/ RequestFree(h) PROVE TypeOK'
    BY <1>3 DEF TypeOK, CompleteCanceled, RequestFree, listVars, ioVars
  <1>4. ASSUME NEW r \in Sources \cup {None}, TestOrProbe(r) PROVE TypeOK'
    <2>1. Result(r, FALSE) \in Events
      BY DEF Events, TestEvents, Result
    <2> DEFINE e == Result(r, FALSE)
    <2>2. todo' = <<e>> /\ pushed' = pushed \o <<e>> /\ e \in Events
      BY <1>4, <2>1 DEF TestOrProbe, Creates
    <2> HIDE DEF e
    <2>3. todo' \in Seq(Events) /\ pushed' \in Seq(Events)
      BY <2>2 DEF TypeOK
    <2>4. tests' \in 0..MaxTests
      BY <1>4 DEF TypeOK, TestOrProbe
    <2> QED BY <1>4, <2>3, <2>4 DEF TypeOK, TestOrProbe, listVars, ioVars
  <1>5. CASE Finalize
    BY <1>5 DEF TypeOK, Finalize, listVars, ioVars
  <1> QED BY <1>1, <1>2, <1>3, <1>4, <1>5

\* What a completion is of: some handles, each with a source.
LEMMA CompletionOf ==
  ASSUME CompleteOne \/ CompleteTwo
  PROVE  \E hs \in Seq(Handles), sources \in Seq(Sources) :
           Len(hs) = Len(sources) /\ Completion(hs, sources)
  <1>1. CASE CompleteOne
    <2>1. PICK h \in Handles, s \in Sources : Completion(<<h>>, <<s>>)
      BY <1>1 DEF CompleteOne
    <2>2. <<h>> \in Seq(Handles) /\ <<s>> \in Seq(Sources) /\ Len(<<h>>) = Len(<<s>>)
      OBVIOUS
    <2> QED BY <2>1, <2>2
  <1>2. CASE CompleteTwo
    <2>1. PICK h \in Handles, g \in Handles, s \in Sources, r \in Sources :
            Completion(<<h, g>>, <<s, r>>)
      BY <1>2 DEF CompleteTwo
    <2>2. /\ <<h, g>> \in Seq(Handles) /\ <<s, r>> \in Seq(Sources)
          /\ Len(<<h, g>>) = Len(<<s, r>>)
      OBVIOUS
    <2> QED BY <2>1, <2>2
  <1> QED BY <1>1, <1>2

\* A completion gives sources to events and results to the application.
LEMMA CompletionType ==
  ASSUME TypeOK, NEW hs \in Seq(Handles), NEW sources \in Seq(Sources),
         Len(hs) = Len(sources), Completion(hs, sources)
  PROVE  TypeOK'
  <1>1. rank' \in [1..MaxRecvs -> Sources \cup {AnySource, Canceled}]
    <2> SUFFICES ASSUME NEW k \in 1..MaxRecvs
                 PROVE  rank'[k] \in Sources \cup {AnySource, Canceled}
      BY DEF Completion
    <2>1. CASE \E i \in DOMAIN hs : recvEvent[hs[i]] = k
      <3> DEFINE i == CHOOSE i \in DOMAIN hs : recvEvent[hs[i]] = k
      <3>1. i \in DOMAIN hs
        BY <2>1
      <3>2. rank'[k] = sources[i]
        BY <2>1 DEF Completion
      <3> HIDE DEF i
      <3> QED BY <3>1, <3>2
    <2>2. CASE ~ \E i \in DOMAIN hs : recvEvent[hs[i]] = k
      BY <2>2 DEF Completion, TypeOK
    <2> QED BY <2>1, <2>2
  <1>2. recvEvent' \in [Handles -> 1..MaxRecvs \cup {None}]
    BY DEF TypeOK, Completion, Forgotten
  <1>3. todo' \in Seq(Events) /\ pushed' \in Seq(Events)
    <2> DEFINE es == [i \in DOMAIN hs |-> Result(sources[i], i < Len(hs))]
    <2>1. \A i \in 1..Len(hs) : Result(sources[i], i < Len(hs)) \in Events
      BY DEF Events, TestEvents, Result
    <2>2. es \in Seq(Events)
      BY <2>1
    <2>3. todo' = es /\ pushed' = pushed \o es
      BY DEF Completion, Creates
    <2> HIDE DEF es
    <2> QED BY <2>2, <2>3 DEF TypeOK
  <1>4. registered' \subseteq active'
    BY DEF TypeOK, Completion
  <1> QED BY <1>1, <1>2, <1>3, <1>4 DEF TypeOK, Completion, listVars, ioVars

\* Once e is a counted event.
LEMMA OnceCounted ==
  ASSUME NEW e \in Events
  PROVE  Once(e) \in Counted
  BY DEF Counted, Once

\* The queue has room for one more.
LEMMA QueueGrows ==
  ASSUME TypeOK, HasRoom, previous # None, queue' = Append(queue, previous)
  PROVE  queue' \in Seq(Counted) /\ Len(queue') <= MaxSize
  <1>1. queue \in Seq(Counted) /\ previous \in Counted /\ Len(queue) \in Nat
    BY LenProperties DEF TypeOK
  <1>2. queue' \in Seq(Counted) /\ Len(queue') = Len(queue) + 1
    BY <1>1, AppendProperties
  <1> QED BY <1>1, <1>2, RecordStreamNumbers DEF HasRoom

\* The event list stays well formed.
LEMMA ListType ==
  ASSUME TypeOK, Push \/ PushLast \/ Close
  PROVE  TypeOK'
  <1> USE RecordStreamNumbers, RecordStreamNone
  <1>1. CASE Push
    <2>1. Head(todo) \in Events /\ todo' \in Seq(Events)
      BY <1>1 DEF TypeOK, Push
    <2>2. Once(Head(todo)) \in Counted
      BY <2>1, OnceCounted
    <2>3. ASSUME NEW c \in Counted PROVE Merged(c) \in Counted
      BY DEF Merged, Counted
    <2>4. previous' \in Counted \cup {None}
      BY <1>1, <2>2, <2>3 DEF TypeOK, Push
    <2>5. queue' \in Seq(Counted) /\ Len(queue') <= MaxSize
      <3>1. CASE UNCHANGED queue
        BY <3>1 DEF TypeOK
      <3>2. CASE HasRoom /\ previous # None /\ queue' = Append(queue, previous)
        BY <3>2, QueueGrows
      <3> QED BY <1>1, <3>1, <3>2 DEF Push
    <2> QED BY <1>1, <2>1, <2>4, <2>5 DEF TypeOK, Push, ioVars
  <1>2. CASE PushLast
    <2>1. queue' \in Seq(Counted) /\ Len(queue') <= MaxSize
          /\ previous' \in Counted \cup {None}
      <3>1. CASE UNCHANGED <<previous, queue>>
        BY <3>1 DEF TypeOK
      <3>2. CASE /\ HasRoom /\ previous # None /\ queue' = Append(queue, previous)
                 /\ previous' = None
        BY <3>2, QueueGrows
      <3> QED BY <1>2, <3>1, <3>2 DEF PushLast
    <2> QED BY <1>2, <2>1 DEF TypeOK, PushLast, ioVars
  <1>3. CASE Close
    BY <1>3 DEF TypeOK, Close, ClosePush, ioVars
  <1> QED BY <1>1, <1>2, <1>3

\* The I/O thread's data stay well formed.
LEMMA IoType ==
  ASSUME TypeOK, HeldWhileWaiting, IoStep
  PROVE  TypeOK'
  <1> USE RecordStreamNumbers, RecordStreamNone
  <1>1. CASE Fill \/ Drain
    <2>1. queue' \in Seq(Counted) /\ Len(queue') <= MaxSize
          /\ held' \in Counted \cup {None}
      <3>1. CASE UNCHANGED <<queue, held>>
        BY <3>1 DEF TypeOK
      <3>2. CASE queue # <<>> /\ held' = Head(queue) /\ queue' = Tail(queue)
        <4>1. /\ Head(queue) \in Counted /\ Tail(queue) \in Seq(Counted)
              /\ Len(Tail(queue)) = Len(queue) - 1
          BY <3>2, HeadTailProperties DEF TypeOK
        <4>2. Len(queue) \in Nat
          BY LenProperties DEF TypeOK
        <4> QED BY <3>2, <4>1, <4>2 DEF TypeOK
      <3> QED BY <1>1, <3>1, <3>2 DEF Fill, Drain, Pop
    <2> QED BY <1>1, <2>1 DEF TypeOK, Fill, Drain, Pop, appVars
  <1>2. CASE FillAdd \/ DrainAdd
    <2>1. held \in Counted
      BY <1>2 DEF TypeOK, HeldWhileWaiting, FillAdd, DrainAdd
    <2>2. chunk' \in Seq(Counted)
      <3>1. chunk' = Append(chunk, held) /\ chunk \in Seq(Counted)
        BY <1>2 DEF TypeOK, FillAdd, DrainAdd, AddToChunk
      <3> QED BY <2>1, <3>1, AppendProperties
    <2> QED BY <1>2, <2>2 DEF TypeOK, FillAdd, DrainAdd, AddToChunk, appVars, listVars
  <1>3. CASE Check
    BY <1>3 DEF TypeOK, Check, appVars, listVars
  <1>4. CASE Write
    <2> DEFINE written == [i \in DOMAIN chunk |-> Encoded(chunk[i])]
    <2>1. ASSUME NEW c \in Counted PROVE Encoded(c) \in Written
      BY <2>1 DEF Counted, Written, Encoded, Events, RecvEvents, TestEvents, TypeOK
    <2>2. written \in Seq(Written)
      <3>1. /\ Len(chunk) \in Nat /\ DOMAIN chunk = 1..Len(chunk)
            /\ \A i \in 1..Len(chunk) : chunk[i] \in Counted
        BY LenProperties, ElementOfSeq DEF TypeOK
      <3>2. \A i \in 1..Len(chunk) : Encoded(chunk[i]) \in Written
        BY <2>1, <3>1
      <3> QED BY <3>1, <3>2
    <2>3. file' = file \o written
      BY <1>4 DEF Write
    <2> HIDE DEF written
    <2>4. file' \in Seq(Written)
      BY <2>2, <2>3, ConcatProperties DEF TypeOK
    <2> QED BY <1>4, <2>4 DEF TypeOK, Write, appVars, listVars
  <1>5. CASE EndOrContinue
    BY <1>5 DEF TypeOK, EndOrContinue, appVars, listVars
  <1> QED BY <1>1, <1>2, <1>3, <1>4, <1>5 DEF IoStep

\* Everything keeps its type.
LEMMA TypeStep ==
  ASSUME TypeOK, HeldWhileWaiting, [Next]_vars
  PROVE  TypeOK'
  <1>1. CASE AppStep
    <2>1. CASE CompleteOne \/ CompleteTwo
      BY <2>1, CompletionOf, CompletionType
    <2> QED BY <1>1, <2>1, CallsType, ListType DEF AppStep
  <1>2. CASE IoStep
    BY <1>2, IoType
  <1>3. CASE UNCHANGED vars
    BY <1>3 DEF TypeOK, vars, appVars, listVars, ioVars
  <1> QED BY <1>1, <1>2, <1>3 DEF Next, Ended

-------------------------------------------------------------------------------

\* A receive event changes its source only if it has none, and only while the list
\* is open.
LEMMA Settled ==
  ASSUME IInv, [Next]_vars, NEW k \in 1..MaxRecvs, rank'[k] # rank[k]
  PROVE  rank[k] = AnySource /\ mpc = "run" /\ ~closed
  <1>1. CASE CompleteOne \/ CompleteTwo
    <2>1. PICK hs \in Seq(Handles), sources \in Seq(Sources) : Completion(hs, sources)
      BY <1>1, CompletionOf
    <2>2. PICK i \in DOMAIN hs : recvEvent[hs[i]] = k
      BY <2>1 DEF Completion
    <2>3. hs[i] \in Handles
      BY <2>1, <2>2
    <2>4. rank[k] = AnySource
      BY <2>2, <2>3, RecordStreamNone DEF IInv, Filed
    <2> QED BY <2>1, <2>4 DEF Completion, Calls, IInv, ClosedLast
  <1>2. ASSUME NEW h \in Handles, Cancel(h)
        PROVE  rank[k] = AnySource /\ mpc = "run" /\ ~closed
    <2>1. recvEvent[h] = k
      BY <1>2 DEF IInv, TypeOK, Cancel
    <2>2. rank[k] = AnySource
      BY <2>1, RecordStreamNone DEF IInv, Filed
    <2> QED BY <1>2, <2>2 DEF Cancel, Calls, IInv, ClosedLast
  <1>3. CASE /\ Next
             /\ ~(CompleteOne \/ CompleteTwo \/ \E h \in Handles : Cancel(h))
    <2>1. UNCHANGED rank
      <3>1. CASE IoStep
        BY <3>1 DEF IoStep, Fill, FillAdd, Check, Drain, DrainAdd, Write, EndOrContinue,
           Pop, AddToChunk, appVars
      <3>2. CASE AppStep
        BY <1>3, <3>2 DEF AppStep, Irecv, CompleteCanceled, RequestFree, TestOrProbe,
           Finalize, Push, PushLast, Close
      <3>3. CASE Ended
        BY <3>3 DEF Ended, vars, appVars
      <3> QED BY <1>3, <3>1, <3>2, <3>3 DEF Next
    <2> QED BY <2>1
  <1>4. CASE UNCHANGED vars
    BY <1>4 DEF vars, appVars
  <1> QED BY <1>1, <1>2, <1>3, <1>4

\* The events that a completion does not find under its handles keep their source.
LEMMA CompletionKeeps ==
  ASSUME TypeOK, Filed, NEW hs \in Seq(Handles), NEW sources, Completion(hs, sources),
         NEW h \in Handles, h \notin ToSet(hs), recvEvent[h] # None
  PROVE  recvEvent'[h] = recvEvent[h] /\ rank'[recvEvent[h]] = rank[recvEvent[h]]
  <1>1. recvEvent'[h] = recvEvent[h]
    BY DEF Completion, Forgotten
  <1>2. ~ \E i \in DOMAIN hs : recvEvent[hs[i]] = recvEvent[h]
    <2> SUFFICES ASSUME NEW i \in DOMAIN hs, recvEvent[hs[i]] = recvEvent[h]
                 PROVE  FALSE
      OBVIOUS
    <2>1. hs[i] \in Handles /\ hs[i] \in ToSet(hs)
      BY DEF ToSet
    <2>2. hs[i] = h
      BY <2>1 DEF Filed
    <2> QED BY <2>1, <2>2
  <1>3. recvEvent[h] \in 1..MaxRecvs
    BY DEF TypeOK
  <1> QED BY <1>1, <1>2, <1>3 DEF Completion

\* Each filed event still waits for its source, under one handle.
LEMMA FiledStep ==
  ASSUME IInv, [Next]_vars
  PROVE  Filed' /\ Fresh' /\ ClosedLast'
  <1> USE RecordStreamNumbers, RecordStreamNone
  <1>1. CASE CompleteOne \/ CompleteTwo
    <2>1. PICK hs \in Seq(Handles), sources \in Seq(Sources) : Completion(hs, sources)
      BY <1>1, CompletionOf
    <2>2. recvs' = recvs /\ closed' = closed /\ mpc' = mpc
      BY <2>1 DEF Completion, listVars
    <2>3. \A h \in Handles : recvEvent'[h] # None =>
            h \notin ToSet(hs) /\ recvEvent[h] # None
      BY <2>1 DEF Completion, Forgotten
    <2>4. \A h \in Handles : recvEvent'[h] # None =>
            recvEvent'[h] = recvEvent[h] /\ rank'[recvEvent[h]] = rank[recvEvent[h]]
      BY <2>1, <2>3, CompletionKeeps DEF IInv
    <2>5. Filed'
      BY <2>2, <2>3, <2>4 DEF IInv, Filed
    <2>6. Fresh'
      <3> SUFFICES ASSUME NEW k \in 1..MaxRecvs, k > recvs
                   PROVE  rank'[k] = AnySource
        BY <2>2 DEF Fresh
      <3>1. \A h \in Handles : recvEvent[h] # k
        BY DEF IInv, Filed, TypeOK
      <3>2. \A i \in DOMAIN hs : hs[i] \in Handles
        OBVIOUS
      <3>3. rank'[k] = rank[k]
        BY <2>1, <3>1, <3>2 DEF Completion
      <3> QED BY <3>3 DEF IInv, Fresh
    <2> QED BY <2>2, <2>5, <2>6 DEF IInv, ClosedLast
  <1>2. ASSUME NEW h \in Handles, Irecv(h) PROVE Filed' /\ Fresh' /\ ClosedLast'
    <2>1. recvs \in Nat /\ recvs < MaxRecvs /\ recvs' = recvs + 1 /\ rank' = rank
          /\ ~closed /\ closed' = closed
      BY <1>2 DEF IInv, TypeOK, ClosedLast, Irecv, Calls, listVars
    <2>2. rank[recvs + 1] = AnySource
      BY <2>1 DEF IInv, Fresh
    <2>3. CASE recvEvent[h] = None
      <3>1. recvEvent' = [recvEvent EXCEPT ![h] = recvs + 1]
        BY <1>2, <2>3 DEF Irecv
      <3>2. \A g \in Handles : recvEvent'[g] = IF g = h THEN recvs + 1 ELSE recvEvent[g]
        BY <3>1 DEF IInv, TypeOK
      <3>3. \A g \in Handles : recvEvent[g] # None =>
              recvEvent[g] \in 1..MaxRecvs /\ recvEvent[g] <= recvs
        BY DEF IInv, TypeOK, Filed
      <3>4. Filed'
        BY <2>1, <2>2, <3>2, <3>3 DEF IInv, Filed
      <3> QED BY <2>1, <3>4 DEF IInv, Fresh, ClosedLast
    <2>4. CASE recvEvent[h] # None
      <3>1. recvEvent' = recvEvent
        BY <1>2, <2>4 DEF Irecv
      <3>2. Filed'
        BY <2>1, <3>1 DEF IInv, Filed, TypeOK
      <3> QED BY <2>1, <3>2 DEF IInv, Fresh, ClosedLast
    <2> QED BY <2>3, <2>4
  <1>3. ASSUME NEW h \in Handles, Cancel(h) PROVE Filed' /\ Fresh' /\ ClosedLast'
    <2>1. /\ recvs' = recvs /\ closed' = closed /\ mpc' = mpc
          /\ rank' = [rank EXCEPT ![recvEvent[h]] = Canceled]
          /\ recvEvent' = [g \in Handles |-> IF g = h THEN None ELSE recvEvent[g]]
      BY <1>3 DEF Cancel, Forgotten, listVars
    <2>2. \A k \in 1..MaxRecvs : k # recvEvent[h] => rank'[k] = rank[k]
      BY <2>1 DEF IInv, TypeOK
    <2>3. \A g \in Handles : recvEvent'[g] # None =>
            /\ recvEvent'[g] = recvEvent[g] /\ recvEvent[g] # recvEvent[h]
            /\ recvEvent[g] \in 1..MaxRecvs
      BY <2>1 DEF IInv, Filed, TypeOK
    <2>4. Filed'
      BY <2>1, <2>2, <2>3 DEF IInv, Filed
    <2>5. \A k \in 1..MaxRecvs : k > recvs => k # recvEvent[h]
      BY DEF IInv, Filed, TypeOK
    <2>6. Fresh'
      BY <2>1, <2>2, <2>5 DEF IInv, Fresh
    <2> QED BY <2>1, <2>4, <2>6 DEF IInv, ClosedLast
  <1>4. CASE /\ UNCHANGED <<recvEvent, recvs, rank>>
             /\ \/ closed' = closed /\ (mpc' = mpc \/ mpc # "join")
                \/ mpc' = "join"
    BY <1>4 DEF IInv, Filed, Fresh, ClosedLast
  <1>5. CASE IoStep
    BY <1>4, <1>5 DEF IoStep, Fill, FillAdd, Check, Drain, DrainAdd, Write,
       EndOrContinue, Pop, AddToChunk, appVars, listVars
  <1>6. ASSUME NEW h \in Handles, CompleteCanceled(h) \/ RequestFree(h)
        PROVE  Filed' /\ Fresh' /\ ClosedLast'
    BY <1>4, <1>6 DEF CompleteCanceled, RequestFree, listVars
  <1>7. ASSUME NEW r \in Sources \cup {None}, TestOrProbe(r)
        PROVE  Filed' /\ Fresh' /\ ClosedLast'
    BY <1>4, <1>7 DEF TestOrProbe, listVars
  <1>8. CASE Finalize
    BY <1>8 DEF Finalize, Calls, IInv, Filed, Fresh, ClosedLast, listVars
  <1>9. CASE Push
    BY <1>4, <1>9 DEF Push
  <1>10. CASE PushLast
    BY <1>10 DEF PushLast, IInv, Filed, Fresh, ClosedLast
  <1>11. CASE Close
    BY <1>4, <1>11 DEF Close
  <1>12. CASE UNCHANGED vars
    BY <1>4, <1>12 DEF vars, appVars, listVars
  <1> QED BY <1>1, <1>2, <1>3, <1>5, <1>6, <1>7, <1>8, <1>9, <1>10, <1>11, <1>12
      DEF Next, AppStep, Ended

-------------------------------------------------------------------------------

\* What the I/O thread holds, it waits with.
LEMMA HeldStep ==
  ASSUME IInv, [Next]_vars
  PROVE  HeldWhileWaiting'
  <1>1. CASE Fill \/ Drain
    <2>1. CASE queue = <<>>
      BY <1>1, <2>1 DEF IInv, HeldWhileWaiting, Fill, Drain, Pop
    <2>2. CASE queue # <<>>
      <3>1. Head(queue) \in Counted
        BY <2>2, HeadTailProperties DEF IInv, TypeOK
      <3> QED BY <1>1, <2>2, <3>1, RecordStreamNone DEF HeldWhileWaiting, Fill, Drain, Pop
    <2> QED BY <2>1, <2>2
  <1>2. CASE FillAdd \/ DrainAdd
    BY <1>2 DEF HeldWhileWaiting, FillAdd, DrainAdd, AddToChunk
  <1>3. CASE Check \/ Write \/ EndOrContinue
    BY <1>3 DEF IInv, HeldWhileWaiting, Check, Write, EndOrContinue
  <1>4. CASE UNCHANGED ioVars
    BY <1>4 DEF IInv, HeldWhileWaiting, ioVars
  <1>5. CASE AppStep
    BY <1>4, <1>5 DEF AppStep, Irecv, Cancel, CompleteCanceled, RequestFree, TestOrProbe,
       CompleteOne, CompleteTwo, Completion, Finalize, Push, PushLast, Close
  <1> QED BY <1>1, <1>2, <1>3, <1>4, <1>5 DEF Next, IoStep, Ended, vars

\* After the step, an event without a source.
NoSourceNext(c) == c.event.kind = "recv" /\ rank'[c.event.n] = AnySource

\* What has its source keeps it, and while the list is open nothing loses it.
LEMMA SourceStays ==
  ASSUME IInv, [Next]_vars, NEW c \in Counted, NoSourceNext(c)
  PROVE  NoSource(c)
  <1>1. c.event.n \in 1..MaxRecvs
    BY DEF NoSourceNext, Counted, Events, RecvEvents, TestEvents
  <1> QED BY <1>1, Settled DEF NoSource, NoSourceNext

\* The list is not opened again.
LEMMA StaysClosed ==
  ASSUME IInv, [Next]_vars, closed
  PROVE  closed'
  <1>1. CASE IoStep \/ Ended \/ UNCHANGED vars
    BY <1>1 DEF IoStep, Fill, FillAdd, Check, Drain, DrainAdd, Write, EndOrContinue, Pop,
       AddToChunk, Ended, vars, listVars
  <1>2. CASE AppStep
    BY <1>2 DEF AppStep, Irecv, Cancel, CompleteCanceled, RequestFree, TestOrProbe,
       CompleteOne, CompleteTwo, Completion, Finalize, Push, PushLast, Close, ClosePush,
       listVars
  <1> QED BY <1>1, <1>2 DEF Next

\* The chunk is filled with events that have their source.
LEMMA ChunkStep ==
  ASSUME IInv, [Next]_vars
  PROVE  ChunkKnown'
  <1>1. chunk \in Seq(Counted) /\ Len(chunk) \in Nat /\ DOMAIN chunk = 1..Len(chunk)
        /\ \A i \in 1..Len(chunk) : chunk[i] \in Counted
    BY LenProperties, ElementOfSeq DEF IInv, TypeOK
  <1>2. CASE FillAdd \/ DrainAdd
    <2>1. held \in Counted /\ chunk' = Append(chunk, held)
      BY <1>2 DEF IInv, TypeOK, HeldWhileWaiting, FillAdd, DrainAdd, AddToChunk
    <2>2. /\ chunk' \in Seq(Counted) /\ Len(chunk') = Len(chunk) + 1
          /\ \A i \in 1..Len(chunk) : chunk'[i] = chunk[i]
          /\ chunk'[Len(chunk) + 1] = held
      BY <1>1, <2>1, AppendProperties
    <2>3. DOMAIN chunk' = 1..(Len(chunk) + 1)
      BY <2>2, LenProperties
    <2>4. ASSUME NEW i \in DOMAIN chunk', NoSourceNext(chunk'[i])
          PROVE  closed'
      <3>1. CASE i \in 1..Len(chunk)
        <4>1. chunk'[i] = chunk[i] /\ chunk[i] \in Counted
          BY <1>1, <2>2, <3>1
        <4>2. NoSource(chunk[i])
          BY <2>4, <4>1, SourceStays
        <4> QED BY <1>1, <3>1, <4>2, StaysClosed DEF IInv, ChunkKnown
      <3>2. CASE i = Len(chunk) + 1
        <4>1. NoSource(held)
          BY <2>1, <2>2, <2>4, <3>2, SourceStays
        <4>2. closed
          BY <1>2, <4>1 DEF FillAdd, DrainAdd
        <4> QED BY <4>2, StaysClosed
      <3> QED BY <1>1, <2>3, <3>1, <3>2
    <2> QED BY <2>4 DEF ChunkKnown, NoSource, NoSourceNext
  <1>3. CASE chunk' = chunk
    <2>1. ASSUME NEW i \in DOMAIN chunk, NoSourceNext(chunk[i])
          PROVE  closed'
      <3>1. chunk[i] \in Counted /\ chunk'[i] = chunk[i]
        BY <1>1, <1>3
      <3>2. NoSource(chunk[i])
        BY <2>1, <3>1, SourceStays
      <3> QED BY <3>2, StaysClosed DEF IInv, ChunkKnown
    <2> QED BY <1>3, <2>1 DEF ChunkKnown, NoSource, NoSourceNext
  <1>4. CASE chunk' = <<>>
    BY <1>4 DEF ChunkKnown
  <1>5. CASE Fill \/ Drain \/ Check \/ Write \/ EndOrContinue
    BY <1>3, <1>4, <1>5 DEF Fill, Drain, Pop, Check, Write, EndOrContinue
  <1>6. CASE AppStep
    BY <1>3, <1>6 DEF AppStep, Irecv, Cancel, CompleteCanceled, RequestFree, TestOrProbe,
       CompleteOne, CompleteTwo, Completion, Finalize, Push, PushLast, Close, ioVars
  <1>7. CASE UNCHANGED vars
    BY <1>3, <1>7 DEF vars, ioVars
  <1> QED BY <1>2, <1>5, <1>6, <1>7 DEF Next, IoStep, Ended

\* What is in the file keeps being what the receives were matched with.
LEMMA FileStep ==
  ASSUME IInv, [Next]_vars
  PROVE  SourceKnown'
  <1>1. file \in Seq(Written) /\ Len(file) \in Nat /\ DOMAIN file = 1..Len(file)
        /\ \A i \in 1..Len(file) : file[i] \in Written
    BY LenProperties, ElementOfSeq DEF IInv, TypeOK
  <1>2. ASSUME NEW w \in Written, w.event.kind = "recv", w.rank = rank[w.event.n],
               w.rank = AnySource => closed
        PROVE  w.rank = rank'[w.event.n] /\ (w.rank = AnySource => closed')
    <2>1. w.event.n \in 1..MaxRecvs
      BY <1>2 DEF Written, Events, RecvEvents, TestEvents
    <2>2. rank'[w.event.n] = rank[w.event.n]
      BY <1>2, <2>1, Settled
    <2> QED BY <1>2, <2>2, StaysClosed
  <1>3. CASE Write
    <2> DEFINE written == [i \in DOMAIN chunk |-> Encoded(chunk[i])]
    <2>1. /\ Len(chunk) \in Nat /\ DOMAIN chunk = 1..Len(chunk)
          /\ \A i \in 1..Len(chunk) : chunk[i] \in Counted
      BY LenProperties, ElementOfSeq DEF IInv, TypeOK
    <2>2. ASSUME NEW c \in Counted PROVE Encoded(c) \in Written
      BY <2>2 DEF Counted, Written, Encoded, Events, RecvEvents, TestEvents, IInv, TypeOK
    <2>3. written \in Seq(Written) /\ Len(written) = Len(chunk)
      BY <2>1, <2>2
    <2>4. file' = file \o written
      BY <1>3 DEF Write
    <2>5. ASSUME NEW i \in 1..Len(chunk), written[i].event.kind = "recv"
          PROVE  /\ written[i].rank = rank[written[i].event.n]
                 /\ written[i].rank = AnySource => closed
      <3>1. /\ written[i].event = chunk[i].event
            /\ written[i].rank = rank[chunk[i].event.n]
        BY <2>1, <2>5 DEF Encoded
      <3> QED BY <2>1, <2>5, <3>1 DEF IInv, ChunkKnown, NoSource
    <2> HIDE DEF written
    <2>6. /\ file' \in Seq(Written) /\ Len(file') = Len(file) + Len(chunk)
          /\ \A i \in 1..(Len(file) + Len(chunk)) :
                file'[i] = IF i <= Len(file) THEN file[i] ELSE written[i - Len(file)]
      <3>1. /\ file \o written \in Seq(Written)
            /\ Len(file \o written) = Len(file) + Len(written)
            /\ \A i \in 1..(Len(file) + Len(written)) : (file \o written)[i] =
                  IF i <= Len(file) THEN file[i] ELSE written[i - Len(file)]
        BY <1>1, <2>3, ConcatProperties
      <3> QED BY <2>3, <2>4, <3>1, Zenon
    <2>7. DOMAIN file' = 1..(Len(file) + Len(chunk))
      BY <2>6, LenProperties
    <2>8. ASSUME NEW i \in 1..(Len(file) + Len(chunk)), file'[i].event.kind = "recv"
          PROVE  /\ file'[i].rank = rank'[file'[i].event.n]
                 /\ file'[i].rank = AnySource => closed'
      <3>1. CASE i <= Len(file)
        <4>1. file'[i] = file[i] /\ i \in DOMAIN file /\ file[i] \in Written
          BY <1>1, <2>1, <2>6, <3>1
        <4> QED BY <1>2, <2>8, <4>1 DEF IInv, SourceKnown
      <3>2. CASE i > Len(file)
        <4>1. i - Len(file) \in 1..Len(chunk) /\ file'[i] = written[i - Len(file)]
          BY <1>1, <2>1, <2>6, <3>2
        <4>2. written[i - Len(file)] \in Written
          BY <2>3, <4>1, ElementOfSeq
        <4> QED BY <1>2, <2>5, <2>8, <4>1, <4>2
      <3> QED BY <1>1, <2>1, <3>1, <3>2
    <2> QED BY <2>7, <2>8 DEF SourceKnown
  <1>4. CASE file' = file
    <2>1. ASSUME NEW i \in DOMAIN file, file[i].event.kind = "recv"
          PROVE  /\ file[i].rank = rank'[file[i].event.n]
                 /\ file[i].rank = AnySource => closed'
      BY <1>1, <1>2, <2>1 DEF IInv, SourceKnown
    <2> QED BY <1>4, <2>1 DEF SourceKnown
  <1>5. CASE IoStep /\ ~Write
    BY <1>4, <1>5 DEF IoStep, Fill, Drain, Pop, FillAdd, DrainAdd, AddToChunk, Check,
       EndOrContinue
  <1>6. CASE AppStep
    BY <1>4, <1>6 DEF AppStep, Irecv, Cancel, CompleteCanceled, RequestFree, TestOrProbe,
       CompleteOne, CompleteTwo, Completion, Finalize, Push, PushLast, Close, ioVars
  <1>7. CASE UNCHANGED vars
    BY <1>4, <1>7 DEF vars, ioVars
  <1> QED BY <1>3, <1>5, <1>6, <1>7 DEF Next, Ended

-------------------------------------------------------------------------------

\* Events, and counted events, may be put together in any way.
LEMMA Together ==
  /\ \A x, y, z \in Seq(Events) : x \o y \o z = x \o (y \o z)
  /\ \A x, y, z \in Seq(Counted) : x \o y \o z = x \o (y \o z)
  <1>1. \A x, y, z \in Seq(Events) : x \o y \o z = x \o (y \o z)
    BY ConcatAssociative, SMTT(30)
  <1>2. \A x, y, z \in Seq(Counted) : x \o y \o z = x \o (y \o z)
    BY ConcatAssociative, SMTT(30)
  <1> QED BY <1>1, <1>2

\* What has been pushed and is not in the file.
Pushing == chunk \o AsSeq(held) \o queue \o AsSeq(previous)

\* Counted events are made of events, in memory and in the file.
LEMMA EventsCounted == CountedOf(Counted, Events) /\ CountedOf(Written, Events)
  BY DEF CountedOf, Counted, Written

\* Unfold is the operator that the lemmas are about.
LEMMA UnfoldIs == \A s : Unfold(s) = Unfolded(s)
  BY DEF Unfold, Unfolded, Copies

\* Unfolding is done part by part, in memory and in the file.
LEMMA UnfoldParts ==
  /\ \A a, b \in Seq(Counted) :
        Unfold(a) \in Seq(Events) /\ Unfold(a \o b) = Unfold(a) \o Unfold(b)
  /\ \A a, b \in Seq(Written) :
        Unfold(a) \in Seq(Events) /\ Unfold(a \o b) = Unfold(a) \o Unfold(b)
  <1>1. ASSUME NEW a \in Seq(Counted), NEW b \in Seq(Counted)
        PROVE  Unfolded(a) \in Seq(Events) /\ Unfolded(a \o b) = Unfolded(a) \o Unfolded(b)
    BY EventsCounted, UnfoldedConcat
  <1>2. ASSUME NEW a \in Seq(Written), NEW b \in Seq(Written)
        PROVE  Unfolded(a) \in Seq(Events) /\ Unfolded(a \o b) = Unfolded(a) \o Unfolded(b)
    BY EventsCounted, UnfoldedConcat
  <1> QED BY <1>1, <1>2, UnfoldIs, Zenon

\* The parts of what has been pushed are sequences of counted events.
LEMMA PartsAre ==
  ASSUME TypeOK
  PROVE  /\ chunk \in Seq(Counted) /\ queue \in Seq(Counted)
         /\ AsSeq(held) \in Seq(Counted) /\ AsSeq(previous) \in Seq(Counted)
         /\ chunk \o AsSeq(held) \in Seq(Counted)
         /\ chunk \o AsSeq(held) \o queue \in Seq(Counted)
         /\ Pushing \in Seq(Counted)
         /\ file \in Seq(Written)
         /\ Unfold(file) \in Seq(Events)
         /\ Unfold(Pushing) \in Seq(Events)
  <1>1. /\ chunk \in Seq(Counted) /\ queue \in Seq(Counted) /\ file \in Seq(Written)
        /\ AsSeq(held) \in Seq(Counted) /\ AsSeq(previous) \in Seq(Counted)
    <2>1. ASSUME NEW c \in Counted \cup {None} PROVE AsSeq(c) \in Seq(Counted)
      <3>1. CASE c = None
        BY <3>1, EmptySeq DEF AsSeq
      <3>2. CASE c # None
        BY <3>2 DEF AsSeq
      <3> QED BY <3>1, <3>2
    <2> QED BY <2>1 DEF TypeOK
  <1>2. chunk \o AsSeq(held) \in Seq(Counted)
    BY <1>1, ConcatProperties
  <1>3. chunk \o AsSeq(held) \o queue \in Seq(Counted)
    BY <1>1, <1>2, ConcatProperties
  <1>4. Pushing \in Seq(Counted)
    BY <1>1, <1>3, ConcatProperties DEF Pushing
  <1>5. Unfold(file) \in Seq(Events) /\ Unfold(Pushing) \in Seq(Events)
    BY <1>1, <1>4, EventsCounted, UnfoldIs, UnfoldedConcat
  <1> QED BY <1>1, <1>2, <1>3, <1>4, <1>5

\* A step that takes the events on their way a bit further keeps their order.
LEMMA SameOrder ==
  ASSUME InOrder, iopc' # "done" => iopc # "done",
         Pushing' = Pushing, UNCHANGED <<file, todo, pushed>>
  PROVE  InOrder'
  BY DEF InOrder, Pushing

\* The I/O thread takes an event from the queue.
LEMMA PopKeepsOrder ==
  ASSUME IInv, Fill \/ Drain
  PROVE  InOrder'
  <1>1. /\ UNCHANGED <<file, todo, pushed, previous, chunk>> /\ held = None
        /\ iopc # "done"
    BY DEF Fill, Drain, Pop, appVars, IInv, HeldWhileWaiting
  <1>2. CASE queue = <<>>
    BY <1>1, <1>2, SameOrder DEF IInv, Fill, Drain, Pop, Pushing
  <1>3. CASE queue # <<>>
    <2> DEFINE h == <<Head(queue)>>
               t == Tail(queue)
               p == AsSeq(previous)
    <2>1. held' = Head(queue) /\ queue' = t
      BY <1>3 DEF Fill, Drain, Pop
    <2>2. Head(queue) \in Counted /\ t \in Seq(Counted)
      BY <1>3, HeadTailProperties DEF IInv, TypeOK
    <2>3. h \in Seq(Counted) /\ queue = h \o t /\ chunk \in Seq(Counted)
      BY <1>3, FirstAndOthers DEF IInv, TypeOK
    <2>4. AsSeq(held') = h /\ AsSeq(held) = <<>>
      BY <1>1, <2>1, <2>2, RecordStreamNone DEF AsSeq
    <2> HIDE DEF h, t
    <2>5. chunk \o h \o t = chunk \o (h \o t)
      BY <2>2, <2>3, Together, Zenon
    <2>6. chunk \o <<>> = chunk
      BY <2>3, ConcatEmptySeq
    <2>7. Pushing = chunk \o queue \o p /\ Pushing' = chunk \o h \o t \o p
      BY <1>1, <2>1, <2>4, <2>6 DEF Pushing
    <2>8. Pushing' = Pushing
      BY <2>3, <2>5, <2>7
    <2> QED BY <1>1, <2>8, SameOrder DEF IInv
  <1> QED BY <1>2, <1>3

\* It puts the event it holds into the chunk.
LEMMA AddKeepsOrder ==
  ASSUME IInv, FillAdd \/ DrainAdd
  PROVE  InOrder'
  <1>1. /\ UNCHANGED <<file, todo, pushed, previous, queue>> /\ held' = None
        /\ chunk' = Append(chunk, held) /\ iopc # "done"
    BY DEF FillAdd, DrainAdd, AddToChunk, appVars, listVars
  <1>2. held \in Counted /\ chunk \in Seq(Counted)
    BY DEF FillAdd, DrainAdd, IInv, TypeOK, HeldWhileWaiting
  <1>3. AsSeq(held) = <<held>> /\ AsSeq(held') = <<>>
    BY <1>1, <1>2, RecordStreamNone DEF AsSeq
  <1>4. Append(chunk, held) \o <<>> = chunk \o <<held>>
    <2>1. Append(chunk, held) \in Seq(Counted) /\ Append(chunk, held) = chunk \o <<held>>
      BY <1>2, AppendProperties, AppendIsConcat
    <2> QED BY <2>1, ConcatEmptySeq
  <1>5. Pushing' = Pushing
    BY <1>1, <1>3, <1>4 DEF Pushing
  <1> QED BY <1>1, <1>5, SameOrder DEF IInv

\* Encoding a chunk copies its events and their counts.
LEMMA EncodedUnfolds ==
  ASSUME TypeOK, NEW written, written = [i \in DOMAIN chunk |-> Encoded(chunk[i])]
  PROVE  written \in Seq(Written) /\ Unfold(written) = Unfold(chunk)
  <1>1. /\ Len(chunk) \in Nat /\ DOMAIN chunk = 1..Len(chunk)
        /\ \A i \in 1..Len(chunk) : chunk[i] \in Counted
    BY LenProperties, ElementOfSeq DEF TypeOK
  <1>2. ASSUME NEW c \in Counted
        PROVE  /\ Encoded(c) \in Written
               /\ Encoded(c).event = c.event /\ Encoded(c).count = c.count
    BY <1>2 DEF Counted, Written, Encoded, Events, RecvEvents, TestEvents, TypeOK
  <1>3. written \in Seq(Written)
    BY <1>1, <1>2
  <1>4. DOMAIN written = DOMAIN chunk
    OBVIOUS
  <1>5. \A i \in DOMAIN chunk :
          written[i].event = chunk[i].event /\ written[i].count = chunk[i].count
    BY <1>1, <1>2
  <1>6. [i \in DOMAIN written |-> [j \in 1..written[i].count |-> written[i].event]]
          = [i \in DOMAIN chunk |-> [j \in 1..chunk[i].count |-> chunk[i].event]]
    BY <1>4, <1>5
  <1> QED BY <1>3, <1>6 DEF Unfold

\* It writes the chunk.
LEMMA WriteKeepsOrder ==
  ASSUME IInv, Write
  PROVE  InOrder'
  <1> DEFINE written == [i \in DOMAIN chunk |-> Encoded(chunk[i])]
             r == queue \o AsSeq(previous)
  <1>1. /\ file' = file \o written /\ chunk' = <<>> /\ iopc # "done"
        /\ UNCHANGED <<todo, pushed, previous, queue, held>> /\ held = None
    BY DEF Write, appVars, listVars, IInv, HeldWhileWaiting
  <1>2. written \in Seq(Written) /\ Unfold(written) = Unfold(chunk)
    BY EncodedUnfolds DEF IInv
  <1> HIDE DEF written
  <1>3. /\ chunk \in Seq(Counted) /\ queue \in Seq(Counted)
        /\ AsSeq(previous) \in Seq(Counted) /\ file \in Seq(Written)
    BY PartsAre DEF IInv
  <1>4. r \in Seq(Counted) /\ AsSeq(held) = <<>>
    BY <1>1, <1>3, ConcatProperties DEF AsSeq
  <1>5. Pushing = chunk \o r
    <2>1. chunk \o <<>> = chunk
      BY <1>3, ConcatEmptySeq
    <2>2. chunk \o queue \o AsSeq(previous) = chunk \o r
      BY <1>3, ConcatAssociative
    <2> QED BY <1>4, <2>1, <2>2 DEF Pushing
  <1>6. Pushing' = r
    <2>1. Pushing' = (<<>> \o <<>>) \o queue \o AsSeq(previous)
      BY <1>1, <1>4 DEF Pushing
    <2>2. <<>> \o <<>> = <<>> /\ <<>> \o queue = queue
      BY <1>3, EmptySeq, ConcatEmptySeq
    <2> QED BY <2>1, <2>2
  <1> HIDE DEF r
  <1>7. /\ Unfold(file') = Unfold(file) \o Unfold(chunk)
        /\ Unfold(file) \in Seq(Events) /\ Unfold(chunk) \in Seq(Events)
        /\ Unfold(r) \in Seq(Events)
        /\ Unfold(Pushing) = Unfold(chunk) \o Unfold(r)
    <2>1. Unfold(file \o written) = Unfold(file) \o Unfold(written)
          /\ Unfold(file) \in Seq(Events)
      BY <1>2, <1>3, UnfoldParts
    <2>2. Unfold(chunk \o r) = Unfold(chunk) \o Unfold(r)
          /\ Unfold(chunk) \in Seq(Events)
      BY <1>3, <1>4, UnfoldParts
    <2>3. Unfold(r) \in Seq(Events)
      BY <1>4, UnfoldParts
    <2> QED BY <1>1, <1>2, <1>5, <2>1, <2>2, <2>3
  <1>8. Unfold(file) \o Unfold(chunk) \o Unfold(r)
          = Unfold(file) \o (Unfold(chunk) \o Unfold(r))
    BY <1>7, ConcatAssociative
  <1>9. Unfold(file') \o Unfold(Pushing') = Unfold(file) \o Unfold(Pushing)
    BY <1>6, <1>7, <1>8
  <1>10. Unfold(file) \o Unfold(Pushing) \o todo = pushed
    BY <1>1 DEF IInv, InOrder, Pushing
  <1>11. Unfold(file') \o Unfold(Pushing') \o todo' = pushed'
    BY <1>1, <1>9, <1>10
  <1> QED BY <1>11 DEF InOrder, Pushing

\* What the I/O thread does besides does not touch an event, until it ends.
LEMMA IoKeepsOrder ==
  ASSUME IInv, IoStep
  PROVE  InOrder'
  <1>1. CASE Check \/ EndOrContinue
    <2>1. /\ UNCHANGED <<file, todo, pushed, previous, queue, held>> /\ iopc # "done"
          /\ iopc' # "done" => chunk' = chunk
      BY <1>1 DEF Check, EndOrContinue, appVars, listVars
    <2>2. CASE iopc' = "done"
      BY <2>2 DEF InOrder
    <2>3. CASE iopc' # "done"
      BY <2>1, <2>3, SameOrder DEF IInv, Pushing
    <2> QED BY <2>2, <2>3
  <1> QED BY <1>1, PopKeepsOrder, AddKeepsOrder, WriteKeepsOrder DEF IoStep

\* The application creates events when it has pushed those before.
LEMMA CreatesKeepsOrder ==
  ASSUME IInv, NEW es \in Seq(Events), todo = <<>>, Creates(es),
         UNCHANGED <<listVars, ioVars>>
  PROVE  InOrder'
  <1>1. CASE iopc = "done"
    BY <1>1 DEF InOrder, ioVars
  <1>2. CASE iopc # "done"
    <2> DEFINE w == Unfold(file) \o Unfold(Pushing)
    <2>1. w \in Seq(Events)
      BY PartsAre, ConcatProperties DEF IInv
    <2>2. w \o todo = pushed
      BY <1>2 DEF IInv, InOrder, Pushing
    <2>3. Unfold(file') = Unfold(file) /\ Unfold(Pushing') = Unfold(Pushing)
      BY DEF listVars, ioVars, Pushing
    <2> HIDE DEF w
    <2>4. pushed = w
      BY <2>1, <2>2, ConcatEmptySeq
    <2>5. pushed' = w \o todo'
      BY <2>4 DEF Creates
    <2> QED BY <2>3, <2>5 DEF InOrder, Pushing, w
  <1> QED BY <1>1, <1>2

\* The application's calls create events or leave them alone.
LEMMA CallsKeepOrder ==
  ASSUME IInv,
         \/ \E h \in Handles :
              Irecv(h) \/ Cancel(h) \/ CompleteCanceled(h) \/ RequestFree(h)
         \/ \E r \in Sources \cup {None} : TestOrProbe(r)
         \/ CompleteOne \/ CompleteTwo \/ Finalize \/ Close \/ UNCHANGED vars
  PROVE  InOrder'
  <1> USE RecordStreamNumbers
  <1>1. ASSUME NEW h \in Handles, Irecv(h) PROVE InOrder'
    <2>1. Recv(recvs + 1) \in Events
      BY <1>1 DEF IInv, TypeOK, Irecv, Events, RecvEvents, Recv
    <2> DEFINE es == <<Recv(recvs + 1)>>
    <2>2. es \in Seq(Events)
      BY <2>1
    <2>3. /\ Creates(es) /\ todo = <<>>
          /\ UNCHANGED <<listVars, ioVars>>
      BY <1>1 DEF Irecv, Calls
    <2> HIDE DEF es
    <2> QED BY <2>2, <2>3, CreatesKeepsOrder
  <1>2. ASSUME NEW r \in Sources \cup {None}, TestOrProbe(r) PROVE InOrder'
    <2> DEFINE e  == Result(r, FALSE)
               es == <<e>>
    <2>1. e \in Events
      BY DEF Events, TestEvents, Result
    <2>2. es \in Seq(Events)
      <3> HIDE DEF e
      <3> QED BY <2>1
    <2>3. Creates(es) /\ todo = <<>> /\ UNCHANGED <<listVars, ioVars>>
      BY <1>2 DEF TestOrProbe, Calls
    <2> HIDE DEF es
    <2> QED BY <2>2, <2>3, CreatesKeepsOrder
  <1>3. CASE CompleteOne \/ CompleteTwo
    <2>1. PICK hs \in Seq(Handles), sources \in Seq(Sources) :
            Len(hs) = Len(sources) /\ Completion(hs, sources)
      BY <1>3, CompletionOf
    <2> DEFINE es == [i \in DOMAIN hs |-> Result(sources[i], i < Len(hs))]
    <2>2. \A i \in 1..Len(hs) : Result(sources[i], i < Len(hs)) \in Events
      BY <2>1 DEF Events, TestEvents, Result
    <2>3. es \in Seq(Events)
      BY <2>2
    <2>4. Creates(es) /\ todo = <<>> /\ UNCHANGED <<listVars, ioVars>>
      BY <2>1 DEF Completion, Calls
    <2> HIDE DEF es
    <2> QED BY <2>3, <2>4, CreatesKeepsOrder
  <1>4. CASE UNCHANGED <<todo, pushed, previous, queue, ioVars>>
    BY <1>4, SameOrder DEF IInv, Pushing, ioVars
  <1>5. ASSUME NEW h \in Handles, Cancel(h) \/ CompleteCanceled(h) \/ RequestFree(h)
        PROVE  InOrder'
    BY <1>4, <1>5 DEF Cancel, CompleteCanceled, RequestFree, listVars
  <1>6. CASE Finalize \/ Close \/ UNCHANGED vars
    BY <1>4, <1>6 DEF Finalize, Close, vars, appVars, listVars
  <1> QED BY <1>1, <1>2, <1>3, <1>5, <1>6

\* An event that goes from the application to the list comes last there.
LEMMA GrownKeepsOrder ==
  ASSUME IInv, TypeOK', todo # <<>>, todo' = Tail(todo),
         UNCHANGED <<file, pushed, iopc>>,
         Unfold(Pushing') = Unfold(Pushing) \o <<Head(todo)>>
  PROVE  InOrder'
  <1> DEFINE f == Unfold(file)
             b == Unfold(Pushing)
             e == <<Head(todo)>>
  <1>1. CASE iopc = "done"
    BY <1>1 DEF InOrder
  <1>2. CASE iopc # "done"
    <2>1. f \in Seq(Events) /\ b \in Seq(Events)
      BY PartsAre DEF IInv
    <2>2. e \in Seq(Events) /\ Tail(todo) \in Seq(Events) /\ todo = e \o Tail(todo)
      BY FirstAndOthers DEF IInv, TypeOK
    <2>3. f \o b \o todo = pushed
      BY <1>2 DEF IInv, InOrder, Pushing
    <2>4. Unfold(file') = f /\ Unfold(Pushing') = b \o e
      OBVIOUS
    <2> HIDE DEF f, b, e
    <2>5. (f \o b) \o (e \o Tail(todo)) = ((f \o b) \o e) \o Tail(todo)
      <3> DEFINE w == f \o b
                 t == Tail(todo)
      <3>1. w \in Seq(Events) /\ t \in Seq(Events)
        BY <2>1, <2>2, ConcatProperties
      <3> HIDE DEF w, t
      <3>2. e \in Seq(Events)
        BY <2>2
      <3>3. w \o (e \o t) = (w \o e) \o t
        BY <3>1, <3>2, Together, Zenon
      <3> QED BY <3>3 DEF w, t
    <2>6. (f \o b) \o e = f \o (b \o e)
      BY <2>1, <2>2, Together, Zenon
    <2>7. f \o (b \o e) \o Tail(todo) = pushed
      BY <2>2, <2>3, <2>5, <2>6
    <2>8. Unfold(file') \o Unfold(Pushing') \o todo' = pushed'
      BY <2>4, <2>7
    <2> QED BY <2>8 DEF InOrder, Pushing
  <1> QED BY <1>1, <1>2

\* One event, alone, and with those it is merged with.
LEMMA UnfoldOne ==
  ASSUME NEW e \in Events
  PROVE  /\ Unfold(<<Once(e)>>) = <<e>>
         /\ \A c \in Counted : c.event = e =>
              /\ Merged(c) \in Counted
              /\ Unfold(<<Merged(c)>>) = Unfold(<<c>>) \o <<e>>
  <1>1. Once(e).event = e /\ Once(e).count = 1 /\ Copies(Once(e)) = <<e>>
    BY DEF Once, Copies
  <1>2. ASSUME NEW c \in Counted, c.event = e
        PROVE  /\ Merged(c) \in Counted /\ Merged(c).event \in Events
               /\ Merged(c).count \in Nat
               /\ c.event \in Events /\ c.count \in Nat
               /\ Copies(Merged(c)) = Copies(c) \o <<e>>
    <2>1. /\ Merged(c) \in Counted /\ Merged(c).event = e
          /\ Merged(c).count = c.count + 1 /\ c.count \in Nat
      BY <1>2 DEF Counted, Merged
    <2>2. /\ Copies(c) \in Seq(Events) /\ Len(Copies(c)) = c.count
          /\ \A i \in 1..c.count : Copies(c)[i] = e
      BY <1>2, <2>1 DEF Copies
    <2>3. /\ Copies(Merged(c)) \in Seq(Events) /\ Len(Copies(Merged(c))) = c.count + 1
          /\ \A i \in 1..(c.count + 1) : Copies(Merged(c))[i] = e
      BY <2>1 DEF Copies
    <2> DEFINE o == <<e>>
               d == Copies(c)
    <2>4. o \in Seq(Events) /\ Len(o) = 1 /\ o[1] = e
      OBVIOUS
    <2> HIDE DEF o, d
    <2>5. /\ d \o o \in Seq(Events) /\ Len(d \o o) = Len(d) + Len(o)
          /\ \A i \in 1..(Len(d) + Len(o)) :
                (d \o o)[i] = IF i <= Len(d) THEN d[i] ELSE o[i - Len(d)]
      <3>1. d \in Seq(Events)
        BY <2>2 DEF d
      <3> QED BY <2>4, <3>1, ConcatProperties
    <2>6. /\ Len(d \o o) = c.count + 1
          /\ \A i \in 1..(c.count + 1) : (d \o o)[i] = e
      BY <2>1, <2>2, <2>4, <2>5 DEF d
    <2>7. Copies(Merged(c)) = d \o o
      BY <2>3, <2>5, <2>6, SeqEqual
    <2> QED BY <1>2, <2>1, <2>7 DEF o, d
  <1>3. Unfold(<<Once(e)>>) = <<e>>
    <2> DEFINE c == Once(e)
    <2>1. c.event \in Events /\ c.count \in Nat /\ Copies(c) = <<e>>
      BY <1>1
    <2> HIDE DEF c
    <2>2. Unfolded(<<c>>) = <<e>>
      BY <2>1, UnfoldedOne
    <2> QED BY <2>2, UnfoldIs DEF c
  <1>4. ASSUME NEW c \in Counted, c.event = e
        PROVE  Unfold(<<Merged(c)>>) = Unfold(<<c>>) \o <<e>>
    <2> DEFINE m == Merged(c)
    <2>1. /\ m.event \in Events /\ m.count \in Nat
          /\ c.event \in Events /\ c.count \in Nat
          /\ Copies(m) = Copies(c) \o <<e>>
      BY <1>2, <1>4
    <2> HIDE DEF m
    <2>2. Unfolded(<<m>>) = Copies(m) /\ Unfolded(<<c>>) = Copies(c)
      BY <2>1, UnfoldedOne
    <2>3. Unfolded(<<m>>) = Unfolded(<<c>>) \o <<e>>
      BY <2>1, <2>2
    <2> QED BY <2>3, UnfoldIs DEF m
  <1> QED BY <1>2, <1>3, <1>4

\* push counts the event, or puts it behind all the others.
LEMMA PushKeepsOrder ==
  ASSUME IInv, TypeOK', Push
  PROVE  InOrder'
  <1> DEFINE b == chunk \o AsSeq(held) \o queue
             e == Head(todo)
             o == <<Once(e)>>
  <1>1. /\ todo # <<>> /\ todo' = Tail(todo)
        /\ UNCHANGED <<file, pushed, iopc, chunk, held>>
    BY DEF Push, ioVars
  <1>2. e \in Events /\ Unfold(o) = <<e>> /\ Once(e) \in Counted
    <2>1. e \in Events
      BY <1>1, FirstAndOthers DEF IInv, TypeOK
    <2> QED BY <2>1, UnfoldOne, OnceCounted
  <1>3. b \in Seq(Counted) /\ Pushing = b \o AsSeq(previous)
        /\ chunk \o AsSeq(held) \in Seq(Counted) /\ queue \in Seq(Counted)
    BY PartsAre DEF IInv, Pushing
  <1>4. o \in Seq(Counted)
    <2> HIDE DEF e
    <2> QED BY <1>2
  <1>5. Once(e) # None
    BY <1>2, RecordStreamNone
  <1> HIDE DEF b, e, o
  <1>6. CASE previous = None /\ previous' = Once(e) /\ UNCHANGED queue
    <2>1. Pushing = b \o <<>> /\ Pushing' = b \o o
      BY <1>1, <1>3, <1>5, <1>6 DEF Pushing, AsSeq, b, o
    <2>2. Pushing = b
      BY <1>3, <2>1, ConcatEmptySeq
    <2>3. Unfold(b \o o) = Unfold(b) \o Unfold(o)
      BY <1>3, <1>4, UnfoldParts
    <2>4. Unfold(Pushing') = Unfold(Pushing) \o <<e>>
      BY <1>2, <2>1, <2>2, <2>3
    <2> QED BY <1>1, <2>4, GrownKeepsOrder DEF e
  <1>7. CASE /\ previous # None /\ previous.event = e
             /\ previous' = Merged(previous) /\ UNCHANGED queue
    <2> DEFINE p == <<previous>>
               m == <<Merged(previous)>>
    <2>1. previous \in Counted
      BY <1>7 DEF IInv, TypeOK
    <2>2. Merged(previous) \in Counted /\ Unfold(m) = Unfold(p) \o <<e>>
      BY <1>2, <1>7, <2>1, UnfoldOne
    <2>3. p \in Seq(Counted) /\ m \in Seq(Counted)
      BY <2>1, <2>2
    <2>4. Merged(previous) # None
      BY <2>2, RecordStreamNone
    <2> HIDE DEF p, m
    <2>5. Pushing = b \o p /\ Pushing' = b \o m
      BY <1>1, <1>3, <1>7, <2>4 DEF Pushing, AsSeq, b, p, m
    <2>6. /\ Unfold(b \o p) = Unfold(b) \o Unfold(p)
          /\ Unfold(b \o m) = Unfold(b) \o Unfold(m)
          /\ Unfold(b) \in Seq(Events) /\ Unfold(p) \in Seq(Events)
      BY <1>3, <2>3, UnfoldParts
    <2>7. <<e>> \in Seq(Events)
      BY <1>2
    <2>8. Unfold(b) \o (Unfold(p) \o <<e>>) = Unfold(b) \o Unfold(p) \o <<e>>
      BY <2>6, <2>7, ConcatAssociative
    <2>9. Unfold(Pushing') = Unfold(Pushing) \o <<e>>
      BY <2>2, <2>5, <2>6, <2>8
    <2> QED BY <1>1, <2>9, GrownKeepsOrder DEF e
  <1>8. CASE /\ previous # None /\ queue' = Append(queue, previous)
             /\ previous' = Once(e)
    <2>1. Pushing' = Pushing \o o
      <3> DEFINE p == <<previous>>
                 c == chunk \o AsSeq(held)
      <3>1. previous \in Counted
        BY <1>8 DEF IInv, TypeOK
      <3>2. p \in Seq(Counted)
        BY <3>1
      <3> HIDE DEF p
      <3>3. Append(queue, previous) = queue \o p
        BY <1>3, <3>1, AppendIsConcat DEF p
      <3>4. c \in Seq(Counted) /\ b = c \o queue
        BY <1>3 DEF b
      <3> HIDE DEF c
      <3>5. c \o (queue \o p) = c \o queue \o p
        <4>1. queue \in Seq(Counted) /\ c \in Seq(Counted)
          BY <1>3, <3>4
        <4> QED BY <3>2, <4>1, ConcatAssociative
      <3>6. Pushing' = c \o (queue \o p) \o o
        BY <1>1, <1>5, <1>8, <3>3 DEF Pushing, AsSeq, c, o
      <3>7. Pushing = c \o queue \o p
        BY <1>8 DEF Pushing, AsSeq, c, p
      <3> QED BY <3>5, <3>6, <3>7
    <2>2. Pushing \in Seq(Counted)
      BY PartsAre DEF IInv
    <2>3. Unfold(Pushing \o o) = Unfold(Pushing) \o Unfold(o)
      BY <1>4, <2>2, UnfoldParts
    <2>4. Unfold(Pushing') = Unfold(Pushing) \o <<e>>
      BY <1>2, <2>1, <2>3
    <2> QED BY <1>1, <2>4, GrownKeepsOrder DEF e
  <1> QED BY <1>6, <1>7, <1>8 DEF Push, Same, e

\* push_all moves the last event from one end of the queue into it.
LEMMA PushLastKeepsOrder ==
  ASSUME IInv, PushLast
  PROVE  InOrder'
  <1>1. UNCHANGED <<file, todo, pushed, iopc, chunk, held>>
    BY DEF PushLast, ioVars
  <1>2. CASE UNCHANGED <<previous, queue>>
    BY <1>1, <1>2, SameOrder DEF IInv, Pushing
  <1>3. CASE previous # None /\ queue' = Append(queue, previous) /\ previous' = None
    <2> DEFINE p == <<previous>>
               c == chunk \o AsSeq(held)
    <2>1. previous \in Counted /\ queue \in Seq(Counted) /\ c \in Seq(Counted)
      BY <1>3, PartsAre DEF IInv, TypeOK
    <2>2. p \in Seq(Counted)
      BY <2>1
    <2>3. Append(queue, previous) = queue \o p
      BY <2>1, AppendIsConcat
    <2>4. Pushing' = c \o (queue \o p) \o <<>> /\ Pushing = c \o queue \o p
      BY <1>1, <1>3, <2>3 DEF Pushing, AsSeq
    <2> HIDE DEF p, c
    <2>5. c \o (queue \o p) = c \o queue \o p /\ c \o (queue \o p) \in Seq(Counted)
      <3>1. c \o (queue \o p) = c \o queue \o p
        BY <2>1, <2>2, ConcatAssociative
      <3>2. queue \o p \in Seq(Counted)
        BY <2>1, <2>2, ConcatProperties
      <3> QED BY <2>1, <3>1, <3>2, ConcatProperties
    <2>6. c \o (queue \o p) \o <<>> = c \o (queue \o p)
      BY <2>5, ConcatEmptySeq
    <2>7. Pushing' = Pushing
      BY <2>4, <2>5, <2>6
    <2> QED BY <1>1, <2>7, SameOrder DEF IInv
  <1> QED BY <1>2, <1>3 DEF PushLast

\* No step loses, repeats or overtakes an event.
LEMMA OrderStep ==
  ASSUME IInv, TypeOK', [Next]_vars
  PROVE  InOrder'
  <1>1. CASE AppStep
    BY <1>1, CallsKeepOrder, PushKeepsOrder, PushLastKeepsOrder DEF AppStep
  <1>2. CASE IoStep
    BY <1>2, IoKeepsOrder
  <1>3. CASE Ended \/ UNCHANGED vars
    BY <1>3, CallsKeepOrder DEF Ended
  <1> QED BY <1>1, <1>2, <1>3 DEF Next

-------------------------------------------------------------------------------

\* Every step keeps the invariant.
LEMMA StepKeeps == ASSUME IInv, [Next]_vars PROVE IInv'
  <1>1. TypeOK'
    BY TypeStep DEF IInv
  <1> QED BY <1>1, HeldStep, FiledStep, ChunkStep, FileStep, OrderStep DEF IInv

\* However many requests, sources and calls, however long the queue and the
\* chunks: what rempi_recorder pushes reaches the record file complete, in the
\* order of the program and with the source each receive was matched with, until
\* the I/O thread ends.
THEOREM RecordedInOrder == Spec => []StreamInOrder
  <1>1. IInv => StreamInOrder
    BY DEF IInv, StreamInOrder
  <1>2. Init => IInv
    BY InitEstablishes
  <1>3. IInv /\ [Next]_vars => IInv'
    BY StepKeeps
  <1> QED BY <1>1, <1>2, <1>3, PTL DEF Spec

\* The event of a handle is forgotten in the step that ends ReMPI's own knowledge of
\* the request, which is before MPI can give the handle out again.
FiledRegistered ==
  ~freed => \A h \in Handles : recvEvent[h] # None => h \in registered

\* Every step files and forgets an event together with its request.
LEMMA RegisteredStep ==
  ASSUME TypeOK, FiledRegistered, [Next]_vars
  PROVE  FiledRegistered'
  <1> SUFFICES ASSUME ~freed', NEW g \in Handles, recvEvent'[g] # None
               PROVE  g \in registered'
    BY DEF FiledRegistered
  <1>1. ASSUME ~freed, recvEvent[g] # None
        PROVE  g \in registered
    BY <1>1 DEF FiledRegistered
  <1>2. ASSUME NEW h \in Handles, Irecv(h)
        PROVE  g \in registered'
    <2>1. ~freed /\ registered' = registered \cup {h}
      BY <1>2 DEF Irecv
    <2>2. g # h => recvEvent'[g] = recvEvent[g]
      BY <1>2 DEF Irecv, TypeOK
    <2> QED BY <1>1, <2>1, <2>2
  <1>3. ASSUME NEW hs, NEW sources, Completion(hs, sources)
        PROVE  g \in registered'
    <2>1. /\ ~freed /\ registered' = registered \ ToSet(hs)
          /\ recvEvent'[g] = IF g \in ToSet(hs) THEN None ELSE recvEvent[g]
      BY <1>3 DEF Completion, Forgotten
    <2> QED BY <1>1, <2>1
  <1>4. ASSUME NEW h \in Handles, Cancel(h)
        PROVE  g \in registered'
    <2>1. /\ ~freed /\ registered' = registered \ {h}
          /\ recvEvent'[g] = IF g = h THEN None ELSE recvEvent[g]
      BY <1>4 DEF Cancel, Forgotten
    <2> QED BY <1>1, <2>1
  <1>5. ASSUME NEW h \in Handles, RequestFree(h)
        PROVE  g \in registered'
    BY <1>5 DEF RequestFree
  <1>6. CASE UNCHANGED <<registered, recvEvent, freed>>
    BY <1>1, <1>6
  <1>7. ASSUME NEW h \in Handles, CompleteCanceled(h)
        PROVE  UNCHANGED <<registered, recvEvent, freed>>
    BY <1>7 DEF CompleteCanceled
  <1>8. ASSUME NEW r, TestOrProbe(r)
        PROVE  UNCHANGED <<registered, recvEvent, freed>>
    BY <1>8 DEF TestOrProbe
  <1>9. CASE Finalize \/ Push \/ PushLast \/ Close
    BY <1>6, <1>9 DEF Finalize, Push, PushLast, Close
  <1>10. CASE IoStep
    BY <1>6, <1>10 DEF IoStep, Fill, FillAdd, Check, Drain, DrainAdd, Write, EndOrContinue,
       Pop, AddToChunk, appVars
  <1>11. CASE UNCHANGED vars
    BY <1>6, <1>11 DEF vars, appVars
  <1> QED
    BY <1>2, <1>3, <1>4, <1>5, <1>6, <1>7, <1>8, <1>9, <1>10, <1>11
    DEF Next, AppStep, CompleteOne, CompleteTwo, Ended

\* No receive event is filed under a handle that MPI may give to another request, as
\* long as the application completes or cancels its receives: record_irecv then never
\* meets an old event, which would stop the program.
THEOREM HandlesForgotten == Spec => []HandleForgotten
  <1>1. Init => IInv /\ FiledRegistered
    BY InitEstablishes DEF Init, FiledRegistered
  <1>2. IInv /\ FiledRegistered /\ [Next]_vars => (IInv /\ FiledRegistered)'
    BY StepKeeps, RegisteredStep DEF IInv
  <1>3. IInv /\ FiledRegistered => HandleForgotten
    BY DEF IInv, TypeOK, FiledRegistered, HandleForgotten
  <1> QED BY <1>1, <1>2, <1>3, PTL DEF Spec

-------------------------------------------------------------------------------
\* The replaying side.

\* The events of the first n chunks, and those that were read and not handed out.
First(n) == FlattenSeq(SubSeq(File, 1, n))
Waiting  == (IF replaying = NoEvent THEN <<>> ELSE <<replaying>>) \o replayEvents \o left

\* Nothing that was read is lost, repeated or overtaken.
ReplayedInOrder == delivered \o Replayed(Waiting) = Replayed(First(chunks))

\* What each thread has in hand at each of its steps, and what "closed" tells.
InHand ==
  /\ readpc \in {"read", "done"} => left = <<>>
  /\ readpc = "enqueue" => left # <<>>
  /\ readpc = "done" => chunks = Len(File)
  /\ replayClosed => readpc = "done"
  /\ sawClosed => replayClosed
  /\ apc # "call" => created
  /\ apc = "pop" => replaying # NoEvent
  /\ apc \in {"dequeue", "report"} => replaying = NoEvent
  /\ apc = "report" /\ sawClosed => replayEvents = <<>>

\* "finish" is the last answer: there is nothing left that could be handed out.
FinishIsLast ==
  status = "finish" =>
    /\ created /\ replayClosed /\ replayEvents = <<>> /\ replaying = NoEvent
    /\ apc # "call" => sawClosed

ReplayInv == ReplayTypeOK /\ InHand /\ FinishIsLast /\ ReplayedInOrder

-------------------------------------------------------------------------------

\* Events, and counted events, may be put together in any way.
LEMMA ReplayTogether ==
  /\ \A x, y, z \in Seq(RecordedEvents) : x \o y \o z = x \o (y \o z)
  /\ \A x, y, z \in Seq(RecordedRuns) : x \o y \o z = x \o (y \o z)
  <1>1. \A x, y, z \in Seq(RecordedEvents) : x \o y \o z = x \o (y \o z)
    BY ConcatAssociative, SMTT(30)
  <1>2. \A x, y, z \in Seq(RecordedRuns) : x \o y \o z = x \o (y \o z)
    BY ConcatAssociative, SMTT(30)
  <1> QED BY <1>1, <1>2

\* Replayed is the operator that the lemmas are about, and is done part by part.
LEMMA ReplayedParts ==
  /\ Replayed(<<>>) = <<>>
  /\ \A a, b \in Seq(RecordedRuns) :
        Replayed(a) \in Seq(RecordedEvents)
          /\ Replayed(a \o b) = Replayed(a) \o Replayed(b)
  /\ \A c \in RecordedRuns : Replayed(<<c>>) = Repeated(c)
  <1>1. \A s : Replayed(s) = Unfolded(s)
    BY DEF Replayed, Unfolded, Copies, Repeated
  <1>2. CountedOf(RecordedRuns, RecordedEvents)
    BY DEF CountedOf, RecordedRuns
  <1>3. ASSUME NEW a \in Seq(RecordedRuns), NEW b \in Seq(RecordedRuns)
        PROVE  Unfolded(a) \in Seq(RecordedEvents)
                 /\ Unfolded(a \o b) = Unfolded(a) \o Unfolded(b)
    BY <1>2, UnfoldedConcat
  <1>4. ASSUME NEW c \in RecordedRuns PROVE Unfolded(<<c>>) = Repeated(c)
    <2>1. c.event \in RecordedEvents /\ c.count \in Nat /\ Copies(c) = Repeated(c)
      BY DEF RecordedRuns, Copies, Repeated
    <2> QED BY <2>1, UnfoldedOne
  <1> QED BY <1>1, <1>3, <1>4, UnfoldedEmpty, Zenon

\* The file, chunk after chunk.
LEMMA ChunksJoin ==
  /\ Len(File) \in Nat /\ First(0) = <<>> /\ First(Len(File)) = FlattenSeq(File)
  /\ \A n \in 0..Len(File) :
        /\ First(n) \in Seq(RecordedRuns)
        /\ \E t \in Seq(RecordedRuns) : FlattenSeq(File) = First(n) \o t
  /\ \A n \in 0..(Len(File) - 1) :
        File[n + 1] \in Seq(RecordedRuns) /\ First(n + 1) = First(n) \o File[n + 1]
  <1>1. File \in Seq(Seq(RecordedRuns)) /\ Len(File) \in Nat
    BY ReplayStreamAssumption, LenProperties
  <1>2. First(0) = <<>> /\ First(Len(File)) = FlattenSeq(File)
    <2>1. SubSeq(File, 1, 0) = <<>>
      BY SubSeqEmpty
    <2>2. SubSeq(File, 1, Len(File)) = File
      BY <1>1, SubSeqFull
    <2> QED BY <2>1, <2>2, FlattenEmpty DEF First
  <1>3. ASSUME NEW n \in 0..Len(File)
        PROVE  /\ First(n) \in Seq(RecordedRuns)
               /\ \E t \in Seq(RecordedRuns) : FlattenSeq(File) = First(n) \o t
    <2> DEFINE a == SubSeq(File, 1, n)
               b == SubSeq(File, n + 1, Len(File))
    <2>1. a \in Seq(Seq(RecordedRuns)) /\ b \in Seq(Seq(RecordedRuns))
      BY <1>1, ElementOfSeq, SubSeqProperties
    <2>2. a \o b = File
      <3>1. /\ 1 \in 1..Len(File)+1 /\ n \in 1-1..Len(File)
            /\ Len(File) \in n..Len(File)
        BY <1>1
      <3>2. a \o b = SubSeq(File, 1, Len(File))
        BY <1>1, <3>1, ConcatAdjacentSubSeq
      <3> QED BY <1>1, <3>2, SubSeqFull
    <2> HIDE DEF a, b
    <2>3. FlattenSeq(a) \in Seq(RecordedRuns) /\ FlattenSeq(b) \in Seq(RecordedRuns)
      BY <2>1, FlattenAppend, EmptySeq
    <2>4. FlattenSeq(a \o b) = FlattenSeq(a) \o FlattenSeq(b)
      BY <2>1, FlattenConcat
    <2> QED BY <2>2, <2>3, <2>4 DEF First, a
  <1>4. ASSUME NEW n \in 0..(Len(File) - 1)
        PROVE  File[n + 1] \in Seq(RecordedRuns)
                 /\ First(n + 1) = First(n) \o File[n + 1]
    <2>1. /\ SubSeq(File, 1, n) \in Seq(Seq(RecordedRuns))
          /\ File[n + 1] \in Seq(RecordedRuns)
          /\ SubSeq(File, 1, n + 1) = Append(SubSeq(File, 1, n), File[n + 1])
      BY <1>1, PrefixGrows
    <2> QED BY <2>1, FlattenAppend DEF First
  <1> QED BY <1>1, <1>2, <1>3, <1>4

\* The event in hand, those of the queue and those of the chunk are counted events.
LEMMA CountedAre ==
  ASSUME NEW c \in RecordedRuns \cup {NoEvent}, NEW q \in Seq(RecordedRuns),
         NEW l \in Seq(RecordedRuns)
  PROVE  (IF c = NoEvent THEN <<>> ELSE <<c>>) \o q \o l \in Seq(RecordedRuns)
  <1> DEFINE p == IF c = NoEvent THEN <<>> ELSE <<c>>
  <1>1. p \in Seq(RecordedRuns)
    BY EmptySeq
  <1> HIDE DEF p
  <1>2. p \o q \in Seq(RecordedRuns)
    BY <1>1, ConcatProperties
  <1> DEFINE a == p \o q
  <1> HIDE DEF a
  <1>3. a \o l \in Seq(RecordedRuns)
    BY <1>2, ConcatProperties DEF a
  <1> QED BY <1>3 DEF a, p

\* What was read is made of counted events, what was recorded of events.
LEMMA WaitingAre ==
  ASSUME ReplayTypeOK
  PROVE  /\ (IF replaying = NoEvent THEN <<>> ELSE <<replaying>>) \in Seq(RecordedRuns)
         /\ replayEvents \in Seq(RecordedRuns) /\ left \in Seq(RecordedRuns)
         /\ replayEvents \o left \in Seq(RecordedRuns)
         /\ Waiting \in Seq(RecordedRuns)
         /\ Waiting = (IF replaying = NoEvent THEN <<>> ELSE <<replaying>>) \o (replayEvents \o left)
         /\ Replayed(Waiting) \in Seq(RecordedEvents)
         /\ Replayed(replayEvents \o left) \in Seq(RecordedEvents)
  <1> DEFINE p == IF replaying = NoEvent THEN <<>> ELSE <<replaying>>
  <1>1. p \in Seq(RecordedRuns)
    <2>1. CASE replaying = NoEvent
      BY <2>1, EmptySeq
    <2>2. CASE replaying # NoEvent
      BY <2>2 DEF ReplayTypeOK
    <2> QED BY <2>1, <2>2
  <1>2. replayEvents \in Seq(RecordedRuns) /\ left \in Seq(RecordedRuns)
    BY DEF ReplayTypeOK
  <1>3. Waiting = p \o replayEvents \o left
    BY DEF Waiting
  <1> HIDE DEF p
  <1>4. p \o replayEvents \o left = p \o (replayEvents \o left)
    BY <1>1, <1>2, ConcatAssociative
  <1>5. replayEvents \o left \in Seq(RecordedRuns)
    BY <1>2, ConcatProperties
  <1>6. Waiting \in Seq(RecordedRuns)
    BY <1>1, <1>3, <1>4, <1>5, ConcatProperties
  <1> QED BY <1>1, <1>2, <1>3, <1>4, <1>5, <1>6, ReplayedParts DEF p

\* A merged event is handed out once, and the rest of it kept.
LEMMA OneAndRest ==
  ASSUME NEW c \in RecordedRuns
  PROVE  /\ c.event \in RecordedEvents
         /\ Rest(c) = NoEvent => Repeated(c) = <<c.event>>
         /\ Rest(c) # NoEvent =>
              /\ Rest(c) \in RecordedRuns /\ Repeated(Rest(c)) \in Seq(RecordedEvents)
              /\ Repeated(c) = <<c.event>> \o Repeated(Rest(c))
  <1> DEFINE e == c.event
             r == Rest(c)
  <1>1. e \in RecordedEvents /\ c.count \in Nat /\ c.count >= 1
    BY DEF RecordedRuns
  <1>2. CASE c.count = 1
    BY <1>1, <1>2 DEF Rest, Repeated
  <1>3. CASE c.count # 1
    <2>1. r \in RecordedRuns /\ r.event = e /\ r.count = c.count - 1 /\ r.count \in Nat
      BY <1>1, <1>3 DEF Rest, RecordedRuns
    <2>2. r # NoEvent
      BY <2>1, ReplayStreamAssumption
    <2> DEFINE o == <<e>>
               d == Repeated(r)
               a == Repeated(c)
    <2>3. o \in Seq(RecordedEvents) /\ Len(o) = 1 /\ o[1] = e
      BY <1>1
    <2>4. d \in Seq(RecordedEvents) /\ Len(d) = c.count - 1
            /\ \A i \in 1..Len(d) : d[i] = e
      <3> HIDE DEF r, e
      <3> QED BY <1>1, <2>1 DEF Repeated
    <2>5. a \in Seq(RecordedEvents) /\ Len(a) = c.count /\ \A i \in 1..Len(a) : a[i] = e
      BY <1>1 DEF Repeated
    <2> HIDE DEF o, d, a, e, r
    <2>6. /\ o \o d \in Seq(RecordedEvents) /\ Len(o \o d) = Len(o) + Len(d)
          /\ \A i \in 1..(Len(o) + Len(d)) :
                (o \o d)[i] = IF i <= Len(o) THEN o[i] ELSE d[i - Len(o)]
      BY <2>3, <2>4, ConcatProperties
    <2>7. Len(o \o d) = Len(a) /\ \A i \in 1..Len(a) : (o \o d)[i] = a[i]
      BY <1>1, <2>3, <2>4, <2>5, <2>6
    <2>8. a = o \o d
      BY <2>5, <2>6, <2>7, SeqEqual
    <2> QED BY <1>1, <2>1, <2>2, <2>4, <2>8 DEF o, d, a, e, r
  <1> QED BY <1>2, <1>3

-------------------------------------------------------------------------------

\* Nothing has been read yet.
LEMMA ReplayInitEstablishes == ASSUME ReplayInit PROVE ReplayInv
  <1>1. ReplayTypeOK
    <2>1. left = <<>> /\ replayEvents = <<>> /\ delivered = <<>> /\ chunks = 0
      BY DEF ReplayInit
    <2>2. left \in Seq(RecordedRuns) /\ replayEvents \in Seq(RecordedRuns)
            /\ delivered \in Seq(RecordedEvents)
          /\ Len(replayEvents) <= ReplayMaxSize /\ chunks \in 0..Len(File)
      BY <2>1, ChunksJoin, ReplayStreamAssumption
    <2> QED BY <2>2 DEF ReplayInit, ReplayTypeOK
  <1>2. InHand /\ FinishIsLast
    BY DEF ReplayInit, InHand, FinishIsLast
  <1>3. ReplayedInOrder
    <2>1. Waiting = <<>> \o <<>> \o <<>>
      BY DEF ReplayInit, Waiting
    <2>2. Waiting = <<>>
      BY <2>1
    <2>3. delivered = <<>> /\ chunks = 0
      BY DEF ReplayInit
    <2> QED BY <2>2, <2>3, ReplayedParts, ChunksJoin DEF ReplayedInOrder
  <1> QED BY <1>1, <1>2, <1>3 DEF ReplayInv

\* Everything keeps its type.
LEMMA ReplayTypeStep == ASSUME ReplayInv, [ReplayNext]_replayVars PROVE ReplayTypeOK'
  <1> USE ReplayStreamAssumption
  <1>1. CASE ReadChunk
    <2>1. chunks \in 0..(Len(File) - 1)
      BY <1>1, ChunksJoin DEF ReplayInv, ReplayTypeOK, ReadChunk
    <2>2. chunks' \in 0..Len(File) /\ left' \in Seq(RecordedRuns)
      BY <1>1, <2>1, ChunksJoin DEF ReadChunk
    <2> QED BY <1>1, <2>2 DEF ReplayInv, ReplayTypeOK, ReadChunk, callVars
  <1>2. CASE CloseList \/ Insert
    BY <1>2 DEF ReplayInv, ReplayTypeOK, CloseList, Insert, callVars
  <1>3. CASE EnqueueReplay
    <2>1. Head(left) \in RecordedRuns /\ left' \in Seq(RecordedRuns)
      BY <1>3, FirstAndOthers DEF ReplayInv, ReplayTypeOK, InHand, EnqueueReplay
    <2>2. replayEvents \in Seq(RecordedRuns) /\ Len(replayEvents) \in Nat
            /\ Len(replayEvents) < ReplayMaxSize
          /\ replayEvents' = Append(replayEvents, Head(left))
      BY <1>3, LenProperties DEF ReplayInv, ReplayTypeOK, EnqueueReplay, RoomToReplay
    <2>3. replayEvents' \in Seq(RecordedRuns)
            /\ Len(replayEvents') = Len(replayEvents) + 1
      BY <2>1, <2>2, AppendProperties
    <2> QED BY <1>3, <2>1, <2>2, <2>3 DEF ReplayInv, ReplayTypeOK, EnqueueReplay,
    callVars
  <1>4. CASE LookUp \/ Report
    BY <1>4 DEF ReplayInv, ReplayTypeOK, LookUp, Report, readVars
  <1>5. CASE Dequeue
    <2>1. CASE replayEvents = <<>>
      BY <1>5, <2>1 DEF ReplayInv, ReplayTypeOK, Dequeue, readVars
    <2>2. CASE replayEvents # <<>>
      <3>1. /\ Head(replayEvents) \in RecordedRuns
            /\ Tail(replayEvents) \in Seq(RecordedRuns)
            /\ Len(Tail(replayEvents)) = Len(replayEvents) - 1
        BY <2>2, HeadTailProperties DEF ReplayInv, ReplayTypeOK
      <3>2. Len(replayEvents) \in Nat /\ Len(replayEvents) <= ReplayMaxSize
        BY LenProperties DEF ReplayInv, ReplayTypeOK
      <3>3. replayEvents' = Tail(replayEvents) /\ replaying' = Head(replayEvents)
        BY <1>5, <2>2 DEF Dequeue
      <3>4. replayEvents' \in Seq(RecordedRuns)
              /\ Len(replayEvents') <= ReplayMaxSize /\ replaying' \in RecordedRuns
        BY <3>1, <3>2, <3>3
      <3> QED BY <1>5, <2>2, <3>4 DEF ReplayInv, ReplayTypeOK, Dequeue, readVars
    <2> QED BY <2>1, <2>2
  <1>6. CASE PopReplay
    <2>1. replaying \in RecordedRuns
      BY <1>6 DEF ReplayInv, ReplayTypeOK, InHand, PopReplay
    <2>2. replaying.event \in RecordedEvents
            /\ replaying' \in RecordedRuns \cup {NoEvent}
      BY <1>6, <2>1, OneAndRest DEF PopReplay
    <2>3. delivered' \in Seq(RecordedEvents)
      BY <1>6, <2>2, AppendProperties DEF ReplayInv, ReplayTypeOK, PopReplay
    <2> QED BY <1>6, <2>2, <2>3 DEF ReplayInv, ReplayTypeOK, PopReplay, readVars
  <1>7. CASE UNCHANGED replayVars
    BY <1>7 DEF ReplayInv, ReplayTypeOK, replayVars, readVars, callVars
  <1> QED BY <1>1, <1>2, <1>3, <1>4, <1>5, <1>6, <1>7 DEF ReplayNext, ReadStep, CallStep

\* The two threads stay in step: the list is closed after the last enqueue, and
\* what was read of is_push_closed before the queue was found empty is decisive.
LEMMA HandStep == ASSUME ReplayInv, [ReplayNext]_replayVars PROVE InHand'
        /\ FinishIsLast'
  <1> USE ReplayStreamAssumption
  <1>1. CASE ReadChunk \/ CloseList \/ Insert
    <2>1. CASE ReadChunk
      BY <2>1 DEF ReplayInv, InHand, FinishIsLast, ReadChunk, callVars
    <2>2. CASE CloseList
      BY <2>2 DEF ReplayInv, InHand, FinishIsLast, CloseList, callVars
    <2>3. CASE Insert
      BY <2>3 DEF ReplayInv, ReplayTypeOK, InHand, FinishIsLast, Insert, callVars
    <2> QED BY <1>1, <2>1, <2>2, <2>3
  <1>2. CASE EnqueueReplay
    BY <1>2 DEF ReplayInv, InHand, FinishIsLast, EnqueueReplay, callVars
  <1>3. CASE LookUp \/ Report
    BY <1>3 DEF ReplayInv, InHand, FinishIsLast, LookUp, Report, WasClosed, readVars
  <1>4. CASE Dequeue
    <2>1. CASE replayEvents = <<>>
      BY <1>4, <2>1 DEF ReplayInv, InHand, FinishIsLast, Dequeue, readVars
    <2>2. CASE replayEvents # <<>>
      <3>1. Head(replayEvents) \in RecordedRuns
        BY <2>2, HeadTailProperties DEF ReplayInv, ReplayTypeOK
      <3> QED BY <1>4, <2>2, <3>1 DEF ReplayInv, InHand, FinishIsLast, Dequeue, readVars
    <2> QED BY <2>1, <2>2
  <1>5. CASE PopReplay
    BY <1>5 DEF ReplayInv, InHand, FinishIsLast, PopReplay, readVars
  <1>6. CASE UNCHANGED replayVars
    BY <1>6 DEF ReplayInv, InHand, FinishIsLast, replayVars, readVars, callVars
  <1> QED BY <1>1, <1>2, <1>3, <1>4, <1>5, <1>6 DEF ReplayNext, ReadStep, CallStep

-------------------------------------------------------------------------------

\* A step that hands nothing out and reads nothing keeps the order.
LEMMA SameReplayOrder ==
  ASSUME ReplayedInOrder, Waiting' = Waiting, UNCHANGED <<delivered, chunks>>
  PROVE  ReplayedInOrder'
  BY DEF ReplayedInOrder

\* The I/O thread reads a chunk behind what it has read.
LEMMA ReadKeepsOrder == ASSUME ReplayInv, ReadChunk PROVE ReplayedInOrder'
  <1> DEFINE p == IF replaying = NoEvent THEN <<>> ELSE <<replaying>>
             c == File[chunks + 1]
             w == Waiting
             f == First(chunks)
  <1>1. /\ left = <<>> /\ left' = c /\ chunks \in 0..(Len(File) - 1)
        /\ chunks' = chunks + 1 /\ UNCHANGED <<replaying, replayEvents, delivered>>
    BY ChunksJoin DEF ReplayInv, ReplayTypeOK, InHand, ReadChunk, callVars
  <1>2. /\ c \in Seq(RecordedRuns) /\ First(chunks') = f \o c
        /\ f \in Seq(RecordedRuns)
    <2>1. chunks \in 0..Len(File)
      BY DEF ReplayInv, ReplayTypeOK
    <2> QED BY <1>1, <2>1, ChunksJoin
  <1>3. w = p \o replayEvents \o <<>> /\ Waiting' = p \o replayEvents \o c
    BY <1>1 DEF Waiting
  <1>4. p \in Seq(RecordedRuns) /\ replayEvents \in Seq(RecordedRuns)
          /\ w \in Seq(RecordedRuns)
    BY WaitingAre DEF ReplayInv
  <1>5. delivered \in Seq(RecordedEvents) /\ delivered \o Replayed(w) = Replayed(f)
    BY DEF ReplayInv, ReplayTypeOK, ReplayedInOrder
  <1> HIDE DEF p, c, w, f
  <1>6. w = p \o replayEvents
    <2>1. p \o replayEvents \in Seq(RecordedRuns)
      BY <1>4, ConcatProperties
    <2> QED BY <1>3, <2>1, ConcatEmptySeq
  <1>7. /\ Replayed(w \o c) = Replayed(w) \o Replayed(c)
        /\ Replayed(f \o c) = Replayed(f) \o Replayed(c)
        /\ Replayed(w) \in Seq(RecordedEvents) /\ Replayed(c) \in Seq(RecordedEvents)
    BY <1>2, <1>4, ReplayedParts
  <1>8. delivered \o (Replayed(w) \o Replayed(c)) = delivered \o Replayed(w) \o Replayed(c)
    <2> DEFINE u == Replayed(w)
               v == Replayed(c)
    <2>1. delivered \in Seq(RecordedEvents) /\ u \in Seq(RecordedEvents)
            /\ v \in Seq(RecordedEvents)
      BY <1>5, <1>7
    <2> HIDE DEF u, v
    <2>2. delivered \o (u \o v) = delivered \o u \o v
      BY <2>1, ReplayTogether, Zenon
    <2> QED BY <2>2 DEF u, v
  <1>9. delivered' \o Replayed(Waiting') = Replayed(First(chunks'))
    BY <1>1, <1>2, <1>3, <1>5, <1>6, <1>7, <1>8
  <1> QED BY <1>9 DEF ReplayedInOrder

\* It moves the first event it has left to the end of the queue.
LEMMA EnqueueKeepsOrder == ASSUME ReplayInv, EnqueueReplay PROVE ReplayedInOrder'
  <1> DEFINE p == IF replaying = NoEvent THEN <<>> ELSE <<replaying>>
             h == <<Head(left)>>
             t == Tail(left)
  <1>1. /\ left # <<>> /\ replayEvents' = Append(replayEvents, Head(left)) /\ left' = t
        /\ UNCHANGED <<replaying, delivered, chunks>>
    BY DEF ReplayInv, InHand, EnqueueReplay, callVars
  <1>2. /\ Head(left) \in RecordedRuns /\ h \in Seq(RecordedRuns)
        /\ t \in Seq(RecordedRuns)
        /\ left = h \o t
    BY <1>1, FirstAndOthers DEF ReplayInv, ReplayTypeOK
  <1>3. replayEvents \in Seq(RecordedRuns) /\ p \in Seq(RecordedRuns)
    BY WaitingAre DEF ReplayInv
  <1>4. replayEvents' = replayEvents \o h
    BY <1>1, <1>2, <1>3, AppendIsConcat
  <1>5. Waiting' = p \o (replayEvents \o h) \o t
          /\ Waiting = p \o (replayEvents \o left)
    BY <1>1, <1>4, WaitingAre DEF Waiting, ReplayInv
  <1> HIDE DEF p, h, t
  <1>6. replayEvents \o h \in Seq(RecordedRuns)
    BY <1>2, <1>3, ConcatProperties
  <1>7. p \o (replayEvents \o h) \o t = p \o ((replayEvents \o h) \o t)
    <2> DEFINE q == replayEvents \o h
    <2>1. p \in Seq(RecordedRuns) /\ q \in Seq(RecordedRuns) /\ t \in Seq(RecordedRuns)
      BY <1>2, <1>3, <1>6
    <2> HIDE DEF q
    <2>2. p \o q \o t = p \o (q \o t)
      BY <2>1, ConcatAssociative
    <2> QED BY <2>2 DEF q
  <1>8. (replayEvents \o h) \o t = replayEvents \o (h \o t)
    BY <1>2, <1>3, ReplayTogether, Zenon
  <1>9. Waiting' = Waiting
    BY <1>2, <1>5, <1>7, <1>8
  <1> QED BY <1>1, <1>9, SameReplayOrder DEF ReplayInv

\* The application takes the first event of the queue.
LEMMA DequeueKeepsOrder == ASSUME ReplayInv, Dequeue PROVE ReplayedInOrder'
  <1>1. UNCHANGED <<left, delivered, chunks>> /\ replaying = NoEvent
    BY DEF ReplayInv, InHand, Dequeue, readVars
  <1>2. CASE replayEvents = <<>>
    BY <1>1, <1>2, SameReplayOrder DEF ReplayInv, Dequeue, Waiting
  <1>3. CASE replayEvents # <<>>
    <2> DEFINE h == <<Head(replayEvents)>>
               t == Tail(replayEvents)
    <2>1. /\ Head(replayEvents) \in RecordedRuns /\ h \in Seq(RecordedRuns)
          /\ t \in Seq(RecordedRuns)
          /\ replayEvents = h \o t /\ left \in Seq(RecordedRuns)
      BY <1>3, FirstAndOthers DEF ReplayInv, ReplayTypeOK
    <2>2. replaying' = Head(replayEvents) /\ replayEvents' = t
            /\ Head(replayEvents) # NoEvent
      BY <1>3, <2>1, ReplayStreamAssumption DEF Dequeue
    <2>3. Waiting' = h \o t \o left /\ Waiting = <<>> \o replayEvents \o left
      BY <1>1, <2>2 DEF Waiting
    <2>4. <<>> \o replayEvents = replayEvents
      BY <2>1, ConcatEmptySeq DEF ReplayInv, ReplayTypeOK
    <2>5. Waiting' = Waiting
      BY <2>1, <2>3, <2>4
    <2> QED BY <1>1, <2>5, SameReplayOrder DEF ReplayInv
  <1> QED BY <1>2, <1>3

\* It hands out the event it holds.
LEMMA PopKeepsReplayOrder == ASSUME ReplayInv, PopReplay PROVE ReplayedInOrder'
  <1> DEFINE e == <<replaying.event>>
             p == IF Rest(replaying) = NoEvent THEN <<>> ELSE <<Rest(replaying)>>
             b == replayEvents \o left
             u == Replayed(b)
  <1>1. /\ replaying \in RecordedRuns /\ replaying # NoEvent
        /\ delivered' = Append(delivered, replaying.event)
        /\ replaying' = Rest(replaying) /\ UNCHANGED <<replayEvents, left, chunks>>
    BY DEF ReplayInv, ReplayTypeOK, InHand, PopReplay, readVars
  <1>2. replaying.event \in RecordedEvents
    BY <1>1, OneAndRest
  <1>3. e \in Seq(RecordedEvents) /\ delivered \in Seq(RecordedEvents)
          /\ delivered' = delivered \o e
    BY <1>1, <1>2, AppendIsConcat DEF ReplayInv, ReplayTypeOK
  <1>4. b \in Seq(RecordedRuns) /\ u \in Seq(RecordedEvents)
          /\ Waiting = <<replaying>> \o b
    BY <1>1, WaitingAre DEF ReplayInv
  <1>5. /\ p \in Seq(RecordedRuns) /\ Replayed(p) \in Seq(RecordedEvents)
        /\ Repeated(replaying) = e \o Replayed(p)
    <2>1. CASE Rest(replaying) = NoEvent
      <3>1. p = <<>> /\ Replayed(<<>>) = <<>> /\ Repeated(replaying) = e
        BY <1>1, <2>1, OneAndRest, ReplayedParts
      <3>2. e \o <<>> = e
        BY <1>3, ConcatEmptySeq
      <3> QED BY <3>1, <3>2, EmptySeq
    <2>2. CASE Rest(replaying) # NoEvent
      <3> DEFINE r == Rest(replaying)
      <3>1. /\ r \in RecordedRuns /\ Repeated(r) \in Seq(RecordedEvents)
            /\ Repeated(replaying) = e \o Repeated(r) /\ p = <<r>>
        BY <1>1, <2>2, OneAndRest
      <3> HIDE DEF r, p, e
      <3>2. <<r>> \in Seq(RecordedRuns) /\ Replayed(<<r>>) = Repeated(r)
        BY <3>1, ReplayedParts
      <3> QED BY <3>1, <3>2
    <2> QED BY <2>1, <2>2
  <1>6. Waiting' = p \o b
    <2>1. replayEvents \in Seq(RecordedRuns) /\ left \in Seq(RecordedRuns)
            /\ Waiting' = p \o replayEvents \o left
      BY <1>1 DEF ReplayInv, ReplayTypeOK, Waiting
    <2>2. p \in Seq(RecordedRuns)
      BY <1>5
    <2> HIDE DEF p, e, b, u
    <2>3. p \o replayEvents \o left = p \o (replayEvents \o left)
      BY <2>1, <2>2, ReplayTogether, Zenon
    <2> QED BY <2>1, <2>3 DEF b
  <1>7. Replayed(Waiting) = Repeated(replaying) \o u
    <2> DEFINE c == <<replaying>>
    <2>1. c \in Seq(RecordedRuns) /\ Replayed(c) = Repeated(replaying)
      BY <1>1, ReplayedParts
    <2> HIDE DEF c, b
    <2>2. Replayed(c \o b) = Replayed(c) \o Replayed(b)
      BY <1>4, <2>1, ReplayedParts
    <2> QED BY <1>4, <2>1, <2>2 DEF c
  <1>8. Replayed(p \o b) = Replayed(p) \o u
    <2> HIDE DEF p, b
    <2> QED BY <1>4, <1>5, ReplayedParts
  <1> DEFINE q == Replayed(p)
  <1>9. q \in Seq(RecordedEvents)
    BY <1>5
  <1>10. Replayed(Waiting) = e \o q \o u /\ Replayed(Waiting') = q \o u
    BY <1>5, <1>6, <1>7, <1>8
  <1> HIDE DEF e, p, b, u, q
  <1>11. e \o q \o u = e \o (q \o u)
    BY <1>3, <1>4, <1>9, ReplayTogether, Zenon
  <1>12. q \o u \in Seq(RecordedEvents)
    BY <1>4, <1>9, ConcatProperties
  <1>13. delivered \o (e \o (q \o u)) = delivered \o e \o (q \o u)
    BY <1>3, <1>12, ReplayTogether, Zenon
  <1>14. delivered' \o Replayed(Waiting') = delivered \o Replayed(Waiting)
    BY <1>3, <1>10, <1>11, <1>13
  <1> QED BY <1>1, <1>14 DEF ReplayInv, ReplayedInOrder

\* No step loses, repeats or overtakes an event.
LEMMA ReplayOrderStep == ASSUME ReplayInv,
      [ReplayNext]_replayVars PROVE ReplayedInOrder'
  <1>1. CASE CloseList \/ Insert \/ LookUp \/ Report \/ UNCHANGED replayVars
    BY <1>1, SameReplayOrder DEF ReplayInv, Waiting, CloseList, Insert, LookUp, Report,
    replayVars,
       callVars, readVars
  <1> QED BY <1>1, ReadKeepsOrder, EnqueueKeepsOrder, DequeueKeepsOrder,
  PopKeepsReplayOrder
      DEF ReplayNext, ReadStep, CallStep

\* Every step keeps the invariant.
LEMMA ReplayStepKeeps == ASSUME ReplayInv, [ReplayNext]_replayVars PROVE ReplayInv'
  BY ReplayTypeStep, HandStep, ReplayOrderStep DEF ReplayInv

-------------------------------------------------------------------------------

\* What has been handed out is a beginning of the recorded run.
LEMMA Ahead ==
  ASSUME NEW d \in Seq(RecordedEvents), NEW w \in Seq(RecordedEvents),
         NEW n \in 0..Len(File),
         d \o w = Replayed(First(n))
  PROVE  \E rest \in Seq(RecordedEvents) : Replayed(FlattenSeq(File)) = d \o rest
  <1>1. PICK t \in Seq(RecordedRuns) : FlattenSeq(File) = First(n) \o t
    BY ChunksJoin
  <1>2. First(n) \in Seq(RecordedRuns)
    BY ChunksJoin
  <1> DEFINE u == Replayed(t)
  <1>3. Replayed(First(n) \o t) = Replayed(First(n)) \o u /\ u \in Seq(RecordedEvents)
    BY <1>1, <1>2, ReplayedParts
  <1> HIDE DEF u
  <1>4. d \o w \o u = d \o (w \o u) /\ w \o u \in Seq(RecordedEvents)
    <2>1. d \in Seq(RecordedEvents) /\ w \in Seq(RecordedEvents)
            /\ u \in Seq(RecordedEvents)
      BY <1>3
    <2>2. d \o w \o u = d \o (w \o u)
      BY <2>1, ReplayTogether, Zenon
    <2>3. w \o u \in Seq(RecordedEvents)
      BY <2>1, ConcatProperties
    <2> QED BY <2>1, <2>2, <2>3
  <1>5. Replayed(FlattenSeq(File)) = d \o (w \o u)
    BY <1>1, <1>3, <1>4
  <1> QED BY <1>4, <1>5

\* Handing an event out is the delivery of the next one of the recorded run.
LEMMA PopDelivers == ASSUME ReplayInv, ReplayInv', PopReplay PROVE Stream!Deliver
  <1> DEFINE e == replaying.event
             d == Append(delivered, e)
  <1>1. /\ delivered' = d /\ delivered \in Seq(RecordedEvents)
        /\ replaying \in RecordedRuns
        /\ status' = "dequeued" /\ replaying # NoEvent
    BY DEF ReplayInv, ReplayTypeOK, InHand, PopReplay
  <1>2. e \in RecordedEvents
    BY <1>1, OneAndRest
  <1>3. d \in Seq(RecordedEvents) /\ Len(d) = Len(delivered) + 1
          /\ d[Len(delivered) + 1] = e
    BY <1>1, <1>2, AppendProperties
  <1>4. /\ d \o Replayed(Waiting') = Replayed(First(chunks'))
        /\ Replayed(Waiting') \in Seq(RecordedEvents) /\ chunks' \in 0..Len(File)
    <2>1. /\ replaying' \in RecordedRuns \cup {NoEvent}
          /\ replayEvents' \in Seq(RecordedRuns) /\ left' \in Seq(RecordedRuns)
      BY DEF ReplayInv, ReplayTypeOK
    <2>2. Replayed(Waiting') \in Seq(RecordedEvents)
      BY <2>1, CountedAre, ReplayedParts DEF Waiting
    <2>3. chunks' \in 0..Len(File)
      BY DEF ReplayInv, ReplayTypeOK
    <2>4. delivered' \o Replayed(Waiting') = Replayed(First(chunks'))
      BY DEF ReplayInv, ReplayedInOrder
    <2> QED BY <1>1, <2>2, <2>3, <2>4
  <1> HIDE DEF d
  <1>5. PICK rest \in Seq(RecordedEvents) : Replayed(FlattenSeq(File)) = d \o rest
    BY <1>3, <1>4, Ahead
  <1>6. /\ Len(d \o rest) = Len(d) + Len(rest) /\ Len(rest) \in Nat
        /\ \A i \in 1..(Len(d) + Len(rest)) :
              (d \o rest)[i] = IF i <= Len(d) THEN d[i] ELSE rest[i - Len(d)]
    BY <1>3, <1>5, ConcatProperties, LenProperties
  <1>7. Len(delivered) \in Nat
    BY <1>1, LenProperties
  <1>8. Len(delivered) < Len(d \o rest) /\ (d \o rest)[Len(delivered) + 1] = e
    BY <1>3, <1>6, <1>7
  <1>9. status # "finish"
    BY DEF ReplayInv, FinishIsLast, InHand, PopReplay
  <1>10. status' # "finish"
    BY <1>1
  <1> QED BY <1>1, <1>5, <1>8, <1>9, <1>10 DEF Stream!Deliver, d

\* "finish" is reported when everything was handed out.
LEMMA FinishAtEnd ==
  ASSUME ReplayInv, replayEvents = <<>>, replaying = NoEvent, replayClosed
  PROVE  delivered = Replayed(FlattenSeq(File))
  <1>1. left = <<>> /\ chunks = Len(File)
    BY DEF ReplayInv, InHand
  <1>2. Waiting = <<>> \o <<>> \o <<>>
    BY <1>1 DEF Waiting
  <1>3. Waiting = <<>>
    BY <1>2
  <1>4. delivered \o <<>> = Replayed(FlattenSeq(File))
    BY <1>1, <1>3, ReplayedParts, ChunksJoin DEF ReplayInv, ReplayedInOrder
  <1> QED BY <1>4, ConcatEmptySeq DEF ReplayInv, ReplayTypeOK

\* Every step delivers the next event, says that it was the last, or is not seen.
LEMMA StepRefines ==
  ASSUME ReplayInv, ReplayInv', [ReplayNext]_replayVars
  PROVE  [Stream!Next]_<<delivered, status = "finish">>
  <1>1. CASE PopReplay
    BY <1>1, PopDelivers DEF Stream!Next
  <1>2. CASE Report
    <2>1. CASE WasClosed
      <3>1. replayEvents = <<>> /\ replaying = NoEvent /\ replayClosed
        BY <1>2, <2>1 DEF ReplayInv, InHand, Report, WasClosed
      <3>2. delivered = Replayed(FlattenSeq(File))
        BY <3>1, FinishAtEnd
      <3>3. status' = "finish" /\ delivered' = delivered
        BY <1>2, <2>1 DEF Report
      <3> QED BY <3>2, <3>3 DEF Stream!Next, Stream!Finish
    <2>2. CASE ~WasClosed
      <3>1. status # "finish" /\ status' # "finish" /\ delivered' = delivered
        BY <1>2, <2>2 DEF ReplayInv, InHand, FinishIsLast, Report, WasClosed
      <3> QED BY <3>1
    <2> QED BY <2>1, <2>2
  <1>3. CASE LookUp
    <2>1. delivered' = delivered /\ (status' = status \/ (~created
            /\ status' = "empty"))
      BY <1>3 DEF LookUp
    <2>2. ~created => status # "finish"
      BY DEF ReplayInv, FinishIsLast
    <2> QED BY <2>1, <2>2
  <1>4. CASE ReadStep \/ Dequeue \/ UNCHANGED replayVars
    <2>1. UNCHANGED <<delivered, status>>
      BY <1>4 DEF ReadStep, ReadChunk, CloseList, Insert, EnqueueReplay, Dequeue,
      replayVars,
         callVars
    <2> QED BY <2>1
  <1> QED BY <1>1, <1>2, <1>3, <1>4 DEF ReplayNext, CallStep

\* Whatever the record file holds, the replayed application is given the recorded
\* events, each as often as it was recorded and in order, and is told "finish"
\* after the last one only.
THEOREM ReplayIsStream == ReplaySpec => StreamSpec
  <1>1. ReplayInit => ReplayInv
    BY ReplayInitEstablishes
  <1>2. ReplayInit => Stream!Init
    BY DEF ReplayInit, Stream!Init
  <1>3. ReplayInv /\ [ReplayNext]_replayVars => ReplayInv'
    BY ReplayStepKeeps
  <1>4. ReplayInv /\ ReplayInv' /\ [ReplayNext]_replayVars
          => [Stream!Next]_<<delivered, status = "finish">>
    BY StepRefines
  <1> QED BY <1>1, <1>2, <1>3, <1>4, PTL DEF ReplaySpec, StreamSpec, Stream!Spec
===============================================================================
