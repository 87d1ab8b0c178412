------------------------------ MODULE MpiReplayInv ------------------------------
(***************************************************************************)
(* What is invariant in the recorded run and in the replay of an MPI       *)
(* program: the definitions that MpiReplay_proofs is about.                *)
(*                                                                         *)
(* The invariant Inv has three parts.                                      *)
(*   Channels   What MPI promises of messages, in both runs: those between *)
(*              two processes stay in order, each goes to one receive, and *)
(*              none is lost.                                              *)
(*   Recording  In the recorded run, what each step of a process left in   *)
(*              its record, entry by entry of its history.                 *)
(*   Replaying  In the replay, each process is in the state the history    *)
(*              has for its place, and each receive that got a message got *)
(*              the one it had got before.                                 *)
(*                                                                         *)
(* That nothing stops a process (MpiReplay!NoError) takes a second one,    *)
(* Sure: what the table of wanted sources, the posted receives and the     *)
(* last source have to do with the program and the history.  It holds of   *)
(* programs that are accepted, and its steps use that Inv is kept, and     *)
(* Nulled: that a receive is over only when it has its message.            *)
(*                                                                         *)
(* The operators these are made of take the state as parameters, so that   *)
(* they can be applied to that of a process or of a run alike.  Last come  *)
(* the terms in which the lemmas speak of a call and of a step.            *)
(***************************************************************************)
EXTENDS MpiReplay, SharedLemmas

\* What follows is about values: programs P, the operation A[p] each process p executes
\* next, the messages M of requests, T on their way, U unexpected, and posted receives Q.

IsSend(P, p, k) == k \in DOMAIN P[p] /\ P[p][k].op = "isend"
IsRecv(P, p, k) == k \in DOMAIN P[p] /\ P[p][k].op = "irecv"
Takes(P, p, k, m) == P[p][k].tag \in {AnyTag, m.tag}

\* m is what process s has sent to process d.
Sent(P, M, m, s, d) ==
  /\ m \in Sendable /\ m.from = s /\ m.to = d
  /\ IsSend(P, s, m.n) /\ M[s][m.n] = m

\* Receive k of process d has a message.
Has(P, M, d, k) == IsRecv(P, d, k) /\ M[d][k] # None

Tables(P, M) == DOMAIN M = Ranks /\ \A p \in Ranks : DOMAIN M[p] = DOMAIN P[p]

\* Requests have messages that were sent: a send its own, a receive one it takes.
SendsOwn(P, M) ==
  \A p \in Ranks : \A k \in DOMAIN P[p] : M[p][k] # None =>
    \/ IsRecv(P, p, k)
    \/ /\ IsSend(P, p, k) /\ M[p][k] \in Sendable
       /\ M[p][k].from = p /\ M[p][k].n = k /\ M[p][k].tag = P[p][k].tag
ReceivesSent(P, M) ==
  \A d \in Ranks : \A k \in DOMAIN P[d] : Has(P, M, d, k) =>
    /\ M[d][k].from \in Ranks
    /\ Sent(P, M, M[d][k], M[d][k].from, d) /\ Takes(P, d, k, M[d][k])

\* No message is received twice.
ReceivedOnce(P, M) ==
  \A d \in Ranks : \A j, k \in DOMAIN P[d] :
    Has(P, M, d, j) /\ Has(P, M, d, k) /\ M[d][j] = M[d][k] => j = k

\* Of the messages of a process that a receive takes, it does not get one that was sent
\* after another that no earlier receive gets.
InTurn(P, M) ==
  \A d \in Ranks : \A k \in DOMAIN P[d] : Has(P, M, d, k) =>
    \A x \in Sendable :
      Sent(P, M, x, M[d][k].from, d) /\ x.n < M[d][k].n /\ Takes(P, d, k, x) =>
        \E j \in DOMAIN P[d] : j < k /\ Has(P, M, d, j) /\ M[d][j] = x

MessagesRight(P, M) ==
  /\ Tables(P, M) /\ SendsOwn(P, M) /\ ReceivesSent(P, M) /\ ReceivedOnce(P, M)
  /\ InTurn(P, M)

TravellingRight(P, M, T) ==
  /\ T \in [Ranks \X Ranks -> Seq(Sendable)]
  /\ \A s, d \in Ranks :
       /\ \A m \in ToSet(T[<<s, d>>]) : Sent(P, M, m, s, d)
       /\ ByNumber(T[<<s, d>>])

\* The message m to d has arrived.
Arrived(T, d, m) == \A x \in ToSet(T[<<m.from, d>>]) : m.n < x.n

UnexpectedRight(P, M, T, U) ==
  /\ U \in [Ranks -> Seq(Sendable)]
  /\ \A d \in Ranks :
       /\ \A m \in ToSet(U[d]) :
            m.from \in Ranks /\ Sent(P, M, m, m.from, d) /\ Arrived(T, d, m)
       /\ BySource(U[d])

ReceivedArrived(P, M, T, U) ==
  \A d \in Ranks : \A k \in DOMAIN P[d] : Has(P, M, d, k) =>
    Arrived(T, d, M[d][k]) /\ M[d][k] \notin ToSet(U[d])

NoneLost(P, M, T, U) ==
  \A s, d \in Ranks : \A m \in Sendable : Sent(P, M, m, s, d) =>
    \/ m \in ToSet(T[<<s, d>>])
    \/ m \in ToSet(U[d])
    \/ \E k \in DOMAIN P[d] : Has(P, M, d, k) /\ M[d][k] = m

Pipes(P, M, T, U) ==
  /\ MessagesRight(P, M) /\ TravellingRight(P, M, T) /\ UnexpectedRight(P, M, T, U)
  /\ ReceivedArrived(P, M, T, U) /\ NoneLost(P, M, T, U)

Waiting == [k : Nat, source : Sources \cup Peers, tag : Tags \cup {AnyTag}]

\* A posted receive matches no message that has arrived, except those of earlier receives.
PostedReceive(P, A, M, U, d, r) ==
  /\ IsRecv(P, d, r.k) /\ r.k < A[d] /\ r.tag = P[d][r.k].tag
  /\ M[d][r.k] = None
  /\ \A m \in ToSet(U[d]) : ~Matches(r.source, r.tag, m)
  /\ \A k \in DOMAIN P[d] :
       Has(P, M, d, k) /\ Matches(r.source, r.tag, M[d][k]) => k < r.k
PostedRight(P, A, M, U, Q) ==
  /\ Q \in [Ranks -> Seq(Waiting)]
  /\ \A d \in Ranks : \A r \in ToSet(Q[d]) : PostedReceive(P, A, M, U, d, r)
  /\ \A d \in Ranks : ByRequest(Q[d])

\* Every receive that can get a message and has none is posted.
OpenPosted(P, A, M, Q) ==
  \A d \in Ranks : \A k \in DOMAIN P[d] :
    IsRecv(P, d, k) /\ k < A[d] /\ M[d][k] = None =>
      NoSender(P, d, k) \/ \E r \in ToSet(Q[d]) : r.k = k

Progress(P, A, M) ==
  /\ A \in [Ranks -> Nat]
  /\ \A p \in Ranks :
       /\ A[p] \in 1..(Len(P[p]) + 1)
       /\ \A k \in DOMAIN P[p] :
            /\ M[p][k] # None => k < A[p]
            /\ IsSend(P, p, k) /\ k < A[p] => M[p][k] # None

Channels(P, A, M, T, U, Q) ==
  /\ Pipes(P, M, T, U) /\ PostedRight(P, A, M, U, Q) /\ OpenPosted(P, A, M, Q)
  /\ Progress(P, A, M)

\* The queues and counts after a step.
WithLast(T, p, m) == [T EXCEPT ![<<p, m.to>>] = Append(@, m)]
WithoutFirst(T, s, d) == [T EXCEPT ![<<s, d>>] = Tail(@)]
WithElement(U, d, e) == [U EXCEPT ![d] = Append(@, e)]
Without(U, d, i) == [U EXCEPT ![d] = RemoveAt(@, i)]
Next1(A, p) == [A EXCEPT ![p] = @ + 1]

-------------------------------------------------------------------------------
\* What a process does, as values: an operation c of code, the requests req and messages
\* ms of the process, and the indices is that a call of a matching function completes.

PeerOf(c, last) == IF c.peer = LastSource THEN last ELSE c.peer
WithOf(c, req, states) == {i \in 1..Len(c.among) : req[c.among[i]] \in states}
NulledBy(c, req, is) ==
  [k \in DOMAIN req |-> IF \E i \in is : c.among[i] = k THEN "null" ELSE req[k]]
ResultsOf(c, req, ms, is) ==
  [j \in DOMAIN InOrder(is) |->
     <<InOrder(is)[j],
       IF req[c.among[InOrder(is)[j]]] = "null" THEN None ELSE ms[c.among[InOrder(is)[j]]]>>]
ReceivedOf(c, req, ms, is) ==
  {i \in is : req[c.among[i]] \in {"recv", "ignored"} /\ ms[c.among[i]] # None}
GreatestOf(is) == CHOOSE i \in is : \A j \in is : j <= i
LastOf(c, req, ms, is, last) ==
  IF ReceivedOf(c, req, ms, is) = {} THEN last
  ELSE ms[c.among[GreatestOf(ReceivedOf(c, req, ms, is))]].from
TestsOf(p, c, req, ms, is) ==
  IF is = {} THEN <<NoMatch>>
  ELSE [j \in DOMAIN InOrder(is) |->
          [kind |-> "test", flag |-> 1, index |-> InOrder(is)[j],
           rank |-> IF req[c.among[InOrder(is)[j]]] = "null" THEN AnySource
                    ELSE Rank(p, ms[c.among[InOrder(is)[j]]]),
           next |-> WithNext(j, Cardinality(is))]]
EventCount(is) == IF is = {} THEN 1 ELSE Cardinality(is)

\* The state of a process, and the one after it has made or changed request k.
St(req, last, what, n) == [request |-> req, lastSource |-> last, seen |-> what, events |-> n]
Made(h, k, state, n) == St([h.request EXCEPT ![k] = state], h.lastSource, h.seen, n)

\* ReMPI may keep no account of request j.
Unaccounted(P, p, j) == P[p][j].op = "unsupported" \/ (IsRecv(P, p, j) /\ Cancels(P[p], j))

\* The state before operation k.
StateRight(P, p, k, h) ==
  /\ h = St(h.request, h.lastSource, h.seen, h.events)
  /\ h.request \in [DOMAIN P[p] -> RequestStates]
  /\ h.lastSource \in Ranks \cup {None} /\ IsSeq(h.seen) /\ h.events \in Nat
  /\ \A j \in DOMAIN P[p] :
       /\ (IsSend(P, p, j) \/ IsRecv(P, p, j)) /\ j < k => h.request[j] # "none"
       /\ j >= k => h.request[j] = "none"
       /\ h.request[j] = "send" => IsSend(P, p, j)
       /\ h.request[j] = "recv" => IsRecv(P, p, j)
       /\ h.request[j] = "ignored" => Unaccounted(P, p, j)

\* What operation k of process p has made of state h in the recorded run, g, as far as
\* its messages M and the record E tell.
KeptSend(P, M, p, k, h, g) ==
  /\ g = Made(h, k, "send", h.events)
  /\ M[p][k] = [from |-> p, to |-> PeerOf(P[p][k], h.lastSource), tag |-> P[p][k].tag, n |-> k]
KeptOther(k, h, g) == g = Made(h, k, "ignored", h.events)
KeptRecv(k, h, g, E) ==
  /\ g = Made(h, k, "recv", h.events + 1)
  /\ h.events + 1 \in DOMAIN E /\ E[h.events + 1].kind = "recv" /\ E[h.events + 1].k = k
Matched(c, k, h, ms, is, n) ==
  St(NulledBy(c, h.request, is), LastOf(c, h.request, ms, is, h.lastSource),
     Append(h.seen, <<k, ResultsOf(c, h.request, ms, is)>>), n)
Unrecorded(c, req) == WithOf(c, req, {"send", "recv"}) = {}
EventsOf(c, req, is) == IF Unrecorded(c, req) THEN 0 ELSE EventCount(is)
KeptMatchOf(M, p, k, c, h, g, E, is) ==
  /\ g = Matched(c, k, h, M[p], is, h.events + EventsOf(c, h.request, is))
  /\ \A i \in is : h.request[c.among[i]] \in {"send", "recv"} => M[p][c.among[i]] # None
  /\ WithOf(c, h.request, {"ignored"}) \in {{}, 1..Len(c.among)}
  /\ Unrecorded(c, h.request) => is = WithOf(c, h.request, {"ignored"})
  /\ ~Unrecorded(c, h.request) /\ NoChoice(c) => is = 1..Len(c.among)
  /\ \A j \in 1..EventsOf(c, h.request, is) :
       /\ h.events + j \in DOMAIN E
       /\ E[h.events + j] = TestsOf(p, c, h.request, M[p], is)[j]
KeptMatch(M, p, k, c, h, g, E) ==
  \E is \in SUBSET (1..Len(c.among)) : KeptMatchOf(M, p, k, c, h, g, E, is)

\* The message m that a probe saw is the one that receive k of its source would get.
ProbedRight(P, M, p, k, m) ==
  /\ m \in Sendable /\ m.from \in Ranks /\ Sent(P, M, m, m.from, p) /\ Takes(P, p, k, m)
  /\ \A x \in Sendable : Sent(P, M, x, m.from, p) /\ x.n < m.n /\ Takes(P, p, k, x) =>
       \E j \in DOMAIN P[p] : j < k /\ Has(P, M, p, j) /\ M[p][j] = x
  /\ \A j \in DOMAIN P[p] : j < k /\ Has(P, M, p, j) => M[p][j] # m
KeptProbe(P, M, T, when, p, k, h, g, E) ==
  \E m \in Sendable \cup {None} :
    /\ g = St(h.request, IF m = None THEN h.lastSource ELSE m.from,
              Append(h.seen, <<k, m>>), h.events + 1)
    /\ h.events + 1 \in DOMAIN E /\ E[h.events + 1] = ProbeEvent(m)
    /\ m # None => ProbedRight(P, M, p, k, m)
    /\ m # None /\ when = "record" => Arrived(T, p, m)
KeptCancel(c, h, g) == g = Made(h, c.k, "ignored", h.events)
Kept(P, M, T, when, p, k, h, g, E) ==
  /\ P[p][k].op = "isend" => KeptSend(P, M, p, k, h, g)
  /\ P[p][k].op = "unsupported" => KeptOther(k, h, g)
  /\ P[p][k].op = "irecv" => KeptRecv(k, h, g, E)
  /\ P[p][k].op = "match" => KeptMatch(M, p, k, P[p][k], h, g, E)
  /\ P[p][k].op \in {"probe", "iprobe"} => KeptProbe(P, M, T, when, p, k, h, g, E)
  /\ P[p][k].op = "cancel" => KeptCancel(P[p][k], h, g)

\* The sources in the record of receives that are over.
RanksRight(P, M, p, req, E) ==
  \A n \in DOMAIN E : E[n].kind = "recv" =>
    /\ IsRecv(P, p, E[n].k)
    /\ req[E[n].k] = "null" /\ ~Cancels(P[p], E[n].k) =>
         M[p][E[n].k] # None /\ E[n].rank = M[p][E[n].k].from

\* H is the history of process p up to operation K, and E its record.
HistoryRight(P, M, T, when, p, H, K, E) ==
  /\ DOMAIN H = 1..(Len(P[p]) + 1)
  /\ H[1] = St([k \in DOMAIN P[p] |-> "none"], None, <<>>, 0)
  /\ \A k \in 1..K :
       /\ StateRight(P, p, k, H[k])
       /\ \A j \in DOMAIN P[p] : H[k].request[j] = "null" => H[K].request[j] = "null"
       /\ PrefixOf(H[k].seen, H[K].seen)
       /\ k < K => Kept(P, M, T, when, p, k, H[k], H[k + 1], E)
  /\ RanksRight(P, M, p, H[K].request, E)
  /\ E \in Seq(Events)

\* The recorded run, as it goes on.
RecordingAt(P, M, T, p, H, k, E, h) ==
  HistoryRight(P, M, T, "record", p, H, k, E) /\ H[k] = h /\ h.events = Len(E)
RecordingOf(P, A, M, T, H, E, req, last, what) ==
  \A p \in Ranks : RecordingAt(P, M, T, p, H[p], A[p], E[p],
                               St(req[p], last[p], what[p], Len(E[p])))
Recording == mode = "record" =>
    RecordingOf(Program, at, msg, travelling, history, events, request, lastSource, seen)

\* Receives whose source the record does not name get no message.
SourcesKnown(P, M, p, H, E) ==
  \A k \in DOMAIN P[p] : IsRecv(P, p, k) =>
    NoSender(P, p, k) \/ (M[p][k] # None /\ E[H[k].events + 1].rank = M[p][k].from)

\* A request of the replay has the message N that it had in the recorded run, M.
SameMessages(P, M, N) ==
  \A p \in Ranks : \A k \in DOMAIN P[p] : N[p][k] # None => N[p][k] = M[p][k]
PostedSources(P, M, Q) ==
  \A d \in Ranks : \A r \in ToSet(Q[d]) :
    NoSender(P, d, r.k) \/ (M[d][r.k] # None /\ r.source = M[d][r.k].from)

\* The replay: each process is where it was before the same operation.
ReplayingAt(P, M, p, H, E, what, k, h) ==
  /\ HistoryRight(P, M, <<>>, "replay", p, H, Len(P[p]) + 1, E)
  /\ SourcesKnown(P, M, p, H, E) /\ what = H[Len(P[p]) + 1].seen /\ H[k] = h
ReplayingOf(P, A, M, H, E, rec, req, last, what, n) ==
  \A p \in Ranks : ReplayingAt(P, M, p, H[p], E[p], rec[p], A[p],
                               St(req[p], last[p], what[p], n[p]))
Replaying == mode = "replay" =>
    /\ MessagesRight(Program, recMsg) /\ SameMessages(Program, recMsg, msg)
    /\ PostedSources(Program, recMsg, posted)
    /\ ReplayingOf(Program, at, recMsg, history, events, recSeen, request, lastSource, seen, pos)

-------------------------------------------------------------------------------
\* What a step does to these values.

\* The messages of requests when one of them gets one.
With1(M, p, k, m) == [M EXCEPT ![p][k] = m]

\* Receive k of process p may get the message m: it is the oldest that the receive
\* takes, of those that nobody has got.
CanGet(P, M, p, k, m) ==
  /\ IsRecv(P, p, k) /\ M[p][k] = None
  /\ m.from \in Ranks /\ Sent(P, M, m, m.from, p) /\ Takes(P, p, k, m)
  /\ \A j \in DOMAIN P[p] : Has(P, M, p, j) => M[p][j] # m
  /\ \A x \in Sendable : Sent(P, M, x, m.from, p) /\ x.n < m.n /\ Takes(P, p, k, x) =>
       \E j \in DOMAIN P[p] : j < k /\ Has(P, M, p, j) /\ M[p][j] = x

\* V is T with the message m of process p on its way; one to nobody is not.
AlsoSent(T, V, p, m) ==
  /\ V \in [Ranks \X Ranks -> Seq(Sendable)]
  /\ \A s, d \in Ranks :
       V[<<s, d>>] = IF s = p /\ d = m.to THEN Append(T[<<s, d>>], m) ELSE T[<<s, d>>]

\* V is T after m, the first message from s to d, has arrived.
Leaves(P, M, T, V, s, d, m) ==
  /\ TravellingRight(P, M, V)
  /\ m.from = s /\ Sent(P, M, m, s, d) /\ Arrived(V, d, m) /\ m \in ToSet(T[<<s, d>>])
  /\ \A e \in Ranks : \A x : x.from \in Ranks /\ Arrived(T, e, x) => Arrived(V, e, x)
  /\ \A a, b \in Ranks : \A x \in ToSet(T[<<a, b>>]) :
       x \in ToSet(V[<<a, b>>]) \/ (x = m /\ a = s /\ b = d)
  /\ \A x \in ToSet(T[<<s, d>>]) : x = m \/ m.n < x.n

\* B is A after process p has done an operation.
Advances(P, A, B, p) ==
  /\ B \in [Ranks -> Nat] /\ B[p] = A[p] + 1
  /\ \A q \in Ranks : /\ A[q] \in Nat /\ B[q] \in Nat /\ A[q] <= B[q]
                      /\ B[q] \in 1..(Len(P[q]) + 1) /\ (q # p => B[q] = A[q])
  /\ \A q \in Ranks : \A k \in DOMAIN P[q] :
       k \in Nat /\ (k < B[q] <=> k < A[q] \/ (q = p /\ k = A[p]))

\* No receive is posted in R that is not in Q.
NoNewPosts(Q, R) == \A d \in Ranks : ToSet(R[d]) \subseteq ToSet(Q[d])

\* R is Q without the i-th posted receive of process d.
Dropped(Q, R, d, i) ==
  /\ R \in [Ranks -> Seq(Waiting)] /\ \A e \in Ranks : e # d => R[e] = Q[e]
  /\ NoNewPosts(Q, R) /\ ByRequest(R[d])
  /\ \A x \in ToSet(R[d]) :
       x.k # Q[d][i].k /\ \E j \in DOMAIN Q[d] : j # i /\ x = Q[d][j]
  /\ \A x \in ToSet(Q[d]) : x = Q[d][i] \/ x \in ToSet(R[d])

\* Receive i of process d is the first one that the message matches.
TakesFirst(Q, d, i, m) ==
  /\ i \in DOMAIN Q[d] /\ Matches(Q[d][i].source, Q[d][i].tag, m)
  /\ \A j \in DOMAIN Q[d] : Matches(Q[d][j].source, Q[d][j].tag, m) => i <= j

\* t are n events, which belong together and name the requests is.
GroupOf(t, is, n) ==
  /\ n \in Nat /\ n >= 1 /\ DOMAIN t = 1..n
  /\ \A j \in 1..n :
       /\ t[j].kind = "test" /\ t[j].next \in BOOLEAN /\ (t[j].next <=> j < n)
       /\ (is = {} => t[j].flag = 0)
       /\ (is # {} => t[j].flag = 1 /\ t[j].index \in is)
  /\ \A i \in is : \E j \in 1..n : t[j].index = i

\* N and V are the messages and the channels after a step; before it they were M and T.
Stays(P, M, N) == \A p \in Ranks : \A k \in DOMAIN P[p] : M[p][k] # None => N[p][k] = M[p][k]
SentLater(P, M, N) ==
  \A s, d \in Ranks : \A x \in Sendable : Sent(P, N, x, s, d) =>
    Sent(P, M, x, s, d) \/ \A y \in Sendable : Sent(P, M, y, s, d) => y.n < x.n
GotLater(P, A, M, T, N) ==
  \A d \in Ranks : \A j \in DOMAIN P[d] : Has(P, N, d, j) =>
    Has(P, M, d, j) \/ j = A[d] \/ ~Arrived(T, d, N[d][j])
ArrivedStays(P, M, T, V) ==
  \A d \in Ranks : \A m \in Sendable :
    m.from \in Ranks /\ Sent(P, M, m, m.from, d) /\ Arrived(T, d, m) => Arrived(V, d, m)
GrowsTo(P, A, M, T, N, V) ==
  Stays(P, M, N) /\ SentLater(P, M, N) /\ GotLater(P, A, M, T, N) /\ ArrivedStays(P, M, T, V)

\* The record grows, and the sources of its receives are set.
EventsGrow(E, F) ==
  \A n \in DOMAIN E :
    /\ n \in DOMAIN F /\ (E[n].kind # "recv" => F[n] = E[n])
    /\ (E[n].kind = "recv" => F[n].kind = "recv" /\ F[n].k = E[n].k)

\* Requests become null, or ignored.
RequestsAfter(P, p, k, h, req) ==
  /\ req \in [DOMAIN P[p] -> RequestStates]
  /\ \A j \in DOMAIN P[p] :
       \/ req[j] = h.request[j]
       \/ j < k /\ req[j] = "null"
       \/ j < k /\ req[j] = "ignored" /\ Unaccounted(P, p, j)
SeenAfter(h, what) == what = h.seen \/ \E x : what = Append(h.seen, x)

\* Operation k of process p makes no request, and turns state h into g.
Follows(P, p, k, h, g) ==
  /\ g = St(g.request, g.lastSource, g.seen, g.events)
  /\ RequestsAfter(P, p, k, h, g.request) /\ g.lastSource \in Ranks \cup {None}
  /\ SeenAfter(h, g.seen) /\ g.events \in Nat

\* Operation k of process p turns state h and record E into g and F.
Moves(P, N, V, p, k, h, g, E, F) ==
  /\ StateRight(P, p, k + 1, g)
  /\ \A j \in DOMAIN P[p] : h.request[j] = "null" => g.request[j] = "null"
  /\ PrefixOf(h.seen, g.seen)
  /\ Kept(P, N, V, "record", p, k, h, g, F)
  /\ RanksRight(P, N, p, g.request, F)
  /\ EventsGrow(E, F) /\ F \in Seq(Events) /\ g.events = Len(F)

\* The record E when the receives R have the sources.
Noted(E, R, source) ==
  [n \in DOMAIN E |->
     IF E[n].kind = "recv" /\ E[n].k \in R THEN [E[n] EXCEPT !.rank = source[E[n].k]] ELSE E[n]]
NotedFrom(E, F, R, source) ==
  /\ F \in Seq(Events) /\ DOMAIN F = DOMAIN E /\ Len(F) = Len(E) /\ EventsGrow(E, F)
  /\ \A n \in DOMAIN E : F[n].kind = E[n].kind
  /\ \A n \in DOMAIN E : E[n].kind = "recv" =>
       F[n].k = E[n].k /\ F[n].rank = IF E[n].k \in R THEN source[E[n].k] ELSE E[n].rank

\* The record after a call: the sources of the receives it completed are set, and its
\* events follow.
ReceivesAmong(c, req, is) == {k \in Nat : \E i \in is : c.among[i] = k /\ req[k] = "recv"}
Written(P, p, c, req, M, is, E) ==
  Noted(E, ReceivesAmong(c, req, is), [k \in DOMAIN P[p] |-> SetRank(M[p][k])])
    \o TestsOf(p, c, req, M[p], is)
WrittenFrom(p, c, req, M, is, E, F) ==
  /\ F \in Seq(Events) /\ EventsGrow(E, F) /\ Len(F) = Len(E) + EventCount(is)
  /\ DOMAIN E = 1..Len(E) /\ DOMAIN F = 1..(Len(E) + EventCount(is))
  /\ Len(E) \in Nat /\ EventCount(is) \in Nat
  /\ \A n \in DOMAIN F : F[n].kind = "recv" =>
       /\ n \in DOMAIN E /\ E[n].kind = "recv" /\ F[n].k = E[n].k
       /\ F[n].rank = IF E[n].k \in ReceivesAmong(c, req, is)
                      THEN M[p][E[n].k].from ELSE E[n].rank
  /\ \A j \in 1..EventCount(is) : F[Len(E) + j] = TestsOf(p, c, req, M[p], is)[j]

\* g is the state after a call that completes the requests is.
Completes(P, p, k, c, h, is, n, g) ==
  /\ StateRight(P, p, k + 1, g) /\ PrefixOf(h.seen, g.seen) /\ g.events = n
  /\ g.request = NulledBy(c, h.request, is)
  /\ \A j \in DOMAIN P[p] :
       g.request[j] = IF \E i \in is : c.among[i] = j THEN "null" ELSE h.request[j]

-------------------------------------------------------------------------------
\* The first invariant, of the state.

\* The programs it is about.
AllReplayable == \A program \in Programs : Replayable(program)

\* Channels, of the state.
Chans == Channels(Program, at, msg, travelling, unexpected, posted)
Frames ==
  /\ DOMAIN request = Ranks /\ DOMAIN lastSource = Ranks /\ DOMAIN seen = Ranks
  /\ DOMAIN events = Ranks /\ DOMAIN pos = Ranks /\ DOMAIN history = Ranks

\* The inductive invariant.
Inv ==
  /\ Program \in Programs /\ mode \in {"record", "replay"}
  /\ Frames /\ Chans /\ Recording /\ Replaying

RecState(p) == St(request[p], lastSource[p], seen[p], Len(events[p]))
RepState(p) == St(request[p], lastSource[p], seen[p], pos[p])

\* What the invariant says of a process that executes an operation, in both runs, in the
\* recorded run and in the replay.
Right(p) ==
  /\ Program \in Programs /\ p \in Ranks /\ at[p] \in DOMAIN Program[p] /\ Chans
  /\ MessagesRight(Program, msg) /\ Progress(Program, at, msg) /\ Tables(Program, msg)
  /\ Frames
RecRight(p) ==
  /\ Right(p) /\ mode = "record" /\ StateRight(Program, p, at[p], RecState(p))
  /\ events[p] \in Seq(Events) /\ RecState(p).events = Len(events[p])
  /\ RanksRight(Program, msg, p, RecState(p).request, events[p])
RepRight(p) ==
  /\ Right(p) /\ mode = "replay" /\ MessagesRight(Program, recMsg)
  /\ SameMessages(Program, recMsg, msg) /\ PostedSources(Program, recMsg, posted)
  /\ StateRight(Program, p, at[p], RepState(p))
  /\ Kept(Program, recMsg, <<>>, "replay", p, at[p], RepState(p), history[p][at[p] + 1],
          events[p])
  /\ events[p] \in Seq(Events) /\ history[p][at[p]] = RepState(p)
  /\ SourcesKnown(Program, recMsg, p, history[p], events[p])

\* What a run starts with.
Fresh ==
  /\ at = [p \in Ranks |-> 1]
  /\ travelling = [channel \in Ranks \X Ranks |-> <<>>]
  /\ unexpected = [p \in Ranks |-> <<>>] /\ posted = [p \in Ranks |-> <<>>]
  /\ msg = [p \in Ranks |-> [k \in DOMAIN Program[p] |-> None]]
  /\ request = [p \in Ranks |-> [k \in DOMAIN Program[p] |-> "none"]]
  /\ lastSource = [p \in Ranks |-> None] /\ seen = [p \in Ranks |-> <<>>]
  /\ pos = [p \in Ranks |-> 0]

-------------------------------------------------------------------------------
\* The second invariant is about one process at a time: its operations code, k the next of
\* them, its history h, and so on.

PeerAt(code, h, k) == PeerOf(code[k], h[k].lastSource)

\* ReMPI keeps no account of the requests the program takes from it, and of no others.
IgnoredLost(code, k, req) ==
  \A j \in DOMAIN code : req[j] = "ignored" => Lost(code, k, j)

\* The table of sources has what the application asked for.
WantedRight(code, k, h, w) ==
  /\ w \in [DOMAIN code -> Ranks \cup {AnySource, None}]
  /\ \A j \in DOMAIN code : code[j].op = "irecv" /\ j < k => w[j] = PeerAt(code, h, j)

SendsRight(code, ms) ==
  \A j \in DOMAIN code : code[j].op = "isend" /\ ms[j] # None => ms[j].to \in Ranks
PostsTyped(q) == \A r \in ToSet(q) : r.source \in Ranks \cup {AnySource}
PostsWanted(q, w) == \A r \in ToSet(q) : r.source = w[r.k]
RanksGiven(E) ==
  \A n \in DOMAIN E : E[n].kind = "recv" => E[n].rank \in Ranks \cup {AnySource, Canceled}

\* A process that must have got a message knows where the last one came from.
SourceKnown(code, K, h) ==
  \A k \in 1..K : (\E j \in 1..(k - 1) : Informs(code, j)) => h[k].lastSource \in Ranks
NullKnown(code, k, req, last) ==
  \A j \in DOMAIN code :
    code[j].op = "irecv" /\ req[j] = "null" /\ ~CanceledBefore(code, k, j) => last \in Ranks

\* A receive that is over, and was not cancelled, has its message.
NullGot(code, k, req, ms) ==
  \A j \in DOMAIN code :
    code[j].op = "irecv" /\ req[j] = "null" /\ ~CanceledBefore(code, k, j) => ms[j] # None
Nulled == \A p \in Ranks : NullGot(Program[p], at[p], request[p], msg[p])

\* What a probe saw came from where it looked, and so did what a receive got.
FromPeer(peer, m) == m # None => peer \in {AnySource, m.from}
LastSeen(s) == s[Len(s)][2]
ProbesRight(code, K, h) ==
  \A k \in DOMAIN code : k < K /\ code[k].op \in {"probe", "iprobe"} =>
    FromPeer(PeerAt(code, h, k), LastSeen(h[k + 1].seen))
GotFrom(code, ms, h) ==
  \A k \in DOMAIN code : code[k].op = "irecv" => FromPeer(PeerAt(code, h, k), ms[k])

\* The operations the history has, and the messages of the recorded run.
Past(p) == IF mode = "record" THEN at[p] ELSE Len(Program[p]) + 1
FirstGot == IF mode = "record" THEN msg ELSE recMsg

SureOf(p) ==
  /\ IgnoredLost(Program[p], at[p], request[p])
  /\ WantedRight(Program[p], at[p], history[p], wanted[p])
  /\ SendsRight(Program[p], msg[p]) /\ PostsTyped(posted[p]) /\ RanksGiven(events[p])
  /\ SourceKnown(Program[p], Past(p), history[p])
  /\ ProbesRight(Program[p], Past(p), history[p])
  /\ GotFrom(Program[p], FirstGot[p], history[p])
  /\ mode = "record" => /\ pos[p] = 0 /\ PostsWanted(posted[p], wanted[p])
                        /\ NullKnown(Program[p], at[p], request[p], lastSource[p])
  /\ mode # "record" => pos[p] \in 0..Len(events[p])
Sure == DOMAIN wanted = Ranks /\ failed = {} /\ \A p \in Ranks : SureOf(p)

\* The programs it is about.
AllAccepted == \A program \in Programs : Accepted(program)

-------------------------------------------------------------------------------
\* The terms in which the proofs say what a call, a message or a step of a process does.

\* Two tables of messages give the same results of a call.
Agree(c, req, ms, ns, is) ==
  \A i \in is : req[c.among[i]] = "null" \/ ms[c.among[i]] = ns[c.among[i]]
MatchedSame(c, k, h, ms, ns, is) == \A n : Matched(c, k, h, ms, is, n) = Matched(c, k, h, ns, is, n)
TestsSame(p, c, req, ms, ns, is) == TestsOf(p, c, req, ms, is) = TestsOf(p, c, req, ns, is)

\* What a process becomes that sees message m, or none.
Probed(h, k, m, n) ==
  St(h.request, IF m = None THEN h.lastSource ELSE m.from, Append(h.seen, <<k, m>>), n)

\* The requests of a call have their messages; the call nulls them.
HaveMessages(c, req, ms, is) ==
  \A i \in is : req[c.among[i]] \in {"send", "recv"} => ms[c.among[i]] # None
Nulls(P, p, c, req, new, is) ==
  \A j \in DOMAIN P[p] : new[j] = IF \E i \in is : c.among[i] = j THEN "null" ELSE req[j]

\* The source is the one that the receive had in the recorded run.
SourceHad(P, M, d, k, source) ==
  NoSender(P, d, k) \/ (M[d][k] # None /\ source = M[d][k].from)

\* Where a group of events ends, and the requests it says are complete.
EndOfGroup(E, a) ==
  SelectInSubSeq(E, a + 1, Len(E), LAMBDA e : e.kind = "recv" \/ ~e.next)
Completing(es) == {e.index : e \in {e \in ToSet(es) : e.kind = "test" /\ e.flag = 1}}
EventsAt(E, a, t, n) == \A j \in 1..n : a + j \in DOMAIN E /\ E[a + j] = t[j]

\* Outcome, of a call c of a process with these requests and messages.
ReadyOf(c, req, ms) ==
  {i \in WithOf(c, req, {"send", "recv", "ignored"}) :
     req[c.among[i]] = "ignored" \/ ms[c.among[i]] # None}
OutcomeOf(c, req, ms, is) ==
  \/ ~c.waits /\ is = {}
  \/ c.kind = "one"  /\ \E i \in ReadyOf(c, req, ms) : is = {i}
  \/ c.kind = "some" /\ is \in SUBSET ReadyOf(c, req, ms) /\ is # {}
  \/ /\ c.kind = "all" /\ ReadyOf(c, req, ms) = WithOf(c, req, {"send", "recv", "ignored"})
     /\ is = 1..Len(c.among)

\* What a call that is not recorded completes: the requests ReMPI keeps no account of.
PassedBy(c, req, ms, is) ==
  /\ is \in SUBSET (1..Len(c.among)) /\ Unrecorded(c, req)
  /\ WithOf(c, req, {"ignored"}) \in {{}, 1..Len(c.among)}
  /\ IF WithOf(c, req, {"ignored"}) = {} THEN is = {} ELSE OutcomeOf(c, req, ms, is)

\* A process of the replay is about to call a matching function.
Repeats(P, A, M, N, p, k, c, h) ==
  /\ P \in Programs /\ Replayable(P) /\ MessagesRight(P, M) /\ MessagesRight(P, N)
  /\ SameMessages(P, M, N) /\ Progress(P, A, N)
  /\ p \in Ranks /\ k \in DOMAIN P[p] /\ k = A[p] /\ c = P[p][k] /\ c.op = "match"
  /\ StateRight(P, p, k, h)

\* The receives that a call of the replay waits for have their messages.
Awaited(c, req, js, ns) == \A i \in js \cap WithOf(c, req, {"recv"}) : ns[c.among[i]] # None

\* What HistoryRight says of operation k.
KeptAt(P, M, T, when, p, H, K, E, k) ==
  /\ StateRight(P, p, k, H[k])
  /\ \A j \in DOMAIN P[p] : H[k].request[j] = "null" => H[K].request[j] = "null"
  /\ PrefixOf(H[k].seen, H[K].seen)
  /\ k < K => Kept(P, M, T, when, p, k, H[k], H[k + 1], E)

\* A receive that the process waits for is complete in the end.
NullAt(H, K, k) == H[K].request[k] = "null"

\* Only process p has changed; entry k of its history is g now.
OthersSame(f, g, p) == \A q \in Ranks : q # p => g[q] = f[q]
EntrySet(H, G, p, k, g) == G[p] = [H[p] EXCEPT ![k] = g]

\* Only process p changes.
Others(p) ==
  /\ OthersSame(request, request', p) /\ OthersSame(lastSource, lastSource', p)
  /\ OthersSame(seen, seen', p)

\* The part of Step that is common to its actions.
StepRest(p) ==
  /\ UNCHANGED <<Program, mode, recSeen, recMsg>>
  /\ history' = IF mode = "record"
                THEN [history EXCEPT ![p][at'[p]] = Now(p)'] ELSE history

\* An operation that only sets what ReMPI knows of request k.
RequestSet(p, k, state) ==
  request' = [request EXCEPT ![p][k] = state] /\ UNCHANGED <<lastSource, seen>>
StateMade(p, k, state) ==
  \A x, n : St(request'[p], lastSource'[p], seen'[p], n) =
              Made(St(request[p], lastSource[p], seen[p], x), k, state, n)

\* Isend sends a message.
MessageOf(p) ==
  [from |-> p, to |-> PeerOf(Program[p][at[p]], lastSource[p]), tag |-> Program[p][at[p]].tag,
   n |-> at[p]]
SendsMessage(p, m) ==
  /\ m \in Sendable /\ m.from = p /\ m.n = at[p]
  /\ IsSend(Program, p, at[p])
  /\ msg' = With1(msg, p, at[p], m) /\ travelling' = WithLast(travelling, p, m) /\ Chans'

\* A process cancels a receive.
Cancelling(p) ==
  Executes(p, "cancel") /\ request[p][Op(p).k] = "recv" /\ CancelRecv(p)

\* The events of a cancelled receive say so.
CancelNote(k) == [j \in {k} |-> Canceled]

\* A receive is posted, or takes a message that has arrived.
PostsReceive(p, source, r) ==
  /\ r \in Waiting /\ r.k = at[p] /\ r.source = source
  /\ posted' = WithElement(posted, p, r) /\ msg' = msg
TakesMessage(p, source, i, m) ==
  /\ i \in DOMAIN unexpected[p] /\ m = unexpected[p][i]
  /\ Matches(source, Program[p][at[p]].tag, m) /\ CanGet(Program, msg, p, at[p], m)
  /\ msg' = With1(msg, p, at[p], m) /\ posted' = posted

\* Nothing the invariant speaks of changes.
SameState ==
  UNCHANGED <<Program, mode, at, request, lastSource, seen, events, pos, history, msg,
              travelling, unexpected, posted, recSeen, recMsg>>

\* A step in which a process sees message m, or none.
Saw(p, m) ==
  \A x, n : St(request'[p], lastSource'[p], seen'[p], n) =
              Probed(St(request[p], lastSource[p], seen[p], x), at[p], m, n)

\* The sources of the messages ms; and a call, with what the state has for it.
SourcesOf(P, p, ms) == [j \in DOMAIN P[p] |-> SetRank(ms[j])]
CallOf(P, p, k, c, req, ms, E, is) ==
  /\ P \in Programs /\ p \in Ranks /\ k \in DOMAIN P[p] /\ c = P[p][k]
  /\ c.op = "match" /\ c = Op(p) /\ req = request[p] /\ ms = msg[p]
  /\ E \in Seq(Events) /\ E = events[p] /\ is \in SUBSET (1..Len(c.among))

\* What a process becomes when its call returns.
Did(p, is) ==
  \A x, n : St(request'[p], lastSource'[p], seen'[p], n) =
              Matched(Program[p][at[p]], at[p], St(request[p], lastSource[p], seen[p], x),
                      msg[p], is, n)

\* What changes when a message reaches a process: it waits there, or a receive gets it.
Delivered(s, d, m) ==
  /\ s \in Ranks /\ d \in Ranks /\ travelling[<<s, d>>] # <<>> /\ m = Head(travelling[<<s, d>>])
  /\ travelling' = WithoutFirst(travelling, s, d)
ArrivesUnexpected(d, m) ==
  /\ \A r \in ToSet(posted[d]) : ~Matches(r.source, r.tag, m)
  /\ unexpected' = WithElement(unexpected, d, m) /\ UNCHANGED <<posted, msg>>
GoesTo(d, i, m) ==
  /\ i \in DOMAIN posted[d] /\ Matches(posted[d][i].source, posted[d][i].tag, m)
  /\ \A j \in DOMAIN posted[d] : Matches(posted[d][j].source, posted[d][j].tag, m) => i <= j
  /\ msg' = With1(msg, d, posted[d][i].k, m)
  /\ posted' = Without(posted, d, i) /\ UNCHANGED unexpected

\* Operations are numbered; two histories agree up to one of them.
Numbers(code) == DOMAIN code = 1..Len(code) /\ Len(code) \in Nat
EarlierSame(h, g, k) == \A j \in 1..k : g[j] = h[j]

\* One element is changed.
SetAt(w, k, x, v) == v = [w EXCEPT ![k] = x]

\* Only operations before k have messages.
NoneFrom(code, ms, k) == \A j \in DOMAIN code : ms[j] # None => j < k

\* What there is to know of a process that does an operation.
Here(p) ==
  /\ Right(p) /\ Numbers(Program[p]) /\ at[p] \in 1..Len(Program[p])
  /\ history[p][at[p]].lastSource = lastSource[p]
  /\ \E n : StateRight(Program, p, at[p], St(request[p], lastSource[p], seen[p], n))
  /\ NoneFrom(Program[p], msg[p], at[p]) /\ events[p] \in Seq(Events)

\* What a step of p does to the places of processes and to the history.
HistoryStep1(p) ==
  /\ at'[p] = at[p] + 1 /\ OthersSame(at, at', p)
  /\ EarlierSame(history[p], history'[p], at[p]) /\ OthersSame(history, history', p)
  /\ mode = "record" => /\ history'[p][at[p] + 1].lastSource = lastSource'[p]
                        /\ history'[p][at[p] + 1].seen = seen'[p]

\* What a step must see to in the recorded run, besides.
SureRecord(p) ==
  /\ GotFrom(Program[p], msg'[p], history[p])
  /\ PostsWanted(posted'[p], wanted'[p]) /\ pos' = pos
  /\ NullKnown(Program[p], at[p] + 1, request'[p], lastSource'[p])
  /\ lastSource[p] \in Ranks \/ Informs(Program[p], at[p]) => lastSource'[p] \in Ranks
  /\ Program[p][at[p]].op \in {"probe", "iprobe"} =>
       FromPeer(PeerAt(Program[p], history[p], at[p]), LastSeen(seen'[p]))

\* Nothing of another process changes.
OnlyOf(p) ==
  /\ Others(p) /\ OthersSame(wanted, wanted', p) /\ OthersSame(events, events', p)
  /\ OthersSame(msg, msg', p) /\ OthersSame(posted, posted', p) /\ OthersSame(pos, pos', p)
  /\ DOMAIN wanted' = Ranks

\* The call c, operation k of process p, completes the requests is; it is given requests
\* of earlier operations.
Call(P, p, k, c, h, req, ms, is) ==
  /\ k \in DOMAIN P[p] /\ c = P[p][k] /\ c.op = "match" /\ Len(c.among) \in Nat
  /\ \A i \in 1..Len(c.among) : c.among[i] \in DOMAIN P[p] /\ c.among[i] < k
  /\ ToSet(c.among) = {c.among[i] : i \in 1..Len(c.among)}
  /\ StateRight(P, p, k, h) /\ req = h.request /\ IgnoredLost(P[p], k, req)
  /\ is \in SUBSET (1..Len(c.among)) /\ HaveMessages(c, req, ms, is)
  /\ \A i \in is : ms[c.among[i]] # None => ms[c.among[i]].from \in Ranks

\* The event of a request that a call completed.
EventOf(p, c, req, ms, i, e) ==
  /\ e.kind = "test" /\ e.flag = 1 /\ e.index = i
  /\ e.rank = IF req[c.among[i]] = "null" THEN AnySource ELSE Rank(p, ms[c.among[i]])

\* A request that the replay has to complete, and the source it has to have.
Awaiting(P, p, k, h, req, j, N) ==
  /\ StateRight(P, p, k, h) /\ req = h.request /\ j \in DOMAIN P[p] /\ j < k
  /\ req[j] = "recv" => N[p][j] # None
Expected(p, req, j, M, N, w) ==
  /\ req[j] = "send" => Rank(p, M[p][j]) = N[p][j].to
  /\ req[j] = "recv" => w[j] \in {AnySource, N[p][j].from}

\* A process that has done nothing in this run.
FreshRight(code, req, w, ms, q) ==
  /\ \A k \in DOMAIN code : req[k] = "none" /\ ms[k] = None
  /\ w = [k \in DOMAIN code |-> None] /\ q = <<>>

\* No request loses its message.
MoreMessages ==
  \A p \in Ranks : \A j \in DOMAIN Program[p] : msg[p][j] # None => msg'[p][j] # None

\* What a step does to the requests of the process that it is of.
Nulling(p) ==
  \A j \in DOMAIN Program[p] :
    /\ Program[p][j].op = "irecv" /\ request'[p][j] = "null"
    /\ ~CanceledBefore(Program[p], at[p], j)
    => request[p][j] = "null" \/ msg'[p][j] # None

\* The messages of a process are a function of its operations.
Shaped == \A p \in Ranks : msg[p] = [k \in DOMAIN msg[p] |-> msg[p][k]]

=================================================================================
