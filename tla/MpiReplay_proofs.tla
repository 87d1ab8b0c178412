---------------------------- MODULE MpiReplay_proofs ----------------------------
(***************************************************************************)
(* The replay of an MPI program shows every process what it observed in    *)
(* the recorded run (MpiReplay!ReplayFaithful), for any number of          *)
(* processes, messages and operations.                                     *)
(*                                                                         *)
(* The invariants, Inv and for NoError also Sure, are in MpiReplayInv.  The *)
(* lemmas go from values to the state: first what a step does to messages  *)
(* and queues, then to the history and the record of a process, then each  *)
(* action of the specification for Inv, and each of them for Sure.         *)
(***************************************************************************)
EXTENDS MpiReplayInv

-------------------------------------------------------------------------------
\* What SelectInSeq finds in the queues.

FirstMatch(q, source, tag) == SelectInSeq(q, LAMBDA m : Matches(source, tag, m))

\* The first message of a queue that matches.
LEMMA FirstMessage ==
  ASSUME NEW S, NEW q \in Seq(S), NEW source, NEW tag
  PROVE  IF \A m \in ToSet(q) : ~Matches(source, tag, m)
         THEN FirstMatch(q, source, tag) = 0
         ELSE /\ FirstMatch(q, source, tag) \in DOMAIN q
              /\ Matches(source, tag, q[FirstMatch(q, source, tag)])
              /\ \A j \in DOMAIN q : Matches(source, tag, q[j]) =>
                   FirstMatch(q, source, tag) <= j
  <1> DEFINE I == {i \in 1..Len(q) : Matches(source, tag, q[i])}
             i == FirstMatch(q, source, tag)
  <1>1. i = IF I # {} THEN Min(I) ELSE 0
    BY DEF FirstMatch, SelectInSeq
  <1>2. I \in SUBSET Nat /\ 0 \notin I
    BY LenProperties
  <1>3. IF I = {} THEN i = 0 ELSE i \in I /\ \A j \in I : i <= j
    <2> HIDE DEF I, i
    <2> QED BY <1>1, <1>2, LeastFound
  <1>4. DOMAIN q = 1..Len(q) /\ ToSet(q) = {q[j] : j \in 1..Len(q)}
    BY LenProperties DEF ToSet
  <1> HIDE DEF i
  <1>5. IF \A m \in ToSet(q) : ~Matches(source, tag, m)
        THEN i = 0
        ELSE /\ i \in DOMAIN q /\ Matches(source, tag, q[i])
             /\ \A j \in DOMAIN q : Matches(source, tag, q[j]) => i <= j
    BY <1>3, <1>4
  <1> QED BY <1>5 DEF i

FirstTaker(q, m) == SelectInSeq(q, LAMBDA r : Matches(r.source, r.tag, m))

\* The first posted receive that takes a message.
LEMMA FirstPosted ==
  ASSUME NEW S, NEW q \in Seq(S), NEW m
  PROVE  IF \A r \in ToSet(q) : ~Matches(r.source, r.tag, m)
         THEN FirstTaker(q, m) = 0
         ELSE /\ FirstTaker(q, m) \in DOMAIN q
              /\ Matches(q[FirstTaker(q, m)].source, q[FirstTaker(q, m)].tag, m)
              /\ \A j \in DOMAIN q : Matches(q[j].source, q[j].tag, m) =>
                   FirstTaker(q, m) <= j
  <1> DEFINE I == {i \in 1..Len(q) : Matches(q[i].source, q[i].tag, m)}
             i == FirstTaker(q, m)
  <1>1. i = IF I # {} THEN Min(I) ELSE 0
    BY DEF FirstTaker, SelectInSeq
  <1>2. I \in SUBSET Nat /\ 0 \notin I
    BY LenProperties
  <1>3. IF I = {} THEN i = 0 ELSE i \in I /\ \A j \in I : i <= j
    <2> HIDE DEF I, i
    <2> QED BY <1>1, <1>2, LeastFound
  <1>4. DOMAIN q = 1..Len(q) /\ ToSet(q) = {q[j] : j \in 1..Len(q)}
    BY LenProperties DEF ToSet
  <1> HIDE DEF i
  <1>5. IF \A r \in ToSet(q) : ~Matches(r.source, r.tag, m)
        THEN i = 0
        ELSE /\ i \in DOMAIN q /\ Matches(q[i].source, q[i].tag, m)
             /\ \A j \in DOMAIN q : Matches(q[j].source, q[j].tag, m) => i <= j
    BY <1>3, <1>4
  <1> QED BY <1>5 DEF i

WhereIs(q, k) == SelectInSeq(q, LAMBDA r : r.k = k)

\* Where a receive is posted.
LEMMA PostedRequest ==
  ASSUME NEW S, NEW q \in Seq(S), NEW k
  PROVE  IF \A r \in ToSet(q) : r.k # k
         THEN WhereIs(q, k) = 0
         ELSE WhereIs(q, k) \in DOMAIN q /\ q[WhereIs(q, k)].k = k
  <1> DEFINE I == {i \in 1..Len(q) : q[i].k = k}
             i == WhereIs(q, k)
  <1>1. i = IF I # {} THEN Min(I) ELSE 0
    BY DEF WhereIs, SelectInSeq
  <1>2. I \in SUBSET Nat /\ 0 \notin I
    BY LenProperties
  <1>3. IF I = {} THEN i = 0 ELSE i \in I /\ \A j \in I : i <= j
    <2> HIDE DEF I, i
    <2> QED BY <1>1, <1>2, LeastFound
  <1>4. DOMAIN q = 1..Len(q) /\ ToSet(q) = {q[j] : j \in 1..Len(q)}
    BY LenProperties DEF ToSet
  <1> HIDE DEF i
  <1>5. IF \A r \in ToSet(q) : r.k # k THEN i = 0
        ELSE i \in DOMAIN q /\ q[i].k = k
    BY <1>3, <1>4
  <1> QED BY <1>5 DEF i

-------------------------------------------------------------------------------
\* Programs, and what requests have.

\* Operations are numbered, and typed.
LEMMA OpsAreNumbers ==
  ASSUME NEW P \in Programs, NEW p \in Ranks
  PROVE  /\ DOMAIN P[p] = 1..Len(P[p]) /\ Len(P[p]) \in Nat
         /\ \A k \in DOMAIN P[p] : k \in Nat /\ k >= 1 /\ P[p][k] \in Operations
  <1>1. P \in [Ranks -> Seq(Operations)]
    BY ProgramAssumption
  <1>2. P[p] \in Seq(Operations)
    BY <1>1
  <1>3. /\ DOMAIN P[p] = 1..Len(P[p]) /\ Len(P[p]) \in Nat
        /\ \A k \in 1..Len(P[p]) : P[p][k] \in Operations
    BY <1>2, LenProperties, ElementOfSeq
  <1> QED BY <1>3

\* Those that name a peer have a tag.
LEMMA OperationHasTag ==
  ASSUME NEW P \in Programs, NEW p \in Ranks, NEW k \in DOMAIN P[p],
         P[p][k].op \in {"isend", "irecv", "probe", "iprobe"}
  PROVE  P[p][k].tag \in Tags \cup {AnyTag} /\ P[p][k].peer \in Peers
  <1>1. P[p][k] \in Operations
    BY OpsAreNumbers
  <1>2. PICK c : c = P[p][k]
    OBVIOUS
  <1>3. c \in Operations /\ c.op \in {"isend", "irecv", "probe", "iprobe"}
    BY <1>1, <1>2
  <1>4. c \in [op : {"isend", "irecv", "probe", "iprobe"}, peer : Peers,
               tag : Tags \cup {AnyTag}]
    BY <1>3 DEF Operations
  <1>5. c.tag \in Tags \cup {AnyTag} /\ c.peer \in Peers
    BY <1>4
  <1> QED BY <1>2, <1>5

\* One entry of the table changes.
LEMMA With1Values ==
  ASSUME NEW P, NEW M, Tables(P, M), NEW p \in Ranks, NEW k \in DOMAIN P[p], NEW m
  PROVE  /\ Tables(P, With1(M, p, k, m))
         /\ \A q \in Ranks : \A j \in DOMAIN P[q] :
              With1(M, p, k, m)[q][j] = IF q = p /\ j = k THEN m ELSE M[q][j]
  <1> DEFINE N == With1(M, p, k, m)
  <1>1. N = [M EXCEPT ![p] = [M[p] EXCEPT ![k] = m]]
    BY Zenon DEF With1
  <1>2. DOMAIN M = Ranks /\ \A q \in Ranks : DOMAIN M[q] = DOMAIN P[q]
    BY DEF Tables
  <1>3. DOMAIN N = Ranks /\ N[p] = [M[p] EXCEPT ![k] = m]
        /\ \A q \in Ranks : q # p => N[q] = M[q]
    BY <1>1, <1>2
  <1>4. DOMAIN N[p] = DOMAIN M[p]
    BY <1>3
  <1>5. N[p][k] = m
    BY <1>2, <1>3
  <1>6. \A j \in DOMAIN P[p] : j # k => N[p][j] = M[p][j]
    BY <1>2, <1>3
  <1> HIDE DEF N
  <1>7. Tables(P, N)
    BY <1>2, <1>3, <1>4, Zenon DEF Tables
  <1>8. \A q \in Ranks : \A j \in DOMAIN P[q] :
          N[q][j] = IF q = p /\ j = k THEN m ELSE M[q][j]
    BY <1>3, <1>5, <1>6
  <1> QED BY <1>7, <1>8 DEF N

\* What has been sent stays sent.
LEMMA SentStays ==
  ASSUME NEW P, NEW M, NEW N, NEW x, NEW s, NEW d, Sent(P, M, x, s, d),
         \A j \in DOMAIN P[s] : M[s][j] # None => N[s][j] = M[s][j]
  PROVE  Sent(P, N, x, s, d)
  <1>1. x # None
    BY MpiAssumption DEF Sent
  <1> QED BY <1>1 DEF Sent, IsSend

\* What changes when a receive gets a message.
LEMMA GetsChanges ==
  ASSUME NEW P, NEW M, Tables(P, M), NEW p \in Ranks, NEW k \in DOMAIN P[p], NEW m,
         CanGet(P, M, p, k, m), NEW N, N = With1(M, p, k, m)
  PROVE  /\ Tables(P, N)
         /\ \A q \in Ranks : \A j \in DOMAIN P[q] :
              /\ N[q][j] = IF q = p /\ j = k THEN m ELSE M[q][j]
              /\ Has(P, N, q, j) <=> Has(P, M, q, j) \/ (q = p /\ j = k)
         /\ \A x, d : \A s \in Ranks : Sent(P, N, x, s, d) <=> Sent(P, M, x, s, d)
  <1>1. Tables(P, N) /\ \A q \in Ranks : \A j \in DOMAIN P[q] :
          N[q][j] = IF q = p /\ j = k THEN m ELSE M[q][j]
    BY With1Values
  <1>2. IsRecv(P, p, k) /\ M[p][k] = None /\ m \in Sendable
    BY DEF CanGet, Sent
  <1>3. m # None
    BY <1>2, MpiAssumption
  <1>4. \A q \in Ranks : \A j \in DOMAIN P[q] :
          Has(P, N, q, j) <=> Has(P, M, q, j) \/ (q = p /\ j = k)
    BY <1>1, <1>2, <1>3 DEF Has
  <1>5. ASSUME NEW x, NEW d, NEW s \in Ranks
        PROVE  Sent(P, N, x, s, d) <=> Sent(P, M, x, s, d)
    <2>1. ASSUME IsSend(P, s, x.n) PROVE N[s][x.n] = M[s][x.n]
      BY <1>1, <1>2, <2>1 DEF IsSend, IsRecv
    <2> QED BY <2>1 DEF Sent
  <1> QED BY <1>1, <1>4, <1>5

\* The table stays right.
LEMMA GetsRight ==
  ASSUME NEW P, NEW M, MessagesRight(P, M), NEW p \in Ranks, NEW k \in DOMAIN P[p], NEW m,
         CanGet(P, M, p, k, m), NEW N, N = With1(M, p, k, m)
  PROVE  MessagesRight(P, N)
  <1>0. Tables(P, M)
    BY DEF MessagesRight
  <1>1. /\ Tables(P, N)
        /\ \A q \in Ranks : \A j \in DOMAIN P[q] :
             /\ N[q][j] = IF q = p /\ j = k THEN m ELSE M[q][j]
             /\ Has(P, N, q, j) <=> Has(P, M, q, j) \/ (q = p /\ j = k)
        /\ \A x, d : \A s \in Ranks : Sent(P, N, x, s, d) <=> Sent(P, M, x, s, d)
    BY <1>0, GetsChanges
  <1>2. IsRecv(P, p, k) /\ M[p][k] = None /\ m.from \in Ranks
        /\ Sent(P, M, m, m.from, p) /\ Takes(P, p, k, m)
        /\ (\A j \in DOMAIN P[p] : Has(P, M, p, j) => M[p][j] # m)
    BY DEF CanGet
  <1>3. \A x \in Sendable : Sent(P, M, x, m.from, p) /\ x.n < m.n /\ Takes(P, p, k, x) =>
          \E j \in DOMAIN P[p] : j < k /\ Has(P, M, p, j) /\ M[p][j] = x
    BY DEF CanGet
  <1>4. SendsOwn(P, N)
    <2>1. SendsOwn(P, M)
      BY DEF MessagesRight
    <2> QED BY <1>1, <1>2, <2>1 DEF SendsOwn
  <1>5. ReceivesSent(P, N)
    <2>1. ReceivesSent(P, M)
      BY DEF MessagesRight
    <2> SUFFICES ASSUME NEW d \in Ranks, NEW j \in DOMAIN P[d], Has(P, N, d, j)
                 PROVE  /\ N[d][j].from \in Ranks
                        /\ Sent(P, N, N[d][j], N[d][j].from, d) /\ Takes(P, d, j, N[d][j])
      BY DEF ReceivesSent
    <2>2. CASE d = p /\ j = k
      BY <1>1, <1>2, <2>2
    <2>3. CASE ~(d = p /\ j = k)
      <3>1. N[d][j] = M[d][j] /\ Has(P, M, d, j)
        BY <1>1, <2>3
      <3>2. M[d][j].from \in Ranks
            /\ Sent(P, M, M[d][j], M[d][j].from, d) /\ Takes(P, d, j, M[d][j])
        BY <2>1, <3>1 DEF ReceivesSent
      <3> QED BY <1>1, <3>1, <3>2
    <2> QED BY <2>2, <2>3
  <1>6. ReceivedOnce(P, N)
    <2>1. ReceivedOnce(P, M)
      BY DEF MessagesRight
    <2> SUFFICES ASSUME NEW d \in Ranks, NEW i \in DOMAIN P[d], NEW j \in DOMAIN P[d],
                        Has(P, N, d, i), Has(P, N, d, j), N[d][i] = N[d][j]
                 PROVE  i = j
      BY DEF ReceivedOnce
    <2>2. CASE d = p /\ i = k
      BY <1>1, <1>2, <2>2
    <2>3. CASE d = p /\ j = k
      BY <1>1, <1>2, <2>3
    <2>4. CASE ~(d = p /\ i = k) /\ ~(d = p /\ j = k)
      <3>1. N[d][i] = M[d][i] /\ N[d][j] = M[d][j] /\ Has(P, M, d, i) /\ Has(P, M, d, j)
        BY <1>1, <2>4
      <3> QED BY <2>1, <3>1 DEF ReceivedOnce
    <2> QED BY <2>2, <2>3, <2>4
  <1>7. InTurn(P, N)
    <2>1. InTurn(P, M) /\ ReceivesSent(P, M)
      BY DEF MessagesRight
    <2> SUFFICES ASSUME NEW d \in Ranks, NEW i \in DOMAIN P[d], Has(P, N, d, i),
                        NEW x \in Sendable, Sent(P, N, x, N[d][i].from, d),
                        x.n < N[d][i].n, Takes(P, d, i, x)
                 PROVE  \E j \in DOMAIN P[d] : j < i /\ Has(P, N, d, j) /\ N[d][j] = x
      BY DEF InTurn
    <2>2. ASSUME NEW j \in DOMAIN P[d], Has(P, M, d, j), M[d][j] = x
          PROVE  Has(P, N, d, j) /\ N[d][j] = x
      BY <1>1, <1>2, <2>2 DEF Has
    <2>3. CASE d = p /\ i = k
      <3>1. N[d][i] = m
        BY <1>1, <2>3
      <3>2. Sent(P, M, x, m.from, p)
        BY <1>1, <1>2, <2>3, <3>1
      <3>3. PICK j \in DOMAIN P[p] : j < k /\ Has(P, M, p, j) /\ M[p][j] = x
        BY <1>3, <2>3, <3>1, <3>2
      <3> QED BY <2>2, <2>3, <3>3
    <2>4. CASE ~(d = p /\ i = k)
      <3>1. N[d][i] = M[d][i] /\ Has(P, M, d, i)
        BY <1>1, <2>4
      <3>2. M[d][i].from \in Ranks
        BY <2>1, <3>1 DEF ReceivesSent
      <3>3. Sent(P, M, x, M[d][i].from, d)
        BY <1>1, <3>1, <3>2
      <3>4. PICK j \in DOMAIN P[d] : j < i /\ Has(P, M, d, j) /\ M[d][j] = x
        BY <2>1, <3>1, <3>3 DEF InTurn
      <3> QED BY <2>2, <3>4
    <2> QED BY <2>3, <2>4
  <1> QED BY <1>1, <1>4, <1>5, <1>6, <1>7 DEF MessagesRight

-------------------------------------------------------------------------------
\* A process sends.

\* A message added to its queue is on its way.
LEMMA LastSent ==
  ASSUME NEW T \in [Ranks \X Ranks -> Seq(Sendable)], NEW p \in Ranks, NEW m \in Sendable,
         NEW V, V = WithLast(T, p, m)
  PROVE  AlsoSent(T, V, p, m)
  <1> USE DEF AlsoSent
  <1>1. CASE m.to \in Ranks
    <2>1. T[<<p, m.to>>] \in Seq(Sendable)
      <3>1. <<p, m.to>> \in Ranks \X Ranks
        BY <1>1
      <3> QED BY <3>1
    <2>2. Append(T[<<p, m.to>>], m) \in Seq(Sendable)
      BY <2>1, AppendElements
    <2>3. V = [T EXCEPT ![<<p, m.to>>] = Append(T[<<p, m.to>>], m)]
      BY Zenon DEF WithLast
    <2>4. PICK q : q = Append(T[<<p, m.to>>], m)
      OBVIOUS
    <2>5. q \in Seq(Sendable) /\ V = [T EXCEPT ![<<p, m.to>>] = q]
      BY <2>2, <2>3, <2>4
    <2>6. /\ V \in [Ranks \X Ranks -> Seq(Sendable)]
          /\ \A s, d \in Ranks : V[<<s, d>>] = IF s = p /\ d = m.to THEN q ELSE T[<<s, d>>]
      BY <1>1, <2>5, QueueReplaced
    <2> QED BY <2>4, <2>6
  <1>2. CASE m.to \notin Ranks
    <2>1. <<p, m.to>> \notin DOMAIN T
      BY <1>2
    <2>2. V = T
      BY <2>1 DEF WithLast
    <2> QED BY <1>2, <2>2
  <1> QED BY <1>1, <1>2

\* The channels stay right when a message is sent.
LEMMA SendPipes ==
  ASSUME NEW P \in Programs, NEW M, NEW T, NEW U, Pipes(P, M, T, U),
         NEW p \in Ranks, NEW k \in DOMAIN P[p], IsSend(P, p, k), M[p][k] = None,
         \A j \in DOMAIN P[p] : M[p][j] # None => j < k,
         NEW m \in Sendable, m.from = p, m.n = k, m.tag = P[p][k].tag,
         NEW N, N = With1(M, p, k, m), NEW V, V = WithLast(T, p, m)
  PROVE  Pipes(P, N, V, U)
  <1>1. /\ MessagesRight(P, M) /\ TravellingRight(P, M, T) /\ UnexpectedRight(P, M, T, U)
        /\ ReceivedArrived(P, M, T, U) /\ NoneLost(P, M, T, U)
    BY DEF Pipes
  <1>2. /\ Tables(P, M) /\ SendsOwn(P, M) /\ ReceivesSent(P, M) /\ ReceivedOnce(P, M)
        /\ InTurn(P, M)
    BY <1>1 DEF MessagesRight
  <1>3. Tables(P, N) /\ \A q \in Ranks : \A j \in DOMAIN P[q] :
          N[q][j] = IF q = p /\ j = k THEN m ELSE M[q][j]
    BY <1>2, With1Values
  <1>4. m # None
    BY MpiAssumption
  <1>5. \A d \in Ranks : \A j \in DOMAIN P[d] :
          /\ Has(P, N, d, j) <=> Has(P, M, d, j)
          /\ Has(P, M, d, j) => N[d][j] = M[d][j]
    BY <1>3 DEF Has, IsRecv, IsSend
  <1>6. \A x, s, d : s \in Ranks =>
          (Sent(P, N, x, s, d) <=> Sent(P, M, x, s, d) \/ (x = m /\ s = p /\ d = m.to))
    <2> SUFFICES ASSUME NEW x, NEW s \in Ranks, NEW d
                 PROVE  Sent(P, N, x, s, d)
                          <=> Sent(P, M, x, s, d) \/ (x = m /\ s = p /\ d = m.to)
      OBVIOUS
    <2>1. CASE s = p /\ x.n = k
      <3>1. N[s][x.n] = m /\ M[s][x.n] = None /\ IsSend(P, s, x.n)
        BY <1>3, <2>1
      <3>2. ~Sent(P, M, x, s, d)
        BY <3>1, MpiAssumption DEF Sent
      <3>3. Sent(P, N, x, s, d) => x = m /\ s = p /\ d = m.to
        BY <2>1, <3>1 DEF Sent
      <3>4. x = m /\ s = p /\ d = m.to => Sent(P, N, x, s, d)
        BY <3>1 DEF Sent
      <3> QED BY <3>2, <3>3, <3>4
    <2>2. CASE ~(s = p /\ x.n = k)
      <3>1. IsSend(P, s, x.n) => N[s][x.n] = M[s][x.n]
        BY <1>3, <2>2 DEF IsSend
      <3>2. x = m => s # p
        BY <2>2
      <3> QED BY <3>1, <3>2 DEF Sent
    <2> QED BY <2>1, <2>2
  <1>7. \A x, d : Sent(P, M, x, p, d) => x.n < k
    <2> SUFFICES ASSUME NEW x, NEW d, Sent(P, M, x, p, d) PROVE x.n < k
      OBVIOUS
    <2>1. x.n \in DOMAIN P[p] /\ M[p][x.n] # None
      BY MpiAssumption DEF Sent, IsSend
    <2> QED BY <2>1
  <1>8. T \in [Ranks \X Ranks -> Seq(Sendable)] /\ U \in [Ranks -> Seq(Sendable)]
    BY <1>1 DEF TravellingRight, UnexpectedRight
  <1>9. /\ V \in [Ranks \X Ranks -> Seq(Sendable)]
        /\ \A s, d \in Ranks :
             V[<<s, d>>] = IF s = p /\ d = m.to THEN Append(T[<<s, d>>], m) ELSE T[<<s, d>>]
    <2>1. T \in [Ranks \X Ranks -> Seq(Sendable)] /\ m \in Sendable /\ V = WithLast(T, p, m)
      BY <1>8
    <2>2. AlsoSent(T, V, p, m)
      BY <2>1, LastSent
    <2> QED BY <2>2 DEF AlsoSent
  <1>10. \A s, d \in Ranks : T[<<s, d>>] \in Seq(Sendable)
    <2>1. \A s, d \in Ranks : <<s, d>> \in Ranks \X Ranks
      OBVIOUS
    <2> QED BY <1>8, <2>1
  <1>11. \A s, d \in Ranks :
           ToSet(V[<<s, d>>]) = ToSet(T[<<s, d>>]) \cup IF s = p /\ d = m.to THEN {m} ELSE {}
    <2> SUFFICES ASSUME NEW s \in Ranks, NEW d \in Ranks
                 PROVE  ToSet(V[<<s, d>>])
                          = ToSet(T[<<s, d>>]) \cup IF s = p /\ d = m.to THEN {m} ELSE {}
      OBVIOUS
    <2>1. CASE s = p /\ d = m.to
      <3>1. PICK q : q = T[<<s, d>>]
        OBVIOUS
      <3>2. ToSet(Append(q, m)) = ToSet(q) \cup {m}
        BY <1>10, <3>1, AppendElements
      <3> QED BY <1>9, <2>1, <3>1, <3>2
    <2>2. CASE ~(s = p /\ d = m.to)
      BY <1>9, <2>2
    <2> QED BY <2>1, <2>2
  <1>12. \A x, d : d \in Ranks /\ x.from \in Ranks /\ Sent(P, M, x, x.from, d)
           /\ Arrived(T, d, x) => Arrived(V, d, x)
    <2> SUFFICES ASSUME NEW x, NEW d \in Ranks, x.from \in Ranks,
                        Sent(P, M, x, x.from, d), Arrived(T, d, x),
                        NEW y \in ToSet(V[<<x.from, d>>])
                 PROVE  x.n < y.n
      BY DEF Arrived
    <2>1. y \in ToSet(T[<<x.from, d>>]) \/ (y = m /\ x.from = p)
      BY <1>11
    <2> QED BY <1>7, <2>1 DEF Arrived
  <1>13. MessagesRight(P, N)
    <2>1. SendsOwn(P, N)
      BY <1>2, <1>3 DEF SendsOwn
    <2>2. ReceivesSent(P, N)
      BY <1>2, <1>5, <1>6 DEF ReceivesSent
    <2>3. ReceivedOnce(P, N)
      BY <1>2, <1>5 DEF ReceivedOnce
    <2>4. InTurn(P, N)
      <3> SUFFICES ASSUME NEW d \in Ranks, NEW i \in DOMAIN P[d], Has(P, N, d, i),
                          NEW x \in Sendable, Sent(P, N, x, N[d][i].from, d),
                          x.n < N[d][i].n, Takes(P, d, i, x)
                   PROVE  \E j \in DOMAIN P[d] : j < i /\ Has(P, N, d, j) /\ N[d][j] = x
        BY DEF InTurn
      <3>1. PICK w : w = M[d][i]
        OBVIOUS
      <3>2. N[d][i] = w /\ Has(P, M, d, i) /\ w.from \in Ranks /\ Sent(P, M, w, w.from, d)
        BY <1>2, <1>5, <3>1 DEF ReceivesSent
      <3>3. Sent(P, M, x, w.from, d)
        <4>1. ASSUME x = m, w.from = p PROVE FALSE
          <5>1. w.n < k
            BY <1>7, <3>2, <4>1
          <5>2. k < w.n
            BY <3>2, <4>1
          <5>3. k \in Nat /\ w.n \in Nat
            BY <3>2, OpsAreNumbers DEF Sent, Sendable
          <5> QED BY <5>1, <5>2, <5>3
        <4> QED BY <1>6, <3>2, <4>1
      <3>4. PICK j \in DOMAIN P[d] : j < i /\ Has(P, M, d, j) /\ M[d][j] = x
        BY <1>2, <3>1, <3>2, <3>3 DEF InTurn
      <3> QED BY <1>5, <3>4
    <2> QED BY <1>3, <2>1, <2>2, <2>3, <2>4 DEF MessagesRight
  <1>14. TravellingRight(P, N, V)
    <2> SUFFICES ASSUME NEW s \in Ranks, NEW d \in Ranks
                 PROVE  /\ \A x \in ToSet(V[<<s, d>>]) : Sent(P, N, x, s, d)
                        /\ ByNumber(V[<<s, d>>])
      BY <1>9 DEF TravellingRight
    <2>1. (\A x \in ToSet(T[<<s, d>>]) : Sent(P, M, x, s, d)) /\ ByNumber(T[<<s, d>>])
      BY <1>1 DEF TravellingRight
    <2>2. \A x \in ToSet(V[<<s, d>>]) : Sent(P, N, x, s, d)
      BY <1>6, <1>11, <2>1
    <2>3. ByNumber(V[<<s, d>>])
      <3>1. CASE s = p /\ d = m.to
        <4>1. PICK q : q = T[<<s, d>>]
          OBVIOUS
        <4>2. q \in Seq(Sendable) /\ ByNumber(q) /\ \A x \in ToSet(q) : x.n < m.n
          BY <1>7, <1>10, <2>1, <3>1, <4>1
        <4>3. ByNumber(Append(q, m))
          BY <4>2, AppendOrder
        <4> QED BY <1>9, <3>1, <4>1, <4>3
      <3>2. CASE ~(s = p /\ d = m.to)
        BY <1>9, <2>1, <3>2
      <3> QED BY <3>1, <3>2
    <2> QED BY <2>2, <2>3
  <1>15. UnexpectedRight(P, N, V, U)
    BY <1>1, <1>6, <1>12 DEF UnexpectedRight
  <1>16. ReceivedArrived(P, N, V, U)
    <2> SUFFICES ASSUME NEW d \in Ranks, NEW j \in DOMAIN P[d], Has(P, N, d, j)
                 PROVE  Arrived(V, d, N[d][j]) /\ N[d][j] \notin ToSet(U[d])
      BY DEF ReceivedArrived
    <2>1. Has(P, M, d, j) /\ N[d][j] = M[d][j]
      BY <1>5
    <2>2. Arrived(T, d, M[d][j]) /\ M[d][j] \notin ToSet(U[d])
      BY <1>1, <2>1 DEF ReceivedArrived
    <2>3. M[d][j].from \in Ranks /\ Sent(P, M, M[d][j], M[d][j].from, d)
      BY <1>2, <2>1 DEF ReceivesSent
    <2> QED BY <1>12, <2>1, <2>2, <2>3
  <1>17. NoneLost(P, N, V, U)
    <2> SUFFICES ASSUME NEW s \in Ranks, NEW d \in Ranks, NEW x \in Sendable,
                        Sent(P, N, x, s, d)
                 PROVE  \/ x \in ToSet(V[<<s, d>>]) \/ x \in ToSet(U[d])
                        \/ \E j \in DOMAIN P[d] : Has(P, N, d, j) /\ N[d][j] = x
      BY DEF NoneLost
    <2>1. CASE x = m /\ s = p /\ d = m.to
      BY <1>11, <2>1
    <2>2. CASE Sent(P, M, x, s, d)
      <3>1. \/ x \in ToSet(T[<<s, d>>]) \/ x \in ToSet(U[d])
            \/ \E j \in DOMAIN P[d] : Has(P, M, d, j) /\ M[d][j] = x
        BY <1>1, <2>2 DEF NoneLost
      <3> QED BY <1>5, <1>11, <3>1
    <2> QED BY <1>6, <2>1, <2>2
  <1> QED BY <1>13, <1>14, <1>15, <1>16, <1>17 DEF Pipes

-------------------------------------------------------------------------------
\* A message arrives, or is received.

\* A message taken off its queue leaves it.
LEMMA Departed ==
  ASSUME NEW P \in Programs, NEW M, NEW T, TravellingRight(P, M, T),
         NEW s \in Ranks, NEW d \in Ranks, T[<<s, d>>] # <<>>,
         NEW m, m = Head(T[<<s, d>>]), NEW V, V = WithoutFirst(T, s, d)
  PROVE  Leaves(P, M, T, V, s, d, m)
  <1>1. /\ T \in [Ranks \X Ranks -> Seq(Sendable)]
        /\ \A a, b \in Ranks :
             /\ \A x \in ToSet(T[<<a, b>>]) : Sent(P, M, x, a, b)
             /\ ByNumber(T[<<a, b>>])
    BY DEF TravellingRight
  <1>2. PICK q : q = T[<<s, d>>]
    OBVIOUS
  <1>3. q \in Seq(Sendable) /\ q # <<>> /\ ByNumber(q) /\ m = Head(q)
    <2>1. <<s, d>> \in Ranks \X Ranks
      OBVIOUS
    <2> QED BY <1>1, <1>2, <2>1
  <1>4. /\ m \in ToSet(q)
        /\ \A x \in ToSet(Tail(q)) : x \in ToSet(q) /\ m.n < x.n
        /\ \A x \in ToSet(q) : x = m \/ x \in ToSet(Tail(q))
    BY <1>3, HeadFirst
  <1>5. Tail(q) \in Seq(Sendable) /\ ByNumber(Tail(q))
    <2>1. Tail(q) \in Seq(Sendable) /\ Thins(Tail(q), q, DOMAIN q \ {1})
      BY <1>3, TailThins
    <2>2. PICK t, K : t = Tail(q) /\ K = DOMAIN q \ {1}
      OBVIOUS
    <2>3. K \in SUBSET DOMAIN q /\ Thins(t, q, K)
      BY <2>1, <2>2
    <2>4. ByNumber(t)
      BY <1>3, <2>3, ThinsOrder
    <2> QED BY <2>1, <2>2, <2>4
  <1>6. PICK t : t = Tail(q)
    OBVIOUS
  <1>7. V = [T EXCEPT ![<<s, d>>] = t]
    BY <1>2, <1>6, Zenon DEF WithoutFirst
  <1>8. t \in Seq(Sendable)
    BY <1>5, <1>6
  <1>9. /\ V \in [Ranks \X Ranks -> Seq(Sendable)]
        /\ \A a, b \in Ranks : V[<<a, b>>] = IF a = s /\ b = d THEN t ELSE T[<<a, b>>]
    BY <1>1, <1>7, <1>8, QueueReplaced
  <1>10. \A a, b \in Ranks : \A x \in ToSet(V[<<a, b>>]) :
           x \in ToSet(T[<<a, b>>]) /\ (a = s /\ b = d => m.n < x.n)
    BY <1>2, <1>4, <1>6, <1>9
  <1>11. \A a, b \in Ranks : ByNumber(V[<<a, b>>])
    BY <1>1, <1>5, <1>6, <1>9
  <1>12. TravellingRight(P, M, V)
    BY <1>1, <1>9, <1>10, <1>11 DEF TravellingRight
  <1>13. m.from = s /\ Sent(P, M, m, s, d)
    BY <1>1, <1>2, <1>4 DEF Sent
  <1>14. Arrived(V, d, m)
    BY <1>10, <1>13 DEF Arrived
  <1>15. \A e \in Ranks : \A x : x.from \in Ranks /\ Arrived(T, e, x) => Arrived(V, e, x)
    BY <1>10 DEF Arrived
  <1>16. \A a, b \in Ranks : \A x \in ToSet(T[<<a, b>>]) :
           x \in ToSet(V[<<a, b>>]) \/ (x = m /\ a = s /\ b = d)
    BY <1>2, <1>4, <1>6, <1>9
  <1>17. \A x \in ToSet(T[<<s, d>>]) : x = m \/ m.n < x.n
    BY <1>2, <1>4
  <1> QED BY <1>2, <1>4, <1>12, <1>13, <1>14, <1>15, <1>16, <1>17 DEF Leaves

\* A message that nobody waits for is added to the unexpected ones.
LEMMA ArriveUnexpected ==
  ASSUME NEW P \in Programs, NEW M, NEW T, NEW U, Pipes(P, M, T, U),
         NEW s \in Ranks, NEW d \in Ranks, T[<<s, d>>] # <<>>,
         NEW m, m = Head(T[<<s, d>>]), NEW V, V = WithoutFirst(T, s, d),
         NEW W, W = WithElement(U, d, m)
  PROVE  /\ Pipes(P, M, V, W)
         /\ \A e \in Ranks : ToSet(W[e]) \subseteq ToSet(U[e]) \cup {m}
         /\ \A e \in Ranks : e # d => W[e] = U[e]
  <1>1. /\ MessagesRight(P, M) /\ TravellingRight(P, M, T) /\ UnexpectedRight(P, M, T, U)
        /\ ReceivedArrived(P, M, T, U) /\ NoneLost(P, M, T, U) /\ ReceivesSent(P, M)
    BY DEF Pipes, MessagesRight
  <1>2. Leaves(P, M, T, V, s, d, m)
    BY <1>1, Departed
  <1>3. /\ U \in [Ranks -> Seq(Sendable)]
        /\ \A e \in Ranks :
             /\ \A x \in ToSet(U[e]) :
                  x.from \in Ranks /\ Sent(P, M, x, x.from, e) /\ Arrived(T, e, x)
             /\ BySource(U[e])
    BY <1>1 DEF UnexpectedRight
  <1>4. m \in Sendable /\ m.from = s /\ Sent(P, M, m, s, d) /\ m \in ToSet(T[<<s, d>>])
    BY <1>2 DEF Leaves, Sent
  <1>5. \A x : x.from = s /\ Arrived(T, d, x) => x.n < m.n
    BY <1>4 DEF Arrived
  <1>6. PICK q, t : q = U[d] /\ t = Append(q, m)
    OBVIOUS
  <1>7. q \in Seq(Sendable) /\ W = [U EXCEPT ![d] = t]
    BY <1>3, <1>6, Zenon DEF WithElement
  <1>8. t \in Seq(Sendable) /\ ToSet(t) = ToSet(q) \cup {m}
    <2>1. q \in Seq(Sendable) /\ m \in Sendable
      BY <1>4, <1>7
    <2>2. Append(q, m) \in Seq(Sendable) /\ ToSet(Append(q, m)) = ToSet(q) \cup {m}
      BY <2>1, AppendElements
    <2> QED BY <1>6, <2>2
  <1>9. W \in [Ranks -> Seq(Sendable)] /\ W[d] = t /\ \A e \in Ranks : e # d => W[e] = U[e]
    <2>1. U \in [Ranks -> Seq(Sendable)] /\ W = [U EXCEPT ![d] = t] /\ t \in Seq(Sendable)
      BY <1>3, <1>7, <1>8
    <2> QED BY <2>1
  <1>10. BySource(t)
    <2>1. \A x \in ToSet(q) : x.from = m.from => x.n < m.n
      BY <1>3, <1>4, <1>5, <1>6
    <2>2. BySource(q) /\ q \in Seq(Sendable) /\ m \in Sendable
      BY <1>3, <1>4, <1>6, <1>7
    <2>3. BySource(Append(q, m))
      BY <2>1, <2>2, AppendOrder
    <2> QED BY <1>6, <2>3
  <1>11. UnexpectedRight(P, M, V, W)
    <2> SUFFICES ASSUME NEW e \in Ranks
                 PROVE  /\ \A x \in ToSet(W[e]) :
                             x.from \in Ranks /\ Sent(P, M, x, x.from, e) /\ Arrived(V, e, x)
                        /\ BySource(W[e])
      BY <1>9 DEF UnexpectedRight
    <2>1. \A x \in ToSet(U[e]) :
            x.from \in Ranks /\ Sent(P, M, x, x.from, e) /\ Arrived(V, e, x)
      BY <1>2, <1>3 DEF Leaves
    <2>2. Arrived(V, d, m)
      BY <1>2 DEF Leaves
    <2> QED BY <1>3, <1>4, <1>6, <1>8, <1>9, <1>10, <2>1, <2>2
  <1>12. ReceivedArrived(P, M, V, W)
    <2> SUFFICES ASSUME NEW e \in Ranks, NEW k \in DOMAIN P[e], Has(P, M, e, k)
                 PROVE  Arrived(V, e, M[e][k]) /\ M[e][k] \notin ToSet(W[e])
      BY DEF ReceivedArrived
    <2>1. /\ Arrived(T, e, M[e][k]) /\ M[e][k] \notin ToSet(U[e])
          /\ M[e][k].from \in Ranks
      BY <1>1 DEF ReceivedArrived, ReceivesSent
    <2>2. Arrived(V, e, M[e][k])
      BY <1>2, <2>1 DEF Leaves
    <2>3. ASSUME e = d, M[e][k] = m PROVE FALSE
      <3>1. m.n < m.n
        BY <1>4, <1>5, <2>1, <2>3
      <3>2. m.n \in Nat
        BY <1>4 DEF Sendable
      <3> QED BY <3>1, <3>2
    <2> QED BY <1>6, <1>8, <1>9, <2>1, <2>2, <2>3
  <1>13. NoneLost(P, M, V, W)
    <2> SUFFICES ASSUME NEW a \in Ranks, NEW b \in Ranks, NEW x \in Sendable,
                        Sent(P, M, x, a, b)
                 PROVE  \/ x \in ToSet(V[<<a, b>>]) \/ x \in ToSet(W[b])
                        \/ \E j \in DOMAIN P[b] : Has(P, M, b, j) /\ M[b][j] = x
      BY DEF NoneLost
    <2>1. \/ x \in ToSet(T[<<a, b>>]) \/ x \in ToSet(U[b])
          \/ \E j \in DOMAIN P[b] : Has(P, M, b, j) /\ M[b][j] = x
      BY <1>1 DEF NoneLost
    <2>2. x \in ToSet(T[<<a, b>>]) => x \in ToSet(V[<<a, b>>]) \/ (x = m /\ b = d)
      BY <1>2 DEF Leaves
    <2>3. x \in ToSet(U[b]) => x \in ToSet(W[b])
      BY <1>6, <1>8, <1>9
    <2>4. m \in ToSet(W[d])
      BY <1>8, <1>9
    <2> QED BY <2>1, <2>2, <2>3, <2>4
  <1>14. Pipes(P, M, V, W)
    <2>1. TravellingRight(P, M, V)
      BY <1>2 DEF Leaves
    <2> QED BY <1>1, <1>11, <1>12, <1>13, <2>1 DEF Pipes
  <1>15. \A e \in Ranks : ToSet(W[e]) \subseteq ToSet(U[e]) \cup {m}
    BY <1>6, <1>8, <1>9
  <1> QED BY <1>9, <1>14, <1>15

\* A message goes to a receive that waits for it.
LEMMA ArriveReceived ==
  ASSUME NEW P \in Programs, NEW M, NEW T, NEW U, Pipes(P, M, T, U),
         NEW s \in Ranks, NEW d \in Ranks, T[<<s, d>>] # <<>>,
         NEW m, m = Head(T[<<s, d>>]), NEW V, V = WithoutFirst(T, s, d),
         NEW k \in DOMAIN P[d], CanGet(P, M, d, k, m), NEW N, N = With1(M, d, k, m)
  PROVE  Pipes(P, N, V, U)
  <1>1. /\ MessagesRight(P, M) /\ TravellingRight(P, M, T) /\ UnexpectedRight(P, M, T, U)
        /\ ReceivedArrived(P, M, T, U) /\ NoneLost(P, M, T, U) /\ ReceivesSent(P, M)
        /\ Tables(P, M)
    BY DEF Pipes, MessagesRight
  <1>2. Leaves(P, M, T, V, s, d, m)
    BY <1>1, Departed
  <1>3. MessagesRight(P, N)
    BY <1>1, GetsRight
  <1>4. /\ \A q \in Ranks : \A j \in DOMAIN P[q] :
             /\ N[q][j] = IF q = d /\ j = k THEN m ELSE M[q][j]
             /\ Has(P, N, q, j) <=> Has(P, M, q, j) \/ (q = d /\ j = k)
        /\ \A x, e : \A a \in Ranks : Sent(P, N, x, a, e) <=> Sent(P, M, x, a, e)
    BY <1>1, GetsChanges
  <1>5. m \in Sendable /\ m.from = s /\ Sent(P, M, m, s, d) /\ m \in ToSet(T[<<s, d>>])
        /\ m.n \in Nat
    BY <1>2 DEF Leaves, Sent, Sendable
  <1>6. M[d][k] = None
    BY DEF CanGet
  <1>7. TravellingRight(P, N, V)
    BY <1>2, <1>4 DEF Leaves, TravellingRight
  <1>8. UnexpectedRight(P, N, V, U)
    <2>1. \A e \in Ranks : \A x \in ToSet(U[e]) :
            x.from \in Ranks /\ Sent(P, M, x, x.from, e) /\ Arrived(V, e, x)
      BY <1>1, <1>2 DEF Leaves, UnexpectedRight
    <2> QED BY <1>1, <1>4, <2>1 DEF UnexpectedRight
  <1>9. ReceivedArrived(P, N, V, U)
    <2> SUFFICES ASSUME NEW e \in Ranks, NEW j \in DOMAIN P[e], Has(P, N, e, j)
                 PROVE  Arrived(V, e, N[e][j]) /\ N[e][j] \notin ToSet(U[e])
      BY DEF ReceivedArrived
    <2>1. CASE e = d /\ j = k
      <3>1. Arrived(V, d, m)
        BY <1>2 DEF Leaves
      <3>2. m \notin ToSet(U[d])
        <4>1. ASSUME m \in ToSet(U[d]) PROVE FALSE
          <5>1. Arrived(T, d, m)
            BY <1>1, <4>1 DEF UnexpectedRight
          <5> QED BY <1>5, <5>1 DEF Arrived
        <4> QED BY <4>1
      <3> QED BY <1>4, <2>1, <3>1, <3>2
    <2>2. CASE ~(e = d /\ j = k)
      <3>1. N[e][j] = M[e][j] /\ Has(P, M, e, j)
        BY <1>4, <2>2
      <3>2. Arrived(T, e, M[e][j]) /\ M[e][j] \notin ToSet(U[e]) /\ M[e][j].from \in Ranks
        BY <1>1, <3>1 DEF ReceivedArrived, ReceivesSent
      <3> QED BY <1>2, <3>1, <3>2 DEF Leaves
    <2> QED BY <2>1, <2>2
  <1>10. NoneLost(P, N, V, U)
    <2> SUFFICES ASSUME NEW a \in Ranks, NEW b \in Ranks, NEW x \in Sendable,
                        Sent(P, N, x, a, b)
                 PROVE  \/ x \in ToSet(V[<<a, b>>]) \/ x \in ToSet(U[b])
                        \/ \E j \in DOMAIN P[b] : Has(P, N, b, j) /\ N[b][j] = x
      BY DEF NoneLost
    <2>1. \/ x \in ToSet(T[<<a, b>>]) \/ x \in ToSet(U[b])
          \/ \E j \in DOMAIN P[b] : Has(P, M, b, j) /\ M[b][j] = x
      BY <1>1, <1>4 DEF NoneLost
    <2>2. x \in ToSet(T[<<a, b>>]) => x \in ToSet(V[<<a, b>>]) \/ (x = m /\ b = d)
      BY <1>2 DEF Leaves
    <2>3. \A j \in DOMAIN P[b] : Has(P, M, b, j) => Has(P, N, b, j) /\ N[b][j] = M[b][j]
      BY <1>4, <1>6 DEF Has
    <2>4. Has(P, N, d, k) /\ N[d][k] = m
      BY <1>4
    <2> QED BY <2>1, <2>2, <2>3, <2>4
  <1> QED BY <1>3, <1>7, <1>8, <1>9, <1>10 DEF Pipes

\* A receive takes an unexpected message.
LEMMA ReceiveUnexpected ==
  ASSUME NEW P \in Programs, NEW M, NEW T, NEW U, Pipes(P, M, T, U),
         NEW d \in Ranks, NEW i \in DOMAIN U[d], NEW m, m = U[d][i],
         NEW W, W = Without(U, d, i),
         NEW k \in DOMAIN P[d], CanGet(P, M, d, k, m), NEW N, N = With1(M, d, k, m)
  PROVE  Pipes(P, N, T, W) /\ \A e \in Ranks : ToSet(W[e]) \subseteq ToSet(U[e])
  <1>1. /\ MessagesRight(P, M) /\ TravellingRight(P, M, T) /\ UnexpectedRight(P, M, T, U)
        /\ ReceivedArrived(P, M, T, U) /\ NoneLost(P, M, T, U) /\ ReceivesSent(P, M)
        /\ Tables(P, M)
    BY DEF Pipes, MessagesRight
  <1>3. MessagesRight(P, N)
    BY <1>1, GetsRight
  <1>4. /\ \A q \in Ranks : \A j \in DOMAIN P[q] :
             /\ N[q][j] = IF q = d /\ j = k THEN m ELSE M[q][j]
             /\ Has(P, N, q, j) <=> Has(P, M, q, j) \/ (q = d /\ j = k)
        /\ \A x, e : \A a \in Ranks : Sent(P, N, x, a, e) <=> Sent(P, M, x, a, e)
    BY <1>1, GetsChanges
  <1>5. /\ U \in [Ranks -> Seq(Sendable)]
        /\ \A e \in Ranks :
             /\ \A x \in ToSet(U[e]) :
                  x.from \in Ranks /\ Sent(P, M, x, x.from, e) /\ Arrived(T, e, x)
             /\ BySource(U[e])
    BY <1>1 DEF UnexpectedRight
  <1>6. PICK q, t, K : q = U[d] /\ t = RemoveAt(q, i) /\ K = DOMAIN q \ {i}
    OBVIOUS
  <1>7. q \in Seq(Sendable) /\ i \in DOMAIN q /\ DOMAIN q = 1..Len(q) /\ i \in 1..Len(q)
        /\ m = q[i]
    BY <1>5, <1>6, LenProperties
  <1>8. t \in Seq(Sendable) /\ Thins(t, q, K) /\ K \in SUBSET DOMAIN q
    <2>1. RemoveAt(q, i) \in Seq(Sendable) /\ Thins(RemoveAt(q, i), q, DOMAIN q \ {i})
      BY <1>7, RemoveAtThins
    <2> QED BY <1>6, <2>1
  <1>9. ToSet(t) = {q[j] : j \in K} /\ ToSet(t) \subseteq ToSet(q)
    BY <1>7, <1>8, ThinsElements
  <1>10. BySource(t)
    <2>1. BySource(q)
      BY <1>5, <1>6
    <2> QED BY <1>7, <1>8, <2>1, ThinsOrder
  <1>11. W = [U EXCEPT ![d] = t]
    BY <1>6, Zenon DEF Without
  <1>12. W \in [Ranks -> Seq(Sendable)] /\ W[d] = t /\ \A e \in Ranks : e # d => W[e] = U[e]
    BY <1>5, <1>8, <1>11, ElementReplaced
  <1>13. m \notin ToSet(t) /\ m \in ToSet(q)
    <2>1. ToSet(q) = {q[j] : j \in DOMAIN q}
      BY Zenon DEF ToSet
    <2>2. \A j \in DOMAIN q : q[j] \in Sendable /\ q[j].n \in Nat
      <3>1. \A j \in 1..Len(q) : q[j] \in Sendable
        BY <1>7, ElementOfSeq
      <3> QED BY <1>7, <3>1 DEF Sendable
    <2>3. ASSUME NEW j \in K, q[j] = m PROVE FALSE
      <3>1. BySource(q)
        BY <1>5, <1>6
      <3>2. j < i \/ i < j
        BY <1>6, <1>7
      <3>3. q[j].n < q[i].n \/ q[i].n < q[j].n
        BY <1>6, <1>7, <2>3, <3>1, <3>2 DEF BySource
      <3> QED BY <1>7, <2>2, <2>3, <3>3
    <2> QED BY <1>7, <1>9, <2>1, <2>3
  <1>14. \A x \in ToSet(q) : x = m \/ x \in ToSet(t)
    <2>1. ToSet(q) = {q[j] : j \in DOMAIN q}
      BY Zenon DEF ToSet
    <2> QED BY <1>6, <1>7, <1>9, <2>1
  <1>15. \A e \in Ranks : ToSet(W[e]) \subseteq ToSet(U[e])
    BY <1>6, <1>9, <1>12
  <1>16. TravellingRight(P, N, T)
    BY <1>1, <1>4 DEF TravellingRight
  <1>17. UnexpectedRight(P, N, T, W)
    <2>1. \A e \in Ranks : BySource(W[e])
      BY <1>5, <1>10, <1>12
    <2>2. \A e \in Ranks : \A x \in ToSet(W[e]) :
            x.from \in Ranks /\ Sent(P, N, x, x.from, e) /\ Arrived(T, e, x)
      BY <1>4, <1>5, <1>15
    <2> QED BY <1>12, <2>1, <2>2 DEF UnexpectedRight
  <1>18. ReceivedArrived(P, N, T, W)
    <2> SUFFICES ASSUME NEW e \in Ranks, NEW j \in DOMAIN P[e], Has(P, N, e, j)
                 PROVE  Arrived(T, e, N[e][j]) /\ N[e][j] \notin ToSet(W[e])
      BY DEF ReceivedArrived
    <2>1. CASE e = d /\ j = k
      <3>1. Arrived(T, d, m)
        BY <1>5, <1>6, <1>13
      <3> QED BY <1>4, <1>12, <1>13, <2>1, <3>1
    <2>2. CASE ~(e = d /\ j = k)
      <3>1. N[e][j] = M[e][j] /\ Has(P, M, e, j)
        BY <1>4, <2>2
      <3>2. Arrived(T, e, M[e][j]) /\ M[e][j] \notin ToSet(U[e])
        BY <1>1, <3>1 DEF ReceivedArrived
      <3> QED BY <1>15, <3>1, <3>2
    <2> QED BY <2>1, <2>2
  <1>19. NoneLost(P, N, T, W)
    <2> SUFFICES ASSUME NEW a \in Ranks, NEW b \in Ranks, NEW x \in Sendable,
                        Sent(P, N, x, a, b)
                 PROVE  \/ x \in ToSet(T[<<a, b>>]) \/ x \in ToSet(W[b])
                        \/ \E j \in DOMAIN P[b] : Has(P, N, b, j) /\ N[b][j] = x
      BY DEF NoneLost
    <2>1. \/ x \in ToSet(T[<<a, b>>]) \/ x \in ToSet(U[b])
          \/ \E j \in DOMAIN P[b] : Has(P, M, b, j) /\ M[b][j] = x
      BY <1>1, <1>4 DEF NoneLost
    <2>2. x \in ToSet(U[b]) => x \in ToSet(W[b]) \/ (x = m /\ b = d)
      BY <1>6, <1>12, <1>14
    <2>3. \A j \in DOMAIN P[b] : Has(P, M, b, j) => Has(P, N, b, j) /\ N[b][j] = M[b][j]
      BY <1>4 DEF Has, CanGet
    <2>4. Has(P, N, d, k) /\ N[d][k] = m
      BY <1>4
    <2> QED BY <2>1, <2>2, <2>3, <2>4
  <1>20. Pipes(P, N, T, W)
    BY <1>3, <1>16, <1>17, <1>18, <1>19 DEF Pipes
  <1> QED BY <1>15, <1>20

-------------------------------------------------------------------------------
\* Which receives get which messages.

\* A posted receive may get the message that arrives.
LEMMA ArrivingCanGet ==
  ASSUME NEW P \in Programs, NEW A, NEW M, NEW T, NEW U, NEW Q, Pipes(P, M, T, U),
         PostedRight(P, A, M, U, Q),
         NEW s \in Ranks, NEW d \in Ranks, T[<<s, d>>] # <<>>,
         NEW m, m = Head(T[<<s, d>>]),
         NEW r \in ToSet(Q[d]), Matches(r.source, r.tag, m)
  PROVE  r.k \in DOMAIN P[d] /\ CanGet(P, M, d, r.k, m)
  <1>1. /\ TravellingRight(P, M, T) /\ UnexpectedRight(P, M, T, U)
        /\ ReceivedArrived(P, M, T, U) /\ NoneLost(P, M, T, U)
    BY DEF Pipes
  <1>2. PICK V : V = WithoutFirst(T, s, d)
    OBVIOUS
  <1>3. Leaves(P, M, T, V, s, d, m)
    BY <1>1, <1>2, Departed
  <1>4. /\ m.from = s /\ Sent(P, M, m, s, d) /\ m \in ToSet(T[<<s, d>>]) /\ m.n \in Nat
        /\ \A x \in ToSet(T[<<s, d>>]) : x = m \/ m.n < x.n
    BY <1>3 DEF Leaves, Sent, Sendable
  <1>5. PostedReceive(P, A, M, U, d, r)
    BY DEF PostedRight
  <1>6. /\ IsRecv(P, d, r.k) /\ r.tag = P[d][r.k].tag /\ M[d][r.k] = None
        /\ r.k \in DOMAIN P[d]
        /\ \A x \in ToSet(U[d]) : ~Matches(r.source, r.tag, x)
        /\ \A k \in DOMAIN P[d] :
             Has(P, M, d, k) /\ Matches(r.source, r.tag, M[d][k]) => k < r.k
    BY <1>5 DEF PostedReceive, IsRecv
  <1>7. Takes(P, d, r.k, m)
    BY <1>6 DEF Takes, Matches
  <1>8. ASSUME NEW j \in DOMAIN P[d], Has(P, M, d, j), M[d][j] = m PROVE FALSE
    <2>1. Arrived(T, d, m)
      BY <1>1, <1>8 DEF ReceivedArrived
    <2> QED BY <1>4, <2>1 DEF Arrived
  <1>9. ASSUME NEW x \in Sendable, Sent(P, M, x, s, d), x.n < m.n, Takes(P, d, r.k, x)
        PROVE  \E j \in DOMAIN P[d] : j < r.k /\ Has(P, M, d, j) /\ M[d][j] = x
    <2>1. x.n \in Nat /\ x.from = s
      BY <1>9 DEF Sent, Sendable
    <2>2. x \notin ToSet(T[<<s, d>>])
      BY <1>4, <1>9, <2>1
    <2>3. Matches(r.source, r.tag, x)
      BY <1>4, <1>6, <1>9, <2>1 DEF Matches, Takes
    <2>4. x \notin ToSet(U[d])
      BY <1>6, <2>3
    <2>5. PICK j \in DOMAIN P[d] : Has(P, M, d, j) /\ M[d][j] = x
      BY <1>1, <1>9, <2>2, <2>4 DEF NoneLost
    <2>6. j < r.k
      BY <1>6, <2>3, <2>5
    <2> QED BY <2>5, <2>6
  <1> QED BY <1>4, <1>6, <1>7, <1>8, <1>9 DEF CanGet

\* A new receive may get the first unexpected message that it matches.
LEMMA ReceivingCanGet ==
  ASSUME NEW P \in Programs, NEW M, NEW T, NEW U, Pipes(P, M, T, U),
         NEW p \in Ranks, NEW k \in DOMAIN P[p], IsRecv(P, p, k), M[p][k] = None,
         \A j \in DOMAIN P[p] : M[p][j] # None => j < k,
         NEW source, NEW i \in DOMAIN U[p], NEW m, m = U[p][i],
         Matches(source, P[p][k].tag, m),
         \A j \in DOMAIN U[p] : Matches(source, P[p][k].tag, U[p][j]) => i <= j
  PROVE  CanGet(P, M, p, k, m)
  <1>1. /\ TravellingRight(P, M, T) /\ UnexpectedRight(P, M, T, U)
        /\ ReceivedArrived(P, M, T, U) /\ NoneLost(P, M, T, U)
    BY DEF Pipes
  <1>2. ToSet(U[p]) = {U[p][j] : j \in DOMAIN U[p]} /\ U[p] \in Seq(Sendable)
        /\ DOMAIN U[p] = 1..Len(U[p])
    <2>1. U[p] \in Seq(Sendable)
      BY <1>1 DEF UnexpectedRight
    <2>2. ToSet(U[p]) = {U[p][j] : j \in DOMAIN U[p]}
      BY Zenon DEF ToSet
    <2> QED BY <2>1, <2>2, LenProperties
  <1>3. m \in ToSet(U[p])
    BY <1>2
  <1>4. m.from \in Ranks /\ Sent(P, M, m, m.from, p) /\ Arrived(T, p, m) /\ m.n \in Nat
        /\ BySource(U[p])
    BY <1>1, <1>3 DEF UnexpectedRight, Sent, Sendable
  <1>5. Takes(P, p, k, m)
    BY DEF Takes, Matches
  <1>6. \A j \in DOMAIN P[p] : Has(P, M, p, j) => M[p][j] # m
    BY <1>1, <1>3 DEF ReceivedArrived
  <1>7. ASSUME NEW x \in Sendable, Sent(P, M, x, m.from, p), x.n < m.n, Takes(P, p, k, x)
        PROVE  \E j \in DOMAIN P[p] : j < k /\ Has(P, M, p, j) /\ M[p][j] = x
    <2>1. x.n \in Nat /\ x.from = m.from
      BY <1>7 DEF Sent, Sendable
    <2>2. x \notin ToSet(T[<<m.from, p>>])
      BY <1>4, <1>7, <2>1 DEF Arrived
    <2>3. Matches(source, P[p][k].tag, x)
      BY <1>7, <2>1 DEF Matches, Takes
    <2>4. ASSUME x \in ToSet(U[p]) PROVE FALSE
      <3>1. PICK j \in DOMAIN U[p] : x = U[p][j]
        BY <1>2, <2>4
      <3>2. i <= j /\ j \in Nat /\ i \in Nat
        BY <1>2, <2>3, <3>1
      <3>3. i # j
        BY <1>4, <1>7, <2>1, <3>1
      <3>4. m.n < x.n
        BY <1>4, <2>1, <3>1, <3>2, <3>3 DEF BySource
      <3> QED BY <1>4, <1>7, <2>1, <3>4
    <2>5. PICK j \in DOMAIN P[p] : Has(P, M, p, j) /\ M[p][j] = x
      BY <1>1, <1>4, <1>7, <2>2, <2>4 DEF NoneLost
    <2>6. j < k
      BY <2>5 DEF Has
    <2> QED BY <2>5, <2>6
  <1> QED BY <1>4, <1>5, <1>6, <1>7 DEF CanGet

-------------------------------------------------------------------------------
\* A process goes on.

\* One of them does its next operation.
LEMMA ProgressNumbers ==
  ASSUME NEW P \in Programs, NEW A, NEW M, Progress(P, A, M), NEW p \in Ranks,
         A[p] \in DOMAIN P[p], NEW B, B = Next1(A, p)
  PROVE  Advances(P, A, B, p)
  <1>1. A \in [Ranks -> Nat] /\ \A q \in Ranks : A[q] \in 1..(Len(P[q]) + 1)
    BY DEF Progress
  <1>2. \A q \in Ranks :
          /\ DOMAIN P[q] = 1..Len(P[q]) /\ Len(P[q]) \in Nat
          /\ \A k \in DOMAIN P[q] : k \in Nat
    BY OpsAreNumbers
  <1>3. B = [A EXCEPT ![p] = A[p] + 1]
    BY Zenon DEF Next1
  <1>4. B \in [Ranks -> Nat] /\ B[p] = A[p] + 1 /\ \A q \in Ranks : q # p => B[q] = A[q]
    BY <1>1, <1>3
  <1>5. \A q \in Ranks : /\ A[q] \in Nat /\ B[q] \in Nat /\ A[q] <= B[q]
                         /\ B[q] \in 1..(Len(P[q]) + 1)
    <2> SUFFICES ASSUME NEW q \in Ranks
                 PROVE  /\ A[q] \in Nat /\ B[q] \in Nat /\ A[q] <= B[q]
                        /\ B[q] \in 1..(Len(P[q]) + 1)
      OBVIOUS
    <2>1. CASE q = p
      BY <1>1, <1>2, <1>4, <2>1
    <2>2. CASE q # p
      BY <1>1, <1>4, <2>2
    <2> QED BY <2>1, <2>2
  <1>6. \A q \in Ranks : \A k \in DOMAIN P[q] :
          k \in Nat /\ (k < B[q] <=> k < A[q] \/ (q = p /\ k = A[p]))
    <2> SUFFICES ASSUME NEW q \in Ranks, NEW k \in DOMAIN P[q]
                 PROVE  k \in Nat /\ (k < B[q] <=> k < A[q] \/ (q = p /\ k = A[p]))
      OBVIOUS
    <2>1. k \in Nat /\ A[q] \in Nat
      BY <1>2, <1>5
    <2> QED BY <1>4, <2>1
  <1> QED BY <1>4, <1>5, <1>6 DEF Advances

\* An operation that neither sends nor receives.
LEMMA QuietChannels ==
  ASSUME NEW P \in Programs, NEW A, NEW M, NEW T, NEW U, NEW Q, Channels(P, A, M, T, U, Q),
         NEW p \in Ranks, A[p] \in DOMAIN P[p], P[p][A[p]].op \notin {"isend", "irecv"},
         NEW B, B = Next1(A, p)
  PROVE  Channels(P, B, M, T, U, Q)
  <1>1. /\ Pipes(P, M, T, U) /\ PostedRight(P, A, M, U, Q) /\ OpenPosted(P, A, M, Q)
        /\ Progress(P, A, M)
    BY DEF Channels
  <1>2. Advances(P, A, B, p)
    BY <1>1, ProgressNumbers
  <1>3. /\ B \in [Ranks -> Nat]
        /\ \A q \in Ranks : A[q] \in Nat /\ B[q] \in Nat /\ A[q] <= B[q]
                            /\ B[q] \in 1..(Len(P[q]) + 1)
        /\ \A q \in Ranks : \A k \in DOMAIN P[q] :
             k \in Nat /\ (k < B[q] <=> k < A[q] \/ (q = p /\ k = A[p]))
    BY <1>2 DEF Advances
  <1>4. \A q \in Ranks : \A k \in DOMAIN P[q] :
          (IsSend(P, q, k) \/ IsRecv(P, q, k)) => (k < B[q] <=> k < A[q])
    BY <1>3 DEF IsSend, IsRecv
  <1>5. PostedRight(P, B, M, U, Q)
    <2>1. \A d \in Ranks : \A r \in ToSet(Q[d]) : PostedReceive(P, B, M, U, d, r)
      <3> SUFFICES ASSUME NEW d \in Ranks, NEW r \in ToSet(Q[d])
                   PROVE  PostedReceive(P, B, M, U, d, r)
        OBVIOUS
      <3>1. PostedReceive(P, A, M, U, d, r)
        BY <1>1 DEF PostedRight
      <3>2. r.k < B[d]
        BY <1>4, <3>1 DEF PostedReceive, IsRecv
      <3> QED BY <3>1, <3>2 DEF PostedReceive
    <2> QED BY <1>1, <2>1 DEF PostedRight
  <1>6. OpenPosted(P, B, M, Q)
    BY <1>1, <1>4 DEF OpenPosted
  <1>7. Progress(P, B, M)
    <2> SUFFICES ASSUME NEW q \in Ranks, NEW k \in DOMAIN P[q]
                 PROVE  /\ M[q][k] # None => k < B[q]
                        /\ IsSend(P, q, k) /\ k < B[q] => M[q][k] # None
      BY <1>3 DEF Progress
    <2>1. /\ M[q][k] # None => k < A[q]
          /\ IsSend(P, q, k) /\ k < A[q] => M[q][k] # None
      BY <1>1 DEF Progress
    <2> QED BY <1>3, <1>4, <2>1
  <1> QED BY <1>1, <1>5, <1>6, <1>7 DEF Channels

\* The next operation has no message yet, and those that have one are before it.
LEMMA NextHasNone ==
  ASSUME NEW P \in Programs, NEW A, NEW M, Progress(P, A, M), NEW p \in Ranks,
         NEW k \in DOMAIN P[p], k = A[p]
  PROVE  M[p][k] = None /\ \A j \in DOMAIN P[p] : M[p][j] # None => j < k
  <1>1. k \in Nat
    BY OpsAreNumbers
  <1> QED BY <1>1 DEF Progress

\* A send.
LEMMA SendChannels ==
  ASSUME NEW P \in Programs, NEW A, NEW M, NEW T, NEW U, NEW Q, Channels(P, A, M, T, U, Q),
         NEW p \in Ranks, NEW k \in DOMAIN P[p], k = A[p], IsSend(P, p, k),
         NEW B, B = Next1(A, p),
         NEW m \in Sendable, m.from = p, m.n = k, m.tag = P[p][k].tag,
         NEW N, N = With1(M, p, k, m), NEW V, V = WithLast(T, p, m)
  PROVE  Channels(P, B, N, V, U, Q)
  <1>1. /\ Pipes(P, M, T, U) /\ PostedRight(P, A, M, U, Q) /\ OpenPosted(P, A, M, Q)
        /\ Progress(P, A, M)
    BY DEF Channels
  <1>2. Advances(P, A, B, p)
    BY <1>1, ProgressNumbers
  <1>3. /\ B \in [Ranks -> Nat]
        /\ \A q \in Ranks : A[q] \in Nat /\ B[q] \in Nat /\ A[q] <= B[q]
                            /\ B[q] \in 1..(Len(P[q]) + 1)
        /\ \A q \in Ranks : \A j \in DOMAIN P[q] :
             j \in Nat /\ (j < B[q] <=> j < A[q] \/ (q = p /\ j = A[p]))
    BY <1>2 DEF Advances
  <1>4. Tables(P, M)
    BY <1>1 DEF Pipes, MessagesRight
  <1>5. \A q \in Ranks : \A j \in DOMAIN P[q] :
          N[q][j] = IF q = p /\ j = k THEN m ELSE M[q][j]
    BY <1>4, With1Values
  <1>6. m # None
    BY MpiAssumption
  <1>7. \A q \in Ranks : \A j \in DOMAIN P[q] : IsRecv(P, q, j) =>
          /\ N[q][j] = M[q][j] /\ (j < B[q] <=> j < A[q])
          /\ Has(P, N, q, j) <=> Has(P, M, q, j)
    <2> SUFFICES ASSUME NEW q \in Ranks, NEW j \in DOMAIN P[q], IsRecv(P, q, j)
                 PROVE  N[q][j] = M[q][j] /\ (j < B[q] <=> j < A[q])
      BY DEF Has
    <2>1. ~(q = p /\ j = k)
      BY DEF IsRecv, IsSend
    <2> QED BY <1>3, <1>5, <2>1
  <1>8. Pipes(P, N, V, U)
    <2>1. M[p][k] = None /\ \A j \in DOMAIN P[p] : M[p][j] # None => j < k
      BY <1>1, NextHasNone
    <2> QED BY <1>1, <2>1, SendPipes
  <1>9. PostedRight(P, B, N, U, Q)
    <2>1. \A d \in Ranks : \A r \in ToSet(Q[d]) : PostedReceive(P, B, N, U, d, r)
      <3> SUFFICES ASSUME NEW d \in Ranks, NEW r \in ToSet(Q[d])
                   PROVE  PostedReceive(P, B, N, U, d, r)
        OBVIOUS
      <3>1. PostedReceive(P, A, M, U, d, r)
        BY <1>1 DEF PostedRight
      <3>2. r.k \in DOMAIN P[d] /\ IsRecv(P, d, r.k)
        BY <3>1 DEF PostedReceive, IsRecv
      <3>3. \A j \in DOMAIN P[d] : Has(P, N, d, j) => Has(P, M, d, j) /\ N[d][j] = M[d][j]
        BY <1>7 DEF Has
      <3> QED BY <1>7, <3>1, <3>2, <3>3 DEF PostedReceive
    <2> QED BY <1>1, <2>1 DEF PostedRight
  <1>10. OpenPosted(P, B, N, Q)
    BY <1>1, <1>7 DEF OpenPosted
  <1>11. Progress(P, B, N)
    <2> SUFFICES ASSUME NEW q \in Ranks, NEW j \in DOMAIN P[q]
                 PROVE  /\ N[q][j] # None => j < B[q]
                        /\ IsSend(P, q, j) /\ j < B[q] => N[q][j] # None
      BY <1>3 DEF Progress
    <2>1. /\ M[q][j] # None => j < A[q]
          /\ IsSend(P, q, j) /\ j < A[q] => M[q][j] # None
      BY <1>1 DEF Progress
    <2>2. CASE q = p /\ j = k
      BY <1>3, <1>5, <1>6, <2>2
    <2>3. CASE ~(q = p /\ j = k)
      BY <1>3, <1>5, <2>1, <2>3
    <2> QED BY <2>2, <2>3
  <1> QED BY <1>8, <1>9, <1>10, <1>11 DEF Channels

-------------------------------------------------------------------------------
\* Receives.

\* A posted receive taken off the list is dropped.
LEMMA PostDropped ==
  ASSUME NEW Q \in [Ranks -> Seq(Waiting)], NEW d \in Ranks, ByRequest(Q[d]),
         NEW i \in DOMAIN Q[d], NEW R, R = Without(Q, d, i)
  PROVE  Dropped(Q, R, d, i)
  <1>1. PICK q, t, K : q = Q[d] /\ t = RemoveAt(q, i) /\ K = DOMAIN q \ {i}
    OBVIOUS
  <1>2. q \in Seq(Waiting) /\ i \in DOMAIN q /\ DOMAIN q = 1..Len(q) /\ i \in 1..Len(q)
        /\ ByRequest(q)
    BY <1>1, LenProperties
  <1>3. t \in Seq(Waiting) /\ Thins(t, q, K) /\ K \in SUBSET DOMAIN q
    <2>1. RemoveAt(q, i) \in Seq(Waiting) /\ Thins(RemoveAt(q, i), q, DOMAIN q \ {i})
      BY <1>2, RemoveAtThins
    <2> QED BY <1>1, <2>1
  <1>4. ToSet(t) = {q[j] : j \in K} /\ ToSet(t) \subseteq ToSet(q)
    BY <1>2, <1>3, ThinsElements
  <1>5. ByRequest(t)
    BY <1>2, <1>3, ThinsOrder
  <1>6. R = [Q EXCEPT ![d] = t]
    BY <1>1, Zenon DEF Without
  <1>7. R \in [Ranks -> Seq(Waiting)] /\ R[d] = t /\ \A e \in Ranks : e # d => R[e] = Q[e]
    BY <1>3, <1>6
  <1>8. ToSet(q) = {q[j] : j \in DOMAIN q}
    BY Zenon DEF ToSet
  <1>9. \A j \in DOMAIN q : q[j].k \in Nat
    <2>1. \A j \in 1..Len(q) : q[j] \in Waiting
      BY <1>2, ElementOfSeq
    <2> QED BY <1>2, <2>1 DEF Waiting
  <1>10. \A j \in K : q[j].k # q[i].k
    <2> SUFFICES ASSUME NEW j \in K PROVE q[j].k # q[i].k
      OBVIOUS
    <2>1. j \in DOMAIN q /\ (j < i \/ i < j)
      BY <1>1, <1>2
    <2>2. q[j].k < q[i].k \/ q[i].k < q[j].k
      BY <1>2, <2>1 DEF ByRequest
    <2>3. q[j].k \in Nat /\ q[i].k \in Nat
      BY <1>2, <1>9, <2>1
    <2> QED BY <2>2, <2>3
  <1>11. NoNewPosts(Q, R)
    BY <1>1, <1>4, <1>7 DEF NoNewPosts
  <1>12. \A x \in ToSet(t) : x.k # q[i].k /\ \E j \in DOMAIN q : j # i /\ x = q[j]
    BY <1>1, <1>4, <1>10
  <1>13. \A x \in ToSet(q) : x = q[i] \/ x \in ToSet(t)
    BY <1>1, <1>4, <1>8
  <1> QED BY <1>1, <1>5, <1>7, <1>11, <1>12, <1>13 DEF Dropped

\* A posted receive stays one when its process goes on.
LEMMA PostedLater ==
  ASSUME NEW P \in Programs, NEW A, NEW B, NEW p \in Ranks, Advances(P, A, B, p),
         NEW M, NEW U, NEW d \in Ranks, NEW r, PostedReceive(P, A, M, U, d, r)
  PROVE  PostedReceive(P, B, M, U, d, r)
  <1>1. r.k \in DOMAIN P[d] /\ r.k < A[d]
    BY DEF PostedReceive, IsRecv
  <1>2. r.k < B[d]
    BY <1>1 DEF Advances
  <1> QED BY <1>2 DEF PostedReceive

\* A receive is posted that no unexpected message matches.
LEMMA PostChannels ==
  ASSUME NEW P \in Programs, NEW A, NEW M, NEW T, NEW U, NEW Q, Channels(P, A, M, T, U, Q),
         NEW p \in Ranks, NEW k \in DOMAIN P[p], k = A[p], IsRecv(P, p, k),
         NEW B, B = Next1(A, p),
         NEW r \in Waiting, r.k = k, r.tag = P[p][k].tag,
         \A m \in ToSet(U[p]) : ~Matches(r.source, r.tag, m),
         NEW R, R = WithElement(Q, p, r)
  PROVE  Channels(P, B, M, T, U, R)
  <1>1. /\ Pipes(P, M, T, U) /\ PostedRight(P, A, M, U, Q) /\ OpenPosted(P, A, M, Q)
        /\ Progress(P, A, M)
    BY DEF Channels
  <1>2. Advances(P, A, B, p)
    BY <1>1, ProgressNumbers
  <1>3. /\ B \in [Ranks -> Nat]
        /\ \A q \in Ranks : A[q] \in Nat /\ B[q] \in Nat /\ A[q] <= B[q]
                            /\ B[q] \in 1..(Len(P[q]) + 1)
        /\ \A q \in Ranks : \A j \in DOMAIN P[q] :
             j \in Nat /\ (j < B[q] <=> j < A[q] \/ (q = p /\ j = A[p]))
    BY <1>2 DEF Advances
  <1>4. M[p][k] = None /\ \A j \in DOMAIN P[p] : M[p][j] # None => j < k
    BY <1>1, NextHasNone
  <1>5. /\ Q \in [Ranks -> Seq(Waiting)]
        /\ \A d \in Ranks : \A x \in ToSet(Q[d]) : PostedReceive(P, A, M, U, d, x)
        /\ \A d \in Ranks : ByRequest(Q[d])
    BY <1>1 DEF PostedRight
  <1>6. PICK q, t : q = Q[p] /\ t = Append(q, r)
    OBVIOUS
  <1>7. q \in Seq(Waiting) /\ ByRequest(q) /\ \A x \in ToSet(q) : x.k < r.k
    BY <1>5, <1>6 DEF PostedReceive
  <1>8. t \in Seq(Waiting) /\ ToSet(t) = ToSet(q) \cup {r}
    <2>1. Append(q, r) \in Seq(Waiting) /\ ToSet(Append(q, r)) = ToSet(q) \cup {r}
      BY <1>7, AppendElements
    <2> QED BY <1>6, <2>1
  <1>9. ByRequest(t)
    <2>1. ByRequest(Append(q, r))
      BY <1>7, AppendOrder
    <2> QED BY <1>6, <2>1
  <1>10. R = [Q EXCEPT ![p] = t]
    BY <1>6, Zenon DEF WithElement
  <1>11. R \in [Ranks -> Seq(Waiting)] /\ R[p] = t /\ \A e \in Ranks : e # p => R[e] = Q[e]
    BY <1>5, <1>8, <1>10
  <1>12. \A d \in Ranks : \A x \in ToSet(R[d]) :
           x \in ToSet(Q[d]) \/ (d = p /\ x = r)
    BY <1>6, <1>8, <1>11
  <1>13. \A d \in Ranks : ToSet(Q[d]) \subseteq ToSet(R[d])
    BY <1>6, <1>8, <1>11
  <1>14. r \in ToSet(R[p])
    BY <1>8, <1>11
  <1>15. PostedReceive(P, B, M, U, p, r)
    <2>1. r.k < B[p]
      BY <1>3
    <2> QED BY <1>4, <2>1 DEF PostedReceive, Has
  <1>16. PostedRight(P, B, M, U, R)
    <2>1. \A d \in Ranks : ByRequest(R[d])
      BY <1>5, <1>9, <1>11
    <2>2. \A d \in Ranks : \A x \in ToSet(R[d]) : PostedReceive(P, B, M, U, d, x)
      <3> SUFFICES ASSUME NEW d \in Ranks, NEW x \in ToSet(R[d])
                   PROVE  PostedReceive(P, B, M, U, d, x)
        OBVIOUS
      <3>1. CASE x \in ToSet(Q[d])
        <4>1. PostedReceive(P, A, M, U, d, x)
          BY <1>5, <3>1
        <4> QED BY <1>2, <4>1, PostedLater
      <3>2. CASE d = p /\ x = r
        BY <1>15, <3>2
      <3> QED BY <1>12, <3>1, <3>2
    <2> QED BY <1>11, <2>1, <2>2 DEF PostedRight
  <1>17. OpenPosted(P, B, M, R)
    <2> SUFFICES ASSUME NEW d \in Ranks, NEW j \in DOMAIN P[d], IsRecv(P, d, j), j < B[d],
                        M[d][j] = None
                 PROVE  NoSender(P, d, j) \/ \E x \in ToSet(R[d]) : x.k = j
      BY DEF OpenPosted
    <2>1. CASE d = p /\ j = k
      BY <1>14, <2>1
    <2>2. CASE j < A[d]
      <3>1. NoSender(P, d, j) \/ \E x \in ToSet(Q[d]) : x.k = j
        BY <1>1, <2>2 DEF OpenPosted
      <3> QED BY <1>13, <3>1
    <2> QED BY <1>3, <2>1, <2>2
  <1>18. Progress(P, B, M)
    <2> SUFFICES ASSUME NEW q1 \in Ranks, NEW j \in DOMAIN P[q1]
                 PROVE  /\ M[q1][j] # None => j < B[q1]
                        /\ IsSend(P, q1, j) /\ j < B[q1] => M[q1][j] # None
      BY <1>3 DEF Progress
    <2>1. /\ M[q1][j] # None => j < A[q1]
          /\ IsSend(P, q1, j) /\ j < A[q1] => M[q1][j] # None
      BY <1>1 DEF Progress
    <2>2. IsSend(P, q1, j) => ~(q1 = p /\ j = k)
      BY DEF IsSend, IsRecv
    <2> QED BY <1>3, <2>1, <2>2
  <1> QED BY <1>1, <1>16, <1>17, <1>18 DEF Channels

\* Another receive gets a message: the posted ones that do not match it, or that are
\* later, stay as they are.
LEMMA OthersPosted ==
  ASSUME NEW P, NEW A, NEW M, Tables(P, M), NEW U, NEW d \in Ranks, NEW k \in DOMAIN P[d],
         NEW m, CanGet(P, M, d, k, m), NEW N, N = With1(M, d, k, m),
         NEW W, NEW e \in Ranks, ToSet(W[e]) \subseteq ToSet(U[e]),
         NEW x, PostedReceive(P, A, M, U, e, x), ~(e = d /\ x.k = k),
         e = d /\ Matches(x.source, x.tag, m) => k < x.k
  PROVE  PostedReceive(P, A, N, W, e, x)
  <1>1. \A q \in Ranks : \A j \in DOMAIN P[q] :
          /\ N[q][j] = IF q = d /\ j = k THEN m ELSE M[q][j]
          /\ Has(P, N, q, j) <=> Has(P, M, q, j) \/ (q = d /\ j = k)
    BY GetsChanges
  <1>2. /\ IsRecv(P, e, x.k) /\ x.k < A[e] /\ x.tag = P[e][x.k].tag /\ x.k \in DOMAIN P[e]
        /\ M[e][x.k] = None
        /\ \A y \in ToSet(U[e]) : ~Matches(x.source, x.tag, y)
        /\ \A j \in DOMAIN P[e] :
             Has(P, M, e, j) /\ Matches(x.source, x.tag, M[e][j]) => j < x.k
    BY DEF PostedReceive, IsRecv
  <1>3. N[e][x.k] = None
    BY <1>1, <1>2
  <1>4. ASSUME NEW j \in DOMAIN P[e], Has(P, N, e, j), Matches(x.source, x.tag, N[e][j])
        PROVE  j < x.k
    <2>1. CASE e = d /\ j = k
      BY <1>1, <1>4, <2>1
    <2>2. CASE ~(e = d /\ j = k)
      <3>1. N[e][j] = M[e][j] /\ Has(P, M, e, j)
        BY <1>1, <1>4, <2>2
      <3> QED BY <1>2, <1>4, <3>1
    <2> QED BY <2>1, <2>2
  <1> QED BY <1>2, <1>3, <1>4 DEF PostedReceive

\* A receive takes an unexpected message.
LEMMA TakeChannels ==
  ASSUME NEW P \in Programs, NEW A, NEW M, NEW T, NEW U, NEW Q, Channels(P, A, M, T, U, Q),
         NEW p \in Ranks, NEW k \in DOMAIN P[p], k = A[p], IsRecv(P, p, k),
         NEW B, B = Next1(A, p),
         NEW source, NEW i \in DOMAIN U[p], NEW m, m = U[p][i],
         Matches(source, P[p][k].tag, m),
         \A j \in DOMAIN U[p] : Matches(source, P[p][k].tag, U[p][j]) => i <= j,
         NEW W, W = Without(U, p, i), NEW N, N = With1(M, p, k, m)
  PROVE  Channels(P, B, N, T, W, Q) /\ CanGet(P, M, p, k, m)
  <1>1. /\ Pipes(P, M, T, U) /\ PostedRight(P, A, M, U, Q) /\ OpenPosted(P, A, M, Q)
        /\ Progress(P, A, M)
    BY DEF Channels
  <1>2. Advances(P, A, B, p)
    BY <1>1, ProgressNumbers
  <1>3. /\ B \in [Ranks -> Nat]
        /\ \A q \in Ranks : A[q] \in Nat /\ B[q] \in Nat /\ A[q] <= B[q]
                            /\ B[q] \in 1..(Len(P[q]) + 1)
        /\ \A q \in Ranks : \A j \in DOMAIN P[q] :
             j \in Nat /\ (j < B[q] <=> j < A[q] \/ (q = p /\ j = A[p]))
    BY <1>2 DEF Advances
  <1>4. M[p][k] = None /\ \A j \in DOMAIN P[p] : M[p][j] # None => j < k
    BY <1>1, NextHasNone
  <1>5. CanGet(P, M, p, k, m)
    BY <1>1, <1>4, ReceivingCanGet
  <1>6. Tables(P, M) /\ U \in [Ranks -> Seq(Sendable)]
    BY <1>1 DEF Pipes, MessagesRight, UnexpectedRight
  <1>7. \A q \in Ranks : \A j \in DOMAIN P[q] :
          /\ N[q][j] = IF q = p /\ j = k THEN m ELSE M[q][j]
          /\ Has(P, N, q, j) <=> Has(P, M, q, j) \/ (q = p /\ j = k)
    BY <1>5, <1>6, GetsChanges
  <1>8. Pipes(P, N, T, W) /\ \A e \in Ranks : ToSet(W[e]) \subseteq ToSet(U[e])
    BY <1>1, <1>5, ReceiveUnexpected
  <1>9. m \in ToSet(U[p]) /\ m # None
    <2>1. ToSet(U[p]) = {U[p][j] : j \in DOMAIN U[p]}
      BY Zenon DEF ToSet
    <2> QED BY <1>5, <2>1, MpiAssumption DEF CanGet, Sent
  <1>10. PostedRight(P, B, N, W, Q)
    <2>1. \A d \in Ranks : \A x \in ToSet(Q[d]) : PostedReceive(P, B, N, W, d, x)
      <3> SUFFICES ASSUME NEW d \in Ranks, NEW x \in ToSet(Q[d])
                   PROVE  PostedReceive(P, B, N, W, d, x)
        OBVIOUS
      <3>1. PostedReceive(P, A, M, U, d, x)
        BY <1>1 DEF PostedRight
      <3>2. ~(d = p /\ x.k = k)
        <4>1. x.k < A[d] /\ x.k \in DOMAIN P[d]
          BY <3>1 DEF PostedReceive, IsRecv
        <4>2. x.k \in Nat
          BY <1>3, <4>1
        <4> QED BY <1>3, <4>1, <4>2
      <3>3. d = p => ~Matches(x.source, x.tag, m)
        BY <1>9, <3>1 DEF PostedReceive
      <3>4. ToSet(W[d]) \subseteq ToSet(U[d])
        BY <1>8
      <3>5. PostedReceive(P, A, N, W, d, x)
        BY <1>5, <1>6, <3>1, <3>2, <3>3, <3>4, OthersPosted
      <3> QED BY <1>2, <3>5, PostedLater
    <2> QED BY <1>1, <2>1 DEF PostedRight
  <1>11. OpenPosted(P, B, N, Q)
    <2> SUFFICES ASSUME NEW d \in Ranks, NEW j \in DOMAIN P[d], IsRecv(P, d, j), j < B[d],
                        N[d][j] = None
                 PROVE  NoSender(P, d, j) \/ \E x \in ToSet(Q[d]) : x.k = j
      BY DEF OpenPosted
    <2>1. ~(d = p /\ j = k)
      BY <1>7, <1>9
    <2>2. j < A[d] /\ M[d][j] = None
      BY <1>3, <1>7, <2>1
    <2> QED BY <1>1, <2>2 DEF OpenPosted
  <1>12. Progress(P, B, N)
    <2> SUFFICES ASSUME NEW q \in Ranks, NEW j \in DOMAIN P[q]
                 PROVE  /\ N[q][j] # None => j < B[q]
                        /\ IsSend(P, q, j) /\ j < B[q] => N[q][j] # None
      BY <1>3 DEF Progress
    <2>1. /\ M[q][j] # None => j < A[q]
          /\ IsSend(P, q, j) /\ j < A[q] => M[q][j] # None
      BY <1>1 DEF Progress
    <2>2. CASE q = p /\ j = k
      BY <1>3, <1>7, <1>9, <2>2
    <2>3. CASE ~(q = p /\ j = k)
      BY <1>3, <1>7, <2>1, <2>3
    <2> QED BY <2>2, <2>3
  <1>13. Channels(P, B, N, T, W, Q)
    BY <1>8, <1>10, <1>11, <1>12 DEF Channels
  <1> QED BY <1>5, <1>13

\* A receive that nothing is sent to is cancelled.
LEMMA CancelChannels ==
  ASSUME NEW P \in Programs, NEW A, NEW M, NEW T, NEW U, NEW Q, Channels(P, A, M, T, U, Q),
         NEW p \in Ranks, A[p] \in DOMAIN P[p], P[p][A[p]].op \notin {"isend", "irecv"},
         NEW B, B = Next1(A, p),
         NEW i \in DOMAIN Q[p], NoSender(P, p, Q[p][i].k), NEW R, R = Without(Q, p, i)
  PROVE  Channels(P, B, M, T, U, R) /\ NoNewPosts(Q, R)
  <1>1. Channels(P, B, M, T, U, Q)
    BY QuietChannels
  <1>2. /\ Pipes(P, M, T, U) /\ PostedRight(P, B, M, U, Q) /\ OpenPosted(P, B, M, Q)
        /\ Progress(P, B, M)
    BY <1>1 DEF Channels
  <1>3. Q \in [Ranks -> Seq(Waiting)] /\ ByRequest(Q[p]) /\ \A d \in Ranks : ByRequest(Q[d])
    BY <1>2 DEF PostedRight
  <1>4. Dropped(Q, R, p, i)
    BY <1>3, PostDropped
  <1>5. PostedRight(P, B, M, U, R)
    <2>1. \A d \in Ranks : ByRequest(R[d])
      BY <1>3, <1>4 DEF Dropped
    <2> QED BY <1>2, <1>4, <2>1 DEF PostedRight, Dropped, NoNewPosts
  <1>6. OpenPosted(P, B, M, R)
    <2> SUFFICES ASSUME NEW d \in Ranks, NEW j \in DOMAIN P[d], IsRecv(P, d, j), j < B[d],
                        M[d][j] = None, ~NoSender(P, d, j)
                 PROVE  \E x \in ToSet(R[d]) : x.k = j
      BY DEF OpenPosted
    <2>1. PICK x \in ToSet(Q[d]) : x.k = j
      BY <1>2 DEF OpenPosted
    <2>2. x \in ToSet(R[d])
      BY <1>4, <2>1 DEF Dropped
    <2> QED BY <2>1, <2>2
  <1>7. NoNewPosts(Q, R)
    BY <1>4 DEF Dropped
  <1> QED BY <1>2, <1>5, <1>6, <1>7 DEF Channels

\* A message arrives that no posted receive matches.
LEMMA ArriveChannels ==
  ASSUME NEW P \in Programs, NEW A, NEW M, NEW T, NEW U, NEW Q, Channels(P, A, M, T, U, Q),
         NEW s \in Ranks, NEW d \in Ranks, T[<<s, d>>] # <<>>,
         NEW m, m = Head(T[<<s, d>>]),
         \A r \in ToSet(Q[d]) : ~Matches(r.source, r.tag, m),
         NEW V, V = WithoutFirst(T, s, d), NEW W, W = WithElement(U, d, m)
  PROVE  Channels(P, A, M, V, W, Q)
  <1>1. /\ Pipes(P, M, T, U) /\ PostedRight(P, A, M, U, Q) /\ OpenPosted(P, A, M, Q)
        /\ Progress(P, A, M)
    BY DEF Channels
  <1>2. /\ Pipes(P, M, V, W)
        /\ \A e \in Ranks : ToSet(W[e]) \subseteq ToSet(U[e]) \cup {m}
        /\ \A e \in Ranks : e # d => W[e] = U[e]
    BY <1>1, ArriveUnexpected
  <1>3. PostedRight(P, A, M, W, Q)
    <2>1. \A e \in Ranks : \A r \in ToSet(Q[e]) : PostedReceive(P, A, M, W, e, r)
      <3> SUFFICES ASSUME NEW e \in Ranks, NEW r \in ToSet(Q[e])
                   PROVE  PostedReceive(P, A, M, W, e, r)
        OBVIOUS
      <3>1. PostedReceive(P, A, M, U, e, r)
        BY <1>1 DEF PostedRight
      <3>2. \A x \in ToSet(W[e]) : ~Matches(r.source, r.tag, x)
        BY <1>2, <3>1 DEF PostedReceive
      <3> QED BY <3>1, <3>2 DEF PostedReceive
    <2> QED BY <1>1, <2>1 DEF PostedRight
  <1> QED BY <1>1, <1>2, <1>3 DEF Channels

\* A message goes to the first posted receive that matches it.
LEMMA DeliverChannels ==
  ASSUME NEW P \in Programs, NEW A, NEW M, NEW T, NEW U, NEW Q, Channels(P, A, M, T, U, Q),
         NEW s \in Ranks, NEW d \in Ranks, T[<<s, d>>] # <<>>,
         NEW m, m = Head(T[<<s, d>>]),
         NEW i \in DOMAIN Q[d], Matches(Q[d][i].source, Q[d][i].tag, m),
         \A j \in DOMAIN Q[d] : Matches(Q[d][j].source, Q[d][j].tag, m) => i <= j,
         NEW V, V = WithoutFirst(T, s, d),
         NEW k, k = Q[d][i].k, NEW N, N = With1(M, d, k, m), NEW R, R = Without(Q, d, i)
  PROVE  /\ Channels(P, A, N, V, U, R) /\ k \in DOMAIN P[d] /\ CanGet(P, M, d, k, m)
         /\ NoNewPosts(Q, R)
  <1>1. /\ Pipes(P, M, T, U) /\ PostedRight(P, A, M, U, Q) /\ OpenPosted(P, A, M, Q)
        /\ Progress(P, A, M)
    BY DEF Channels
  <1>2. Q \in [Ranks -> Seq(Waiting)]
        /\ (\A e \in Ranks : \A x \in ToSet(Q[e]) : PostedReceive(P, A, M, U, e, x))
        /\ \A e \in Ranks : ByRequest(Q[e])
    BY <1>1 DEF PostedRight
  <1>3. PICK r : r = Q[d][i]
    OBVIOUS
  <1>4. r \in ToSet(Q[d]) /\ Matches(r.source, r.tag, m) /\ r.k = k
    <2>1. ToSet(Q[d]) = {Q[d][j] : j \in DOMAIN Q[d]}
      BY Zenon DEF ToSet
    <2> QED BY <1>3, <2>1
  <1>5. k \in DOMAIN P[d] /\ CanGet(P, M, d, k, m)
    <2>1. r.k \in DOMAIN P[d] /\ CanGet(P, M, d, r.k, m)
      BY <1>1, <1>4, ArrivingCanGet
    <2> QED BY <1>4, <2>1
  <1>6. Tables(P, M)
    BY <1>1 DEF Pipes, MessagesRight
  <1>7. \A q \in Ranks : \A j \in DOMAIN P[q] :
          /\ N[q][j] = IF q = d /\ j = k THEN m ELSE M[q][j]
          /\ Has(P, N, q, j) <=> Has(P, M, q, j) \/ (q = d /\ j = k)
    BY <1>5, <1>6, GetsChanges
  <1>8. Pipes(P, N, V, U)
    BY <1>1, <1>5, ArriveReceived
  <1>9. Dropped(Q, R, d, i)
    BY <1>2, PostDropped
  <1>10. /\ R \in [Ranks -> Seq(Waiting)] /\ (\A e \in Ranks : e # d => R[e] = Q[e])
         /\ NoNewPosts(Q, R) /\ ByRequest(R[d])
         /\ (\A x \in ToSet(R[d]) : x.k # k /\ \E j \in DOMAIN Q[d] : j # i /\ x = Q[d][j])
         /\ \A x \in ToSet(Q[d]) : x.k = k \/ x \in ToSet(R[d])
    BY <1>9 DEF Dropped
  <1>11. PostedRight(P, A, N, U, R)
    <2>1. \A e \in Ranks : ByRequest(R[e])
      BY <1>2, <1>10
    <2>2. \A e \in Ranks : \A x \in ToSet(R[e]) : PostedReceive(P, A, N, U, e, x)
      <3> SUFFICES ASSUME NEW e \in Ranks, NEW x \in ToSet(R[e])
                   PROVE  PostedReceive(P, A, N, U, e, x)
        OBVIOUS
      <3>1. PostedReceive(P, A, M, U, e, x)
        BY <1>2, <1>10 DEF NoNewPosts
      <3>2. ~(e = d /\ x.k = k)
        BY <1>10
      <3>3. ASSUME e = d, Matches(x.source, x.tag, m) PROVE k < x.k
        <4>1. PICK j \in DOMAIN Q[d] : j # i /\ x = Q[d][j]
          BY <1>10, <3>3
        <4>2. i <= j
          BY <3>3, <4>1
        <4>3. i \in Nat /\ j \in Nat
          <5>1. Q[d] \in Seq(Waiting)
            BY <1>2
          <5> QED BY <5>1, LenProperties
        <4>4. i < j
          BY <4>1, <4>2, <4>3
        <4> QED BY <1>2, <4>1, <4>4 DEF ByRequest
      <3>4. ToSet(U[e]) \subseteq ToSet(U[e])
        OBVIOUS
      <3> QED BY <1>5, <1>6, <3>1, <3>2, <3>3, <3>4, OthersPosted
    <2> QED BY <1>10, <2>1, <2>2 DEF PostedRight
  <1>12. OpenPosted(P, A, N, R)
    <2> SUFFICES ASSUME NEW e \in Ranks, NEW j \in DOMAIN P[e], IsRecv(P, e, j), j < A[e],
                        N[e][j] = None, ~NoSender(P, e, j)
                 PROVE  \E x \in ToSet(R[e]) : x.k = j
      BY DEF OpenPosted
    <2>1. ~(e = d /\ j = k)
      <3>1. m # None
        BY <1>5, MpiAssumption DEF CanGet, Sent
      <3> QED BY <1>7, <3>1
    <2>2. M[e][j] = None
      BY <1>7, <2>1
    <2>3. PICK x \in ToSet(Q[e]) : x.k = j
      BY <1>1, <2>2 DEF OpenPosted
    <2>4. x \in ToSet(R[e])
      BY <1>10, <2>1, <2>3
    <2> QED BY <2>3, <2>4
  <1>13. Progress(P, A, N)
    <2>1. k < A[d] /\ IsRecv(P, d, k)
      BY <1>2, <1>4 DEF PostedReceive
    <2> SUFFICES ASSUME NEW q \in Ranks, NEW j \in DOMAIN P[q]
                 PROVE  /\ N[q][j] # None => j < A[q]
                        /\ IsSend(P, q, j) /\ j < A[q] => N[q][j] # None
      BY <1>1 DEF Progress
    <2>2. /\ M[q][j] # None => j < A[q]
          /\ IsSend(P, q, j) /\ j < A[q] => M[q][j] # None
      BY <1>1 DEF Progress
    <2> QED BY <1>7, <2>1, <2>2 DEF IsSend, IsRecv
  <1>14. Channels(P, A, N, V, U, R)
    BY <1>8, <1>11, <1>12, <1>13 DEF Channels
  <1> QED BY <1>5, <1>10, <1>14

-------------------------------------------------------------------------------
\* The order in which a call returns requests.

\* InOrder puts a set of indices in order, and has every one of them.
LEMMA OrderIs ==
  ASSUME NEW L \in Nat, NEW is \in SUBSET (1..L)
  PROVE  /\ Cardinality(is) \in Nat /\ (is # {} => Cardinality(is) >= 1)
         /\ InOrder(is) \in [1..Cardinality(is) -> is]
         /\ \A i \in is : \E j \in 1..Cardinality(is) : InOrder(is)[j] = i
  <1>1. IsFiniteSet(is) /\ Cardinality(is) \in Nat
    <2>1. IsFiniteSet(1..L)
      BY FS_Interval
    <2> QED BY <2>1, FS_Subset, FS_CardinalityType
  <1>2. is # {} => Cardinality(is) >= 1
    BY <1>1, FS_EmptySet
  <1>3. PICK n : n = Cardinality(is)
    OBVIOUS
  <1>4. InOrder(is) \in [1..n -> is] /\ Ascending(InOrder(is))
    <2>1. \E s \in [1..n -> is] : Ascending(s)
      BY <1>3, OrderExists
    <2>2. InOrder(is) = CHOOSE s \in [1..n -> is] : Ascending(s)
      BY <1>3, Zenon DEF InOrder, Ascending
    <2> QED BY <2>1, <2>2
  <1>5. \A i \in is : \E j \in 1..n : InOrder(is)[j] = i
    BY <1>1, <1>3, <1>4, AscendingHasAll
  <1> QED BY <1>1, <1>2, <1>3, <1>4, <1>5

-------------------------------------------------------------------------------
\* What a call returns.

\* A request that ReMPI keeps no account of has no message.
LEMMA NeverGets ==
  ASSUME NEW P, Replayable(P), NEW M, MessagesRight(P, M),
         NEW p \in Ranks, NEW j \in DOMAIN P[p], Unaccounted(P, p, j)
  PROVE  M[p][j] = None /\ (IsRecv(P, p, j) => NoSender(P, p, j))
  <1>1. SendsOwn(P, M) /\ ReceivesSent(P, M)
    BY DEF MessagesRight
  <1>2. CASE P[p][j].op = "unsupported"
    BY <1>1, <1>2 DEF SendsOwn, IsSend, IsRecv
  <1>3. CASE IsRecv(P, p, j) /\ Cancels(P[p], j)
    <2>1. NoSender(P, p, j)
      BY <1>3 DEF Replayable, IsRecv
    <2>2. ASSUME M[p][j] # None PROVE FALSE
      <3>1. PICK m : m = M[p][j]
        OBVIOUS
      <3>2. m.from \in Ranks /\ Sent(P, M, m, m.from, p) /\ Takes(P, p, j, m)
        BY <1>1, <1>3, <2>2, <3>1 DEF ReceivesSent, Has
      <3>3. IsSend(P, m.from, m.n) /\ M[m.from][m.n] = m /\ m # None
        BY <2>2, <3>1, <3>2 DEF Sent
      <3>4. P[m.from][m.n].tag = m.tag
        BY <1>1, <3>2, <3>3 DEF SendsOwn, IsSend, IsRecv
      <3> QED BY <2>1, <3>2, <3>3, <3>4 DEF NoSender, Takes, IsSend
    <2> QED BY <2>1, <2>2
  <1> QED BY <1>2, <1>3 DEF Unaccounted

\* A matching function refers to earlier operations.
LEMMA MatchRefers ==
  ASSUME NEW P \in Programs, NEW p \in Ranks, NEW k \in DOMAIN P[p], P[p][k].op = "match"
  PROVE  /\ Len(P[p][k].among) \in Nat
         /\ \A i \in 1..Len(P[p][k].among) :
              P[p][k].among[i] \in DOMAIN P[p] /\ P[p][k].among[i] < k
  <1>1. P[p][k] \in Operations /\ k \in Nat /\ DOMAIN P[p] = 1..Len(P[p]) /\ Len(P[p]) \in Nat
    BY OpsAreNumbers
  <1>2. PICK c : c = P[p][k]
    OBVIOUS
  <1>3. c.among \in Seq(Nat)
    <2>1. c \in Operations /\ c.op = "match"
      BY <1>1, <1>2
    <2>2. c \in [op : {"match"}, kind : {"one", "some", "all"}, waits : BOOLEAN,
                 among : Seq(Nat)]
      BY <2>1 DEF Operations
    <2> QED BY <2>2
  <1>4. Refers(P[p], k)
    BY ProgramAssumption
  <1>5. ToSet(c.among) \subseteq 1..(k - 1)
    BY <1>2, <1>4 DEF Refers
  <1>6. PICK s : s = c.among
    OBVIOUS
  <1>7. ToSet(s) = {s[i] : i \in DOMAIN s} /\ DOMAIN s = 1..Len(s) /\ Len(s) \in Nat
    <2>1. s \in Seq(Nat)
      BY <1>3, <1>6
    <2>2. DOMAIN s = 1..Len(s) /\ Len(s) \in Nat
      BY <2>1, LenProperties
    <2> QED BY <2>2, Zenon DEF ToSet
  <1>8. \A i \in 1..Len(s) : s[i] \in 1..(k - 1)
    BY <1>5, <1>6, <1>7
  <1>9. \A i \in 1..Len(s) : s[i] \in DOMAIN P[p] /\ s[i] < k
    BY <1>1, <1>8
  <1> QED BY <1>2, <1>6, <1>7, <1>9

\* What a call returns depends on the messages of its requests only.
LEMMA SameOutcome ==
  ASSUME NEW c, NEW L \in Nat, NEW is \in SUBSET (1..L), NEW req, NEW ms, NEW ns, NEW p,
         NEW last, \A i \in is : req[c.among[i]] = "null" \/ ms[c.among[i]] = ns[c.among[i]]
  PROVE  /\ ResultsOf(c, req, ms, is) = ResultsOf(c, req, ns, is)
         /\ LastOf(c, req, ms, is, last) = LastOf(c, req, ns, is, last)
         /\ TestsOf(p, c, req, ms, is) = TestsOf(p, c, req, ns, is)
  <1>1. PICK s, n : s = InOrder(is) /\ n = Cardinality(is)
    OBVIOUS
  <1>2. n \in Nat /\ s \in [1..n -> is]
    BY <1>1, OrderIs
  <1>3. \A j \in DOMAIN s : s[j] \in is
    BY <1>2
  <1>4. ResultsOf(c, req, ms, is) = ResultsOf(c, req, ns, is)
    <2>1. \A j \in DOMAIN s :
            (IF req[c.among[s[j]]] = "null" THEN None ELSE ms[c.among[s[j]]])
              = (IF req[c.among[s[j]]] = "null" THEN None ELSE ns[c.among[s[j]]])
      BY <1>3
    <2>2. [j \in DOMAIN s |->
             <<s[j], IF req[c.among[s[j]]] = "null" THEN None ELSE ms[c.among[s[j]]]>>]
          = [j \in DOMAIN s |->
             <<s[j], IF req[c.among[s[j]]] = "null" THEN None ELSE ns[c.among[s[j]]]>>]
      BY <2>1
    <2> QED BY <1>1, <2>2 DEF ResultsOf
  <1>5. TestsOf(p, c, req, ms, is) = TestsOf(p, c, req, ns, is)
    <2>1. \A j \in DOMAIN s :
            (IF req[c.among[s[j]]] = "null" THEN AnySource ELSE Rank(p, ms[c.among[s[j]]]))
              = (IF req[c.among[s[j]]] = "null" THEN AnySource ELSE Rank(p, ns[c.among[s[j]]]))
      BY <1>3
    <2>2. [j \in DOMAIN s |->
            [kind |-> "test", flag |-> 1, index |-> s[j],
             rank |-> IF req[c.among[s[j]]] = "null" THEN AnySource
                      ELSE Rank(p, ms[c.among[s[j]]]),
             next |-> WithNext(j, n)]]
          = [j \in DOMAIN s |->
            [kind |-> "test", flag |-> 1, index |-> s[j],
             rank |-> IF req[c.among[s[j]]] = "null" THEN AnySource
                      ELSE Rank(p, ns[c.among[s[j]]]),
             next |-> WithNext(j, n)]]
      BY <2>1
    <2> QED BY <1>1, <2>2 DEF TestsOf
  <1>6. LastOf(c, req, ms, is, last) = LastOf(c, req, ns, is, last)
    <2>1. ReceivedOf(c, req, ms, is) = ReceivedOf(c, req, ns, is)
      BY DEF ReceivedOf
    <2>2. PICK R : R = ReceivedOf(c, req, ms, is)
      OBVIOUS
    <2>3. R \in SUBSET is /\ \A i \in R : ms[c.among[i]] = ns[c.among[i]]
      BY <2>2 DEF ReceivedOf
    <2>4. PICK x : x = GreatestOf(R)
      OBVIOUS
    <2>5. R # {} => x \in R
      <3>1. R \in SUBSET (1..L)
        BY <2>3
      <3>2. R # {} => \E i \in R : \A j \in R : j <= i
        BY <3>1, GreatestExists
      <3> QED BY <2>4, <3>2 DEF GreatestOf
    <2>6. LastOf(c, req, ms, is, last) = IF R = {} THEN last ELSE ms[c.among[x]].from
      BY <2>2, <2>4, Zenon DEF LastOf
    <2>7. LastOf(c, req, ns, is, last) = IF R = {} THEN last ELSE ns[c.among[x]].from
      BY <2>1, <2>2, <2>4, Zenon DEF LastOf
    <2> QED BY <2>3, <2>5, <2>6, <2>7
  <1> QED BY <1>4, <1>5, <1>6

\* The source received from last is a process.
LEMMA LastOfType ==
  ASSUME NEW c, NEW L \in Nat, NEW is \in SUBSET (1..L), NEW req, NEW ms, NEW last,
         \A i \in is : ms[c.among[i]] # None => ms[c.among[i]].from \in Ranks
  PROVE  LastOf(c, req, ms, is, last) \in Ranks \cup {last}
  <1>1. PICK R : R = ReceivedOf(c, req, ms, is)
    OBVIOUS
  <1>2. R \in SUBSET is /\ \A i \in R : ms[c.among[i]].from \in Ranks
    BY <1>1 DEF ReceivedOf
  <1>3. PICK x : x = GreatestOf(R)
    OBVIOUS
  <1>4. R # {} => x \in R
    <2>1. R \in SUBSET (1..L)
      BY <1>2
    <2>2. R # {} => \E i \in R : \A j \in R : j <= i
      BY <2>1, GreatestExists
    <2> QED BY <1>3, <2>2 DEF GreatestOf
  <1>5. LastOf(c, req, ms, is, last) = IF R = {} THEN last ELSE ms[c.among[x]].from
    BY <1>1, <1>3, Zenon DEF LastOf
  <1> QED BY <1>2, <1>4, <1>5

\* The events of a call belong together.
LEMMA TestsAre ==
  ASSUME NEW c, NEW L \in Nat, NEW is \in SUBSET (1..L), NEW req, NEW ms, NEW p
  PROVE  GroupOf(TestsOf(p, c, req, ms, is), is, EventCount(is))
  <1>1. CASE is = {}
    <2>1. PICK t : t = <<NoMatch>>
      OBVIOUS
    <2>2. TestsOf(p, c, req, ms, is) = t /\ EventCount(is) = 1
      BY <1>1, <2>1 DEF TestsOf, EventCount
    <2>3. DOMAIN t = 1..1 /\ t[1] = NoMatch
      BY <2>1
    <2>4. \A j \in 1..1 : t[j] = NoMatch /\ ~(j < 1)
      BY <2>3
    <2>5. NoMatch.kind = "test" /\ NoMatch.next = FALSE /\ NoMatch.flag = 0
      BY DEF NoMatch
    <2>6. \A j \in 1..1 : /\ t[j].kind = "test" /\ t[j].next \in BOOLEAN
                          /\ (t[j].next <=> j < 1) /\ t[j].flag = 0
      <3>1. ~NoMatch.next /\ NoMatch.next \in BOOLEAN
        BY Zenon, <2>5
      <3> QED BY <2>4, <2>5, <3>1
    <2>7. GroupOf(t, is, 1)
      BY <1>1, <2>3, <2>6 DEF GroupOf
    <2> QED BY <2>2, <2>7
  <1>2. CASE is # {}
    <2>1. PICK s, n, t : s = InOrder(is) /\ n = Cardinality(is) /\ t = TestsOf(p, c, req, ms, is)
      OBVIOUS
    <2>2. /\ n \in Nat /\ n >= 1 /\ s \in [1..n -> is]
          /\ \A i \in is : \E j \in 1..n : s[j] = i
      BY <1>2, <2>1, OrderIs
    <2>3. t = [j \in DOMAIN s |->
                [kind |-> "test", flag |-> 1, index |-> s[j],
                 rank |-> IF req[c.among[s[j]]] = "null" THEN AnySource
                          ELSE Rank(p, ms[c.among[s[j]]]),
                 next |-> WithNext(j, n)]]
      BY <1>2, <2>1, Zenon DEF TestsOf
    <2>4. DOMAIN t = 1..n
      BY <2>2, <2>3
    <2>5. \A j \in 1..n : t[j].kind = "test" /\ t[j].flag = 1 /\ t[j].index = s[j]
                          /\ t[j].next = (j < n)
      BY <2>2, <2>3 DEF WithNext
    <2>6. \A j \in 1..n : s[j] \in is
      BY <2>2
    <2>7. GroupOf(t, is, n)
      <3>1. \A j \in 1..n : t[j].next \in BOOLEAN /\ (t[j].next <=> j < n)
        <4> SUFFICES ASSUME NEW j \in 1..n
                     PROVE  t[j].next \in BOOLEAN /\ (t[j].next <=> j < n)
          OBVIOUS
        <4>1. t[j].next = (j < n)
          BY <2>5
        <4>2. (j < n) \in BOOLEAN
          OBVIOUS
        <4>3. t[j].next \in BOOLEAN
          BY Zenon, <4>1, <4>2
        <4>4. t[j].next <=> j < n
          BY Zenon, <4>1
        <4> QED BY <4>3, <4>4
      <3>2. \A i \in is : \E j \in 1..n : t[j].index = i
        BY <2>2, <2>5
      <3> QED BY <1>2, <2>2, <2>4, <2>5, <2>6, <3>1, <3>2 DEF GroupOf
    <2>8. EventCount(is) = n
      BY <1>2, <2>1 DEF EventCount
    <2> QED BY <2>1, <2>7, <2>8
  <1> QED BY <1>1, <1>2

-------------------------------------------------------------------------------
\* The recorded run goes on: what has happened stays true.

\* A request that a process has made, and whose message is still to come if it is
\* ignored, keeps what it has.
LEMMA MessageStays ==
  ASSUME NEW P, Replayable(P), NEW M, MessagesRight(P, M), NEW N, MessagesRight(P, N),
         NEW p \in Ranks, \A i \in DOMAIN P[p] : M[p][i] # None => N[p][i] = M[p][i],
         NEW k, NEW h, StateRight(P, p, k, h), NEW j \in DOMAIN P[p], j < k,
         h.request[j] \in {"send", "recv"} => M[p][j] # None
  PROVE  h.request[j] = "null" \/ M[p][j] = N[p][j]
  <1>1. h.request[j] \in RequestStates
    BY DEF StateRight
  <1>2. CASE h.request[j] \in {"send", "recv"}
    BY <1>2
  <1>3. CASE h.request[j] = "none"
    <2>1. ~IsSend(P, p, j) /\ ~IsRecv(P, p, j)
      BY <1>3 DEF StateRight
    <2>2. SendsOwn(P, M) /\ SendsOwn(P, N)
      BY DEF MessagesRight
    <2>3. M[p][j] = None /\ N[p][j] = None
      BY <2>1, <2>2 DEF SendsOwn
    <2> QED BY <2>3
  <1>4. CASE h.request[j] = "ignored"
    <2>1. Unaccounted(P, p, j)
      BY <1>4 DEF StateRight
    <2>2. M[p][j] = None
      BY <2>1, NeverGets
    <2>3. N[p][j] = None
      BY <2>1, NeverGets
    <2> QED BY <2>2, <2>3
  <1> QED BY <1>1, <1>2, <1>3, <1>4 DEF RequestStates

\* What a probe has seen.
LEMMA ProbeGrows ==
  ASSUME NEW P \in Programs, NEW A, NEW M, NEW T, NEW N, NEW V, GrowsTo(P, A, M, T, N, V),
         NEW p \in Ranks, A[p] \in Nat, NEW k \in DOMAIN P[p], k < A[p],
         NEW m \in Sendable, ProbedRight(P, M, p, k, m), Arrived(T, p, m)
  PROVE  ProbedRight(P, N, p, k, m) /\ Arrived(V, p, m)
  <1>1. /\ m.from \in Ranks /\ Sent(P, M, m, m.from, p) /\ Takes(P, p, k, m)
        /\ \A x \in Sendable : Sent(P, M, x, m.from, p) /\ x.n < m.n /\ Takes(P, p, k, x) =>
             \E j \in DOMAIN P[p] : j < k /\ Has(P, M, p, j) /\ M[p][j] = x
        /\ \A j \in DOMAIN P[p] : j < k /\ Has(P, M, p, j) => M[p][j] # m
    BY DEF ProbedRight
  <1>2. \A q \in Ranks : \A j \in DOMAIN P[q] : M[q][j] # None => N[q][j] = M[q][j]
    BY DEF GrowsTo, Stays
  <1>3. Sent(P, N, m, m.from, p)
    BY <1>1, <1>2, SentStays
  <1>4. Arrived(V, p, m)
    BY <1>1 DEF GrowsTo, ArrivedStays
  <1>5. ASSUME NEW x \in Sendable, Sent(P, N, x, m.from, p), x.n < m.n, Takes(P, p, k, x)
        PROVE  \E j \in DOMAIN P[p] : j < k /\ Has(P, N, p, j) /\ N[p][j] = x
    <2>1. Sent(P, M, x, m.from, p)
      <3>1. Sent(P, M, x, m.from, p) \/ m.n < x.n
        BY <1>1, <1>5 DEF GrowsTo, SentLater
      <3>2. x.n \in Nat /\ m.n \in Nat
        BY DEF Sendable
      <3> QED BY <1>5, <3>1, <3>2
    <2>2. PICK j \in DOMAIN P[p] : j < k /\ Has(P, M, p, j) /\ M[p][j] = x
      BY <1>1, <1>5, <2>1
    <2>3. Has(P, N, p, j) /\ N[p][j] = x
      BY <1>2, <2>2 DEF Has
    <2> QED BY <2>2, <2>3
  <1>6. ASSUME NEW j \in DOMAIN P[p], j < k, Has(P, N, p, j), N[p][j] = m
        PROVE  FALSE
    <2>1. j \in Nat /\ k \in Nat
      BY OpsAreNumbers
    <2>2. j # A[p]
      BY <1>6, <2>1
    <2>3. Has(P, M, p, j)
      BY <1>6, <2>2 DEF GrowsTo, GotLater
    <2>4. M[p][j] = m
      BY <1>2, <1>6, <2>3 DEF Has
    <2> QED BY <1>1, <1>6, <2>3, <2>4
  <1> QED BY <1>1, <1>3, <1>4, <1>5, <1>6 DEF ProbedRight

\* They do when they agree on the requests.
LEMMA SameMatched ==
  ASSUME NEW c, NEW L \in Nat, NEW is \in SUBSET (1..L), NEW k, NEW h, NEW ms, NEW ns, NEW p,
         Agree(c, h.request, ms, ns, is)
  PROVE  MatchedSame(c, k, h, ms, ns, is) /\ TestsSame(p, c, h.request, ms, ns, is)
  <1>1. PICK req, last : req = h.request /\ last = h.lastSource
    OBVIOUS
  <1>2. \A i \in is : req[c.among[i]] = "null" \/ ms[c.among[i]] = ns[c.among[i]]
    BY <1>1 DEF Agree
  <1>3. /\ ResultsOf(c, req, ms, is) = ResultsOf(c, req, ns, is)
        /\ LastOf(c, req, ms, is, last) = LastOf(c, req, ns, is, last)
        /\ TestsOf(p, c, req, ms, is) = TestsOf(p, c, req, ns, is)
    BY <1>2, SameOutcome
  <1>4. \A n : Matched(c, k, h, ms, is, n) = Matched(c, k, h, ns, is, n)
    BY <1>1, <1>3, Zenon DEF Matched
  <1> QED BY <1>1, <1>3, <1>4 DEF MatchedSame, TestsSame

\* What a call has returned.
LEMMA MatchGrows ==
  ASSUME NEW P \in Programs, Replayable(P), NEW M, MessagesRight(P, M),
         NEW N, MessagesRight(P, N), Stays(P, M, N), NEW E, NEW F, EventsGrow(E, F),
         NEW p \in Ranks, NEW k \in DOMAIN P[p], NEW h, StateRight(P, p, k, h), NEW g,
         NEW c, c = P[p][k], c.op = "match", KeptMatch(M, p, k, c, h, g, E)
  PROVE  KeptMatch(N, p, k, c, h, g, F)
  <1>1. /\ Len(c.among) \in Nat
        /\ \A i \in 1..Len(c.among) : c.among[i] \in DOMAIN P[p] /\ c.among[i] < k
    BY MatchRefers
  <1>2. PICK is \in SUBSET (1..Len(c.among)) : KeptMatchOf(M, p, k, c, h, g, E, is)
    BY DEF KeptMatch
  <1>3. PICK L, req, ms, ns, last :
          L = Len(c.among) /\ req = h.request /\ ms = M[p] /\ ns = N[p] /\ last = h.lastSource
    OBVIOUS
  <1>4. \A i \in is : req[c.among[i]] \in {"send", "recv"} => ms[c.among[i]] # None
    BY <1>2, <1>3 DEF KeptMatchOf
  <1>5. \A j \in DOMAIN P[p] : ms[j] # None => ns[j] = ms[j]
    BY <1>3 DEF Stays
  <1>6. \A i \in is : req[c.among[i]] = "null" \/ ms[c.among[i]] = ns[c.among[i]]
    <2> SUFFICES ASSUME NEW i \in is
                 PROVE  req[c.among[i]] = "null" \/ ms[c.among[i]] = ns[c.among[i]]
      OBVIOUS
    <2>1. PICK j : j = c.among[i]
      OBVIOUS
    <2>2. j \in DOMAIN P[p] /\ j < k
      BY <1>1, <2>1
    <2>3. h.request[j] \in {"send", "recv"} => M[p][j] # None
      BY <1>3, <1>4, <2>1
    <2>4. \A x \in DOMAIN P[p] : M[p][x] # None => N[p][x] = M[p][x]
      BY <1>3, <1>5
    <2>5. h.request[j] = "null" \/ M[p][j] = N[p][j]
      BY <2>2, <2>3, <2>4, MessageStays
    <2> QED BY <1>3, <2>1, <2>5
  <1>7. MatchedSame(c, k, h, ms, ns, is) /\ TestsSame(p, c, h.request, ms, ns, is)
    <2>1. L \in Nat /\ is \in SUBSET (1..L) /\ Agree(c, h.request, ms, ns, is)
      BY <1>1, <1>3, <1>6 DEF Agree
    <2> QED BY <2>1, SameMatched
  <1>8. \A n : Matched(c, k, h, M[p], is, n) = Matched(c, k, h, N[p], is, n)
    BY <1>3, <1>7 DEF MatchedSame
  <1>9. \A i \in is : h.request[c.among[i]] \in {"send", "recv"} => N[p][c.among[i]] # None
    BY <1>1, <1>3, <1>4, <1>5
  <1>10. \A j \in 1..EventsOf(c, h.request, is) :
           /\ h.events + j \in DOMAIN F
           /\ F[h.events + j] = TestsOf(p, c, h.request, N[p], is)[j]
    <2> SUFFICES ASSUME NEW j \in 1..EventsOf(c, h.request, is)
                 PROVE  /\ h.events + j \in DOMAIN F
                        /\ F[h.events + j] = TestsOf(p, c, req, ns, is)[j]
      BY <1>3
    <2>1. PICK t, n : t = TestsOf(p, c, req, ms, is) /\ n = h.events + j
      OBVIOUS
    <2>2. n \in DOMAIN E /\ E[n] = t[j]
      BY <1>2, <1>3, <2>1 DEF KeptMatchOf
    <2>3. t[j].kind = "test"
      <3>1. GroupOf(t, is, EventCount(is))
        <4>1. L \in Nat /\ is \in SUBSET (1..L)
          BY <1>1, <1>3
        <4> QED BY <2>1, <4>1, TestsAre
      <3>2. j \in 1..EventCount(is)
        BY <3>1 DEF EventsOf, GroupOf
      <3> QED BY <3>1, <3>2 DEF GroupOf
    <2>4. n \in DOMAIN F /\ F[n] = E[n]
      BY <2>2, <2>3 DEF EventsGrow
    <2> QED BY <1>3, <1>7, <2>1, <2>2, <2>4 DEF TestsSame
  <1>11. KeptMatchOf(N, p, k, c, h, g, F, is)
    BY <1>2, <1>8, <1>9, <1>10 DEF KeptMatchOf
  <1> QED BY <1>11 DEF KeptMatch

\* What any operation has done.
LEMMA KeptGrows ==
  ASSUME NEW P \in Programs, Replayable(P), NEW A, NEW M, MessagesRight(P, M), NEW T,
         NEW N, MessagesRight(P, N), NEW V, GrowsTo(P, A, M, T, N, V),
         NEW p \in Ranks, A[p] \in Nat, NEW E, NEW F, EventsGrow(E, F),
         NEW k \in DOMAIN P[p], k < A[p], NEW h, StateRight(P, p, k, h), NEW g,
         Kept(P, M, T, "record", p, k, h, g, E)
  PROVE  Kept(P, N, V, "record", p, k, h, g, F)
  <1>1. Stays(P, M, N)
    BY DEF GrowsTo
  <1>2. P[p][k].op = "isend" => KeptSend(P, N, p, k, h, g)
    <2> SUFFICES ASSUME KeptSend(P, M, p, k, h, g), P[p][k].op = "isend"
                 PROVE KeptSend(P, N, p, k, h, g)
      BY DEF Kept
    <2>1. M[p][k] # None
      <3>1. SendsOwn(P, M) /\ M[p][k].n = k
        BY DEF MessagesRight, KeptSend
      <3>2. k \in Nat
        BY OpsAreNumbers
      <3>3. PICK m : m = [from |-> p, to |-> PeerOf(P[p][k], h.lastSource),
                          tag |-> P[p][k].tag, n |-> k]
        OBVIOUS
      <3>4. P[p][k].peer \in Peers /\ P[p][k].tag \in Tags \cup {AnyTag}
        BY OperationHasTag
      <3>5. PeerOf(P[p][k], h.lastSource) \in Ranks \cup {AnySource, None}
        <4>1. h.lastSource \in Ranks \cup {None}
          BY DEF StateRight
        <4> QED BY <3>4, <4>1 DEF PeerOf, Peers
      <3>6. m \in Sendable
        BY <3>2, <3>3, <3>4, <3>5 DEF Sendable
      <3>7. M[p][k] = m
        BY <3>3 DEF KeptSend
      <3> QED BY <3>6, <3>7, MpiAssumption
    <2> QED BY <1>1, <2>1 DEF KeptSend, Stays
  <1>3. P[p][k].op = "irecv" => KeptRecv(k, h, g, F)
    BY DEF Kept, KeptRecv, EventsGrow
  <1>4. P[p][k].op = "match" => KeptMatch(N, p, k, P[p][k], h, g, F)
    <2> SUFFICES ASSUME P[p][k].op = "match" PROVE KeptMatch(N, p, k, P[p][k], h, g, F)
      OBVIOUS
    <2>1. PICK c : c = P[p][k]
      OBVIOUS
    <2>2. KeptMatch(M, p, k, c, h, g, E) /\ c.op = "match"
      BY <2>1 DEF Kept
    <2>3. KeptMatch(N, p, k, c, h, g, F)
      BY <1>1, <2>1, <2>2, MatchGrows
    <2> QED BY <2>1, <2>3
  <1>5. P[p][k].op \in {"probe", "iprobe"} => KeptProbe(P, N, V, "record", p, k, h, g, F)
    <2> SUFFICES ASSUME KeptProbe(P, M, T, "record", p, k, h, g, E)
                 PROVE  KeptProbe(P, N, V, "record", p, k, h, g, F)
      BY DEF Kept
    <2>1. PICK m \in Sendable \cup {None} :
            /\ g = St(h.request, IF m = None THEN h.lastSource ELSE m.from,
                      Append(h.seen, <<k, m>>), h.events + 1)
            /\ h.events + 1 \in DOMAIN E /\ E[h.events + 1] = ProbeEvent(m)
            /\ m # None => ProbedRight(P, M, p, k, m)
            /\ m # None => Arrived(T, p, m)
      BY DEF KeptProbe
    <2>2. ProbeEvent(m).kind = "test"
      BY DEF ProbeEvent, NoMatch
    <2>3. h.events + 1 \in DOMAIN F /\ F[h.events + 1] = ProbeEvent(m)
      BY <2>1, <2>2 DEF EventsGrow
    <2>4. m # None => ProbedRight(P, N, p, k, m) /\ Arrived(V, p, m)
      <3> SUFFICES ASSUME m # None PROVE ProbedRight(P, N, p, k, m) /\ Arrived(V, p, m)
        OBVIOUS
      <3>1. m \in Sendable /\ ProbedRight(P, M, p, k, m) /\ Arrived(T, p, m)
        BY <2>1
      <3> QED BY <3>1, ProbeGrows
    <2> QED BY <2>1, <2>3, <2>4 DEF KeptProbe
  <1> QED BY <1>2, <1>3, <1>4, <1>5 DEF Kept

-------------------------------------------------------------------------------

\* A history stays right when something else happens.
LEMMA HistoryGrows ==
  ASSUME NEW P \in Programs, Replayable(P), NEW A, NEW M, MessagesRight(P, M), NEW T,
         NEW N, MessagesRight(P, N), NEW V, GrowsTo(P, A, M, T, N, V), Progress(P, A, M),
         NEW p \in Ranks, NEW E, NEW H, NEW h, RecordingAt(P, M, T, p, H, A[p], E, h)
  PROVE  RecordingAt(P, N, V, p, H, A[p], E, h)
  <1>1. HistoryRight(P, M, T, "record", p, H, A[p], E) /\ H[A[p]] = h /\ h.events = Len(E)
    BY DEF RecordingAt
  <1>2. A[p] \in Nat /\ A[p] \in 1..(Len(P[p]) + 1)
    BY DEF Progress
  <1>3. DOMAIN P[p] = 1..Len(P[p]) /\ Len(P[p]) \in Nat
    BY OpsAreNumbers
  <1>4. EventsGrow(E, E)
    BY DEF EventsGrow
  <1>5. ASSUME NEW k \in 1..A[p], k < A[p]
        PROVE  Kept(P, N, V, "record", p, k, H[k], H[k + 1], E)
    <2>1. k \in DOMAIN P[p]
      BY <1>2, <1>3, <1>5
    <2>2. PICK h1, g1 : h1 = H[k] /\ g1 = H[k + 1]
      OBVIOUS
    <2>3. StateRight(P, p, k, h1) /\ Kept(P, M, T, "record", p, k, h1, g1, E)
      BY <1>1, <1>5, <2>2 DEF HistoryRight
    <2>4. Kept(P, N, V, "record", p, k, h1, g1, E)
      BY <1>2, <1>4, <1>5, <2>1, <2>3, KeptGrows
    <2> QED BY <2>2, <2>4
  <1>6. RanksRight(P, N, p, H[A[p]].request, E)
    <2>1. RanksRight(P, M, p, H[A[p]].request, E)
      BY <1>1 DEF HistoryRight
    <2> QED BY <2>1 DEF RanksRight, GrowsTo, Stays, IsRecv
  <1>7. HistoryRight(P, N, V, "record", p, H, A[p], E)
    BY <1>1, <1>5, <1>6 DEF HistoryRight
  <1> QED BY <1>1, <1>7 DEF RecordingAt

\* The history grows with an operation that moves its process.
LEMMA HistoryStep ==
  ASSUME NEW P \in Programs, Replayable(P), NEW A, NEW M, MessagesRight(P, M), NEW T,
         NEW N, MessagesRight(P, N), NEW V, GrowsTo(P, A, M, T, N, V), Progress(P, A, M),
         NEW p \in Ranks, A[p] \in DOMAIN P[p],
         NEW E, NEW H, NEW h, RecordingAt(P, M, T, p, H, A[p], E, h),
         NEW F, NEW g, Moves(P, N, V, p, A[p], h, g, E, F),
         NEW G, G = [H EXCEPT ![A[p] + 1] = g]
  PROVE  RecordingAt(P, N, V, p, G, A[p] + 1, F, g)
  <1>0. PICK K : K = A[p]
    OBVIOUS
  <1>1. HistoryRight(P, M, T, "record", p, H, K, E) /\ H[K] = h
    BY <1>0 DEF RecordingAt
  <1>2. K \in Nat /\ K \in DOMAIN P[p] /\ K >= 1
    BY <1>0, OpsAreNumbers
  <1>3. DOMAIN P[p] = 1..Len(P[p]) /\ Len(P[p]) \in Nat
    BY OpsAreNumbers
  <1>4. DOMAIN H = 1..(Len(P[p]) + 1)
    BY <1>1 DEF HistoryRight
  <1>5. /\ DOMAIN G = 1..(Len(P[p]) + 1) /\ G[K + 1] = g
        /\ \A k \in 1..K : G[k] = H[k]
    BY <1>0, <1>2, <1>3, <1>4
  <1>6. /\ StateRight(P, p, K + 1, g)
        /\ \A j \in DOMAIN P[p] : h.request[j] = "null" => g.request[j] = "null"
        /\ PrefixOf(h.seen, g.seen)
        /\ Kept(P, N, V, "record", p, K, h, g, F)
        /\ RanksRight(P, N, p, g.request, F)
        /\ EventsGrow(E, F) /\ F \in Seq(Events) /\ g.events = Len(F)
    BY <1>0 DEF Moves
  <1>7. \A k \in 1..K :
          /\ StateRight(P, p, k, H[k])
          /\ \A j \in DOMAIN P[p] : H[k].request[j] = "null" => h.request[j] = "null"
          /\ PrefixOf(H[k].seen, h.seen)
          /\ k < K => Kept(P, M, T, "record", p, k, H[k], H[k + 1], E)
    BY <1>1 DEF HistoryRight
  <1>8. IsSeq(g.seen) /\ IsSeq(h.seen)
    BY <1>1, <1>2, <1>6, <1>7 DEF StateRight
  <1>9. ASSUME NEW k \in 1..(K + 1)
        PROVE  /\ StateRight(P, p, k, G[k])
               /\ \A j \in DOMAIN P[p] : G[k].request[j] = "null" => g.request[j] = "null"
               /\ PrefixOf(G[k].seen, g.seen)
               /\ k < K + 1 => Kept(P, N, V, "record", p, k, G[k], G[k + 1], F)
    <2>1. CASE k = K + 1
      <3>1. PrefixOf(g.seen, g.seen)
        BY <1>8, PrefixOfItself
      <3> QED BY <1>2, <1>5, <1>6, <2>1, <3>1
    <2>2. CASE k # K + 1
      <3>1. k \in 1..K /\ G[k] = H[k]
        BY <1>2, <1>5, <2>2
      <3>2. PICK u : u = H[k].seen
        OBVIOUS
      <3>3. IsSeq(u) /\ PrefixOf(u, h.seen)
        BY <1>7, <3>1, <3>2 DEF StateRight
      <3>4. PICK v, w : v = h.seen /\ w = g.seen
        OBVIOUS
      <3>5. PrefixOf(u, w)
        <4>1. IsSeq(u) /\ IsSeq(v) /\ IsSeq(w) /\ PrefixOf(u, v) /\ PrefixOf(v, w)
          BY <1>6, <1>8, <3>3, <3>4
        <4> QED BY <4>1, PrefixChain
      <3>6. Kept(P, N, V, "record", p, k, G[k], G[k + 1], F)
        <4>1. CASE k = K
          BY <1>1, <1>5, <1>6, <3>1, <4>1
        <4>2. CASE k # K
          <5>1. k < A[p] /\ k \in DOMAIN P[p] /\ A[p] \in Nat /\ k + 1 \in 1..K
            BY <1>0, <1>2, <1>3, <3>1, <4>2
          <5>2. PICK h1, g1 : h1 = H[k] /\ g1 = H[k + 1]
            OBVIOUS
          <5>3. StateRight(P, p, k, h1) /\ Kept(P, M, T, "record", p, k, h1, g1, E)
            BY <1>0, <1>7, <3>1, <5>1, <5>2
          <5>4. EventsGrow(E, F)
            BY <1>6
          <5>5. Kept(P, N, V, "record", p, k, h1, g1, F)
            BY <5>1, <5>3, <5>4, KeptGrows
          <5> QED BY <1>5, <3>1, <5>1, <5>2, <5>5
        <4> QED BY <4>1, <4>2
      <3> QED BY <1>6, <1>7, <3>1, <3>2, <3>4, <3>5, <3>6
    <2> QED BY <2>1, <2>2
  <1>10. G[1] = St([k \in DOMAIN P[p] |-> "none"], None, <<>>, 0)
    BY <1>1, <1>2, <1>5 DEF HistoryRight
  <1>11. HistoryRight(P, N, V, "record", p, G, K + 1, F)
    BY <1>5, <1>6, <1>9, <1>10 DEF HistoryRight
  <1> QED BY <1>0, <1>5, <1>6, <1>11 DEF RecordingAt

-------------------------------------------------------------------------------
\* Which steps only add to what has happened.

\* One that changes no message.
LEMMA SameGrows ==
  ASSUME NEW P, NEW A, NEW M, NEW T
  PROVE  GrowsTo(P, A, M, T, M, T)
  BY DEF GrowsTo, Stays, SentLater, GotLater, ArrivedStays

\* A send.
LEMMA SendGrows ==
  ASSUME NEW P \in Programs, NEW A, NEW M, MessagesRight(P, M), Progress(P, A, M), NEW T,
         TravellingRight(P, M, T),
         NEW p \in Ranks, NEW k \in DOMAIN P[p], k = A[p], IsSend(P, p, k),
         NEW m \in Sendable, m.from = p, m.n = k,
         NEW N, N = With1(M, p, k, m), NEW V, V = WithLast(T, p, m)
  PROVE  GrowsTo(P, A, M, T, N, V)
  <1>1. M[p][k] = None /\ \A j \in DOMAIN P[p] : M[p][j] # None => j < k
    BY NextHasNone
  <1>2. Tables(P, M)
    BY DEF MessagesRight
  <1>3. Tables(P, N) /\ \A q \in Ranks : \A j \in DOMAIN P[q] :
          N[q][j] = IF q = p /\ j = k THEN m ELSE M[q][j]
    BY <1>2, With1Values
  <1>4. Stays(P, M, N)
    BY <1>1, <1>3 DEF Stays
  <1>5. \A d : \A y : Sent(P, M, y, p, d) => y.n < k
    BY <1>1, MpiAssumption DEF Sent, IsSend
  <1>6. SentLater(P, M, N)
    <2> SUFFICES ASSUME NEW s \in Ranks, NEW d \in Ranks, NEW x \in Sendable,
                        Sent(P, N, x, s, d)
                 PROVE  Sent(P, M, x, s, d)
                          \/ \A y \in Sendable : Sent(P, M, y, s, d) => y.n < x.n
      BY DEF SentLater
    <2>1. CASE s = p /\ x.n = k
      BY <1>5, <2>1
    <2>2. CASE ~(s = p /\ x.n = k)
      <3>1. N[s][x.n] = M[s][x.n]
        BY <1>3, <2>2 DEF Sent, IsSend
      <3> QED BY <3>1 DEF Sent
    <2> QED BY <2>1, <2>2
  <1>7. GotLater(P, A, M, T, N)
    BY <1>3 DEF GotLater, Has, IsSend, IsRecv
  <1>8. ArrivedStays(P, M, T, V)
    <2>1. T \in [Ranks \X Ranks -> Seq(Sendable)]
      BY DEF TravellingRight
    <2>2. AlsoSent(T, V, p, m)
      BY <2>1, LastSent
    <2> SUFFICES ASSUME NEW d \in Ranks, NEW x \in Sendable, x.from \in Ranks,
                        Sent(P, M, x, x.from, d), Arrived(T, d, x)
                 PROVE  Arrived(V, d, x)
      BY DEF ArrivedStays
    <2>3. CASE x.from = p /\ d = m.to
      <3>1. PICK q : q = T[<<p, d>>]
        OBVIOUS
      <3>2. q \in Seq(Sendable)
        <4>1. <<p, d>> \in Ranks \X Ranks
          OBVIOUS
        <4> QED BY <2>1, <3>1, <4>1
      <3>3. ToSet(Append(q, m)) = ToSet(q) \cup {m}
        BY <3>2, AppendElements
      <3>4. V[<<x.from, d>>] = Append(q, m)
        BY <2>2, <2>3, <3>1 DEF AlsoSent
      <3>5. x.n < m.n
        BY <1>5, <2>3
      <3>6. \A y \in ToSet(q) : x.n < y.n
        BY <2>3, <3>1 DEF Arrived
      <3> QED BY <3>3, <3>4, <3>5, <3>6 DEF Arrived
    <2>4. CASE ~(x.from = p /\ d = m.to)
      BY <2>2, <2>4 DEF AlsoSent, Arrived
    <2> QED BY <2>3, <2>4
  <1> QED BY <1>4, <1>6, <1>7, <1>8 DEF GrowsTo

\* A receive that is executed now, or whose message has just arrived, gets a message.
LEMMA GetGrows ==
  ASSUME NEW P, NEW A, NEW M, MessagesRight(P, M), NEW T,
         NEW p \in Ranks, NEW k \in DOMAIN P[p], NEW m, CanGet(P, M, p, k, m),
         k = A[p] \/ ~Arrived(T, p, m), NEW N, N = With1(M, p, k, m)
  PROVE  Stays(P, M, N) /\ SentLater(P, M, N) /\ GotLater(P, A, M, T, N)
  <1>1. Tables(P, M)
    BY DEF MessagesRight
  <1>2. /\ \A q \in Ranks : \A j \in DOMAIN P[q] :
             /\ N[q][j] = IF q = p /\ j = k THEN m ELSE M[q][j]
             /\ Has(P, N, q, j) <=> Has(P, M, q, j) \/ (q = p /\ j = k)
        /\ \A x, d : \A s \in Ranks : Sent(P, N, x, s, d) <=> Sent(P, M, x, s, d)
    BY <1>1, GetsChanges
  <1>3. M[p][k] = None
    BY DEF CanGet
  <1>4. Stays(P, M, N)
    BY <1>2, <1>3 DEF Stays
  <1>5. SentLater(P, M, N)
    BY <1>2 DEF SentLater
  <1>6. GotLater(P, A, M, T, N)
    BY <1>2 DEF GotLater
  <1> QED BY <1>4, <1>5, <1>6

\* A receive that takes an unexpected message.
LEMMA TakeGrows ==
  ASSUME NEW P, NEW A, NEW M, MessagesRight(P, M), NEW T,
         NEW p \in Ranks, NEW k \in DOMAIN P[p], k = A[p], NEW m, CanGet(P, M, p, k, m),
         NEW N, N = With1(M, p, k, m)
  PROVE  GrowsTo(P, A, M, T, N, T)
  <1>1. Stays(P, M, N) /\ SentLater(P, M, N) /\ GotLater(P, A, M, T, N)
    BY GetGrows
  <1>2. ArrivedStays(P, M, T, T)
    BY DEF ArrivedStays
  <1> QED BY <1>1, <1>2 DEF GrowsTo

\* What has arrived has, when another message does.
LEMMA DepartureKeeps ==
  ASSUME NEW P \in Programs, NEW M, NEW T, TravellingRight(P, M, T),
         NEW s \in Ranks, NEW d \in Ranks, T[<<s, d>>] # <<>>, NEW V, V = WithoutFirst(T, s, d)
  PROVE  ArrivedStays(P, M, T, V)
  <1>1. PICK m : m = Head(T[<<s, d>>])
    OBVIOUS
  <1>2. Leaves(P, M, T, V, s, d, m)
    BY <1>1, Departed
  <1> QED BY <1>2 DEF Leaves, ArrivedStays

\* A message that arrives and waits.
LEMMA ArriveGrows ==
  ASSUME NEW P \in Programs, NEW A, NEW M, NEW T, TravellingRight(P, M, T),
         NEW s \in Ranks, NEW d \in Ranks, T[<<s, d>>] # <<>>, NEW V, V = WithoutFirst(T, s, d)
  PROVE  GrowsTo(P, A, M, T, M, V)
  <1>1. ArrivedStays(P, M, T, V)
    BY DepartureKeeps
  <1> QED BY <1>1 DEF GrowsTo, Stays, SentLater, GotLater

\* One that goes to a receive.
LEMMA DeliverGrows ==
  ASSUME NEW P \in Programs, NEW A, NEW M, MessagesRight(P, M), NEW T,
         TravellingRight(P, M, T),
         NEW s \in Ranks, NEW d \in Ranks, T[<<s, d>>] # <<>>, NEW m, m = Head(T[<<s, d>>]),
         NEW k \in DOMAIN P[d], CanGet(P, M, d, k, m),
         NEW N, N = With1(M, d, k, m), NEW V, V = WithoutFirst(T, s, d)
  PROVE  GrowsTo(P, A, M, T, N, V)
  <1>1. ArrivedStays(P, M, T, V)
    BY DepartureKeeps
  <1>2. ~Arrived(T, d, m)
    <2>1. Leaves(P, M, T, V, s, d, m)
      BY Departed
    <2>2. m \in ToSet(T[<<m.from, d>>]) /\ m.n \in Nat
      BY <2>1 DEF Leaves, Sent, Sendable
    <2> QED BY <2>2 DEF Arrived
  <1>3. Stays(P, M, N) /\ SentLater(P, M, N) /\ GotLater(P, A, M, T, N)
    BY <1>2, GetGrows
  <1> QED BY <1>1, <1>3 DEF GrowsTo

-------------------------------------------------------------------------------
\* The state after an operation.

\* A request is made, or changed by its process.
LEMMA StateSet ==
  ASSUME NEW P \in Programs, NEW p \in Ranks, NEW k \in DOMAIN P[p],
         NEW h, StateRight(P, p, k, h), NEW state \in {"send", "recv", "ignored"},
         state = "send" => IsSend(P, p, k), state = "recv" => IsRecv(P, p, k),
         state = "ignored" => Unaccounted(P, p, k),
         NEW n \in Nat, NEW g, g = Made(h, k, state, n)
  PROVE  /\ StateRight(P, p, k + 1, g) /\ g.seen = h.seen /\ PrefixOf(h.seen, g.seen)
         /\ g.events = n
         /\ \A j \in DOMAIN P[p] : g.request[j] = "null" <=> h.request[j] = "null"
  <1>1. k \in Nat /\ \A j \in DOMAIN P[p] : j \in Nat
    BY OpsAreNumbers
  <1>2. /\ h.request \in [DOMAIN P[p] -> RequestStates]
        /\ h.lastSource \in Ranks \cup {None} /\ IsSeq(h.seen)
        /\ \A j \in DOMAIN P[p] :
             /\ (IsSend(P, p, j) \/ IsRecv(P, p, j)) /\ j < k => h.request[j] # "none"
             /\ j >= k => h.request[j] = "none"
             /\ h.request[j] = "send" => IsSend(P, p, j)
             /\ h.request[j] = "recv" => IsRecv(P, p, j)
             /\ h.request[j] = "ignored" => Unaccounted(P, p, j)
    BY DEF StateRight
  <1>3. PICK req : req = [h.request EXCEPT ![k] = state]
    OBVIOUS
  <1>4. req \in [DOMAIN P[p] -> RequestStates]
        /\ \A j \in DOMAIN P[p] : req[j] = IF j = k THEN state ELSE h.request[j]
    BY <1>2, <1>3 DEF RequestStates
  <1>5. g = St(req, h.lastSource, h.seen, n)
    BY <1>3, Zenon DEF Made
  <1>6. g.request = req /\ g.lastSource = h.lastSource /\ g.seen = h.seen /\ g.events = n
    BY <1>5 DEF St
  <1>7. \A j \in DOMAIN P[p] :
          /\ (IsSend(P, p, j) \/ IsRecv(P, p, j)) /\ j < k + 1 => req[j] # "none"
          /\ j >= k + 1 => req[j] = "none"
          /\ req[j] = "send" => IsSend(P, p, j)
          /\ req[j] = "recv" => IsRecv(P, p, j)
          /\ req[j] = "ignored" => Unaccounted(P, p, j)
    BY <1>1, <1>2, <1>4
  <1>8. StateRight(P, p, k + 1, g)
    BY <1>2, <1>4, <1>5, <1>6, <1>7, Zenon DEF StateRight
  <1>9. \A j \in DOMAIN P[p] : g.request[j] = "null" <=> h.request[j] = "null"
    <2>1. h.request[k] = "none"
      BY <1>1, <1>2
    <2> QED BY <1>4, <1>6, <2>1
  <1>10. PrefixOf(h.seen, g.seen)
    BY <1>2, <1>6, PrefixOfItself
  <1> QED BY <1>6, <1>8, <1>9, <1>10

\* An operation that makes no request.
LEMMA StateSees ==
  ASSUME NEW P \in Programs, NEW p \in Ranks, NEW k \in DOMAIN P[p],
         NEW h, StateRight(P, p, k, h), ~IsSend(P, p, k), ~IsRecv(P, p, k),
         NEW g, Follows(P, p, k, h, g)
  PROVE  StateRight(P, p, k + 1, g) /\ PrefixOf(h.seen, g.seen)
  <1>1. k \in Nat /\ \A j \in DOMAIN P[p] : j \in Nat
    BY OpsAreNumbers
  <1>2. /\ IsSeq(h.seen)
        /\ \A j \in DOMAIN P[p] :
             /\ (IsSend(P, p, j) \/ IsRecv(P, p, j)) /\ j < k => h.request[j] # "none"
             /\ j >= k => h.request[j] = "none"
             /\ h.request[j] = "send" => IsSend(P, p, j)
             /\ h.request[j] = "recv" => IsRecv(P, p, j)
             /\ h.request[j] = "ignored" => Unaccounted(P, p, j)
    BY DEF StateRight
  <1>3. PICK req, what : req = g.request /\ what = g.seen
    OBVIOUS
  <1>4. req \in [DOMAIN P[p] -> RequestStates]
        /\ \A j \in DOMAIN P[p] :
             \/ req[j] = h.request[j]
             \/ j < k /\ req[j] = "null"
             \/ j < k /\ req[j] = "ignored" /\ Unaccounted(P, p, j)
    BY <1>3 DEF Follows, RequestsAfter
  <1>5. \A j \in DOMAIN P[p] :
          /\ (IsSend(P, p, j) \/ IsRecv(P, p, j)) /\ j < k + 1 => req[j] # "none"
          /\ j >= k + 1 => req[j] = "none"
          /\ req[j] = "send" => IsSend(P, p, j)
          /\ req[j] = "recv" => IsRecv(P, p, j)
          /\ req[j] = "ignored" => Unaccounted(P, p, j)
    BY <1>1, <1>2, <1>4
  <1>6. IsSeq(what) /\ PrefixOf(h.seen, what)
    BY <1>2, <1>3, PrefixOfItself, PrefixOfAppend DEF Follows, SeenAfter
  <1>7. /\ g = St(g.request, g.lastSource, g.seen, g.events)
        /\ g.lastSource \in Ranks \cup {None} /\ g.events \in Nat
    BY DEF Follows
  <1>8. StateRight(P, p, k + 1, g)
    BY <1>3, <1>4, <1>5, <1>6, <1>7, Zenon DEF StateRight
  <1> QED BY <1>3, <1>6, <1>8

\* The state is put together.
LEMMA StateParts ==
  ASSUME NEW req, NEW last, NEW what, NEW n, NEW g, g = St(req, last, what, n)
  PROVE  /\ g.request = req /\ g.lastSource = last /\ g.seen = what /\ g.events = n
         /\ g = St(g.request, g.lastSource, g.seen, g.events)
  BY DEF St

-------------------------------------------------------------------------------
\* The operations that make requests.

\* Sources in the record stay right.
LEMMA RanksStay ==
  ASSUME NEW P, NEW M, NEW N, Stays(P, M, N), NEW p \in Ranks, NEW req, NEW E,
         RanksRight(P, M, p, req, E), NEW new,
         \A j \in DOMAIN P[p] : IsRecv(P, p, j) /\ new[j] = "null" =>
           req[j] = "null" \/ Cancels(P[p], j)
  PROVE  RanksRight(P, N, p, new, E)
  BY DEF RanksRight, Stays, IsRecv

WithEvent(E, e) == E \o <<e>>

\* The record with one more event.
RecordedAfter(E, e, F) ==
  /\ F \in Seq(Events) /\ Len(F) = Len(E) + 1 /\ EventsGrow(E, F)
  /\ DOMAIN F = 1..(Len(E) + 1) /\ F[Len(E) + 1] = e /\ \A n \in 1..Len(E) : F[n] = E[n]
  /\ Len(E) \in Nat /\ DOMAIN E = 1..Len(E)

\* This is what WithEvent makes.
LEMMA RecordGrows ==
  ASSUME NEW E \in Seq(Events), NEW e \in Events, NEW F, F = WithEvent(E, e)
  PROVE  RecordedAfter(E, e, F)
  <1>1. PICK v : v = <<e>>
    OBVIOUS
  <1>2. v \in Seq(Events) /\ Len(v) = 1 /\ v[1] = e
    BY <1>1
  <1>3. F = E \o v
    BY <1>1 DEF WithEvent
  <1>4. /\ E \o v \in Seq(Events) /\ Len(E \o v) = Len(E) + Len(v)
        /\ \A n \in 1..(Len(E) + Len(v)) :
             (E \o v)[n] = IF n <= Len(E) THEN E[n] ELSE v[n - Len(E)]
    BY <1>2, ConcatProperties
  <1>5. Len(E) \in Nat /\ DOMAIN E = 1..Len(E)
    BY LenProperties
  <1>6. F \in Seq(Events) /\ Len(F) = Len(E) + 1
    BY <1>2, <1>3, <1>4
  <1>7. DOMAIN F = 1..(Len(E) + 1)
    BY <1>6, LenProperties
  <1>8. \A n \in 1..Len(E) : F[n] = E[n]
    BY <1>2, <1>3, <1>4, <1>5
  <1>9. F[Len(E) + 1] = e
    <2>1. Len(E) + 1 \in 1..(Len(E) + Len(v)) /\ ~(Len(E) + 1 <= Len(E))
          /\ (Len(E) + 1) - Len(E) = 1
      BY <1>2, <1>5
    <2> QED BY <1>2, <1>3, <1>4, <2>1
  <1>10. EventsGrow(E, F)
    BY <1>5, <1>7, <1>8 DEF EventsGrow
  <1> QED BY <1>5, <1>6, <1>7, <1>8, <1>9, <1>10 DEF RecordedAfter

\* A send.
LEMMA SendMoves ==
  ASSUME NEW P \in Programs, NEW M, NEW N, Stays(P, M, N), NEW V,
         NEW p \in Ranks, NEW k \in DOMAIN P[p], IsSend(P, p, k),
         NEW h, StateRight(P, p, k, h), NEW E \in Seq(Events), h.events = Len(E),
         RanksRight(P, M, p, h.request, E), NEW g, KeptSend(P, N, p, k, h, g)
  PROVE  Moves(P, N, V, p, k, h, g, E, E)
  <1>1. PICK n : n = h.events
    OBVIOUS
  <1>2. n \in Nat /\ n = Len(E)
    BY <1>1 DEF StateRight
  <1>3. g = Made(h, k, "send", n)
    BY <1>1 DEF KeptSend
  <1>4. /\ StateRight(P, p, k + 1, g) /\ PrefixOf(h.seen, g.seen) /\ g.events = n
        /\ \A j \in DOMAIN P[p] : g.request[j] = "null" <=> h.request[j] = "null"
    BY <1>2, <1>3, StateSet
  <1>5. Kept(P, N, V, "record", p, k, h, g, E)
    BY DEF Kept, IsSend
  <1>6. RanksRight(P, N, p, g.request, E)
    <2>1. \A j \in DOMAIN P[p] : IsRecv(P, p, j) /\ g.request[j] = "null" =>
            h.request[j] = "null" \/ Cancels(P[p], j)
      BY <1>4
    <2> QED BY <2>1, RanksStay
  <1>7. EventsGrow(E, E)
    BY DEF EventsGrow
  <1> QED BY <1>2, <1>4, <1>5, <1>6, <1>7 DEF Moves

\* A request by other means.
LEMMA OtherMoves ==
  ASSUME NEW P \in Programs, NEW M, NEW V,
         NEW p \in Ranks, NEW k \in DOMAIN P[p], P[p][k].op = "unsupported",
         NEW h, StateRight(P, p, k, h), NEW E \in Seq(Events), h.events = Len(E),
         RanksRight(P, M, p, h.request, E), NEW g, KeptOther(k, h, g)
  PROVE  Moves(P, M, V, p, k, h, g, E, E)
  <1>1. PICK n : n = h.events
    OBVIOUS
  <1>2. n \in Nat /\ n = Len(E)
    BY <1>1 DEF StateRight
  <1>3. g = Made(h, k, "ignored", n) /\ Unaccounted(P, p, k)
    BY <1>1 DEF KeptOther, Unaccounted
  <1>4. /\ StateRight(P, p, k + 1, g) /\ PrefixOf(h.seen, g.seen) /\ g.events = n
        /\ \A j \in DOMAIN P[p] : g.request[j] = "null" <=> h.request[j] = "null"
    BY <1>2, <1>3, StateSet
  <1>5. Kept(P, M, V, "record", p, k, h, g, E)
    BY DEF Kept
  <1>6. RanksRight(P, M, p, g.request, E)
    <2>1. \A j \in DOMAIN P[p] : IsRecv(P, p, j) /\ g.request[j] = "null" =>
            h.request[j] = "null" \/ Cancels(P[p], j)
      BY <1>4
    <2>2. Stays(P, M, M)
      BY DEF Stays
    <2> QED BY <2>1, <2>2, RanksStay
  <1>7. EventsGrow(E, E)
    BY DEF EventsGrow
  <1> QED BY <1>2, <1>4, <1>5, <1>6, <1>7 DEF Moves

RecvEvent(k) == [kind |-> "recv", k |-> k, rank |-> AnySource]

\* A receive.
LEMMA RecvMoves ==
  ASSUME NEW P \in Programs, NEW M, NEW N, Stays(P, M, N), NEW V,
         NEW p \in Ranks, NEW k \in DOMAIN P[p], IsRecv(P, p, k),
         NEW h, StateRight(P, p, k, h), NEW E \in Seq(Events), h.events = Len(E),
         RanksRight(P, M, p, h.request, E),
         NEW F, F = WithEvent(E, RecvEvent(k)), NEW g, g = Made(h, k, "recv", Len(F))
  PROVE  Moves(P, N, V, p, k, h, g, E, F)
  <1>1. PICK e : e = RecvEvent(k)
    OBVIOUS
  <1>2. e \in Events /\ e.kind = "recv" /\ e.k = k
    <2>1. k \in Nat
      BY OpsAreNumbers
    <2> QED BY <1>1, <2>1 DEF RecvEvent, Events, Sources
  <1>3. RecordedAfter(E, e, F)
    BY <1>1, <1>2, RecordGrows
  <1>4. PICK n : n = Len(F)
    OBVIOUS
  <1>5. n \in Nat /\ n = h.events + 1 /\ g = Made(h, k, "recv", n)
    BY <1>3, <1>4 DEF RecordedAfter
  <1>6. /\ StateRight(P, p, k + 1, g) /\ PrefixOf(h.seen, g.seen) /\ g.events = n
        /\ \A j \in DOMAIN P[p] : g.request[j] = "null" <=> h.request[j] = "null"
    BY <1>5, StateSet
  <1>7. Kept(P, N, V, "record", p, k, h, g, F)
    <2>1. h.events + 1 \in DOMAIN F /\ F[h.events + 1] = e
      BY <1>3 DEF RecordedAfter
    <2>2. KeptRecv(k, h, g, F)
      BY <1>2, <1>5, <2>1 DEF KeptRecv
    <2> QED BY <2>2 DEF Kept, IsRecv
  <1>8. RanksRight(P, N, p, g.request, F)
    <2>1. \A j \in DOMAIN P[p] : IsRecv(P, p, j) /\ g.request[j] = "null" =>
            h.request[j] = "null" \/ Cancels(P[p], j)
      BY <1>6
    <2>2. RanksRight(P, N, p, g.request, E)
      BY <2>1, RanksStay
    <2>3. g.request[k] # "null"
      <3>1. h.request[k] = "none"
        <4>1. k \in Nat
          BY OpsAreNumbers
        <4> QED BY <4>1 DEF StateRight
      <3> QED BY <1>6, <3>1
    <2>4. \A i \in DOMAIN F : (i \in DOMAIN E /\ F[i] = E[i]) \/ F[i] = e
      BY <1>3 DEF RecordedAfter
    <2> QED BY <1>2, <2>2, <2>3, <2>4 DEF RanksRight
  <1>9. EventsGrow(E, F) /\ F \in Seq(Events)
    BY <1>3 DEF RecordedAfter
  <1> QED BY <1>4, <1>6, <1>7, <1>8, <1>9 DEF Moves

-------------------------------------------------------------------------------
\* Probes and cancels.

\* Events of probes are events.
LEMMA ProbeEventType ==
  ASSUME NEW m, m = None \/ m.from \in Ranks
  PROVE  ProbeEvent(m) \in Events /\ ProbeEvent(m).kind = "test"
  BY DEF ProbeEvent, NoMatch, Events, Sources

\* A probe.
LEMMA ProbeMoves ==
  ASSUME NEW P \in Programs, NEW M, NEW T,
         NEW p \in Ranks, NEW k \in DOMAIN P[p], P[p][k].op \in {"probe", "iprobe"},
         NEW h, StateRight(P, p, k, h), NEW E \in Seq(Events), h.events = Len(E),
         RanksRight(P, M, p, h.request, E), NEW m \in Sendable \cup {None},
         m # None => ProbedRight(P, M, p, k, m) /\ Arrived(T, p, m),
         NEW F, F = WithEvent(E, ProbeEvent(m)), NEW g, g = Probed(h, k, m, Len(F))
  PROVE  Moves(P, M, T, p, k, h, g, E, F)
  <1>1. PICK e : e = ProbeEvent(m)
    OBVIOUS
  <1>2. e \in Events /\ e.kind = "test"
    BY <1>1, ProbeEventType DEF Sendable
  <1>3. RecordedAfter(E, e, F)
    BY <1>1, <1>2, RecordGrows
  <1>4. PICK n, last, what : n = Len(F) /\ last = (IF m = None THEN h.lastSource ELSE m.from)
                             /\ what = Append(h.seen, <<k, m>>)
    OBVIOUS
  <1>5. n \in Nat /\ n = h.events + 1
    BY <1>3, <1>4 DEF RecordedAfter
  <1>6. g = St(h.request, last, what, n)
    BY <1>4 DEF Probed
  <1>7. /\ StateRight(P, p, k + 1, g) /\ g.request = h.request /\ PrefixOf(h.seen, g.seen)
        /\ g.events = n
    <2>1. ~IsSend(P, p, k) /\ ~IsRecv(P, p, k)
      BY DEF IsSend, IsRecv
    <2>2. /\ g.request = h.request /\ g.lastSource = last /\ g.seen = what /\ g.events = n
          /\ g = St(g.request, g.lastSource, g.seen, g.events)
      BY <1>6 DEF St
    <2>3. RequestsAfter(P, p, k, h, g.request)
      BY <2>2 DEF RequestsAfter, StateRight
    <2>4. last \in Ranks \cup {None}
      BY <1>4 DEF StateRight, Sendable
    <2>5. SeenAfter(h, g.seen)
      BY <1>4, <2>2 DEF SeenAfter
    <2>6. Follows(P, p, k, h, g)
      BY <1>5, <2>2, <2>3, <2>4, <2>5 DEF Follows
    <2>7. StateRight(P, p, k + 1, g) /\ PrefixOf(h.seen, g.seen)
      BY <2>1, <2>6, StateSees
    <2> QED BY <2>2, <2>7
  <1>8. Kept(P, M, T, "record", p, k, h, g, F)
    <2>1. h.events + 1 \in DOMAIN F /\ F[h.events + 1] = ProbeEvent(m)
      BY <1>1, <1>3 DEF RecordedAfter
    <2>2. g = St(h.request, IF m = None THEN h.lastSource ELSE m.from,
                 Append(h.seen, <<k, m>>), h.events + 1)
      BY <1>4, <1>5, <1>6
    <2>3. KeptProbe(P, M, T, "record", p, k, h, g, F)
      BY <2>1, <2>2 DEF KeptProbe
    <2> QED BY <2>3 DEF Kept
  <1>9. RanksRight(P, M, p, g.request, F)
    <2>1. \A i \in DOMAIN F : (i \in DOMAIN E /\ F[i] = E[i]) \/ F[i] = e
      BY <1>3 DEF RecordedAfter
    <2> QED BY <1>2, <1>7, <2>1 DEF RanksRight
  <1>10. EventsGrow(E, F) /\ F \in Seq(Events)
    BY <1>3 DEF RecordedAfter
  <1> QED BY <1>4, <1>7, <1>8, <1>9, <1>10 DEF Moves

\* The source of a receive is set in the record.
LEMMA RankNoted ==
  ASSUME NEW e \in Events, e.kind = "recv", NEW r \in Sources
  PROVE  /\ [e EXCEPT !.rank = r] \in Events /\ [e EXCEPT !.rank = r].kind = "recv"
         /\ [e EXCEPT !.rank = r].k = e.k /\ [e EXCEPT !.rank = r].rank = r
  <1>1. e \in [kind : {"recv"}, k : Nat, rank : Sources]
    BY DEF Events
  <1>2. PICK f : f = [e EXCEPT !.rank = r]
    OBVIOUS
  <1>3. f \in [kind : {"recv"}, k : Nat, rank : Sources] /\ f.kind = "recv" /\ f.k = e.k
        /\ f.rank = r
    BY <1>1, <1>2
  <1> QED BY <1>2, <1>3 DEF Events

\* Noting the sources changes nothing else of a record.
LEMMA NotedRight ==
  ASSUME NEW E \in Seq(Events), NEW R, NEW source, \A k \in R : source[k] \in Sources,
         NEW F, F = Noted(E, R, source)
  PROVE  NotedFrom(E, F, R, source)
  <1>1. Len(E) \in Nat /\ DOMAIN E = 1..Len(E) /\ \A n \in 1..Len(E) : E[n] \in Events
    BY LenProperties, ElementOfSeq
  <1>2. /\ DOMAIN F = DOMAIN E
        /\ \A n \in DOMAIN E :
             F[n] = IF E[n].kind = "recv" /\ E[n].k \in R
                    THEN [E[n] EXCEPT !.rank = source[E[n].k]] ELSE E[n]
    BY DEF Noted
  <1>3. ASSUME NEW n \in DOMAIN E
        PROVE  /\ F[n] \in Events /\ F[n].kind = E[n].kind
               /\ E[n].kind # "recv" => F[n] = E[n]
               /\ E[n].kind = "recv" =>
                    /\ F[n].k = E[n].k
                    /\ F[n].rank = IF E[n].k \in R THEN source[E[n].k] ELSE E[n].rank
    <2>1. PICK e : e = E[n]
      OBVIOUS
    <2>2. e \in Events
      BY <1>1, <2>1
    <2>3. CASE e.kind = "recv" /\ e.k \in R
      <3>1. PICK r : r = source[e.k]
        OBVIOUS
      <3>2. r \in Sources
        BY <2>3, <3>1
      <3>3. F[n] = [e EXCEPT !.rank = r]
        BY <1>2, <2>1, <2>3, <3>1
      <3>4. /\ [e EXCEPT !.rank = r] \in Events /\ [e EXCEPT !.rank = r].kind = "recv"
            /\ [e EXCEPT !.rank = r].k = e.k /\ [e EXCEPT !.rank = r].rank = r
        BY <2>2, <2>3, <3>2, RankNoted
      <3>5. F[n] \in Events /\ F[n].kind = "recv" /\ F[n].k = e.k /\ F[n].rank = r
        BY <3>3, <3>4
      <3> QED BY <2>1, <2>3, <3>1, <3>5
    <2>4. CASE ~(e.kind = "recv" /\ e.k \in R)
      <3>1. F[n] = e
        BY <1>2, <2>1, <2>4
      <3> QED BY <2>1, <2>2, <2>4, <3>1
    <2> QED BY <2>3, <2>4
  <1>4. F \in [1..Len(E) -> Events]
    <2>1. F = [n \in DOMAIN F |-> F[n]]
      BY DEF Noted
    <2> QED BY <1>1, <1>2, <1>3, <2>1
  <1>5. F \in Seq(Events) /\ Len(F) = Len(E)
    BY <1>1, <1>4
  <1>6. EventsGrow(E, F)
    BY <1>2, <1>3 DEF EventsGrow
  <1> QED BY <1>2, <1>3, <1>5, <1>6 DEF NotedFrom

\* A receive is cancelled.
LEMMA CancelMoves ==
  ASSUME NEW P \in Programs, NEW M, NEW V,
         NEW p \in Ranks, NEW k \in DOMAIN P[p], NEW c, c = P[p][k], c.op = "cancel",
         NEW h, StateRight(P, p, k, h), h.request[c.k] = "recv",
         NEW E \in Seq(Events), h.events = Len(E), RanksRight(P, M, p, h.request, E),
         NEW F, F = Noted(E, {c.k}, [j \in {c.k} |-> Canceled]),
         NEW g, g = Made(h, c.k, "ignored", Len(F))
  PROVE  Moves(P, M, V, p, k, h, g, E, F)
  <1>1. PICK source : source = [j \in {c.k} |-> Canceled]
    OBVIOUS
  <1>2. source[c.k] = Canceled /\ \A j \in {c.k} : source[j] \in Sources
    BY <1>1 DEF Sources
  <1>3. NotedFrom(E, F, {c.k}, source)
    <2>1. F = Noted(E, {c.k}, source)
      BY <1>1
    <2> QED BY <1>2, <2>1, NotedRight
  <1>4. k \in Nat /\ DOMAIN P[p] = 1..Len(P[p]) /\ Len(P[p]) \in Nat
    BY OpsAreNumbers
  <1>5. c.k \in DOMAIN P[p] /\ c.k < k
    <2>1. Refers(P[p], k)
      BY ProgramAssumption
    <2>2. c.k \in 1..(k - 1)
      BY <2>1 DEF Refers
    <2> QED BY <1>4, <2>2
  <1>6. IsRecv(P, p, c.k) /\ Cancels(P[p], c.k) /\ Unaccounted(P, p, c.k)
    <2>1. IsRecv(P, p, c.k)
      BY <1>5 DEF StateRight
    <2>2. Cancels(P[p], c.k)
      BY DEF Cancels
    <2> QED BY <2>1, <2>2 DEF Unaccounted
  <1>7. PICK n, req : n = Len(F) /\ req = [h.request EXCEPT ![c.k] = "ignored"]
    OBVIOUS
  <1>8. n \in Nat /\ n = h.events /\ n = Len(E)
    BY <1>3, <1>7 DEF NotedFrom, StateRight
  <1>9. req \in [DOMAIN P[p] -> RequestStates]
        /\ \A j \in DOMAIN P[p] : req[j] = IF j = c.k THEN "ignored" ELSE h.request[j]
    <2>1. h.request \in [DOMAIN P[p] -> RequestStates] /\ "ignored" \in RequestStates
      BY DEF StateRight, RequestStates
    <2> QED BY <1>5, <1>7, <2>1
  <1>10. /\ StateRight(P, p, k + 1, g) /\ g.request = req /\ PrefixOf(h.seen, g.seen)
         /\ g.events = n
    <2>1. ~IsSend(P, p, k) /\ ~IsRecv(P, p, k)
      BY DEF IsSend, IsRecv
    <2>2. RequestsAfter(P, p, k, h, req)
      BY <1>5, <1>6, <1>9 DEF RequestsAfter
    <2>3. g = St(req, h.lastSource, h.seen, n)
      BY <1>7, Zenon DEF Made
    <2>4. /\ g.request = req /\ g.lastSource = h.lastSource /\ g.seen = h.seen /\ g.events = n
          /\ g = St(g.request, g.lastSource, g.seen, g.events)
      <3>1. PICK last, what : last = h.lastSource /\ what = h.seen
        OBVIOUS
      <3>2. g = St(req, last, what, n)
        BY <2>3, <3>1
      <3>3. /\ g.request = req /\ g.lastSource = last /\ g.seen = what /\ g.events = n
            /\ g = St(g.request, g.lastSource, g.seen, g.events)
        BY <3>2, StateParts
      <3> QED BY <3>1, <3>3
    <2>5. Follows(P, p, k, h, g)
      BY <1>8, <2>2, <2>4 DEF Follows, StateRight, SeenAfter
    <2>6. StateRight(P, p, k + 1, g) /\ PrefixOf(h.seen, g.seen)
      BY <2>1, <2>5, StateSees
    <2> QED BY <2>4, <2>6
  <1>11. Kept(P, M, V, "record", p, k, h, g, F)
    <2>1. KeptCancel(c, h, g)
      BY <1>7, <1>8 DEF KeptCancel
    <2> QED BY <2>1 DEF Kept
  <1>12. RanksRight(P, M, p, g.request, F)
    <2> SUFFICES ASSUME NEW i \in DOMAIN F, F[i].kind = "recv"
                 PROVE  /\ IsRecv(P, p, F[i].k)
                        /\ req[F[i].k] = "null" /\ ~Cancels(P[p], F[i].k) =>
                             M[p][F[i].k] # None /\ F[i].rank = M[p][F[i].k].from
      BY <1>10 DEF RanksRight
    <2>1. i \in DOMAIN E /\ E[i].kind = "recv" /\ F[i].k = E[i].k
          /\ F[i].rank = IF E[i].k \in {c.k} THEN source[E[i].k] ELSE E[i].rank
      BY <1>3 DEF NotedFrom
    <2>2. IsRecv(P, p, E[i].k)
      BY <2>1 DEF RanksRight
    <2>3. ASSUME req[E[i].k] = "null", ~Cancels(P[p], E[i].k)
          PROVE  M[p][E[i].k] # None /\ F[i].rank = M[p][E[i].k].from
      <3>1. E[i].k # c.k
        BY <1>6, <2>3
      <3>2. h.request[E[i].k] = "null"
        BY <1>9, <2>2, <2>3, <3>1 DEF IsRecv
      <3> QED BY <2>1, <2>3, <3>1, <3>2 DEF RanksRight
    <2> QED BY <2>1, <2>2, <2>3
  <1>13. \A j \in DOMAIN P[p] : h.request[j] = "null" => g.request[j] = "null"
    BY <1>9, <1>10
  <1>14. EventsGrow(E, F) /\ F \in Seq(Events) /\ g.events = Len(F)
    BY <1>3, <1>7, <1>10 DEF NotedFrom
  <1> QED BY <1>10, <1>11, <1>12, <1>13, <1>14 DEF Moves

-------------------------------------------------------------------------------
\* Matching functions.

\* What a request has is a message.
LEMMA MessageTypes ==
  ASSUME NEW P, NEW M, MessagesRight(P, M), NEW p \in Ranks, NEW k \in DOMAIN P[p],
         M[p][k] # None
  PROVE  M[p][k] \in Sendable /\ M[p][k].from \in Ranks
  BY DEF MessagesRight, SendsOwn, ReceivesSent, Has, Sent

\* Matched is the state after a call that completes requests.
LEMMA MatchState ==
  ASSUME NEW P \in Programs, NEW M, MessagesRight(P, M),
         NEW p \in Ranks, NEW k \in DOMAIN P[p], NEW c, c = P[p][k], c.op = "match",
         NEW h, StateRight(P, p, k, h), NEW is \in SUBSET (1..Len(c.among)), NEW n \in Nat,
         NEW g, g = Matched(c, k, h, M[p], is, n)
  PROVE  Completes(P, p, k, c, h, is, n, g)
  <1>1. PICK req, last, what :
          /\ req = NulledBy(c, h.request, is)
          /\ last = LastOf(c, h.request, M[p], is, h.lastSource)
          /\ what = Append(h.seen, <<k, ResultsOf(c, h.request, M[p], is)>>)
    OBVIOUS
  <1>2. g = St(req, last, what, n)
    BY <1>1, Zenon DEF Matched
  <1>3. /\ g.request = req /\ g.lastSource = last /\ g.seen = what /\ g.events = n
        /\ g = St(g.request, g.lastSource, g.seen, g.events)
    BY <1>2, StateParts
  <1>4. /\ Len(c.among) \in Nat
        /\ \A i \in 1..Len(c.among) : c.among[i] \in DOMAIN P[p] /\ c.among[i] < k
    BY MatchRefers
  <1>5. h.request \in [DOMAIN P[p] -> RequestStates] /\ h.lastSource \in Ranks \cup {None}
    BY DEF StateRight
  <1>6. req \in [DOMAIN P[p] -> RequestStates]
        /\ \A j \in DOMAIN P[p] :
             req[j] = IF \E i \in is : c.among[i] = j THEN "null" ELSE h.request[j]
    BY <1>1, <1>5 DEF NulledBy, RequestStates
  <1>7. RequestsAfter(P, p, k, h, req)
    BY <1>4, <1>6 DEF RequestsAfter
  <1>8. last \in Ranks \cup {None}
    <2>1. PICK L, ms, last0, req0 : L = Len(c.among) /\ ms = M[p] /\ last0 = h.lastSource
                                    /\ req0 = h.request
      OBVIOUS
    <2>2. \A i \in is : ms[c.among[i]] # None => ms[c.among[i]].from \in Ranks
      BY <1>4, <2>1, MessageTypes
    <2>3. L \in Nat /\ is \in SUBSET (1..L)
      BY <1>4, <2>1
    <2>4. LastOf(c, req0, ms, is, last0) \in Ranks \cup {last0}
      BY <2>2, <2>3, LastOfType
    <2> QED BY <1>1, <1>5, <2>1, <2>4
  <1>9. Follows(P, p, k, h, g)
    <2>1. SeenAfter(h, g.seen)
      BY <1>1, <1>3 DEF SeenAfter
    <2> QED BY <1>3, <1>7, <1>8, <2>1 DEF Follows
  <1>10. StateRight(P, p, k + 1, g) /\ PrefixOf(h.seen, g.seen)
    <2>1. ~IsSend(P, p, k) /\ ~IsRecv(P, p, k)
      BY DEF IsSend, IsRecv
    <2> QED BY <1>9, <2>1, StateSees
  <1> QED BY <1>1, <1>3, <1>6, <1>10 DEF Completes

EventsFit(t, is) == t \in Seq(Events) /\ Len(t) = EventCount(is)

\* The events of a call.
LEMMA TestsTyped ==
  ASSUME NEW P \in Programs, NEW M, MessagesRight(P, M),
         NEW p \in Ranks, NEW k \in DOMAIN P[p], NEW c, c = P[p][k], c.op = "match",
         NEW req, NEW is \in SUBSET (1..Len(c.among)), NEW ms, ms = M[p]
  PROVE  EventsFit(TestsOf(p, c, req, ms, is), is)
  <1>1. PICK t : t = TestsOf(p, c, req, ms, is)
    OBVIOUS
  <1>2. /\ Len(c.among) \in Nat
        /\ \A i \in 1..Len(c.among) : c.among[i] \in DOMAIN P[p] /\ c.among[i] < k
    BY MatchRefers
  <1>3. CASE is = {}
    <2>1. t = <<NoMatch>>
      BY <1>1, <1>3 DEF TestsOf
    <2>2. NoMatch \in Events
      BY DEF NoMatch, Events, Sources
    <2>3. t \in Seq(Events) /\ Len(t) = 1
      BY <2>1, <2>2
    <2> QED BY <1>1, <1>3, <2>3 DEF EventsFit, EventCount
  <1>4. CASE is # {}
    <2>1. PICK L, s, n : L = Len(c.among) /\ s = InOrder(is) /\ n = Cardinality(is)
      OBVIOUS
    <2>2. n \in Nat /\ s \in [1..n -> is]
      <3>1. L \in Nat /\ is \in SUBSET (1..L)
        BY <1>2, <2>1
      <3> QED BY <2>1, <3>1, OrderIs
    <2>3. t = [j \in DOMAIN s |->
                [kind |-> "test", flag |-> 1, index |-> s[j],
                 rank |-> IF req[c.among[s[j]]] = "null" THEN AnySource
                          ELSE Rank(p, ms[c.among[s[j]]]),
                 next |-> WithNext(j, n)]]
      BY <1>1, <1>4, <2>1, Zenon DEF TestsOf
    <2>4. ASSUME NEW j \in 1..n
          PROVE  t[j] \in Events
      <3>1. s[j] \in is /\ s[j] \in Nat /\ c.among[s[j]] \in DOMAIN P[p]
        <4>1. s[j] \in is
          BY <2>2
        <4>2. s[j] \in 1..Len(c.among)
          BY <4>1
        <4> QED BY <1>2, <4>1, <4>2
      <3>2. PICK m, r : m = ms[c.among[s[j]]] /\ r = IF req[c.among[s[j]]] = "null"
                                        THEN AnySource ELSE Rank(p, m)
        OBVIOUS
      <3>3. m # None => m \in Sendable
        BY <3>1, <3>2, MessageTypes
      <3>4. Rank(p, m) \in Sources
        BY <3>3 DEF Rank, Sources, Sendable
      <3>5. r \in Sources
        BY <3>2, <3>4 DEF Sources
      <3>6. t[j] = [kind |-> "test", flag |-> 1, index |-> s[j], rank |-> r,
                    next |-> WithNext(j, n)]
        BY <2>2, <2>3, <3>2
      <3>7. WithNext(j, n) \in BOOLEAN
        BY DEF WithNext
      <3>8. PICK b : b = WithNext(j, n)
        OBVIOUS
      <3> QED BY <3>1, <3>5, <3>6, <3>7, <3>8 DEF Events
    <2>5. t \in [1..n -> Events]
      <3>1. t = [j \in 1..n |-> t[j]]
        BY <2>2, <2>3
      <3> QED BY <2>4, <3>1
    <2>6. t \in Seq(Events) /\ Len(t) = n
      BY <2>2, <2>5
    <2> QED BY <1>1, <1>4, <2>1, <2>6 DEF EventsFit, EventCount
  <1> QED BY <1>3, <1>4

-------------------------------------------------------------------------------

\* The record with more events.
Joined(E, t) == E \o t
JoinedRight(E, t, F) ==
  /\ F \in Seq(Events) /\ Len(F) = Len(E) + Len(t) /\ Len(E) \in Nat /\ Len(t) \in Nat
  /\ DOMAIN F = 1..(Len(E) + Len(t))
  /\ \A n \in 1..Len(E) : F[n] = E[n]
  /\ \A j \in 1..Len(t) : F[Len(E) + j] = t[j]

\* This is what Joined makes.
LEMMA RecordJoins ==
  ASSUME NEW E \in Seq(Events), NEW t \in Seq(Events), NEW F, F = Joined(E, t)
  PROVE  JoinedRight(E, t, F)
  <1>1. /\ E \o t \in Seq(Events) /\ Len(E \o t) = Len(E) + Len(t)
        /\ \A n \in 1..(Len(E) + Len(t)) :
             (E \o t)[n] = IF n <= Len(E) THEN E[n] ELSE t[n - Len(E)]
    BY ConcatProperties
  <1>2. Len(E) \in Nat /\ Len(t) \in Nat
    BY LenProperties
  <1>3. F = E \o t
    BY DEF Joined
  <1>4. F \in Seq(Events) /\ Len(F) = Len(E) + Len(t)
    BY <1>1, <1>3
  <1>5. DOMAIN F = 1..(Len(E) + Len(t))
    BY <1>4, LenProperties
  <1>6. \A n \in 1..Len(E) : F[n] = E[n]
    BY <1>1, <1>2, <1>3
  <1>7. ASSUME NEW j \in 1..Len(t) PROVE F[Len(E) + j] = t[j]
    <2>1. Len(E) + j \in 1..(Len(E) + Len(t)) /\ ~(Len(E) + j <= Len(E))
          /\ (Len(E) + j) - Len(E) = j
      BY <1>2
    <2> QED BY <1>1, <1>3, <2>1
  <1> QED BY <1>2, <1>4, <1>5, <1>6, <1>7 DEF JoinedRight

\* Written is the record after a call.
LEMMA WrittenRight ==
  ASSUME NEW P \in Programs, NEW M, MessagesRight(P, M),
         NEW p \in Ranks, NEW k \in DOMAIN P[p], NEW c, c = P[p][k], c.op = "match",
         NEW req, NEW is \in SUBSET (1..Len(c.among)),
         \A i \in is : req[c.among[i]] = "recv" => M[p][c.among[i]] # None,
         NEW E \in Seq(Events), NEW F, F = Written(P, p, c, req, M, is, E)
  PROVE  WrittenFrom(p, c, req, M, is, E, F)
  <1>1. /\ Len(c.among) \in Nat
        /\ \A i \in 1..Len(c.among) : c.among[i] \in DOMAIN P[p] /\ c.among[i] < k
    BY MatchRefers
  <1>2. PICK R, source, ms, t, D :
          /\ R = ReceivesAmong(c, req, is) /\ source = [j \in DOMAIN P[p] |-> SetRank(M[p][j])]
          /\ ms = M[p] /\ t = TestsOf(p, c, req, ms, is) /\ D = Noted(E, R, source)
    OBVIOUS
  <1>3. \A j \in R : j \in DOMAIN P[p] /\ source[j] = M[p][j].from /\ source[j] \in Sources
    <2> SUFFICES ASSUME NEW j \in R
                 PROVE  j \in DOMAIN P[p] /\ source[j] = M[p][j].from /\ source[j] \in Sources
      OBVIOUS
    <2>1. PICK i \in is : c.among[i] = j /\ req[j] = "recv"
      BY <1>2 DEF ReceivesAmong
    <2>2. i \in 1..Len(c.among)
      OBVIOUS
    <2>3. j \in DOMAIN P[p] /\ M[p][j] # None
      BY <1>1, <2>1, <2>2
    <2>4. M[p][j].from \in Ranks
      BY <2>3, MessageTypes
    <2> QED BY <1>2, <2>3, <2>4 DEF SetRank, Sources
  <1>4. NotedFrom(E, D, R, source)
    <2>1. \A j \in R : source[j] \in Sources
      BY <1>3
    <2> QED BY <1>2, <2>1, NotedRight
  <1>5. /\ D \in Seq(Events) /\ DOMAIN D = DOMAIN E /\ Len(D) = Len(E) /\ EventsGrow(E, D)
        /\ \A n \in DOMAIN E : D[n].kind = E[n].kind
        /\ \A n \in DOMAIN E : E[n].kind = "recv" =>
             D[n].k = E[n].k /\ D[n].rank = IF E[n].k \in R THEN source[E[n].k] ELSE E[n].rank
    BY <1>4 DEF NotedFrom
  <1>6. t \in Seq(Events) /\ Len(t) = EventCount(is)
    <2>1. EventsFit(TestsOf(p, c, req, ms, is), is)
      BY <1>2, TestsTyped
    <2> QED BY <1>2, <2>1 DEF EventsFit
  <1>7. JoinedRight(D, t, F)
    <2>1. F = Joined(D, t)
      BY <1>2, Zenon DEF Written, Joined
    <2> QED BY <1>5, <1>6, <2>1, RecordJoins
  <1>8. PICK L, n1 : L = Len(E) /\ n1 = EventCount(is)
    OBVIOUS
  <1>9. /\ F \in Seq(Events) /\ Len(F) = L + n1 /\ L \in Nat /\ n1 \in Nat
        /\ DOMAIN F = 1..(L + n1) /\ DOMAIN E = 1..L
        /\ \A n \in 1..L : F[n] = D[n]
        /\ \A j \in 1..n1 : F[L + j] = t[j]
    BY <1>5, <1>6, <1>7, <1>8, LenProperties DEF JoinedRight
  <1>10. \A j \in 1..n1 : t[j].kind = "test"
    <2>1. PICK Lc : Lc = Len(c.among)
      OBVIOUS
    <2>2. Lc \in Nat /\ is \in SUBSET (1..Lc)
      BY <1>1, <2>1
    <2>3. GroupOf(TestsOf(p, c, req, ms, is), is, EventCount(is))
      BY <2>2, TestsAre
    <2> QED BY <1>2, <1>8, <2>3 DEF GroupOf
  <1>11. EventsGrow(E, F)
    <2>1. \A n \in DOMAIN E : n \in DOMAIN F /\ F[n] = D[n]
      BY <1>9
    <2> QED BY <1>5, <2>1 DEF EventsGrow
  <1>12. ASSUME NEW n \in DOMAIN F, F[n].kind = "recv"
         PROVE  /\ n \in DOMAIN E /\ E[n].kind = "recv" /\ F[n].k = E[n].k
                /\ F[n].rank = IF E[n].k \in R THEN M[p][E[n].k].from ELSE E[n].rank
    <2>1. n \in 1..L
      <3>1. ASSUME n \notin 1..L PROVE FALSE
        <4>1. n - L \in 1..n1 /\ L + (n - L) = n
          BY <1>9, <3>1
        <4>2. F[n] = t[n - L]
          BY <1>9, <4>1
        <4> QED BY <1>10, <1>12, <4>1, <4>2
      <3> QED BY <3>1
    <2>2. n \in DOMAIN E /\ F[n] = D[n]
      BY <1>9, <2>1
    <2> QED BY <1>3, <1>5, <1>12, <2>2
  <1>13. \A j \in 1..n1 : F[L + j] = TestsOf(p, c, req, M[p], is)[j]
    BY <1>2, <1>9
  <1> QED BY <1>2, <1>8, <1>9, <1>11, <1>12, <1>13 DEF WrittenFrom

-------------------------------------------------------------------------------

\* A receive that the call completes has a message, of the receives it may complete: a
\* null request was completed before, and an ignored one has none.
LEMMA RanksMatched ==
  ASSUME NEW P \in Programs, NEW M,
         NEW p \in Ranks, NEW k \in DOMAIN P[p], NEW c, c = P[p][k], c.op = "match",
         NEW h, StateRight(P, p, k, h), NEW E \in Seq(Events), RanksRight(P, M, p, h.request, E),
         NEW is \in SUBSET (1..Len(c.among)),
         HaveMessages(c, h.request, M[p], is),
         NEW F, WrittenFrom(p, c, h.request, M, is, E, F),
         NEW req, Nulls(P, p, c, h.request, req, is)
  PROVE  RanksRight(P, M, p, req, F)
  <1>1. PICK R : R = ReceivesAmong(c, h.request, is)
    OBVIOUS
  <1>2. \A n \in DOMAIN F : F[n].kind = "recv" =>
          /\ n \in DOMAIN E /\ E[n].kind = "recv" /\ F[n].k = E[n].k
          /\ F[n].rank = IF E[n].k \in R THEN M[p][E[n].k].from ELSE E[n].rank
    BY <1>1 DEF WrittenFrom
  <1> SUFFICES ASSUME NEW n \in DOMAIN F, F[n].kind = "recv"
               PROVE  /\ IsRecv(P, p, F[n].k)
                      /\ req[F[n].k] = "null" /\ ~Cancels(P[p], F[n].k) =>
                           M[p][F[n].k] # None /\ F[n].rank = M[p][F[n].k].from
    BY DEF RanksRight
  <1>3. PICK j : j = E[n].k
    OBVIOUS
  <1>4. /\ n \in DOMAIN E /\ E[n].kind = "recv" /\ F[n].k = j
        /\ F[n].rank = IF j \in R THEN M[p][j].from ELSE E[n].rank
    BY <1>2, <1>3
  <1>5. /\ IsRecv(P, p, j)
        /\ h.request[j] = "null" /\ ~Cancels(P[p], j) =>
             M[p][j] # None /\ E[n].rank = M[p][j].from
    BY <1>3, <1>4 DEF RanksRight
  <1>6. j \in DOMAIN P[p] /\ ~IsSend(P, p, j)
    BY <1>5 DEF IsRecv, IsSend
  <1>7. j \in Nat
    BY <1>6, OpsAreNumbers
  <1> SUFFICES ASSUME req[j] = "null", ~Cancels(P[p], j)
               PROVE  M[p][j] # None /\ F[n].rank = M[p][j].from
    BY <1>4, <1>5
  <1>8. CASE j \in R
    <2>1. PICK i \in is : c.among[i] = j /\ h.request[j] = "recv"
      BY <1>1, <1>8 DEF ReceivesAmong
    <2>2. M[p][j] # None
      BY <2>1 DEF HaveMessages
    <2> QED BY <1>4, <1>8, <2>2
  <1>9. CASE j \notin R
    <2>1. ASSUME h.request[j] # "null" PROVE FALSE
      <3>1. PICK i \in is : c.among[i] = j
        BY <1>6, <2>1 DEF Nulls
      <3>2. h.request[j] # "recv"
        BY <1>1, <1>7, <1>9, <3>1 DEF ReceivesAmong
      <3>3. /\ Len(c.among) \in Nat
            /\ \A x \in 1..Len(c.among) : c.among[x] \in DOMAIN P[p] /\ c.among[x] < k
        BY MatchRefers
      <3>4. j < k
        <4>1. i \in 1..Len(c.among)
          OBVIOUS
        <4> QED BY <3>1, <3>3, <4>1
      <3>5. h.request[j] # "none" /\ h.request[j] # "send"
            /\ (h.request[j] = "ignored" => Unaccounted(P, p, j))
            /\ h.request[j] \in RequestStates
        BY <1>5, <1>6, <3>4 DEF StateRight
      <3>6. h.request[j] = "ignored"
        BY <2>1, <3>2, <3>5 DEF RequestStates
      <3>7. P[p][j].op # "unsupported"
        BY <1>5 DEF IsRecv
      <3> QED BY <3>5, <3>6, <3>7 DEF Unaccounted
    <2> QED BY <1>4, <1>5, <1>9, <2>1
  <1> QED BY <1>8, <1>9

\* MatchRecord moves the recorded run along.
LEMMA MatchMoves ==
  ASSUME NEW P \in Programs, NEW M, MessagesRight(P, M), NEW V,
         NEW p \in Ranks, NEW k \in DOMAIN P[p], NEW c, c = P[p][k], c.op = "match",
         NEW h, StateRight(P, p, k, h), NEW E \in Seq(Events), h.events = Len(E),
         RanksRight(P, M, p, h.request, E), NEW is \in SUBSET (1..Len(c.among)),
         \A i \in is : h.request[c.among[i]] \in {"send", "recv"} => M[p][c.among[i]] # None,
         ~Unrecorded(c, h.request), WithOf(c, h.request, {"ignored"}) \in {{}, 1..Len(c.among)},
         NoChoice(c) => is = 1..Len(c.among),
         NEW F, F = Written(P, p, c, h.request, M, is, E),
         NEW g, g = Matched(c, k, h, M[p], is, Len(F))
  PROVE  Moves(P, M, V, p, k, h, g, E, F)
  <1>1. WrittenFrom(p, c, h.request, M, is, E, F)
    <2>1. PICK req : req = h.request
      OBVIOUS
    <2>2. \A i \in is : req[c.among[i]] = "recv" => M[p][c.among[i]] # None
      BY <2>1
    <2>3. F = Written(P, p, c, req, M, is, E)
      BY <2>1
    <2>4. WrittenFrom(p, c, req, M, is, E, F)
      BY <2>2, <2>3, WrittenRight
    <2> QED BY <2>1, <2>4
  <1>2. PICK n : n = Len(F)
    OBVIOUS
  <1>3. /\ F \in Seq(Events) /\ EventsGrow(E, F) /\ n = Len(E) + EventCount(is)
        /\ DOMAIN F = 1..(Len(E) + EventCount(is)) /\ Len(E) \in Nat /\ EventCount(is) \in Nat
        /\ \A j \in 1..EventCount(is) : F[Len(E) + j] = TestsOf(p, c, h.request, M[p], is)[j]
    BY <1>1, <1>2 DEF WrittenFrom
  <1>4. Completes(P, p, k, c, h, is, n, g)
    <2>1. n \in Nat
      BY <1>3
    <2>2. g = Matched(c, k, h, M[p], is, n)
      BY <1>2
    <2> QED BY <2>1, <2>2, MatchState
  <1>5. /\ StateRight(P, p, k + 1, g) /\ PrefixOf(h.seen, g.seen) /\ g.events = n
        /\ \A j \in DOMAIN P[p] :
             g.request[j] = IF \E i \in is : c.among[i] = j THEN "null" ELSE h.request[j]
    BY <1>4 DEF Completes
  <1>6. \A j \in DOMAIN P[p] : h.request[j] = "null" => g.request[j] = "null"
    BY <1>5
  <1>7. RanksRight(P, M, p, g.request, F)
    <2>1. PICK req : req = g.request
      OBVIOUS
    <2>2. \A j \in DOMAIN P[p] :
            req[j] = IF \E i \in is : c.among[i] = j THEN "null" ELSE h.request[j]
      BY <1>5, <2>1
    <2>3. RanksRight(P, M, p, req, F)
      <3>1. HaveMessages(c, h.request, M[p], is)
        BY DEF HaveMessages
      <3>2. Nulls(P, p, c, h.request, req, is)
        BY <2>2 DEF Nulls
      <3> QED BY <1>1, <3>1, <3>2, RanksMatched
    <2> QED BY <2>1, <2>3
  <1>8. KeptMatch(M, p, k, c, h, g, F)
    <2>1. EventsOf(c, h.request, is) = EventCount(is)
      BY DEF EventsOf
    <2>2. g = Matched(c, k, h, M[p], is, h.events + EventsOf(c, h.request, is))
      BY <1>2, <1>3, <2>1
    <2>3. \A j \in 1..EventsOf(c, h.request, is) :
            /\ h.events + j \in DOMAIN F
            /\ F[h.events + j] = TestsOf(p, c, h.request, M[p], is)[j]
      BY <1>3, <2>1
    <2>4. KeptMatchOf(M, p, k, c, h, g, F, is)
      BY <2>2, <2>3 DEF KeptMatchOf
    <2> QED BY <2>4 DEF KeptMatch
  <1>9. Kept(P, M, V, "record", p, k, h, g, F)
    BY <1>8 DEF Kept
  <1> QED BY <1>2, <1>3, <1>5, <1>6, <1>7, <1>9 DEF Moves

\* So does a call that is not recorded.
LEMMA PassMoves ==
  ASSUME NEW P \in Programs, NEW M, MessagesRight(P, M), NEW V,
         NEW p \in Ranks, NEW k \in DOMAIN P[p], NEW c, c = P[p][k], c.op = "match",
         NEW h, StateRight(P, p, k, h), NEW E \in Seq(Events), h.events = Len(E),
         RanksRight(P, M, p, h.request, E), Unrecorded(c, h.request),
         NEW is, is = WithOf(c, h.request, {"ignored"}), is \in {{}, 1..Len(c.among)},
         NEW g, g = Matched(c, k, h, M[p], is, Len(E))
  PROVE  Moves(P, M, V, p, k, h, g, E, E)
  <1>1. is \in SUBSET (1..Len(c.among))
    BY DEF WithOf
  <1>2. /\ Len(c.among) \in Nat
        /\ \A x \in 1..Len(c.among) : c.among[x] \in DOMAIN P[p] /\ c.among[x] < k
    BY MatchRefers
  <1>3. Completes(P, p, k, c, h, is, Len(E), g)
    <2>1. PICK n : n = Len(E)
      OBVIOUS
    <2>2. n \in Nat
      BY <2>1, LenProperties
    <2>3. g = Matched(c, k, h, M[p], is, n)
      BY <2>1
    <2>4. Completes(P, p, k, c, h, is, n, g)
      BY <1>1, <2>2, <2>3, MatchState
    <2> QED BY <2>1, <2>4
  <1>4. /\ StateRight(P, p, k + 1, g) /\ PrefixOf(h.seen, g.seen) /\ g.events = Len(E)
        /\ \A j \in DOMAIN P[p] :
             g.request[j] = IF \E i \in is : c.among[i] = j THEN "null" ELSE h.request[j]
    BY <1>3 DEF Completes
  <1>5. \A j \in DOMAIN P[p] : h.request[j] = "null" => g.request[j] = "null"
    BY <1>4
  <1>6. \A i \in is : h.request[c.among[i]] = "ignored"
    BY DEF WithOf
  <1>7. RanksRight(P, M, p, g.request, E)
    <2>1. ASSUME NEW j \in DOMAIN P[p], IsRecv(P, p, j), g.request[j] = "null"
          PROVE  h.request[j] = "null" \/ Cancels(P[p], j)
      <3>1. CASE \E i \in is : c.among[i] = j
        <4>1. h.request[j] = "ignored"
          BY <1>6, <3>1
        <4>2. Unaccounted(P, p, j)
          BY <4>1 DEF StateRight
        <4> QED BY <2>1, <4>2 DEF Unaccounted, IsRecv
      <3>2. CASE ~\E i \in is : c.among[i] = j
        BY <1>4, <2>1, <3>2
      <3> QED BY <3>1, <3>2
    <2>2. Stays(P, M, M)
      BY DEF Stays
    <2>3. PICK req, new : req = h.request /\ new = g.request
      OBVIOUS
    <2>4. RanksRight(P, M, p, req, E)
      BY <2>3
    <2>5. \A j \in DOMAIN P[p] : IsRecv(P, p, j) /\ new[j] = "null" =>
            req[j] = "null" \/ Cancels(P[p], j)
      BY <2>1, <2>3
    <2>6. RanksRight(P, M, p, new, E)
      BY <2>2, <2>4, <2>5, RanksStay
    <2> QED BY <2>3, <2>6
  <1>8. KeptMatch(M, p, k, c, h, g, E)
    <2>1. EventsOf(c, h.request, is) = 0
      BY DEF EventsOf
    <2>2. g = Matched(c, k, h, M[p], is, h.events + EventsOf(c, h.request, is))
      <3>1. Len(E) + 0 = Len(E)
        BY LenProperties
      <3> QED BY <2>1, <3>1
    <2>3. \A j \in 1..EventsOf(c, h.request, is) :
            /\ h.events + j \in DOMAIN E
            /\ E[h.events + j] = TestsOf(p, c, h.request, M[p], is)[j]
      BY <2>1
    <2>4. \A i \in is : h.request[c.among[i]] \in {"send", "recv"} => M[p][c.among[i]] # None
      BY <1>6
    <2>5. KeptMatchOf(M, p, k, c, h, g, E, is)
      BY <2>2, <2>3, <2>4 DEF KeptMatchOf
    <2> QED BY <1>1, <2>5 DEF KeptMatch
  <1>9. Kept(P, M, V, "record", p, k, h, g, E)
    BY <1>8 DEF Kept
  <1>10. EventsGrow(E, E)
    BY DEF EventsGrow
  <1> QED BY <1>4, <1>5, <1>7, <1>9, <1>10 DEF Moves

-------------------------------------------------------------------------------

\* What was sent in the replay was sent in the recorded run.
LEMMA SentBefore ==
  ASSUME NEW P, NEW M, NEW N, SameMessages(P, M, N), NEW s \in Ranks, NEW d, NEW x,
         Sent(P, N, x, s, d)
  PROVE  Sent(P, M, x, s, d)
  <1>1. x.n \in DOMAIN P[s] /\ N[s][x.n] = x /\ x \in Sendable
    BY DEF Sent, IsSend
  <1>2. x # None
    BY <1>1, MpiAssumption
  <1>3. M[s][x.n] = x
    BY <1>1, <1>2 DEF SameMessages
  <1> QED BY <1>3 DEF Sent

\* A process that has sent a message in the replay has sent those before it, too.
LEMMA SentInOrder ==
  ASSUME NEW P \in Programs, NEW A, NEW M, NEW N, SameMessages(P, M, N), Progress(P, A, N),
         NEW s \in Ranks, NEW d, NEW e, NEW x, NEW y,
         Sent(P, N, x, s, d), Sent(P, M, y, s, e), y.n < x.n
  PROVE  Sent(P, N, y, s, e)
  <1>1. x.n \in DOMAIN P[s] /\ N[s][x.n] = x /\ x \in Sendable
    BY DEF Sent, IsSend
  <1>2. x # None
    BY <1>1, MpiAssumption
  <1>3. x.n < A[s] /\ A[s] \in Nat
    BY <1>1, <1>2 DEF Progress
  <1>4. y.n \in DOMAIN P[s] /\ M[s][y.n] = y /\ IsSend(P, s, y.n)
    BY DEF Sent, IsSend
  <1>5. y.n < A[s]
    <2>1. x.n \in Nat /\ y.n \in Nat
      BY <1>1, <1>4, OpsAreNumbers
    <2> QED BY <1>3, <2>1
  <1>6. N[s][y.n] # None
    BY <1>4, <1>5 DEF Progress
  <1>7. N[s][y.n] = y
    BY <1>4, <1>6 DEF SameMessages
  <1> QED BY <1>7 DEF Sent

\* A receive of the recorded run that was posted in the replay and has not got its message
\* there still waits for it.
LEMMA EarlierWaits ==
  ASSUME NEW P \in Programs, NEW A, NEW M, MessagesRight(P, M), NEW N, NEW U, NEW Q,
         SameMessages(P, M, N), PostedSources(P, M, Q), OpenPosted(P, A, N, Q),
         PostedRight(P, A, N, U, Q),
         NEW d \in Ranks, NEW j \in DOMAIN P[d], Has(P, M, d, j), j < A[d],
         NEW m, m = M[d][j], \A i \in DOMAIN P[d] : Has(P, N, d, i) => N[d][i] # m
  PROVE  \E r \in ToSet(Q[d]) : r.k = j /\ Matches(r.source, r.tag, m)
  <1>1. N[d][j] = None
    <2>1. ASSUME N[d][j] # None PROVE FALSE
      <3>1. N[d][j] = m
        BY <2>1 DEF SameMessages
      <3>2. Has(P, N, d, j)
        BY <2>1 DEF Has
      <3> QED BY <3>1, <3>2
    <2> QED BY <2>1
  <1>2. m.from \in Ranks /\ Sent(P, M, m, m.from, d) /\ Takes(P, d, j, m)
    BY DEF MessagesRight, ReceivesSent
  <1>3. m.n \in DOMAIN P[m.from] /\ P[m.from][m.n].op = "isend" /\ M[m.from][m.n] = m /\ m # None
    BY <1>2, MpiAssumption DEF Sent, IsSend
  <1>4. P[m.from][m.n].tag = m.tag
    <2>1. ~IsRecv(P, m.from, m.n)
      BY <1>3 DEF IsRecv
    <2> QED BY <1>2, <1>3, <2>1 DEF MessagesRight, SendsOwn
  <1>5. ~NoSender(P, d, j)
    BY <1>2, <1>3, <1>4 DEF NoSender, Takes
  <1>6. PICK r \in ToSet(Q[d]) : r.k = j
    <2>1. IsRecv(P, d, j)
      BY DEF Has
    <2> QED BY <1>1, <1>5, <2>1 DEF OpenPosted
  <1>7. r.source = m.from
    BY <1>5, <1>6 DEF PostedSources
  <1>8. r.tag = P[d][j].tag
    BY <1>6 DEF PostedRight, PostedReceive
  <1>9. Matches(r.source, r.tag, m)
    BY <1>2, <1>7, <1>8 DEF Matches, Takes
  <1> QED BY <1>6, <1>9

\* If a receive of the replay can get a message from the source it had in the recorded run,
\* and no receive that was posted before takes it, then it is the message it had there.
LEMMA GetsRecorded ==
  ASSUME NEW P \in Programs, NEW A, NEW M, MessagesRight(P, M), NEW N, NEW T, NEW U, NEW Q,
         Channels(P, A, N, T, U, Q), SameMessages(P, M, N), PostedSources(P, M, Q),
         NEW d \in Ranks, NEW k \in DOMAIN P[d], k <= A[d], Has(P, M, d, k),
         NEW m, CanGet(P, N, d, k, m), m.from = M[d][k].from,
         \A r \in ToSet(Q[d]) : r.k < k => ~Matches(r.source, r.tag, m)
  PROVE  m = M[d][k]
  <1>1. PICK w, s : w = M[d][k] /\ s = m.from
    OBVIOUS
  <1>2. /\ s \in Ranks /\ Sent(P, N, m, s, d) /\ Takes(P, d, k, m) /\ N[d][k] = None
        /\ \A j \in DOMAIN P[d] : Has(P, N, d, j) => N[d][j] # m
        /\ \A x \in Sendable : Sent(P, N, x, s, d) /\ x.n < m.n /\ Takes(P, d, k, x) =>
             \E j \in DOMAIN P[d] : j < k /\ Has(P, N, d, j) /\ N[d][j] = x
    BY <1>1 DEF CanGet
  <1>3. Sent(P, M, m, s, d)
    BY <1>2, SentBefore
  <1>4. w.from = s /\ Sent(P, M, w, s, d) /\ Takes(P, d, k, w)
    BY <1>1 DEF MessagesRight, ReceivesSent
  <1>5. m.n \in DOMAIN P[s] /\ w.n \in DOMAIN P[s] /\ m \in Sendable /\ w \in Sendable
        /\ M[s][m.n] = m /\ M[s][w.n] = w
    BY <1>3, <1>4 DEF Sent, IsSend
  <1>6. m.n \in Nat /\ w.n \in Nat
    BY <1>2, <1>5, OpsAreNumbers
  <1>7. A[d] \in Nat /\ k \in Nat
    <2>1. Progress(P, A, N)
      BY DEF Channels
    <2> QED BY <2>1, OpsAreNumbers DEF Progress
  <1>8. CASE m.n = w.n
    BY <1>1, <1>5, <1>8
  <1>9. CASE m.n < w.n
    <2>1. PICK j \in DOMAIN P[d] : j < k /\ Has(P, M, d, j) /\ M[d][j] = m
      <3>1. \A x \in Sendable : Sent(P, M, x, s, d) /\ x.n < w.n /\ Takes(P, d, k, x) =>
              \E j \in DOMAIN P[d] : j < k /\ Has(P, M, d, j) /\ M[d][j] = x
        BY <1>1, <1>4 DEF MessagesRight, InTurn
      <3> QED BY <1>2, <1>3, <1>5, <1>9, <3>1
    <2>2. j < A[d]
      <3>1. j \in Nat
        BY OpsAreNumbers
      <3> QED BY <1>7, <2>1, <3>1
    <2>3. \E r \in ToSet(Q[d]) : r.k = j /\ Matches(r.source, r.tag, m)
      <3>1. OpenPosted(P, A, N, Q) /\ PostedRight(P, A, N, U, Q)
        BY DEF Channels
      <3>2. \A i \in DOMAIN P[d] : Has(P, N, d, i) => N[d][i] # m
        BY <1>2
      <3> QED BY <2>1, <2>2, <3>1, <3>2, EarlierWaits
    <2> QED BY <2>1, <2>3
  <1>10. CASE w.n < m.n
    <2>1. Sent(P, N, w, s, d)
      <3>1. Progress(P, A, N)
        BY DEF Channels
      <3> QED BY <1>2, <1>4, <1>10, <3>1, SentInOrder
    <2>2. PICK j \in DOMAIN P[d] : j < k /\ Has(P, N, d, j) /\ N[d][j] = w
      BY <1>2, <1>4, <1>5, <1>10, <2>1
    <2>3. Has(P, M, d, j) /\ M[d][j] = w
      BY <2>2 DEF SameMessages, Has
    <2>4. j = k
      BY <1>1, <2>3 DEF MessagesRight, ReceivedOnce
    <2> QED BY <1>7, <2>2, <2>4
  <1> QED BY <1>6, <1>8, <1>9, <1>10

-------------------------------------------------------------------------------

\* A receive that gets the message it had keeps the messages those of the recorded run.
LEMMA SameGet ==
  ASSUME NEW P, NEW M, NEW N, SameMessages(P, M, N), Tables(P, N),
         NEW p \in Ranks, NEW k \in DOMAIN P[p], NEW m, m = M[p][k],
         NEW L, L = With1(N, p, k, m)
  PROVE  SameMessages(P, M, L)
  <1>1. \A q \in Ranks : \A j \in DOMAIN P[q] :
          L[q][j] = IF q = p /\ j = k THEN m ELSE N[q][j]
    BY With1Values
  <1> QED BY <1>1 DEF SameMessages

\* The tag of a message is that of its send operation.
LEMMA SentTag ==
  ASSUME NEW P, NEW M, MessagesRight(P, M), NEW m, NEW s \in Ranks, NEW d, Sent(P, M, m, s, d)
  PROVE  m.n \in DOMAIN P[s] /\ P[s][m.n].op = "isend" /\ P[s][m.n].tag = m.tag
  <1>1. m.n \in DOMAIN P[s] /\ P[s][m.n].op = "isend" /\ M[s][m.n] = m /\ m # None
    BY MpiAssumption DEF Sent, IsSend
  <1>2. ~IsRecv(P, s, m.n)
    BY <1>1 DEF IsRecv
  <1> QED BY <1>1, <1>2 DEF MessagesRight, SendsOwn

\* A receive of whose tag there is no send matches no message.
LEMMA NobodySends ==
  ASSUME NEW P, NEW M, MessagesRight(P, M), NEW p, NEW k, NoSender(P, p, k),
         NEW m, NEW s \in Ranks, NEW d, Sent(P, M, m, s, d), NEW source
  PROVE  ~Matches(source, P[p][k].tag, m) /\ ~Takes(P, p, k, m)
  <1>1. m.n \in DOMAIN P[s] /\ P[s][m.n].op = "isend" /\ P[s][m.n].tag = m.tag
    BY SentTag
  <1> QED BY <1>1 DEF NoSender, Matches, Takes

\* A message that matches it is from that source, and the receive had a message.
LEMMA SourceMatches ==
  ASSUME NEW P, NEW M, MessagesRight(P, M), NEW N, MessagesRight(P, N),
         NEW d \in Ranks, NEW k \in DOMAIN P[d], IsRecv(P, d, k), NEW source,
         SourceHad(P, M, d, k, source), NEW m, NEW s \in Ranks, Sent(P, N, m, s, d),
         Matches(source, P[d][k].tag, m)
  PROVE  Has(P, M, d, k) /\ m.from = M[d][k].from
  <1>1. ~NoSender(P, d, k)
    BY NobodySends
  <1>2. M[d][k] # None /\ source = M[d][k].from
    BY <1>1 DEF SourceHad
  <1>3. Has(P, M, d, k)
    BY <1>2 DEF Has
  <1>4. M[d][k].from \in Ranks
    BY <1>3 DEF MessagesRight, ReceivesSent
  <1> QED BY <1>2, <1>3, <1>4, MpiAssumption DEF Matches

\* The message that a replayed receive takes from those that have arrived is the one it had.
LEMMA TakesRecorded ==
  ASSUME NEW P \in Programs, NEW A, NEW M, MessagesRight(P, M), NEW N, NEW T, NEW U, NEW Q,
         Channels(P, A, N, T, U, Q), SameMessages(P, M, N), PostedSources(P, M, Q),
         NEW d \in Ranks, NEW k \in DOMAIN P[d], k = A[d], NEW source,
         SourceHad(P, M, d, k, source), NEW i \in DOMAIN U[d], NEW m, m = U[d][i],
         Matches(source, P[d][k].tag, m), CanGet(P, N, d, k, m)
  PROVE  m = M[d][k]
  <1>1. MessagesRight(P, N)
    BY DEF Channels, Pipes
  <1>2. IsRecv(P, d, k) /\ m.from \in Ranks /\ Sent(P, N, m, m.from, d)
    BY DEF CanGet
  <1>3. Has(P, M, d, k) /\ m.from = M[d][k].from
    BY <1>1, <1>2, SourceMatches
  <1>4. m \in ToSet(U[d])
    BY Zenon DEF ToSet
  <1>5. \A r \in ToSet(Q[d]) : ~Matches(r.source, r.tag, m)
    BY <1>4 DEF Channels, PostedRight, PostedReceive
  <1>6. k <= A[d]
    <2>1. k \in Nat
      BY OpsAreNumbers
    <2> QED BY <2>1
  <1> QED BY <1>3, <1>5, <1>6, GetsRecorded

\* So is the message that is delivered to a receive that was posted.
LEMMA DeliversRecorded ==
  ASSUME NEW P \in Programs, NEW A, NEW M, MessagesRight(P, M), NEW N, NEW T, NEW U, NEW Q,
         Channels(P, A, N, T, U, Q), SameMessages(P, M, N), PostedSources(P, M, Q),
         NEW d \in Ranks, NEW i, NEW k \in DOMAIN P[d], k = Q[d][i].k,
         NEW m, CanGet(P, N, d, k, m), TakesFirst(Q, d, i, m)
  PROVE  m = M[d][k]
  <1> /\ i \in DOMAIN Q[d] /\ Matches(Q[d][i].source, Q[d][i].tag, m)
      /\ \A j \in DOMAIN Q[d] : Matches(Q[d][j].source, Q[d][j].tag, m) => i <= j
    BY DEF TakesFirst
  <1>1. MessagesRight(P, N) /\ PostedRight(P, A, N, U, Q) /\ Progress(P, A, N)
    BY DEF Channels, Pipes
  <1>2. IsRecv(P, d, k) /\ m.from \in Ranks /\ Sent(P, N, m, m.from, d)
    BY DEF CanGet
  <1>3. PICK r : r = Q[d][i]
    OBVIOUS
  <1>4. r \in ToSet(Q[d])
    BY <1>3, Zenon DEF ToSet
  <1>5. r.tag = P[d][k].tag /\ k < A[d]
    BY <1>1, <1>3, <1>4 DEF PostedRight, PostedReceive
  <1>6. SourceHad(P, M, d, k, r.source)
    BY <1>3, <1>4 DEF PostedSources, SourceHad
  <1>7. Has(P, M, d, k) /\ m.from = M[d][k].from
    BY <1>1, <1>2, <1>3, <1>5, <1>6, SourceMatches
  <1>8. ASSUME NEW x \in ToSet(Q[d]), x.k < k, Matches(x.source, x.tag, m) PROVE FALSE
    <2>1. PICK j \in DOMAIN Q[d] : Q[d][j] = x
      BY Zenon DEF ToSet
    <2>2. i <= j
      BY <1>8, <2>1
    <2>3. PICK q : q = Q[d]
      OBVIOUS
    <2>4. q \in Seq(Waiting)
      BY <1>1, <2>3 DEF PostedRight
    <2>5. i \in Nat /\ j \in Nat /\ x \in Waiting /\ r \in Waiting
      BY <1>3, <2>1, <2>3, <2>4, LenProperties
    <2>6. x.k \in Nat /\ k \in Nat
      BY <1>3, <2>5 DEF Waiting
    <2>7. CASE i = j
      BY <1>3, <1>8, <2>1, <2>6, <2>7
    <2>8. CASE i < j
      <3>1. ByRequest(Q[d])
        BY <1>1 DEF PostedRight
      <3>2. k < x.k
        BY <1>3, <2>1, <2>8, <3>1 DEF ByRequest
      <3> QED BY <1>8, <2>6, <3>2
    <2> QED BY <2>2, <2>5, <2>7, <2>8
  <1>9. k <= A[d]
    <2>1. k \in Nat /\ A[d] \in Nat
      BY <1>1, OpsAreNumbers DEF Progress
    <2> QED BY <1>5, <2>1
  <1> QED BY <1>7, <1>8, <1>9, GetsRecorded

-------------------------------------------------------------------------------

\* A receive that is posted with the source it had keeps the sources right.
LEMMA PostsSource ==
  ASSUME NEW P, NEW M, NEW Q \in [Ranks -> Seq(Waiting)], PostedSources(P, M, Q),
         NEW p \in Ranks, NEW r \in Waiting, SourceHad(P, M, p, r.k, r.source),
         NEW R, R = WithElement(Q, p, r)
  PROVE  PostedSources(P, M, R)
  <1>1. PICK q : q = Q[p]
    OBVIOUS
  <1>2. q \in Seq(Waiting)
    BY <1>1
  <1>3. Append(q, r) \in Seq(Waiting) /\ ToSet(Append(q, r)) = ToSet(q) \cup {r}
    BY <1>2, AppendElements
  <1>4. R[p] = Append(q, r) /\ \A e \in Ranks : e # p => R[e] = Q[e]
    BY <1>1 DEF WithElement
  <1>5. ASSUME NEW d \in Ranks, NEW x \in ToSet(R[d])
        PROVE  NoSender(P, d, x.k) \/ (M[d][x.k] # None /\ x.source = M[d][x.k].from)
    <2>1. CASE d = p /\ x = r
      BY <2>1 DEF SourceHad
    <2>2. CASE ~(d = p /\ x = r)
      <3>1. x \in ToSet(Q[d])
        <4>1. CASE d = p
          <5>1. R[d] = Append(q, r)
            BY <1>4, <4>1
          <5>2. x \in ToSet(Append(q, r))
            BY <5>1
          <5>3. x \in ToSet(q) \cup {r}
            BY <1>3, <5>2
          <5> QED BY <1>1, <2>2, <4>1, <5>3
        <4>2. CASE d # p
          BY <1>4, <4>2
        <4> QED BY <4>1, <4>2
      <3> QED BY <3>1 DEF PostedSources
    <2> QED BY <2>1, <2>2
  <1> QED BY <1>5 DEF PostedSources

\* Fewer posted receives keep them, too.
LEMMA DropsSource ==
  ASSUME NEW P, NEW M, NEW Q, PostedSources(P, M, Q), NEW R, NoNewPosts(Q, R)
  PROVE  PostedSources(P, M, R)
  BY DEF PostedSources, NoNewPosts

\* A probe of the replay that waits for a message from the recorded source finds the very
\* message.
LEMMA FindsRecorded ==
  ASSUME NEW P \in Programs, NEW A, NEW M, MessagesRight(P, M), NEW N, NEW T, NEW U, NEW Q,
         Channels(P, A, N, T, U, Q), SameMessages(P, M, N), PostedSources(P, M, Q),
         NEW p \in Ranks, NEW k \in DOMAIN P[p], k = A[p], NEW m, ProbedRight(P, M, p, k, m),
         NEW i \in DOMAIN U[p], NEW x, x = U[p][i], Matches(m.from, P[p][k].tag, x),
         \A j \in DOMAIN U[p] : Matches(m.from, P[p][k].tag, U[p][j]) => i <= j
  PROVE  x = m
  <1>1. /\ MessagesRight(P, N) /\ UnexpectedRight(P, N, T, U) /\ TravellingRight(P, N, T)
        /\ ReceivedArrived(P, N, T, U)
        /\ NoneLost(P, N, T, U) /\ PostedRight(P, A, N, U, Q) /\ OpenPosted(P, A, N, Q)
        /\ Progress(P, A, N)
    BY DEF Channels, Pipes
  <1>2. PICK s : s = m.from
    OBVIOUS
  <1>3. /\ s \in Ranks /\ m \in Sendable /\ Sent(P, M, m, s, p) /\ Takes(P, p, k, m)
        /\ \A y \in Sendable : Sent(P, M, y, s, p) /\ y.n < m.n /\ Takes(P, p, k, y) =>
             \E j \in DOMAIN P[p] : j < k /\ Has(P, M, p, j) /\ M[p][j] = y
        /\ \A j \in DOMAIN P[p] : j < k /\ Has(P, M, p, j) => M[p][j] # m
    BY <1>2 DEF ProbedRight
  <1>4. x \in ToSet(U[p])
    BY Zenon DEF ToSet
  <1>5. x.from \in Ranks /\ Sent(P, N, x, x.from, p) /\ Arrived(T, p, x)
    BY <1>1, <1>4 DEF UnexpectedRight
  <1>6. x.from = s /\ Takes(P, p, k, x)
    BY <1>2, <1>3, MpiAssumption DEF Matches, Takes
  <1>7. Sent(P, N, x, s, p) /\ Sent(P, M, x, s, p)
    BY <1>3, <1>5, <1>6, SentBefore
  <1>8. /\ m.n \in DOMAIN P[s] /\ x.n \in DOMAIN P[s] /\ x \in Sendable
        /\ M[s][m.n] = m /\ M[s][x.n] = x
    BY <1>3, <1>7 DEF Sent, IsSend
  <1>9. m.n \in Nat /\ x.n \in Nat
    BY <1>3, <1>8, OpsAreNumbers
  <1>10. CASE x.n = m.n
    BY <1>8, <1>10
  <1>11. CASE x.n < m.n
    <2>1. PICK j \in DOMAIN P[p] : j < k /\ Has(P, M, p, j) /\ M[p][j] = x
      BY <1>3, <1>6, <1>7, <1>8, <1>11
    <2>2. \A a \in DOMAIN P[p] : Has(P, N, p, a) => N[p][a] # x
      BY <1>1, <1>4 DEF ReceivedArrived
    <2>3. \E r \in ToSet(Q[p]) : r.k = j /\ Matches(r.source, r.tag, x)
      BY <1>1, <2>1, <2>2, EarlierWaits
    <2> QED BY <1>1, <1>4, <2>3 DEF PostedRight, PostedReceive
  <1>12. CASE m.n < x.n
    <2>1. Sent(P, N, m, s, p)
      BY <1>1, <1>3, <1>7, <1>12, SentInOrder
    <2>2. ~(m \in ToSet(T[<<s, p>>]))
      <3>1. ASSUME m \in ToSet(T[<<s, p>>]) PROVE FALSE
        <4>1. x.n < m.n
          BY <1>5, <1>6, <3>1 DEF Arrived
        <4> QED BY <1>9, <1>12, <4>1
      <3> QED BY <3>1
    <2>3. ~(m \in ToSet(U[p]))
      <3>1. ASSUME m \in ToSet(U[p]) PROVE FALSE
        <4>1. PICK j \in DOMAIN U[p] : U[p][j] = m
          BY <3>1, Zenon DEF ToSet
        <4>2. Matches(m.from, P[p][k].tag, U[p][j])
          BY <1>3, <4>1 DEF Matches, Takes
        <4>3. i <= j
          BY <4>2
        <4>4. PICK q : q = U[p]
          OBVIOUS
        <4>5. q \in Seq(Sendable)
          BY <1>1, <4>4 DEF UnexpectedRight
        <4>6. i \in Nat /\ j \in Nat
          BY <4>4, <4>5, LenProperties
        <4>7. i # j
          BY <1>9, <1>12, <4>1
        <4>8. i < j
          BY <4>3, <4>6, <4>7
        <4>9. BySource(U[p])
          BY <1>1 DEF UnexpectedRight
        <4>10. x.n < m.n
          BY <1>2, <1>6, <4>1, <4>8, <4>9 DEF BySource
        <4> QED BY <1>9, <1>12, <4>10
      <3> QED BY <3>1
    <2>4. ASSUME NEW j \in DOMAIN P[p], Has(P, N, p, j), N[p][j] = m PROVE FALSE
      <3>1. j < k /\ Has(P, M, p, j) /\ M[p][j] = m
        BY <1>1, <2>4 DEF Progress, SameMessages, Has
      <3> QED BY <1>3, <3>1
    <2> QED BY <1>1, <1>3, <2>1, <2>2, <2>3, <2>4 DEF NoneLost
  <1> QED BY <1>9, <1>10, <1>11, <1>12

-------------------------------------------------------------------------------

\* The events of a call are a group.
LEMMA GroupEnds ==
  ASSUME NEW E \in Seq(Events), NEW t, NEW is, NEW n, GroupOf(t, is, n), NEW a \in Nat,
         EventsAt(E, a, t, n)
  PROVE  EndOfGroup(E, a) = a + n /\ n \in Nat /\ n >= 1
  <1>1. n \in Nat /\ n >= 1
    BY DEF GroupOf
  <1> DEFINE I == {i \in (a + 1)..Len(E) : E[i].kind = "recv" \/ ~E[i].next}
             z == EndOfGroup(E, a)
  <1>2. z = IF I # {} THEN Min(I) ELSE 0
    BY DEF EndOfGroup, SelectInSubSeq
  <1>3. Len(E) \in Nat /\ DOMAIN E = 1..Len(E)
    BY LenProperties
  <1>4. I \in SUBSET Nat /\ 0 \notin I
    BY <1>3
  <1>5. IF I = {} THEN z = 0 ELSE z \in I /\ \A j \in I : z <= j
    <2> HIDE DEF I, z
    <2> QED BY <1>2, <1>4, LeastFound
  <1>6. ASSUME NEW j \in 1..n
        PROVE  a + j \in (a + 1)..Len(E) /\ E[a + j].kind = "test" /\ (E[a + j].next <=> j < n)
    <2>1. a + j \in DOMAIN E /\ E[a + j] = t[j]
      BY DEF EventsAt
    <2>2. t[j].kind = "test" /\ (t[j].next <=> j < n)
      BY DEF GroupOf
    <2>3. a + j \in (a + 1)..Len(E)
      BY <1>1, <1>3, <2>1
    <2> QED BY <2>1, <2>2, <2>3
  <1>7. a + n \in I
    <2>1. n \in 1..n /\ ~(n < n)
      BY <1>1
    <2>2. a + n \in (a + 1)..Len(E) /\ ~E[a + n].next
      BY <1>6, <2>1
    <2> QED BY <2>2
  <1>8. z \in I /\ z <= a + n
    BY <1>5, <1>7
  <1>9. z \in Nat /\ z >= a + 1 /\ (E[z].kind = "recv" \/ ~E[z].next)
    BY <1>3, <1>8
  <1>10. PICK y : y = z
    OBVIOUS
  <1> HIDE DEF z, I
  <1>11. y = a + n
    <2>1. ASSUME y # a + n PROVE FALSE
      <3>1. y - a \in 1..n /\ y - a < n /\ a + (y - a) = y
        BY <1>1, <1>8, <1>9, <1>10, <2>1
      <3>2. E[y].kind = "test" /\ E[y].next
        BY <1>6, <3>1
      <3> QED BY <1>9, <1>10, <3>2
    <2> QED BY <2>1
  <1> QED BY <1>1, <1>10, <1>11 DEF z

\* It names the requests that the call completed.
LEMMA GroupNames ==
  ASSUME NEW t, NEW L \in Nat, NEW is \in SUBSET (1..L), NEW n, GroupOf(t, is, n),
         NEW es, ToSet(es) = {t[j] : j \in 1..n}
  PROVE  Completing(es) = is
  <1>1. /\ \A j \in 1..n : /\ t[j].kind = "test" /\ (is = {} => t[j].flag = 0)
                           /\ (is # {} => t[j].flag = 1 /\ t[j].index \in is)
        /\ \A i \in is : \E j \in 1..n : t[j].index = i
    BY DEF GroupOf
  <1>2. \A i \in Completing(es) : i \in is
    <2> SUFFICES ASSUME NEW i \in Completing(es) PROVE i \in is
      OBVIOUS
    <2>1. PICK e \in ToSet(es) : e.flag = 1 /\ i = e.index
      BY DEF Completing
    <2>2. PICK j \in 1..n : e = t[j]
      BY <2>1
    <2> QED BY <1>1, <2>1, <2>2
  <1>3. \A i \in is : i \in Completing(es)
    <2> SUFFICES ASSUME NEW i \in is PROVE i \in Completing(es)
      OBVIOUS
    <2>1. PICK j \in 1..n : t[j].index = i
      BY <1>1
    <2>2. t[j] \in ToSet(es) /\ t[j].kind = "test" /\ t[j].flag = 1
      BY <1>1
    <2> QED BY <2>1, <2>2 DEF Completing
  <1> QED BY <1>2, <1>3

\* What is read of the record there are the events that were written.
LEMMA GroupElements ==
  ASSUME NEW E \in Seq(Events), NEW t, NEW is, NEW n,
         GroupOf(t, is, n), NEW a \in Nat, EventsAt(E, a, t, n)
  PROVE  ToSet(SubSeq(E, a + 1, a + n)) = {t[j] : j \in 1..n}
  <1>1. n \in Nat /\ n >= 1
    BY DEF GroupOf
  <1>2. PICK s : s = SubSeq(E, a + 1, a + n)
    OBVIOUS
  <1>3. \A i \in (a + 1)..(a + n) : i \in DOMAIN E /\ E[i] = t[i - a]
    <2> SUFFICES ASSUME NEW i \in (a + 1)..(a + n) PROVE i \in DOMAIN E /\ E[i] = t[i - a]
      OBVIOUS
    <2>1. i - a \in 1..n /\ a + (i - a) = i
      BY <1>1
    <2> QED BY <2>1 DEF EventsAt
  <1>4. \A i \in (a + 1)..(a + n) : E[i] \in Events
    BY <1>3, ElementOfSeq, LenProperties
  <1>5. /\ s \in Seq(Events) /\ Len(s) = n
        /\ \A i \in 1..n : s[i] = E[a + i]
    <2>1. a + 1 \in Int /\ a + n \in Int /\ a + 1 <= a + n /\ (a + n) - (a + 1) + 1 = n
      BY <1>1
    <2>2. /\ s \in Seq(Events)
          /\ Len(s) = IF a + 1 <= a + n THEN (a + n) - (a + 1) + 1 ELSE 0
          /\ \A i \in 1..((a + n) - (a + 1) + 1) : s[i] = E[(a + 1) + i - 1]
      BY <1>2, <1>4, <2>1, SubSeqProperties
    <2>3. \A i \in 1..n : (a + 1) + i - 1 = a + i
      BY <1>1
    <2> QED BY <2>1, <2>2, <2>3
  <1>6. DOMAIN s = 1..n /\ \A i \in 1..n : s[i] = t[i]
    <2>1. \A i \in 1..n : E[a + i] = t[i]
      BY DEF EventsAt
    <2> QED BY <1>5, <2>1, LenProperties
  <1>7. ToSet(s) = {t[j] : j \in 1..n}
    <2>1. ToSet(s) = {s[j] : j \in DOMAIN s}
      BY Zenon DEF ToSet
    <2> QED BY <1>6, <2>1
  <1> QED BY <1>2, <1>7

\* They complete the requests that the call completed.
LEMMA GroupCompletes ==
  ASSUME NEW E \in Seq(Events), NEW t, NEW L \in Nat, NEW is \in SUBSET (1..L), NEW n,
         GroupOf(t, is, n), NEW a \in Nat, EventsAt(E, a, t, n)
  PROVE  Completing(SubSeq(E, a + 1, a + n)) = is
  <1>1. PICK s : s = SubSeq(E, a + 1, a + n)
    OBVIOUS
  <1>2. ToSet(s) = {t[j] : j \in 1..n}
    BY <1>1, GroupElements
  <1>3. Completing(s) = is
    BY <1>2, GroupNames
  <1> QED BY <1>1, <1>3

-------------------------------------------------------------------------------

\* A call completes requests that have their message, and all of them if it has no choice.
LEMMA OutcomeCompletes ==
  ASSUME NEW c, Len(c.among) \in Nat, NEW is \in SUBSET (1..Len(c.among)), NEW req, NEW ms,
         OutcomeOf(c, req, ms, is)
  PROVE  HaveMessages(c, req, ms, is) /\ (NoChoice(c) => is = 1..Len(c.among))
  <1>1. \A i \in ReadyOf(c, req, ms) :
          /\ i \in 1..Len(c.among)
          /\ req[c.among[i]] \in {"send", "recv"} => ms[c.among[i]] # None
    BY DEF ReadyOf, WithOf
  <1>2. ASSUME NEW i \in is, req[c.among[i]] \in {"send", "recv"} PROVE ms[c.among[i]] # None
    <2>1. CASE is \subseteq ReadyOf(c, req, ms)
      BY <1>1, <1>2, <2>1
    <2>2. CASE ~(is \subseteq ReadyOf(c, req, ms))
      <3>1. ReadyOf(c, req, ms) = WithOf(c, req, {"send", "recv", "ignored"})
        BY <2>2 DEF OutcomeOf
      <3>2. i \in WithOf(c, req, {"send", "recv", "ignored"})
        BY <1>2 DEF WithOf
      <3> QED BY <1>1, <1>2, <3>1, <3>2
    <2> QED BY <2>1, <2>2
  <1>3. ASSUME NoChoice(c) PROVE is = 1..Len(c.among)
    <2>1. c.waits /\ (c.kind = "all" \/ Len(c.among) = 1)
      BY <1>3 DEF NoChoice
    <2>2. CASE c.kind = "all"
      BY <2>1, <2>2 DEF OutcomeOf
    <2>3. CASE c.kind # "all" /\ Len(c.among) = 1
      <3>1. is # {}
        BY <2>1, <2>3 DEF OutcomeOf
      <3>2. 1..Len(c.among) = {1}
        BY <2>3
      <3> QED BY <3>1, <3>2
    <2> QED BY <2>1, <2>2, <2>3
  <1> QED BY <1>2, <1>3 DEF HaveMessages

\* A call that may complete a request ReMPI keeps no account of has no choice.
LEMMA UnaccountedForced ==
  ASSUME NEW P \in Programs, Replayable(P),
         NEW p \in Ranks, NEW k \in DOMAIN P[p], NEW c, c = P[p][k], c.op = "match",
         NEW h, StateRight(P, p, k, h), WithOf(c, h.request, {"ignored"}) # {}
  PROVE  NoChoice(c)
  <1>1. PICK i \in 1..Len(c.among) : h.request[c.among[i]] = "ignored"
    BY DEF WithOf
  <1>2. /\ Len(c.among) \in Nat
        /\ \A x \in 1..Len(c.among) : c.among[x] \in DOMAIN P[p] /\ c.among[x] < k
    BY MatchRefers
  <1>3. PICK j : j = c.among[i]
    OBVIOUS
  <1>4. j \in DOMAIN P[p] /\ Unaccounted(P, p, j)
    BY <1>1, <1>2, <1>3 DEF StateRight
  <1>5. j \in ToSet(c.among)
    <2>1. P[p][k] \in Operations
      BY OpsAreNumbers
    <2>2. c.among \in Seq(Nat)
      BY <2>1 DEF Operations
    <2>3. i \in DOMAIN c.among
      BY <2>2, LenProperties
    <2> QED BY <1>3, <2>3, Zenon DEF ToSet
  <1>6. P[p][j].op = "unsupported" \/ Cancels(P[p], j)
    BY <1>4 DEF Unaccounted
  <1> QED BY <1>5, <1>6 DEF Replayable

\* What a call that is not recorded completes is always the same.
LEMMA PassCompletes ==
  ASSUME NEW P \in Programs, Replayable(P),
         NEW p \in Ranks, NEW k \in DOMAIN P[p], NEW c, c = P[p][k], c.op = "match",
         NEW h, StateRight(P, p, k, h), NEW ms, NEW is, PassedBy(c, h.request, ms, is)
  PROVE  is = WithOf(c, h.request, {"ignored"})
  <1> PICK ig : ig = WithOf(c, h.request, {"ignored"})
    OBVIOUS
  <1>0. /\ is \in SUBSET (1..Len(c.among)) /\ ig \in {{}, 1..Len(c.among)}
        /\ IF ig = {} THEN is = {} ELSE OutcomeOf(c, h.request, ms, is)
    BY DEF PassedBy
  <1>1. CASE ig = {}
    BY <1>0, <1>1
  <1>2. CASE ig # {}
    <2>1. NoChoice(c)
      BY <1>2, UnaccountedForced
    <2>2. Len(c.among) \in Nat
      BY MatchRefers
    <2>3. OutcomeOf(c, h.request, ms, is)
      BY <1>0, <1>2
    <2>4. PICK req : req = h.request
      OBVIOUS
    <2>5. OutcomeOf(c, req, ms, is)
      BY <2>3, <2>4
    <2>6. NoChoice(c) => is = 1..Len(c.among)
      BY <1>0, <2>2, <2>5, OutcomeCompletes
    <2> QED BY <1>0, <1>2, <2>1, <2>6
  <1> QED BY <1>1, <1>2

-------------------------------------------------------------------------------

\* A request that a replayed call finds complete has the message it had.
LEMMA MessageSame ==
  ASSUME NEW P \in Programs, Replayable(P), NEW A, NEW M, MessagesRight(P, M),
         NEW N, MessagesRight(P, N), SameMessages(P, M, N), Progress(P, A, N),
         NEW p \in Ranks, NEW h, StateRight(P, p, A[p], h), NEW j \in DOMAIN P[p], j < A[p],
         h.request[j] = "recv" => N[p][j] # None
  PROVE  h.request[j] = "null" \/ N[p][j] = M[p][j]
  <1>1. \A i \in DOMAIN P[p] : N[p][i] # None => M[p][i] = N[p][i]
    BY DEF SameMessages
  <1>2. h.request[j] \in {"send", "recv"} => N[p][j] # None
    BY DEF StateRight, Progress
  <1>3. PICK k : k = A[p]
    OBVIOUS
  <1>4. StateRight(P, p, k, h) /\ j < k
    BY <1>3
  <1> QED BY <1>1, <1>2, <1>4, MessageStays

\* The call has the outcome of the recorded run.
LEMMA SameFollows ==
  ASSUME NEW P \in Programs, Replayable(P), NEW A, NEW M, MessagesRight(P, M),
         NEW N, MessagesRight(P, N), SameMessages(P, M, N), Progress(P, A, N),
         NEW p \in Ranks, NEW k \in DOMAIN P[p], k = A[p], NEW c, c = P[p][k], c.op = "match",
         NEW h, StateRight(P, p, k, h), NEW is \in SUBSET (1..Len(c.among)),
         \A i \in is : h.request[c.among[i]] = "recv" => N[p][c.among[i]] # None
  PROVE  MatchedSame(c, k, h, M[p], N[p], is)
  <1>1. /\ Len(c.among) \in Nat
        /\ \A x \in 1..Len(c.among) : c.among[x] \in DOMAIN P[p] /\ c.among[x] < k
    BY MatchRefers
  <1>2. PICK L, ms, ns, req : L = Len(c.among) /\ ms = M[p] /\ ns = N[p] /\ req = h.request
    OBVIOUS
  <1>3. ASSUME NEW i \in is
        PROVE  req[c.among[i]] = "null" \/ ms[c.among[i]] = ns[c.among[i]]
    <2>1. PICK j : j = c.among[i]
      OBVIOUS
    <2>2. i \in 1..Len(c.among)
      OBVIOUS
    <2>3. j \in DOMAIN P[p] /\ j < A[p]
      BY <1>1, <2>1, <2>2
    <2>4. h.request[j] = "recv" => N[p][j] # None
      BY <2>1
    <2>5. StateRight(P, p, A[p], h)
      OBVIOUS
    <2>6. h.request[j] = "null" \/ N[p][j] = M[p][j]
      BY <2>3, <2>4, <2>5, MessageSame
    <2> QED BY <1>2, <2>1, <2>6
  <1>4. Agree(c, h.request, ms, ns, is)
    BY <1>2, <1>3 DEF Agree
  <1>5. L \in Nat /\ is \in SUBSET (1..L)
    BY <1>1, <1>2
  <1>6. MatchedSame(c, k, h, ms, ns, is)
    <2>1. \A q : MatchedSame(c, k, h, ms, ns, is) /\ TestsSame(q, c, h.request, ms, ns, is)
      BY <1>4, <1>5, SameMatched
    <2> QED BY <2>1
  <1> QED BY <1>2, <1>6

\* MatchReplay does what the recorded call did.
LEMMA MatchFollows ==
  ASSUME NEW P, NEW A, NEW M, NEW N, NEW p, NEW k, NEW c, NEW h,
         Repeats(P, A, M, N, p, k, c, h), NEW E \in Seq(Events), NEW g,
         KeptMatch(M, p, k, c, h, g, E), ~Unrecorded(c, h.request),
         NEW z, z = EndOfGroup(E, h.events),
         NEW js, js = Completing(SubSeq(E, h.events + 1, z)),
         Awaited(c, h.request, js, N[p])
  PROVE  js \in SUBSET (1..Len(c.among)) /\ g = Matched(c, k, h, N[p], js, z)
  <1> /\ P \in Programs /\ Replayable(P) /\ MessagesRight(P, M) /\ MessagesRight(P, N)
      /\ SameMessages(P, M, N) /\ Progress(P, A, N)
      /\ p \in Ranks /\ k \in DOMAIN P[p] /\ k = A[p] /\ c = P[p][k] /\ c.op = "match"
      /\ StateRight(P, p, k, h)
    BY DEF Repeats
  <1>1. PICK is \in SUBSET (1..Len(c.among)) : KeptMatchOf(M, p, k, c, h, g, E, is)
    BY DEF KeptMatch
  <1>2. PICK L, n, a, ms, t, req :
          /\ L = Len(c.among) /\ n = EventCount(is) /\ a = h.events /\ ms = M[p] /\ req = h.request
          /\ t = TestsOf(p, c, req, ms, is)
    OBVIOUS
  <1>3. EventsOf(c, h.request, is) = n
    BY <1>2 DEF EventsOf
  <1>4. g = Matched(c, k, h, ms, is, a + n) /\ EventsAt(E, a, t, n)
    BY <1>1, <1>2, <1>3 DEF KeptMatchOf, EventsAt
  <1>5. L \in Nat /\ is \in SUBSET (1..L) /\ a \in Nat
    <2>1. Len(c.among) \in Nat
      BY MatchRefers
    <2> QED BY <1>2, <2>1 DEF StateRight
  <1>6. GroupOf(t, is, n)
    <2>1. GroupOf(TestsOf(p, c, req, ms, is), is, EventCount(is))
      BY <1>5, TestsAre
    <2> QED BY <1>2, <2>1
  <1>7. z = a + n
    BY <1>2, <1>4, <1>5, <1>6, GroupEnds
  <1>8. js = is
    <2>1. Completing(SubSeq(E, a + 1, a + n)) = is
      BY <1>4, <1>5, <1>6, GroupCompletes
    <2> QED BY <1>2, <1>7, <2>1
  <1>9. MatchedSame(c, k, h, M[p], N[p], is)
    <2>1. ASSUME NEW i \in is, h.request[c.among[i]] = "recv" PROVE N[p][c.among[i]] # None
      <3>1. i \in WithOf(c, h.request, {"recv"})
        BY <2>1 DEF WithOf
      <3> QED BY <1>8, <3>1 DEF Awaited
    <2> QED BY <2>1, SameFollows
  <1>10. g = Matched(c, k, h, N[p], is, z)
    BY <1>2, <1>4, <1>7, <1>9 DEF MatchedSame
  <1> QED BY <1>8, <1>10

\* So does a call that is not recorded.
LEMMA PassFollows ==
  ASSUME NEW P, NEW A, NEW M, NEW N, NEW p, NEW k, NEW c, NEW h,
         Repeats(P, A, M, N, p, k, c, h), NEW E, NEW g,
         KeptMatch(M, p, k, c, h, g, E), Unrecorded(c, h.request),
         NEW js, js = WithOf(c, h.request, {"ignored"})
  PROVE  g = Matched(c, k, h, N[p], js, h.events)
  <1> /\ P \in Programs /\ Replayable(P) /\ MessagesRight(P, M) /\ MessagesRight(P, N)
      /\ SameMessages(P, M, N) /\ Progress(P, A, N)
      /\ p \in Ranks /\ k \in DOMAIN P[p] /\ k = A[p] /\ c = P[p][k] /\ c.op = "match"
      /\ StateRight(P, p, k, h)
    BY DEF Repeats
  <1>1. PICK is \in SUBSET (1..Len(c.among)) : KeptMatchOf(M, p, k, c, h, g, E, is)
    BY DEF KeptMatch
  <1>2. EventsOf(c, h.request, is) = 0
    BY DEF EventsOf
  <1>3. is = js
    BY <1>1 DEF KeptMatchOf
  <1>4. g = Matched(c, k, h, M[p], is, h.events)
    <2>1. h.events + 0 = h.events
      BY DEF StateRight
    <2> QED BY <1>1, <1>2, <2>1 DEF KeptMatchOf
  <1>5. MatchedSame(c, k, h, M[p], N[p], is)
    <2>1. \A i \in is : h.request[c.among[i]] = "recv" => N[p][c.among[i]] # None
      BY <1>3 DEF WithOf
    <2> QED BY <2>1, SameFollows
  <1> QED BY <1>3, <1>4, <1>5 DEF MatchedSame

-------------------------------------------------------------------------------

\* Each entry of a history of the first K operations is right.
LEMMA KeptHistory ==
  ASSUME NEW P, NEW M, NEW T, NEW when, NEW p, NEW H, NEW K, NEW E,
         HistoryRight(P, M, T, when, p, H, K, E), NEW k \in 1..K
  PROVE  KeptAt(P, M, T, when, p, H, K, E, k)
  BY DEF HistoryRight, KeptAt

\* A receive that the process waits for, and never cancels, is complete at its end.
LEMMA WaitedNull ==
  ASSUME NEW P \in Programs, NEW p \in Ranks, NEW M, NEW T, NEW when, NEW H, NEW E, NEW K,
         K = Len(P[p]) + 1, HistoryRight(P, M, T, when, p, H, K, E),
         NEW j \in DOMAIN P[p], IsRecv(P, p, j), WaitsFor(P[p], j), ~Cancels(P[p], j)
  PROVE  NullAt(H, K, j)
  <1>1. PICK n \in DOMAIN P[p] : /\ P[p][n].op = "match" /\ j \in ToSet(P[p][n].among)
                                 /\ NoChoice(P[p][n])
    BY DEF WaitsFor
  <1>2. PICK c, h, g : c = P[p][n] /\ h = H[n] /\ g = H[n + 1]
    OBVIOUS
  <1>3. /\ Len(c.among) \in Nat
        /\ \A x \in 1..Len(c.among) : c.among[x] \in DOMAIN P[p] /\ c.among[x] < n
    BY <1>1, <1>2, MatchRefers
  <1>4. PICK i \in 1..Len(c.among) : c.among[i] = j
    <2>1. P[p][n] \in Operations
      BY OpsAreNumbers
    <2>2. c.among \in Seq(Nat)
      BY <1>1, <1>2, <2>1 DEF Operations
    <2>3. PICK i \in DOMAIN c.among : c.among[i] = j
      BY <1>1, <1>2, Zenon DEF ToSet
    <2> QED BY <2>2, <2>3, LenProperties
  <1>5. /\ Len(P[p]) \in Nat /\ n \in 1..Len(P[p]) /\ n \in 1..K /\ n + 1 \in 1..K /\ n < K
    <2>1. Len(P[p]) \in Nat /\ DOMAIN P[p] = 1..Len(P[p])
      BY OpsAreNumbers
    <2> QED BY <2>1
  <1>6. KeptAt(P, M, T, when, p, H, K, E, n)
    BY <1>5, KeptHistory
  <1>7. KeptAt(P, M, T, when, p, H, K, E, n + 1)
    <2>1. PICK q : q = n + 1
      OBVIOUS
    <2>2. q \in 1..K
      BY <1>5, <2>1
    <2>3. KeptAt(P, M, T, when, p, H, K, E, q)
      BY <2>2, KeptHistory
    <2> QED BY <2>1, <2>3
  <1>8. h.request[j] = "null" \/ g.request[j] = "null" => NullAt(H, K, j)
    BY <1>2, <1>6, <1>7 DEF KeptAt, NullAt
  <1>9. StateRight(P, p, n, h) /\ Kept(P, M, T, when, p, n, h, g, E)
    BY <1>2, <1>5, <1>6 DEF KeptAt
  <1>10. h.request[j] \in {"recv", "null"}
    <2>1. j < n
      BY <1>3, <1>4
    <2>2. /\ h.request[j] # "none" /\ h.request[j] # "send" /\ h.request[j] \in RequestStates
          /\ (h.request[j] = "ignored" => Unaccounted(P, p, j))
      BY <1>9, <2>1 DEF StateRight, IsSend, IsRecv
    <2>3. ~Unaccounted(P, p, j)
      BY DEF Unaccounted, IsRecv
    <2> QED BY <2>2, <2>3 DEF RequestStates
  <1>11. ASSUME h.request[j] = "recv" PROVE g.request[j] = "null"
    <2>1. PICK is \in SUBSET (1..Len(c.among)) : KeptMatchOf(M, p, n, c, h, g, E, is)
      BY <1>1, <1>2, <1>9 DEF Kept, KeptMatch
    <2>2. ~Unrecorded(c, h.request)
      BY <1>4, <1>11 DEF Unrecorded, WithOf
    <2>3. is = 1..Len(c.among)
      BY <1>1, <1>2, <2>1, <2>2 DEF KeptMatchOf
    <2>4. PICK m : g = Matched(c, n, h, M[p], is, m)
      BY <2>1 DEF KeptMatchOf
    <2>5. g.request = NulledBy(c, h.request, is)
      BY <2>4 DEF Matched, St
    <2>6. DOMAIN h.request = DOMAIN P[p]
      BY <1>9 DEF StateRight
    <2>7. i \in is
      BY <1>4, <2>3
    <2> QED BY <1>4, <2>5, <2>6, <2>7 DEF NulledBy
  <1> QED BY <1>8, <1>10, <1>11

\* The record of a receive that gets a message has its source.
LEMMA SourcesRecorded ==
  ASSUME NEW P \in Programs, Replayable(P), NEW p \in Ranks, NEW M, NEW T, NEW when, NEW H,
         NEW E, NEW K, K = Len(P[p]) + 1, HistoryRight(P, M, T, when, p, H, K, E)
  PROVE  SourcesKnown(P, M, p, H, E)
  <1> SUFFICES ASSUME NEW k \in DOMAIN P[p], IsRecv(P, p, k), ~NoSender(P, p, k)
               PROVE  M[p][k] # None /\ E[H[k].events + 1].rank = M[p][k].from
    BY DEF SourcesKnown
  <1>1. WaitsFor(P[p], k) /\ ~Cancels(P[p], k)
    BY DEF Replayable, IsRecv
  <1>2. NullAt(H, K, k)
    BY <1>1, WaitedNull
  <1>3. k \in 1..K /\ k < K
    <2>1. Len(P[p]) \in Nat /\ DOMAIN P[p] = 1..Len(P[p])
      BY OpsAreNumbers
    <2> QED BY <2>1
  <1>4. KeptAt(P, M, T, when, p, H, K, E, k)
    BY <1>3, KeptHistory
  <1>5. KeptRecv(k, H[k], H[k + 1], E)
    BY <1>3, <1>4 DEF KeptAt, Kept, IsRecv
  <1>6. PICK n : n = H[k].events + 1
    OBVIOUS
  <1>7. n \in DOMAIN E /\ E[n].kind = "recv" /\ E[n].k = k
    BY <1>5, <1>6 DEF KeptRecv
  <1>8. RanksRight(P, M, p, H[K].request, E)
    BY DEF HistoryRight
  <1>9. M[p][k] # None /\ E[n].rank = M[p][k].from
    BY <1>1, <1>2, <1>7, <1>8 DEF RanksRight, NullAt
  <1> QED BY <1>6, <1>9

\* At its end the history of the recorded run is one to replay.
LEMMA HistoryEnds ==
  ASSUME NEW P, NEW p, NEW M, NEW T, NEW H, NEW E, NEW K,
         HistoryRight(P, M, T, "record", p, H, K, E)
  PROVE  HistoryRight(P, M, <<>>, "replay", p, H, K, E)
  <1>1. ASSUME NEW k, NEW h, NEW g, Kept(P, M, T, "record", p, k, h, g, E)
        PROVE  Kept(P, M, <<>>, "replay", p, k, h, g, E)
    <2>1. ASSUME KeptProbe(P, M, T, "record", p, k, h, g, E)
          PROVE  KeptProbe(P, M, <<>>, "replay", p, k, h, g, E)
      <3>1. "replay" # "record"
        OBVIOUS
      <3> QED BY <2>1, <3>1 DEF KeptProbe
    <2> QED BY <1>1, <2>1 DEF Kept
  <1>2. ASSUME NEW k \in 1..K
        PROVE  KeptAt(P, M, <<>>, "replay", p, H, K, E, k)
    <2>1. KeptAt(P, M, T, "record", p, H, K, E, k)
      BY KeptHistory
    <2> QED BY <1>1, <2>1 DEF KeptAt
  <1>3. /\ DOMAIN H = 1..(Len(P[p]) + 1)
        /\ H[1] = St([k \in DOMAIN P[p] |-> "none"], None, <<>>, 0)
        /\ RanksRight(P, M, p, H[K].request, E) /\ E \in Seq(Events)
    BY DEF HistoryRight
  <1> QED BY <1>2, <1>3 DEF HistoryRight, KeptAt

-------------------------------------------------------------------------------

\* A step of the recorded run adds to the history.
LEMMA RecordStep ==
  ASSUME NEW P \in Programs, Replayable(P), NEW A, NEW M, MessagesRight(P, M), NEW T,
         NEW N, MessagesRight(P, N), NEW V, GrowsTo(P, A, M, T, N, V), Progress(P, A, M),
         NEW H, NEW E, NEW req, NEW last, NEW what, RecordingOf(P, A, M, T, H, E, req, last, what),
         NEW p \in Ranks, A[p] \in DOMAIN P[p], NEW B, B = Next1(A, p),
         NEW G, NEW F, NEW req1, NEW last1, NEW what1,
         OthersSame(H, G, p), OthersSame(E, F, p), OthersSame(req, req1, p),
         OthersSame(last, last1, p), OthersSame(what, what1, p),
         NEW h, h = St(req[p], last[p], what[p], Len(E[p])),
         NEW g, g = St(req1[p], last1[p], what1[p], Len(F[p])),
         Moves(P, N, V, p, A[p], h, g, E[p], F[p]), EntrySet(H, G, p, A[p] + 1, g)
  PROVE  RecordingOf(P, B, N, V, G, F, req1, last1, what1)
  <1>1. /\ B[p] = A[p] + 1 /\ \A q \in Ranks : q # p => B[q] = A[q]
    BY DEF Progress, Next1
  <1> SUFFICES ASSUME NEW q \in Ranks
               PROVE  RecordingAt(P, N, V, q, G[q], B[q], F[q],
                                  St(req1[q], last1[q], what1[q], Len(F[q])))
    BY DEF RecordingOf
  <1>2. RecordingAt(P, M, T, q, H[q], A[q], E[q], St(req[q], last[q], what[q], Len(E[q])))
    BY DEF RecordingOf
  <1>3. CASE q = p
    <2>1. PICK Hp, Gp, Ep, Fp : Hp = H[p] /\ Gp = G[p] /\ Ep = E[p] /\ Fp = F[p]
      OBVIOUS
    <2>2. RecordingAt(P, M, T, p, Hp, A[p], Ep, h)
      BY <1>2, <1>3, <2>1
    <2>3. Moves(P, N, V, p, A[p], h, g, Ep, Fp)
      BY <2>1
    <2>4. Gp = [Hp EXCEPT ![A[p] + 1] = g]
      BY <2>1 DEF EntrySet
    <2>5. RecordingAt(P, N, V, p, Gp, A[p] + 1, Fp, g)
      BY <2>2, <2>3, <2>4, HistoryStep
    <2> QED BY <1>1, <1>3, <2>1, <2>5
  <1>4. CASE q # p
    <2>1. PICK Hq, Eq, h1 : Hq = H[q] /\ Eq = E[q] /\ h1 = St(req[q], last[q], what[q], Len(E[q]))
      OBVIOUS
    <2>2. RecordingAt(P, M, T, q, Hq, A[q], Eq, h1)
      BY <1>2, <2>1
    <2>3. RecordingAt(P, N, V, q, Hq, A[q], Eq, h1)
      BY <2>2, HistoryGrows
    <2>4. G[q] = Hq /\ F[q] = Eq /\ req1[q] = req[q] /\ last1[q] = last[q] /\ what1[q] = what[q]
          /\ B[q] = A[q]
      BY <1>1, <1>4, <2>1 DEF OthersSame
    <2>5. St(req1[q], last1[q], what1[q], Len(F[q])) = h1
      BY <2>1, <2>4
    <2> QED BY <2>3, <2>4, <2>5
  <1> QED BY <1>3, <1>4

\* A delivery leaves the histories alone.
LEMMA RecordDelivery ==
  ASSUME NEW P \in Programs, Replayable(P), NEW A, NEW M, MessagesRight(P, M), NEW T,
         NEW N, MessagesRight(P, N), NEW V, GrowsTo(P, A, M, T, N, V), Progress(P, A, M),
         NEW H, NEW E, NEW req, NEW last, NEW what, RecordingOf(P, A, M, T, H, E, req, last, what)
  PROVE  RecordingOf(P, A, N, V, H, E, req, last, what)
  <1> SUFFICES ASSUME NEW q \in Ranks
               PROVE  RecordingAt(P, N, V, q, H[q], A[q], E[q],
                                  St(req[q], last[q], what[q], Len(E[q])))
    BY DEF RecordingOf
  <1>1. PICK Hq, Eq, h1 : Hq = H[q] /\ Eq = E[q] /\ h1 = St(req[q], last[q], what[q], Len(E[q]))
    OBVIOUS
  <1>2. RecordingAt(P, M, T, q, Hq, A[q], Eq, h1)
    BY <1>1 DEF RecordingOf
  <1>3. RecordingAt(P, N, V, q, Hq, A[q], Eq, h1)
    BY <1>2, HistoryGrows
  <1> QED BY <1>1, <1>3

\* Only the entries of a history matter.
LEMMA SameHistory ==
  ASSUME NEW P, NEW M, NEW T, NEW when, NEW p, NEW H, NEW K \in Nat, NEW E,
         HistoryRight(P, M, T, when, p, H, K, E), K \in 1..(Len(P[p]) + 1),
         NEW G, DOMAIN G = DOMAIN H, \A k \in 1..K : G[k] = H[k]
  PROVE  HistoryRight(P, M, T, when, p, G, K, E)
  <1>1. ASSUME NEW k \in 1..K PROVE KeptAt(P, M, T, when, p, G, K, E, k)
    <2>1. KeptAt(P, M, T, when, p, H, K, E, k)
      BY KeptHistory
    <2>2. k < K => k + 1 \in 1..K
      OBVIOUS
    <2>3. G[k] = H[k] /\ G[K] = H[K] /\ (k < K => G[k + 1] = H[k + 1])
      BY <2>2
    <2> QED BY <2>1, <2>3 DEF KeptAt
  <1>2. /\ DOMAIN H = 1..(Len(P[p]) + 1)
        /\ H[1] = St([k \in DOMAIN P[p] |-> "none"], None, <<>>, 0)
        /\ RanksRight(P, M, p, H[K].request, E) /\ E \in Seq(Events)
    BY DEF HistoryRight
  <1>3. 1 \in 1..K /\ G[1] = H[1] /\ G[K] = H[K]
    OBVIOUS
  <1> QED BY <1>1, <1>2, <1>3 DEF HistoryRight, KeptAt

\* A process that stops is where it was.
LEMMA RecordStop ==
  ASSUME NEW P \in Programs, NEW A, NEW N, Progress(P, A, N), NEW M, NEW T, NEW H, NEW E,
         NEW req, NEW last, NEW what,
         RecordingOf(P, A, M, T, H, E, req, last, what), NEW p \in Ranks,
         NEW G, OthersSame(H, G, p), EntrySet(H, G, p, A[p], H[p][A[p]])
  PROVE  RecordingOf(P, A, M, T, G, E, req, last, what)
  <1> SUFFICES ASSUME NEW q \in Ranks
               PROVE  RecordingAt(P, M, T, q, G[q], A[q], E[q],
                                  St(req[q], last[q], what[q], Len(E[q])))
    BY DEF RecordingOf
  <1>1. PICK h : h = St(req[q], last[q], what[q], Len(E[q]))
    OBVIOUS
  <1>2. RecordingAt(P, M, T, q, H[q], A[q], E[q], h)
    BY <1>1 DEF RecordingOf
  <1>3. CASE q = p
    <2>1. PICK Hp, Gp, K : Hp = H[p] /\ Gp = G[p] /\ K = A[p]
      OBVIOUS
    <2>2. K \in Nat /\ K \in 1..(Len(P[p]) + 1)
      BY <2>1 DEF Progress
    <2>3. HistoryRight(P, M, T, "record", p, Hp, K, E[p]) /\ Hp[K] = h /\ h.events = Len(E[p])
      BY <1>2, <1>3, <2>1 DEF RecordingAt
    <2>4. Gp = [Hp EXCEPT ![K] = Hp[K]]
      BY <2>1 DEF EntrySet
    <2>5. DOMAIN Hp = 1..(Len(P[p]) + 1)
      BY <2>3 DEF HistoryRight
    <2>6. Len(P[p]) \in Nat
      BY OpsAreNumbers
    <2>7. DOMAIN Gp = DOMAIN Hp /\ \A k \in 1..K : Gp[k] = Hp[k]
      BY <2>2, <2>4, <2>5, <2>6
    <2>8. HistoryRight(P, M, T, "record", p, Gp, K, E[p])
      BY <2>2, <2>3, <2>7, SameHistory
    <2>9. Gp[K] = h
      BY <2>2, <2>3, <2>7
    <2> QED BY <1>1, <1>3, <2>1, <2>3, <2>8, <2>9 DEF RecordingAt
  <1>4. CASE q # p
    BY <1>1, <1>2, <1>4 DEF OthersSame
  <1> QED BY <1>3, <1>4

\* A step of the replay goes to the next entry of the history.
LEMMA ReplayStep ==
  ASSUME NEW P \in Programs, NEW A \in [Ranks -> Nat], NEW M, NEW H, NEW E, NEW rec,
         NEW req, NEW last, NEW what, NEW n, ReplayingOf(P, A, M, H, E, rec, req, last, what, n),
         NEW p \in Ranks, NEW B, B = Next1(A, p),
         NEW req1, NEW last1, NEW what1, NEW n1,
         OthersSame(req, req1, p), OthersSame(last, last1, p), OthersSame(what, what1, p),
         OthersSame(n, n1, p),
         NEW g, g = St(req1[p], last1[p], what1[p], n1[p]), H[p][A[p] + 1] = g
  PROVE  ReplayingOf(P, B, M, H, E, rec, req1, last1, what1, n1)
  <1>1. B[p] = A[p] + 1 /\ \A q \in Ranks : q # p => B[q] = A[q]
    BY DEF Next1
  <1> SUFFICES ASSUME NEW q \in Ranks
               PROVE  ReplayingAt(P, M, q, H[q], E[q], rec[q], B[q],
                                  St(req1[q], last1[q], what1[q], n1[q]))
    BY DEF ReplayingOf
  <1>2. ReplayingAt(P, M, q, H[q], E[q], rec[q], A[q], St(req[q], last[q], what[q], n[q]))
    BY DEF ReplayingOf
  <1>3. CASE q = p
    BY <1>1, <1>2, <1>3 DEF ReplayingAt
  <1>4. CASE q # p
    BY <1>1, <1>2, <1>4 DEF OthersSame
  <1> QED BY <1>3, <1>4

-------------------------------------------------------------------------------

\* Nothing has been sent when a run starts.
LEMMA StartChannels ==
  ASSUME NEW P \in Programs, NEW A, A = [p \in Ranks |-> 1],
         NEW M, M = [p \in Ranks |-> [k \in DOMAIN P[p] |-> None]],
         NEW T, T = [channel \in Ranks \X Ranks |-> <<>>],
         NEW U, U = [p \in Ranks |-> <<>>], NEW Q, Q = [p \in Ranks |-> <<>>]
  PROVE  Channels(P, A, M, T, U, Q)
  <1>1. \A p \in Ranks : \A k \in DOMAIN P[p] : M[p][k] = None
    OBVIOUS
  <1>2. \A d, k : ~(d \in Ranks /\ Has(P, M, d, k))
    BY <1>1 DEF Has, IsRecv
  <1>3. \A x, s, d : ~(s \in Ranks /\ Sent(P, M, x, s, d))
    BY <1>1, MpiAssumption DEF Sent, IsSend
  <1>4. \A s, d \in Ranks : T[<<s, d>>] = <<>>
    <2> SUFFICES ASSUME NEW s \in Ranks, NEW d \in Ranks PROVE T[<<s, d>>] = <<>>
      OBVIOUS
    <2>1. <<s, d>> \in Ranks \X Ranks
      OBVIOUS
    <2> QED BY <2>1
  <1>5. ToSet(<<>>) = {} /\ <<>> \in Seq(Sendable) /\ <<>> \in Seq(Waiting)
        /\ DOMAIN <<>> = {}
    BY DEF ToSet
  <1>6. Tables(P, M)
    BY DEF Tables
  <1>7. MessagesRight(P, M)
    BY <1>1, <1>2, <1>6 DEF MessagesRight, SendsOwn, ReceivesSent, ReceivedOnce, InTurn
  <1>8. TravellingRight(P, M, T)
    BY <1>4, <1>5 DEF TravellingRight, ByNumber
  <1>9. UnexpectedRight(P, M, T, U)
    BY <1>5 DEF UnexpectedRight, BySource
  <1>10. ReceivedArrived(P, M, T, U) /\ NoneLost(P, M, T, U)
    BY <1>2, <1>3 DEF ReceivedArrived, NoneLost
  <1>11. PostedRight(P, A, M, U, Q)
    BY <1>5 DEF PostedRight, ByRequest
  <1>12. \A p \in Ranks : /\ Len(P[p]) \in Nat
                          /\ \A k \in DOMAIN P[p] : k \in Nat /\ k >= 1
    BY OpsAreNumbers
  <1>13. OpenPosted(P, A, M, Q)
    BY <1>12 DEF OpenPosted, IsRecv
  <1>14. Progress(P, A, M)
    BY <1>1, <1>12 DEF Progress
  <1> QED BY <1>7, <1>8, <1>9, <1>10, <1>11, <1>13, <1>14 DEF Channels, Pipes

\* A process that starts.
LEMMA StartState ==
  ASSUME NEW P \in Programs, NEW p \in Ranks,
         NEW h, h = St([k \in DOMAIN P[p] |-> "none"], None, <<>>, 0)
  PROVE  StateRight(P, p, 1, h)
  <1>1. h.request = [k \in DOMAIN P[p] |-> "none"] /\ h.lastSource = None /\ h.seen = <<>>
        /\ h.events = 0 /\ h = St(h.request, h.lastSource, h.seen, h.events)
    BY DEF St
  <1>2. h.request \in [DOMAIN P[p] -> RequestStates]
    BY <1>1 DEF RequestStates
  <1>3. IsSeq(h.seen)
    <2>1. <<>> \in Seq(ToSet(<<>>))
      OBVIOUS
    <2>2. IsSeq(<<>>)
      BY <2>1 DEF IsSeq
    <2> QED BY <1>1, <2>2
  <1>4. \A j \in DOMAIN P[p] : h.request[j] = "none" /\ ~(j < 1)
    BY <1>1, OpsAreNumbers
  <1> QED BY <1>1, <1>2, <1>3, <1>4 DEF StateRight

\* Its history.
LEMMA StartHistory ==
  ASSUME NEW P \in Programs, NEW M, NEW T, NEW p \in Ranks,
         NEW h, h = St([k \in DOMAIN P[p] |-> "none"], None, <<>>, 0),
         NEW H, H = [k \in 1..(Len(P[p]) + 1) |-> h]
  PROVE  RecordingAt(P, M, T, p, H, 1, <<>>, h)
  <1>1. StateRight(P, p, 1, h)
    BY StartState
  <1>2. 1 \in 1..(Len(P[p]) + 1)
    <2>1. Len(P[p]) \in Nat
      BY OpsAreNumbers
    <2> QED BY <2>1
  <1>3. H[1] = h /\ DOMAIN H = 1..(Len(P[p]) + 1)
    BY <1>2
  <1>4. PrefixOf(h.seen, h.seen)
    <2>1. PICK s : s = h.seen
      OBVIOUS
    <2>2. IsSeq(s)
      BY <1>1, <2>1 DEF StateRight
    <2> QED BY <2>1, <2>2, PrefixOfItself
  <1>5. \A k \in 1..1 : k = 1 /\ ~(k < 1)
    OBVIOUS
  <1>6. <<>> \in Seq(Events) /\ DOMAIN <<>> = {} /\ Len(<<>>) = 0
    OBVIOUS
  <1>7. RanksRight(P, M, p, H[1].request, <<>>)
    BY <1>6 DEF RanksRight
  <1>8. HistoryRight(P, M, T, "record", p, H, 1, <<>>)
    BY <1>1, <1>3, <1>4, <1>5, <1>6, <1>7 DEF HistoryRight
  <1>9. h.events = Len(<<>>)
    BY <1>6 DEF St
  <1> QED BY <1>3, <1>8, <1>9 DEF RecordingAt

\* The second run starts where the history starts.
LEMMA ReplayStarts ==
  ASSUME NEW P \in Programs, Replayable(P), NEW A, NEW N, Progress(P, A, N), NEW M, NEW T,
         NEW H, NEW E, NEW req, NEW last, NEW what, RecordingOf(P, A, M, T, H, E, req, last, what),
         \A p \in Ranks : A[p] \notin DOMAIN P[p],
         NEW B, B = [p \in Ranks |-> 1], NEW last1, last1 = [p \in Ranks |-> None],
         NEW what1, what1 = [p \in Ranks |-> <<>>], NEW n1, n1 = [p \in Ranks |-> 0],
         NEW req1, req1 = [p \in Ranks |-> [k \in DOMAIN P[p] |-> "none"]]
  PROVE  ReplayingOf(P, B, M, H, E, what, req1, last1, what1, n1)
  <1> SUFFICES ASSUME NEW p \in Ranks
               PROVE  ReplayingAt(P, M, p, H[p], E[p], what[p], B[p],
                                  St(req1[p], last1[p], what1[p], n1[p]))
    BY DEF ReplayingOf
  <1>1. PICK Hp, Ep, K, h : /\ Hp = H[p] /\ Ep = E[p] /\ K = A[p]
                            /\ h = St(req[p], last[p], what[p], Len(E[p]))
    OBVIOUS
  <1>2. K = Len(P[p]) + 1
    <2>1. DOMAIN P[p] = 1..Len(P[p]) /\ Len(P[p]) \in Nat
      BY OpsAreNumbers
    <2>2. K \in 1..(Len(P[p]) + 1) /\ K \notin 1..Len(P[p])
      BY <1>1, <2>1 DEF Progress
    <2> QED BY <2>1, <2>2
  <1>3. RecordingAt(P, M, T, p, Hp, K, Ep, h)
    BY <1>1 DEF RecordingOf
  <1>4. HistoryRight(P, M, T, "record", p, Hp, K, Ep) /\ Hp[K] = h
    BY <1>3 DEF RecordingAt
  <1>5. HistoryRight(P, M, <<>>, "replay", p, Hp, K, Ep)
    BY <1>4, HistoryEnds
  <1>6. SourcesKnown(P, M, p, Hp, Ep)
    BY <1>2, <1>4, SourcesRecorded
  <1>7. what[p] = Hp[K].seen
    BY <1>1, <1>4 DEF St
  <1>8. Hp[1] = St([k \in DOMAIN P[p] |-> "none"], None, <<>>, 0)
    BY <1>4 DEF HistoryRight
  <1>9. St(req1[p], last1[p], what1[p], n1[p]) = St([k \in DOMAIN P[p] |-> "none"], None, <<>>, 0)
    OBVIOUS
  <1> QED BY <1>1, <1>2, <1>5, <1>6, <1>7, <1>8, <1>9 DEF ReplayingAt

-------------------------------------------------------------------------------

\* What holds in the state from which process p takes its next step.
LEMMA RightBefore ==
  ASSUME Inv, NEW p \in Ranks, at[p] \in Ops(p)
  PROVE  Right(p)
  BY DEF Inv, Right, Chans, Channels, Pipes, MessagesRight, Ops

\* In the recorded run its own state, and its record, are right too.
LEMMA RecRightBefore ==
  ASSUME Inv, NEW p \in Ranks, at[p] \in Ops(p), mode = "record"
  PROVE  RecRight(p)
  <1>1. Right(p)
    BY RightBefore
  <1>2. RecordingAt(Program, msg, travelling, p, history[p], at[p], events[p], RecState(p))
    BY DEF Inv, Recording, RecordingOf, RecState
  <1>3. HistoryRight(Program, msg, travelling, "record", p, history[p], at[p], events[p])
        /\ history[p][at[p]] = RecState(p) /\ RecState(p).events = Len(events[p])
    BY <1>2 DEF RecordingAt
  <1>4. PICK K, H, P : K = at[p] /\ H = history[p] /\ P = Program
    OBVIOUS
  <1>5. K \in 1..K
    BY <1>1, <1>4 DEF Right, Progress
  <1>6. HistoryRight(P, msg, travelling, "record", p, H, K, events[p])
    BY <1>3, <1>4
  <1>7. KeptAt(P, msg, travelling, "record", p, H, K, events[p], K)
    BY <1>5, <1>6, KeptHistory
  <1>8. StateRight(P, p, K, H[K])
    BY <1>7 DEF KeptAt
  <1>9. events[p] \in Seq(Events) /\ RanksRight(P, msg, p, H[K].request, events[p])
    BY <1>6 DEF HistoryRight
  <1> QED BY <1>1, <1>3, <1>4, <1>8, <1>9 DEF RecRight

\* In the replay its state is the one the history has at this point.
LEMMA RepRightBefore ==
  ASSUME Inv, NEW p \in Ranks, at[p] \in Ops(p), mode = "replay"
  PROVE  RepRight(p)
  <1>1. Right(p)
    BY RightBefore
  <1>2. /\ MessagesRight(Program, recMsg) /\ SameMessages(Program, recMsg, msg)
        /\ PostedSources(Program, recMsg, posted)
        /\ ReplayingAt(Program, recMsg, p, history[p], events[p], recSeen[p], at[p], RepState(p))
    BY DEF Inv, Replaying, ReplayingOf, RepState
  <1>3. PICK K, H, P, k : K = Len(Program[p]) + 1 /\ H = history[p] /\ P = Program /\ k = at[p]
    OBVIOUS
  <1>4. /\ HistoryRight(P, recMsg, <<>>, "replay", p, H, K, events[p])
        /\ SourcesKnown(P, recMsg, p, H, events[p]) /\ H[k] = RepState(p)
    BY <1>2, <1>3 DEF ReplayingAt
  <1>5. k \in 1..K /\ k < K
    <2>1. P \in Programs /\ k \in DOMAIN P[p]
      BY <1>1, <1>3 DEF Right
    <2>2. DOMAIN P[p] = 1..Len(P[p]) /\ Len(P[p]) \in Nat
      BY <2>1, OpsAreNumbers
    <2> QED BY <1>3, <2>1, <2>2
  <1>6. KeptAt(P, recMsg, <<>>, "replay", p, H, K, events[p], k)
    BY <1>4, <1>5, KeptHistory
  <1>7. StateRight(P, p, k, H[k])
        /\ Kept(P, recMsg, <<>>, "replay", p, k, H[k], H[k + 1], events[p])
    BY <1>5, <1>6 DEF KeptAt
  <1>8. events[p] \in Seq(Events)
    BY <1>4 DEF HistoryRight
  <1> QED BY <1>1, <1>2, <1>3, <1>4, <1>7, <1>8 DEF RepRight

\* A step of the recorded run that moves its process along keeps the invariant.
LEMMA RecordedStep ==
  ASSUME AllReplayable, Inv, mode = "record", NEW p \in Ranks, at[p] \in Ops(p),
         UNCHANGED <<Program, mode>>, at' = Next1(at, p), Frames', Chans', Others(p),
         OthersSame(events, events', p), history' = [history EXCEPT ![p][at'[p]] = Now(p)'],
         GrowsTo(Program, at, msg, travelling, msg', travelling'),
         Moves(Program, msg', travelling', p, at[p], RecState(p), RecState(p)', events[p],
               events'[p])
  PROVE  Inv'
  <1>1. Right(p)
    BY RightBefore
  <1>2. PICK P, A, M, T, H, E, req, last, what :
          /\ P = Program /\ A = at /\ M = msg /\ T = travelling /\ H = history /\ E = events
          /\ req = request /\ last = lastSource /\ what = seen
    OBVIOUS
  <1>3. PICK B, N, V, G, F, req1, last1, what1, h, g :
          /\ B = at' /\ N = msg' /\ V = travelling' /\ G = history' /\ F = events'
          /\ req1 = request' /\ last1 = lastSource' /\ what1 = seen'
          /\ h = RecState(p) /\ g = RecState(p)'
    OBVIOUS
  <1>4. P \in Programs /\ Replayable(P) /\ A[p] \in DOMAIN P[p] /\ MessagesRight(P, M)
        /\ Progress(P, A, M)
    BY <1>1, <1>2 DEF Right, AllReplayable
  <1>5. MessagesRight(P, N)
    BY <1>2, <1>3 DEF Chans, Channels, Pipes
  <1>6. GrowsTo(P, A, M, T, N, V) /\ B = Next1(A, p)
    BY <1>2, <1>3
  <1>7. RecordingOf(P, A, M, T, H, E, req, last, what)
    BY <1>2 DEF Inv, Recording
  <1>8. /\ OthersSame(E, F, p) /\ OthersSame(req, req1, p)
        /\ OthersSame(last, last1, p) /\ OthersSame(what, what1, p)
    BY <1>2, <1>3 DEF Others
  <1>9. /\ h = St(req[p], last[p], what[p], Len(E[p]))
        /\ g = St(req1[p], last1[p], what1[p], Len(F[p]))
    BY <1>2, <1>3 DEF RecState
  <1>10. Moves(P, N, V, p, A[p], h, g, E[p], F[p])
    BY <1>2, <1>3
  <1>11. G = [H EXCEPT ![p][A[p] + 1] = g] /\ DOMAIN H = Ranks
    <2>1. at'[p] = A[p] + 1
      BY <1>2, <1>4 DEF Next1, Progress
    <2>2. Now(p)' = g
      BY <1>3 DEF Now, RecState, St
    <2> QED BY <1>1, <1>2, <1>3, <2>1, <2>2 DEF Right, Frames
  <1>12. OthersSame(H, G, p) /\ EntrySet(H, G, p, A[p] + 1, g)
    BY <1>11 DEF OthersSame, EntrySet
  <1>13. RecordingOf(P, B, N, V, G, F, req1, last1, what1)
    BY <1>4, <1>5, <1>6, <1>7, <1>8, <1>9, <1>10, <1>12, RecordStep
  <1>14. Recording'
    BY <1>2, <1>3, <1>13 DEF Recording
  <1>15. Replaying'
    BY DEF Replaying
  <1> QED BY <1>2, <1>4, <1>14, <1>15 DEF Inv

\* A step of the replay that does what the history says keeps it, too.
LEMMA ReplayedStep ==
  ASSUME Inv, mode = "replay", NEW p \in Ranks, at[p] \in Ops(p),
         UNCHANGED <<Program, mode, recSeen, recMsg, history, events>>, at' = Next1(at, p),
         Frames', Chans', Others(p), OthersSame(pos, pos', p),
         SameMessages(Program, recMsg, msg'), PostedSources(Program, recMsg, posted'),
         history[p][at[p] + 1] = RepState(p)'
  PROVE  Inv'
  <1>1. Right(p)
    BY RightBefore
  <1>2. PICK P, A, M, H, E, rec, req, last, what, n :
          /\ P = Program /\ A = at /\ M = recMsg /\ H = history /\ E = events /\ rec = recSeen
          /\ req = request /\ last = lastSource /\ what = seen /\ n = pos
    OBVIOUS
  <1>3. PICK B, req1, last1, what1, n1, g :
          /\ B = at' /\ req1 = request' /\ last1 = lastSource' /\ what1 = seen' /\ n1 = pos'
          /\ g = RepState(p)'
    OBVIOUS
  <1>4. P \in Programs /\ A \in [Ranks -> Nat] /\ B = Next1(A, p)
    BY <1>1, <1>2, <1>3 DEF Right, Progress
  <1>5. ReplayingOf(P, A, M, H, E, rec, req, last, what, n)
    BY <1>2 DEF Inv, Replaying
  <1>6. /\ OthersSame(req, req1, p) /\ OthersSame(last, last1, p)
        /\ OthersSame(what, what1, p) /\ OthersSame(n, n1, p)
    BY <1>2, <1>3 DEF Others
  <1>7. g = St(req1[p], last1[p], what1[p], n1[p]) /\ H[p][A[p] + 1] = g
    BY <1>2, <1>3 DEF RepState
  <1>8. ReplayingOf(P, B, M, H, E, rec, req1, last1, what1, n1)
    BY <1>4, <1>5, <1>6, <1>7, ReplayStep
  <1>9. Replaying'
    <2>1. MessagesRight(Program, recMsg)
      BY DEF Inv, Replaying
    <2> QED BY <1>2, <1>3, <1>8, <2>1 DEF Replaying
  <1>10. Recording'
    BY DEF Recording
  <1> QED BY <1>2, <1>4, <1>9, <1>10 DEF Inv

-------------------------------------------------------------------------------

\* The others keep their state when a request of process p changes.
LEMMA RequestMade ==
  ASSUME Frames, NEW p \in Ranks, NEW k, NEW state, RequestSet(p, k, state)
  PROVE  /\ DOMAIN request' = Ranks /\ DOMAIN lastSource' = Ranks /\ DOMAIN seen' = Ranks
         /\ Others(p) /\ StateMade(p, k, state)
  <1>1. /\ request'[p] = [request[p] EXCEPT ![k] = state] /\ DOMAIN request' = Ranks
        /\ \A q \in Ranks : q # p => request'[q] = request[q]
    BY DEF RequestSet, Frames
  <1>2. lastSource' = lastSource /\ seen' = seen
    BY DEF RequestSet
  <1>3. Others(p)
    BY <1>1, <1>2 DEF Others, OthersSame
  <1>4. StateMade(p, k, state)
    BY <1>1, <1>2 DEF StateMade, Made, St
  <1> QED BY <1>1, <1>2, <1>3, <1>4 DEF Frames

\* The peer of an operation.
LEMMA PeerRight ==
  ASSUME NEW p, Right(p), lastSource[p] \in Ranks \cup {None},
         Op(p).op \in {"isend", "irecv", "probe", "iprobe"}
  PROVE  /\ Peer(p) = PeerOf(Program[p][at[p]], lastSource[p])
         /\ Peer(p) \in Ranks \cup {AnySource, None} /\ Op(p).tag \in Tags \cup {AnyTag}
  <1>1. PICK P, k : P = Program /\ k = at[p]
    OBVIOUS
  <1>2. P \in Programs /\ p \in Ranks /\ k \in DOMAIN P[p] /\ Op(p) = P[p][k]
    BY <1>1 DEF Right, Op
  <1>3. P[p][k].tag \in Tags \cup {AnyTag} /\ P[p][k].peer \in Peers
    BY <1>2, OperationHasTag
  <1>4. Peer(p) = PeerOf(P[p][k], lastSource[p])
    BY <1>2 DEF Peer, PeerOf
  <1>5. PeerOf(P[p][k], lastSource[p]) \in Ranks \cup {AnySource, None}
    BY <1>3 DEF PeerOf, Peers
  <1> QED BY <1>1, <1>2, <1>3, <1>4, <1>5

\* Isend sends that message.
LEMMA IsendSends ==
  ASSUME NEW p, Right(p), lastSource[p] \in Ranks \cup {None}, Isend(p), UNCHANGED Program
  PROVE  SendsMessage(p, MessageOf(p)) /\ at' = Next1(at, p) /\ RequestSet(p, at[p], "send")
  <1>1. PICK P, A, k, M, T, U, Q, m :
          /\ P = Program /\ A = at /\ k = at[p] /\ M = msg /\ T = travelling /\ U = unexpected
          /\ Q = posted /\ m = MessageOf(p)
    OBVIOUS
  <1>2. PICK B, N, V : B = at' /\ N = msg' /\ V = travelling'
    OBVIOUS
  <1>3. P \in Programs /\ p \in Ranks /\ k \in DOMAIN P[p] /\ Channels(P, A, M, T, U, Q)
        /\ Op(p) = P[p][k]
    BY <1>1 DEF Right, Chans, Op
  <1>4. IsSend(P, p, k)
    BY <1>1, <1>3 DEF Isend, Executes, IsSend
  <1>5. Peer(p) = PeerOf(P[p][k], lastSource[p]) /\ Peer(p) \in Ranks \cup {AnySource, None}
        /\ P[p][k].tag \in Tags \cup {AnyTag}
    BY <1>1, <1>3, <1>4, PeerRight DEF IsSend
  <1>6. m = [from |-> p, to |-> Peer(p), tag |-> P[p][k].tag, n |-> k]
    BY <1>1, <1>5 DEF MessageOf
  <1>7. m \in Sendable /\ m.from = p /\ m.n = k /\ m.tag = P[p][k].tag /\ m.to = Peer(p)
    <2>1. k \in Nat
      BY <1>3, OpsAreNumbers
    <2> QED BY <1>3, <1>5, <1>6, <2>1 DEF Sendable
  <1>8. N = With1(M, p, k, m) /\ V = WithLast(T, p, m) /\ unexpected' = U /\ posted' = Q
    BY <1>1, <1>2, <1>3, <1>6, <1>7 DEF Isend, Send, With1, WithLast
  <1>9. B = Next1(A, p) /\ RequestSet(p, k, "send")
    BY <1>1, <1>2 DEF Isend, Return, RegistersSend, RequestSet, Next1
  <1>10. Channels(P, B, N, V, U, Q)
    BY <1>1, <1>3, <1>4, <1>7, <1>8, <1>9, SendChannels
  <1>11. Chans'
    BY <1>1, <1>2, <1>8, <1>10 DEF Chans
  <1> QED BY <1>1, <1>2, <1>4, <1>7, <1>8, <1>9, <1>11 DEF SendsMessage

\* Isend keeps the invariant in the recorded run.
LEMMA IsendRecorded ==
  ASSUME AllReplayable, Inv, mode = "record", NEW p \in Ranks, Isend(p), StepRest(p)
  PROVE  Inv'
  <1>1. at[p] \in Ops(p)
    BY DEF Isend, Executes
  <1>2. RecRight(p)
    BY <1>1, RecRightBefore
  <1>3. UNCHANGED <<Program, mode>> /\ history' = [history EXCEPT ![p][at'[p]] = Now(p)']
        /\ events' = events /\ pos' = pos
    BY DEF StepRest, Isend
  <1>4. lastSource[p] \in Ranks \cup {None}
    BY <1>2 DEF RecRight, StateRight, RecState, St
  <1>5. SendsMessage(p, MessageOf(p)) /\ at' = Next1(at, p) /\ RequestSet(p, at[p], "send")
    BY <1>2, <1>3, <1>4, IsendSends DEF RecRight
  <1>6. PICK P, A, M, T, N, V, k, m, E, h, g :
          /\ P = Program /\ A = at /\ M = msg /\ T = travelling /\ N = msg' /\ V = travelling'
          /\ k = at[p] /\ m = MessageOf(p) /\ E = events[p]
          /\ h = RecState(p) /\ g = RecState(p)'
    OBVIOUS
  <1>7. /\ P \in Programs /\ k \in DOMAIN P[p] /\ MessagesRight(P, M) /\ Progress(P, A, M)
        /\ Tables(P, M) /\ TravellingRight(P, M, T) /\ StateRight(P, p, k, h)
        /\ E \in Seq(Events) /\ h.events = Len(E) /\ RanksRight(P, M, p, h.request, E) /\ Frames
    BY <1>2, <1>6 DEF RecRight, Right, Chans, Channels, Pipes
  <1>8. /\ m \in Sendable /\ m.from = p /\ m.n = k /\ IsSend(P, p, k)
        /\ N = With1(M, p, k, m) /\ V = WithLast(T, p, m) /\ Chans'
    BY <1>5, <1>6 DEF SendsMessage
  <1>9. GrowsTo(P, A, M, T, N, V)
    BY <1>6, <1>7, <1>8, SendGrows
  <1>10. N[p][k] = m
    BY <1>7, <1>8, With1Values
  <1>11. /\ DOMAIN request' = Ranks /\ DOMAIN lastSource' = Ranks /\ DOMAIN seen' = Ranks
         /\ Others(p) /\ StateMade(p, k, "send")
    BY <1>5, <1>6, <1>7, RequestMade
  <1>12. g = Made(h, k, "send", h.events)
    BY <1>3, <1>6, <1>7, <1>11 DEF StateMade, RecState
  <1>13. KeptSend(P, N, p, k, h, g)
    <2>1. h.lastSource = lastSource[p]
      BY <1>6 DEF RecState, St
    <2> QED BY <1>6, <1>10, <1>12, <2>1 DEF KeptSend, MessageOf
  <1>14. Moves(P, N, V, p, k, h, g, E, E)
    BY <1>7, <1>8, <1>9, <1>13, SendMoves DEF GrowsTo
  <1>15. Frames'
    BY <1>3, <1>7, <1>11 DEF Frames
  <1>16. OthersSame(events, events', p)
    BY <1>3 DEF OthersSame
  <1>17. Moves(Program, msg', travelling', p, at[p], RecState(p), RecState(p)', events[p],
               events'[p])
    BY <1>3, <1>6, <1>14
  <1>18. GrowsTo(Program, at, msg, travelling, msg', travelling')
    BY <1>6, <1>9
  <1> QED BY <1>1, <1>3, <1>5, <1>8, <1>11, <1>15, <1>16, <1>17, <1>18, RecordedStep

\* And in the replay.
LEMMA IsendReplayed ==
  ASSUME Inv, mode = "replay", NEW p \in Ranks, Isend(p), StepRest(p)
  PROVE  Inv'
  <1>1. at[p] \in Ops(p)
    BY DEF Isend, Executes
  <1>2. RepRight(p)
    BY <1>1, RepRightBefore
  <1>3. UNCHANGED <<Program, mode, recSeen, recMsg, history, events, pos>>
    BY DEF StepRest, Isend
  <1>4. lastSource[p] \in Ranks \cup {None}
    BY <1>2 DEF RepRight, StateRight, RepState, St
  <1>5. SendsMessage(p, MessageOf(p)) /\ at' = Next1(at, p) /\ RequestSet(p, at[p], "send")
    BY <1>2, <1>3, <1>4, IsendSends DEF RepRight
  <1>6. PICK P, M, N, L, k, m, h, g :
          /\ P = Program /\ M = recMsg /\ N = msg /\ L = msg'
          /\ k = at[p] /\ m = MessageOf(p) /\ h = RepState(p) /\ g = RepState(p)'
    OBVIOUS
  <1>7. /\ P \in Programs /\ k \in DOMAIN P[p] /\ SameMessages(P, M, N)
        /\ Tables(P, N) /\ StateRight(P, p, k, h) /\ Frames
        /\ Kept(P, M, <<>>, "replay", p, k, h, history[p][k + 1], events[p])
    BY <1>2, <1>6 DEF RepRight, Right
  <1>8. IsSend(P, p, k) /\ L = With1(N, p, k, m) /\ Chans'
    BY <1>5, <1>6 DEF SendsMessage
  <1>9. KeptSend(P, M, p, k, h, history[p][k + 1])
    BY <1>7, <1>8 DEF Kept, IsSend
  <1>10. m = M[p][k] /\ history[p][k + 1] = Made(h, k, "send", h.events)
    <2>1. h.lastSource = lastSource[p]
      BY <1>6 DEF RepState, St
    <2> QED BY <1>6, <1>9, <2>1 DEF KeptSend, MessageOf
  <1>11. SameMessages(P, M, L)
    BY <1>7, <1>8, <1>10, SameGet
  <1>12. /\ DOMAIN request' = Ranks /\ DOMAIN lastSource' = Ranks /\ DOMAIN seen' = Ranks
         /\ Others(p) /\ StateMade(p, k, "send")
    BY <1>5, <1>6, <1>7, RequestMade
  <1>13. h.events = pos[p]
    BY <1>6 DEF RepState, St
  <1>14. g = Made(h, k, "send", h.events)
    BY <1>3, <1>6, <1>12, <1>13 DEF StateMade, RepState
  <1>15. Frames'
    BY <1>3, <1>7, <1>12 DEF Frames
  <1>16. OthersSame(pos, pos', p)
    BY <1>3 DEF OthersSame
  <1>17. PostedSources(Program, recMsg, posted')
    <2>1. posted' = posted
      BY DEF Isend, Send
    <2> QED BY <1>2, <2>1 DEF RepRight
  <1>18. history[p][at[p] + 1] = RepState(p)' /\ SameMessages(Program, recMsg, msg')
    BY <1>6, <1>10, <1>11, <1>14
  <1> QED BY <1>1, <1>3, <1>5, <1>8, <1>12, <1>15, <1>16, <1>17, <1>18, ReplayedStep

-------------------------------------------------------------------------------

\* An operation that neither sends nor receives.
LEMMA QuietStep ==
  ASSUME NEW p, Right(p), Program[p][at[p]].op \notin {"isend", "irecv"},
         UNCHANGED <<Program, mpiVars>>, at' = Next1(at, p)
  PROVE  Chans' /\ GrowsTo(Program, at, msg, travelling, msg', travelling')
  <1>1. PICK P, A, M, T, U, Q, B :
          /\ P = Program /\ A = at /\ M = msg /\ T = travelling /\ U = unexpected /\ Q = posted
          /\ B = at'
    OBVIOUS
  <1>2. P \in Programs /\ p \in Ranks /\ A[p] \in DOMAIN P[p] /\ Channels(P, A, M, T, U, Q)
        /\ P[p][A[p]].op \notin {"isend", "irecv"} /\ B = Next1(A, p)
    BY <1>1 DEF Right, Chans
  <1>3. Channels(P, B, M, T, U, Q)
    BY <1>2, QuietChannels
  <1>4. GrowsTo(P, A, M, T, M, T)
    BY SameGrows
  <1> QED BY <1>1, <1>3, <1>4 DEF Chans, mpiVars

\* What a quiet step of the replay leaves alone.
LEMMA QuietReplay ==
  ASSUME NEW p, RepRight(p), UNCHANGED mpiVars
  PROVE  SameMessages(Program, recMsg, msg') /\ PostedSources(Program, recMsg, posted')
  BY DEF RepRight, mpiVars

\* Unsupported keeps the invariant in the recorded run.
LEMMA OtherRecorded ==
  ASSUME AllReplayable, Inv, mode = "record", NEW p \in Ranks, Unsupported(p), StepRest(p)
  PROVE  Inv'
  <1>1. at[p] \in Ops(p)
    BY DEF Unsupported, Executes
  <1>2. RecRight(p)
    BY <1>1, RecRightBefore
  <1>3. UNCHANGED <<Program, mode>> /\ history' = [history EXCEPT ![p][at'[p]] = Now(p)']
        /\ events' = events /\ pos' = pos /\ UNCHANGED mpiVars
        /\ at' = Next1(at, p) /\ RequestSet(p, at[p], "ignored")
    BY DEF StepRest, Unsupported, Return, Next1, RequestSet
  <1>4. PICK P, M, V, k, E, h, g :
          /\ P = Program /\ M = msg /\ V = travelling /\ k = at[p] /\ E = events[p]
          /\ h = RecState(p) /\ g = RecState(p)'
    OBVIOUS
  <1>5. /\ P \in Programs /\ k \in DOMAIN P[p] /\ StateRight(P, p, k, h) /\ Right(p)
        /\ E \in Seq(Events) /\ h.events = Len(E) /\ RanksRight(P, M, p, h.request, E) /\ Frames
    BY <1>2, <1>4 DEF RecRight, Right
  <1>6. P[p][k].op = "unsupported"
    BY <1>4 DEF Unsupported, Executes
  <1>7. Chans' /\ GrowsTo(Program, at, msg, travelling, msg', travelling')
    BY <1>3, <1>4, <1>5, <1>6, QuietStep
  <1>8. /\ DOMAIN request' = Ranks /\ DOMAIN lastSource' = Ranks /\ DOMAIN seen' = Ranks
        /\ Others(p) /\ StateMade(p, k, "ignored")
    BY <1>3, <1>4, <1>5, RequestMade
  <1>9. g = Made(h, k, "ignored", h.events)
    BY <1>3, <1>4, <1>5, <1>8 DEF StateMade, RecState
  <1>10. Moves(P, M, V, p, k, h, g, E, E)
    BY <1>5, <1>6, <1>9, OtherMoves DEF KeptOther
  <1>11. Frames'
    BY <1>3, <1>5, <1>8 DEF Frames
  <1>12. OthersSame(events, events', p)
    BY <1>3 DEF OthersSame
  <1>13. Moves(Program, msg', travelling', p, at[p], RecState(p), RecState(p)', events[p],
               events'[p])
    BY <1>3, <1>4, <1>10 DEF mpiVars
  <1> QED BY <1>1, <1>3, <1>7, <1>8, <1>11, <1>12, <1>13, RecordedStep

\* And in the replay.
LEMMA OtherReplayed ==
  ASSUME Inv, mode = "replay", NEW p \in Ranks, Unsupported(p), StepRest(p)
  PROVE  Inv'
  <1>1. at[p] \in Ops(p)
    BY DEF Unsupported, Executes
  <1>2. RepRight(p)
    BY <1>1, RepRightBefore
  <1>3. UNCHANGED <<Program, mode, recSeen, recMsg, history, events, pos>>
        /\ UNCHANGED mpiVars /\ at' = Next1(at, p) /\ RequestSet(p, at[p], "ignored")
    BY DEF StepRest, Unsupported, Return, Next1, RequestSet
  <1>4. PICK P, M, k, h, g :
          P = Program /\ M = recMsg /\ k = at[p] /\ h = RepState(p) /\ g = RepState(p)'
    OBVIOUS
  <1>5. /\ P \in Programs /\ k \in DOMAIN P[p] /\ StateRight(P, p, k, h) /\ Right(p) /\ Frames
        /\ Kept(P, M, <<>>, "replay", p, k, h, history[p][k + 1], events[p])
    BY <1>2, <1>4 DEF RepRight, Right
  <1>6. P[p][k].op = "unsupported"
    BY <1>4 DEF Unsupported, Executes
  <1>7. Chans'
    BY <1>3, <1>4, <1>5, <1>6, QuietStep
  <1>8. history[p][k + 1] = Made(h, k, "ignored", h.events)
    BY <1>5, <1>6 DEF Kept, KeptOther
  <1>9. /\ DOMAIN request' = Ranks /\ DOMAIN lastSource' = Ranks /\ DOMAIN seen' = Ranks
        /\ Others(p) /\ StateMade(p, k, "ignored")
    BY <1>3, <1>4, <1>5, RequestMade
  <1>10. h.events = pos[p]
    BY <1>4 DEF RepState, St
  <1>11. g = Made(h, k, "ignored", h.events)
    BY <1>3, <1>4, <1>9, <1>10 DEF StateMade, RepState
  <1>12. Frames'
    BY <1>3, <1>5, <1>9 DEF Frames
  <1>13. OthersSame(pos, pos', p)
    BY <1>3 DEF OthersSame
  <1>14. SameMessages(Program, recMsg, msg') /\ PostedSources(Program, recMsg, posted')
    BY <1>2, <1>3, QuietReplay
  <1>15. history[p][at[p] + 1] = RepState(p)'
    BY <1>4, <1>8, <1>11
  <1> QED BY <1>1, <1>3, <1>7, <1>9, <1>12, <1>13, <1>14, <1>15, ReplayedStep

-------------------------------------------------------------------------------

\* To cancel something else stops the process.
LEMMA CancelStops ==
  ASSUME NEW p, Cancel(p)
  PROVE  Cancelling(p) \/ (Stop(p) /\ request[p][Op(p).k] # "recv")
  BY DEF Cancel, Cancelling

\* Cancelling takes the receive from those that are posted, if it is there.
LEMMA CancelStep ==
  ASSUME AllReplayable, NEW p, Right(p), NEW h, StateRight(Program, p, at[p], h),
         h.request = request[p], Cancelling(p), UNCHANGED Program
  PROVE  /\ Chans' /\ NoNewPosts(posted, posted')
         /\ GrowsTo(Program, at, msg, travelling, msg', travelling')
         /\ msg' = msg /\ travelling' = travelling
  <1>1. PICK P, A, M, T, U, Q, k, c, j :
          /\ P = Program /\ A = at /\ M = msg /\ T = travelling /\ U = unexpected /\ Q = posted
          /\ k = at[p] /\ c = P[p][k] /\ j = c.k
    OBVIOUS
  <1>2. PICK B, R : B = at' /\ R = posted'
    OBVIOUS
  <1>3. /\ P \in Programs /\ Replayable(P) /\ p \in Ranks /\ k \in DOMAIN P[p]
        /\ Channels(P, A, M, T, U, Q) /\ Op(p) = c /\ c.op = "cancel"
        /\ request[p][j] = "recv" /\ B = Next1(A, p)
    BY <1>1, <1>2 DEF Right, Chans, Op, AllReplayable, Cancelling, CancelRecv, Executes, Return, Next1
  <1>4. UNCHANGED <<travelling, unexpected, msg>>
    BY DEF Cancelling, CancelRecv, CancelReceive
  <1>5. PICK q, i : q = Q[p] /\ i = WhereIs(q, j)
    OBVIOUS
  <1>6. R = IF i = 0 THEN Q ELSE [Q EXCEPT ![p] = RemoveAt(@, i)]
    BY <1>1, <1>2, <1>3, <1>5 DEF Cancelling, CancelRecv, CancelReceive, PostedAt, WhereIs
  <1>7. c.op \notin {"isend", "irecv"} /\ A[p] = k
    BY <1>1, <1>3
  <1>8. GrowsTo(P, A, M, T, M, T)
    BY SameGrows
  <1>9. Channels(P, B, M, T, U, R) /\ NoNewPosts(Q, R)
    <2>1. CASE i = 0
      <3>1. R = Q
        BY <1>6, <2>1
      <3>2. Channels(P, B, M, T, U, Q)
        BY <1>1, <1>3, <1>7, QuietChannels
      <3> QED BY <3>1, <3>2 DEF NoNewPosts
    <2>2. CASE i # 0
      <3>1. q \in Seq(Waiting)
        BY <1>3, <1>5 DEF Channels, PostedRight
      <3>2. i \in DOMAIN q /\ q[i].k = j
        <4>1. IF \A r \in ToSet(q) : r.k # j THEN WhereIs(q, j) = 0
              ELSE WhereIs(q, j) \in DOMAIN q /\ q[WhereIs(q, j)].k = j
          BY <3>1, PostedRequest
        <4> QED BY <1>5, <2>2, <4>1
      <3>3. j \in DOMAIN P[p]
        <4>1. Refers(P[p], k)
          BY <1>3, ProgramAssumption
        <4>2. j \in 1..(k - 1)
          BY <1>1, <1>3, <4>1 DEF Refers
        <4>3. DOMAIN P[p] = 1..Len(P[p]) /\ Len(P[p]) \in Nat
          BY <1>3, OpsAreNumbers
        <4> QED BY <1>3, <4>2, <4>3
      <3>4. Unaccounted(P, p, j)
        <4>1. h.request[j] = "recv"
          BY <1>3
        <4>2. IsRecv(P, p, j)
          BY <1>1, <3>3, <4>1 DEF StateRight
        <4>3. Cancels(P[p], j)
          BY <1>1, <1>3 DEF Cancels
        <4> QED BY <4>2, <4>3 DEF Unaccounted
      <3>5. NoSender(P, p, Q[p][i].k)
        <4>1. MessagesRight(P, M)
          BY <1>3 DEF Channels, Pipes
        <4>2. IsRecv(P, p, j) => NoSender(P, p, j)
          BY <1>3, <3>3, <3>4, <4>1, NeverGets
        <4>3. IsRecv(P, p, j)
          <5>1. h.request[j] = "recv"
            BY <1>3
          <5> QED BY <1>1, <3>3, <5>1 DEF StateRight
        <4> QED BY <1>5, <3>2, <4>2, <4>3
      <3>6. R = Without(Q, p, i) /\ i \in DOMAIN Q[p]
        BY <1>5, <1>6, <2>2, <3>2 DEF Without
      <3> QED BY <1>1, <1>3, <1>7, <3>5, <3>6, CancelChannels
    <2> QED BY <2>1, <2>2
  <1> QED BY <1>1, <1>2, <1>4, <1>8, <1>9 DEF Chans

\* CanceledEvent notes the source Canceled for the receive.
LEMMA CancelNotes ==
  ASSUME NEW p, NEW k
  PROVE  CanceledEvent(p, k) = Noted(events[p], {k}, CancelNote(k))
  <1>1. PICK E : E = events[p]
    OBVIOUS
  <1>2. \A n \in DOMAIN E :
          (IF E[n].kind = "recv" /\ E[n].k = k THEN [E[n] EXCEPT !.rank = Canceled] ELSE E[n])
          = (IF E[n].kind = "recv" /\ E[n].k \in {k}
             THEN [E[n] EXCEPT !.rank = CancelNote(k)[E[n].k]] ELSE E[n])
    BY DEF CancelNote
  <1>3. Noted(E, {k}, CancelNote(k)) =
          [n \in DOMAIN E |->
             IF E[n].kind = "recv" /\ E[n].k = k THEN [E[n] EXCEPT !.rank = Canceled] ELSE E[n]]
    BY <1>2, Zenon DEF Noted
  <1> QED BY <1>1, <1>3, Zenon DEF CanceledEvent

\* Cancelling keeps the invariant in the recorded run.
LEMMA CancelRecorded ==
  ASSUME AllReplayable, Inv, mode = "record", NEW p \in Ranks, Cancelling(p), StepRest(p)
  PROVE  Inv'
  <1>1. at[p] \in Ops(p)
    BY DEF Cancelling, CancelRecv, Executes
  <1>2. RecRight(p)
    BY <1>1, RecRightBefore
  <1>3. PICK P, M, V, k, c, j, E, F, h, g :
          /\ P = Program /\ M = msg /\ V = travelling /\ k = at[p] /\ c = P[p][k] /\ j = c.k
          /\ E = events[p] /\ F = events'[p] /\ h = RecState(p) /\ g = RecState(p)'
    OBVIOUS
  <1>4. /\ P \in Programs /\ k \in DOMAIN P[p] /\ StateRight(P, p, k, h) /\ Right(p)
        /\ E \in Seq(Events) /\ h.events = Len(E) /\ RanksRight(P, M, p, h.request, E) /\ Frames
    BY <1>2, <1>3 DEF RecRight, Right
  <1>5. /\ UNCHANGED <<Program, mode>> /\ history' = [history EXCEPT ![p][at'[p]] = Now(p)']
        /\ pos' = pos /\ at' = Next1(at, p) /\ RequestSet(p, j, "ignored") /\ c.op = "cancel"
        /\ events' = [events EXCEPT ![p] = CanceledEvent(p, j)] /\ request[p][j] = "recv"
    BY <1>3 DEF StepRest, Cancelling, CancelRecv, Executes, Op, Return, Next1, RequestSet
  <1>6. h.request = request[p]
    BY <1>3 DEF RecState, St
  <1>7. /\ Chans' /\ GrowsTo(Program, at, msg, travelling, msg', travelling')
        /\ msg' = msg /\ travelling' = travelling
    BY <1>3, <1>4, <1>5, <1>6, CancelStep
  <1>8. /\ DOMAIN request' = Ranks /\ DOMAIN lastSource' = Ranks /\ DOMAIN seen' = Ranks
        /\ Others(p) /\ StateMade(p, j, "ignored")
    BY <1>4, <1>5, RequestMade
  <1>9. F = Noted(E, {j}, CancelNote(j)) /\ DOMAIN events' = Ranks
        /\ OthersSame(events, events', p)
    <2>1. F = CanceledEvent(p, j) /\ DOMAIN events' = Ranks /\ OthersSame(events, events', p)
      BY <1>3, <1>4, <1>5 DEF Frames, OthersSame
    <2> QED BY <1>3, <2>1, CancelNotes
  <1>10. g = Made(h, j, "ignored", Len(F))
    BY <1>3, <1>8 DEF StateMade, RecState
  <1>11. Moves(P, M, V, p, k, h, g, E, F)
    <2>1. F = Noted(E, {c.k}, [x \in {c.k} |-> Canceled])
      BY <1>3, <1>9 DEF CancelNote
    <2>2. h.request[c.k] = "recv" /\ g = Made(h, c.k, "ignored", Len(F))
      BY <1>3, <1>5, <1>6, <1>10
    <2> QED BY <1>3, <1>4, <1>5, <2>1, <2>2, CancelMoves
  <1>12. Frames'
    BY <1>4, <1>5, <1>8, <1>9 DEF Frames
  <1>13. Moves(Program, msg', travelling', p, at[p], RecState(p), RecState(p)', events[p],
               events'[p])
    BY <1>3, <1>7, <1>11
  <1> QED BY <1>1, <1>5, <1>7, <1>8, <1>9, <1>12, <1>13, RecordedStep

\* And in the replay.
LEMMA CancelReplayed ==
  ASSUME AllReplayable, Inv, mode = "replay", NEW p \in Ranks, Cancelling(p), StepRest(p)
  PROVE  Inv'
  <1>1. at[p] \in Ops(p)
    BY DEF Cancelling, CancelRecv, Executes
  <1>2. RepRight(p)
    BY <1>1, RepRightBefore
  <1>3. PICK P, M, k, c, j, h, g :
          /\ P = Program /\ M = recMsg /\ k = at[p] /\ c = P[p][k] /\ j = c.k
          /\ h = RepState(p) /\ g = RepState(p)'
    OBVIOUS
  <1>4. /\ P \in Programs /\ k \in DOMAIN P[p] /\ StateRight(P, p, k, h) /\ Right(p) /\ Frames
        /\ Kept(P, M, <<>>, "replay", p, k, h, history[p][k + 1], events[p])
        /\ SameMessages(P, M, msg) /\ PostedSources(P, M, posted)
    BY <1>2, <1>3 DEF RepRight, Right
  <1>5. /\ UNCHANGED <<Program, mode, recSeen, recMsg, history, events, pos>>
        /\ at' = Next1(at, p) /\ RequestSet(p, j, "ignored") /\ c.op = "cancel"
    BY <1>3 DEF StepRest, Cancelling, CancelRecv, Executes, Op, Return, Next1, RequestSet
  <1>6. h.request = request[p] /\ h.events = pos[p]
    BY <1>3 DEF RepState, St
  <1>7. Chans' /\ msg' = msg /\ NoNewPosts(posted, posted')
    BY <1>3, <1>4, <1>5, <1>6, CancelStep
  <1>8. history[p][k + 1] = Made(h, j, "ignored", h.events)
    BY <1>3, <1>4, <1>5 DEF Kept, KeptCancel
  <1>9. /\ DOMAIN request' = Ranks /\ DOMAIN lastSource' = Ranks /\ DOMAIN seen' = Ranks
        /\ Others(p) /\ StateMade(p, j, "ignored")
    BY <1>4, <1>5, RequestMade
  <1>10. g = Made(h, j, "ignored", h.events)
    BY <1>3, <1>5, <1>6, <1>9 DEF StateMade, RepState
  <1>11. Frames'
    BY <1>4, <1>5, <1>9 DEF Frames
  <1>12. OthersSame(pos, pos', p)
    BY <1>5 DEF OthersSame
  <1>13. SameMessages(Program, recMsg, msg') /\ PostedSources(Program, recMsg, posted')
    BY <1>3, <1>4, <1>7, DropsSource
  <1>14. history[p][at[p] + 1] = RepState(p)'
    BY <1>3, <1>8, <1>10
  <1> QED BY <1>1, <1>5, <1>7, <1>9, <1>11, <1>12, <1>13, <1>14, ReplayedStep

-------------------------------------------------------------------------------

\* A receive is posted with this source, or takes the first message that it matches.
LEMMA ReceiveStep ==
  ASSUME NEW p, Right(p), Op(p).op = "irecv", NEW source \in Sources,
         Receive(p, at[p], source, Op(p).tag), UNCHANGED Program, at' = Next1(at, p)
  PROVE  /\ Chans' /\ travelling' = travelling
         /\ (\E r : PostsReceive(p, source, r)) \/ (\E i, m : TakesMessage(p, source, i, m))
  <1>1. PICK P, A, M, T, U, Q, k, tag, u, i :
          /\ P = Program /\ A = at /\ M = msg /\ T = travelling /\ U = unexpected /\ Q = posted
          /\ k = at[p] /\ tag = P[p][k].tag /\ u = U[p] /\ i = FirstMatch(u, source, tag)
    OBVIOUS
  <1>2. PICK B, N, W, R : B = at' /\ N = msg' /\ W = unexpected' /\ R = posted'
    OBVIOUS
  <1>3. /\ P \in Programs /\ p \in Ranks /\ k \in DOMAIN P[p] /\ Channels(P, A, M, T, U, Q)
        /\ Op(p) = P[p][k] /\ P[p][k].op = "irecv" /\ IsRecv(P, p, k) /\ B = Next1(A, p)
    BY <1>1, <1>2 DEF Right, Chans, Op, IsRecv
  <1>4. tag \in Tags \cup {AnyTag} /\ k \in Nat
    BY <1>1, <1>3, OperationHasTag, OpsAreNumbers
  <1>5. u \in Seq(Sendable)
    BY <1>1, <1>3 DEF Channels, Pipes, UnexpectedRight
  <1>6. IF \A m \in ToSet(u) : ~Matches(source, tag, m) THEN i = 0
        ELSE /\ i \in DOMAIN u /\ Matches(source, tag, u[i])
             /\ \A j \in DOMAIN u : Matches(source, tag, u[j]) => i <= j
    BY <1>1, <1>5, FirstMessage
  <1>7. i = Found(p, source, tag)
    BY <1>1 DEF Found, FirstMatch
  <1>8. travelling' = travelling
    BY DEF Receive
  <1>9. CASE i = 0
    <2>1. PICK r : r = [k |-> k, source |-> source, tag |-> tag]
      OBVIOUS
    <2>2. r \in Waiting /\ r.k = k /\ r.source = source /\ r.tag = tag
      BY <1>4, <2>1 DEF Waiting
    <2>3. R = WithElement(Q, p, r) /\ W = U /\ N = M
      BY <1>1, <1>2, <1>3, <1>7, <1>9, <2>1 DEF Receive, WithElement
    <2>4. \A m \in ToSet(U[p]) : ~Matches(r.source, r.tag, m)
      <3>1. 0 \notin DOMAIN u
        BY <1>5, LenProperties
      <3> QED BY <1>1, <1>6, <1>9, <2>2, <3>1
    <2>5. r.tag = P[p][k].tag
      BY <1>1, <2>2
    <2>6. Channels(P, B, M, T, U, R)
      BY <1>1, <1>3, <2>2, <2>3, <2>4, <2>5, PostChannels
    <2>7. Chans'
      BY <1>1, <1>2, <1>8, <2>3, <2>6 DEF Chans
    <2>8. PostsReceive(p, source, r)
      BY <1>1, <1>2, <2>2, <2>3 DEF PostsReceive
    <2> QED BY <1>8, <2>7, <2>8
  <1>10. CASE i # 0
    <2>1. PICK m : m = u[i]
      OBVIOUS
    <2>2. /\ i \in DOMAIN U[p] /\ m = U[p][i] /\ Matches(source, P[p][k].tag, m)
          /\ \A j \in DOMAIN U[p] : Matches(source, P[p][k].tag, U[p][j]) => i <= j
      BY <1>1, <1>6, <1>10, <2>1
    <2>3. N = With1(M, p, k, m) /\ W = Without(U, p, i) /\ R = Q
      BY <1>1, <1>2, <1>3, <1>7, <1>10, <2>1 DEF Receive, With1, Without
    <2>4. Channels(P, B, N, T, W, Q) /\ CanGet(P, M, p, k, m)
      BY <1>1, <1>3, <2>2, <2>3, TakeChannels
    <2>5. Chans'
      BY <1>1, <1>2, <1>8, <2>3, <2>4 DEF Chans
    <2>6. TakesMessage(p, source, i, m)
      BY <1>1, <1>2, <2>2, <2>3, <2>4 DEF TakesMessage
    <2> QED BY <1>8, <2>5, <2>6
  <1> QED BY <1>9, <1>10

\* IrecvRecord keeps the invariant.
LEMMA IrecvRecorded ==
  ASSUME AllReplayable, Inv, NEW p \in Ranks, IrecvRecord(p), StepRest(p)
  PROVE  Inv'
  <1>1. at[p] \in Ops(p) /\ mode = "record"
    BY DEF IrecvRecord, Executes
  <1>2. RecRight(p)
    BY <1>1, RecRightBefore
  <1>3. PICK P, A, M, T, N, k, E, F, h, g :
          /\ P = Program /\ A = at /\ M = msg /\ T = travelling /\ N = msg' /\ k = at[p]
          /\ E = events[p] /\ F = events'[p] /\ h = RecState(p) /\ g = RecState(p)'
    OBVIOUS
  <1>4. /\ P \in Programs /\ k \in DOMAIN P[p] /\ StateRight(P, p, k, h) /\ Right(p)
        /\ MessagesRight(P, M) /\ k = A[p]
        /\ E \in Seq(Events) /\ h.events = Len(E) /\ RanksRight(P, M, p, h.request, E) /\ Frames
    BY <1>2, <1>3 DEF RecRight, Right
  <1>5. /\ UNCHANGED <<Program, mode>> /\ history' = [history EXCEPT ![p][at'[p]] = Now(p)']
        /\ pos' = pos /\ at' = Next1(at, p) /\ RequestSet(p, k, "recv") /\ Op(p).op = "irecv"
        /\ Receive(p, at[p], Peer(p), Op(p).tag)
        /\ events' = [events EXCEPT ![p] = @ \o <<RecvEvent(k)>>]
    BY <1>1, <1>3 DEF StepRest, IrecvRecord, Executes, Op, Return, Next1, RequestSet, RegistersRecv,
                      Record, RecvEvent
  <1>6. IsRecv(P, p, k)
    BY <1>3, <1>4, <1>5 DEF IsRecv, Op
  <1>7. Peer(p) \in Sources
    <2>1. lastSource[p] \in Ranks \cup {None}
      BY <1>3, <1>4 DEF StateRight, RecState, St
    <2>2. Peer(p) \in Ranks \cup {AnySource, None}
      BY <1>4, <1>5, <2>1, PeerRight
    <2> QED BY <2>2 DEF Sources
  <1>8. PICK source \in Sources : source = Peer(p)
    BY <1>7
  <1>9. /\ Chans' /\ travelling' = travelling
        /\ (\E r : PostsReceive(p, source, r)) \/ (\E i, m : TakesMessage(p, source, i, m))
    BY <1>4, <1>5, <1>8, ReceiveStep
  <1>10. GrowsTo(P, A, M, T, N, T)
    <2>1. CASE \E r : PostsReceive(p, source, r)
      <3>1. N = M
        BY <1>3, <2>1 DEF PostsReceive
      <3> QED BY <3>1, SameGrows
    <2>2. CASE \E i, m : TakesMessage(p, source, i, m)
      <3>1. PICK m : CanGet(P, M, p, k, m) /\ N = With1(M, p, k, m)
        BY <1>3, <2>2 DEF TakesMessage
      <3> QED BY <1>4, <3>1, TakeGrows
    <2> QED BY <1>9, <2>1, <2>2
  <1>11. /\ DOMAIN request' = Ranks /\ DOMAIN lastSource' = Ranks /\ DOMAIN seen' = Ranks
         /\ Others(p) /\ StateMade(p, k, "recv")
    BY <1>4, <1>5, RequestMade
  <1>12. F = WithEvent(E, RecvEvent(k)) /\ DOMAIN events' = Ranks
         /\ OthersSame(events, events', p)
    BY <1>3, <1>4, <1>5 DEF Frames, OthersSame, WithEvent
  <1>13. g = Made(h, k, "recv", Len(F))
    BY <1>3, <1>11 DEF StateMade, RecState
  <1>14. Moves(P, N, T, p, k, h, g, E, F)
    <2>1. Stays(P, M, N)
      BY <1>10 DEF GrowsTo
    <2> QED BY <1>4, <1>6, <1>12, <1>13, <2>1, RecvMoves
  <1>15. Frames'
    BY <1>4, <1>5, <1>11, <1>12 DEF Frames
  <1>16. Moves(Program, msg', travelling', p, at[p], RecState(p), RecState(p)', events[p],
               events'[p])
    BY <1>3, <1>9, <1>14
  <1>17. GrowsTo(Program, at, msg, travelling, msg', travelling')
    BY <1>3, <1>9, <1>10
  <1> QED BY <1>1, <1>5, <1>9, <1>11, <1>12, <1>15, <1>16, <1>17, RecordedStep

\* A receive of the replay has the source it had in the recorded run.
LEMMA ReplayingHad ==
  ASSUME NEW p, RepRight(p), Program[p][at[p]].op = "irecv", HasEvent(p)
  PROVE  /\ NextEvent(p).kind = "recv" /\ ReplayingSource(p, NextEvent(p)) \in Sources
         /\ SourceHad(Program, recMsg, p, at[p], ReplayingSource(p, NextEvent(p)))
         /\ history[p][at[p] + 1] = Made(RepState(p), at[p], "recv", pos[p] + 1)
  <1>1. PICK P, M, k, E, h, n, e :
          /\ P = Program /\ M = recMsg /\ k = at[p] /\ E = events[p] /\ h = RepState(p)
          /\ n = pos[p] + 1 /\ e = E[n]
    OBVIOUS
  <1>2. /\ P \in Programs /\ p \in Ranks /\ k \in DOMAIN P[p] /\ StateRight(P, p, k, h)
        /\ Right(p) /\ MessagesRight(P, M) /\ E \in Seq(Events) /\ history[p][k] = h
        /\ Kept(P, M, <<>>, "replay", p, k, h, history[p][k + 1], E)
        /\ SourcesKnown(P, M, p, history[p], E)
    BY <1>1 DEF RepRight, Right
  <1>3. h.events = pos[p] /\ h.lastSource = lastSource[p]
    BY <1>1 DEF RepState, St
  <1>4. KeptRecv(k, h, history[p][k + 1], E)
    BY <1>1, <1>2 DEF Kept
  <1>5. /\ history[p][k + 1] = Made(h, k, "recv", n) /\ n \in DOMAIN E
        /\ e.kind = "recv" /\ e = NextEvent(p)
    BY <1>1, <1>3, <1>4 DEF KeptRecv, NextEvent
  <1>6. e.rank \in Sources
    <2>1. e \in Events
      BY <1>1, <1>2, <1>5, LenProperties, ElementOfSeq
    <2> QED BY <1>5, <2>1 DEF Events
  <1>7. Peer(p) \in Sources
    <2>1. lastSource[p] \in Ranks \cup {None}
      BY <1>2, <1>3 DEF StateRight
    <2>2. Op(p).op = "irecv"
      BY DEF Op
    <2>3. Peer(p) \in Ranks \cup {AnySource, None}
      BY <1>2, <2>1, <2>2, PeerRight
    <2> QED BY <2>3 DEF Sources
  <1>8. ReplayingSource(p, e) \in Sources
    BY <1>6, <1>7 DEF ReplayingSource
  <1>9. SourceHad(P, M, p, k, ReplayingSource(p, e))
    <2>1. IsRecv(P, p, k)
      BY <1>1, <1>2 DEF IsRecv
    <2>2. NoSender(P, p, k) \/ (M[p][k] # None /\ e.rank = M[p][k].from)
      BY <1>1, <1>2, <1>3, <2>1 DEF SourcesKnown
    <2>3. ASSUME M[p][k] # None, e.rank = M[p][k].from
          PROVE  ReplayingSource(p, e) = M[p][k].from
      <3>1. M[p][k].from \in Ranks
        BY <1>2, <2>3, MessageTypes
      <3>2. e.rank # Canceled
        BY <2>3, <3>1, ProgramAssumption
      <3> QED BY <2>3, <3>2 DEF ReplayingSource
    <2> QED BY <2>2, <2>3 DEF SourceHad
  <1> QED BY <1>1, <1>5, <1>8, <1>9

\* IrecvReplay keeps the invariant.
LEMMA IrecvReplayed ==
  ASSUME Inv, NEW p \in Ranks, IrecvReplay(p), StepRest(p)
  PROVE  Inv'
  <1>1. at[p] \in Ops(p) /\ mode = "replay" /\ HasEvent(p) /\ Op(p).op = "irecv"
    BY DEF IrecvReplay, Executes, Op
  <1>2. RepRight(p)
    BY <1>1, RepRightBefore
  <1>3. PICK source, k : source = ReplayingSource(p, NextEvent(p)) /\ k = at[p]
    OBVIOUS
  <1>4. /\ NextEvent(p).kind = "recv" /\ source \in Sources
        /\ SourceHad(Program, recMsg, p, k, source)
        /\ history[p][k + 1] = Made(RepState(p), k, "recv", pos[p] + 1)
    BY <1>1, <1>2, <1>3, ReplayingHad DEF Op
  <1>5. /\ UNCHANGED <<Program, mode, recSeen, recMsg, history, events>>
        /\ pos' = [pos EXCEPT ![p] = @ + 1] /\ at' = Next1(at, p) /\ RequestSet(p, k, "recv")
        /\ Receive(p, at[p], source, Op(p).tag)
    BY <1>1, <1>3, <1>4 DEF StepRest, IrecvReplay, Return, Next1, RequestSet, RegistersRecv
  <1>6. /\ Chans'
        /\ (\E r : PostsReceive(p, source, r)) \/ (\E i, m : TakesMessage(p, source, i, m))
    <2>1. Right(p)
      BY <1>2 DEF RepRight
    <2> QED BY <1>1, <1>4, <1>5, <2>1, ReceiveStep
  <1>7. PICK P, A, M, N, L, T, U, Q, R :
          /\ P = Program /\ A = at /\ M = recMsg /\ N = msg /\ L = msg' /\ T = travelling
          /\ U = unexpected /\ Q = posted /\ R = posted'
    OBVIOUS
  <1>8. /\ P \in Programs /\ k \in DOMAIN P[p] /\ k = A[p] /\ MessagesRight(P, M)
        /\ SameMessages(P, M, N) /\ PostedSources(P, M, Q) /\ Channels(P, A, N, T, U, Q)
        /\ Tables(P, N) /\ SourceHad(P, M, p, k, source) /\ Frames
    BY <1>2, <1>3, <1>4, <1>7 DEF RepRight, Right, Chans
  <1>9. SameMessages(P, M, L) /\ PostedSources(P, M, R)
    <2>1. CASE \E r : PostsReceive(p, source, r)
      <3>1. PICK r \in Waiting : /\ r.k = k /\ r.source = source /\ L = N
                                 /\ R = WithElement(Q, p, r)
        BY <1>3, <1>7, <2>1 DEF PostsReceive
      <3>2. SourceHad(P, M, p, r.k, r.source)
        BY <1>8, <3>1
      <3>3. Q \in [Ranks -> Seq(Waiting)]
        BY <1>8 DEF Channels, PostedRight
      <3>4. PostedSources(P, M, R)
        BY <1>8, <3>1, <3>2, <3>3, PostsSource
      <3> QED BY <1>8, <3>1, <3>4
    <2>2. CASE \E i, m : TakesMessage(p, source, i, m)
      <3>1. PICK i, m : /\ i \in DOMAIN U[p] /\ m = U[p][i] /\ Matches(source, P[p][k].tag, m)
                        /\ CanGet(P, N, p, k, m) /\ L = With1(N, p, k, m) /\ R = Q
        BY <1>3, <1>7, <2>2 DEF TakesMessage
      <3>2. m = M[p][k]
        BY <1>8, <3>1, TakesRecorded
      <3>3. SameMessages(P, M, L)
        BY <1>8, <3>1, <3>2, SameGet
      <3> QED BY <1>8, <3>1, <3>3
    <2> QED BY <1>6, <2>1, <2>2
  <1>10. /\ DOMAIN request' = Ranks /\ DOMAIN lastSource' = Ranks /\ DOMAIN seen' = Ranks
         /\ Others(p) /\ StateMade(p, k, "recv")
    BY <1>5, <1>8, RequestMade
  <1>11. pos'[p] = pos[p] + 1 /\ DOMAIN pos' = Ranks /\ OthersSame(pos, pos', p)
    BY <1>5, <1>8 DEF Frames, OthersSame
  <1>12. RepState(p)' = Made(RepState(p), k, "recv", pos[p] + 1)
    BY <1>10, <1>11 DEF StateMade, RepState
  <1>13. Frames'
    BY <1>5, <1>8, <1>10, <1>11 DEF Frames
  <1>14. history[p][at[p] + 1] = RepState(p)'
    BY <1>3, <1>4, <1>12
  <1>15. SameMessages(Program, recMsg, msg') /\ PostedSources(Program, recMsg, posted')
    BY <1>7, <1>9
  <1> QED BY <1>1, <1>5, <1>6, <1>10, <1>11, <1>13, <1>14, <1>15, ReplayedStep

-------------------------------------------------------------------------------

\* A step that changes nothing the invariant is about keeps it.
LEMMA SameInv ==
  ASSUME Inv, SameState
  PROVE  Inv'
  BY DEF Inv, SameState, Frames, Chans, Recording, Replaying

\* A process that an error stops keeps the invariant.
LEMMA StopReplayed ==
  ASSUME Inv, mode = "replay", NEW p \in Ranks, Stop(p), StepRest(p)
  PROVE  Inv'
  <1>1. SameState
    BY DEF SameState, StepRest, Stop, appVars, mpiVars
  <1> QED BY <1>1, SameInv

\* So does an error that stops a process of the recorded run.
LEMMA StopRecorded ==
  ASSUME Inv, mode = "record", NEW p \in Ranks, at[p] \in Ops(p), Stop(p), StepRest(p)
  PROVE  Inv'
  <1>1. RecRight(p)
    BY RecRightBefore
  <1>2. /\ UNCHANGED <<Program, mode, at, request, lastSource, seen, events, pos, msg,
                       travelling, unexpected, posted, recSeen, recMsg>>
        /\ history' = [history EXCEPT ![p][at'[p]] = Now(p)']
    BY DEF StepRest, Stop, appVars, mpiVars
  <1>3. PICK P, A, M, T, H, E, req, last, what, G :
          /\ P = Program /\ A = at /\ M = msg /\ T = travelling /\ H = history /\ E = events
          /\ req = request /\ last = lastSource /\ what = seen /\ G = history'
    OBVIOUS
  <1>4. /\ P \in Programs /\ Progress(P, A, M) /\ Frames
        /\ RecordingOf(P, A, M, T, H, E, req, last, what)
    BY <1>1, <1>3 DEF RecRight, Right, Inv, Recording
  <1>5. Now(p)' = H[p][A[p]]
    <2>1. RecordingAt(P, M, T, p, H[p], A[p], E[p], St(req[p], last[p], what[p], Len(E[p])))
      BY <1>4 DEF RecordingOf
    <2> QED BY <1>2, <1>3, <2>1 DEF RecordingAt, Now, St
  <1>6. G = [H EXCEPT ![p][A[p]] = H[p][A[p]]] /\ DOMAIN H = Ranks
    BY <1>2, <1>3, <1>4, <1>5 DEF Frames
  <1>7. OthersSame(H, G, p) /\ EntrySet(H, G, p, A[p], H[p][A[p]]) /\ DOMAIN G = Ranks
    BY <1>6 DEF OthersSame, EntrySet
  <1>8. RecordingOf(P, A, M, T, G, E, req, last, what)
    BY <1>4, <1>7, RecordStop
  <1>9. Recording'
    BY <1>2, <1>3, <1>8 DEF Recording
  <1>10. Frames' /\ Chans'
    BY <1>2, <1>3, <1>4, <1>7 DEF Frames, Inv, Chans
  <1> QED BY <1>2, <1>9, <1>10 DEF Inv, Replaying

\* The first message of those that have arrived that a probe matches.
LEMMA FindsRight ==
  ASSUME NEW P \in Programs, NEW A, NEW M, NEW T, NEW U, NEW Q, Channels(P, A, M, T, U, Q),
         NEW p \in Ranks, NEW k \in DOMAIN P[p], k = A[p], NEW source,
         NEW i \in DOMAIN U[p], NEW m, m = U[p][i], Matches(source, P[p][k].tag, m),
         \A j \in DOMAIN U[p] : Matches(source, P[p][k].tag, U[p][j]) => i <= j
  PROVE  ProbedRight(P, M, p, k, m) /\ Arrived(T, p, m)
  <1>1. /\ UnexpectedRight(P, M, T, U) /\ ReceivedArrived(P, M, T, U) /\ NoneLost(P, M, T, U)
        /\ Progress(P, A, M)
    BY DEF Channels, Pipes
  <1>2. m \in ToSet(U[p])
    BY Zenon DEF ToSet
  <1>3. m.from \in Ranks /\ Sent(P, M, m, m.from, p) /\ Arrived(T, p, m)
    BY <1>1, <1>2 DEF UnexpectedRight
  <1>4. m \in Sendable /\ m.n \in DOMAIN P[m.from] /\ Takes(P, p, k, m)
    BY <1>3 DEF Sent, IsSend, Matches, Takes
  <1>5. \A j \in DOMAIN P[p] : Has(P, M, p, j) => j < k /\ M[p][j] # m
    BY <1>1, <1>2 DEF Progress, ReceivedArrived, Has
  <1>6. ASSUME NEW x \in Sendable, Sent(P, M, x, m.from, p), x.n < m.n, Takes(P, p, k, x)
        PROVE  \E j \in DOMAIN P[p] : j < k /\ Has(P, M, p, j) /\ M[p][j] = x
    <2>1. m.n \in Nat /\ x.n \in Nat
      BY <1>4, <1>6 DEF Sendable
    <2>2. ~(x \in ToSet(T[<<m.from, p>>]))
      <3>1. ASSUME x \in ToSet(T[<<m.from, p>>]) PROVE FALSE
        <4>1. m.n < x.n
          BY <1>3, <3>1 DEF Arrived
        <4> QED BY <1>6, <2>1, <4>1
      <3> QED BY <3>1
    <2>3. ~(x \in ToSet(U[p]))
      <3>1. ASSUME x \in ToSet(U[p]) PROVE FALSE
        <4>1. PICK j \in DOMAIN U[p] : U[p][j] = x
          BY <3>1, Zenon DEF ToSet
        <4>2. x.from = m.from
          BY <1>6 DEF Sent
        <4>3. Matches(source, P[p][k].tag, U[p][j])
          BY <1>6, <4>1, <4>2 DEF Matches, Takes
        <4>4. i <= j
          BY <4>3
        <4>5. PICK q : q = U[p]
          OBVIOUS
        <4>6. q \in Seq(Sendable)
          BY <1>1, <4>5 DEF UnexpectedRight
        <4>7. i \in Nat /\ j \in Nat
          BY <4>5, <4>6, LenProperties
        <4>8. i # j
          BY <1>6, <2>1, <4>1
        <4>9. i < j
          BY <4>4, <4>7, <4>8
        <4>10. BySource(U[p])
          BY <1>1 DEF UnexpectedRight
        <4>11. m.n < x.n
          BY <4>1, <4>2, <4>9, <4>10 DEF BySource
        <4> QED BY <1>6, <2>1, <4>11
      <3> QED BY <3>1
    <2>4. PICK j \in DOMAIN P[p] : Has(P, M, p, j) /\ M[p][j] = x
      BY <1>1, <1>3, <1>6, <2>2, <2>3 DEF NoneLost
    <2> QED BY <1>5, <2>4
  <1> QED BY <1>3, <1>4, <1>5, <1>6 DEF ProbedRight

\* Sees makes the state of the process that of Saw, and leaves the others.
LEMMA SeesMade ==
  ASSUME Frames, NEW p \in Ranks, NEW m, Sees(p, m)
  PROVE  /\ DOMAIN request' = Ranks /\ DOMAIN lastSource' = Ranks /\ DOMAIN seen' = Ranks
         /\ Others(p) /\ Saw(p, m) /\ at' = Next1(at, p) /\ UNCHANGED mpiVars
  <1>1. /\ seen'[p] = Append(seen[p], <<at[p], m>>) /\ DOMAIN seen' = Ranks
        /\ \A q \in Ranks : q # p => seen'[q] = seen[q]
    BY DEF Sees, Observes, Frames
  <1>2. /\ lastSource'[p] = IF m = None THEN lastSource[p] ELSE m.from
        /\ DOMAIN lastSource' = Ranks /\ \A q \in Ranks : q # p => lastSource'[q] = lastSource[q]
    BY DEF Sees, Frames
  <1>3. request' = request /\ UNCHANGED mpiVars /\ at' = Next1(at, p)
    BY DEF Sees, Return, Next1
  <1>4. Others(p)
    BY <1>1, <1>2, <1>3 DEF Others, OthersSame
  <1>5. Saw(p, m)
    BY <1>1, <1>2, <1>3 DEF Saw, Probed, St
  <1> QED BY <1>1, <1>2, <1>3, <1>4, <1>5 DEF Frames

-------------------------------------------------------------------------------

\* A probe finds nothing, or the first message that it matches.
LEMMA Finds ==
  ASSUME NEW p, Right(p), NEW source, NEW i, i = Found(p, source, Program[p][at[p]].tag)
  PROVE  \/ i = 0
         \/ /\ i \in DOMAIN unexpected[p]
            /\ Matches(source, Program[p][at[p]].tag, unexpected[p][i])
            /\ \A j \in DOMAIN unexpected[p] :
                 Matches(source, Program[p][at[p]].tag, unexpected[p][j]) => i <= j
  <1>1. PICK u, tag : u = unexpected[p] /\ tag = Program[p][at[p]].tag
    OBVIOUS
  <1>2. u \in Seq(Sendable)
    BY <1>1 DEF Right, Chans, Channels, Pipes, UnexpectedRight
  <1>3. IF \A m \in ToSet(u) : ~Matches(source, tag, m) THEN FirstMatch(u, source, tag) = 0
        ELSE /\ FirstMatch(u, source, tag) \in DOMAIN u
             /\ Matches(source, tag, u[FirstMatch(u, source, tag)])
             /\ \A j \in DOMAIN u : Matches(source, tag, u[j]) => FirstMatch(u, source, tag) <= j
    BY <1>2, FirstMessage
  <1>4. i = FirstMatch(u, source, tag)
    BY <1>1 DEF Found, FirstMatch
  <1> QED BY <1>1, <1>3, <1>4

\* ProbeRecord keeps the invariant.
LEMMA ProbeRecorded ==
  ASSUME AllReplayable, Inv, NEW p \in Ranks, ProbeRecord(p), StepRest(p)
  PROVE  Inv'
  <1>1. at[p] \in Ops(p) /\ mode = "record" /\ Program[p][at[p]].op \in {"probe", "iprobe"}
    BY DEF ProbeRecord, Executes
  <1>2. RecRight(p)
    BY <1>1, RecRightBefore
  <1>3. PICK i, m : /\ i = Found(p, Peer(p), Program[p][at[p]].tag)
                    /\ m \in IF i = 0 THEN {None} ELSE {unexpected[p][i]}
                    /\ Sees(p, m) /\ Record(p, <<ProbeEvent(m)>>) /\ UNCHANGED pos
    BY DEF ProbeRecord, Op
  <1>4. PICK P, A, M, T, U, Q, k, E, F, h, g :
          /\ P = Program /\ A = at /\ M = msg /\ T = travelling /\ U = unexpected /\ Q = posted
          /\ k = at[p]
          /\ E = events[p] /\ F = events'[p] /\ h = RecState(p) /\ g = RecState(p)'
    OBVIOUS
  <1>5. /\ P \in Programs /\ k \in DOMAIN P[p] /\ StateRight(P, p, k, h) /\ Right(p)
        /\ k = A[p] /\ Channels(P, A, M, T, U, Q) /\ P[p][k].op \in {"probe", "iprobe"}
        /\ E \in Seq(Events) /\ h.events = Len(E) /\ RanksRight(P, M, p, h.request, E) /\ Frames
    BY <1>1, <1>2, <1>4 DEF RecRight, Right, Chans
  <1>6. /\ m \in Sendable \cup {None}
        /\ m # None => ProbedRight(P, M, p, k, m) /\ Arrived(T, p, m)
    <2>1. CASE i = 0
      BY <1>3, <2>1
    <2>2. CASE i # 0
      <3>1. PICK source : source = Peer(p)
        OBVIOUS
      <3>2. i = Found(p, source, Program[p][at[p]].tag)
        BY <1>3, <3>1
      <3>3. /\ i \in DOMAIN U[p] /\ Matches(source, P[p][k].tag, U[p][i])
            /\ \A j \in DOMAIN U[p] : Matches(source, P[p][k].tag, U[p][j]) => i <= j
        BY <1>4, <1>5, <2>2, <3>2, Finds
      <3>4. m = U[p][i]
        BY <1>3, <1>4, <2>2
      <3>5. ProbedRight(P, M, p, k, m) /\ Arrived(T, p, m)
        BY <1>5, <3>3, <3>4, FindsRight
      <3> QED BY <3>5 DEF ProbedRight
    <2> QED BY <2>1, <2>2
  <1>7. /\ DOMAIN request' = Ranks /\ DOMAIN lastSource' = Ranks /\ DOMAIN seen' = Ranks
        /\ Others(p) /\ Saw(p, m) /\ at' = Next1(at, p) /\ UNCHANGED mpiVars
    BY <1>3, <1>5, SeesMade
  <1>8. /\ UNCHANGED <<Program, mode>> /\ history' = [history EXCEPT ![p][at'[p]] = Now(p)']
    BY <1>1 DEF StepRest
  <1>9. Chans' /\ GrowsTo(Program, at, msg, travelling, msg', travelling')
    <2>1. Program[p][at[p]].op \notin {"isend", "irecv"}
      BY <1>1
    <2> QED BY <1>5, <1>7, <1>8, <2>1, QuietStep
  <1>10. F = WithEvent(E, ProbeEvent(m)) /\ DOMAIN events' = Ranks
         /\ OthersSame(events, events', p)
    BY <1>3, <1>4, <1>5 DEF Frames, OthersSame, WithEvent, Record
  <1>11. g = Probed(h, k, m, Len(F))
    BY <1>4, <1>7 DEF Saw, RecState
  <1>12. Moves(P, M, T, p, k, h, g, E, F)
    BY <1>5, <1>6, <1>10, <1>11, ProbeMoves
  <1>13. Frames'
    BY <1>3, <1>5, <1>7, <1>8, <1>10 DEF Frames
  <1>14. Moves(Program, msg', travelling', p, at[p], RecState(p), RecState(p)', events[p],
               events'[p])
    BY <1>4, <1>7, <1>12 DEF mpiVars
  <1> QED BY <1>1, <1>7, <1>8, <1>9, <1>10, <1>13, <1>14, RecordedStep

\* A probe of the replay that sees what the recorded one saw keeps the invariant.
LEMMA SeesRecorded ==
  ASSUME Inv, mode = "replay", NEW p \in Ranks, at[p] \in Ops(p),
         Program[p][at[p]].op \in {"probe", "iprobe"}, StepRest(p),
         NEW m, Sees(p, m), pos' = [pos EXCEPT ![p] = @ + 1], UNCHANGED events,
         history[p][at[p] + 1] = Probed(RepState(p), at[p], m, pos[p] + 1)
  PROVE  Inv'
  <1>1. RepRight(p)
    BY RepRightBefore
  <1>2. Right(p) /\ Frames
    BY <1>1 DEF RepRight, Right
  <1>3. /\ DOMAIN request' = Ranks /\ DOMAIN lastSource' = Ranks /\ DOMAIN seen' = Ranks
        /\ Others(p) /\ Saw(p, m) /\ at' = Next1(at, p) /\ UNCHANGED mpiVars
    BY <1>2, SeesMade
  <1>4. UNCHANGED <<Program, mode, recSeen, recMsg, history, events>>
    BY DEF StepRest
  <1>5. Chans'
    BY <1>2, <1>3, <1>4, QuietStep
  <1>6. pos'[p] = pos[p] + 1 /\ DOMAIN pos' = Ranks /\ OthersSame(pos, pos', p)
    BY <1>2 DEF Frames, OthersSame
  <1>7. Frames'
    BY <1>2, <1>3, <1>4, <1>6 DEF Frames
  <1>8. SameMessages(Program, recMsg, msg') /\ PostedSources(Program, recMsg, posted')
    BY <1>1, <1>3, QuietReplay
  <1>9. RepState(p)' = Probed(RepState(p), at[p], m, pos[p] + 1)
    BY <1>3, <1>6 DEF Saw, RepState
  <1> QED BY <1>3, <1>4, <1>5, <1>6, <1>7, <1>8, <1>9, ReplayedStep

\* ProbeReplay keeps the invariant.
LEMMA ProbeReplayed ==
  ASSUME Inv, NEW p \in Ranks, ProbeReplay(p), StepRest(p)
  PROVE  Inv'
  <1>1. at[p] \in Ops(p) /\ mode = "replay" /\ Program[p][at[p]].op \in {"probe", "iprobe"}
        /\ HasEvent(p)
    BY DEF ProbeReplay, Executes
  <1>2. RepRight(p)
    BY <1>1, RepRightBefore
  <1>3. PICK P, A, M, N, T, U, Q, k, E, h, e :
          /\ P = Program /\ A = at /\ M = recMsg /\ N = msg /\ T = travelling /\ U = unexpected
          /\ Q = posted /\ k = at[p] /\ E = events[p] /\ h = RepState(p) /\ e = NextEvent(p)
    OBVIOUS
  <1>4. /\ P \in Programs /\ k \in DOMAIN P[p] /\ k = A[p] /\ MessagesRight(P, M)
        /\ SameMessages(P, M, N) /\ PostedSources(P, M, Q) /\ Channels(P, A, N, T, U, Q)
        /\ Kept(P, M, <<>>, "replay", p, k, h, history[p][k + 1], E) /\ Right(p)
        /\ P[p][k].op \in {"probe", "iprobe"}
    BY <1>1, <1>2, <1>3 DEF RepRight, Right, Chans
  <1>5. KeptProbe(P, M, <<>>, "replay", p, k, h, history[p][k + 1], E)
    BY <1>4 DEF Kept
  <1>6. PICK m \in Sendable \cup {None} :
          /\ history[p][k + 1] = Probed(h, k, m, h.events + 1)
          /\ E[h.events + 1] = ProbeEvent(m)
          /\ m # None => ProbedRight(P, M, p, k, m)
    BY <1>5 DEF KeptProbe, Probed
  <1>7. h.events = pos[p]
    BY <1>3 DEF RepState, St
  <1>8. history[p][at[p] + 1] = Probed(RepState(p), at[p], m, pos[p] + 1) /\ e = ProbeEvent(m)
    BY <1>3, <1>6, <1>7 DEF NextEvent
  <1>9. PICK i : i = Found(p, e.rank, Program[p][at[p]].tag)
    OBVIOUS
  <1>10. IF e.kind = "recv" \/ e.flag = 0
         THEN Sees(p, None) /\ pos' = [pos EXCEPT ![p] = @ + 1] /\ UNCHANGED events
         ELSE IF Peer(p) \notin {AnySource, e.rank} THEN Stop(p)
         ELSE /\ i # 0 /\ Sees(p, unexpected[p][i])
              /\ pos' = [pos EXCEPT ![p] = @ + 1] /\ UNCHANGED events
    BY <1>3, <1>9 DEF ProbeReplay, ProbedSource, Op
  <1>11. CASE m = None
    <2>1. e.flag = 0
      BY <1>8, <1>11 DEF ProbeEvent, NoMatch
    <2>2. Sees(p, m) /\ pos' = [pos EXCEPT ![p] = @ + 1] /\ UNCHANGED events
      BY <1>10, <1>11, <2>1
    <2> QED BY <1>1, <1>8, <2>2, SeesRecorded
  <1>12. CASE m # None
    <2>1. e.kind = "test" /\ e.flag = 1 /\ e.rank = m.from
      BY <1>8, <1>12 DEF ProbeEvent
    <2>2. \/ Stop(p)
          \/ /\ i # 0 /\ Sees(p, unexpected[p][i])
             /\ pos' = [pos EXCEPT ![p] = @ + 1] /\ UNCHANGED events
      BY <1>10, <2>1
    <2>3. CASE Stop(p)
      BY <1>1, <2>3, StopReplayed
    <2>4. CASE /\ i # 0 /\ Sees(p, unexpected[p][i])
               /\ pos' = [pos EXCEPT ![p] = @ + 1] /\ UNCHANGED events
      <3>1. PICK x, source : x = U[p][i] /\ source = m.from
        OBVIOUS
      <3>2. i = Found(p, source, Program[p][at[p]].tag)
        BY <1>9, <2>1, <3>1
      <3>3. /\ i \in DOMAIN U[p] /\ Matches(source, P[p][k].tag, U[p][i])
            /\ \A j \in DOMAIN U[p] : Matches(source, P[p][k].tag, U[p][j]) => i <= j
        BY <1>3, <1>4, <2>4, <3>2, Finds
      <3>4. /\ Matches(m.from, P[p][k].tag, x)
            /\ \A j \in DOMAIN U[p] : Matches(m.from, P[p][k].tag, U[p][j]) => i <= j
        BY <3>1, <3>3
      <3>5. ProbedRight(P, M, p, k, m)
        BY <1>6, <1>12
      <3>6. x = m
        BY <1>4, <3>1, <3>3, <3>4, <3>5, FindsRecorded
      <3>7. Sees(p, m)
        BY <1>3, <2>4, <3>1, <3>6
      <3> QED BY <1>1, <1>8, <2>4, <3>7, SeesRecorded
    <2> QED BY <2>2, <2>3, <2>4
  <1> QED BY <1>11, <1>12

-------------------------------------------------------------------------------

\* The operators of a matching function of process p are those of its call c, with its
\* requests and messages.
LEMMA CallIs ==
  ASSUME NEW p, NEW c, c = Op(p), NEW req, req = request[p], NEW ms, ms = msg[p]
  PROVE  /\ Indices(p) = 1..Len(c.among)
         /\ \A states : With(p, states) = WithOf(c, req, states)
         /\ NotRecorded(p) <=> Unrecorded(c, req)
         /\ Mixed(p) <=> WithOf(c, req, {"ignored"}) \notin {{}, 1..Len(c.among)}
  <1>1. Indices(p) = 1..Len(c.among)
    BY DEF Indices
  <1>2. \A states : With(p, states) = WithOf(c, req, states)
    BY DEF With, WithOf, Indices, Info
  <1> QED BY <1>1, <1>2 DEF NotRecorded, Unrecorded, Mixed

\* So is its outcome.
LEMMA OutcomeIs ==
  ASSUME NEW p, NEW c, c = Op(p), NEW req, req = request[p], NEW ms, ms = msg[p],
         NEW is, Outcome(p, is)
  PROVE  OutcomeOf(c, req, ms, is)
  <1>1. PICK active, ready :
          /\ active = WithOf(c, req, {"send", "recv", "ignored"})
          /\ ready = {i \in active : Info(p, i) = "ignored" \/ Got(p, i) # None}
    OBVIOUS
  <1>2. /\ Indices(p) = 1..Len(c.among)
        /\ \A states : With(p, states) = WithOf(c, req, states)
    BY CallIs
  <1>3. With(p, {"send", "recv", "ignored"}) = active
    BY <1>1, <1>2
  <1>4. ready = ReadyOf(c, req, ms)
    BY <1>1 DEF ReadyOf, Info, Got
  <1>5. \/ ~c.waits /\ is = {}
        \/ c.kind = "one"  /\ \E i \in ready : is = {i}
        \/ c.kind = "some" /\ is \in SUBSET ready /\ is # {}
        \/ c.kind = "all"  /\ ready = active /\ is = Indices(p)
    BY <1>1, <1>3 DEF Outcome
  <1> QED BY <1>1, <1>2, <1>4, <1>5 DEF OutcomeOf

\* So are its results, the source it leaves, and its events.
LEMMA ResultsAre ==
  ASSUME NEW p, NEW c, c = Op(p), NEW req, req = request[p], NEW ms, ms = msg[p], NEW is
  PROVE  Results(p, is) = ResultsOf(c, req, ms, is)
  <1>1. \A i : Info(p, i) = req[c.among[i]] /\ Got(p, i) = ms[c.among[i]]
    BY DEF Info, Got
  <1> QED BY <1>1, Zenon DEF Results, ResultsOf

\* So is the source that LastReceived takes from it.
LEMMA LastIs ==
  ASSUME NEW p, NEW c, c = Op(p), NEW req, req = request[p], NEW ms, ms = msg[p], NEW is
  PROVE  LastReceived(p, is) = LastOf(c, req, ms, is, lastSource[p])
  <1>1. \A i : Info(p, i) = req[c.among[i]] /\ Got(p, i) = ms[c.among[i]]
    BY DEF Info, Got
  <1>2. Received(p, is) = ReceivedOf(c, req, ms, is)
    BY <1>1, Zenon DEF Received, ReceivedOf
  <1>3. LastReceived(p, is) = IF Received(p, is) = {} THEN lastSource[p]
                              ELSE Got(p, GreatestOf(Received(p, is))).from
    BY DEF LastReceived, GreatestOf
  <1> QED BY <1>1, <1>2, <1>3 DEF LastOf

\* So are the events of its tests.
LEMMA EventsAre ==
  ASSUME NEW p, NEW c, c = Op(p), NEW req, req = request[p], NEW ms, ms = msg[p], NEW is
  PROVE  TestEvents(p, is) = TestsOf(p, c, req, ms, is)
  <1>1. \A i : Info(p, i) = req[c.among[i]] /\ Got(p, i) = ms[c.among[i]]
    BY DEF Info, Got
  <1> QED BY <1>1, Zenon DEF TestEvents, TestsOf

\* RanksSet notes the source of each receive that the call completes.
LEMMA RanksAre ==
  ASSUME NEW P, NEW p, NEW k, NEW c, NEW req, NEW ms, NEW E, NEW is,
         CallOf(P, p, k, c, req, ms, E, is)
  PROVE  RanksSet(p, is) = Noted(E, ReceivesAmong(c, req, is), SourcesOf(P, p, ms))
  <1> /\ P \in Programs /\ p \in Ranks /\ k \in DOMAIN P[p] /\ c = P[p][k]
      /\ c.op = "match" /\ c = Op(p) /\ req = request[p] /\ ms = msg[p]
      /\ E \in Seq(Events) /\ E = events[p] /\ is \in SUBSET (1..Len(c.among))
    BY DEF CallOf
  <1> PICK source : source = SourcesOf(P, p, ms)
    OBVIOUS
  <1>1. PICK R : R = ReceivesAmong(c, req, is)
    OBVIOUS
  <1>2. \A i \in 1..Len(c.among) : c.among[i] \in DOMAIN P[p]
    BY MatchRefers
  <1>3. ASSUME NEW n \in DOMAIN E, E[n].kind = "recv"
        PROVE  /\ (\E i \in is : c.among[i] = E[n].k /\ req[c.among[i]] = "recv") <=> E[n].k \in R
               /\ E[n].k \in R => source[E[n].k] = SetRank(ms[E[n].k])
    <2>1. E[n] \in Events
      BY LenProperties, ElementOfSeq
    <2>2. E[n].k \in Nat
      BY <1>3, <2>1 DEF Events
    <2>3. PICK j : j = E[n].k
      OBVIOUS
    <2>4. j \in R <=> \E i \in is : c.among[i] = j /\ req[c.among[i]] = "recv"
      BY <1>1, <2>2, <2>3 DEF ReceivesAmong
    <2>5. ASSUME j \in R PROVE source[j] = SetRank(ms[j])
      <3>1. PICK i \in is : c.among[i] = j
        BY <2>4, <2>5
      <3>2. i \in 1..Len(c.among)
        OBVIOUS
      <3>3. j \in DOMAIN P[p]
        BY <1>2, <3>1, <3>2
      <3> QED BY <3>3 DEF SourcesOf
    <2> QED BY <2>3, <2>4, <2>5
  <1>4. PICK f : f = [n \in DOMAIN E |->
          LET e == E[n] IN
            IF e.kind = "recv" /\ \E i \in is : c.among[i] = e.k /\ req[c.among[i]] = "recv"
            THEN [e EXCEPT !.rank = SetRank(ms[e.k])] ELSE e]
    OBVIOUS
  <1>5. RanksSet(p, is) = f
    BY <1>4, Zenon DEF RanksSet, Info
  <1>6. \A n \in DOMAIN E :
          (LET e == E[n] IN
             IF e.kind = "recv" /\ \E i \in is : c.among[i] = e.k /\ req[c.among[i]] = "recv"
             THEN [e EXCEPT !.rank = SetRank(ms[e.k])] ELSE e)
          = (IF E[n].kind = "recv" /\ E[n].k \in R
             THEN [E[n] EXCEPT !.rank = source[E[n].k]] ELSE E[n])
    <2> SUFFICES ASSUME NEW n \in DOMAIN E
                 PROVE
          (IF E[n].kind = "recv" /\ \E i \in is : c.among[i] = E[n].k /\ req[c.among[i]] = "recv"
             THEN [E[n] EXCEPT !.rank = SetRank(ms[E[n].k])] ELSE E[n])
          = (IF E[n].kind = "recv" /\ E[n].k \in R
             THEN [E[n] EXCEPT !.rank = source[E[n].k]] ELSE E[n])
      OBVIOUS
    <2>1. CASE E[n].kind # "recv"
      BY <2>1
    <2>2. CASE E[n].kind = "recv"
      <3>1. (\E i \in is : c.among[i] = E[n].k /\ req[c.among[i]] = "recv") <=> E[n].k \in R
        BY <1>3, <2>2
      <3>2. E[n].k \in R => source[E[n].k] = SetRank(ms[E[n].k])
        BY <1>3, <2>2
      <3> QED BY <2>2, <3>1, <3>2, Zenon
    <2> QED BY <2>1, <2>2
  <1>7. f = Noted(E, R, source)
    BY <1>4, <1>6, Zenon DEF Noted
  <1> QED BY <1>1, <1>5, <1>7

\* Returns makes the state of the process that of Did, and leaves the others.
LEMMA ReturnsMade ==
  ASSUME Frames, NEW p \in Ranks, NEW is, DOMAIN request[p] = DOMAIN Program[p], Returns(p, is)
  PROVE  /\ DOMAIN request' = Ranks /\ DOMAIN lastSource' = Ranks /\ DOMAIN seen' = Ranks
         /\ Others(p) /\ Did(p, is) /\ at' = Next1(at, p) /\ UNCHANGED mpiVars
  <1>1. PICK c, k, req, ms, last, what :
          /\ c = Program[p][at[p]] /\ k = at[p] /\ req = request[p] /\ ms = msg[p]
          /\ last = lastSource[p] /\ what = seen[p]
    OBVIOUS
  <1>2. c = Op(p)
    BY <1>1 DEF Op
  <1>3. /\ request'[p] = NulledBy(c, req, is) /\ DOMAIN request' = Ranks
        /\ \A q \in Ranks : q # p => request'[q] = request[q]
    <2>1. NulledBy(c, req, is) =
            [j \in Ops(p) |-> IF \E i \in is : Op(p).among[i] = j THEN "null" ELSE request[p][j]]
      BY <1>1, <1>2 DEF NulledBy, Ops
    <2> QED BY <2>1 DEF Returns, Completed, Frames
  <1>4. /\ seen'[p] = Append(what, <<k, ResultsOf(c, req, ms, is)>>) /\ DOMAIN seen' = Ranks
        /\ \A q \in Ranks : q # p => seen'[q] = seen[q]
    <2>1. Results(p, is) = ResultsOf(c, req, ms, is)
      BY <1>1, <1>2, ResultsAre
    <2>2. seen' = [seen EXCEPT ![p] = Append(@, <<at[p], Results(p, is)>>)]
      BY DEF Returns, Observes
    <2> QED BY <1>1, <2>1, <2>2 DEF Frames
  <1>5. /\ lastSource'[p] = LastOf(c, req, ms, is, last)
        /\ DOMAIN lastSource' = Ranks /\ \A q \in Ranks : q # p => lastSource'[q] = lastSource[q]
    <2>1. LastReceived(p, is) = LastOf(c, req, ms, is, lastSource[p])
      BY <1>1, <1>2, LastIs
    <2> QED BY <1>1, <2>1 DEF Returns, Frames
  <1>6. at' = Next1(at, p) /\ UNCHANGED mpiVars
    BY DEF Returns, Return, Next1
  <1>7. Others(p)
    BY <1>3, <1>4, <1>5 DEF Others, OthersSame
  <1>8. ASSUME NEW x, NEW n
        PROVE  St(request'[p], lastSource'[p], seen'[p], n) =
                 Matched(c, k, St(req, last, what, x), ms, is, n)
    <2>1. PICK h : h = St(req, last, what, x)
      OBVIOUS
    <2>2. h.request = req /\ h.lastSource = last /\ h.seen = what
      BY <2>1 DEF St
    <2> QED BY <1>3, <1>4, <1>5, <2>1, <2>2 DEF Matched
  <1>9. Did(p, is)
    BY <1>1, <1>8 DEF Did
  <1> QED BY <1>3, <1>4, <1>5, <1>6, <1>7, <1>9

-------------------------------------------------------------------------------

\* A call of the recorded run that returns with these requests keeps the invariant.
LEMMA ReturnsRecorded ==
  ASSUME AllReplayable, Inv, mode = "record", NEW p \in Ranks, at[p] \in Ops(p),
         Program[p][at[p]].op = "match", StepRest(p), NEW is, Returns(p, is),
         UNCHANGED pos, DOMAIN events' = Ranks, OthersSame(events, events', p),
         NEW g, g = Matched(Program[p][at[p]], at[p], RecState(p), msg[p], is,
                            Len(events'[p])),
         Moves(Program, msg, travelling, p, at[p], RecState(p), g, events[p], events'[p])
  PROVE  Inv'
  <1>1. Right(p) /\ Frames /\ StateRight(Program, p, at[p], RecState(p))
    BY RecRightBefore DEF RecRight, Right
  <1>2. DOMAIN request[p] = DOMAIN Program[p]
    BY <1>1 DEF StateRight, RecState, St
  <1>3. /\ DOMAIN request' = Ranks /\ DOMAIN lastSource' = Ranks /\ DOMAIN seen' = Ranks
        /\ Others(p) /\ Did(p, is) /\ at' = Next1(at, p) /\ UNCHANGED mpiVars
    BY <1>1, <1>2, ReturnsMade
  <1>4. /\ UNCHANGED <<Program, mode>> /\ history' = [history EXCEPT ![p][at'[p]] = Now(p)']
    BY DEF StepRest
  <1>5. Chans' /\ GrowsTo(Program, at, msg, travelling, msg', travelling')
    BY <1>1, <1>3, <1>4, QuietStep
  <1>6. RecState(p)' = g
    BY <1>3 DEF Did, RecState
  <1>7. Frames'
    BY <1>1, <1>3, <1>4 DEF Frames
  <1>8. Moves(Program, msg', travelling', p, at[p], RecState(p), RecState(p)', events[p],
              events'[p])
    BY <1>3, <1>6 DEF mpiVars
  <1> QED BY <1>3, <1>4, <1>5, <1>7, <1>8, RecordedStep

\* A call of the replay that returns as the recorded one did keeps the invariant.
LEMMA ReturnsReplayed ==
  ASSUME Inv, mode = "replay", NEW p \in Ranks, at[p] \in Ops(p),
         Program[p][at[p]].op = "match", StepRest(p), NEW is, Returns(p, is),
         UNCHANGED events, DOMAIN pos' = Ranks, OthersSame(pos, pos', p),
         history[p][at[p] + 1] = Matched(Program[p][at[p]], at[p], RepState(p), msg[p], is,
                                         pos'[p])
  PROVE  Inv'
  <1>1. RepRight(p)
    BY RepRightBefore
  <1>2. Right(p) /\ Frames /\ StateRight(Program, p, at[p], RepState(p))
    BY <1>1 DEF RepRight, Right
  <1>3. DOMAIN request[p] = DOMAIN Program[p]
    BY <1>2 DEF StateRight, RepState, St
  <1>4. /\ DOMAIN request' = Ranks /\ DOMAIN lastSource' = Ranks /\ DOMAIN seen' = Ranks
        /\ Others(p) /\ Did(p, is) /\ at' = Next1(at, p) /\ UNCHANGED mpiVars
    BY <1>2, <1>3, ReturnsMade
  <1>5. UNCHANGED <<Program, mode, recSeen, recMsg, history, events>>
    BY DEF StepRest
  <1>6. Chans'
    BY <1>2, <1>4, <1>5, QuietStep
  <1>7. Frames'
    BY <1>2, <1>4, <1>5 DEF Frames
  <1>8. SameMessages(Program, recMsg, msg') /\ PostedSources(Program, recMsg, posted')
    BY <1>1, <1>4, QuietReplay
  <1>9. RepState(p)' = history[p][at[p] + 1]
    BY <1>4 DEF Did, RepState
  <1> QED BY <1>4, <1>5, <1>6, <1>7, <1>8, <1>9, ReplayedStep

\* MatchUnrecorded completes what PassedBy says.
LEMMA PassIs ==
  ASSUME NEW p, MatchUnrecorded(p)
  PROVE  /\ UNCHANGED <<events, pos>> /\ at[p] \in Ops(p) /\ Program[p][at[p]].op = "match"
         /\ \E is : Returns(p, is) /\ PassedBy(Program[p][at[p]], request[p], msg[p], is)
  <1>1. PICK c, req, ms : c = Op(p) /\ req = request[p] /\ ms = msg[p]
    OBVIOUS
  <1>2. /\ Indices(p) = 1..Len(c.among)
        /\ With(p, {"ignored"}) = WithOf(c, req, {"ignored"})
        /\ NotRecorded(p) <=> Unrecorded(c, req)
        /\ Mixed(p) <=> WithOf(c, req, {"ignored"}) \notin {{}, 1..Len(c.among)}
    BY <1>1, CallIs
  <1>3. Unrecorded(c, req) /\ WithOf(c, req, {"ignored"}) \in {{}, 1..Len(c.among)}
    BY <1>2 DEF MatchUnrecorded
  <1>4. PICK is : /\ Returns(p, is) /\ is \in SUBSET (1..Len(c.among))
                  /\ IF WithOf(c, req, {"ignored"}) = {} THEN is = {} ELSE Outcome(p, is)
    BY <1>2, SMTT(20) DEF MatchUnrecorded
  <1>5. Outcome(p, is) => OutcomeOf(c, req, ms, is)
    BY <1>1, OutcomeIs
  <1>6. PassedBy(c, req, ms, is)
    BY <1>3, <1>4, <1>5 DEF PassedBy
  <1>7. UNCHANGED <<events, pos>> /\ at[p] \in Ops(p) /\ Program[p][at[p]].op = "match"
    BY DEF MatchUnrecorded, Executes
  <1> QED BY <1>1, <1>4, <1>6, <1>7 DEF Op

\* MatchUnrecorded keeps the invariant.
LEMMA PassRecorded ==
  ASSUME AllReplayable, Inv, mode = "record", NEW p \in Ranks, MatchUnrecorded(p), StepRest(p)
  PROVE  Inv'
  <1>1. PICK is : /\ UNCHANGED <<events, pos>> /\ at[p] \in Ops(p)
                  /\ Program[p][at[p]].op = "match" /\ Returns(p, is)
                  /\ PassedBy(Program[p][at[p]], request[p], msg[p], is)
    BY PassIs
  <1>2. RecRight(p)
    BY <1>1, RecRightBefore
  <1>3. PICK P, M, V, k, c, E, h, g, ms :
          /\ P = Program /\ M = msg /\ V = travelling /\ k = at[p] /\ c = P[p][k]
          /\ E = events[p] /\ h = RecState(p) /\ ms = msg[p]
          /\ g = Matched(c, k, h, M[p], is, Len(E))
    OBVIOUS
  <1>4. /\ P \in Programs /\ Replayable(P) /\ k \in DOMAIN P[p] /\ c.op = "match"
        /\ StateRight(P, p, k, h) /\ MessagesRight(P, M) /\ h.request = request[p]
        /\ E \in Seq(Events) /\ h.events = Len(E) /\ RanksRight(P, M, p, h.request, E) /\ Frames
    BY <1>1, <1>2, <1>3 DEF RecRight, Right, AllReplayable, RecState, St
  <1>5. PassedBy(c, h.request, ms, is) /\ c = P[p][k]
    BY <1>1, <1>3, <1>4
  <1>6. is = WithOf(c, h.request, {"ignored"})
    BY <1>4, <1>5, PassCompletes
  <1>7. is \in {{}, 1..Len(c.among)} /\ Unrecorded(c, h.request)
    BY <1>5, <1>6 DEF PassedBy
  <1>8. Moves(P, M, V, p, k, h, g, E, E)
    BY <1>3, <1>4, <1>5, <1>6, <1>7, PassMoves
  <1>9. events' = events
    BY <1>1
  <1>10. g = Matched(Program[p][at[p]], at[p], RecState(p), msg[p], is, Len(events'[p]))
    BY <1>3, <1>9
  <1>11. Moves(Program, msg, travelling, p, at[p], RecState(p), g, events[p], events'[p])
    BY <1>3, <1>8, <1>9
  <1>12. DOMAIN events' = Ranks /\ OthersSame(events, events', p)
    BY <1>4, <1>9 DEF Frames, OthersSame
  <1> QED BY <1>1, <1>10, <1>11, <1>12, ReturnsRecorded

\* In the replay it completes what it completed in the recorded run.
LEMMA PassReplayed ==
  ASSUME AllReplayable, Inv, mode = "replay", NEW p \in Ranks, MatchUnrecorded(p), StepRest(p)
  PROVE  Inv'
  <1>1. PICK is : /\ UNCHANGED <<events, pos>> /\ at[p] \in Ops(p)
                  /\ Program[p][at[p]].op = "match" /\ Returns(p, is)
                  /\ PassedBy(Program[p][at[p]], request[p], msg[p], is)
    BY PassIs
  <1>2. RepRight(p)
    BY <1>1, RepRightBefore
  <1>3. PICK P, A, M, N, k, c, E, h, g, ms :
          /\ P = Program /\ A = at /\ M = recMsg /\ N = msg /\ k = at[p] /\ c = P[p][k]
          /\ E = events[p] /\ h = RepState(p) /\ ms = msg[p]
          /\ g = history[p][at[p] + 1]
    OBVIOUS
  <1>4. /\ P \in Programs /\ Replayable(P) /\ k \in DOMAIN P[p] /\ k = A[p] /\ c.op = "match"
        /\ StateRight(P, p, k, h) /\ MessagesRight(P, M) /\ MessagesRight(P, N)
        /\ SameMessages(P, M, N) /\ Progress(P, A, N) /\ h.request = request[p] /\ Frames
        /\ h.events = pos[p]
    BY <1>1, <1>2, <1>3 DEF RepRight, Right, AllReplayable, RepState, St
  <1>5. KeptMatch(M, p, k, c, h, g, E)
    BY <1>2, <1>3, <1>4 DEF RepRight, Kept
  <1>6. PassedBy(c, h.request, ms, is) /\ c = P[p][k]
    BY <1>1, <1>3, <1>4
  <1>7. is = WithOf(c, h.request, {"ignored"})
    <2>1. /\ P \in Programs /\ Replayable(P) /\ k \in DOMAIN P[p] /\ c = P[p][k]
          /\ c.op = "match" /\ StateRight(P, p, k, h)
      BY <1>4, <1>6
    <2>2. PassedBy(c, h.request, ms, is)
      BY <1>6
    <2> QED BY <2>1, <2>2, PassCompletes
  <1>8. Unrecorded(c, h.request)
    BY <1>6 DEF PassedBy
  <1>9. g = Matched(c, k, h, N[p], is, h.events)
    <2>1. Repeats(P, A, M, N, p, k, c, h)
      BY <1>3, <1>4 DEF Repeats
    <2> QED BY <1>5, <1>7, <1>8, <2>1, PassFollows
  <1>10. pos' = pos /\ events' = events
    BY <1>1
  <1>11. history[p][at[p] + 1] = Matched(Program[p][at[p]], at[p], RepState(p), msg[p], is,
                                         pos'[p])
    BY <1>3, <1>4, <1>9, <1>10
  <1>12. DOMAIN pos' = Ranks /\ OthersSame(pos, pos', p)
    BY <1>4, <1>10 DEF Frames, OthersSame
  <1> QED BY <1>1, <1>10, <1>11, <1>12, ReturnsReplayed

\* MatchRecord keeps the invariant.
LEMMA MatchRecorded ==
  ASSUME AllReplayable, Inv, NEW p \in Ranks, MatchRecord(p), StepRest(p)
  PROVE  Inv'
  <1>1. at[p] \in Ops(p) /\ mode = "record" /\ Program[p][at[p]].op = "match"
    BY DEF MatchRecord, Executes
  <1>2. CASE Mixed(p)
    <2>1. Stop(p)
      BY <1>2 DEF MatchRecord
    <2> QED BY <1>1, <2>1, StopRecorded
  <1>3. CASE ~Mixed(p)
    <2>1. RecRight(p)
      BY <1>1, RecRightBefore
    <2>2. PICK is \in SUBSET Indices(p) :
            /\ Outcome(p, is)
            /\ events' = [events EXCEPT ![p] = RanksSet(p, is) \o TestEvents(p, is)]
            /\ Returns(p, is) /\ UNCHANGED pos
      BY <1>3 DEF MatchRecord
    <2>3. PICK P, M, V, k, c, req, ms, E, F, h :
            /\ P = Program /\ M = msg /\ V = travelling /\ k = at[p] /\ c = P[p][k]
            /\ req = request[p] /\ ms = msg[p]
            /\ E = events[p] /\ F = events'[p] /\ h = RecState(p)
      OBVIOUS
    <2>4. PICK g : g = Matched(c, k, h, M[p], is, Len(F))
      OBVIOUS
    <2>5. /\ P \in Programs /\ k \in DOMAIN P[p] /\ c.op = "match" /\ c = Op(p)
          /\ StateRight(P, p, k, h) /\ MessagesRight(P, M) /\ h.request = request[p]
          /\ E \in Seq(Events) /\ h.events = Len(E) /\ RanksRight(P, M, p, h.request, E)
          /\ Frames
      BY <1>1, <2>1, <2>3 DEF RecRight, Right, RecState, St, Op
    <2>6. /\ Indices(p) = 1..Len(c.among)
          /\ NotRecorded(p) <=> Unrecorded(c, req)
          /\ Mixed(p) <=> WithOf(c, req, {"ignored"}) \notin {{}, 1..Len(c.among)}
      BY <2>3, <2>5, CallIs
    <2>7. is \in SUBSET (1..Len(c.among))
      BY <2>2, <2>6
    <2>8. ~Unrecorded(c, h.request)
          /\ WithOf(c, h.request, {"ignored"}) \in {{}, 1..Len(c.among)}
      BY <1>3, <2>3, <2>5, <2>6 DEF MatchRecord
    <2>9. OutcomeOf(c, req, ms, is)
      BY <2>2, <2>3, <2>5, OutcomeIs
    <2>10. Len(c.among) \in Nat
      BY <2>5, MatchRefers
    <2>11. HaveMessages(c, req, ms, is) /\ (NoChoice(c) => is = 1..Len(c.among))
      BY <2>7, <2>9, <2>10, OutcomeCompletes
    <2>12. \A i \in is : h.request[c.among[i]] \in {"send", "recv"} => M[p][c.among[i]] # None
      BY <2>3, <2>5, <2>11 DEF HaveMessages
    <2>13. F = Written(P, p, c, h.request, M, is, E)
      <3>1. /\ c = P[p][k] /\ c.op = "match" /\ c = Op(p) /\ req = request[p] /\ ms = msg[p]
            /\ E = events[p] /\ P \in Programs /\ k \in DOMAIN P[p] /\ E \in Seq(Events)
        BY <2>3, <2>5
      <3>2. RanksSet(p, is) = Noted(E, ReceivesAmong(c, req, is), SourcesOf(P, p, ms))
        <4>1. CallOf(P, p, k, c, req, ms, E, is)
          BY <2>7, <3>1 DEF CallOf
        <4> QED BY <4>1, RanksAre
      <3>3. TestEvents(p, is) = TestsOf(p, c, req, ms, is)
        BY <2>3, <2>5, EventsAre
      <3>4. F = RanksSet(p, is) \o TestEvents(p, is)
        BY <2>2, <2>3, <2>5 DEF Frames
      <3> QED BY <2>3, <2>5, <3>2, <3>3, <3>4 DEF Written, SourcesOf
    <2>14. Moves(P, M, V, p, k, h, g, E, F)
      BY <2>3, <2>4, <2>5, <2>7, <2>8, <2>11, <2>12, <2>13, MatchMoves
    <2>15. DOMAIN events' = Ranks /\ OthersSame(events, events', p)
      BY <2>2, <2>5 DEF Frames, OthersSame
    <2>16. g = Matched(Program[p][at[p]], at[p], RecState(p), msg[p], is, Len(events'[p]))
      BY <2>3, <2>4
    <2>17. Moves(Program, msg, travelling, p, at[p], RecState(p), g, events[p], events'[p])
      BY <2>3, <2>14
    <2> QED BY <1>1, <2>2, <2>15, <2>16, <2>17, ReturnsRecorded
  <1> QED BY <1>2, <1>3

\* MatchReplay keeps the invariant.
LEMMA MatchReplayed ==
  ASSUME AllReplayable, Inv, NEW p \in Ranks, MatchReplay(p), StepRest(p)
  PROVE  Inv'
  <1>1. at[p] \in Ops(p) /\ mode = "replay" /\ Program[p][at[p]].op = "match"
        /\ ~NotRecorded(p)
    BY DEF MatchReplay, Executes
  <1>2. RepRight(p)
    BY <1>1, RepRightBefore
  <1>3. PICK P, A, M, N, k, c, req, E, h, g, z, js :
          /\ P = Program /\ A = at /\ M = recMsg /\ N = msg /\ k = at[p] /\ c = P[p][k]
          /\ req = request[p]
          /\ E = events[p] /\ h = RepState(p) /\ g = history[p][at[p] + 1]
          /\ z = EndOfGroup(E, h.events) /\ js = Completing(SubSeq(E, h.events + 1, z))
    OBVIOUS
  <1>4. /\ P \in Programs /\ Replayable(P) /\ k \in DOMAIN P[p] /\ k = A[p] /\ c.op = "match"
        /\ StateRight(P, p, k, h) /\ MessagesRight(P, M) /\ MessagesRight(P, N)
        /\ SameMessages(P, M, N) /\ Progress(P, A, N) /\ h.request = request[p] /\ Frames
        /\ h.events = pos[p] /\ E \in Seq(Events) /\ c = Op(p)
    BY <1>1, <1>2, <1>3 DEF RepRight, Right, AllReplayable, RepState, St, Op
  <1>5. KeptMatch(M, p, k, c, h, g, E)
    BY <1>2, <1>3, <1>4 DEF RepRight, Kept
  <1>6. /\ Indices(p) = 1..Len(c.among)
        /\ With(p, {"recv"}) = WithOf(c, req, {"recv"})
        /\ NotRecorded(p) <=> Unrecorded(c, req)
    BY <1>3, <1>4, CallIs
  <1>7. LastOfGroup(p) = z
    BY <1>3, <1>4 DEF LastOfGroup, EndOfGroup
  <1>8. Group(p) = SubSeq(E, h.events + 1, z)
    BY <1>3, <1>4, <1>7 DEF Group
  <1>9. js = {e.index : e \in {e \in ToSet(Group(p)) : e.kind = "test" /\ e.flag = 1}}
    BY <1>3, <1>8 DEF Completing
  <1>10. /\ \A i \in js \cap With(p, {"recv"}) : Got(p, i) # None
         /\ \/ Stop(p)
            \/ /\ Returns(p, js) /\ pos' = [pos EXCEPT ![p] = LastOfGroup(p)]
               /\ UNCHANGED events
    BY <1>9 DEF MatchReplay
  <1>11. CASE Stop(p)
    BY <1>1, <1>11, StopReplayed
  <1>12. CASE Returns(p, js) /\ pos' = [pos EXCEPT ![p] = LastOfGroup(p)] /\ UNCHANGED events
    <2>1. ~Unrecorded(c, h.request)
      BY <1>1, <1>3, <1>4, <1>6
    <2>2. Awaited(c, h.request, js, N[p])
      BY <1>3, <1>4, <1>6, <1>10 DEF Got, Awaited
    <2>3. z = EndOfGroup(E, h.events) /\ js = Completing(SubSeq(E, h.events + 1, z))
      BY <1>3
    <2>4. g = Matched(c, k, h, N[p], js, z)
      <3>1. Repeats(P, A, M, N, p, k, c, h)
        BY <1>3, <1>4 DEF Repeats
      <3>2. E \in Seq(Events)
        BY <1>4
      <3> QED BY <1>5, <2>1, <2>2, <2>3, <3>1, <3>2, MatchFollows
    <2>5. pos'[p] = z /\ DOMAIN pos' = Ranks /\ OthersSame(pos, pos', p)
      BY <1>4, <1>7, <1>12 DEF Frames, OthersSame
    <2>6. history[p][at[p] + 1] = Matched(Program[p][at[p]], at[p], RepState(p), msg[p], js,
                                          pos'[p])
      BY <1>3, <2>4, <2>5
    <2> QED BY <1>1, <1>12, <2>5, <2>6, ReturnsReplayed
  <1> QED BY <1>10, <1>11, <1>12

-------------------------------------------------------------------------------

\* Every operation of a process keeps the invariant.
LEMMA StepKeeps ==
  ASSUME AllReplayable, Inv, NEW p \in Ranks, Step(p)
  PROVE  Inv'
  <1>1. StepRest(p)
    BY DEF Step, StepRest
  <1>2. mode = "record" \/ mode = "replay"
    BY DEF Inv
  <1>3. CASE Isend(p)
    BY <1>1, <1>2, <1>3, IsendRecorded, IsendReplayed
  <1>4. CASE Unsupported(p)
    BY <1>1, <1>2, <1>4, OtherRecorded, OtherReplayed
  <1>5. CASE IrecvRecord(p)
    BY <1>1, <1>5, IrecvRecorded
  <1>6. CASE IrecvReplay(p)
    BY <1>1, <1>6, IrecvReplayed
  <1>7. CASE MatchUnrecorded(p)
    BY <1>1, <1>2, <1>7, PassRecorded, PassReplayed
  <1>8. CASE MatchRecord(p)
    BY <1>1, <1>8, MatchRecorded
  <1>9. CASE MatchReplay(p)
    BY <1>1, <1>9, MatchReplayed
  <1>10. CASE ProbeRecord(p)
    BY <1>1, <1>10, ProbeRecorded
  <1>11. CASE ProbeReplay(p)
    BY <1>1, <1>11, ProbeReplayed
  <1>12. CASE Cancel(p)
    <2>1. CASE Cancelling(p)
      BY <1>1, <1>2, <2>1, CancelRecorded, CancelReplayed
    <2>2. CASE Stop(p)
      <3>1. at[p] \in Ops(p)
        BY <1>12 DEF Cancel, Executes
      <3> QED BY <1>1, <1>2, <2>2, <3>1, StopRecorded, StopReplayed
    <2> QED BY <1>12, <2>1, <2>2, CancelStops
  <1> QED BY <1>3, <1>4, <1>5, <1>6, <1>7, <1>8, <1>9, <1>10, <1>11, <1>12 DEF Step

\* Arrive is one of the two.
LEMMA ArriveDelivers ==
  ASSUME Chans, NEW s \in Ranks, NEW d \in Ranks, Arrive(s, d)
  PROVE  \E m : Delivered(s, d, m) /\ (ArrivesUnexpected(d, m) \/ \E i : GoesTo(d, i, m))
  <1>1. PICK m, q, i : m = Head(travelling[<<s, d>>]) /\ q = posted[d] /\ i = FirstTaker(q, m)
    OBVIOUS
  <1>2. i = Taker(d, m)
    BY <1>1 DEF Taker, FirstTaker
  <1>3. q \in Seq(Waiting)
    BY <1>1 DEF Chans, Channels, PostedRight
  <1>4. IF \A r \in ToSet(q) : ~Matches(r.source, r.tag, m) THEN i = 0
        ELSE /\ i \in DOMAIN q /\ Matches(q[i].source, q[i].tag, m)
             /\ \A j \in DOMAIN q : Matches(q[j].source, q[j].tag, m) => i <= j
    BY <1>1, <1>3, FirstPosted
  <1>5. Delivered(s, d, m)
    BY <1>1 DEF Arrive, Delivered, WithoutFirst
  <1>6. IF i = 0
        THEN /\ unexpected' = [unexpected EXCEPT ![d] = Append(@, m)]
             /\ UNCHANGED <<posted, msg>>
        ELSE /\ msg' = [msg EXCEPT ![d][posted[d][i].k] = m]
             /\ posted' = [posted EXCEPT ![d] = RemoveAt(@, i)]
             /\ UNCHANGED unexpected
    BY <1>1, <1>2 DEF Arrive
  <1>7. 0 \notin DOMAIN q
    BY <1>3, LenProperties
  <1>8. CASE i = 0
    <2>1. \A r \in ToSet(q) : ~Matches(r.source, r.tag, m)
      BY <1>4, <1>7, <1>8
    <2>2. ArrivesUnexpected(d, m)
      BY <1>1, <1>6, <1>8, <2>1 DEF ArrivesUnexpected, WithElement
    <2> QED BY <1>5, <2>2
  <1>9. CASE i # 0
    <2>1. /\ i \in DOMAIN q /\ Matches(q[i].source, q[i].tag, m)
          /\ \A j \in DOMAIN q : Matches(q[j].source, q[j].tag, m) => i <= j
      BY <1>4, <1>9
    <2>2. GoesTo(d, i, m)
      BY <1>1, <1>6, <1>9, <2>1 DEF GoesTo, With1, Without
    <2> QED BY <1>5, <2>2
  <1> QED BY <1>8, <1>9

\* The channels stay right, the recorded run grows, and a replayed receive gets the
\* message that the recorded one got.
LEMMA DeliveryRight ==
  ASSUME Inv, NEW s, NEW d, NEW m, Delivered(s, d, m),
         ArrivesUnexpected(d, m) \/ \E i : GoesTo(d, i, m), UNCHANGED <<Program, at>>
  PROVE  /\ Chans' /\ GrowsTo(Program, at, msg, travelling, msg', travelling')
         /\ mode = "replay" => /\ SameMessages(Program, recMsg, msg')
                               /\ PostedSources(Program, recMsg, posted')
  <1>1. PICK P, A, M, T, U, Q, H :
          /\ P = Program /\ A = at /\ M = msg /\ T = travelling /\ U = unexpected /\ Q = posted
          /\ H = recMsg
    OBVIOUS
  <1>2. PICK N, V, W, R : N = msg' /\ V = travelling' /\ W = unexpected' /\ R = posted'
    OBVIOUS
  <1>3. P \in Programs /\ Channels(P, A, M, T, U, Q)
    BY <1>1 DEF Inv, Chans
  <1>4. /\ s \in Ranks /\ d \in Ranks /\ T[<<s, d>>] # <<>> /\ m = Head(T[<<s, d>>])
        /\ V = WithoutFirst(T, s, d)
    BY <1>1, <1>2 DEF Delivered
  <1>5. MessagesRight(P, M) /\ TravellingRight(P, M, T) /\ Tables(P, M)
    BY <1>3 DEF Channels, Pipes, MessagesRight
  <1>6. mode = "replay" => /\ MessagesRight(P, H) /\ SameMessages(P, H, M)
                           /\ PostedSources(P, H, Q)
    BY <1>1 DEF Inv, Replaying
  <1>7. CASE ArrivesUnexpected(d, m)
    <2>1. \A r \in ToSet(Q[d]) : ~Matches(r.source, r.tag, m)
      BY <1>1, <1>7 DEF ArrivesUnexpected
    <2>2. W = WithElement(U, d, m) /\ R = Q /\ N = M
      BY <1>1, <1>2, <1>7 DEF ArrivesUnexpected
    <2>3. Channels(P, A, M, V, W, Q)
      BY <1>3, <1>4, <2>1, <2>2, ArriveChannels
    <2>4. GrowsTo(P, A, M, T, M, V)
      BY <1>3, <1>4, <1>5, ArriveGrows
    <2>5. Chans'
      BY <1>1, <1>2, <2>2, <2>3 DEF Chans
    <2> QED BY <1>1, <1>2, <1>6, <2>2, <2>4, <2>5
  <1>8. ASSUME NEW i, GoesTo(d, i, m)
        PROVE  /\ Chans' /\ GrowsTo(P, A, M, T, N, V)
               /\ mode = "replay" => SameMessages(P, H, N) /\ PostedSources(P, H, R)
    <2>1. PICK k : k = Q[d][i].k
      OBVIOUS
    <2>2. /\ i \in DOMAIN Q[d] /\ Matches(Q[d][i].source, Q[d][i].tag, m)
          /\ \A j \in DOMAIN Q[d] : Matches(Q[d][j].source, Q[d][j].tag, m) => i <= j
      BY <1>1, <1>8 DEF GoesTo
    <2>3. N = With1(M, d, k, m) /\ R = Without(Q, d, i) /\ W = U
      BY <1>1, <1>2, <1>8, <2>1 DEF GoesTo
    <2>4. /\ Channels(P, A, N, V, U, R) /\ k \in DOMAIN P[d] /\ CanGet(P, M, d, k, m)
          /\ NoNewPosts(Q, R)
      BY <1>3, <1>4, <2>1, <2>2, <2>3, DeliverChannels
    <2>5. GrowsTo(P, A, M, T, N, V)
      BY <1>3, <1>4, <1>5, <2>3, <2>4, DeliverGrows
    <2>6. Chans'
      BY <1>1, <1>2, <2>3, <2>4 DEF Chans
    <2>7. ASSUME mode = "replay" PROVE SameMessages(P, H, N) /\ PostedSources(P, H, R)
      <3>1. MessagesRight(P, H) /\ SameMessages(P, H, M) /\ PostedSources(P, H, Q)
        BY <1>6, <2>7
      <3>2. m = H[d][k]
        <4>1. d \in Ranks /\ k \in DOMAIN P[d] /\ CanGet(P, M, d, k, m)
          BY <1>4, <2>4
        <4>2. TakesFirst(Q, d, i, m)
          BY <2>2 DEF TakesFirst
        <4> QED BY <1>3, <2>1, <3>1, <4>1, <4>2, DeliversRecorded
      <3>3. SameMessages(P, H, N)
        BY <1>4, <1>5, <2>3, <2>4, <3>1, <3>2, SameGet
      <3>4. PostedSources(P, H, R)
        BY <2>4, <3>1, DropsSource
      <3> QED BY <3>3, <3>4
    <2> QED BY <2>5, <2>6, <2>7
  <1> QED BY <1>1, <1>2, <1>7, <1>8

\* Deliver keeps the invariant.
LEMMA DeliverKeeps ==
  ASSUME AllReplayable, Inv, Deliver
  PROVE  Inv'
  <1>1. PICK s, d \in Ranks : Arrive(s, d)
    BY DEF Deliver
  <1>2. UNCHANGED <<Program, mode, at, request, lastSource, seen, events, pos, history,
                    recSeen, recMsg>>
    BY DEF Deliver, appVars, remVars, recVars
  <1>3. Chans
    BY DEF Inv
  <1>4. PICK m : Delivered(s, d, m) /\ (ArrivesUnexpected(d, m) \/ \E i : GoesTo(d, i, m))
    BY <1>1, <1>3, ArriveDelivers
  <1>5. /\ Chans' /\ GrowsTo(Program, at, msg, travelling, msg', travelling')
        /\ mode = "replay" => /\ SameMessages(Program, recMsg, msg')
                              /\ PostedSources(Program, recMsg, posted')
    BY <1>2, <1>4, DeliveryRight
  <1>6. PICK P, A, M, T, N, V, H, E, req, last, what :
          /\ P = Program /\ A = at /\ M = msg /\ T = travelling /\ N = msg' /\ V = travelling'
          /\ H = history /\ E = events /\ req = request /\ last = lastSource /\ what = seen
    OBVIOUS
  <1>7. /\ P \in Programs /\ Replayable(P) /\ MessagesRight(P, M) /\ Progress(P, A, M)
    BY <1>3, <1>6 DEF Inv, AllReplayable, Chans, Channels, Pipes
  <1>8. MessagesRight(P, N) /\ GrowsTo(P, A, M, T, N, V)
    BY <1>2, <1>5, <1>6 DEF Chans, Channels, Pipes
  <1>9. Recording'
    <2> SUFFICES ASSUME mode = "record" PROVE RecordingOf(P, A, N, V, H, E, req, last, what)
      BY <1>2, <1>6 DEF Recording
    <2>1. RecordingOf(P, A, M, T, H, E, req, last, what)
      BY <1>6 DEF Inv, Recording
    <2> QED BY <1>7, <1>8, <2>1, RecordDelivery
  <1>10. Replaying'
    BY <1>2, <1>5 DEF Inv, Replaying
  <1>11. Frames'
    BY <1>2 DEF Inv, Frames
  <1> QED BY <1>2, <1>5, <1>9, <1>10, <1>11 DEF Inv

\* The channels of a run that starts are right.
LEMMA FreshChannels ==
  ASSUME Program \in Programs, Fresh
  PROVE  Chans
  <1>1. PICK P, A, M, T, U, Q :
          /\ P = Program /\ A = at /\ M = msg /\ T = travelling /\ U = unexpected /\ Q = posted
    OBVIOUS
  <1>2. P \in Programs /\ A = [p \in Ranks |-> 1]
        /\ M = [p \in Ranks |-> [k \in DOMAIN P[p] |-> None]]
        /\ T = [channel \in Ranks \X Ranks |-> <<>>]
        /\ U = [p \in Ranks |-> <<>>] /\ Q = [p \in Ranks |-> <<>>]
    BY <1>1 DEF Fresh
  <1>3. Channels(P, A, M, T, U, Q)
    BY <1>2, StartChannels
  <1> QED BY <1>1, <1>3 DEF Chans

\* The recorded run starts so.
LEMMA InitKeeps ==
  ASSUME Init
  PROVE  Inv
  <1>1. Program \in Programs /\ mode = "record" /\ Fresh
    BY DEF Init, MpiInit, FreshProcesses, Fresh, Ops
  <1>2. Chans
    BY <1>1, FreshChannels
  <1>3. events = [p \in Ranks |-> <<>>]
    BY DEF Init, FreshProcesses
  <1>4. history = [p \in Ranks |-> [k \in 1..(Len(Program[p]) + 1) |-> Now(p)]]
    BY DEF Init
  <1>5. Frames
    BY <1>1, <1>3, <1>4 DEF Fresh, Frames
  <1>6. Recording
    <2> SUFFICES ASSUME NEW p \in Ranks
                 PROVE  RecordingAt(Program, msg, travelling, p, history[p], at[p], events[p],
                                    St(request[p], lastSource[p], seen[p], Len(events[p])))
      BY DEF Recording, RecordingOf
    <2>1. PICK P, M, T, H, h : /\ P = Program /\ M = msg /\ T = travelling /\ H = history[p]
                               /\ h = St([k \in DOMAIN P[p] |-> "none"], None, <<>>, 0)
      OBVIOUS
    <2>2. /\ request[p] = [k \in DOMAIN P[p] |-> "none"] /\ lastSource[p] = None
          /\ seen[p] = <<>> /\ events[p] = <<>> /\ at[p] = 1
      BY <1>1, <1>3, <2>1 DEF Fresh
    <2>3. Len(events[p]) = 0
      BY <2>2
    <2>4. h = St(request[p], lastSource[p], seen[p], Len(events[p]))
      BY <2>1, <2>2, <2>3
    <2>5. Now(p) = h
      BY <1>1, <2>4 DEF Now, St
    <2>6. H = [k \in 1..(Len(P[p]) + 1) |-> h]
      BY <1>4, <2>1, <2>5
    <2>7. RecordingAt(P, M, T, p, H, 1, <<>>, h)
      BY <1>1, <2>1, <2>6, StartHistory
    <2> QED BY <2>1, <2>2, <2>4, <2>7
  <1>7. Replaying
    BY <1>1 DEF Replaying
  <1> QED BY <1>1, <1>2, <1>5, <1>6, <1>7 DEF Inv

\* And the replay does: Rerun keeps the invariant.
LEMMA RerunKeeps ==
  ASSUME AllReplayable, Inv, Rerun
  PROVE  Inv'
  <1>1. /\ mode = "record" /\ mode' = "replay" /\ Program' = Program /\ Fresh'
        /\ UNCHANGED <<events, history>> /\ recSeen' = seen /\ recMsg' = msg
    BY DEF Rerun, FreshProcesses, Fresh, Ops
  <1>2. Program' \in Programs
    BY <1>1 DEF Inv
  <1>3. (Program \in Programs /\ Fresh => Chans)'
    BY FreshChannels, PTL
  <1>4. Chans'
    BY <1>1, <1>2, <1>3
  <1>5. Frames'
    BY <1>1 DEF Inv, Frames, Fresh
  <1>6. PICK P, A, N, T, H, E, req, last, what :
          /\ P = Program /\ A = at /\ N = msg /\ T = travelling /\ H = history /\ E = events
          /\ req = request /\ last = lastSource /\ what = seen
    OBVIOUS
  <1>7. PICK B, req1, last1, what1, n1, L, R :
          /\ B = at' /\ req1 = request' /\ last1 = lastSource' /\ what1 = seen' /\ n1 = pos'
          /\ L = msg' /\ R = posted'
    OBVIOUS
  <1>8. /\ P \in Programs /\ Replayable(P) /\ Progress(P, A, N) /\ MessagesRight(P, N)
    BY <1>6 DEF Inv, AllReplayable, Chans, Channels, Pipes
  <1>9. RecordingOf(P, A, N, T, H, E, req, last, what)
    BY <1>1, <1>6 DEF Inv, Recording
  <1>10. \A p \in Ranks : A[p] \notin DOMAIN P[p]
    BY <1>6 DEF Rerun, AllDone, Ops
  <1>11. /\ B = [p \in Ranks |-> 1] /\ last1 = [p \in Ranks |-> None]
         /\ what1 = [p \in Ranks |-> <<>>] /\ n1 = [p \in Ranks |-> 0]
         /\ req1 = [p \in Ranks |-> [k \in DOMAIN P[p] |-> "none"]]
         /\ L = [p \in Ranks |-> [k \in DOMAIN P[p] |-> None]] /\ R = [p \in Ranks |-> <<>>]
    BY <1>1, <1>6, <1>7 DEF Fresh
  <1>12. ReplayingOf(P, B, N, H, E, what, req1, last1, what1, n1)
    BY <1>8, <1>9, <1>10, <1>11, ReplayStarts
  <1>13. SameMessages(P, N, L)
    BY <1>11 DEF SameMessages
  <1>14. PostedSources(P, N, R)
    <2>1. ToSet(<<>>) = {}
      BY DEF ToSet
    <2>2. \A d \in Ranks : ToSet(R[d]) = {}
      BY <1>11, <2>1
    <2> QED BY <2>2 DEF PostedSources
  <1>15. Replaying'
    BY <1>1, <1>6, <1>7, <1>8, <1>12, <1>13, <1>14 DEF Replaying
  <1>16. Recording'
    BY <1>1 DEF Recording
  <1> QED BY <1>1, <1>2, <1>4, <1>5, <1>15, <1>16 DEF Inv

\* Every step keeps it.
LEMMA NextKeeps ==
  ASSUME AllReplayable, Inv, [Next]_vars
  PROVE  Inv'
  <1>1. CASE UNCHANGED vars
    <2>1. SameState
      BY <1>1 DEF vars, appVars, remVars, recVars, mpiVars, SameState
    <2> QED BY <2>1, SameInv
  <1>2. CASE Rerun
    BY <1>2, RerunKeeps
  <1>3. CASE Deliver
    BY <1>3, DeliverKeeps
  <1>4. CASE \E p \in Ranks : Step(p)
    BY <1>4, StepKeeps
  <1> QED BY <1>1, <1>2, <1>3, <1>4 DEF Next, Ended

\* The invariant says that what a process has observed is what it observed before.
LEMMA InvFaithful ==
  ASSUME Inv
  PROVE  ReplayFaithful
  <1> SUFFICES ASSUME mode = "replay", NEW p \in Ranks
               PROVE  IsPrefix(seen[p], recSeen[p])
    BY DEF ReplayFaithful
  <1>1. PICK P, M, H, E, k, K, h :
          /\ P = Program /\ M = recMsg /\ H = history[p] /\ E = events[p] /\ k = at[p]
          /\ K = Len(P[p]) + 1 /\ h = St(request[p], lastSource[p], seen[p], pos[p])
    OBVIOUS
  <1>2. ReplayingAt(P, M, p, H, E, recSeen[p], k, h)
    BY <1>1 DEF Inv, Replaying, ReplayingOf
  <1>3. /\ HistoryRight(P, M, <<>>, "replay", p, H, K, E) /\ recSeen[p] = H[K].seen /\ H[k] = h
    BY <1>1, <1>2 DEF ReplayingAt
  <1>4. k \in 1..K /\ K \in 1..K
    <2>1. Len(P[p]) \in Nat
      BY <1>1, OpsAreNumbers DEF Inv
    <2>2. k \in 1..K
      BY <1>1 DEF Inv, Chans, Channels, Progress
    <2> QED BY <1>1, <2>1, <2>2
  <1>5. KeptAt(P, M, <<>>, "replay", p, H, K, E, k) /\ KeptAt(P, M, <<>>, "replay", p, H, K, E, K)
    BY <1>3, <1>4, KeptHistory
  <1>6. PrefixOf(H[k].seen, H[K].seen) /\ IsSeq(H[k].seen) /\ IsSeq(H[K].seen)
    BY <1>5 DEF KeptAt, StateRight
  <1>7. H[k].seen = seen[p]
    BY <1>1, <1>3 DEF St
  <1> QED BY <1>3, <1>6, <1>7, PrefixIs

\* In the replay of a program that can be replayed at all, every process observes what it
\* observed at the same point of the recorded run: the same requests complete in the same
\* calls and probes, with the same messages (rempi_recorder.cpp:record_mf, replay_mf).
THEOREM MpiReplayFaithful ==
  ASSUME \A program \in Programs : Replayable(program)
  PROVE  Spec => []ReplayFaithful
  <1>1. AllReplayable
    BY DEF AllReplayable
  <1>2. Init => Inv
    BY InitKeeps
  <1>3. Inv /\ [Next]_vars => Inv'
    BY <1>1, NextKeeps
  <1>4. Inv => ReplayFaithful
    BY InvFaithful
  <1> QED BY <1>2, <1>3, <1>4, PTL DEF Spec

-------------------------------------------------------------------------------
\* A request is lost to ReMPI by the operation that does it, or was before.
LEMMA IgnoredKept ==
  ASSUME NEW code, NEW k \in Nat, NEW req, IgnoredLost(code, k, req), NEW new,
         \A j \in DOMAIN code : new[j] = "ignored" => req[j] = "ignored" \/ Lost(code, k + 1, j)
  PROVE  IgnoredLost(code, k + 1, new)
  <1> SUFFICES ASSUME NEW j \in DOMAIN code, new[j] = "ignored"
               PROVE  Lost(code, k + 1, j)
    BY DEF IgnoredLost
  <1>1. CASE req[j] = "ignored"
    <2>1. Lost(code, k, j)
      BY <1>1 DEF IgnoredLost
    <2>2. \A i \in 1..(k - 1) : i \in 1..((k + 1) - 1)
      OBVIOUS
    <2> QED BY <2>1, <2>2 DEF Lost, CanceledBefore
  <1> QED BY <1>1

\* An operation that posts no receive wants no source.
LEMMA WantedKept ==
  ASSUME NEW code, Numbers(code), NEW k \in 1..Len(code), NEW h, NEW w,
         WantedRight(code, k, h, w), code[k].op # "irecv", NEW g, EarlierSame(h, g, k)
  PROVE  WantedRight(code, k + 1, g, w)
  <1> SUFFICES ASSUME NEW j \in DOMAIN code, code[j].op = "irecv", j < k + 1
               PROVE  w[j] = PeerAt(code, g, j)
    BY DEF WantedRight
  <1>1. j \in 1..k /\ j # k /\ j < k
    BY DEF Numbers
  <1>2. w[j] = PeerAt(code, h, j)
    BY <1>1 DEF WantedRight
  <1>3. g[j] = h[j]
    BY <1>1 DEF EarlierSame
  <1> QED BY <1>2, <1>3 DEF PeerAt

\* One that does wants that of its peer.
LEMMA WantedSet ==
  ASSUME NEW code, Numbers(code), NEW k \in 1..Len(code), NEW h, NEW w,
         WantedRight(code, k, h, w), NEW g, EarlierSame(h, g, k),
         NEW x \in Ranks \cup {AnySource, None}, x = PeerAt(code, h, k),
         NEW v, SetAt(w, k, x, v)
  PROVE  WantedRight(code, k + 1, g, v) /\ v[k] = x /\ \A j \in 1..(k - 1) : v[j] = w[j]
  <1>1. w \in [DOMAIN code -> Ranks \cup {AnySource, None}] /\ k \in DOMAIN code
    BY DEF WantedRight, Numbers
  <1>2. v \in [DOMAIN code -> Ranks \cup {AnySource, None}] /\ v[k] = x
        /\ \A j \in DOMAIN code : j # k => v[j] = w[j]
    BY <1>1 DEF SetAt
  <1>3. ASSUME NEW j \in DOMAIN code, code[j].op = "irecv", j < k + 1
        PROVE  v[j] = PeerAt(code, g, j)
    <2>1. j \in 1..k
      BY <1>3 DEF Numbers
    <2>2. g[j] = h[j]
      BY <2>1 DEF EarlierSame
    <2>3. PeerAt(code, g, j) = PeerAt(code, h, j)
      BY <2>2 DEF PeerAt
    <2>4. CASE j = k
      BY <1>2, <2>3, <2>4
    <2>5. CASE j # k
      <3>1. j < k
        BY <2>1, <2>5
      <3> QED BY <1>2, <1>3, <2>3, <2>5, <3>1 DEF WantedRight
    <2> QED BY <2>4, <2>5
  <1>4. \A j \in 1..(k - 1) : v[j] = w[j]
    BY <1>2 DEF Numbers
  <1> QED BY <1>2, <1>3, <1>4 DEF WantedRight

\* The source of the last message is known as soon as it must be.
LEMMA SourceKept ==
  ASSUME NEW code, NEW k \in Nat \ {0}, NEW h, SourceKnown(code, k, h), NEW g,
         EarlierSame(h, g, k),
         h[k].lastSource \in Ranks \/ Informs(code, k) => g[k + 1].lastSource \in Ranks
  PROVE  SourceKnown(code, k + 1, g)
  <1> SUFFICES ASSUME NEW i \in 1..(k + 1), NEW j \in 1..(i - 1), Informs(code, j)
               PROVE  g[i].lastSource \in Ranks
    BY DEF SourceKnown
  <1>1. CASE i \in 1..k
    BY <1>1 DEF SourceKnown, EarlierSame
  <1>2. CASE i = k + 1
    <2>1. CASE j = k
      BY <1>2, <2>1
    <2>2. CASE j # k
      <3>1. k \in 1..k /\ j \in 1..(k - 1)
        BY <1>2, <2>2
      <3>2. h[k].lastSource \in Ranks
        BY <3>1 DEF SourceKnown
      <3> QED BY <1>2, <3>2
    <2> QED BY <2>1, <2>2
  <1> QED BY <1>1, <1>2

\* What a probe sees comes from where it looks.
LEMMA ProbesKept ==
  ASSUME NEW code, Numbers(code), NEW k \in 1..Len(code), NEW h, ProbesRight(code, k, h),
         NEW g, EarlierSame(h, g, k),
         code[k].op \in {"probe", "iprobe"} =>
           FromPeer(PeerAt(code, h, k), LastSeen(g[k + 1].seen))
  PROVE  ProbesRight(code, k + 1, g)
  <1> SUFFICES ASSUME NEW j \in DOMAIN code, j < k + 1, code[j].op \in {"probe", "iprobe"}
               PROVE  FromPeer(PeerAt(code, g, j), LastSeen(g[j + 1].seen))
    BY DEF ProbesRight
  <1>1. j \in 1..k
    BY DEF Numbers
  <1>2. g[j] = h[j]
    BY <1>1 DEF EarlierSame
  <1>3. PeerAt(code, g, j) = PeerAt(code, h, j)
    BY <1>2 DEF PeerAt
  <1>4. CASE j = k
    BY <1>3, <1>4
  <1>5. CASE j # k
    <2>1. j < k /\ j + 1 \in 1..k
      BY <1>1, <1>5
    <2>2. g[j + 1] = h[j + 1]
      BY <2>1 DEF EarlierSame
    <2>3. FromPeer(PeerAt(code, h, j), LastSeen(h[j + 1].seen))
      BY <2>1 DEF ProbesRight
    <2> QED BY <1>3, <2>2, <2>3
  <1> QED BY <1>4, <1>5

\* Messages got before come from the peers of their receives.
LEMMA GotKept ==
  ASSUME NEW code, Numbers(code), NEW k \in Nat, NEW ms, NEW h, GotFrom(code, ms, h),
         NoneFrom(code, ms, k + 1), NEW g, EarlierSame(h, g, k)
  PROVE  GotFrom(code, ms, g)
  <1> SUFFICES ASSUME NEW j \in DOMAIN code, code[j].op = "irecv", ms[j] # None
               PROVE  FromPeer(PeerAt(code, g, j), ms[j])
    BY DEF GotFrom, FromPeer
  <1>1. j \in 1..k
    BY DEF NoneFrom, Numbers
  <1>2. g[j] = h[j]
    BY <1>1 DEF EarlierSame
  <1>3. FromPeer(PeerAt(code, h, j), ms[j])
    BY DEF GotFrom
  <1> QED BY <1>2, <1>3 DEF PeerAt

\* One more message.
LEMMA GotOneMore ==
  ASSUME NEW code, NEW ms, NEW h, GotFrom(code, ms, h), NEW ns, NEW k, NEW m,
         \A j \in DOMAIN code : ns[j] = IF j = k THEN m ELSE ms[j],
         code[k].op = "irecv" => FromPeer(PeerAt(code, h, k), m)
  PROVE  GotFrom(code, ns, h)
  BY DEF GotFrom

-------------------------------------------------------------------------------

\* It holds before each operation.
LEMMA HereBefore ==
  ASSUME Inv, NEW p \in Ranks, at[p] \in Ops(p)
  PROVE  Here(p)
  <1>1. Right(p)
    BY RightBefore
  <1>2. Program \in Programs /\ at[p] \in DOMAIN Program[p] /\ Progress(Program, at, msg)
    BY <1>1 DEF Right
  <1>3. Numbers(Program[p]) /\ at[p] \in 1..Len(Program[p])
    BY <1>2, OpsAreNumbers DEF Numbers
  <1>4. NoneFrom(Program[p], msg[p], at[p])
    BY <1>2 DEF NoneFrom, Progress
  <1>5. CASE mode = "record"
    <2>1. RecordingAt(Program, msg, travelling, p, history[p], at[p], events[p], RecState(p))
      BY <1>5 DEF Inv, Recording, RecordingOf, RecState
    <2>2. history[p][at[p]] = RecState(p)
      BY <2>1 DEF RecordingAt
    <2>3. RecRight(p)
      BY <1>5, RecRightBefore
    <2>4. StateRight(Program, p, at[p], RecState(p)) /\ events[p] \in Seq(Events)
      BY <2>3 DEF RecRight
    <2>5. history[p][at[p]].lastSource = lastSource[p]
      BY <2>2 DEF RecState, St
    <2>6. \E n : StateRight(Program, p, at[p], St(request[p], lastSource[p], seen[p], n))
      BY <2>4 DEF RecState
    <2> QED BY <1>1, <1>3, <1>4, <2>4, <2>5, <2>6 DEF Here
  <1>6. CASE mode = "replay"
    <2>1. RepRight(p)
      BY <1>6, RepRightBefore
    <2>2. /\ StateRight(Program, p, at[p], RepState(p)) /\ events[p] \in Seq(Events)
          /\ history[p][at[p]] = RepState(p)
      BY <2>1 DEF RepRight
    <2>3. history[p][at[p]].lastSource = lastSource[p]
      BY <2>2 DEF RepState, St
    <2>4. \E n : StateRight(Program, p, at[p], St(request[p], lastSource[p], seen[p], n))
      BY <2>2 DEF RepState
    <2> QED BY <1>1, <1>3, <1>4, <2>2, <2>3, <2>4 DEF Here
  <1> QED BY <1>5, <1>6 DEF Inv

\* Every step of a process does that.
LEMMA HistoryAfter ==
  ASSUME Inv, Inv', NEW p \in Ranks, at[p] \in Ops(p), StepRest(p), at' = Next1(at, p)
  PROVE  HistoryStep1(p)
  <1>1. Right(p)
    BY RightBefore
  <1>2. Program \in Programs /\ Progress(Program, at, msg) /\ at[p] \in DOMAIN Program[p]
    BY <1>1 DEF Right
  <1>3. Advances(Program, at, at', p)
    BY <1>2, ProgressNumbers
  <1>4. at'[p] = at[p] + 1 /\ OthersSame(at, at', p) /\ at[p] \in Nat
    BY <1>3 DEF Advances, OthersSame
  <1>5. CASE mode = "record"
    <2>1. history' = [history EXCEPT ![p][at[p] + 1] = Now(p)'] /\ mode' = "record"
      BY <1>4, <1>5 DEF StepRest
    <2>2. DOMAIN history = Ranks
      BY DEF Inv, Frames
    <2>3. history'[p] = [history[p] EXCEPT ![at[p] + 1] = Now(p)']
          /\ OthersSame(history, history', p)
      BY <2>1, <2>2 DEF OthersSame
    <2>4. ASSUME NEW j \in 1..at[p]
          PROVE  history'[p][j] = history[p][j]
      <3>1. j # at[p] + 1
        BY <1>4
      <3> QED BY <2>3, <3>1
    <2>5. RecordingAt(Program', msg', travelling', p, history'[p], at'[p], events'[p],
                      RecState(p)')
      BY <2>1 DEF Inv, Recording, RecordingOf, RecState
    <2>6. history'[p][at'[p]] = RecState(p)'
      BY <2>5 DEF RecordingAt
    <2>7. history'[p][at[p] + 1].lastSource = lastSource'[p]
          /\ history'[p][at[p] + 1].seen = seen'[p]
      BY <1>4, <2>6 DEF RecState, St
    <2> QED BY <1>4, <2>3, <2>4, <2>7 DEF HistoryStep1, EarlierSame
  <1>6. CASE mode # "record"
    BY <1>4, <1>6 DEF StepRest, HistoryStep1, EarlierSame, OthersSame
  <1> QED BY <1>5, <1>6

\* A process that nothing happens to.
LEMMA OthersSure ==
  ASSUME Sure, NEW q \in Ranks, UNCHANGED <<Program, mode, recMsg>>,
         at'[q] = at[q], request'[q] = request[q], wanted'[q] = wanted[q],
         lastSource'[q] = lastSource[q], history'[q] = history[q], msg'[q] = msg[q],
         posted'[q] = posted[q], events'[q] = events[q], pos'[q] = pos[q]
  PROVE  SureOf(q)'
  <1>1. SureOf(q)
    BY DEF Sure
  <1>2. Past(q)' = Past(q)
    BY DEF Past
  <1>3. FirstGot[q]' = FirstGot[q]
    BY DEF FirstGot
  <1>4. PICK code, K, k, ms, h : code = Program[q] /\ K = Past(q) /\ k = at[q]
                                 /\ ms = FirstGot[q] /\ h = history[q]
    OBVIOUS
  <1>5. /\ IgnoredLost(code, k, request[q]) /\ WantedRight(code, k, h, wanted[q])
        /\ SendsRight(code, msg[q]) /\ PostsTyped(posted[q]) /\ RanksGiven(events[q])
        /\ mode # "record" => pos[q] \in 0..Len(events[q])
        /\ SourceKnown(code, K, h) /\ ProbesRight(code, K, h)
        /\ GotFrom(code, ms, h)
        /\ mode = "record" => /\ pos[q] = 0 /\ PostsWanted(posted[q], wanted[q])
                              /\ NullKnown(code, k, request[q], lastSource[q])
    BY <1>1, <1>4 DEF SureOf
  <1> QED BY <1>2, <1>3, <1>4, <1>5 DEF SureOf

\* A step of process p that keeps the parts about p keeps the whole.
LEMMA StepSure ==
  ASSUME Inv, Inv', Sure, NEW p \in Ranks, at[p] \in Ops(p), StepRest(p), at' = Next1(at, p),
         failed' = failed, OnlyOf(p),
         IgnoredLost(Program[p], at[p] + 1, request'[p]),
         WantedRight(Program[p], at[p] + 1, history'[p], wanted'[p]),
         SendsRight(Program[p], msg'[p]), PostsTyped(posted'[p]), RanksGiven(events'[p]),
         mode = "record" => SureRecord(p), mode # "record" => pos'[p] \in 0..Len(events'[p])
  PROVE  Sure'
  <1>1. HistoryStep1(p)
    BY HistoryAfter
  <1>2. Here(p)
    BY HereBefore
  <1>3. UNCHANGED <<Program, mode, recMsg>>
    BY DEF StepRest
  <1>4. ASSUME NEW q \in Ranks, q # p
        PROVE  SureOf(q)'
    <2>1. /\ at'[q] = at[q] /\ request'[q] = request[q] /\ wanted'[q] = wanted[q]
          /\ lastSource'[q] = lastSource[q] /\ history'[q] = history[q] /\ msg'[q] = msg[q]
          /\ posted'[q] = posted[q] /\ events'[q] = events[q] /\ pos'[q] = pos[q]
      BY <1>1, <1>4 DEF HistoryStep1, OnlyOf, Others, OthersSame
    <2> QED BY <1>3, <2>1, OthersSure
  <1>5. PICK code, k, h, g : code = Program[p] /\ k = at[p] /\ h = history[p] /\ g = history'[p]
    OBVIOUS
  <1>6. Numbers(code) /\ k \in 1..Len(code) /\ k \in Nat \ {0} /\ EarlierSame(h, g, k)
        /\ at'[p] = k + 1
    BY <1>1, <1>2, <1>5 DEF Here, HistoryStep1, Numbers
  <1>7. SureOf(p)
    BY DEF Sure
  <1>8. SureOf(p)'
    <2>1. CASE mode = "record"
      <3>1. Past(p) = k /\ FirstGot[p] = msg[p] /\ Past(p)' = k + 1 /\ FirstGot[p]' = msg'[p]
        BY <1>3, <1>5, <1>6, <2>1 DEF Past, FirstGot
      <3>2. /\ SourceKnown(code, k, h) /\ ProbesRight(code, k, h)
            /\ pos[p] = 0
        BY <1>5, <1>7, <2>1, <3>1 DEF SureOf
      <3>3. SureRecord(p)
        BY <2>1
      <3>4. /\ h[k].lastSource = lastSource[p] /\ g[k + 1].lastSource = lastSource'[p]
            /\ g[k + 1].seen = seen'[p]
        BY <1>1, <1>2, <1>5, <2>1 DEF Here, HistoryStep1
      <3>5. SourceKnown(code, k + 1, g)
        <4>1. h[k].lastSource \in Ranks \/ Informs(code, k) => g[k + 1].lastSource \in Ranks
          BY <1>5, <3>3, <3>4 DEF SureRecord
        <4> QED BY <1>6, <3>2, <4>1, SourceKept
      <3>6. ProbesRight(code, k + 1, g)
        <4>1. code[k].op \in {"probe", "iprobe"} =>
                FromPeer(PeerAt(code, h, k), LastSeen(g[k + 1].seen))
          BY <1>5, <3>3, <3>4 DEF SureRecord
        <4> QED BY <1>6, <3>2, <4>1, ProbesKept
      <3>7. GotFrom(code, msg'[p], g)
        <4>1. GotFrom(code, msg'[p], h)
          BY <1>5, <3>3 DEF SureRecord
        <4>2. NoneFrom(code, msg'[p], k + 1)
          <5>1. Progress(Program', at', msg')
            BY DEF Inv, Chans, Channels
          <5> QED BY <1>3, <1>5, <1>6, <5>1 DEF Progress, NoneFrom
        <4> QED BY <1>6, <4>1, <4>2, GotKept
      <3>8. pos'[p] = 0 /\ PostsWanted(posted'[p], wanted'[p])
            /\ NullKnown(code, k + 1, request'[p], lastSource'[p])
        BY <1>5, <3>2, <3>3 DEF SureRecord
      <3> QED BY <1>3, <1>5, <1>6, <3>1, <3>5, <3>6, <3>7, <3>8 DEF SureOf
    <2>2. CASE mode # "record"
      <3>1. Past(p)' = Past(p) /\ FirstGot[p]' = FirstGot[p] /\ g = h /\ mode' # "record"
        BY <1>3, <1>5, <2>2 DEF Past, FirstGot, StepRest
      <3>2. /\ SourceKnown(code, Past(p), h) /\ ProbesRight(code, Past(p), h)
            /\ GotFrom(code, FirstGot[p], h)
        BY <1>5, <1>7 DEF SureOf
      <3> QED BY <1>3, <1>5, <1>6, <3>1, <3>2 DEF SureOf
    <2> QED BY <2>1, <2>2
  <1>9. ASSUME NEW q \in Ranks
        PROVE  SureOf(q)'
    BY <1>4, <1>8
  <1> QED BY <1>9 DEF Sure, OnlyOf

-------------------------------------------------------------------------------

\* The peer of an operation, and when it is a process.
LEMMA PeerKnown ==
  ASSUME AllAccepted, Inv, Sure, NEW p \in Ranks, at[p] \in Ops(p),
         Op(p).op \in {"isend", "irecv", "probe", "iprobe"}
  PROVE  /\ Peer(p) = PeerAt(Program[p], history[p], at[p])
         /\ Peer(p) \in Ranks \cup {AnySource, None}
         /\ Op(p).op \in {"isend", "irecv"} => Peer(p) \in Ranks \cup {AnySource}
         /\ Op(p).op = "isend" => Peer(p) \in Ranks /\ Op(p).tag \in Tags
  <1>1. PICK code, h, k : code = Program[p] /\ h = history[p] /\ k = at[p]
    OBVIOUS
  <1>2. Here(p)
    BY HereBefore
  <1>3. /\ Right(p) /\ Numbers(code) /\ k \in 1..Len(code) /\ h[k].lastSource = lastSource[p]
        /\ Program \in Programs /\ k \in DOMAIN code /\ Op(p) = code[k]
    BY <1>1, <1>2 DEF Here, Right, Op
  <1>4. lastSource[p] \in Ranks \cup {None}
    BY <1>2 DEF Here, StateRight, St
  <1>5. Peer(p) = PeerOf(code[k], lastSource[p]) /\ Peer(p) \in Ranks \cup {AnySource, None}
    BY <1>1, <1>3, <1>4, PeerRight
  <1>6. Peer(p) = PeerAt(code, h, k)
    BY <1>3, <1>5 DEF PeerAt
  <1>7. ASSUME code[k].op \in {"isend", "irecv"}
        PROVE  /\ Peer(p) \in Ranks \cup {AnySource}
               /\ code[k].op = "isend" => Peer(p) \in Ranks /\ code[k].tag \in Tags
    <2>1. Accepted(Program)
      BY <1>3 DEF AllAccepted
    <2>2. /\ code[k].op = "isend" =>
               code[k].peer \in Ranks \cup {LastSource} /\ code[k].tag \in Tags
          /\ code[k].peer = LastSource => \E j \in 1..(k - 1) : Informs(code, j)
      BY <1>1, <1>3, <1>7, <2>1 DEF Accepted
    <2>3. code[k].peer \in Peers
      BY <1>1, <1>3, <1>7, OperationHasTag
    <2>4. CASE code[k].peer = LastSource
      <3>1. SourceKnown(code, Past(p), h)
        BY <1>1 DEF Sure, SureOf
      <3>2. k \in 1..Past(p)
        BY <1>1, <1>3 DEF Past, Numbers
      <3>3. lastSource[p] \in Ranks
        BY <1>3, <2>2, <2>4, <3>1, <3>2 DEF SourceKnown
      <3> QED BY <1>5, <2>2, <2>4, <3>3 DEF PeerOf
    <2>5. CASE code[k].peer # LastSource
      BY <1>5, <2>2, <2>3, <2>5 DEF PeerOf, Peers
    <2> QED BY <2>4, <2>5
  <1> QED BY <1>1, <1>3, <1>5, <1>6, <1>7

\* What holds of one process in the recorded run.
LEMMA RecordPart ==
  ASSUME Sure, NEW p \in Ranks, mode = "record"
  PROVE  /\ pos[p] = 0 /\ PostsWanted(posted[p], wanted[p])
         /\ NullKnown(Program[p], at[p], request[p], lastSource[p])
         /\ GotFrom(Program[p], msg[p], history[p])
  <1>1. SureOf(p)
    BY DEF Sure
  <1>2. FirstGot[p] = msg[p]
    BY DEF FirstGot
  <1> QED BY <1>1, <1>2 DEF SureOf

\* Requests that become null go with a known source.
LEMMA NullKept ==
  ASSUME NEW code, NEW k \in Nat, NEW req, NEW last, NullKnown(code, k, req, last),
         NEW new, NEW last1, last \in Ranks => last1 \in Ranks,
         \A j \in DOMAIN code :
           code[j].op = "irecv" /\ new[j] = "null" /\ ~CanceledBefore(code, k + 1, j) =>
             req[j] = "null" \/ last1 \in Ranks
  PROVE  NullKnown(code, k + 1, new, last1)
  <1> SUFFICES ASSUME NEW j \in DOMAIN code, code[j].op = "irecv", new[j] = "null",
                      ~CanceledBefore(code, k + 1, j)
               PROVE  last1 \in Ranks
    BY DEF NullKnown
  <1>1. ~CanceledBefore(code, k, j)
    <2>1. \A i \in 1..(k - 1) : i \in 1..((k + 1) - 1)
      OBVIOUS
    <2> QED BY <2>1 DEF CanceledBefore
  <1>2. CASE req[j] = "null"
    <2>1. last \in Ranks
      BY <1>1, <1>2 DEF NullKnown
    <2> QED BY <2>1
  <1> QED BY <1>2

\* A step that makes or gives up a request.
LEMMA RequestSetSure ==
  ASSUME Sure, NEW p \in Ranks, Here(p), NEW j, NEW state, state # "null",
         RequestSet(p, j, state), state = "ignored" => Lost(Program[p], at[p] + 1, j)
  PROVE  /\ IgnoredLost(Program[p], at[p] + 1, request'[p]) /\ Others(p)
         /\ mode = "record" =>
              NullKnown(Program[p], at[p] + 1, request'[p], lastSource'[p])
  <1>1. PICK code, k, req, new : /\ code = Program[p] /\ k = at[p] /\ req = request[p]
                                 /\ new = request'[p]
    OBVIOUS
  <1>2. Frames /\ k \in Nat
    BY <1>1 DEF Here, Right
  <1>3. Others(p)
    BY <1>2, RequestMade
  <1>4. new = [req EXCEPT ![j] = state] /\ lastSource'[p] = lastSource[p]
    BY <1>1, <1>2 DEF RequestSet, Frames
  <1>5. \A i \in DOMAIN code : new[i] = req[i] \/ (i = j /\ new[i] = state)
    BY <1>4
  <1>6. IgnoredLost(code, k, req)
    BY <1>1 DEF Sure, SureOf
  <1>7. IgnoredLost(code, k + 1, new)
    BY <1>1, <1>2, <1>5, <1>6, IgnoredKept
  <1>8. ASSUME mode = "record"
        PROVE  NullKnown(code, k + 1, new, lastSource'[p])
    <2>1. NullKnown(code, k, req, lastSource[p])
      BY <1>1, <1>8, RecordPart
    <2> QED BY <1>2, <1>4, <1>5, <2>1, NullKept
  <1> QED BY <1>1, <1>3, <1>7, <1>8

\* A step that posts no receive leaves the wanted sources right.
LEMMA WantedStays ==
  ASSUME Inv, Inv', Sure, NEW p \in Ranks, at[p] \in Ops(p), StepRest(p), at' = Next1(at, p),
         Op(p).op # "irecv", wanted' = wanted
  PROVE  /\ WantedRight(Program[p], at[p] + 1, history'[p], wanted'[p])
         /\ OthersSame(wanted, wanted', p) /\ DOMAIN wanted' = Ranks
  <1>1. PICK code, k, h, g, w : /\ code = Program[p] /\ k = at[p] /\ h = history[p]
                                /\ g = history'[p] /\ w = wanted[p]
    OBVIOUS
  <1>2. Numbers(code) /\ k \in 1..Len(code) /\ EarlierSame(h, g, k)
    BY <1>1, HereBefore, HistoryAfter DEF Here, HistoryStep1
  <1>3. WantedRight(code, k, h, w) /\ DOMAIN wanted = Ranks
    BY <1>1 DEF Sure, SureOf
  <1>4. code[k].op # "irecv"
    BY <1>1 DEF Op
  <1>5. WantedRight(code, k + 1, g, w)
    BY <1>2, <1>3, <1>4, WantedKept
  <1> QED BY <1>1, <1>3, <1>5 DEF OthersSame

\* The messages when one operation of a process gets one.
LEMMA MessageSet ==
  ASSUME Inv, NEW p \in Ranks, NEW k \in DOMAIN Program[p], NEW m, msg' = With1(msg, p, k, m)
  PROVE  /\ OthersSame(msg, msg', p)
         /\ \A j \in DOMAIN Program[p] : msg'[p][j] = IF j = k THEN m ELSE msg[p][j]
  <1>1. Tables(Program, msg)
    BY DEF Inv, Chans, Channels, Pipes, MessagesRight
  <1>2. \A q \in Ranks : \A j \in DOMAIN Program[q] :
          msg'[q][j] = IF q = p /\ j = k THEN m ELSE msg[q][j]
    BY <1>1, With1Values
  <1>3. DOMAIN msg = Ranks
    BY <1>1 DEF Tables
  <1>4. OthersSame(msg, msg', p)
    BY <1>3 DEF OthersSame, With1
  <1> QED BY <1>2, <1>4

\* Isend.
LEMMA IsendSure ==
  ASSUME AllAccepted, Inv, Inv', Sure, NEW p \in Ranks, Isend(p), StepRest(p)
  PROVE  Sure'
  <1>1. at[p] \in Ops(p) /\ Op(p).op = "isend"
    BY DEF Isend, Executes, Op
  <1>2. Here(p)
    BY <1>1, HereBefore
  <1>3. lastSource[p] \in Ranks \cup {None} /\ Right(p)
    BY <1>2 DEF Here, StateRight, St
  <1>4. SendsMessage(p, MessageOf(p)) /\ at' = Next1(at, p) /\ RequestSet(p, at[p], "send")
    BY <1>3, IsendSends DEF StepRest
  <1>5. /\ UNCHANGED <<lastSource, seen, events, pos, failed, posted, wanted>>
    BY DEF Isend, Send, RegistersSend
  <1>6. PICK code, k, m, h : code = Program[p] /\ k = at[p] /\ m = MessageOf(p) /\ h = history[p]
    OBVIOUS
  <1>7. /\ Numbers(code) /\ k \in 1..Len(code) /\ k \in DOMAIN code /\ Program \in Programs
        /\ h[k].lastSource = lastSource[p] /\ code[k].op = "isend"
    BY <1>1, <1>2, <1>3, <1>6 DEF Here, Right, Op
  <1>8. /\ OthersSame(msg, msg', p)
        /\ \A j \in DOMAIN code : msg'[p][j] = IF j = k THEN m ELSE msg[p][j]
    BY <1>4, <1>6, <1>7, MessageSet DEF SendsMessage
  <1>9. m.to \in Ranks
    <2>1. Peer(p) = PeerAt(code, h, k) /\ Peer(p) \in Ranks
      BY <1>1, <1>6, PeerKnown
    <2> QED BY <1>6, <1>7, <2>1 DEF PeerAt, MessageOf
  <1>10. SendsRight(code, msg'[p])
    <2>1. SendsRight(code, msg[p])
      BY <1>6 DEF Sure, SureOf
    <2> QED BY <1>8, <1>9, <2>1 DEF SendsRight
  <1>11. /\ IgnoredLost(code, k + 1, request'[p]) /\ Others(p)
         /\ mode = "record" => NullKnown(code, k + 1, request'[p], lastSource'[p])
    BY <1>2, <1>4, <1>6, RequestSetSure
  <1>12. /\ WantedRight(code, k + 1, history'[p], wanted'[p])
         /\ OthersSame(wanted, wanted', p) /\ DOMAIN wanted' = Ranks
    BY <1>1, <1>4, <1>5, <1>6, WantedStays
  <1>13. /\ PostsTyped(posted'[p]) /\ RanksGiven(events'[p])
         /\ mode # "record" => pos'[p] \in 0..Len(events'[p])
    BY <1>5 DEF Sure, SureOf
  <1>14. OnlyOf(p)
    BY <1>5, <1>8, <1>11, <1>12 DEF OnlyOf, OthersSame
  <1>15. ASSUME mode = "record"
         PROVE  SureRecord(p)
    <2>1. PostsWanted(posted[p], wanted[p]) /\ GotFrom(code, msg[p], h)
      BY <1>6, <1>15, RecordPart
    <2>2. GotFrom(code, msg'[p], h)
      <3>1. PICK ms, ns : ms = msg[p] /\ ns = msg'[p]
        OBVIOUS
      <3>2. \A j \in DOMAIN code : ns[j] = IF j = k THEN m ELSE ms[j]
        BY <1>8, <3>1
      <3>3. code[k].op = "irecv" => FromPeer(PeerAt(code, h, k), m)
        BY <1>7
      <3> QED BY <2>1, <3>1, <3>2, <3>3, GotOneMore
    <2>3. ~Informs(code, k) /\ code[k].op \notin {"probe", "iprobe"}
      BY <1>7 DEF Informs
    <2>4. PostsWanted(posted'[p], wanted'[p]) /\ pos' = pos /\ lastSource'[p] = lastSource[p]
      BY <1>5, <2>1
    <2>5. NullKnown(code, k + 1, request'[p], lastSource'[p])
      BY <1>11, <1>15
    <2> QED BY <1>6, <2>2, <2>3, <2>4, <2>5 DEF SureRecord
  <1>16. failed' = failed
    BY <1>5
  <1>17. /\ IgnoredLost(Program[p], at[p] + 1, request'[p])
         /\ WantedRight(Program[p], at[p] + 1, history'[p], wanted'[p])
         /\ SendsRight(Program[p], msg'[p])
    BY <1>6, <1>10, <1>11, <1>12
  <1> QED BY <1>1, <1>4, <1>13, <1>14, <1>15, <1>16, <1>17, StepSure

\* A step that only changes a request, and maybe the record and the posted receives.
LEMMA RequestStepSure ==
  ASSUME AllAccepted, Inv, Inv', Sure, NEW p \in Ranks, at[p] \in Ops(p), StepRest(p),
         Op(p).op \in {"unsupported", "cancel"}, at' = Next1(at, p),
         NEW j, RequestSet(p, j, "ignored"), Lost(Program[p], at[p] + 1, j),
         UNCHANGED <<wanted, pos, failed, msg>>,
         OthersSame(posted, posted', p), ToSet(posted'[p]) \subseteq ToSet(posted[p]),
         OthersSame(events, events', p), RanksGiven(events'[p]),
         mode # "record" => events' = events
  PROVE  Sure'
  <1>1. Here(p)
    BY HereBefore
  <1>2. PICK code, k, h : code = Program[p] /\ k = at[p] /\ h = history[p]
    OBVIOUS
  <1>3. /\ Numbers(code) /\ k \in 1..Len(code) /\ code[k].op \in {"unsupported", "cancel"}
    BY <1>1, <1>2 DEF Here, Op
  <1>4. SendsRight(code, msg'[p]) /\ PostsTyped(posted'[p])
    BY <1>2 DEF Sure, SureOf, PostsTyped
  <1>5. /\ IgnoredLost(code, k + 1, request'[p]) /\ Others(p)
        /\ mode = "record" => NullKnown(code, k + 1, request'[p], lastSource'[p])
    BY <1>1, <1>2, RequestSetSure
  <1>6. /\ WantedRight(code, k + 1, history'[p], wanted'[p])
        /\ OthersSame(wanted, wanted', p) /\ DOMAIN wanted' = Ranks
    <2>1. Op(p).op # "irecv"
      OBVIOUS
    <2> QED BY <1>2, <2>1, WantedStays
  <1>7. mode # "record" => pos'[p] \in 0..Len(events'[p])
    BY DEF Sure, SureOf
  <1>8. OnlyOf(p)
    BY <1>5, <1>6 DEF OnlyOf, OthersSame
  <1>9. ASSUME mode = "record"
        PROVE  SureRecord(p)
    <2>1. PostsWanted(posted[p], wanted[p]) /\ GotFrom(code, msg[p], h)
      BY <1>2, <1>9, RecordPart
    <2>2. PostsWanted(posted'[p], wanted'[p])
      BY <2>1 DEF PostsWanted
    <2>3. ~Informs(code, k)
      BY <1>3 DEF Informs
    <2>4. lastSource' = lastSource
      BY DEF RequestSet
    <2> QED BY <1>2, <1>3, <1>5, <1>9, <2>1, <2>2, <2>3, <2>4 DEF SureRecord
  <1> QED BY <1>2, <1>4, <1>5, <1>6, <1>7, <1>8, <1>9, StepSure

\* Unsupported.
LEMMA OtherSure ==
  ASSUME AllAccepted, Inv, Inv', Sure, NEW p \in Ranks, Unsupported(p), StepRest(p)
  PROVE  Sure'
  <1>1. at[p] \in Ops(p) /\ Op(p).op = "unsupported"
    BY DEF Unsupported, Executes, Op
  <1>2. RequestSet(p, at[p], "ignored") /\ at' = Next1(at, p)
        /\ UNCHANGED <<wanted, pos, failed, msg, posted, events>>
    BY DEF Unsupported, RequestSet, Return, Next1, mpiVars
  <1>3. Lost(Program[p], at[p] + 1, at[p])
    BY <1>1 DEF Lost, Op
  <1>4. OthersSame(posted, posted', p) /\ OthersSame(events, events', p)
        /\ ToSet(posted'[p]) \subseteq ToSet(posted[p]) /\ RanksGiven(events'[p])
    BY <1>2 DEF OthersSame, Sure, SureOf
  <1> QED BY <1>1, <1>2, <1>3, <1>4, RequestStepSure

\* Cancel.
LEMMA CancelSure ==
  ASSUME AllReplayable, AllAccepted, Inv, Inv', Sure, NEW p \in Ranks, Cancelling(p), StepRest(p)
  PROVE  Sure'
  <1>1. at[p] \in Ops(p) /\ Op(p).op = "cancel"
    BY DEF Cancelling, CancelRecv, Executes, Op
  <1>2. Here(p)
    BY <1>1, HereBefore
  <1>3. PICK k, j, E, F : k = at[p] /\ j = Op(p).k /\ E = events[p] /\ F = events'[p]
    OBVIOUS
  <1>4. RequestSet(p, j, "ignored") /\ at' = Next1(at, p) /\ UNCHANGED <<wanted, pos, failed, msg>>
    BY <1>3 DEF Cancelling, CancelRecv, CancelReceive, RequestSet, Return, Next1
  <1>5. Lost(Program[p], k + 1, j)
    <2>1. k \in 1..((k + 1) - 1) /\ Program[p][k].op = "cancel" /\ Program[p][k].k = j
      BY <1>1, <1>2, <1>3 DEF Here, Op, Numbers
    <2> QED BY <2>1 DEF Lost, CanceledBefore
  <1>6. OthersSame(posted, posted', p) /\ ToSet(posted'[p]) \subseteq ToSet(posted[p])
    <2>1. NoNewPosts(posted, posted')
      <3>1. PICK n : StateRight(Program, p, k, St(request[p], lastSource[p], seen[p], n))
        BY <1>2, <1>3 DEF Here
      <3>2. St(request[p], lastSource[p], seen[p], n).request = request[p]
        BY DEF St
      <3>3. Right(p) /\ UNCHANGED Program
        BY <1>2 DEF Here, StepRest
      <3> QED BY <1>3, <3>1, <3>2, <3>3, CancelStep
    <2>2. DOMAIN posted = Ranks
      BY DEF Inv, Chans, Channels, PostedRight
    <2>3. OthersSame(posted, posted', p)
      BY <2>2 DEF Cancelling, CancelRecv, CancelReceive, OthersSame
    <2> QED BY <2>1, <2>3 DEF NoNewPosts
  <1>7. E \in Seq(Events) /\ RanksGiven(E)
    BY <1>2, <1>3 DEF Here, Sure, SureOf
  <1>8. OthersSame(events, events', p) /\ RanksGiven(F) /\ (mode # "record" => events' = events)
    <2>1. CASE mode = "record"
      <3>1. events' = [events EXCEPT ![p] = CanceledEvent(p, j)]
        BY <1>3, <2>1 DEF Cancelling, CancelRecv
      <3>2. DOMAIN events = Ranks
        BY DEF Inv, Frames
      <3>3. F = CanceledEvent(p, j) /\ OthersSame(events, events', p)
        BY <1>3, <3>1, <3>2 DEF OthersSame
      <3>4. F = Noted(E, {j}, CancelNote(j))
        BY <1>3, <3>3, CancelNotes
      <3>5. \A i \in {j} : CancelNote(j)[i] = Canceled /\ CancelNote(j)[i] \in Sources
        BY DEF CancelNote, Sources
      <3>6. NotedFrom(E, F, {j}, CancelNote(j))
        BY <1>7, <3>4, <3>5, NotedRight
      <3>7. RanksGiven(F)
        BY <1>7, <3>5, <3>6 DEF NotedFrom, RanksGiven
      <3> QED BY <2>1, <3>3, <3>7
    <2>2. CASE mode # "record"
      <3>1. events' = events
        BY <2>2 DEF Cancelling, CancelRecv
      <3> QED BY <1>3, <1>7, <3>1 DEF OthersSame
    <2> QED BY <2>1, <2>2
  <1> QED BY <1>1, <1>3, <1>4, <1>5, <1>6, <1>8, RequestStepSure

-------------------------------------------------------------------------------

\* Posting a receive, or taking a message, in either run.
LEMMA ReceiveSure ==
  ASSUME AllAccepted, Inv, Inv', Sure, NEW p \in Ranks, at[p] \in Ops(p), StepRest(p),
         Op(p).op = "irecv", at' = Next1(at, p), RequestSet(p, at[p], "recv"), failed' = failed,
         wanted' = [wanted EXCEPT ![p][at[p]] = Peer(p)],
         NEW source \in Ranks \cup {AnySource},
         (\E r : PostsReceive(p, source, r)) \/ (\E i, m : TakesMessage(p, source, i, m)),
         OthersSame(events, events', p), RanksGiven(events'[p]), OthersSame(pos, pos', p),
         mode = "record" => source = Peer(p) /\ pos' = pos,
         mode # "record" => pos'[p] \in 0..Len(events'[p])
  PROVE  Sure'
  <1>1. Here(p)
    BY HereBefore
  <1>2. PICK code, k, h, g, w, v : /\ code = Program[p] /\ k = at[p] /\ h = history[p]
                                   /\ g = history'[p] /\ w = wanted[p] /\ v = wanted'[p]
    OBVIOUS
  <1>3. /\ Numbers(code) /\ k \in 1..Len(code) /\ k \in DOMAIN code /\ code[k].op = "irecv"
        /\ Program \in Programs
    BY <1>1, <1>2 DEF Here, Right, Op
  <1>4. EarlierSame(h, g, k)
    BY <1>2, HistoryAfter DEF HistoryStep1
  <1>5. Peer(p) = PeerAt(code, h, k) /\ Peer(p) \in Ranks \cup {AnySource, None}
    BY <1>2, PeerKnown
  <1>6. /\ WantedRight(code, k + 1, g, v) /\ v[k] = Peer(p) /\ \A j \in 1..(k - 1) : v[j] = w[j]
        /\ OthersSame(wanted, wanted', p) /\ DOMAIN wanted' = Ranks
    <2>1. WantedRight(code, k, h, w) /\ DOMAIN wanted = Ranks
      BY <1>2 DEF Sure, SureOf
    <2>2. v = [w EXCEPT ![k] = Peer(p)]
      BY <1>2, <2>1
    <2>3. OthersSame(wanted, wanted', p) /\ DOMAIN wanted' = Ranks
      BY <2>1 DEF OthersSame
    <2>4. PICK x \in Ranks \cup {AnySource, None} : x = Peer(p)
      BY <1>5
    <2>5. /\ WantedRight(code, k + 1, g, v) /\ v[k] = x /\ \A j \in 1..(k - 1) : v[j] = w[j]
      <3>1. x = PeerAt(code, h, k) /\ SetAt(w, k, x, v)
        BY <1>5, <2>2, <2>4 DEF SetAt
      <3>2. Numbers(code) /\ k \in 1..Len(code) /\ EarlierSame(h, g, k)
        BY <1>3, <1>4
      <3>3. WantedRight(code, k, h, w)
        BY <2>1
      <3> QED BY <3>1, <3>2, <3>3, WantedSet
    <2> QED BY <2>3, <2>4, <2>5
  <1>7. /\ IgnoredLost(code, k + 1, request'[p]) /\ Others(p)
        /\ mode = "record" => NullKnown(code, k + 1, request'[p], lastSource'[p])
    BY <1>1, <1>2, RequestSetSure
  <1>8. /\ Channels(Program, at, msg, travelling, unexpected, posted) /\ DOMAIN posted = Ranks
        /\ posted[p] \in Seq(Waiting)
    BY DEF Inv, Chans, Channels, PostedRight
  <1>9. \A r \in ToSet(posted[p]) : r.k \in 1..(k - 1)
    <2> SUFFICES ASSUME NEW r \in ToSet(posted[p]) PROVE r.k \in 1..(k - 1)
      OBVIOUS
    <2>1. PostedReceive(Program, at, msg, unexpected, p, r)
      BY <1>8 DEF Channels, PostedRight
    <2>2. r.k \in DOMAIN code /\ r.k < k
      BY <1>2, <2>1 DEF PostedReceive, IsRecv
    <2> QED BY <1>3, <2>2 DEF Numbers
  <1>10. PostsTyped(posted[p]) /\ SendsRight(code, msg[p])
    BY <1>2 DEF Sure, SureOf
  <1>11. mode = "record" => PostsWanted(posted[p], w) /\ GotFrom(code, msg[p], h)
    BY <1>2, RecordPart
  <1>12. mode = "record" => PostsWanted(posted[p], v)
    BY <1>6, <1>9, <1>11 DEF PostsWanted
  <1>13. /\ OthersSame(msg, msg', p) /\ OthersSame(posted, posted', p)
         /\ SendsRight(code, msg'[p]) /\ PostsTyped(posted'[p])
         /\ mode = "record" => PostsWanted(posted'[p], v) /\ GotFrom(code, msg'[p], h)
    <2>1. CASE \E r : PostsReceive(p, source, r)
      <3>1. PICK r : PostsReceive(p, source, r)
        BY <2>1
      <3>2. /\ r \in Waiting /\ r.k = k /\ r.source = source /\ msg' = msg
            /\ posted' = WithElement(posted, p, r)
        BY <1>2, <3>1 DEF PostsReceive
      <3>3. posted'[p] = Append(posted[p], r) /\ OthersSame(posted, posted', p)
        BY <1>8, <3>2 DEF WithElement, OthersSame
      <3>4. \A x \in ToSet(posted'[p]) : x \in ToSet(posted[p]) \/ x = r
        BY <1>8, <3>2, <3>3, AppendElements
      <3>5. PostsTyped(posted'[p])
        BY <1>10, <3>2, <3>4 DEF PostsTyped
      <3>6. mode = "record" => PostsWanted(posted'[p], v)
        BY <1>6, <1>12, <3>2, <3>4 DEF PostsWanted
      <3> QED BY <1>10, <1>11, <3>2, <3>3, <3>5, <3>6 DEF OthersSame
    <2>2. CASE \E i, m : TakesMessage(p, source, i, m)
      <3>1. PICK i, m : TakesMessage(p, source, i, m)
        BY <2>2
      <3>2. /\ Matches(source, code[k].tag, m) /\ posted' = posted
            /\ msg' = With1(msg, p, k, m)
        BY <1>2, <3>1 DEF TakesMessage
      <3>3. PICK ms, ns : ms = msg[p] /\ ns = msg'[p]
        OBVIOUS
      <3>4. /\ OthersSame(msg, msg', p)
            /\ \A j \in DOMAIN code : ns[j] = IF j = k THEN m ELSE ms[j]
        BY <1>2, <1>3, <3>2, <3>3, MessageSet
      <3>5. SendsRight(code, ns)
        BY <1>3, <1>10, <3>3, <3>4 DEF SendsRight
      <3>6. ASSUME mode = "record"
            PROVE  GotFrom(code, ns, h)
        <4>1. FromPeer(PeerAt(code, h, k), m)
          BY <1>5, <3>2, <3>6 DEF FromPeer, Matches
        <4>2. GotFrom(code, ms, h)
          BY <1>11, <3>3, <3>6
        <4> QED BY <3>4, <4>1, <4>2, GotOneMore
      <3> QED BY <1>10, <1>12, <3>2, <3>3, <3>4, <3>5, <3>6 DEF OthersSame
    <2> QED BY <2>1, <2>2
  <1>14. OnlyOf(p)
    BY <1>6, <1>7, <1>13 DEF OnlyOf
  <1>15. ASSUME mode = "record"
         PROVE  SureRecord(p)
    <2>1. ~Informs(code, k) /\ code[k].op \notin {"probe", "iprobe"}
      BY <1>3 DEF Informs
    <2>2. lastSource'[p] = lastSource[p]
      BY DEF RequestSet
    <2>3. NullKnown(code, k + 1, request'[p], lastSource'[p])
      BY <1>7, <1>15
    <2>4. PostsWanted(posted'[p], v) /\ GotFrom(code, msg'[p], h) /\ pos' = pos
      BY <1>13, <1>15
    <2> QED BY <1>2, <2>1, <2>2, <2>3, <2>4 DEF SureRecord
  <1>16. /\ IgnoredLost(Program[p], at[p] + 1, request'[p])
         /\ WantedRight(Program[p], at[p] + 1, history'[p], wanted'[p])
         /\ SendsRight(Program[p], msg'[p]) /\ PostsTyped(posted'[p])
    BY <1>2, <1>6, <1>7, <1>13
  <1> QED BY <1>14, <1>15, <1>16, StepSure

\* IrecvRecord.
LEMMA IrecvRecordSure ==
  ASSUME AllAccepted, Inv, Inv', Sure, NEW p \in Ranks, IrecvRecord(p), StepRest(p)
  PROVE  Sure'
  <1>1. /\ at[p] \in Ops(p) /\ mode = "record" /\ Op(p).op = "irecv"
        /\ Receive(p, at[p], Peer(p), Op(p).tag)
    BY DEF IrecvRecord, Executes, Op
  <1>2. Here(p)
    BY <1>1, HereBefore
  <1>3. /\ at' = Next1(at, p) /\ RequestSet(p, at[p], "recv") /\ failed' = failed /\ pos' = pos
        /\ wanted' = [wanted EXCEPT ![p][at[p]] = Peer(p)] /\ UNCHANGED Program
        /\ events' = [events EXCEPT ![p] = @ \o <<RecvEvent(at[p])>>]
    BY DEF IrecvRecord, Return, Next1, RequestSet, RegistersRecv, Record, RecvEvent, StepRest
  <1>4. PICK E, F, e : E = events[p] /\ F = events'[p] /\ e = RecvEvent(at[p])
    OBVIOUS
  <1>5. Peer(p) \in Ranks \cup {AnySource}
    BY <1>1, PeerKnown
  <1>6. PICK source \in Ranks \cup {AnySource} : source = Peer(p)
    BY <1>5
  <1>7. (\E r : PostsReceive(p, source, r)) \/ (\E i, m : TakesMessage(p, source, i, m))
    <2>1. Right(p) /\ source \in Sources /\ Receive(p, at[p], source, Op(p).tag)
      BY <1>1, <1>2, <1>6 DEF Here, Sources
    <2> QED BY <1>1, <1>3, <2>1, ReceiveStep
  <1>8. DOMAIN events = Ranks
    BY DEF Inv, Frames
  <1>9. OthersSame(events, events', p) /\ F = WithEvent(E, e)
    BY <1>3, <1>4, <1>8 DEF OthersSame, WithEvent
  <1>10. RanksGiven(F)
    <2>1. RanksGiven(E) /\ E \in Seq(Events) /\ at[p] \in Nat
      BY <1>2, <1>4 DEF Here, Sure, SureOf
    <2>2. e \in Events /\ e.rank = AnySource
      BY <1>4, <2>1 DEF RecvEvent, Events, Sources
    <2>3. RecordedAfter(E, e, F)
      BY <1>9, <2>1, <2>2, RecordGrows
    <2>4. ASSUME NEW n \in DOMAIN F, F[n].kind = "recv"
          PROVE  F[n].rank \in Ranks \cup {AnySource, Canceled}
      <3>1. CASE n = Len(E) + 1
        BY <2>2, <2>3, <3>1 DEF RecordedAfter
      <3>2. CASE n # Len(E) + 1
        <4>1. n \in 1..Len(E)
          BY <2>3, <3>2 DEF RecordedAfter
        <4>2. n \in DOMAIN E /\ F[n] = E[n]
          BY <2>3, <4>1 DEF RecordedAfter
        <4> QED BY <2>1, <2>4, <4>2 DEF RanksGiven
      <3> QED BY <3>1, <3>2
    <2> QED BY <2>4 DEF RanksGiven
  <1>11. OthersSame(pos, pos', p)
    BY <1>3 DEF OthersSame
  <1>12. RanksGiven(events'[p])
    BY <1>4, <1>10
  <1>13. failed' = failed /\ pos' = pos /\ source = Peer(p)
    BY <1>3, <1>6
  <1> QED BY <1>1, <1>3, <1>7, <1>9, <1>11, <1>12, <1>13, ReceiveSure

\* IrecvReplay: the record has a receive, with its source.
LEMMA IrecvReplaySure ==
  ASSUME AllAccepted, Inv, Inv', Sure, NEW p \in Ranks, IrecvReplay(p), StepRest(p)
  PROVE  Sure'
  <1>1. /\ at[p] \in Ops(p) /\ mode = "replay" /\ Op(p).op = "irecv" /\ HasEvent(p)
        /\ mode # "record"
    BY DEF IrecvReplay, Executes, Op
  <1>2. Here(p) /\ RepRight(p)
    BY <1>1, HereBefore, RepRightBefore
  <1>3. NextEvent(p).kind = "recv"
    BY <1>1, <1>2, ReplayingHad DEF Op
  <1>4. PICK e : e = NextEvent(p)
    OBVIOUS
  <1>5. /\ at' = Next1(at, p) /\ RequestSet(p, at[p], "recv") /\ failed' = failed
        /\ pos' = [pos EXCEPT ![p] = @ + 1] /\ events' = events
        /\ wanted' = [wanted EXCEPT ![p][at[p]] = Peer(p)] /\ UNCHANGED Program
        /\ Receive(p, at[p], ReplayingSource(p, e), Op(p).tag)
    BY <1>3, <1>4 DEF IrecvReplay, Return, Next1, RequestSet, RegistersRecv, StepRest
  <1>6. events[p] \in Seq(Events) /\ RanksGiven(events[p]) /\ pos[p] \in 0..Len(events[p])
    BY <1>1, <1>2 DEF Here, Sure, SureOf
  <1>7. pos[p] + 1 \in DOMAIN events[p] /\ pos[p] + 1 \in 0..Len(events[p])
        /\ Len(events[p]) \in Nat
    <2>1. Len(events[p]) \in Nat /\ DOMAIN events[p] = 1..Len(events[p])
      BY <1>6, LenProperties
    <2> QED BY <1>1, <1>6, <2>1 DEF HasEvent
  <1>8. ReplayingSource(p, e) \in Ranks \cup {AnySource}
    <2>1. Peer(p) \in Ranks \cup {AnySource}
      BY <1>1, PeerKnown
    <2>2. e.rank \in Ranks \cup {AnySource, Canceled}
      BY <1>3, <1>4, <1>6, <1>7 DEF RanksGiven, NextEvent
    <2> QED BY <2>1, <2>2 DEF ReplayingSource
  <1>9. PICK source \in Ranks \cup {AnySource} : source = ReplayingSource(p, e)
    BY <1>8
  <1>10. (\E r : PostsReceive(p, source, r)) \/ (\E i, m : TakesMessage(p, source, i, m))
    <2>1. Right(p) /\ source \in Sources /\ Receive(p, at[p], source, Op(p).tag)
      BY <1>2, <1>5, <1>9 DEF Here, Sources
    <2> QED BY <1>1, <1>5, <2>1, ReceiveStep
  <1>11. DOMAIN pos = Ranks
    BY DEF Inv, Frames
  <1>12. OthersSame(pos, pos', p) /\ pos'[p] \in 0..Len(events'[p])
    BY <1>5, <1>7, <1>11 DEF OthersSame
  <1>13. OthersSame(events, events', p) /\ RanksGiven(events'[p]) /\ failed' = failed
    BY <1>5, <1>6 DEF OthersSame
  <1> QED BY <1>1, <1>5, <1>10, <1>12, <1>13, ReceiveSure

-------------------------------------------------------------------------------

\* A step that sends and receives nothing.
LEMMA QuietSure ==
  ASSUME Inv, Inv', Sure, NEW p \in Ranks, at[p] \in Ops(p), StepRest(p), at' = Next1(at, p),
         Op(p).op # "irecv", UNCHANGED <<wanted, failed, mpiVars>>, Others(p),
         IgnoredLost(Program[p], at[p] + 1, request'[p]),
         OthersSame(events, events', p), RanksGiven(events'[p]), OthersSame(pos, pos', p),
         mode = "record" =>
           /\ pos' = pos /\ NullKnown(Program[p], at[p] + 1, request'[p], lastSource'[p])
           /\ lastSource[p] \in Ranks \/ Informs(Program[p], at[p]) => lastSource'[p] \in Ranks
           /\ Program[p][at[p]].op \in {"probe", "iprobe"} =>
                FromPeer(PeerAt(Program[p], history[p], at[p]), LastSeen(seen'[p])),
         mode # "record" => pos'[p] \in 0..Len(events'[p])
  PROVE  Sure'
  <1>1. /\ WantedRight(Program[p], at[p] + 1, history'[p], wanted'[p])
        /\ OthersSame(wanted, wanted', p) /\ DOMAIN wanted' = Ranks
    <2>1. wanted' = wanted
      OBVIOUS
    <2> QED BY <2>1, WantedStays
  <1>2. msg' = msg /\ posted' = posted /\ wanted' = wanted /\ failed' = failed
    BY DEF mpiVars
  <1>3. SendsRight(Program[p], msg'[p]) /\ PostsTyped(posted'[p])
    BY <1>2 DEF Sure, SureOf
  <1>4. OnlyOf(p)
    BY <1>1, <1>2 DEF OnlyOf, OthersSame
  <1>5. ASSUME mode = "record"
        PROVE  SureRecord(p)
    <2>1. PostsWanted(posted'[p], wanted'[p]) /\ GotFrom(Program[p], msg'[p], history[p])
      BY <1>2, <1>5, RecordPart
    <2> QED BY <1>5, <2>1 DEF SureRecord
  <1> QED BY <1>1, <1>2, <1>3, <1>4, <1>5, StepSure

\* What a probe that sees m leaves.
LEMMA SeesLeaves ==
  ASSUME Inv, Sure, NEW p \in Ranks, at[p] \in Ops(p), NEW m, Sees(p, m)
  PROVE  /\ UNCHANGED <<wanted, failed, mpiVars>> /\ Others(p) /\ at' = Next1(at, p)
         /\ IgnoredLost(Program[p], at[p] + 1, request'[p])
         /\ LastSeen(seen'[p]) = m
         /\ lastSource'[p] = IF m = None THEN lastSource[p] ELSE m.from
         /\ request'[p] = request[p]
  <1>1. Here(p)
    BY HereBefore
  <1>2. Frames /\ at[p] \in Nat
    BY <1>1 DEF Here, Right
  <1>3. /\ Others(p) /\ at' = Next1(at, p) /\ UNCHANGED mpiVars
    BY <1>2, SeesMade
  <1>4. /\ request'[p] = request[p] /\ UNCHANGED <<wanted, failed>>
        /\ lastSource'[p] = IF m = None THEN lastSource[p] ELSE m.from
    BY <1>2 DEF Sees, Frames
  <1>5. LastSeen(seen'[p]) = m
    <2>1. PICK s, x : s = seen[p] /\ x = <<at[p], m>>
      OBVIOUS
    <2>2. seen'[p] = Append(s, x)
      BY <1>2, <2>1 DEF Sees, Observes, Frames
    <2>3. s \in Seq(ToSet(s))
      <3>1. PICK n : StateRight(Program, p, at[p], St(request[p], lastSource[p], seen[p], n))
        BY <1>1 DEF Here
      <3>2. St(request[p], lastSource[p], seen[p], n).seen = s
        BY <2>1 DEF St
      <3> QED BY <3>1, <3>2 DEF StateRight, IsSeq
    <2>4. Len(Append(s, x)) = Len(s) + 1 /\ Append(s, x)[Len(s) + 1] = x
      BY <2>3
    <2> QED BY <2>1, <2>2, <2>4 DEF LastSeen
  <1>6. IgnoredLost(Program[p], at[p] + 1, request'[p])
    <2>1. PICK code, k, req, new : /\ code = Program[p] /\ k = at[p] /\ req = request[p]
                                   /\ new = request'[p]
      OBVIOUS
    <2>2. IgnoredLost(code, k, req) /\ new = req /\ k \in Nat
      BY <1>2, <1>4, <2>1 DEF Sure, SureOf
    <2>3. \A j \in DOMAIN code : new[j] = "ignored" => req[j] = "ignored" \/ Lost(code, k + 1, j)
      BY <2>2
    <2> QED BY <2>1, <2>2, <2>3, IgnoredKept
  <1> QED BY <1>3, <1>4, <1>5, <1>6

\* One more event, and the receives among them as they were.
LEMMA TestAdded ==
  ASSUME NEW E \in Seq(Events), RanksGiven(E), NEW e \in Events, e.kind = "test", NEW F,
         F = WithEvent(E, e)
  PROVE  RanksGiven(F)
  <1>1. RecordedAfter(E, e, F)
    BY RecordGrows
  <1> SUFFICES ASSUME NEW n \in DOMAIN F, F[n].kind = "recv"
               PROVE  F[n].rank \in Ranks \cup {AnySource, Canceled}
    BY DEF RanksGiven
  <1>2. n # Len(E) + 1
    BY <1>1 DEF RecordedAfter
  <1>3. n \in DOMAIN E /\ F[n] = E[n]
    BY <1>1, <1>2 DEF RecordedAfter
  <1> QED BY <1>3 DEF RanksGiven

\* ProbeRecord.
LEMMA ProbeRecordSure ==
  ASSUME AllAccepted, Inv, Inv', Sure, NEW p \in Ranks, ProbeRecord(p), StepRest(p)
  PROVE  Sure'
  <1>1. at[p] \in Ops(p) /\ mode = "record" /\ Op(p).op \in {"probe", "iprobe"}
    BY DEF ProbeRecord, Executes, Op
  <1>2. Here(p) /\ Right(p)
    BY <1>1, HereBefore, RightBefore
  <1>3. PICK i, m : /\ i = Found(p, Peer(p), Program[p][at[p]].tag)
                    /\ m \in IF i = 0 THEN {None} ELSE {unexpected[p][i]}
                    /\ Op(p).op = "probe" => m # None
                    /\ Sees(p, m) /\ Record(p, <<ProbeEvent(m)>>) /\ UNCHANGED pos
    BY DEF ProbeRecord, Op
  <1>4. PICK code, k, h, E, F : /\ code = Program[p] /\ k = at[p] /\ h = history[p]
                                /\ E = events[p] /\ F = events'[p]
    OBVIOUS
  <1>5. m = None \/ (m.from \in Ranks /\ FromPeer(Peer(p), m))
    <2>1. CASE i = 0
      BY <1>3, <2>1
    <2>2. CASE i # 0
      <3>1. PICK source, u : source = Peer(p) /\ u = unexpected[p]
        OBVIOUS
      <3>2. i = Found(p, source, Program[p][at[p]].tag)
        BY <1>3, <3>1
      <3>3. i \in DOMAIN u /\ Matches(source, Program[p][at[p]].tag, u[i])
        BY <1>2, <2>2, <3>1, <3>2, Finds
      <3>4. m = u[i]
        BY <1>3, <2>2, <3>1
      <3>5. UnexpectedRight(Program, msg, travelling, unexpected)
        BY <1>2 DEF Right, Chans, Channels, Pipes
      <3>6. m \in ToSet(u)
        BY <3>3, <3>4, Zenon DEF ToSet
      <3>7. m.from \in Ranks
        BY <3>1, <3>5, <3>6 DEF UnexpectedRight
      <3> QED BY <3>1, <3>3, <3>4, <3>7 DEF FromPeer, Matches
    <2> QED BY <2>1, <2>2
  <1>6. /\ UNCHANGED <<wanted, failed, mpiVars>> /\ Others(p) /\ at' = Next1(at, p)
        /\ IgnoredLost(Program[p], at[p] + 1, request'[p])
        /\ LastSeen(seen'[p]) = m
        /\ lastSource'[p] = IF m = None THEN lastSource[p] ELSE m.from
        /\ request'[p] = request[p]
    BY <1>1, <1>3, SeesLeaves
  <1>7. DOMAIN events = Ranks
    BY DEF Inv, Frames
  <1>8. F = WithEvent(E, ProbeEvent(m)) /\ OthersSame(events, events', p)
    BY <1>3, <1>4, <1>7 DEF OthersSame, WithEvent, Record
  <1>9. RanksGiven(F)
    <2>1. ProbeEvent(m) \in Events /\ ProbeEvent(m).kind = "test"
      BY <1>5, ProbeEventType
    <2>2. E \in Seq(Events) /\ RanksGiven(E)
      BY <1>2, <1>4 DEF Here, Sure, SureOf
    <2> QED BY <1>8, <2>1, <2>2, TestAdded
  <1>10. lastSource[p] \in Ranks => lastSource'[p] \in Ranks
    BY <1>5, <1>6
  <1>11. Informs(code, k) => lastSource'[p] \in Ranks
    <2>1. code[k].op \in {"probe", "iprobe"}
      BY <1>1, <1>4 DEF Op
    <2>2. ASSUME Informs(code, k) PROVE code[k].op = "probe"
      BY <2>1, <2>2 DEF Informs
    <2> QED BY <1>3, <1>4, <1>5, <1>6, <2>2 DEF Op
  <1>12. NullKnown(code, k + 1, request'[p], lastSource'[p])
    <2>1. NullKnown(code, k, request[p], lastSource[p])
      BY <1>1, <1>4, RecordPart
    <2>2. k \in Nat
      BY <1>2, <1>4 DEF Here
    <2> QED BY <1>6, <1>10, <2>1, <2>2, NullKept
  <1>13. FromPeer(PeerAt(code, h, k), LastSeen(seen'[p]))
    <2>1. Peer(p) = PeerAt(code, h, k)
      BY <1>1, <1>4, PeerKnown
    <2> QED BY <1>5, <1>6, <2>1 DEF FromPeer
  <1>14. /\ OthersSame(pos, pos', p) /\ pos' = pos /\ Op(p).op # "irecv"
    BY <1>1, <1>3 DEF OthersSame
  <1>15. /\ NullKnown(Program[p], at[p] + 1, request'[p], lastSource'[p])
         /\ lastSource[p] \in Ranks \/ Informs(Program[p], at[p]) => lastSource'[p] \in Ranks
         /\ FromPeer(PeerAt(Program[p], history[p], at[p]), LastSeen(seen'[p]))
         /\ RanksGiven(events'[p])
    BY <1>4, <1>9, <1>10, <1>11, <1>12, <1>13
  <1> QED BY <1>1, <1>6, <1>8, <1>14, <1>15, QuietSure

\* ProbeReplay: the recorded source is one the probe looks at.
LEMMA ProbeReplaySure ==
  ASSUME AllAccepted, Inv, Inv', Sure, NEW p \in Ranks, ProbeReplay(p), StepRest(p)
  PROVE  Sure'
  <1>1. at[p] \in Ops(p) /\ mode = "replay" /\ Op(p).op \in {"probe", "iprobe"}
        /\ HasEvent(p) /\ mode # "record"
    BY DEF ProbeReplay, Executes, Op
  <1>2. Here(p) /\ RepRight(p)
    BY <1>1, HereBefore, RepRightBefore
  <1>3. PICK code, k, h, E, e : /\ code = Program[p] /\ k = at[p] /\ h = history[p]
                                /\ E = events[p] /\ e = NextEvent(p)
    OBVIOUS
  <1>4. /\ Numbers(code) /\ k \in 1..Len(code) /\ k \in DOMAIN code
        /\ code[k].op \in {"probe", "iprobe"} /\ h[k] = RepState(p)
    BY <1>1, <1>2, <1>3 DEF Here, Right, Op, RepRight
  <1>5. KeptProbe(Program, recMsg, <<>>, "replay", p, k, h[k], h[k + 1], E)
    BY <1>2, <1>3, <1>4 DEF RepRight, Kept
  <1>6. PICK m \in Sendable \cup {None} :
          /\ h[k + 1] = St(h[k].request, IF m = None THEN h[k].lastSource ELSE m.from,
                           Append(h[k].seen, <<k, m>>), h[k].events + 1)
          /\ E[h[k].events + 1] = ProbeEvent(m)
    BY <1>5 DEF KeptProbe
  <1>7. h[k].events = pos[p] /\ h[k].seen = seen[p]
    BY <1>4 DEF RepState, St
  <1>8. e = ProbeEvent(m)
    BY <1>3, <1>6, <1>7 DEF NextEvent
  <1>9. LastSeen(h[k + 1].seen) = m
    <2>1. PICK s, x : s = seen[p] /\ x = <<k, m>>
      OBVIOUS
    <2>2. h[k + 1].seen = Append(s, x)
      BY <1>6, <1>7, <2>1 DEF St
    <2>3. s \in Seq(ToSet(s))
      <3>1. PICK n : StateRight(Program, p, at[p], St(request[p], lastSource[p], seen[p], n))
        BY <1>2 DEF Here
      <3>2. St(request[p], lastSource[p], seen[p], n).seen = s
        BY <2>1 DEF St
      <3> QED BY <3>1, <3>2 DEF StateRight, IsSeq
    <2>4. Len(Append(s, x)) = Len(s) + 1 /\ Append(s, x)[Len(s) + 1] = x
      BY <2>3
    <2> QED BY <2>1, <2>2, <2>4 DEF LastSeen
  <1>10. FromPeer(Peer(p), m)
    <2>1. ProbesRight(code, Past(p), h)
      BY <1>3 DEF Sure, SureOf
    <2>2. k < Past(p)
      BY <1>1, <1>3, <1>4 DEF Past, Numbers
    <2>3. FromPeer(PeerAt(code, h, k), LastSeen(h[k + 1].seen))
      BY <1>4, <2>1, <2>2 DEF ProbesRight
    <2>4. Peer(p) = PeerAt(code, h, k)
      BY <1>1, <1>3, PeerKnown
    <2> QED BY <1>9, <2>3, <2>4
  <1>11. /\ \E x : Sees(p, x)
         /\ pos' = [pos EXCEPT ![p] = @ + 1] /\ events' = events
    <2>1. IF e.kind = "recv" \/ e.flag = 0
          THEN Sees(p, None) /\ pos' = [pos EXCEPT ![p] = @ + 1] /\ UNCHANGED events
          ELSE IF Peer(p) \notin {AnySource, e.rank} THEN Stop(p)
          ELSE \E i : /\ Sees(p, unexpected[p][i])
                      /\ pos' = [pos EXCEPT ![p] = @ + 1] /\ UNCHANGED events
      BY <1>3 DEF ProbeReplay
    <2>2. CASE e.kind = "recv" \/ e.flag = 0
      BY <2>1, <2>2
    <2>3. CASE ~(e.kind = "recv" \/ e.flag = 0)
      <3>1. m # None
        BY <1>8, <2>3 DEF ProbeEvent, NoMatch
      <3>2. e.rank = m.from
        BY <1>8, <3>1 DEF ProbeEvent
      <3>3. Peer(p) \in {AnySource, e.rank}
        BY <1>10, <3>1, <3>2 DEF FromPeer
      <3> QED BY <2>1, <2>3, <3>3
    <2> QED BY <2>2, <2>3
  <1>12. PICK x : Sees(p, x)
    BY <1>11
  <1>13. /\ UNCHANGED <<wanted, failed, mpiVars>> /\ Others(p) /\ at' = Next1(at, p)
         /\ IgnoredLost(Program[p], at[p] + 1, request'[p])
    BY <1>1, <1>12, SeesLeaves
  <1>14. /\ RanksGiven(events'[p]) /\ OthersSame(events, events', p)
         /\ OthersSame(pos, pos', p) /\ pos'[p] \in 0..Len(events'[p])
    <2>1. events[p] \in Seq(Events) /\ RanksGiven(events[p]) /\ pos[p] \in 0..Len(events[p])
      BY <1>1, <1>2 DEF Here, Sure, SureOf
    <2>2. Len(events[p]) \in Nat
      BY <2>1, LenProperties
    <2>3. DOMAIN pos = Ranks
      BY DEF Inv, Frames
    <2>4. pos'[p] = pos[p] + 1 /\ OthersSame(pos, pos', p) /\ OthersSame(events, events', p)
      BY <1>11, <2>3 DEF OthersSame
    <2>5. pos[p] < Len(events[p])
      BY <1>1 DEF HasEvent
    <2> QED BY <1>11, <2>1, <2>2, <2>4, <2>5
  <1> QED BY <1>1, <1>13, <1>14, QuietSure

-------------------------------------------------------------------------------

\* A call that receives something leaves the source of it.
LEMMA LastKnown ==
  ASSUME NEW c, NEW L \in Nat, NEW is \in SUBSET (1..L), NEW req, NEW ms, NEW last,
         \A i \in is : ms[c.among[i]] # None => ms[c.among[i]].from \in Ranks
  PROVE  last \in Ranks \/ ReceivedOf(c, req, ms, is) # {} =>
           LastOf(c, req, ms, is, last) \in Ranks
  <1>1. PICK R : R = ReceivedOf(c, req, ms, is)
    OBVIOUS
  <1>2. R \in SUBSET is /\ \A i \in R : ms[c.among[i]].from \in Ranks
    BY <1>1 DEF ReceivedOf
  <1>3. PICK x : x = GreatestOf(R)
    OBVIOUS
  <1>4. R # {} => x \in R
    <2>1. R \in SUBSET (1..L)
      BY <1>2
    <2>2. R # {} => \E i \in R : \A j \in R : j <= i
      BY <2>1, GreatestExists
    <2> QED BY <1>3, <2>2 DEF GreatestOf
  <1>5. LastOf(c, req, ms, is, last) = IF R = {} THEN last ELSE ms[c.among[x]].from
    BY <1>1, <1>3, Zenon DEF LastOf
  <1> QED BY <1>1, <1>2, <1>4, <1>5

\* A receive that is not cancelled is waiting to be completed, or has been.
LEMMA ReceiveOpen ==
  ASSUME NEW P, NEW p, NEW k, NEW h, StateRight(P, p, k, h), NEW req, req = h.request,
         IgnoredLost(P[p], k, req), NEW j \in DOMAIN P[p], j < k,
         P[p][j].op = "irecv", ~CanceledBefore(P[p], k, j)
  PROVE  req[j] \in {"recv", "null"}
  <1>1. IsRecv(P, p, j) /\ ~IsSend(P, p, j)
    BY DEF IsRecv, IsSend
  <1>2. req[j] \in RequestStates /\ req[j] # "none" /\ req[j] # "send"
    BY <1>1 DEF StateRight
  <1>3. req[j] # "ignored"
    BY DEF IgnoredLost, Lost
  <1> QED BY <1>2, <1>3 DEF RequestStates

\* A call that must receive a message does, or a null request tells that one was.
LEMMA CallInforms ==
  ASSUME NEW P, NEW p, NEW k, NEW c, NEW h, NEW req, NEW ms, NEW is,
         Call(P, p, k, c, h, req, ms, is), ~Unrecorded(c, req) => OutcomeOf(c, req, ms, is),
         NEW last, NullKnown(P[p], k, req, last), Informs(P[p], k)
  PROVE  last \in Ranks \/ ReceivedOf(c, req, ms, is) # {}
  <1>1. PICK among, L, js : among = c.among /\ L = Len(c.among)
                            /\ js = AwaitedReceives(P[p], k)
    OBVIOUS
  <1>2. /\ StateRight(P, p, k, h) /\ req = h.request /\ IgnoredLost(P[p], k, req)
        /\ \A i \in 1..L : among[i] \in DOMAIN P[p] /\ among[i] < k
        /\ is \in SUBSET (1..L) /\ HaveMessages(c, req, ms, is)
        /\ \A j \in ToSet(among) : \E i \in 1..L : among[i] = j
        /\ \A i \in 1..L : among[i] \in ToSet(among)
    BY <1>1 DEF Call
  <1>3. /\ P[p][k] = c /\ c.waits /\ js # {} /\ (c.kind = "all" \/ js = ToSet(among))
    BY <1>1 DEF Informs, Call
  <1>4. \A j \in js : /\ j \in ToSet(among) /\ P[p][j].op = "irecv"
                      /\ ~CanceledBefore(P[p], k, j)
    BY <1>1, <1>3 DEF AwaitedReceives
  <1>5. ASSUME NEW j \in js
        PROVE  \E i \in 1..L : among[i] = j /\ req[j] \in {"recv", "null"}
    <2>1. PICK i \in 1..L : among[i] = j
      BY <1>2, <1>4
    <2>2. j \in DOMAIN P[p] /\ j < k
      BY <1>2, <2>1
    <2>3. req[j] \in {"recv", "null"}
      BY <1>2, <1>4, <2>2, ReceiveOpen
    <2> QED BY <2>1, <2>3
  <1>6. PICK j \in js : TRUE
    BY <1>3
  <1>7. PICK i \in 1..L : among[i] = j /\ req[j] \in {"recv", "null"}
    BY <1>5
  <1>8. CASE req[j] = "null"
    BY <1>2, <1>4, <1>7, <1>8 DEF NullKnown
  <1>9. CASE req[j] = "recv"
    <2>1. i \in WithOf(c, req, {"send", "recv"})
          /\ i \in WithOf(c, req, {"send", "recv", "ignored"})
      BY <1>1, <1>7, <1>9 DEF WithOf
    <2>2. OutcomeOf(c, req, ms, is)
      BY <2>1 DEF Unrecorded
    <2>3. CASE c.kind = "all"
      <3>1. i \in ReadyOf(c, req, ms) /\ i \in is
        BY <1>1, <1>3, <2>1, <2>2, <2>3 DEF OutcomeOf
      <3>2. ms[j] # None
        BY <1>1, <1>7, <1>9, <3>1 DEF ReadyOf
      <3>3. i \in ReceivedOf(c, req, ms, is)
        BY <1>1, <1>7, <1>9, <3>1, <3>2 DEF ReceivedOf
      <3> QED BY <3>3
    <2>4. CASE c.kind # "all"
      <3>1. js = ToSet(among)
        BY <1>3, <2>4
      <3>2. PICK n \in is : n \in ReadyOf(c, req, ms)
        BY <1>3, <2>2, <2>4 DEF OutcomeOf
      <3>3. among[n] \in js /\ n \in 1..L
        BY <1>2, <3>1
      <3>4. req[among[n]] \in {"recv", "null"}
        BY <1>5, <3>3
      <3>5. req[among[n]] = "recv" /\ ms[among[n]] # None
        BY <1>1, <3>2, <3>4 DEF ReadyOf, WithOf
      <3>6. n \in ReceivedOf(c, req, ms, is)
        BY <1>1, <3>5 DEF ReceivedOf
      <3> QED BY <3>6
    <2> QED BY <2>3, <2>4
  <1> QED BY <1>7, <1>8, <1>9

\* A receive that a call completes has told its source.
LEMMA CallNulls ==
  ASSUME NEW P, NEW p, NEW k \in Nat, NEW c, NEW h, NEW req, NEW ms, NEW is,
         Call(P, p, k, c, h, req, ms, is), NEW new, Nulls(P, p, c, req, new, is),
         NEW j \in DOMAIN P[p], P[p][j].op = "irecv", new[j] = "null",
         ~CanceledBefore(P[p], k + 1, j)
  PROVE  req[j] = "null" \/ ReceivedOf(c, req, ms, is) # {}
  <1>1. CASE \E i \in is : c.among[i] = j
    <2>1. PICK i \in is : c.among[i] = j
      BY <1>1
    <2>2. StateRight(P, p, k, h) /\ req = h.request /\ IgnoredLost(P[p], k, req) /\ j < k
          /\ HaveMessages(c, req, ms, is)
      BY <2>1 DEF Call
    <2>3. ~CanceledBefore(P[p], k, j)
      <3>1. \A n \in 1..(k - 1) : n \in 1..((k + 1) - 1)
        OBVIOUS
      <3> QED BY <3>1 DEF CanceledBefore
    <2>4. req[j] \in {"recv", "null"}
      BY <2>2, <2>3, ReceiveOpen
    <2>5. req[j] = "recv" => i \in ReceivedOf(c, req, ms, is)
      BY <2>1, <2>2 DEF HaveMessages, ReceivedOf
    <2> QED BY <2>4, <2>5
  <1>2. CASE ~(\E i \in is : c.among[i] = j)
    BY <1>2 DEF Nulls
  <1> QED BY <1>1, <1>2

\* What is known of the call that process p executes.
LEMMA CallHere ==
  ASSUME Inv, Sure, NEW p \in Ranks, at[p] \in Ops(p), Op(p).op = "match",
         NEW is \in SUBSET Indices(p), HaveMessages(Op(p), request[p], msg[p], is)
  PROVE  \E h : /\ Call(Program, p, at[p], Op(p), h, request[p], msg[p], is)
                /\ h.request = request[p] /\ StateRight(Program, p, at[p], h)
  <1>1. Here(p) /\ Right(p)
    BY HereBefore, RightBefore
  <1>2. PICK P, k, c, req, ms : /\ P = Program /\ k = at[p] /\ c = Op(p) /\ req = request[p]
                                /\ ms = msg[p]
    OBVIOUS
  <1>3. /\ P \in Programs /\ k \in DOMAIN P[p] /\ c = P[p][k] /\ c.op = "match"
        /\ MessagesRight(P, msg)
    BY <1>1, <1>2 DEF Right, Op
  <1>4. /\ Len(c.among) \in Nat
        /\ \A i \in 1..Len(c.among) : c.among[i] \in DOMAIN P[p] /\ c.among[i] < k
    BY <1>3, MatchRefers
  <1>5. PICK n : StateRight(Program, p, at[p], St(request[p], lastSource[p], seen[p], n))
    BY <1>1 DEF Here
  <1>6. PICK h : h = St(request[p], lastSource[p], seen[p], n)
    OBVIOUS
  <1>7. StateRight(P, p, k, h) /\ req = h.request
    BY <1>2, <1>5, <1>6 DEF St
  <1>8. ToSet(c.among) = {c.among[i] : i \in 1..Len(c.among)}
    <2>1. P[p][k] \in Operations
      BY <1>3, OpsAreNumbers
    <2>2. c.among \in Seq(Nat)
      BY <1>3, <2>1 DEF Operations
    <2>3. DOMAIN c.among = 1..Len(c.among)
      BY <2>2, LenProperties
    <2> QED BY <2>3, Zenon DEF ToSet
  <1>9. IgnoredLost(P[p], k, req)
    BY <1>2 DEF Sure, SureOf
  <1>10. is \in SUBSET (1..Len(c.among))
    BY <1>2 DEF Indices
  <1>11. \A i \in is : ms[c.among[i]] # None => ms[c.among[i]].from \in Ranks
    <2> SUFFICES ASSUME NEW i \in is, ms[c.among[i]] # None
                 PROVE  ms[c.among[i]].from \in Ranks
      OBVIOUS
    <2>1. PICK j : j = c.among[i]
      OBVIOUS
    <2>2. i \in 1..Len(c.among)
      BY <1>10
    <2>3. j \in DOMAIN P[p]
      BY <1>4, <2>1, <2>2
    <2>4. msg[p][j] # None
      BY <1>2, <2>1
    <2> QED BY <1>2, <1>3, <2>1, <2>3, <2>4, MessageTypes
  <1>12. HaveMessages(c, req, ms, is)
    BY <1>2
  <1>13. Call(P, p, k, c, h, req, ms, is)
    BY <1>3, <1>4, <1>7, <1>8, <1>9, <1>10, <1>11, <1>12 DEF Call
  <1> QED BY <1>2, <1>7, <1>13

\* A call that returns.
LEMMA ReturnsSure ==
  ASSUME Inv, Inv', Sure, NEW p \in Ranks, at[p] \in Ops(p), Op(p).op = "match", StepRest(p),
         NEW is \in SUBSET Indices(p), HaveMessages(Op(p), request[p], msg[p], is),
         Returns(p, is), failed' = failed,
         ~Unrecorded(Op(p), request[p]) /\ mode = "record" =>
           OutcomeOf(Op(p), request[p], msg[p], is),
         OthersSame(events, events', p), RanksGiven(events'[p]), OthersSame(pos, pos', p),
         mode = "record" => pos' = pos, mode # "record" => pos'[p] \in 0..Len(events'[p])
  PROVE  Sure'
  <1>1. PICK P, k, c, req, ms, last, last1, new, h :
          /\ P = Program /\ k = at[p] /\ c = Op(p) /\ req = request[p] /\ ms = msg[p]
          /\ last = lastSource[p] /\ last1 = lastSource'[p] /\ new = request'[p]
          /\ Call(P, p, k, c, h, req, ms, is) /\ StateRight(P, p, k, h) /\ h.request = req
    BY CallHere
  <1>2. Frames /\ Here(p) /\ k \in Nat
    BY <1>1, HereBefore DEF Inv, Here
  <1>3. DOMAIN request[p] = DOMAIN Program[p]
    BY <1>1 DEF StateRight
  <1>4. Others(p) /\ Did(p, is) /\ at' = Next1(at, p) /\ UNCHANGED mpiVars
    BY <1>2, <1>3, ReturnsMade
  <1>5. c = Program[p][at[p]]
    BY <1>1 DEF Op
  <1>6. new = NulledBy(c, req, is) /\ last1 = LastOf(c, req, ms, is, last)
    <2>1. PICK x : x = St(req, last, seen[p], 0)
      OBVIOUS
    <2>2. x.request = req /\ x.lastSource = last
      BY <2>1 DEF St
    <2>3. St(new, last1, seen'[p], 0) = Matched(c, k, x, ms, is, 0)
      BY <1>1, <1>4, <1>5, <2>1 DEF Did
    <2>4. PICK y : y = St(new, last1, seen'[p], 0)
      OBVIOUS
    <2>5. y.request = new /\ y.lastSource = last1
      BY <2>4 DEF St
    <2>6. y.request = NulledBy(c, req, is) /\ y.lastSource = LastOf(c, req, ms, is, last)
      BY <2>2, <2>3, <2>4 DEF Matched, St
    <2> QED BY <2>5, <2>6
  <1>7. Nulls(P, p, c, req, new, is)
    BY <1>1, <1>3, <1>6 DEF Nulls, NulledBy
  <1>8. IgnoredLost(P[p], k + 1, new)
    <2>1. IgnoredLost(P[p], k, req)
      BY <1>1 DEF Call
    <2>2. \A j \in DOMAIN P[p] : new[j] = "ignored" => req[j] = "ignored" \/ Lost(P[p], k + 1, j)
      BY <1>7 DEF Nulls
    <2> QED BY <1>2, <2>1, <2>2, IgnoredKept
  <1>9. /\ last \in Ranks => last1 \in Ranks
        /\ ReceivedOf(c, req, ms, is) # {} => last1 \in Ranks
    <2>1. PICK L : L = Len(c.among)
      OBVIOUS
    <2>2. /\ L \in Nat /\ is \in SUBSET (1..L)
          /\ \A i \in is : ms[c.among[i]] # None => ms[c.among[i]].from \in Ranks
      BY <1>1, <2>1 DEF Call
    <2>3. \A i \in is : ms[c.among[i]] # None => ms[c.among[i]].from \in Ranks
      BY <2>2
    <2>4. L \in Nat /\ is \in SUBSET (1..L)
      BY <2>2
    <2>5. last \in Ranks \/ ReceivedOf(c, req, ms, is) # {} =>
            LastOf(c, req, ms, is, last) \in Ranks
      BY <2>3, <2>4, LastKnown
    <2> QED BY <1>6, <2>5
  <1>10. ASSUME mode = "record"
         PROVE  /\ NullKnown(P[p], k + 1, new, last1)
                /\ last \in Ranks \/ Informs(P[p], k) => last1 \in Ranks
    <2>1. NullKnown(P[p], k, req, last)
      BY <1>1, <1>10, RecordPart
    <2>2. \A j \in DOMAIN P[p] :
            P[p][j].op = "irecv" /\ new[j] = "null" /\ ~CanceledBefore(P[p], k + 1, j) =>
              req[j] = "null" \/ last1 \in Ranks
      <3> SUFFICES ASSUME NEW j \in DOMAIN P[p], P[p][j].op = "irecv", new[j] = "null",
                          ~CanceledBefore(P[p], k + 1, j)
                   PROVE  req[j] = "null" \/ last1 \in Ranks
        OBVIOUS
      <3>1. req[j] = "null" \/ ReceivedOf(c, req, ms, is) # {}
        <4>1. Call(P, p, k, c, h, req, ms, is)
          BY <1>1
        <4> QED BY <1>2, <1>7, <4>1, CallNulls
      <3> QED BY <1>9, <3>1
    <2>3. NullKnown(P[p], k + 1, new, last1)
      BY <1>2, <1>9, <2>1, <2>2, NullKept
    <2>4. ASSUME Informs(P[p], k) PROVE last1 \in Ranks
      <3>1. ~Unrecorded(c, req) => OutcomeOf(c, req, ms, is)
        BY <1>1, <1>10
      <3>2. Call(P, p, k, c, h, req, ms, is)
        BY <1>1
      <3>3. last \in Ranks \/ ReceivedOf(c, req, ms, is) # {}
        BY <2>1, <2>4, <3>1, <3>2, CallInforms
      <3> QED BY <1>9, <3>3
    <2> QED BY <1>9, <2>3, <2>4
  <1>11. wanted' = wanted /\ failed' = failed /\ UNCHANGED mpiVars
    BY <1>4 DEF Returns
  <1>12. Program[p][at[p]].op \notin {"probe", "iprobe"} /\ Op(p).op # "irecv"
    BY DEF Op
  <1>13. mode = "record" =>
           /\ NullKnown(Program[p], at[p] + 1, request'[p], lastSource'[p])
           /\ lastSource[p] \in Ranks \/ Informs(Program[p], at[p]) => lastSource'[p] \in Ranks
    BY <1>1, <1>10
  <1>14. IgnoredLost(Program[p], at[p] + 1, request'[p])
    BY <1>1, <1>8
  <1> QED BY <1>4, <1>11, <1>12, <1>13, <1>14, QuietSure

\* MatchUnrecorded.
LEMMA PassSure ==
  ASSUME Inv, Inv', Sure, NEW p \in Ranks, MatchUnrecorded(p), StepRest(p)
  PROVE  Sure'
  <1>1. PICK is : /\ UNCHANGED <<events, pos>> /\ at[p] \in Ops(p)
                  /\ Program[p][at[p]].op = "match" /\ Returns(p, is)
                  /\ PassedBy(Program[p][at[p]], request[p], msg[p], is)
    BY PassIs
  <1>2. PICK c, req : c = Op(p) /\ req = request[p]
    OBVIOUS
  <1>3. /\ is \in SUBSET (1..Len(c.among)) /\ Unrecorded(c, req) /\ Op(p).op = "match"
    BY <1>1, <1>2 DEF PassedBy, Op
  <1>4. is \in SUBSET Indices(p)
    BY <1>2, <1>3 DEF Indices
  <1>5. HaveMessages(c, req, msg[p], is)
    BY <1>3 DEF HaveMessages, Unrecorded, WithOf
  <1>6. failed' = failed
    BY DEF MatchUnrecorded
  <1>7. /\ OthersSame(events, events', p) /\ RanksGiven(events'[p]) /\ OthersSame(pos, pos', p)
        /\ pos' = pos /\ mode # "record" => pos'[p] \in 0..Len(events'[p])
    BY <1>1 DEF Sure, SureOf, OthersSame
  <1>8. ~(~Unrecorded(Op(p), request[p]) /\ mode = "record")
    BY <1>2, <1>3
  <1>9. HaveMessages(Op(p), request[p], msg[p], is)
    BY <1>2, <1>5
  <1> QED BY <1>1, <1>3, <1>4, <1>6, <1>7, <1>8, <1>9, ReturnsSure

\* Requests ReMPI keeps no account of are not mixed with others.
LEMMA NeverMixed ==
  ASSUME AllAccepted, Inv, Sure, NEW p \in Ranks, at[p] \in Ops(p), Op(p).op = "match"
  PROVE  ~Mixed(p)
  <1>1. PICK P, k, c, req : P = Program /\ k = at[p] /\ c = Op(p) /\ req = request[p]
    OBVIOUS
  <1>2. Mixed(p) <=> WithOf(c, req, {"ignored"}) \notin {{}, 1..Len(c.among)}
    BY <1>1, CallIs
  <1>3. {} \in SUBSET Indices(p) /\ HaveMessages(Op(p), request[p], msg[p], {})
    BY DEF HaveMessages
  <1>4. PICK h : Call(P, p, k, c, h, req, msg[p], {})
    BY <1>1, <1>3, CallHere
  <1>5. /\ k \in DOMAIN P[p] /\ c = P[p][k] /\ c.op = "match" /\ IgnoredLost(P[p], k, req)
        /\ \A i \in 1..Len(c.among) : c.among[i] \in DOMAIN P[p] /\ c.among[i] \in ToSet(c.among)
    BY <1>4 DEF Call
  <1>6. \A i, j \in ToSet(c.among) : Lost(P[p], k, i) => i = j
    <2>1. Accepted(P)
      BY <1>1 DEF AllAccepted, Inv
    <2> QED BY <1>5, <2>1 DEF Accepted
  <1>7. ASSUME NEW i \in WithOf(c, req, {"ignored"}), NEW n \in 1..Len(c.among)
        PROVE  n \in WithOf(c, req, {"ignored"})
    <2>1. i \in 1..Len(c.among) /\ req[c.among[i]] = "ignored"
      BY DEF WithOf
    <2>2. Lost(P[p], k, c.among[i])
      BY <1>5, <2>1 DEF IgnoredLost
    <2>3. c.among[i] = c.among[n]
      BY <1>5, <1>6, <2>1, <2>2
    <2> QED BY <2>1, <2>3 DEF WithOf
  <1>8. WithOf(c, req, {"ignored"}) \subseteq 1..Len(c.among)
    BY DEF WithOf
  <1> QED BY <1>2, <1>7, <1>8

\* MatchRecord.
LEMMA MatchRecordSure ==
  ASSUME AllAccepted, Inv, Inv', Sure, NEW p \in Ranks, MatchRecord(p), StepRest(p)
  PROVE  Sure'
  <1>1. at[p] \in Ops(p) /\ mode = "record" /\ Op(p).op = "match"
    BY DEF MatchRecord, Executes, Op
  <1>2. ~Mixed(p)
    BY <1>1, NeverMixed
  <1>3. PICK is \in SUBSET Indices(p) :
          /\ Outcome(p, is)
          /\ events' = [events EXCEPT ![p] = RanksSet(p, is) \o TestEvents(p, is)]
          /\ Returns(p, is) /\ UNCHANGED <<pos, failed>>
    BY <1>2 DEF MatchRecord
  <1>4. Here(p) /\ Right(p)
    BY <1>1, HereBefore, RightBefore
  <1>5. PICK P, M, k, c, req, ms, E, F :
          /\ P = Program /\ M = msg /\ k = at[p] /\ c = P[p][k] /\ req = request[p]
          /\ ms = msg[p] /\ E = events[p] /\ F = events'[p]
    OBVIOUS
  <1>6. /\ P \in Programs /\ k \in DOMAIN P[p] /\ c.op = "match" /\ c = Op(p)
        /\ MessagesRight(P, M) /\ E \in Seq(Events) /\ DOMAIN events = Ranks
    BY <1>1, <1>4, <1>5 DEF Here, Right, Frames, Op
  <1>7. is \in SUBSET (1..Len(c.among))
    BY <1>3, <1>6 DEF Indices
  <1>8. OutcomeOf(c, req, ms, is)
    BY <1>3, <1>5, <1>6, OutcomeIs
  <1>9. HaveMessages(c, req, ms, is)
    <2>1. Len(c.among) \in Nat
      BY <1>5, <1>6, MatchRefers
    <2> QED BY <1>7, <1>8, <2>1, OutcomeCompletes
  <1>10. F = Written(P, p, c, req, M, is, E)
    <2>1. /\ c = P[p][k] /\ c.op = "match" /\ c = Op(p) /\ req = request[p] /\ ms = msg[p]
          /\ E = events[p] /\ P \in Programs /\ k \in DOMAIN P[p] /\ E \in Seq(Events)
      BY <1>5, <1>6
    <2>2. RanksSet(p, is) = Noted(E, ReceivesAmong(c, req, is), SourcesOf(P, p, ms))
      <3>1. CallOf(P, p, k, c, req, ms, E, is)
        BY <1>7, <2>1 DEF CallOf
      <3> QED BY <3>1, RanksAre
    <2>3. TestEvents(p, is) = TestsOf(p, c, req, ms, is)
      BY <2>1, EventsAre
    <2>4. F = RanksSet(p, is) \o TestEvents(p, is)
      BY <1>3, <1>5, <1>6
    <2> QED BY <1>5, <2>2, <2>3, <2>4 DEF Written, SourcesOf
  <1>11. WrittenFrom(p, c, req, M, is, E, F)
    <2>1. \A i \in is : req[c.among[i]] = "recv" => M[p][c.among[i]] # None
      BY <1>5, <1>9 DEF HaveMessages
    <2> QED BY <1>5, <1>6, <1>7, <1>10, <2>1, WrittenRight
  <1>12. RanksGiven(F)
    <2> SUFFICES ASSUME NEW n \in DOMAIN F, F[n].kind = "recv"
                 PROVE  F[n].rank \in Ranks \cup {AnySource, Canceled}
      BY DEF RanksGiven
    <2>1. PICK j : j = E[n].k
      OBVIOUS
    <2>2. /\ n \in DOMAIN E /\ E[n].kind = "recv"
          /\ F[n].rank = IF j \in ReceivesAmong(c, req, is) THEN M[p][j].from ELSE E[n].rank
      BY <1>11, <2>1 DEF WrittenFrom
    <2>3. CASE j \in ReceivesAmong(c, req, is)
      <3>1. PICK i \in is : c.among[i] = j /\ req[j] = "recv"
        BY <2>3 DEF ReceivesAmong
      <3>2. i \in 1..Len(c.among)
        BY <1>7
      <3>3. j \in DOMAIN P[p]
        BY <1>5, <1>6, <3>1, <3>2, MatchRefers
      <3>4. M[p][j] # None
        BY <1>5, <1>9, <3>1 DEF HaveMessages
      <3>5. M[p][j].from \in Ranks
        BY <1>6, <3>3, <3>4, MessageTypes
      <3> QED BY <2>2, <2>3, <3>5
    <2>4. CASE j \notin ReceivesAmong(c, req, is)
      <3>1. RanksGiven(E)
        BY <1>5 DEF Sure, SureOf
      <3> QED BY <2>2, <2>4, <3>1 DEF RanksGiven
    <2> QED BY <2>3, <2>4
  <1>13. /\ OthersSame(events, events', p) /\ RanksGiven(events'[p])
         /\ OthersSame(pos, pos', p) /\ pos' = pos /\ failed' = failed
    BY <1>3, <1>5, <1>6, <1>12 DEF OthersSame
  <1>14. OutcomeOf(Op(p), request[p], msg[p], is) /\ HaveMessages(Op(p), request[p], msg[p], is)
    BY <1>5, <1>6, <1>8, <1>9
  <1> QED BY <1>1, <1>3, <1>13, <1>14, ReturnsSure

\* The events of a call are of the requests it completed.
LEMMA TestsNamed ==
  ASSUME NEW c, NEW L \in Nat, NEW is \in SUBSET (1..L), NEW req, NEW ms, NEW p,
         NEW j \in 1..EventCount(is), NEW e, e = TestsOf(p, c, req, ms, is)[j]
  PROVE  /\ e.kind = "test"
         /\ e.flag = 1 => \E i \in is : EventOf(p, c, req, ms, i, e)
  <1>1. CASE is = {}
    <2>1. j = 1
      BY <1>1 DEF EventCount
    <2>2. PICK t : t = <<NoMatch>>
      OBVIOUS
    <2>3. e = t[j]
      BY <1>1, <2>2 DEF TestsOf
    <2>4. e = NoMatch
      BY <2>1, <2>2, <2>3
    <2> QED BY <2>4 DEF NoMatch
  <1>2. CASE is # {}
    <2>1. PICK s, n, t : s = InOrder(is) /\ n = Cardinality(is) /\ t = TestsOf(p, c, req, ms, is)
      OBVIOUS
    <2>2. n \in Nat /\ s \in [1..n -> is]
      BY <1>2, <2>1, OrderIs
    <2>3. t = [i \in DOMAIN s |->
                [kind |-> "test", flag |-> 1, index |-> s[i],
                 rank |-> IF req[c.among[s[i]]] = "null" THEN AnySource
                          ELSE Rank(p, ms[c.among[s[i]]]),
                 next |-> WithNext(i, n)]]
      BY <1>2, <2>1, Zenon DEF TestsOf
    <2>4. j \in 1..n
      BY <1>2, <2>1 DEF EventCount
    <2>5. /\ e.kind = "test" /\ e.flag = 1 /\ e.index = s[j]
          /\ e.rank = IF req[c.among[s[j]]] = "null" THEN AnySource
                      ELSE Rank(p, ms[c.among[s[j]]])
      BY <2>1, <2>2, <2>3, <2>4
    <2>6. s[j] \in is
      BY <2>2, <2>4
    <2>7. EventOf(p, c, req, ms, s[j], e)
      BY <2>5 DEF EventOf
    <2> QED BY <2>5, <2>6, <2>7
  <1> QED BY <1>1, <1>2

\* The rank that the record has for a request is the one that the replay checks.
LEMMA RequestPlausible ==
  ASSUME NEW P \in Programs, NEW M, MessagesRight(P, M), NEW N, MessagesRight(P, N),
         SameMessages(P, M, N), NEW A, Progress(P, A, N),
         NEW p \in Ranks, NEW h, NEW req, NEW j, Awaiting(P, p, A[p], h, req, j, N),
         NEW H, NEW w, WantedRight(P[p], A[p], H, w), GotFrom(P[p], M[p], H)
  PROVE  Expected(p, req, j, M, N, w)
  <1> /\ StateRight(P, p, A[p], h) /\ req = h.request /\ j \in DOMAIN P[p] /\ j < A[p]
      /\ req[j] = "recv" => N[p][j] # None
    BY DEF Awaiting
  <1>1. ASSUME req[j] = "send"
        PROVE  Rank(p, M[p][j]) = N[p][j].to
    <2>1. IsSend(P, p, j) /\ ~IsRecv(P, p, j)
      BY <1>1 DEF StateRight, IsSend, IsRecv
    <2>2. N[p][j] # None
      BY <2>1 DEF Progress
    <2>3. N[p][j] = M[p][j]
      BY <2>2 DEF SameMessages
    <2>4. M[p][j].from = p
      BY <2>1, <2>2, <2>3 DEF MessagesRight, SendsOwn
    <2> QED BY <2>2, <2>3, <2>4 DEF Rank
  <1>2. ASSUME req[j] = "recv"
        PROVE  w[j] \in {AnySource, N[p][j].from}
    <2>1. P[p][j].op = "irecv"
      BY <1>2 DEF StateRight, IsRecv
    <2>2. N[p][j] # None
      BY <1>2
    <2>3. N[p][j] = M[p][j]
      BY <2>2 DEF SameMessages
    <2>4. w[j] = PeerAt(P[p], H, j)
      BY <2>1 DEF WantedRight
    <2>5. FromPeer(PeerAt(P[p], H, j), M[p][j])
      BY <2>1 DEF GotFrom
    <2> QED BY <2>2, <2>3, <2>4, <2>5 DEF FromPeer
  <1> QED BY <1>1, <1>2 DEF Expected

\* The replay of a call: the checks of its events succeed.
LEMMA ChecksSucceed ==
  ASSUME AllReplayable, AllAccepted, Inv, Sure, NEW p \in Ranks, MatchReplay(p)
  PROVE  /\ \A e \in ToSet(Group(p)) : Plausible(p, e)
         /\ LastOfGroup(p) \in 0..Len(events[p])
         /\ \E is \in SUBSET Indices(p) :
              /\ is = {e.index : e \in {e \in ToSet(Group(p)) : e.kind = "test" /\ e.flag = 1}}
              /\ HaveMessages(Op(p), request[p], msg[p], is)
  <1>1. at[p] \in Ops(p) /\ mode = "replay" /\ Op(p).op = "match" /\ ~NotRecorded(p) /\ ~Mixed(p)
    BY DEF MatchReplay, Executes, Op
  <1>2. RepRight(p) /\ Here(p)
    BY <1>1, RepRightBefore, HereBefore
  <1>3. PICK P, A, M, N, k, c, req, ms, E, h, g, H :
          /\ P = Program /\ A = at /\ M = recMsg /\ N = msg /\ k = at[p] /\ c = P[p][k]
          /\ req = request[p] /\ ms = M[p] /\ E = events[p] /\ h = RepState(p)
          /\ g = history[p][at[p] + 1] /\ H = history[p]
    OBVIOUS
  <1>4. /\ P \in Programs /\ k \in DOMAIN P[p] /\ k = A[p] /\ c.op = "match" /\ c = Op(p)
        /\ StateRight(P, p, k, h) /\ MessagesRight(P, M) /\ MessagesRight(P, N)
        /\ SameMessages(P, M, N) /\ Progress(P, A, N) /\ h.request = req
        /\ h.events = pos[p] /\ E \in Seq(Events)
    BY <1>1, <1>2, <1>3 DEF RepRight, Right, RepState, St, Op
  <1>5. KeptMatch(M, p, k, c, h, g, E)
    BY <1>2, <1>3, <1>4 DEF RepRight, Kept
  <1>6. PICK is \in SUBSET (1..Len(c.among)) : KeptMatchOf(M, p, k, c, h, g, E, is)
    BY <1>5 DEF KeptMatch
  <1>7. /\ Indices(p) = 1..Len(c.among)
        /\ With(p, {"recv"}) = WithOf(c, req, {"recv"})
        /\ NotRecorded(p) <=> Unrecorded(c, req)
        /\ Mixed(p) <=> WithOf(c, req, {"ignored"}) \notin {{}, 1..Len(c.among)}
    <2>1. PICK ns : ns = msg[p]
      OBVIOUS
    <2>2. /\ Indices(p) = 1..Len(c.among) /\ \A x : With(p, x) = WithOf(c, req, x)
      BY <1>3, <1>4, <2>1, CallIs
    <2>3. NotRecorded(p) <=> Unrecorded(c, req)
      BY <1>3, <1>4, <2>1, CallIs
    <2>4. Mixed(p) <=> WithOf(c, req, {"ignored"}) \notin {{}, 1..Len(c.among)}
      BY <1>3, <1>4, <2>1, CallIs
    <2> QED BY <2>2, <2>3, <2>4
  <1>8. PICK L, n, a, t :
          /\ L = Len(c.among) /\ n = EventCount(is) /\ a = h.events
          /\ t = TestsOf(p, c, req, ms, is)
    OBVIOUS
  <1>9. EventsAt(E, a, t, n) /\ (\A i \in is : req[c.among[i]] = "send" => M[p][c.among[i]] # None)
    <2>1. EventsOf(c, h.request, is) = n
      BY <1>1, <1>4, <1>7, <1>8 DEF EventsOf
    <2> QED BY <1>3, <1>4, <1>6, <1>8, <2>1 DEF KeptMatchOf, EventsAt
  <1>10. /\ L \in Nat /\ is \in SUBSET (1..L) /\ a \in Nat
         /\ \A i \in 1..L : c.among[i] \in DOMAIN P[p] /\ c.among[i] < k
    <2>1. /\ Len(c.among) \in Nat
          /\ \A i \in 1..Len(c.among) : c.among[i] \in DOMAIN P[p] /\ c.among[i] < k
      BY <1>3, <1>4, MatchRefers
    <2> QED BY <1>4, <1>8, <2>1 DEF StateRight
  <1>11. GroupOf(t, is, n)
    <2>1. GroupOf(TestsOf(p, c, req, ms, is), is, EventCount(is))
      BY <1>10, TestsAre
    <2> QED BY <1>8, <2>1
  <1>12. EndOfGroup(E, a) = a + n /\ n \in Nat /\ n >= 1
    BY <1>4, <1>9, <1>10, <1>11, GroupEnds
  <1>13. LastOfGroup(p) = a + n
    BY <1>3, <1>4, <1>8, <1>12 DEF LastOfGroup, EndOfGroup
  <1>14. Group(p) = SubSeq(E, a + 1, a + n)
    BY <1>3, <1>4, <1>8, <1>13 DEF Group
  <1>15. LastOfGroup(p) \in 0..Len(events[p])
    <2>1. a + n \in DOMAIN E
      BY <1>9, <1>12 DEF EventsAt
    <2>2. DOMAIN E = 1..Len(E) /\ Len(E) \in Nat
      BY <1>4, LenProperties
    <2> QED BY <1>3, <1>13, <2>1, <2>2
  <1>16. Completing(SubSeq(E, a + 1, a + n)) = is
    BY <1>4, <1>9, <1>10, <1>11, GroupCompletes
  <1>17. is = {e.index : e \in {e \in ToSet(Group(p)) : e.kind = "test" /\ e.flag = 1}}
    BY <1>14, <1>16 DEF Completing
  <1>18. \A i \in is \cap With(p, {"recv"}) : Got(p, i) # None
    BY <1>17 DEF MatchReplay
  <1>19. ASSUME NEW i \in is
         PROVE  /\ i \in 1..L /\ c.among[i] \in DOMAIN P[p] /\ c.among[i] < k
                /\ req[c.among[i]] = "recv" => N[p][c.among[i]] # None
    <2>1. i \in 1..L
      BY <1>10
    <2>2. ASSUME req[c.among[i]] = "recv" PROVE N[p][c.among[i]] # None
      <3>1. i \in With(p, {"recv"})
        BY <1>7, <1>8, <2>1, <2>2 DEF WithOf
      <3> QED BY <1>3, <1>4, <1>18, <3>1 DEF Got
    <2> QED BY <1>10, <2>1, <2>2
  <1>20. HaveMessages(c, req, N[p], is)
    <2> SUFFICES ASSUME NEW i \in is, req[c.among[i]] \in {"send", "recv"}
                 PROVE  N[p][c.among[i]] # None
      BY DEF HaveMessages
    <2>1. PICK j : j = c.among[i]
      OBVIOUS
    <2>2. j \in DOMAIN P[p] /\ j < k
      BY <1>19, <2>1
    <2>3. CASE req[j] = "send"
      <3>1. IsSend(P, p, j)
        BY <1>4, <2>2, <2>3 DEF StateRight
      <3> QED BY <1>4, <2>1, <2>2, <3>1 DEF Progress
    <2>4. CASE req[j] = "recv"
      BY <1>19, <2>1, <2>4
    <2> QED BY <2>1, <2>3, <2>4
  <1>21. WithOf(c, req, {"ignored"}) = {}
    <2>1. PICK i : i \in WithOf(c, req, {"send", "recv"})
      BY <1>1, <1>7 DEF Unrecorded
    <2>2. i \in 1..Len(c.among) /\ i \notin WithOf(c, req, {"ignored"})
      BY <2>1 DEF WithOf
    <2> QED BY <1>1, <1>7, <2>2
  <1>22. WantedRight(P[p], k, H, wanted[p]) /\ GotFrom(P[p], M[p], H)
    <2>1. FirstGot[p] = M[p]
      BY <1>1, <1>3 DEF FirstGot
    <2> QED BY <1>3, <2>1 DEF Sure, SureOf
  <1>23. ASSUME NEW e \in ToSet(Group(p))
         PROVE  Plausible(p, e)
    <2>1. PICK m \in 1..n : e = t[m]
      BY <1>4, <1>9, <1>10, <1>11, <1>14, GroupElements
    <2>2. /\ e.kind = "test"
          /\ e.flag = 1 => \E i \in is : EventOf(p, c, req, ms, i, e)
      <3>1. m \in 1..EventCount(is) /\ e = TestsOf(p, c, req, ms, is)[m]
        BY <1>8, <2>1
      <3> QED BY <1>10, <3>1, TestsNamed
    <2>3. ASSUME e.flag = 1
          PROVE  /\ e.index \in Indices(p)
                 /\ Info(p, e.index) # "ignored"
                 /\ Info(p, e.index) = "send" => e.rank = Got(p, e.index).to
                 /\ Info(p, e.index) = "recv" =>
                      wanted[p][Op(p).among[e.index]] \in {AnySource, Got(p, e.index).from}
      <3>1. PICK i \in is : EventOf(p, c, req, ms, i, e)
        BY <2>2, <2>3
      <3>2. PICK j, w : j = c.among[i] /\ w = wanted[p]
        OBVIOUS
      <3>3. /\ i \in 1..L /\ j \in DOMAIN P[p] /\ j < k
            /\ req[j] = "recv" => N[p][j] # None
        BY <1>19, <3>2
      <3>4. e.index = i /\ (e.rank = IF req[j] = "null" THEN AnySource ELSE Rank(p, ms[j]))
        BY <3>1, <3>2 DEF EventOf
      <3>5. Info(p, i) = req[j] /\ Got(p, i) = N[p][j] /\ Op(p).among[i] = j
        BY <1>3, <1>4, <3>2 DEF Info, Got
      <3>6. req[j] # "ignored"
        BY <1>8, <1>21, <3>2, <3>3 DEF WithOf
      <3>7. /\ req[j] = "send" => Rank(p, M[p][j]) = N[p][j].to
            /\ req[j] = "recv" => w[j] \in {AnySource, N[p][j].from}
        <4>1. StateRight(P, p, A[p], h) /\ req = h.request /\ j < A[p]
          BY <1>4, <3>3
        <4>2. WantedRight(P[p], A[p], H, w) /\ GotFrom(P[p], M[p], H)
          BY <1>4, <1>22, <3>2
        <4>3. /\ P \in Programs /\ MessagesRight(P, M) /\ MessagesRight(P, N)
              /\ SameMessages(P, M, N) /\ Progress(P, A, N)
          BY <1>4
        <4>4. Awaiting(P, p, A[p], h, req, j, N)
          BY <3>3, <4>1 DEF Awaiting
        <4>5. Expected(p, req, j, M, N, w)
          BY <4>2, <4>3, <4>4, RequestPlausible
        <4> QED BY <4>5 DEF Expected
      <3>8. e.index \in Indices(p) /\ Info(p, e.index) # "ignored"
        BY <1>7, <1>8, <3>3, <3>4, <3>5, <3>6
      <3>9. Info(p, e.index) = "send" => e.rank = Got(p, e.index).to
        BY <1>3, <3>4, <3>5, <3>7
      <3>10. Info(p, e.index) = "recv" =>
               wanted[p][Op(p).among[e.index]] \in {AnySource, Got(p, e.index).from}
        BY <3>2, <3>4, <3>5, <3>7
      <3> QED BY <3>8, <3>9, <3>10
    <2> QED BY <2>2, <2>3 DEF Plausible
  <1>24. is \in SUBSET Indices(p) /\ HaveMessages(Op(p), request[p], msg[p], is)
    BY <1>3, <1>4, <1>7, <1>20
  <1> QED BY <1>15, <1>17, <1>23, <1>24

\* MatchReplay.
LEMMA MatchReplaySure ==
  ASSUME AllReplayable, AllAccepted, Inv, Inv', Sure, NEW p \in Ranks, MatchReplay(p), StepRest(p)
  PROVE  Sure'
  <1>1. at[p] \in Ops(p) /\ mode # "record" /\ Op(p).op = "match"
    BY DEF MatchReplay, Executes, Op
  <1>2. /\ \A e \in ToSet(Group(p)) : Plausible(p, e)
        /\ LastOfGroup(p) \in 0..Len(events[p])
    BY ChecksSucceed
  <1>3. PICK is \in SUBSET Indices(p) :
          /\ is = {e.index : e \in {e \in ToSet(Group(p)) : e.kind = "test" /\ e.flag = 1}}
          /\ HaveMessages(Op(p), request[p], msg[p], is)
    BY ChecksSucceed
  <1>4. Returns(p, is) /\ pos' = [pos EXCEPT ![p] = LastOfGroup(p)] /\ UNCHANGED <<events, failed>>
    BY <1>2, <1>3 DEF MatchReplay
  <1>5. DOMAIN pos = Ranks
    BY DEF Inv, Frames
  <1>6. /\ OthersSame(pos, pos', p) /\ pos'[p] \in 0..Len(events'[p])
        /\ OthersSame(events, events', p) /\ RanksGiven(events'[p])
    BY <1>2, <1>4, <1>5 DEF OthersSame, Sure, SureOf
  <1> QED BY <1>1, <1>3, <1>4, <1>6, ReturnsSure

-------------------------------------------------------------------------------

\* Deliver: the receive that gets the message was posted with its peer as the source.
LEMMA DeliveredSure ==
  ASSUME Inv, Sure, NEW d \in Ranks, NEW i, NEW m, GoesTo(d, i, m),
         UNCHANGED <<Program, mode, recMsg>>,
         at'[d] = at[d], request'[d] = request[d], wanted'[d] = wanted[d],
         lastSource'[d] = lastSource[d], history'[d] = history[d],
         events'[d] = events[d], pos'[d] = pos[d]
  PROVE  SureOf(d)' /\ OthersSame(msg, msg', d) /\ OthersSame(posted, posted', d)
  <1>1. PICK code, h, w, r, k : /\ code = Program[d] /\ h = history[d] /\ w = wanted[d]
                                /\ r = posted[d][i] /\ k = r.k
    OBVIOUS
  <1>2. /\ i \in DOMAIN posted[d] /\ Matches(r.source, r.tag, m)
        /\ msg' = With1(msg, d, k, m) /\ posted' = Without(posted, d, i)
    BY <1>1 DEF GoesTo
  <1>3. /\ posted \in [Ranks -> Seq(Waiting)] /\ ByRequest(posted[d])
        /\ Channels(Program, at, msg, travelling, unexpected, posted)
    BY DEF Inv, Chans, Channels, PostedRight
  <1>4. r \in ToSet(posted[d])
    BY <1>1, <1>2 DEF ToSet
  <1>5. k \in DOMAIN code /\ code[k].op = "irecv" /\ k < at[d]
    <2>1. PostedReceive(Program, at, msg, unexpected, d, r)
      BY <1>3, <1>4 DEF Channels, PostedRight
    <2> QED BY <1>1, <2>1 DEF PostedReceive, IsRecv
  <1>6. Dropped(posted, posted', d, i)
    BY <1>2, <1>3, PostDropped
  <1>7. ToSet(posted'[d]) \subseteq ToSet(posted[d]) /\ OthersSame(posted, posted', d)
    BY <1>3, <1>6 DEF Dropped, NoNewPosts, OthersSame
  <1>8. PICK ms, ns : ms = msg[d] /\ ns = msg'[d]
    OBVIOUS
  <1>9. /\ OthersSame(msg, msg', d)
        /\ \A j \in DOMAIN code : ns[j] = IF j = k THEN m ELSE ms[j]
    BY <1>1, <1>2, <1>5, <1>8, MessageSet
  <1>10. SureOf(d)
    BY DEF Sure
  <1>11. Past(d)' = Past(d)
    BY DEF Past
  <1>12. SendsRight(code, ns)
    BY <1>1, <1>5, <1>8, <1>9, <1>10 DEF SureOf, SendsRight
  <1>13. PostsTyped(posted'[d])
    BY <1>7, <1>10 DEF SureOf, PostsTyped
  <1>14. PICK K, n : K = Past(d) /\ n = at[d]
    OBVIOUS
  <1>15. /\ IgnoredLost(code, n, request[d]) /\ WantedRight(code, n, h, w)
         /\ RanksGiven(events[d]) /\ SourceKnown(code, K, h) /\ ProbesRight(code, K, h)
         /\ mode # "record" => pos[d] \in 0..Len(events[d])
         /\ mode = "record" => /\ pos[d] = 0 /\ PostsWanted(posted[d], w)
                               /\ NullKnown(code, n, request[d], lastSource[d])
    BY <1>1, <1>10, <1>14 DEF SureOf
  <1>16. mode = "record" => PostsWanted(posted'[d], w)
    BY <1>7, <1>15 DEF PostsWanted
  <1>17. GotFrom(code, FirstGot[d], h)
    BY <1>1, <1>10 DEF SureOf
  <1>18. GotFrom(code, FirstGot[d]', h)
    <2>1. CASE mode = "record"
      <3>1. FirstGot[d] = ms /\ FirstGot[d]' = ns
        BY <1>8, <2>1 DEF FirstGot
      <3>2. r.source = w[k] /\ w[k] = PeerAt(code, h, k)
        BY <1>1, <1>4, <1>5, <1>14, <1>15, <2>1 DEF PostsWanted, WantedRight
      <3>3. FromPeer(PeerAt(code, h, k), m)
        BY <1>2, <3>2 DEF FromPeer, Matches
      <3>4. GotFrom(code, ms, h)
        BY <1>17, <3>1
      <3>5. GotFrom(code, ns, h)
        BY <1>9, <3>3, <3>4, GotOneMore
      <3> QED BY <3>1, <3>5
    <2>2. CASE mode # "record"
      <3>1. FirstGot[d]' = FirstGot[d]
        BY <2>2 DEF FirstGot
      <3> QED BY <1>17, <3>1
    <2> QED BY <2>1, <2>2
  <1>19. SureOf(d)'
    BY <1>1, <1>8, <1>11, <1>12, <1>13, <1>14, <1>15, <1>16, <1>18 DEF SureOf
  <1> QED BY <1>7, <1>9, <1>19

\* A message that arrives keeps Sure, whatever becomes of it.
LEMMA DeliverSure ==
  ASSUME Inv, Sure, Deliver
  PROVE  Sure'
  <1>1. PICK s, d \in Ranks : Arrive(s, d)
    BY DEF Deliver
  <1>2. UNCHANGED <<Program, mode, at, request, lastSource, events, pos, history, recMsg,
                    wanted, failed>>
    BY DEF Deliver, appVars, remVars, recVars
  <1>3. PICK m : Delivered(s, d, m) /\ (ArrivesUnexpected(d, m) \/ \E i : GoesTo(d, i, m))
    BY <1>1, ArriveDelivers DEF Inv
  <1>4. CASE ArrivesUnexpected(d, m)
    <2>1. UNCHANGED <<msg, posted>>
      BY <1>4 DEF ArrivesUnexpected
    <2>2. \A q \in Ranks : SureOf(q)'
      BY <1>2, <2>1, OthersSure
    <2> QED BY <1>2, <2>2 DEF Sure
  <1>5. CASE \E i : GoesTo(d, i, m)
    <2>1. PICK i : GoesTo(d, i, m)
      BY <1>5
    <2>2. SureOf(d)' /\ OthersSame(msg, msg', d) /\ OthersSame(posted, posted', d)
      BY <1>2, <2>1, DeliveredSure
    <2>3. ASSUME NEW q \in Ranks, q # d
          PROVE  SureOf(q)'
      <3>1. msg'[q] = msg[q] /\ posted'[q] = posted[q]
        BY <2>2, <2>3 DEF OthersSame
      <3> QED BY <1>2, <3>1, OthersSure
    <2>4. \A q \in Ranks : SureOf(q)'
      BY <2>2, <2>3
    <2> QED BY <1>2, <2>4 DEF Sure
  <1> QED BY <1>3, <1>4, <1>5

-------------------------------------------------------------------------------

\* All that Sure says of its requests, messages and receives holds.
LEMMA FreshSure ==
  ASSUME NEW code, Numbers(code), NEW req, NEW w, NEW ms, NEW q,
         FreshRight(code, req, w, ms, q), NEW h, NEW last
  PROVE  /\ IgnoredLost(code, 1, req) /\ WantedRight(code, 1, h, w)
         /\ SendsRight(code, ms) /\ PostsTyped(q) /\ PostsWanted(q, w)
         /\ NullKnown(code, 1, req, last) /\ GotFrom(code, ms, h)
  <1>1. /\ \A k \in DOMAIN code : req[k] = "none" /\ ms[k] = None
        /\ w = [k \in DOMAIN code |-> None] /\ q = <<>>
    BY DEF FreshRight
  <1>2. IgnoredLost(code, 1, req) /\ NullKnown(code, 1, req, last)
    BY <1>1 DEF IgnoredLost, NullKnown
  <1>3. SendsRight(code, ms)
    BY <1>1 DEF SendsRight
  <1>4. GotFrom(code, ms, h)
    BY <1>1 DEF GotFrom, FromPeer
  <1>5. ToSet(q) = {}
    BY <1>1 DEF ToSet
  <1>6. PostsTyped(q) /\ PostsWanted(q, w)
    BY <1>5 DEF PostsTyped, PostsWanted
  <1>7. WantedRight(code, 1, h, w)
    <2>1. \A j \in DOMAIN code : ~(j < 1)
      BY DEF Numbers
    <2> QED BY <1>1, <2>1 DEF WantedRight
  <1> QED BY <1>2, <1>3, <1>4, <1>6, <1>7

\* Sure holds when the recorded run starts.
LEMMA InitSure ==
  ASSUME Init
  PROVE  Sure
  <1>1. Program \in Programs /\ mode = "record" /\ Fresh
    BY DEF Init, MpiInit, FreshProcesses, Fresh, Ops
  <1>2. wanted = [p \in Ranks |-> [k \in Ops(p) |-> None]] /\ failed = {}
        /\ events = [p \in Ranks |-> <<>>]
    BY DEF Init, FreshProcesses
  <1>3. ASSUME NEW p \in Ranks
        PROVE  SureOf(p)
    <2>1. PICK code, h, w, req, ms, q, last :
             /\ code = Program[p] /\ h = history[p] /\ w = wanted[p] /\ req = request[p]
             /\ ms = msg[p] /\ q = posted[p] /\ last = lastSource[p]
      OBVIOUS
    <2>2. Numbers(code)
      BY <1>1, <2>1, OpsAreNumbers DEF Numbers
    <2>3. /\ req = [k \in DOMAIN code |-> "none"] /\ ms = [k \in DOMAIN code |-> None]
          /\ w = [k \in DOMAIN code |-> None] /\ q = <<>> /\ at[p] = 1 /\ pos[p] = 0
      BY <1>1, <1>2, <2>1 DEF Fresh, Ops
    <2>4. FreshRight(code, req, w, ms, q)
      BY <2>3 DEF FreshRight
    <2>5. /\ IgnoredLost(code, 1, req) /\ WantedRight(code, 1, h, w)
          /\ SendsRight(code, ms) /\ PostsTyped(q) /\ PostsWanted(q, w)
          /\ NullKnown(code, 1, req, last) /\ GotFrom(code, ms, h)
      BY <2>2, <2>4, FreshSure
    <2>6. RanksGiven(events[p])
      BY <1>2 DEF RanksGiven
    <2>7. Past(p) = 1 /\ FirstGot = msg
      BY <1>1, <2>3 DEF Past, FirstGot
    <2>8. SourceKnown(code, 1, h) /\ ProbesRight(code, 1, h)
      <3>1. \A k \in DOMAIN code : ~(k < 1)
        BY <2>2 DEF Numbers
      <3>2. \A k \in 1..1 : \A j \in 1..(k - 1) : FALSE
        OBVIOUS
      <3> QED BY <3>1, <3>2 DEF SourceKnown, ProbesRight
    <2> QED BY <1>1, <2>1, <2>3, <2>5, <2>6, <2>7, <2>8 DEF SureOf
  <1> QED BY <1>2, <1>3 DEF Sure

\* And when the replay starts, of the recorded run as it was.
LEMMA RerunSure ==
  ASSUME Inv, Sure, Rerun
  PROVE  Sure'
  <1>1. /\ mode = "record" /\ mode' = "replay" /\ Program' = Program /\ Fresh'
        /\ UNCHANGED <<events, history, failed>> /\ recMsg' = msg
        /\ wanted' = [p \in Ranks |-> [k \in Ops(p) |-> None]]
    BY DEF Rerun, FreshProcesses, Fresh, Ops
  <1>2. ASSUME NEW p \in Ranks
        PROVE  SureOf(p)'
    <2>1. PICK code, h, w, req, ms, q, last :
             /\ code = Program[p] /\ h = history[p] /\ w = wanted'[p] /\ req = request'[p]
             /\ ms = msg'[p] /\ q = posted'[p] /\ last = lastSource'[p]
      OBVIOUS
    <2>2. Numbers(code)
      BY <2>1, OpsAreNumbers DEF Numbers, Inv
    <2>3. /\ req = [k \in DOMAIN code |-> "none"] /\ ms = [k \in DOMAIN code |-> None]
          /\ w = [k \in DOMAIN code |-> None] /\ q = <<>> /\ at'[p] = 1 /\ pos'[p] = 0
      BY <1>1, <2>1 DEF Fresh, Ops
    <2>4. FreshRight(code, req, w, ms, q)
      BY <2>3 DEF FreshRight
    <2>5. /\ IgnoredLost(code, 1, req) /\ WantedRight(code, 1, h, w)
          /\ SendsRight(code, ms) /\ PostsTyped(q)
      BY <2>2, <2>4, FreshSure
    <2>6. at[p] = Len(code) + 1
      <3>1. at[p] \in 1..(Len(code) + 1)
        BY <2>1 DEF Inv, Chans, Channels, Progress
      <3>2. at[p] \notin DOMAIN code
        BY <2>1 DEF Rerun, AllDone, Ops
      <3> QED BY <2>2, <3>1, <3>2 DEF Numbers
    <2>7. Past(p)' = Past(p)
      BY <1>1, <2>1, <2>6 DEF Past
    <2>8. FirstGot' = FirstGot
      BY <1>1 DEF FirstGot
    <2>9. PICK K, got : K = Past(p) /\ got = FirstGot[p]
      OBVIOUS
    <2>10. /\ RanksGiven(events[p]) /\ SourceKnown(code, K, h)
           /\ ProbesRight(code, K, h) /\ GotFrom(code, got, h)
      BY <2>1, <2>9 DEF Sure, SureOf
    <2>11. pos'[p] \in 0..Len(events'[p])
      <3>1. RecordingAt(Program, msg, travelling, p, history[p], at[p], events[p], RecState(p))
        BY <1>1 DEF Inv, Recording, RecordingOf, RecState
      <3>2. events[p] \in Seq(Events)
        BY <3>1 DEF RecordingAt, HistoryRight
      <3>3. Len(events[p]) \in Nat
        BY <3>2, LenProperties
      <3> QED BY <1>1, <2>3, <3>3
    <2>12. mode' # "record"
      BY <1>1
    <2>13. /\ IgnoredLost(Program'[p], at'[p], request'[p])
           /\ WantedRight(Program'[p], at'[p], history'[p], wanted'[p])
           /\ SendsRight(Program'[p], msg'[p]) /\ PostsTyped(posted'[p])
      BY <1>1, <2>1, <2>3, <2>5
    <2>14. /\ RanksGiven(events'[p]) /\ SourceKnown(Program'[p], Past(p)', history'[p])
           /\ ProbesRight(Program'[p], Past(p)', history'[p])
           /\ GotFrom(Program'[p], FirstGot[p]', history'[p])
      BY <1>1, <2>1, <2>7, <2>8, <2>9, <2>10
    <2> QED BY <2>11, <2>12, <2>13, <2>14 DEF SureOf
  <1> QED BY <1>1, <1>2 DEF Sure

\* The tables of requests and events of a process in either run.
LEMMA StateTyped ==
  ASSUME Inv, NEW p \in Ranks
  PROVE  /\ at[p] \in 1..(Len(Program[p]) + 1)
         /\ request[p] \in [Ops(p) -> RequestStates] /\ lastSource[p] \in Ranks \cup {None}
         /\ events[p] \in Seq(Events)
  <1>1. PICK P, H, E, k, K : /\ P = Program /\ H = history[p] /\ E = events[p] /\ k = at[p]
                             /\ K = Len(P[p]) + 1
    OBVIOUS
  <1>2. k \in 1..K /\ P \in Programs
    BY <1>1 DEF Inv, Chans, Channels, Progress
  <1>3. \E n : StateRight(P, p, k, St(request[p], lastSource[p], seen[p], n))
        /\ E \in Seq(Events)
    <2>1. CASE mode = "record"
      <3>1. RecordingAt(P, msg, travelling, p, H, k, E, RecState(p))
        BY <1>1, <2>1 DEF Inv, Recording, RecordingOf, RecState
      <3>2. HistoryRight(P, msg, travelling, "record", p, H, k, E) /\ H[k] = RecState(p)
        BY <3>1 DEF RecordingAt
      <3>3. k \in 1..k
        BY <1>2
      <3>4. StateRight(P, p, k, H[k])
        BY <3>2, <3>3, KeptHistory DEF KeptAt
      <3>5. E \in Seq(Events)
        BY <3>2 DEF HistoryRight
      <3> QED BY <3>2, <3>4, <3>5 DEF RecState
    <2>2. CASE mode = "replay"
      <3>1. ReplayingAt(P, recMsg, p, H, E, recSeen[p], k, RepState(p))
        BY <1>1, <2>2 DEF Inv, Replaying, ReplayingOf, RepState
      <3>2. HistoryRight(P, recMsg, <<>>, "replay", p, H, K, E) /\ H[k] = RepState(p)
        BY <1>1, <3>1 DEF ReplayingAt
      <3>3. StateRight(P, p, k, H[k])
        BY <1>2, <3>2, KeptHistory DEF KeptAt
      <3>4. E \in Seq(Events)
        BY <3>2 DEF HistoryRight
      <3> QED BY <3>2, <3>3, <3>4 DEF RepState
    <2> QED BY <2>1, <2>2 DEF Inv
  <1> QED BY <1>1, <1>2, <1>3 DEF StateRight, St, Ops

\* Receives that become null have their messages.
LEMMA NullGotKept ==
  ASSUME NEW code, NEW k \in Nat, NEW req, NEW ms, NullGot(code, k, req, ms),
         NEW n \in Nat, k <= n, NEW new, NEW ns,
         \A j \in DOMAIN code : ms[j] # None => ns[j] # None,
         \A j \in DOMAIN code :
           code[j].op = "irecv" /\ new[j] = "null" /\ ~CanceledBefore(code, k, j) =>
             req[j] = "null" \/ ns[j] # None
  PROVE  NullGot(code, n, new, ns)
  <1> SUFFICES ASSUME NEW j \in DOMAIN code, code[j].op = "irecv", new[j] = "null",
                      ~CanceledBefore(code, n, j)
               PROVE  ns[j] # None
    BY DEF NullGot
  <1>1. ~CanceledBefore(code, k, j)
    <2>1. \A i \in 1..(k - 1) : i \in 1..(n - 1)
      OBVIOUS
    <2> QED BY <2>1 DEF CanceledBefore
  <1>2. CASE req[j] = "null"
    BY <1>1, <1>2 DEF NullGot
  <1> QED BY <1>1, <1>2

LEMMA StepNulled ==
  ASSUME Inv, Nulled, UNCHANGED Program, MoreMessages, NEW p \in Ranks,
         at' = at \/ at' = Next1(at, p), OthersSame(request, request', p), Nulling(p)
  PROVE  Nulled'
  <1>1. at \in [Ranks -> Nat]
    BY DEF Inv, Chans, Channels, Progress
  <1> SUFFICES ASSUME NEW q \in Ranks
               PROVE  NullGot(Program[q], at'[q], request'[q], msg'[q])
    BY DEF Nulled
  <1>2. PICK code, k, n, req, new, ms, ns :
          /\ code = Program[q] /\ k = at[q] /\ n = at'[q] /\ req = request[q]
          /\ new = request'[q] /\ ms = msg[q] /\ ns = msg'[q]
    OBVIOUS
  <1>3. k \in Nat /\ n \in Nat /\ k <= n
    <2>1. CASE at' = at
      BY <1>1, <1>2, <2>1
    <2>2. CASE at' = Next1(at, p)
      <3>1. n = k \/ n = k + 1
        BY <1>1, <1>2, <2>2 DEF Next1
      <3> QED BY <1>1, <1>2, <3>1
    <2> QED BY <2>1, <2>2
  <1>4. NullGot(code, k, req, ms) /\ \A j \in DOMAIN code : ms[j] # None => ns[j] # None
    BY <1>2 DEF Nulled, MoreMessages
  <1>5. \A j \in DOMAIN code :
          code[j].op = "irecv" /\ new[j] = "null" /\ ~CanceledBefore(code, k, j) =>
            req[j] = "null" \/ ns[j] # None
    <2>1. CASE q = p
      BY <1>2, <2>1 DEF Nulling
    <2>2. CASE q # p
      BY <1>2, <2>2 DEF OthersSame
    <2> QED BY <2>1, <2>2
  <1>6. NullGot(code, n, new, ns)
    BY <1>3, <1>4, <1>5, NullGotKept
  <1> QED BY <1>2, <1>6

\* A step that makes or gives up a request, or that leaves them all alone.
LEMMA RequestNulled ==
  ASSUME Inv, Nulled, UNCHANGED Program, MoreMessages, NEW p \in Ranks,
         at' = at \/ at' = Next1(at, p),
         \/ request' = request
         \/ \E j, state : state # "null" /\ request' = [request EXCEPT ![p][j] = state]
  PROVE  Nulled'
  <1>1. CASE request' = request
    BY <1>1, StepNulled DEF OthersSame, Nulling
  <1>2. CASE \E j, state : state # "null" /\ request' = [request EXCEPT ![p][j] = state]
    <2>1. PICK j, state : state # "null" /\ request' = [request EXCEPT ![p][j] = state]
      BY <1>2
    <2>2. PICK req, new : req = request[p] /\ new = [req EXCEPT ![j] = state]
      OBVIOUS
    <2>3. DOMAIN request = Ranks
      BY DEF Inv, Frames
    <2>4. request'[p] = new /\ OthersSame(request, request', p)
      BY <2>1, <2>2, <2>3 DEF OthersSame
    <2>5. DOMAIN req = DOMAIN Program[p]
      <3>1. request[p] \in [Ops(p) -> RequestStates]
        BY StateTyped
      <3> QED BY <2>2, <3>1 DEF Ops
    <2>6. \A i \in DOMAIN Program[p] : new[i] = "null" => req[i] = "null"
      BY <2>1, <2>2, <2>5
    <2>7. Nulling(p)
      BY <2>2, <2>4, <2>6 DEF Nulling
    <2> QED BY <2>4, <2>7, StepNulled
  <1> QED BY <1>1, <1>2

\* A request gets its first message.
LEMMA MessageGained ==
  ASSUME Inv, NEW p \in Ranks, NEW k \in DOMAIN Program[p], msg[p][k] = None, NEW m,
         msg' = With1(msg, p, k, m)
  PROVE  MoreMessages
  <1>1. /\ OthersSame(msg, msg', p)
        /\ \A j \in DOMAIN Program[p] : msg'[p][j] = IF j = k THEN m ELSE msg[p][j]
    BY MessageSet
  <1> SUFFICES ASSUME NEW q \in Ranks, NEW j \in DOMAIN Program[q], msg[q][j] # None
               PROVE  msg'[q][j] # None
    BY DEF MoreMessages
  <1>2. CASE q = p
    BY <1>1, <1>2
  <1>3. CASE q # p
    BY <1>1, <1>3 DEF OthersSame
  <1> QED BY <1>2, <1>3

\* The operation that a process executes has no message yet.
LEMMA NoMessageYet ==
  ASSUME Inv, NEW p \in Ranks, at[p] \in Ops(p)
  PROVE  at[p] \in DOMAIN Program[p] /\ msg[p][at[p]] = None
  <1>1. Progress(Program, at, msg)
    BY DEF Inv, Chans, Channels
  <1>2. at[p] \in DOMAIN Program[p] /\ at[p] \in Nat
    BY <1>1 DEF Progress, Ops
  <1>3. msg[p][at[p]] # None => at[p] < at[p]
    BY <1>1, <1>2 DEF Progress
  <1> QED BY <1>2, <1>3

\* A call that completes requests which have their messages.
LEMMA ReturnsNulled ==
  ASSUME Inv, Sure, Nulled, UNCHANGED Program, NEW p \in Ranks, at[p] \in Ops(p),
         Op(p).op = "match", NEW is \in SUBSET Indices(p),
         HaveMessages(Op(p), request[p], msg[p], is), Returns(p, is)
  PROVE  Nulled'
  <1>1. PICK P, k, c, req, ms, new, h :
          /\ P = Program /\ k = at[p] /\ c = Op(p) /\ req = request[p] /\ ms = msg[p]
          /\ new = request'[p] /\ Call(P, p, k, c, h, req, ms, is)
    BY CallHere
  <1>2. at' = Next1(at, p) /\ msg' = msg
    BY DEF Returns, Return, Next1, mpiVars
  <1>3. DOMAIN request = Ranks /\ request[p] \in [Ops(p) -> RequestStates]
    BY StateTyped DEF Inv, Frames
  <1>4. /\ OthersSame(request, request', p)
        /\ new = [j \in Ops(p) |-> IF \E i \in is : c.among[i] = j THEN "null" ELSE req[j]]
    BY <1>1, <1>3 DEF Returns, Completed, OthersSame
  <1>5. Nulling(p)
    <2> SUFFICES ASSUME NEW j \in DOMAIN P[p], P[p][j].op = "irecv", new[j] = "null",
                        ~CanceledBefore(P[p], k, j)
                 PROVE  req[j] = "null" \/ ms[j] # None
      BY <1>1, <1>2 DEF Nulling
    <2>1. CASE \E i \in is : c.among[i] = j
      <3>1. PICK i \in is : c.among[i] = j
        BY <2>1
      <3>2. StateRight(P, p, k, h) /\ req = h.request /\ IgnoredLost(P[p], k, req) /\ j < k
            /\ HaveMessages(c, req, ms, is)
        BY <1>1, <3>1 DEF Call
      <3>3. req[j] \in {"recv", "null"}
        BY <3>2, ReceiveOpen
      <3> QED BY <3>1, <3>2, <3>3 DEF HaveMessages
    <2>2. CASE ~(\E i \in is : c.among[i] = j)
      BY <1>1, <1>4, <2>2 DEF Ops
    <2> QED BY <2>1, <2>2
  <1>6. MoreMessages
    BY <1>2 DEF MoreMessages
  <1> QED BY <1>2, <1>4, <1>5, <1>6, StepNulled

\* A matching function completes requests that have their messages.
LEMMA MatchHas ==
  ASSUME AllReplayable, AllAccepted, Inv, Sure, NEW p \in Ranks,
         MatchUnrecorded(p) \/ MatchRecord(p) \/ MatchReplay(p)
  PROVE  /\ at[p] \in Ops(p) /\ Op(p).op = "match"
         /\ \E is \in SUBSET Indices(p) :
              Returns(p, is) /\ HaveMessages(Op(p), request[p], msg[p], is)
  <1>1. at[p] \in Ops(p) /\ Op(p).op = "match"
    BY DEF MatchUnrecorded, MatchRecord, MatchReplay, Executes, Op
  <1>2. CASE MatchUnrecorded(p)
    <2>1. PICK is : Returns(p, is) /\ PassedBy(Program[p][at[p]], request[p], msg[p], is)
      BY <1>2, PassIs
    <2>2. is \in SUBSET (1..Len(Op(p).among)) /\ Unrecorded(Op(p), request[p])
      BY <2>1 DEF PassedBy, Op
    <2>3. HaveMessages(Op(p), request[p], msg[p], is)
      BY <2>2 DEF HaveMessages, Unrecorded, WithOf
    <2> QED BY <1>1, <2>1, <2>2, <2>3 DEF Indices
  <1>3. CASE MatchRecord(p)
    <2>1. PICK is \in SUBSET Indices(p) : Outcome(p, is) /\ Returns(p, is)
      BY <1>1, <1>3, NeverMixed DEF MatchRecord
    <2>2. PICK P, k, c, req, ms : /\ P = Program /\ k = at[p] /\ c = P[p][k] /\ req = request[p]
                                  /\ ms = msg[p]
      OBVIOUS
    <2>3. P \in Programs /\ k \in DOMAIN P[p] /\ c.op = "match" /\ c = Op(p)
      BY <1>1, <2>2, RightBefore DEF Right, Op
    <2>4. is \in SUBSET (1..Len(c.among)) /\ Len(c.among) \in Nat
      BY <2>1, <2>2, <2>3, MatchRefers DEF Indices
    <2>5. OutcomeOf(c, req, ms, is)
      BY <2>1, <2>2, <2>3, OutcomeIs
    <2>6. HaveMessages(c, req, ms, is)
      BY <2>4, <2>5, OutcomeCompletes
    <2> QED BY <1>1, <2>1, <2>2, <2>3, <2>6
  <1>4. CASE MatchReplay(p)
    <2>1. \A e \in ToSet(Group(p)) : Plausible(p, e)
      BY <1>4, ChecksSucceed
    <2>2. PICK is \in SUBSET Indices(p) :
            /\ is = {e.index : e \in {e \in ToSet(Group(p)) : e.kind = "test" /\ e.flag = 1}}
            /\ HaveMessages(Op(p), request[p], msg[p], is)
      BY <1>4, ChecksSucceed
    <2>3. Returns(p, is)
      BY <1>4, <2>1, <2>2 DEF MatchReplay
    <2> QED BY <1>1, <2>2, <2>3
  <1> QED BY <1>2, <1>3, <1>4

\* What is cancelled is a receive that ReMPI has registered.
LEMMA CancelledIsRecv ==
  ASSUME AllReplayable, AllAccepted, Inv, Sure, Nulled, NEW p \in Ranks, Cancel(p)
  PROVE  Cancelling(p)
  <1>1. at[p] \in Ops(p) /\ Op(p).op = "cancel"
    BY DEF Cancel, Executes, Op
  <1>2. Here(p) /\ Right(p)
    BY <1>1, HereBefore, RightBefore
  <1>3. PICK P, k, j, req : P = Program /\ k = at[p] /\ j = Op(p).k /\ req = request[p]
    OBVIOUS
  <1>4. /\ P \in Programs /\ k \in DOMAIN P[p] /\ k \in Nat /\ Numbers(P[p])
        /\ P[p][k].op = "cancel" /\ P[p][k].k = j /\ MessagesRight(P, msg)
    BY <1>1, <1>2, <1>3 DEF Here, Right, Numbers, Op
  <1>5. j \in DOMAIN P[p] /\ j < k
    <2>1. j \in 1..(k - 1)
      BY <1>4, ProgramAssumption DEF Refers
    <2> QED BY <1>4, <2>1 DEF Numbers
  <1>6. P[p][j].op = "irecv" /\ ~CanceledBefore(P[p], k, j)
    <2>1. Accepted(P)
      BY <1>4 DEF AllAccepted
    <2> QED BY <1>4, <2>1 DEF Accepted
  <1>7. req[j] \in {"recv", "null"}
    <2>1. PICK n : StateRight(P, p, k, St(req, lastSource[p], seen[p], n))
      BY <1>2, <1>3 DEF Here
    <2>2. PICK h : h = St(req, lastSource[p], seen[p], n)
      OBVIOUS
    <2>3. StateRight(P, p, k, h) /\ req = h.request /\ IgnoredLost(P[p], k, req)
      BY <1>3, <2>1, <2>2 DEF St, Sure, SureOf
    <2> QED BY <1>5, <1>6, <2>3, ReceiveOpen
  <1>8. req[j] # "null"
    <2>1. Unaccounted(P, p, j)
      BY <1>4, <1>5, <1>6 DEF Unaccounted, IsRecv, Cancels
    <2>2. msg[p][j] = None
      BY <1>4, <1>5, <2>1, NeverGets DEF AllReplayable
    <2>3. NullGot(P[p], k, req, msg[p])
      BY <1>3 DEF Nulled
    <2> QED BY <1>5, <1>6, <2>2, <2>3 DEF NullGot
  <1> QED BY <1>3, <1>7, <1>8, CancelStops

\* Every step keeps it that receives which are over have their messages.
LEMMA NextNulled ==
  ASSUME AllReplayable, AllAccepted, Inv, Sure, Nulled, [Next]_vars
  PROVE  Nulled'
  <1>1. CASE UNCHANGED vars
    BY <1>1 DEF vars, appVars, remVars, mpiVars, Nulled
  <1>2. CASE Rerun
    <2>1. Program' = Program /\ Fresh'
      BY <1>2 DEF Rerun, FreshProcesses, Fresh, Ops
    <2>2. \A p \in Ranks : \A j \in DOMAIN Program'[p] : request'[p][j] = "none"
      BY <2>1 DEF Fresh
    <2> QED BY <2>2 DEF Nulled, NullGot
  <1>3. CASE Deliver
    <2>1. PICK s, d \in Ranks : Arrive(s, d)
      BY <1>3 DEF Deliver
    <2>2. UNCHANGED <<Program, at, request>>
      BY <1>3 DEF Deliver, appVars, remVars
    <2>3. MoreMessages
      <3>1. PICK m : ArrivesUnexpected(d, m) \/ \E i : GoesTo(d, i, m)
        BY <2>1, ArriveDelivers DEF Inv
      <3>2. CASE ArrivesUnexpected(d, m)
        BY <3>2 DEF ArrivesUnexpected, MoreMessages
      <3>3. CASE \E i : GoesTo(d, i, m)
        <4>1. PICK i, r : GoesTo(d, i, m) /\ r = posted[d][i]
          BY <3>3
        <4>2. r \in ToSet(posted[d]) /\ msg' = With1(msg, d, r.k, m)
          BY <4>1 DEF GoesTo, ToSet
        <4>3. PostedReceive(Program, at, msg, unexpected, d, r)
          BY <4>2 DEF Inv, Chans, Channels, PostedRight
        <4>4. r.k \in DOMAIN Program[d] /\ msg[d][r.k] = None
          BY <4>3 DEF PostedReceive, IsRecv
        <4> QED BY <4>2, <4>4, MessageGained
      <3> QED BY <3>1, <3>2, <3>3
    <2> QED BY <2>2, <2>3, RequestNulled
  <1>4. CASE \E p \in Ranks : Step(p)
    <2>1. PICK p \in Ranks : Step(p)
      BY <1>4
    <2>2. Program' = Program
      BY <2>1 DEF Step
    <2>3. ASSUME UNCHANGED <<at, request, msg>>
          PROVE  Nulled'
      BY <2>2, <2>3 DEF Nulled
    <2>4. CASE Isend(p)
      <3>1. at[p] \in Ops(p) /\ at' = Next1(at, p)
            /\ request' = [request EXCEPT ![p][at[p]] = "send"]
        BY <2>4 DEF Isend, Executes, Return, Next1, RegistersSend
      <3>2. \E m : msg' = With1(msg, p, at[p], m)
        BY <2>4 DEF Isend, Send, With1
      <3>3. MoreMessages
        BY <3>1, <3>2, NoMessageYet, MessageGained
      <3>4. "send" # "null"
        OBVIOUS
      <3> QED BY <2>2, <3>1, <3>3, <3>4, RequestNulled
    <2>5. CASE Unsupported(p)
      <3>1. at' = Next1(at, p) /\ request' = [request EXCEPT ![p][at[p]] = "ignored"]
            /\ msg' = msg
        BY <2>5 DEF Unsupported, Return, Next1, mpiVars
      <3>2. "ignored" # "null" /\ MoreMessages
        BY <3>1 DEF MoreMessages
      <3> QED BY <2>2, <3>1, <3>2, RequestNulled
    <2>6. CASE IrecvRecord(p) \/ IrecvReplay(p)
      <3>1. CASE Stop(p)
        BY <2>3, <3>1 DEF Stop, appVars, mpiVars
      <3>2. CASE ~Stop(p)
        <4>1. at[p] \in Ops(p) /\ at' = Next1(at, p)
              /\ request' = [request EXCEPT ![p][at[p]] = "recv"]
          BY <2>6, <3>2 DEF IrecvRecord, IrecvReplay, Executes, Return, Next1, RegistersRecv
        <4>2. msg' = msg \/ \E m : msg' = With1(msg, p, at[p], m)
          BY <2>6, <3>2 DEF IrecvRecord, IrecvReplay, Receive, With1
        <4>3. MoreMessages
          <5>1. CASE msg' = msg
            BY <5>1 DEF MoreMessages
          <5>2. CASE \E m : msg' = With1(msg, p, at[p], m)
            BY <4>1, <5>2, NoMessageYet, MessageGained
          <5> QED BY <4>2, <5>1, <5>2
        <4>4. "recv" # "null"
          OBVIOUS
        <4> QED BY <2>2, <4>1, <4>3, <4>4, RequestNulled
      <3> QED BY <3>1, <3>2
    <2>7. CASE MatchUnrecorded(p) \/ MatchRecord(p) \/ MatchReplay(p)
      BY <2>2, <2>7, MatchHas, ReturnsNulled
    <2>8. CASE ProbeRecord(p) \/ ProbeReplay(p)
      <3>1. CASE Stop(p)
        BY <2>3, <3>1 DEF Stop, appVars, mpiVars
      <3>2. CASE ~Stop(p)
        <4>1. \E m : Sees(p, m)
          BY <2>8, <3>2 DEF ProbeRecord, ProbeReplay
        <4>2. at' = Next1(at, p) /\ request' = request /\ msg' = msg
          BY <4>1 DEF Sees, Return, Next1, mpiVars
        <4>3. MoreMessages
          BY <4>2 DEF MoreMessages
        <4> QED BY <2>2, <4>2, <4>3, RequestNulled
      <3> QED BY <3>1, <3>2
    <2>9. CASE Cancel(p)
      <3>1. Cancelling(p)
        BY <2>9, CancelledIsRecv
      <3>2. at' = Next1(at, p) /\ request' = [request EXCEPT ![p][Op(p).k] = "ignored"]
            /\ msg' = msg
        BY <3>1 DEF Cancelling, CancelRecv, CancelReceive, Return, Next1
      <3>3. "ignored" # "null" /\ MoreMessages
        BY <3>2 DEF MoreMessages
      <3> QED BY <2>2, <3>2, <3>3, RequestNulled
    <2> QED BY <2>1, <2>4, <2>5, <2>6, <2>7, <2>8, <2>9 DEF Step
  <1> QED BY <1>1, <1>2, <1>3, <1>4 DEF Next, Ended

-------------------------------------------------------------------------------

\* Every step keeps Sure.
LEMMA NextSure ==
  ASSUME AllReplayable, AllAccepted, Inv, Sure, Nulled, [Next]_vars
  PROVE  Sure'
  <1>1. Inv'
    BY NextKeeps
  <1>2. CASE UNCHANGED vars
    <2>1. UNCHANGED <<Program, mode, recMsg, at, request, wanted, lastSource, history, msg,
                      posted, events, pos, failed>>
      BY <1>2 DEF vars, appVars, remVars, recVars, mpiVars
    <2>2. \A q \in Ranks : SureOf(q)'
      BY <2>1, OthersSure
    <2> QED BY <2>1, <2>2 DEF Sure
  <1>3. CASE Rerun
    BY <1>3, RerunSure
  <1>4. CASE Deliver
    BY <1>4, DeliverSure
  <1>5. CASE \E p \in Ranks : Step(p)
    <2>1. PICK p \in Ranks : Step(p)
      BY <1>5
    <2>2. StepRest(p)
      BY <2>1 DEF Step, StepRest
    <2>3. CASE Isend(p)
      BY <1>1, <2>2, <2>3, IsendSure
    <2>4. CASE Unsupported(p)
      BY <1>1, <2>2, <2>4, OtherSure
    <2>5. CASE IrecvRecord(p)
      BY <1>1, <2>2, <2>5, IrecvRecordSure
    <2>6. CASE IrecvReplay(p)
      BY <1>1, <2>2, <2>6, IrecvReplaySure
    <2>7. CASE MatchUnrecorded(p)
      BY <1>1, <2>2, <2>7, PassSure
    <2>8. CASE MatchRecord(p)
      BY <1>1, <2>2, <2>8, MatchRecordSure
    <2>9. CASE MatchReplay(p)
      BY <1>1, <2>2, <2>9, MatchReplaySure
    <2>10. CASE ProbeRecord(p)
      BY <1>1, <2>2, <2>10, ProbeRecordSure
    <2>11. CASE ProbeReplay(p)
      BY <1>1, <2>2, <2>11, ProbeReplaySure
    <2>12. CASE Cancel(p)
      BY <1>1, <2>2, <2>12, CancelledIsRecv, CancelSure
    <2> QED BY <2>1, <2>3, <2>4, <2>5, <2>6, <2>7, <2>8, <2>9, <2>10, <2>11, <2>12 DEF Step
  <1> QED BY <1>2, <1>3, <1>4, <1>5 DEF Next, Ended

-------------------------------------------------------------------------------

\* It is kept by whatever gives a request its message.
LEMMA ShapeKept ==
  ASSUME Inv, Shaped,
         UNCHANGED msg \/ \E p \in Ranks : \E k, m : msg' = [msg EXCEPT ![p][k] = m]
  PROVE  Shaped'
  <1>1. CASE UNCHANGED msg
    BY <1>1 DEF Shaped
  <1>2. CASE \E p \in Ranks : \E k, m : msg' = [msg EXCEPT ![p][k] = m]
    <2>a. PICK p \in Ranks : \E k, m : msg' = [msg EXCEPT ![p][k] = m]
      BY <1>2
    <2>1. PICK k, m : msg' = [msg EXCEPT ![p][k] = m]
      BY <2>a
    <2>2. DOMAIN msg = Ranks
      BY DEF Inv, Chans, Channels, Pipes, MessagesRight, Tables
    <2>3. PICK ms, ns : ms = msg[p] /\ ns = [ms EXCEPT ![k] = m]
      OBVIOUS
    <2>4. msg' = [msg EXCEPT ![p] = ns]
      BY <2>1, <2>3
    <2>5. ns = [j \in DOMAIN ns |-> ns[j]]
      BY <2>3
    <2>6. ASSUME NEW q \in Ranks
          PROVE  msg'[q] = [j \in DOMAIN msg'[q] |-> msg'[q][j]]
      <3>1. CASE q = p
        <4>1. msg'[q] = ns
          BY <2>2, <2>4, <3>1
        <4> QED BY <2>5, <4>1
      <3>2. CASE q # p
        <4>1. msg'[q] = msg[q]
          BY <2>2, <2>4, <3>2
        <4> QED BY <4>1 DEF Shaped
      <3> QED BY <3>1, <3>2
    <2> QED BY <2>6 DEF Shaped
  <1> QED BY <1>1, <1>2

\* Every step keeps it.
LEMMA NextShaped ==
  ASSUME Inv, Shaped, [Next]_vars
  PROVE  Shaped'
  <1>1. CASE UNCHANGED vars
    BY <1>1 DEF vars, mpiVars, Shaped
  <1>2. CASE Rerun
    BY <1>2 DEF Rerun, FreshProcesses, Shaped
  <1>3. CASE Deliver
    <2>1. PICK s, d \in Ranks : Arrive(s, d)
      BY <1>3 DEF Deliver
    <2>2. UNCHANGED msg \/ \E k, m : msg' = [msg EXCEPT ![d][k] = m]
      BY <2>1 DEF Arrive
    <2> QED BY <2>2, ShapeKept
  <1>4. CASE \E p \in Ranks : Step(p)
    <2>1. PICK p \in Ranks : Step(p)
      BY <1>4
    <2>2. CASE Isend(p)
      BY <2>2, ShapeKept DEF Isend, Send
    <2>3. CASE IrecvRecord(p)
      <3>1. UNCHANGED msg \/ \E k, m : msg' = [msg EXCEPT ![p][k] = m]
        BY <2>3 DEF IrecvRecord, Receive
      <3> QED BY <3>1, ShapeKept
    <2>4. CASE IrecvReplay(p)
      <3>1. UNCHANGED msg \/ \E k, m : msg' = [msg EXCEPT ![p][k] = m]
        BY <2>4 DEF IrecvReplay, Receive, Stop, mpiVars
      <3> QED BY <3>1, ShapeKept
    <2>5. CASE Unsupported(p) \/ MatchUnrecorded(p) \/ Cancel(p)
      <3>1. UNCHANGED msg
        BY <2>5 DEF Unsupported, MatchUnrecorded, Cancel, CancelRecv, CancelReceive, Stop,
                    Returns, mpiVars
      <3> QED BY <3>1, ShapeKept
    <2>6. CASE MatchRecord(p) \/ MatchReplay(p)
      <3>1. UNCHANGED msg
        BY <2>6 DEF MatchRecord, MatchReplay, Returns, Stop, mpiVars
      <3> QED BY <3>1, ShapeKept
    <2>7. CASE ProbeRecord(p) \/ ProbeReplay(p)
      <3>1. UNCHANGED msg
        BY <2>7 DEF ProbeRecord, ProbeReplay, Sees, Stop, mpiVars
      <3> QED BY <3>1, ShapeKept
    <2> QED BY <2>1, <2>2, <2>3, <2>4, <2>5, <2>6, <2>7 DEF Step
  <1> QED BY <1>1, <1>2, <1>3, <1>4 DEF Next, Ended

\* What has been sent is a message between two processes, with a tag.
LEMMA SentMessage ==
  ASSUME AllAccepted, Inv, Sure, NEW s \in Ranks, NEW d, NEW m, Sent(Program, msg, m, s, d)
  PROVE  m \in Messages
  <1>1. PICK code, k : code = Program[s] /\ k = m.n
    OBVIOUS
  <1>2. /\ m \in Sendable /\ m.from = s /\ k \in DOMAIN code /\ code[k].op = "isend"
        /\ msg[s][k] = m
    BY <1>1 DEF Sent, IsSend
  <1>3. m # None
    BY <1>2, MpiAssumption
  <1>4. m.tag = code[k].tag
    <2>1. SendsOwn(Program, msg)
      BY DEF Inv, Chans, Channels, Pipes, MessagesRight
    <2> QED BY <1>1, <1>2, <1>3, <2>1 DEF SendsOwn, IsRecv
  <1>5. m.to \in Ranks
    <2>1. SendsRight(code, msg[s])
      BY <1>1 DEF Sure, SureOf
    <2> QED BY <1>2, <1>3, <2>1 DEF SendsRight
  <1>6. m.tag \in Tags
    <2>1. Accepted(Program)
      BY DEF AllAccepted, Inv
    <2> QED BY <1>1, <1>2, <1>4, <2>1 DEF Accepted
  <1> QED BY <1>2, <1>5, <1>6 DEF Sendable, Messages

\* The messages of requests, and those that wait.
LEMMA MessagesTyped ==
  ASSUME AllAccepted, Inv, Sure, Shaped, NEW p \in Ranks
  PROVE  msg[p] \in [Ops(p) -> Messages \cup {None}] /\ unexpected[p] \in Seq(Messages)
  <1>1. MessagesRight(Program, msg) /\ UnexpectedRight(Program, msg, travelling, unexpected)
    BY DEF Inv, Chans, Channels, Pipes
  <1>2. PICK ms, q : ms = msg[p] /\ q = unexpected[p]
    OBVIOUS
  <1>3. ASSUME NEW k \in Ops(p), ms[k] # None
        PROVE  ms[k] \in Messages
    <2>1. CASE IsRecv(Program, p, k)
      <3>1. Has(Program, msg, p, k)
        BY <1>2, <1>3, <2>1 DEF Has
      <3>2. ms[k].from \in Ranks /\ Sent(Program, msg, ms[k], ms[k].from, p)
        BY <1>1, <1>2, <3>1 DEF MessagesRight, ReceivesSent, Ops
      <3> QED BY <3>2, SentMessage
    <2>2. CASE ~IsRecv(Program, p, k)
      <3>1. /\ IsSend(Program, p, k) /\ ms[k] \in Sendable /\ ms[k].from = p /\ ms[k].n = k
        BY <1>1, <1>2, <1>3, <2>2 DEF MessagesRight, SendsOwn, Ops
      <3>2. Sent(Program, msg, ms[k], p, ms[k].to)
        BY <1>2, <3>1 DEF Sent
      <3> QED BY <3>2, SentMessage
    <2> QED BY <2>1, <2>2
  <1>4. DOMAIN ms = Ops(p)
    BY <1>1, <1>2 DEF MessagesRight, Tables, Ops
  <1>5. ms = [k \in DOMAIN ms |-> ms[k]]
    BY <1>2 DEF Shaped
  <1>6. ms \in [Ops(p) -> Messages \cup {None}]
    BY <1>3, <1>4, <1>5
  <1>7. q \in Seq(Sendable) /\ \A m \in ToSet(q) : m \in Messages
    <2>1. q \in Seq(Sendable)
      BY <1>1, <1>2 DEF UnexpectedRight
    <2>2. ASSUME NEW m \in ToSet(q)
          PROVE  m \in Messages
      <3>1. m.from \in Ranks /\ Sent(Program, msg, m, m.from, p)
        BY <1>1, <1>2 DEF UnexpectedRight
      <3> QED BY <3>1, SentMessage
    <2> QED BY <2>1, <2>2
  <1>8. q \in Seq(Messages)
    BY <1>7, SeqOver
  <1> QED BY <1>2, <1>6, <1>8

\* The invariants say that no process is stopped, and that the tables are well formed.
LEMMA SureNoError ==
  ASSUME AllAccepted, Inv, Sure, Shaped
  PROVE  NoError
  <1>1. Program \in [Ranks -> Seq(Operations)] /\ mode \in {"record", "replay"}
    BY ProgramAssumption DEF Inv
  <1>2. ASSUME NEW p \in Ranks
        PROVE  /\ wanted[p] \in [Ops(p) -> Ranks \cup {AnySource, None}]
               /\ pos[p] \in 0..Len(events[p])
               /\ posted[p] \in Seq(Receives)
    <2>1. SureOf(p)
      BY DEF Sure
    <2>2. wanted[p] \in [Ops(p) -> Ranks \cup {AnySource, None}]
      BY <2>1 DEF SureOf, WantedRight, Ops
    <2>3. pos[p] \in 0..Len(events[p])
      <3>1. Len(events[p]) \in Nat
        BY StateTyped, LenProperties
      <3> QED BY <2>1, <3>1 DEF SureOf
    <2>4. posted[p] \in Seq(Receives)
      <3>1. PICK q : q = posted[p]
        OBVIOUS
      <3>2. q \in Seq(Waiting)
        BY <3>1 DEF Inv, Chans, Channels, PostedRight
      <3>3. ASSUME NEW r \in ToSet(q)
            PROVE  r \in Receives
        <4>1. r \in Waiting
          <5>1. \A i \in 1..Len(q) : q[i] \in Waiting
            BY <3>2, ElementOfSeq
          <5>2. DOMAIN q = 1..Len(q)
            BY <3>2, LenProperties
          <5> QED BY <5>1, <5>2 DEF ToSet
        <4>2. r.source \in Ranks \cup {AnySource}
          BY <2>1, <3>1 DEF SureOf, PostsTyped
        <4> QED BY <4>1, <4>2 DEF Waiting, Receives
      <3>4. q \in Seq(Receives)
        BY <3>2, <3>3, SeqOver
      <3> QED BY <3>1, <3>4
    <2> QED BY <2>2, <2>3, <2>4
  <1>3. failed = {}
    BY DEF Sure
  <1>4. TypeOK
    BY <1>1, <1>2, <1>3, StateTyped, MessagesTyped DEF TypeOK
  <1> QED BY <1>3, <1>4 DEF NoError, NothingFails

\* Nothing stops a process in either run of a program that can be replayed and that is
\* accepted, and the tables of requests and events stay well formed: a call that mixes
\* requests is not met, what is cancelled is a receive that is registered, a replayed
\* receive finds its event, and each check that replay_mf_input and replay_pf make of an
\* event succeeds (rempi_recorder.cpp).
THEOREM MpiNeverStops ==
  ASSUME \A program \in Programs : Replayable(program) /\ Accepted(program)
  PROVE  Spec => []NoError
  <1>1. AllReplayable /\ AllAccepted
    BY DEF AllReplayable, AllAccepted
  <1>2. Init => Inv /\ Sure /\ Shaped /\ Nulled
    <2>1. Init => Shaped
      BY DEF Init, FreshProcesses, Shaped
    <2>2. Init => Nulled
      BY DEF Init, FreshProcesses, Ops, Nulled, NullGot
    <2> QED BY <2>1, <2>2, InitKeeps, InitSure
  <1>3. Inv /\ Sure /\ Shaped /\ Nulled /\ [Next]_vars => (Inv /\ Sure /\ Shaped /\ Nulled)'
    BY <1>1, NextKeeps, NextSure, NextShaped, NextNulled
  <1>4. Inv /\ Sure /\ Shaped => NoError
    BY <1>1, SureNoError
  <1> QED BY <1>2, <1>3, <1>4, PTL DEF Spec
===============================================================================
