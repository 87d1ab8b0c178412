----------------------------- MODULE Wrappers_proofs ----------------------------
(***************************************************************************)
(* The wrappers with any number of handles, request variables and arrays   *)
(* of them: ReMPI's tables list the requests under way, the application    *)
(* can name each of them, and a call answers about the requests it         *)
(* completed.  Proved of applications that keep to what ReMPI supports.    *)
(***************************************************************************)
EXTENDS Wrappers, FiniteSetTheorems, TLAPS

\* InOrder lists a finite set of positions, each once and the first one first: the
\* position of i in it is how many are not past i.
LEMMA PositionsInOrder ==
  ASSUME NEW is \in SUBSET Nat, IsFiniteSet(is)
  PROVE  /\ InOrder(is) \in [1..Cardinality(is) -> is]
         /\ \A j, k \in 1..Cardinality(is) : j < k => InOrder(is)[j] < InOrder(is)[k]
  <1> DEFINE n == Cardinality(is)
             UpTo(i) == {k \in is : k <= i}
             Rank == [i \in is |-> Cardinality(UpTo(i))]
  <1>1. n \in Nat
    BY FS_CardinalityType
  <1>2. ASSUME NEW i \in is
        PROVE  IsFiniteSet(UpTo(i)) /\ Rank[i] \in 1..n
    <2>1. UpTo(i) \in SUBSET is /\ i \in UpTo(i)
      OBVIOUS
    <2>2. /\ IsFiniteSet(UpTo(i))
          /\ Cardinality(UpTo(i)) <= n
      BY <2>1, FS_Subset
    <2>3. Cardinality(UpTo(i)) \in Nat /\ Cardinality(UpTo(i)) # 0
      BY <2>1, <2>2, FS_CardinalityType, FS_EmptySet
    <2> QED BY <1>1, <2>2, <2>3
  <1>3. ASSUME NEW i \in is, NEW k \in is, i < k
        PROVE  Rank[i] < Rank[k]
    <2> i \in Nat /\ k \in Nat /\ \A y \in is : y \in Nat
      OBVIOUS
    <2>1. /\ \A y \in is : y <= i => y <= k
          /\ k <= k /\ ~ (k <= i)
      BY <1>3
    <2>4. UpTo(i) \in SUBSET UpTo(k) /\ k \in UpTo(k) /\ k \notin UpTo(i)
      BY <2>1
    <2>2. /\ Cardinality(UpTo(i)) <= Cardinality(UpTo(k))
          /\ Cardinality(UpTo(k)) # Cardinality(UpTo(i))
      BY <1>2, <2>4, FS_Subset
    <2>3. /\ Rank[i] = Cardinality(UpTo(i)) /\ Rank[k] = Cardinality(UpTo(k))
          /\ Rank[i] \in 1..n /\ Rank[k] \in 1..n
      BY <1>2
    <2> HIDE DEF Rank, UpTo
    <2> QED BY <1>1, <2>2, <2>3
  <1>4. Rank \in Injection(is, 1..n)
    <2>1. Rank \in [is -> 1..n]
      BY <1>2
    <2>2. \A i, k \in is : Rank[i] = Rank[k] => i = k
      <3>1. SUFFICES ASSUME NEW i \in is, NEW k \in is, Rank[i] = Rank[k], i # k
                     PROVE  FALSE
        OBVIOUS
      <3>2. i < k \/ k < i
        BY <3>1
      <3>3. Rank[i] < Rank[k] \/ Rank[k] < Rank[i]
        BY <1>3, <3>2
      <3> QED BY <1>1, <2>1, <3>1, <3>3
    <2> HIDE DEF Rank
    <2> QED BY <2>1, <2>2 DEF Injection, IsInjective
  <1>5. Rank \in Surjection(is, 1..n)
    <2>1. IsFiniteSet(1..n) /\ Cardinality(1..n) = n
      BY <1>1, FS_Interval
    <2> HIDE DEF Rank
    <2> QED BY <1>4, <2>1, FS_Injection
  <1>6. \A j \in 1..n : \E i \in is : Rank[i] = j
    <2> HIDE DEF Rank
    <2> QED BY <1>5 DEF Surjection
  <1> HIDE DEF Rank
  <1> DEFINE s == [j \in 1..n |-> CHOOSE i \in is : Rank[i] = j]
  <1>7. s \in [1..n -> is] /\ \A j \in 1..n : Rank[s[j]] = j
    BY <1>6
  <1>8. ASSUME NEW j \in 1..n, NEW k \in 1..n, j < k
        PROVE  s[j] < s[k]
    <2>1. s[j] \in is /\ s[k] \in is /\ Rank[s[j]] = j /\ Rank[s[k]] = k
      BY <1>7
    <2> HIDE DEF s
    <2>2. s[j] # s[k]
      BY <1>8, <2>1
    <2>4. s[k] < s[j] => k < j
      BY <1>3, <2>1
    <2>3. s[j] \in Nat /\ s[k] \in Nat
      BY <2>1
    <2> QED BY <1>8, <2>2, <2>3, <2>4
  <1> HIDE DEF s
  <1>9. \E u \in [1..n -> is] : \A j, k \in DOMAIN u : j < k => u[j] < u[k]
    <2>1. s \in [1..n -> is] /\ DOMAIN s = 1..n
      BY <1>7
    <2>2. \A j, k \in DOMAIN s : j < k => s[j] < s[k]
      BY <1>8, <2>1
    <2> QED BY <2>1, <2>2
  <1>10. /\ InOrder(is) \in [1..n -> is]
         /\ \A j, k \in DOMAIN InOrder(is) : j < k => InOrder(is)[j] < InOrder(is)[k]
    BY <1>9, Zenon DEF InOrder
  <1> QED BY <1>10

\* The least of one position.
LEMMA MinOfOne ==
  ASSUME NEW i \in Nat
  PROVE  Min({i}) = i
  BY DEF Min

\* The lower and the higher of two thread levels.
LEMMA LevelsOfTwo ==
  ASSUME NEW a \in Levels, NEW b \in Levels
  PROVE  /\ Min({a, b}) \in {a, b} /\ Min({a, b}) <= a /\ Min({a, b}) <= b
         /\ Max({a, b}) \in {a, b} /\ Max({a, b}) >= a /\ Max({a, b}) >= b
  <1>1. \E x \in {a, b} : \A y \in {a, b} : x <= y
    BY DEF Levels
  <1>2. \E x \in {a, b} : \A y \in {a, b} : x >= y
    BY DEF Levels
  <1>3. Min({a, b}) \in {a, b} /\ \A y \in {a, b} : Min({a, b}) <= y
    BY <1>1, Zenon DEF Min
  <1>4. Max({a, b}) \in {a, b} /\ \A y \in {a, b} : Max({a, b}) >= y
    BY <1>2, Zenon DEF Max
  <1> QED BY <1>3, <1>4

-------------------------------------------------------------------------------

\* The states of a handle whose request the application cannot use any more.
Gone == {"free", "detached"}

\* A variable that holds a request shows it, in Fortran too, and the request is there.
HeldLive == \A v \in Vars : holds[v] # Null =>
              var[v] = holds[v] /\ lib[holds[v]].state \notin Gone

\* No two variables hold the same request.
OneName == \A v, w \in Vars : holds[v] # Null /\ holds[v] = holds[w] => v = w

\* A blocking call has a request of its own.
LocalOwn == local # Null =>
              /\ local \in Live("send") \cup Live("recv")
              /\ \A v \in Vars : holds[v] # local

\* No request is lost.
AllNamed == \A h \in Handles : lib[h].state \notin Gone =>
              local = h \/ \E v \in Vars : holds[v] = h

\* In C a variable is what MPI says.
InC == language = "c" => var = holds

Named == HeldLive /\ OneName /\ LocalOwn /\ AllNamed /\ InC

\* TypeOK without the answer, and of the answer.
StateType ==
  /\ phase \in Phases
  /\ language \in Languages /\ mode \in Modes /\ encode \in Encodes
  /\ provided \in Levels
  /\ lib \in [Handles -> Requests]
  /\ var \in [Vars -> Handles \cup {Null, Garbage}]
  /\ holds \in [Vars -> Handles \cup {Null}]
  /\ local \in Handles \cup {Null}

AnswerType ==
  /\ answer.indices \in Seq(Indices)
  /\ answer.statuses \in Seq(Handles \cup {Null, Garbage})
  /\ ToSet(due) \subseteq (1..Cardinality(Vars)) \X (Handles \cup {Null})

\* The last call answered right.
Answered == AnswerType /\ ResultsRight

\* The inductive invariant.
IInv == StateType /\ Answered /\ TablesTrue /\ NothingFails /\ Named

\* The applications and libraries that ReMPI is made for: none of the risks of MayUse,
\* MayCancel and MPI_Request_free, an encoding this build has, and an MPI that grants
\* MPI_THREAD_FUNNELED.
Supported == Risks = {} /\ Encodes \subseteq {0} /\ 0 \notin Available

\* The type invariant of Wrappers from its parts.
LEMMA TypeParts ==
  ASSUME StateType, AnswerType, TablesTrue
  PROVE  TypeOK
  <1>1. Live("send") \subseteq Handles /\ Live("recv") \subseteq Handles
    BY DEF Live
  <1> QED BY <1>1 DEF StateType, AnswerType, TablesTrue, TypeOK

\* An empty answer is right.
LEMMA QuietIsRight ==
  ASSUME Quiet
  PROVE  Answered'
  <1>1. answer'.indices = <<>> /\ answer'.statuses = <<>> /\ due' = <<>>
    BY DEF Quiet, Answers
  <1>2. ToSet(<<>>) = {}
    BY DEF ToSet
  <1> QED BY <1>1, <1>2 DEF Answered, AnswerType, ResultsRight

\* An answer that stays is as right as it was.
LEMMA UnchangedIsRight ==
  ASSUME Answered, UNCHANGED <<answer, due, language>>
  PROVE  Answered'
  BY DEF Answered, AnswerType, ResultsRight, Base, Indices

\* The invariant holds at the start.
LEMMA InitIsRight == ASSUME Supported, Init PROVE IInv
  <1>1. StateType
    <2>1. lib \in [Handles -> Requests]
      <3>1. Unused \in Requests
        BY DEF Unused, Requests, States
      <3> QED BY <3>1 DEF Init
    <2> QED BY <2>1 DEF Init, StateType, Phases, Levels
  <1>2. Answered
    <2>1. ToSet(<<>>) = {}
      BY DEF ToSet
    <2> QED BY <2>1 DEF Init, Nothing, Answered, AnswerType, ResultsRight
  <1>3. Live("send") = {} /\ Live("recv") = {}
    BY DEF Init, Live, Unused
  <1>4. TablesTrue
    BY <1>3 DEF Init, TablesTrue
  <1>5. NothingFails
    BY DEF Init, NothingFails
  <1>6. Named
    BY DEF Init, Unused, Gone, Named, HeldLive, OneName, LocalOwn, AllNamed, InC
  <1> QED BY <1>1, <1>2, <1>4, <1>5, <1>6 DEF IInv

\* Named and TablesTrue are about these variables only.
RequestsUnchanged == UNCHANGED <<lib, var, holds, local, known, mode, language>>

\* Nor do they change with the others.
LEMMA RequestsKept ==
  ASSUME TablesTrue, Named, RequestsUnchanged
  PROVE  TablesTrue' /\ Named'
  <1>1. Live("send")' = Live("send") /\ Live("recv")' = Live("recv")
    BY DEF RequestsUnchanged, Live
  <1>2. TablesTrue'
    BY <1>1 DEF RequestsUnchanged, TablesTrue, known
  <1>3. Named'
    BY <1>1 DEF RequestsUnchanged, Named, HeldLive, OneName, LocalOwn, AllNamed, InC, Gone
  <1> QED BY <1>2, <1>3

\* MPI grants the level that ReMPI asks for, so starting does not stop the program.
LEMMA StartsAndEnds ==
  ASSUME Supported, IInv, MPI_Init \/ MPI_Init_thread \/ MPI_Finalize
  PROVE  IInv'
  <1>1. RequestsUnchanged /\ UNCHANGED <<answer, due, encode>>
    BY DEF MPI_Init, MPI_Init_thread, MPI_Finalize, RequestsUnchanged, config
  <1>2. phase' \in {"running", "finalized"} /\ provided' \in Levels
    <2>0. encode = 0
      BY DEF IInv, StateType, Supported
    <2>1. CASE MPI_Init
      BY <2>0, <2>1 DEF MPI_Init, init_rempi, config, IInv, StateType
    <2>2. CASE MPI_Init_thread
      <3>1. PICK required \in Required, most \in Available :
              LET got == Min({Max({required, Funneled}), most})
              IN  /\ provided' = IF got < Funneled THEN got ELSE Funneled
                  /\ IF got < Funneled THEN phase' = "stopped" ELSE init_rempi
        BY <2>2 DEF MPI_Init_thread
      <3>2. required \in Levels /\ most \in Levels /\ most # 0 /\ Funneled \in Levels
        BY WrappersAssumption DEF Supported, Funneled, Levels
      <3>3. Max({required, Funneled}) \in Levels /\ Max({required, Funneled}) >= Funneled
        BY <3>2, LevelsOfTwo
      <3>4. Min({Max({required, Funneled}), most}) \in {Max({required, Funneled}), most}
        BY <3>2, <3>3, LevelsOfTwo
      <3>5. ~ (Min({Max({required, Funneled}), most}) < Funneled)
        BY <3>2, <3>3, <3>4 DEF Levels, Funneled
      <3> QED BY <2>0, <3>1, <3>2, <3>5 DEF init_rempi
    <2>3. CASE MPI_Finalize
      BY <2>3 DEF MPI_Finalize, config, IInv, StateType
    <2> QED BY <2>1, <2>2, <2>3
  <1>3. StateType'
    BY <1>1, <1>2 DEF IInv, StateType, RequestsUnchanged, Phases
  <1>4. Answered'
    BY <1>1, UnchangedIsRight DEF IInv, RequestsUnchanged
  <1>5. NothingFails'
    BY <1>2 DEF NothingFails
  <1> QED BY <1>1, <1>3, <1>4, <1>5, RequestsKept DEF IInv

-------------------------------------------------------------------------------
\* A new request.

\* What MakePersistent, the sends and the receives make.
Makeable(kind, persistent, state) ==
  /\ kind \in {"send", "recv"}
  /\ persistent \in BOOLEAN
  /\ state \in IF persistent THEN {"inactive"} ELSE {"active", "done"}

\* Making a request changes that one only.
LEMMA MakesOne ==
  ASSUME StateType, NEW h \in Handles, NEW kind, NEW persistent, NEW state,
         Makeable(kind, persistent, state), Makes(h, kind, persistent, state)
  PROVE  /\ lib' \in [Handles -> Requests]
         /\ lib[h].state = "free"
         /\ lib'[h].state = state /\ state \notin Gone
         /\ lib'[h].kind = kind /\ lib'[h].persistent = persistent
         /\ \A g \in Handles : g # h => lib'[g] = lib[g]
  <1>1. [kind |-> kind, persistent |-> persistent, state |-> state] \in Requests
    BY DEF Makeable, Requests, States
  <1>2. state \notin Gone
    BY DEF Makeable, Gone
  <1> QED BY <1>1, <1>2 DEF Makes, StateType

\* A request that is not persistent is registered.
Registers(h, kind, persistent) ==
  IF persistent THEN UNCHANGED known
  ELSE IF kind = "send" THEN RegisterSend(h) ELSE RegisterRecv(h)

\* Those under way are joined by it unless it is persistent.
LEMMA MakesLive ==
  ASSUME StateType, NEW h \in Handles, NEW kind, NEW persistent, NEW state,
         Makeable(kind, persistent, state), Makes(h, kind, persistent, state)
  PROVE  \A k \in {"send", "recv"} :
           Live(k)' = IF k = kind /\ ~persistent THEN Live(k) \cup {h} ELSE Live(k)
  <1>1. ASSUME NEW k \in {"send", "recv"}
        PROVE  Live(k)' = IF k = kind /\ ~persistent THEN Live(k) \cup {h} ELSE Live(k)
    <2>1. h \notin Live(k)
      BY MakesOne DEF Live
    <2>2. \A g \in Handles : g # h => (g \in Live(k)' <=> g \in Live(k))
      BY MakesOne DEF Live
    <2>3. h \in Live(k)' <=> k = kind /\ ~persistent
      BY MakesOne DEF Live, Makeable
    <2>4. Live(k)' \subseteq Handles /\ Live(k) \subseteq Handles
      BY DEF Live
    <2> QED BY <2>1, <2>2, <2>3, <2>4
  <1> QED BY <1>1

\* The tables know it as soon as the library does.
LEMMA MakesTables ==
  ASSUME StateType, TablesTrue, NEW h \in Handles, NEW kind, NEW persistent, NEW state,
         Makeable(kind, persistent, state), Makes(h, kind, persistent, state),
         Registers(h, kind, persistent), UNCHANGED mode
  PROVE  TablesTrue'
  <1>1. \A k \in {"send", "recv"} :
           Live(k)' = IF k = kind /\ ~persistent THEN Live(k) \cup {h} ELSE Live(k)
    BY MakesLive
  <1>2. CASE persistent
    BY <1>1, <1>2 DEF Registers, known, TablesTrue
  <1>3. CASE ~persistent /\ kind = "send"
    BY <1>1, <1>3 DEF Registers, RegisterSend, TablesTrue
  <1>4. CASE ~persistent /\ kind = "recv"
    BY <1>1, <1>4 DEF Registers, RegisterRecv, TablesTrue
  <1> QED BY <1>2, <1>3, <1>4 DEF Makeable

\* The variable v gets its handle.
LEMMA MakesGets ==
  ASSUME StateType, Named, NEW h \in Handles, NEW v \in Vars,
         NEW kind, NEW persistent, NEW state,
         Makeable(kind, persistent, state), Makes(h, kind, persistent, state),
         Gets(v, h), UNCHANGED <<local, language>>
  PROVE  /\ Named'
         /\ var' \in [Vars -> Handles \cup {Null, Garbage}]
         /\ holds' \in [Vars -> Handles \cup {Null}]
  <1>1. /\ lib[h].state = "free" /\ lib'[h].state \notin Gone
        /\ \A g \in Handles : g # h => lib'[g] = lib[g]
    BY MakesOne
  <1>2. /\ holds[v] = Null /\ holds'[v] = h /\ var'[v] = h
        /\ \A w \in Vars : w # v => holds'[w] = holds[w] /\ var'[w] = var[w]
        /\ var' \in [Vars -> Handles \cup {Null, Garbage}]
        /\ holds' \in [Vars -> Handles \cup {Null}]
    BY DEF Gets, StateType
  <1>3. \A w \in Vars : holds[w] # h
    BY <1>1, WrappersAssumption DEF Named, HeldLive, Gone
  <1>4. \A w \in Vars : holds[w] \in Handles \cup {Null}
    BY DEF StateType
  <1>5. HeldLive'
    BY <1>1, <1>2, <1>3, <1>4 DEF Named, HeldLive, Gone
  <1>6. OneName'
    BY <1>2, <1>3 DEF Named, OneName
  <1>7. LocalOwn'
    <2>1. ASSUME local # Null
          PROVE  /\ local \in Live("send")' \cup Live("recv")'
                 /\ \A w \in Vars : holds'[w] # local
      <3>1. /\ local \in Live("send") \cup Live("recv")
            /\ \A w \in Vars : holds[w] # local
        BY <2>1 DEF Named, LocalOwn
      <3>2. local # h
        BY <1>1, <3>1 DEF Live
      <3>3. local \in Live("send")' \cup Live("recv")'
        BY <1>1, <3>1, <3>2 DEF Live
      <3> QED BY <1>2, <3>1, <3>2, <3>3
    <2> QED BY <2>1 DEF LocalOwn
  <1>8. AllNamed'
    <2>1. ASSUME NEW g \in Handles, lib'[g].state \notin Gone, g # h
          PROVE  local = g \/ \E w \in Vars : holds'[w] = g
      <3>1. local = g \/ \E w \in Vars : holds[w] = g
        BY <1>1, <2>1 DEF Named, AllNamed
      <3>2. g # Null
        BY WrappersAssumption
      <3> QED BY <1>2, <3>1, <3>2
    <2> QED BY <1>2, <2>1 DEF AllNamed, Gone
  <1>9. InC'
    BY DEF Named, InC, Gets
  <1> QED BY <1>2, <1>5, <1>6, <1>7, <1>8, <1>9 DEF Named

\* A blocking call keeps it.
LEMMA MakesLocal ==
  ASSUME StateType, Named, NEW h \in Handles, NEW kind, NEW persistent, NEW state,
         Makeable(kind, persistent, state), Makes(h, kind, persistent, state), ~persistent,
         local = Null, local' = h, UNCHANGED <<var, holds, language>>
  PROVE  Named'
  <1>1. /\ lib[h].state = "free" /\ lib'[h].state \notin Gone
        /\ \A g \in Handles : g # h => lib'[g] = lib[g]
    BY MakesOne
  <1>2. \A w \in Vars : holds[w] # h
    BY <1>1, WrappersAssumption DEF Named, HeldLive, Gone
  <1>3. \A w \in Vars : holds[w] \in Handles \cup {Null}
    BY DEF StateType
  <1>4. HeldLive'
    BY <1>1, <1>2, <1>3 DEF Named, HeldLive, Gone
  <1>5. LocalOwn'
    <2>1. h \in Live("send")' \cup Live("recv")'
      BY MakesLive DEF Makeable
    <2> QED BY <1>2, <2>1 DEF LocalOwn
  <1>6. AllNamed'
    <2>1. ASSUME NEW g \in Handles, lib'[g].state \notin Gone, g # h
          PROVE  \E w \in Vars : holds'[w] = g
      <3>1. local = g \/ \E w \in Vars : holds[w] = g
        BY <1>1, <2>1 DEF Named, AllNamed
      <3>2. g # Null
        BY WrappersAssumption
      <3> QED BY <3>1, <3>2
    <2> QED BY <2>1 DEF AllNamed, Gone
  <1> QED BY <1>4, <1>5, <1>6 DEF Named, OneName, InC

\* What a call that makes a request has established, apart from the requests.
LEMMA AfterMaking ==
  ASSUME IInv, lib' \in [Handles -> Requests],
         var' \in [Vars -> Handles \cup {Null, Garbage}],
         holds' \in [Vars -> Handles \cup {Null}],
         local' \in Handles \cup {Null}, phase' \in {"running", "exited"},
         Quiet, TablesTrue', Named', UNCHANGED config
  PROVE  IInv'
  <1>1. StateType'
    BY DEF IInv, StateType, config, Phases
  <1>2. NothingFails'
    BY DEF NothingFails
  <1> QED BY <1>1, <1>2, QuietIsRight DEF IInv

\* MPI_Isend and its kin.
LEMMA PostSendKeeps ==
  ASSUME IInv, NEW v \in Vars, NEW kind \in DOMAIN Starts, PostSend(v, kind)
  PROVE  IInv'
  <1>1. PICK h \in Handles :
          /\ Makes(h, "send", FALSE, Starts[kind])
          /\ Gets(v, h)
          /\ RegisterSend(h)
    BY DEF PostSend
  <1>2. /\ phase' = "running" /\ Quiet
        /\ UNCHANGED config /\ UNCHANGED local /\ UNCHANGED mode /\ UNCHANGED language
    BY DEF PostSend, Calls, config
  <1>3. Makeable("send", FALSE, Starts[kind])
    BY DEF Starts, Makeable
  <1>4. lib' \in [Handles -> Requests]
    BY <1>1, <1>3, MakesOne DEF IInv
  <1>5. TablesTrue'
    BY <1>1, <1>2, <1>3, MakesTables DEF IInv, Registers
  <1>6. /\ Named'
        /\ var' \in [Vars -> Handles \cup {Null, Garbage}]
        /\ holds' \in [Vars -> Handles \cup {Null}]
    BY <1>1, <1>2, <1>3, MakesGets DEF IInv
  <1>7. local' \in Handles \cup {Null}
    BY <1>2 DEF IInv, StateType
  <1> QED BY <1>2, <1>4, <1>5, <1>6, <1>7, AfterMaking

\* A handle that the library hands out has no event.
LEMMA NoEvent ==
  ASSUME TablesTrue, NEW h \in Handles, lib[h].state = "free"
  PROVE  ~HasEvent(h)
  BY DEF TablesTrue, Live, HasEvent

\* MPI_Irecv.
LEMMA IrecvKeeps ==
  ASSUME IInv, NEW v \in Vars, MPI_Irecv(v)
  PROVE  IInv'
  <1>1. PICK h \in Handles :
          IF HasEvent(h) /\ lib[h].state = "free" THEN Stop
          ELSE /\ Makes(h, "recv", FALSE, "active")
               /\ Gets(v, h)
               /\ RegisterRecv(h)
               /\ Quiet
               /\ UNCHANGED <<phase, config, local>>
    BY DEF MPI_Irecv
  <1>2. /\ Makes(h, "recv", FALSE, "active")
        /\ Gets(v, h)
        /\ RegisterRecv(h)
    BY <1>1, NoEvent DEF IInv
  <1>3. /\ phase' = "running" /\ Quiet
        /\ UNCHANGED config /\ UNCHANGED local /\ UNCHANGED mode /\ UNCHANGED language
    BY <1>1, NoEvent DEF IInv, MPI_Irecv, Calls, config
  <1>4. Makeable("recv", FALSE, "active")
    BY DEF Makeable
  <1>5. lib' \in [Handles -> Requests]
    BY <1>2, <1>4, MakesOne DEF IInv
  <1>6. TablesTrue'
    BY <1>2, <1>3, <1>4, MakesTables DEF IInv, Registers
  <1>7. /\ Named'
        /\ var' \in [Vars -> Handles \cup {Null, Garbage}]
        /\ holds' \in [Vars -> Handles \cup {Null}]
    BY <1>2, <1>3, <1>4, MakesGets DEF IInv
  <1>8. local' \in Handles \cup {Null}
    BY <1>3 DEF IInv, StateType
  <1> QED BY <1>3, <1>5, <1>6, <1>7, <1>8, AfterMaking

\* MPI_Send and its kin.
LEMMA BlockingSendKeeps ==
  ASSUME IInv, NEW kind \in DOMAIN Starts, BlockingSend(kind)
  PROVE  IInv'
  <1>1. PICK h \in Handles :
          /\ Makes(h, "send", FALSE, Starts[kind])
          /\ RegisterSend(h)
          /\ local' = h
    BY DEF BlockingSend
  <1>2. /\ phase' = "running" /\ Quiet /\ local = Null
        /\ UNCHANGED config /\ UNCHANGED mode /\ UNCHANGED <<var, holds, language>>
    BY DEF BlockingSend, Calls, config
  <1>3. Makeable("send", FALSE, Starts[kind])
    BY DEF Starts, Makeable
  <1>4. lib' \in [Handles -> Requests]
    BY <1>1, <1>3, MakesOne DEF IInv
  <1>5. TablesTrue'
    BY <1>1, <1>2, <1>3, MakesTables DEF IInv, Registers
  <1>6. Named'
    BY <1>1, <1>2, <1>3, MakesLocal DEF IInv
  <1>7. /\ var' \in [Vars -> Handles \cup {Null, Garbage}]
        /\ holds' \in [Vars -> Handles \cup {Null}]
    BY <1>2 DEF IInv, StateType
  <1> QED BY <1>1, <1>2, <1>4, <1>5, <1>6, <1>7, AfterMaking

\* MPI_Recv.
LEMMA RecvKeeps ==
  ASSUME IInv, MPI_Recv
  PROVE  IInv'
  <1>1. PICK h \in Handles :
          IF HasEvent(h) /\ lib[h].state = "free" THEN Stop
          ELSE /\ Makes(h, "recv", FALSE, "active")
               /\ RegisterRecv(h)
               /\ local' = h
               /\ Quiet
               /\ UNCHANGED <<phase, config, var, holds>>
    BY DEF MPI_Recv
  <1>2. /\ Makes(h, "recv", FALSE, "active")
        /\ RegisterRecv(h)
        /\ local' = h
    BY <1>1, NoEvent DEF IInv
  <1>3. /\ phase' = "running" /\ Quiet /\ local = Null
        /\ UNCHANGED config /\ UNCHANGED mode /\ UNCHANGED <<var, holds, language>>
    BY <1>1, NoEvent DEF IInv, MPI_Recv, Calls, config
  <1>4. Makeable("recv", FALSE, "active")
    BY DEF Makeable
  <1>5. lib' \in [Handles -> Requests]
    BY <1>2, <1>4, MakesOne DEF IInv
  <1>6. TablesTrue'
    BY <1>2, <1>3, <1>4, MakesTables DEF IInv, Registers
  <1>7. Named'
    BY <1>2, <1>3, <1>4, MakesLocal DEF IInv
  <1>8. /\ var' \in [Vars -> Handles \cup {Null, Garbage}]
        /\ holds' \in [Vars -> Handles \cup {Null}]
    BY <1>3 DEF IInv, StateType
  <1> QED BY <1>2, <1>3, <1>5, <1>6, <1>7, <1>8, AfterMaking

\* MPI_Send_init and its kin.
LEMMA MakePersistentKeeps ==
  ASSUME IInv, NEW v \in Vars, NEW kind \in {"send", "recv"},
         NEW next \in {"running", "exited"}, MakePersistent(v, kind, next)
  PROVE  IInv'
  <1>1. PICK h \in Handles : Makes(h, kind, TRUE, "inactive") /\ Gets(v, h)
    BY DEF MakePersistent
  <1>2. /\ phase' = next /\ Quiet
        /\ UNCHANGED config /\ UNCHANGED local /\ UNCHANGED mode /\ UNCHANGED language
        /\ UNCHANGED known
    BY DEF MakePersistent, config
  <1>3. Makeable(kind, TRUE, "inactive")
    BY DEF Makeable
  <1>4. lib' \in [Handles -> Requests]
    BY <1>1, <1>3, MakesOne DEF IInv
  <1>5. TablesTrue'
    BY <1>1, <1>2, <1>3, MakesTables DEF IInv, Registers
  <1>6. /\ Named'
        /\ var' \in [Vars -> Handles \cup {Null, Garbage}]
        /\ holds' \in [Vars -> Handles \cup {Null}]
    BY <1>1, <1>2, <1>3, MakesGets DEF IInv
  <1>7. local' \in Handles \cup {Null}
    BY <1>2 DEF IInv, StateType
  <1> QED BY <1>2, <1>4, <1>5, <1>6, <1>7, AfterMaking

-------------------------------------------------------------------------------
\* Requests that are started, completed, cancelled and freed.

\* A table of requests with one state changed is one.
LEMMA StateChanges ==
  ASSUME NEW f \in [Handles -> Requests], NEW h \in Handles, NEW state \in States
  PROVE  [f EXCEPT ![h].state = state] \in [Handles -> Requests]
  <1>1. [f[h] EXCEPT !.state = state] \in Requests
    BY DEF Requests
  <1>2. [f EXCEPT ![h].state = state] = [f EXCEPT ![h] = [f[h] EXCEPT !.state = state]]
    OBVIOUS
  <1> QED BY <1>1, <1>2

\* What does not free a request, nor add to those under way, disturbs nothing.
LEMMA StatesChange ==
  ASSUME IInv, lib' \in [Handles -> Requests],
         \A h \in Handles : lib'[h].state \in Gone <=> lib[h].state \in Gone,
         \A k \in {"send", "recv"} : Live(k)' = Live(k),
         UNCHANGED <<var, holds, local>>, UNCHANGED known, UNCHANGED config
  PROVE  TablesTrue' /\ Named'
  <1>1. Live("send")' = Live("send") /\ Live("recv")' = Live("recv")
    OBVIOUS
  <1>2. TablesTrue'
    BY <1>1 DEF IInv, TablesTrue, known, config
  <1>3. \A w \in Vars : holds[w] # Null => holds[w] \in Handles
    BY DEF IInv, StateType
  <1>4. HeldLive'
    BY <1>3 DEF IInv, Named, HeldLive, Gone
  <1>5. OneName' /\ InC'
    BY DEF IInv, Named, OneName, InC, config
  <1>6. LocalOwn'
    BY <1>1 DEF IInv, Named, LocalOwn
  <1>7. AllNamed'
    BY DEF IInv, Named, AllNamed, Gone
  <1> QED BY <1>2, <1>4, <1>5, <1>6, <1>7 DEF Named

\* MPI_Start and MPI_Startall start what is persistent, and ReMPI does not know it.
LEMMA StartKeeps ==
  ASSUME IInv, NEW vs \in SUBSET Vars, Start(vs)
  PROVE  IInv'
  <1>1. /\ \A v \in vs : Startable(v)
        /\ lib' = [h \in Handles |-> IF \E v \in vs : var[v] = h
                                     THEN [lib[h] EXCEPT !.state = "active"] ELSE lib[h]]
        /\ phase' = "running" /\ Quiet
        /\ UNCHANGED <<var, holds, local>> /\ UNCHANGED config /\ UNCHANGED known
    BY DEF Start, Calls
  <1>2. lib \in [Handles -> Requests]
    BY DEF IInv, StateType
  <1>3. ASSUME NEW h \in Handles, \E v \in vs : var[v] = h
        PROVE  lib[h].state = "inactive" /\ lib[h].persistent
    BY <1>1, <1>3 DEF Startable, IInv, Named, HeldLive
  <1>4. \A h \in Handles : [lib[h] EXCEPT !.state = "active"] \in Requests
    BY <1>2 DEF Requests, States
  <1>5. lib' \in [Handles -> Requests]
    BY <1>1, <1>2, <1>4, Zenon
  <1>6. ASSUME NEW h \in Handles
        PROVE  \/ lib'[h] = lib[h]
               \/ /\ lib[h].state = "inactive" /\ lib[h].persistent
                  /\ lib'[h].state = "active" /\ lib'[h].persistent
    BY <1>1, <1>2, <1>3 DEF Requests
  <1>7. \A h \in Handles : lib'[h].state \in Gone <=> lib[h].state \in Gone
    BY <1>6 DEF Gone
  <1>8. \A k \in {"send", "recv"} : Live(k)' = Live(k)
    BY <1>6 DEF Live
  <1>9. TablesTrue' /\ Named'
    BY <1>1, <1>5, <1>7, <1>8, StatesChange
  <1>10. StateType' /\ NothingFails'
    BY <1>1, <1>5 DEF IInv, StateType, NothingFails, config, Phases
  <1> QED BY <1>1, <1>9, <1>10, QuietIsRight DEF IInv

\* The library completes a request: it stays in the tables until a call returns it.
LEMMA CompletesKeeps ==
  ASSUME IInv, NEW h \in Handles, Completes(h)
  PROVE  IInv'
  <1>1. /\ lib[h].state \in {"active", "detached"}
        /\ lib' = [lib EXCEPT ![h].state = IF @ = "active" THEN "done" ELSE "free"]
        /\ phase' = phase /\ UNCHANGED <<answer, due, language>>
        /\ UNCHANGED <<var, holds, local>> /\ UNCHANGED config /\ UNCHANGED known
    BY DEF Completes, config
  <1>2. lib \in [Handles -> Requests]
    BY DEF IInv, StateType
  <1>3. PICK state \in {"done", "free"} :
          /\ lib' = [lib EXCEPT ![h].state = state]
          /\ state = "done" <=> lib[h].state = "active"
    BY <1>1
  <1>4. lib' \in [Handles -> Requests]
    BY <1>2, <1>3, StateChanges DEF States
  <1>5. /\ lib'[h].state = state /\ lib'[h].kind = lib[h].kind
        /\ lib'[h].persistent = lib[h].persistent
        /\ \A g \in Handles : g # h => lib'[g] = lib[g]
    BY <1>2, <1>3 DEF Requests
  <1>6. \A g \in Handles : lib'[g].state \in Gone <=> lib[g].state \in Gone
    BY <1>1, <1>3, <1>5 DEF Gone
  <1>7. \A k \in {"send", "recv"} : Live(k)' = Live(k)
    BY <1>1, <1>3, <1>5 DEF Live
  <1>8. TablesTrue' /\ Named'
    BY <1>1, <1>4, <1>6, <1>7, StatesChange
  <1>9. StateType' /\ NothingFails'
    BY <1>1, <1>4 DEF IInv, StateType, NothingFails, config, Phases
  <1> QED BY <1>1, <1>8, <1>9, UnchangedIsRight DEF IInv

\* The wait of a blocking call forgets the request it waited for.
LEMMA BlockingReturnsKeeps ==
  ASSUME IInv, BlockingReturns
  PROVE  IInv'
  <1>1. /\ local # Null /\ local' = Null /\ phase' = "running" /\ Quiet
        /\ sends' = sends \ {local} /\ recvs' = recvs \ {local} /\ events' = events \ {local}
        /\ Released({local})
        /\ UNCHANGED <<var, holds>> /\ UNCHANGED config
    BY DEF BlockingReturns, Deregister
  <1>2. /\ local \in Live("send") \cup Live("recv") /\ local \in Handles
        /\ \A w \in Vars : holds[w] # local
    BY <1>1 DEF IInv, Named, LocalOwn, Live
  <1>3. lib \in [Handles -> Requests] /\ Unused \in Requests /\ Unused.state = "free"
    BY DEF IInv, StateType, Unused, Requests, States
  <1>4. ~lib[local].persistent
    BY <1>2 DEF Live
  <1>5. lib' = [lib EXCEPT ![local] = Unused]
    BY <1>1, <1>2, <1>3, <1>4 DEF Released
  <1>6. lib' \in [Handles -> Requests]
    BY <1>3, <1>5
  <1>7. lib'[local].state = "free" /\ \A g \in Handles : g # local => lib'[g] = lib[g]
    BY <1>2, <1>3, <1>5
  <1>8. Live("send")' = Live("send") \ {local} /\ Live("recv")' = Live("recv") \ {local}
    BY <1>7 DEF Live
  <1>9. TablesTrue'
    BY <1>1, <1>8 DEF IInv, TablesTrue, config
  <1>10. \A w \in Vars : holds[w] # Null => holds[w] \in Handles
    BY DEF IInv, StateType
  <1>11. HeldLive'
    BY <1>1, <1>2, <1>7, <1>10 DEF IInv, Named, HeldLive
  <1>12. OneName' /\ InC' /\ LocalOwn'
    BY <1>1 DEF IInv, Named, OneName, InC, LocalOwn, config
  <1>13. AllNamed'
    BY <1>1, <1>7 DEF IInv, Named, AllNamed, Gone
  <1>14. StateType' /\ NothingFails'
    BY <1>1, <1>6 DEF IInv, StateType, NothingFails, config, Phases
  <1> QED BY <1>1, <1>9, <1>11, <1>12, <1>13, <1>14, QuietIsRight DEF IInv, Named

\* Which table a handle is in.
LEMMA InfoOfLive ==
  ASSUME IInv, NEW h \in Handles
  PROVE  /\ Info(h) = "send" <=> h \in Live("send")
         /\ Info(h) = "recv" <=> h \in Live("recv")
         /\ Live("send") \cap Live("recv") = {}
  <1>1. sends = Live("send") /\ recvs = Live("recv")
    BY DEF IInv, TablesTrue
  <1>2. Live("send") \cap Live("recv") = {}
    BY DEF Live
  <1>3. h # Null
    BY WrappersAssumption
  <1> QED BY <1>1, <1>2, <1>3 DEF Info

\* MPI_Cancel of a receive that ReMPI knows.
LEMMA CancelKeeps ==
  ASSUME Supported, IInv, NEW v \in Vars, MPI_Cancel(v)
  PROVE  IInv'
  <1>1. /\ holds[v] # Null /\ language = "c" /\ Info(holds[v]) = "recv"
        /\ lib[holds[v]].state \in {"active", "done"}
        /\ phase = "running" /\ local = Null
    BY WrappersAssumption DEF MPI_Cancel, MayCancel, Calls, Supported, IInv, StateType
  <1> DEFINE h == holds[v]
  <1>2. h \in Handles /\ var[v] = h /\ h # Null
    BY <1>1 DEF IInv, StateType, Named, HeldLive
  <1>3. Cancel(v, h)
    BY <1>1, <1>2 DEF MPI_Cancel, CancelledHandles
  <1> HIDE DEF h
  <1>4. Info(h) = "recv" /\ holds[v] = h
    BY <1>1 DEF h
  <1>5. /\ recvs' = recvs \ {h} /\ events' = events \ {h} /\ sends' = sends
        /\ lib' = [lib EXCEPT ![h].state = "cancelled"]
        /\ var' = [var EXCEPT ![v] = h]
        /\ phase' = "running" /\ Quiet /\ local' = Null /\ holds' = holds
        /\ UNCHANGED config
    BY <1>1, <1>3, <1>4 DEF Cancel
  <1>6. lib \in [Handles -> Requests] /\ var \in [Vars -> Handles \cup {Null, Garbage}]
    BY DEF IInv, StateType
  <1>7. var' = var
    BY <1>2, <1>5, <1>6
  <1>8. lib' \in [Handles -> Requests]
    BY <1>2, <1>5, <1>6, StateChanges DEF States
  <1>9. lib'[h].state = "cancelled" /\ \A g \in Handles : g # h => lib'[g] = lib[g]
    BY <1>2, <1>5, <1>6 DEF Requests
  <1>10. Live("recv")' = Live("recv") \ {h}
    BY <1>9 DEF Live
  <1>11. h \in Live("recv") /\ h \notin Live("send")
    BY <1>2, <1>4, InfoOfLive
  <1>12. Live("send")' = Live("send")
    BY <1>9, <1>11 DEF Live
  <1>13. TablesTrue'
    BY <1>5, <1>10, <1>12 DEF IInv, TablesTrue, config
  <1>14. \A w \in Vars : holds[w] # Null => holds[w] \in Handles
    BY DEF IInv, StateType
  <1>15. HeldLive'
    BY <1>5, <1>7, <1>9, <1>14 DEF IInv, Named, HeldLive, Gone
  <1>16. OneName' /\ InC' /\ LocalOwn'
    BY <1>5, <1>7 DEF IInv, Named, OneName, InC, LocalOwn, config
  <1>17. AllNamed'
    BY <1>1, <1>4, <1>5, <1>9 DEF IInv, Named, AllNamed, Gone
  <1>18. StateType' /\ NothingFails'
    BY <1>5, <1>7, <1>8 DEF IInv, StateType, NothingFails, config, Phases
  <1> QED BY <1>5, <1>13, <1>15, <1>16, <1>17, <1>18, QuietIsRight DEF IInv, Named

\* MPI_Request_free of anything but a receive that ReMPI knows.
LEMMA RequestFreeKeeps ==
  ASSUME Supported, IInv, NEW v \in Vars, MPI_Request_free(v)
  PROVE  IInv'
  <1>1. holds[v] # Null /\ phase = "running" /\ local = Null
    BY DEF MPI_Request_free, Calls
  <1> DEFINE h == var[v]
  <1>2. h \in Handles /\ holds[v] = h
    BY <1>1 DEF IInv, StateType, Named, HeldLive
  <1>3. Info(h) # "recv"
    BY DEF MPI_Request_free, Supported
  <1>4. /\ recvs' = recvs \ {h} /\ sends' = sends \ {h} /\ events' = events
        /\ lib' = [lib EXCEPT ![h] =
                     IF @.state = "active" THEN [@ EXCEPT !.state = "detached"] ELSE Unused]
        /\ var' = [var EXCEPT ![v] = Null]
        /\ holds' = [holds EXCEPT ![v] = Null]
        /\ phase' = "running" /\ Quiet /\ local' = Null
        /\ UNCHANGED config
    BY <1>1 DEF MPI_Request_free
  <1> HIDE DEF h
  <1>5. /\ lib \in [Handles -> Requests]
        /\ var \in [Vars -> Handles \cup {Null, Garbage}]
        /\ holds \in [Vars -> Handles \cup {Null}]
    BY DEF IInv, StateType
  <1>6. /\ var' \in [Vars -> Handles \cup {Null, Garbage}] /\ var'[v] = Null
        /\ holds' \in [Vars -> Handles \cup {Null}] /\ holds'[v] = Null
        /\ \A w \in Vars : w # v => var'[w] = var[w] /\ holds'[w] = holds[w]
    BY <1>4, <1>5
  <1>7. PICK r \in Requests : lib' = [lib EXCEPT ![h] = r] /\ r.state \in Gone
    <2>1. Unused \in Requests /\ Unused.state \in Gone
      BY DEF Unused, Requests, States, Gone
    <2>2. [lib[h] EXCEPT !.state = "detached"] \in Requests
      BY <1>2, <1>5 DEF Requests, States
    <2>3. [lib[h] EXCEPT !.state = "detached"].state \in Gone
      BY <1>2, <1>5 DEF Requests, Gone
    <2> QED BY <1>2, <1>4, <1>5, <2>1, <2>2, <2>3
  <1>8. /\ lib' \in [Handles -> Requests] /\ lib'[h].state \in Gone
        /\ \A g \in Handles : g # h => lib'[g] = lib[g]
    BY <1>2, <1>5, <1>7
  <1>9. h \notin Live("recv")
    BY <1>2, <1>3, InfoOfLive
  <1>10. Live("send")' = Live("send") \ {h} /\ Live("recv")' = Live("recv")
    BY <1>8, <1>9 DEF Live, Gone
  <1>11. TablesTrue'
    BY <1>4, <1>9, <1>10 DEF IInv, TablesTrue, config
  <1>12. \A w \in Vars : w # v /\ holds[w] # Null => holds[w] \in Handles /\ holds[w] # h
    BY <1>2, <1>5 DEF IInv, Named, OneName
  <1>13. HeldLive'
    BY <1>6, <1>8, <1>12 DEF IInv, Named, HeldLive, Gone
  <1>14. OneName' /\ LocalOwn'
    BY <1>4, <1>6 DEF IInv, Named, OneName, LocalOwn
  <1>15. AllNamed'
    <2>1. ASSUME NEW g \in Handles, lib'[g].state \notin Gone
          PROVE  \E w \in Vars : holds'[w] = g
      <3>1. g # h /\ lib[g].state \notin Gone
        BY <1>8, <2>1
      <3>2. PICK w \in Vars : holds[w] = g
        BY <1>1, <3>1, WrappersAssumption DEF IInv, Named, AllNamed
      <3> QED BY <1>2, <1>6, <3>1, <3>2
    <2> QED BY <2>1 DEF AllNamed, Gone
  <1>16. InC'
    BY <1>4 DEF IInv, Named, InC, config
  <1>17. StateType' /\ NothingFails'
    BY <1>4, <1>6, <1>8 DEF IInv, StateType, NothingFails, config, Phases
  <1> QED BY <1>4, <1>11, <1>13, <1>14, <1>15, <1>16, <1>17, QuietIsRight DEF IInv, Named

-------------------------------------------------------------------------------
\* The answers of the calls that complete requests.

\* The answer a is about the requests d that a call completed.
Fits(a, d) ==
  /\ a.indices \in Seq(Indices)
  /\ a.statuses \in Seq(Handles \cup {Null, Garbage})
  /\ ToSet(d) \subseteq (1..Cardinality(Vars)) \X (Handles \cup {Null})
  /\ \A j \in DOMAIN d :
       /\ a.indices # <<>> => a.indices[j] = d[j][1] - 1 + Base
       /\ \/ a.statuses[j] = d[j][2]
          \/ a.indices = <<>> /\ a.statuses[d[j][1]] = d[j][2]

\* The requests that Complete notes as completed.
Due(hs, is) == [j \in DOMAIN InOrder(is) |-> <<InOrder(is)[j], hs[InOrder(is)[j]]>>]

\* An array of handles of which the positions is hold requests.
Taken(hs, is) ==
  /\ hs \in Seq(Handles \cup {Null, Garbage})
  /\ Len(hs) <= Cardinality(Vars)
  /\ is \subseteq 1..Len(hs)
  /\ \A i \in is : hs[i] \in Handles

\* A fitting answer is right.
LEMMA FitsIsRight ==
  ASSUME Fits(answer', due'), UNCHANGED language
  PROVE  Answered'
  BY DEF Fits, Answered, AnswerType, ResultsRight, Base, Indices

\* The completed positions in order, and what is due for them.
LEMMA TakenInOrder ==
  ASSUME NEW hs, NEW is, Taken(hs, is)
  PROVE  /\ Len(hs) \in Nat /\ Cardinality(Vars) \in Nat
         /\ Cardinality(is) \in 0..Len(hs)
         /\ InOrder(is) \in [1..Cardinality(is) -> is]
         /\ is \subseteq Nat \ {0} /\ is \subseteq 1..Len(hs)
         /\ Due(hs, is) = [j \in 1..Cardinality(is) |-> <<InOrder(is)[j], hs[InOrder(is)[j]]>>]
         /\ ToSet(Due(hs, is)) \subseteq (1..Cardinality(Vars)) \X (Handles \cup {Null})
  <1>1. Len(hs) \in Nat /\ is \subseteq 1..Len(hs) /\ is \in SUBSET Nat
    BY DEF Taken
  <1>2. Cardinality(Vars) \in Nat
    BY WrappersAssumption, FS_CardinalityType
  <1>3. IsFiniteSet(1..Len(hs)) /\ Cardinality(1..Len(hs)) = Len(hs)
    <2>1. /\ IsFiniteSet(1..Len(hs))
          /\ Cardinality(1..Len(hs)) = IF 1 > Len(hs) THEN 0 ELSE Len(hs) - 1 + 1
      BY <1>1, FS_Interval
    <2> QED BY <1>1, <2>1
  <1>4. IsFiniteSet(is) /\ Cardinality(is) <= Len(hs)
    BY <1>1, <1>3, FS_Subset
  <1>5. Cardinality(is) \in Nat
    BY <1>4, FS_CardinalityType
  <1>6. InOrder(is) \in [1..Cardinality(is) -> is]
    BY <1>1, <1>4, PositionsInOrder
  <1>7. Due(hs, is) = [j \in 1..Cardinality(is) |-> <<InOrder(is)[j], hs[InOrder(is)[j]]>>]
    BY <1>6 DEF Due
  <1>8. ASSUME NEW j \in 1..Cardinality(is)
        PROVE  Due(hs, is)[j] \in (1..Cardinality(Vars)) \X (Handles \cup {Null})
    <2>1. InOrder(is)[j] \in is
      BY <1>6
    <2>2. InOrder(is)[j] \in 1..Cardinality(Vars)
      <3>1. InOrder(is)[j] \in 1..Len(hs) /\ Len(hs) <= Cardinality(Vars)
        BY <1>1, <2>1 DEF Taken
      <3> QED BY <1>1, <1>2, <3>1
    <2>3. hs[InOrder(is)[j]] \in Handles
      BY <2>1 DEF Taken
    <2> QED BY <1>7, <2>2, <2>3
  <1>9. DOMAIN Due(hs, is) = 1..Cardinality(is)
    BY <1>7
  <1>10. ToSet(Due(hs, is)) \subseteq (1..Cardinality(Vars)) \X (Handles \cup {Null})
    BY <1>8, <1>9 DEF ToSet
  <1> QED BY <1>1, <1>2, <1>4, <1>5, <1>6, <1>7, <1>10

\* The index of a position.
LEMMA IndexOfPosition ==
  ASSUME NEW hs, NEW is, Taken(hs, is), NEW i \in is
  PROVE  AsIndex(i) \in Indices /\ AsIndex(i) = i - 1 + Base
  <1>1. i \in 1..Len(hs) /\ Len(hs) \in Nat /\ Cardinality(Vars) \in Nat
    BY TakenInOrder
  <1>2. i \in 1..Cardinality(Vars)
    BY <1>1 DEF Taken
  <1>3. Base \in {0, 1}
    BY DEF Base
  <1>4. (i - 1) + Base \in 0..Cardinality(Vars)
    BY <1>1, <1>2, <1>3
  <1> QED BY <1>4 DEF AsIndex, Indices

\* One request or none.
LEMMA AnswerOneFits ==
  ASSUME NEW hs, NEW is, Taken(hs, is), NEW any \in BOOLEAN,
         is = {} \/ \E i \in is : is = {i}
  PROVE  Fits(AnswerOne(hs, is, any), Due(hs, is))
  <1> DEFINE a == AnswerOne(hs, is, any)
  <1>1. CASE is = {}
    <2>1. Cardinality(is) = 0
      BY <1>1, FS_EmptySet
    <2>2. DOMAIN Due(hs, is) = {}
      BY <2>1, TakenInOrder
    <2>3. a.statuses = [j \in 1..0 |-> hs[Min(is)]]
      BY <2>1 DEF AnswerOne
    <2>4. a.statuses \in Seq(Handles \cup {Null, Garbage})
      BY <2>3
    <2>5. a.indices \in {<<>>, <<Garbage>>, <<Undefined>>}
      BY <1>1 DEF AnswerOne
    <2>6. a.indices \in Seq(Indices)
      <3>1. Garbage \in Indices /\ Undefined \in Indices
        BY DEF Indices
      <3>2. <<>> \in Seq(Indices) /\ <<Garbage>> \in Seq(Indices) /\ <<Undefined>> \in Seq(Indices)
        BY <3>1
      <3> QED BY <2>5, <3>2
    <2> HIDE DEF a
    <2>7. ToSet(Due(hs, is)) \subseteq (1..Cardinality(Vars)) \X (Handles \cup {Null})
      BY TakenInOrder
    <2>8. Fits(a, Due(hs, is))
      BY <2>2, <2>4, <2>6, <2>7 DEF Fits
    <2> QED BY <2>8 DEF a
  <1>2. CASE \E i \in is : is = {i}
    <2>1. PICK i \in is : is = {i}
      BY <1>2
    <2>2. i \in Nat /\ hs[i] \in Handles
      BY TakenInOrder DEF Taken
    <2>3. Cardinality(is) = 1
      BY <2>1, FS_Singleton
    <2>4. Min(is) = i
      BY <2>1, <2>2, MinOfOne
    <2>5. InOrder(is)[1] = i
      <3>1. InOrder(is) \in [1..1 -> is]
        BY <2>3, TakenInOrder
      <3>2. InOrder(is)[1] \in is
        BY <3>1
      <3> QED BY <2>1, <3>2
    <2>6. Due(hs, is) = [j \in 1..1 |-> <<InOrder(is)[j], hs[InOrder(is)[j]]>>]
      <3>1. Due(hs, is) = [j \in 1..Cardinality(is) |-> <<InOrder(is)[j], hs[InOrder(is)[j]]>>]
        BY TakenInOrder
      <3> QED BY <2>3, <3>1, Zenon
    <2>7. DOMAIN Due(hs, is) = {1} /\ Due(hs, is)[1] = <<i, hs[i]>>
      BY <2>5, <2>6
    <2>8. a.statuses = [j \in 1..1 |-> hs[i]]
      BY <2>3, <2>4 DEF AnswerOne
    <2>9. a.indices = IF any THEN [j \in {1} |-> AsIndex(i)] ELSE <<>>
      BY <2>1, <2>4 DEF AnswerOne
    <2>10. AsIndex(i) \in Indices /\ AsIndex(i) = i - 1 + Base
      BY IndexOfPosition
    <2>11. /\ a.statuses \in Seq(Handles \cup {Null, Garbage})
           /\ a.statuses[1] = hs[i]
      BY <2>2, <2>8
    <2>12. a.indices \in Seq(Indices) /\ (a.indices # <<>> => a.indices[1] = i - 1 + Base)
      <3>1. [j \in {1} |-> AsIndex(i)] = <<AsIndex(i)>>
        OBVIOUS
      <3>2. <<AsIndex(i)>> \in Seq(Indices) /\ <<AsIndex(i)>>[1] = i - 1 + Base
        BY <2>10
      <3>3. a.indices = <<AsIndex(i)>> \/ a.indices = <<>>
        BY <2>9, <3>1
      <3>4. <<>> \in Seq(Indices)
        OBVIOUS
      <3> HIDE DEF a
      <3>5. CASE a.indices = <<>>
        BY <3>4, <3>5
      <3>6. CASE a.indices = <<AsIndex(i)>>
        BY <3>2, <3>6, Zenon
      <3> QED BY <3>3, <3>5, <3>6
    <2> HIDE DEF a
    <2>13. \A j \in DOMAIN Due(hs, is) :
             /\ a.indices # <<>> => a.indices[j] = Due(hs, is)[j][1] - 1 + Base
             /\ a.statuses[j] = Due(hs, is)[j][2]
      BY <2>7, <2>11, <2>12
    <2>14. ToSet(Due(hs, is)) \subseteq (1..Cardinality(Vars)) \X (Handles \cup {Null})
      BY TakenInOrder
    <2>15. Fits(a, Due(hs, is))
      BY <2>11, <2>12, <2>13, <2>14 DEF Fits
    <2> QED BY <2>15 DEF a
  <1> QED BY <1>1, <1>2

\* As many as there are, with statuses past the count that were never set.
LEMMA AnswerSomeFits ==
  ASSUME NEW hs, NEW is, Taken(hs, is)
  PROVE  Fits(AnswerSome(hs, is), Due(hs, is))
  <1> DEFINE a == AnswerSome(hs, is)
             c == Cardinality(is)
             O == InOrder(is)
  <1>1. /\ c \in 0..Len(hs) /\ Len(hs) \in Nat
        /\ O \in [1..c -> is] /\ DOMAIN O = 1..c
        /\ Due(hs, is) = [j \in 1..c |-> <<O[j], hs[O[j]]>>]
        /\ ToSet(Due(hs, is)) \subseteq (1..Cardinality(Vars)) \X (Handles \cup {Null})
    BY TakenInOrder
  <1>2. a.indices = [j \in 1..c |-> AsIndex(O[j])]
    BY <1>1 DEF AnswerSome
  <1>3. PICK n \in {Len(hs), c} :
          a.statuses = [j \in 1..n |-> IF j <= c THEN hs[O[j]] ELSE Garbage]
    BY DEF AnswerSome
  <1> HIDE DEF a, c, O
  <1>4. \A j \in 1..c : O[j] \in is /\ hs[O[j]] \in Handles
    BY <1>1 DEF Taken
  <1>5. \A j \in 1..c : AsIndex(O[j]) \in Indices /\ AsIndex(O[j]) = O[j] - 1 + Base
    BY <1>4, IndexOfPosition
  <1>6. a.indices \in Seq(Indices)
    BY <1>1, <1>2, <1>5
  <1>7. a.statuses \in Seq(Handles \cup {Null, Garbage})
    BY <1>1, <1>3, <1>4
  <1>8. \A j \in 1..c : a.statuses[j] = hs[O[j]] /\ a.indices[j] = O[j] - 1 + Base
    <2>1. \A j \in 1..c : j \in 1..n /\ j <= c
      BY <1>1
    <2> QED BY <1>2, <1>3, <1>5, <2>1
  <1>9. DOMAIN Due(hs, is) = 1..c
    BY <1>1
  <1>10. \A j \in 1..c : Due(hs, is)[j][1] = O[j] /\ Due(hs, is)[j][2] = hs[O[j]]
    BY <1>1
  <1>11. \A j \in DOMAIN Due(hs, is) :
           /\ a.indices[j] = Due(hs, is)[j][1] - 1 + Base
           /\ a.statuses[j] = Due(hs, is)[j][2]
    BY <1>8, <1>9, <1>10
  <1>12. Fits(a, Due(hs, is))
    BY <1>1, <1>6, <1>7, <1>11 DEF Fits
  <1> QED BY <1>12 DEF a

\* A status for each element.
LEMMA AnswerAllFits ==
  ASSUME NEW hs, NEW is, Taken(hs, is)
  PROVE  Fits(AnswerAll(hs, is), Due(hs, is))
  <1> DEFINE a == AnswerAll(hs, is)
             c == Cardinality(is)
             O == InOrder(is)
  <1>1. /\ Len(hs) \in Nat /\ is \subseteq 1..Len(hs)
        /\ O \in [1..c -> is]
        /\ Due(hs, is) = [j \in 1..c |-> <<O[j], hs[O[j]]>>]
        /\ ToSet(Due(hs, is)) \subseteq (1..Cardinality(Vars)) \X (Handles \cup {Null})
    BY TakenInOrder
  <1>2. /\ a.indices = <<>>
        /\ a.statuses = [i \in DOMAIN hs |-> IF i \in is THEN hs[i]
                                             ELSE IF is = Active(hs) THEN Null ELSE Garbage]
    BY DEF AnswerAll
  <1>3. DOMAIN hs = 1..Len(hs)
    BY DEF Taken
  <1> HIDE DEF a, c, O
  <1>4. \A i \in is : i \in DOMAIN hs /\ hs[i] \in Handles
    BY <1>1, <1>3 DEF Taken
  <1>5. a.statuses \in Seq(Handles \cup {Null, Garbage})
    <2>1. \A i \in 1..Len(hs) : a.statuses[i] \in Handles \cup {Null, Garbage}
      BY <1>2, <1>3, <1>4
    <2>2. a.statuses = [i \in 1..Len(hs) |-> a.statuses[i]]
      BY <1>2, <1>3
    <2> QED BY <1>1, <2>1, <2>2
  <1>6. \A i \in is : a.statuses[i] = hs[i]
    BY <1>2, <1>4
  <1>7. a.indices \in Seq(Indices)
    BY <1>2
  <1>8. \A j \in DOMAIN Due(hs, is) : a.statuses[Due(hs, is)[j][1]] = Due(hs, is)[j][2]
    <2>1. \A j \in DOMAIN Due(hs, is) :
            O[j] \in is /\ Due(hs, is)[j][1] = O[j] /\ Due(hs, is)[j][2] = hs[O[j]]
      BY <1>1
    <2> QED BY <1>6, <2>1
  <1>9. Fits(a, Due(hs, is))
    BY <1>1, <1>2, <1>5, <1>7, <1>8 DEF Fits
  <1> QED BY <1>9 DEF a

-------------------------------------------------------------------------------
\* The calls that complete requests.

\* The variables of a call name their requests, and none of those is gone.
Usable(vs) ==
  /\ vs \in Seq(Vars) /\ IsInjective(vs)
  /\ \A i \in DOMAIN vs : var[vs[i]] = holds[vs[i]]

\* What MPI may complete of an array.
Completable(hs, is) == is \subseteq Ready(hs)

\* MPI completes requests that are done, one at most where one is asked for.
LEMMA OutcomesAreReady ==
  ASSUME NEW hs, NEW is
  PROVE  /\ is \in One(hs)  => Completable(hs, is) /\ (is = {} \/ \E i \in is : is = {i})
         /\ is \in Some(hs) => Completable(hs, is)
         /\ is \in All(hs)  => Completable(hs, is)
         /\ is = {}         => Completable(hs, is)
  BY DEF One, Some, All, Completable

\* The handles a call is given are those MPI says the variables hold.
LEMMA ReadyIsTaken ==
  ASSUME IInv, NEW vs, Usable(vs), NEW is, Completable(HandlesIn(vs), is)
  PROVE  /\ Taken(HandlesIn(vs), is)
         /\ is \subseteq DOMAIN vs
         /\ DOMAIN HandlesIn(vs) = DOMAIN vs
         /\ \A i \in DOMAIN vs : /\ HandlesIn(vs)[i] = holds[vs[i]] /\ vs[i] \in Vars
                                 /\ HandlesIn(vs)[i] = var[vs[i]]
         /\ \A i \in is : HandlesIn(vs)[i] \in Handles
  <1> DEFINE hs == HandlesIn(vs)
  <1>1. /\ DOMAIN vs = 1..Len(vs) /\ Len(vs) \in Nat
        /\ \A i \in 1..Len(vs) : vs[i] \in Vars
    BY DEF Usable
  <1>2. hs = [i \in 1..Len(vs) |-> var[vs[i]]]
    BY <1>1 DEF HandlesIn
  <1>3. var \in [Vars -> Handles \cup {Null, Garbage}]
    BY DEF IInv, StateType
  <1>4. hs \in Seq(Handles \cup {Null, Garbage}) /\ Len(hs) = Len(vs) /\ DOMAIN hs = 1..Len(vs)
    BY <1>1, <1>2, <1>3
  <1>5. Len(vs) <= Cardinality(Vars)
    <2>1. vs \in Injection(1..Len(vs), Vars)
      BY <1>1 DEF Usable, Injection
    <2>2. Cardinality(1..Len(vs)) <= Cardinality(Vars)
      BY <2>1, WrappersAssumption, FS_Injection
    <2>3. Cardinality(1..Len(vs)) = IF 1 > Len(vs) THEN 0 ELSE Len(vs) - 1 + 1
      BY <1>1, FS_Interval
    <2> QED BY <1>1, <2>2, <2>3
  <1>6. is \subseteq DOMAIN hs /\ \A i \in is : hs[i] \in Handles
    BY DEF Completable, Ready, In
  <1>7. \A i \in DOMAIN vs : hs[i] = var[vs[i]] /\ hs[i] = holds[vs[i]] /\ vs[i] \in Vars
    BY <1>1, <1>2 DEF Usable
  <1> QED BY <1>1, <1>4, <1>5, <1>6, <1>7 DEF Taken

\* What a call leaves of the requests H that it completed.
LEMMA ReleasedStates ==
  ASSUME StateType, NEW H, Released(H)
  PROVE  /\ lib' \in [Handles -> Requests]
         /\ \A h \in Handles :
              IF h \notin H THEN lib'[h] = lib[h]
              ELSE IF lib[h].persistent
                   THEN lib'[h].state = "inactive" /\ lib'[h].persistent
                   ELSE lib'[h].state = "free"
         /\ \A k \in {"send", "recv"} : Live(k)' = Live(k) \ H
  <1>1. \A h \in Handles : lib[h] \in Requests /\ [lib[h] EXCEPT !.state = "inactive"] \in Requests
    BY DEF StateType, Requests, States
  <1>2. Unused \in Requests
    BY DEF Unused, Requests, States
  <1>3. lib' \in [Handles -> Requests]
    BY <1>1, <1>2 DEF Released
  <1>4. \A h \in Handles :
          IF h \notin H THEN lib'[h] = lib[h]
          ELSE IF lib[h].persistent
               THEN lib'[h].state = "inactive" /\ lib'[h].persistent
               ELSE lib'[h].state = "free"
    BY <1>1 DEF Released, Unused, Requests
  <1>5. ASSUME NEW k \in {"send", "recv"}
        PROVE  Live(k)' = Live(k) \ H
    <2>1. \A h \in Handles : h \in Live(k)' <=> h \in Live(k) /\ h \notin H
      BY <1>4 DEF Live
    <2> QED BY <2>1 DEF Live
  <1> QED BY <1>3, <1>4, <1>5

\* What MPI says is in the variables afterwards.
LEMMA HoldsAfterwards ==
  ASSUME IInv, NEW vs, Usable(vs), NEW is, Completable(HandlesIn(vs), is),
         Promised(vs, Left(HandlesIn(vs), is), is)
  PROVE  /\ holds' \in [Vars -> Handles \cup {Null}]
         /\ \A v \in Vars :
              holds'[v] = IF /\ holds[v] \in HandlesOf(HandlesIn(vs), is)
                             /\ ~lib[holds[v]].persistent
                          THEN Null ELSE holds[v]
         /\ \A i \in DOMAIN vs : Left(HandlesIn(vs), is)[i] = holds'[vs[i]]
  <1> DEFINE hs == HandlesIn(vs)
             H == HandlesOf(hs, is)
             L == Left(hs, is)
             At(v) == CHOOSE i \in is : vs[i] = v
  <1>1. /\ is \subseteq DOMAIN vs /\ DOMAIN hs = DOMAIN vs
        /\ \A i \in DOMAIN vs : hs[i] = holds[vs[i]] /\ vs[i] \in Vars
        /\ \A i \in is : hs[i] \in Handles
    BY ReadyIsTaken
  <1>2. \A i \in DOMAIN vs :
          L[i] = IF i \in is /\ ~lib[hs[i]].persistent THEN Null ELSE hs[i]
    BY <1>1 DEF Left
  <1>3. holds' = [v \in Vars |-> IF \E i \in is : vs[i] = v THEN L[At(v)] ELSE holds[v]]
    BY DEF Promised
  <1>4. H = {hs[i] : i \in is}
    BY DEF HandlesOf
  <1> HIDE DEF hs, H, L
  <1>5. holds \in [Vars -> Handles \cup {Null}]
    BY DEF IInv, StateType
  <1>6. ASSUME NEW v \in Vars, NEW i \in is, vs[i] = v
        PROVE  holds'[v] = L[i] /\ holds[v] = hs[i] /\ holds[v] \in H
    <2>1. At(v) \in is /\ vs[At(v)] = v
      BY <1>6
    <2>2. At(v) = i
      BY <1>1, <1>6, <2>1 DEF Usable, IsInjective
    <2>3. holds'[v] = L[i]
      BY <1>3, <1>6, <2>2
    <2> QED BY <1>1, <1>4, <1>6, <2>3
  <1>7. ASSUME NEW v \in Vars, ~ \E i \in is : vs[i] = v
        PROVE  holds'[v] = holds[v] /\ holds[v] \notin H
    <2>1. holds'[v] = holds[v]
      BY <1>3, <1>7
    <2>2. ASSUME NEW i \in is, holds[v] = hs[i]
          PROVE  FALSE
      <3>1. holds[vs[i]] = holds[v] /\ vs[i] \in Vars /\ holds[v] # Null
        BY <1>1, <2>2, WrappersAssumption
      <3> QED BY <1>7, <3>1 DEF IInv, Named, OneName
    <2> QED BY <1>4, <2>1, <2>2
  <1>8. ASSUME NEW v \in Vars
        PROVE  holds'[v] = IF holds[v] \in H /\ ~lib[holds[v]].persistent
                           THEN Null ELSE holds[v]
    <2>1. CASE \E i \in is : vs[i] = v
      <3>1. PICK i \in is : vs[i] = v
        BY <2>1
      <3>2. holds'[v] = L[i] /\ holds[v] = hs[i] /\ holds[v] \in H
        BY <1>6, <3>1
      <3> QED BY <1>1, <1>2, <3>2
    <2>2. CASE ~ \E i \in is : vs[i] = v
      BY <1>7, <2>2
    <2> QED BY <2>1, <2>2
  <1>9. holds' \in [Vars -> Handles \cup {Null}]
    <2>1. \A v \in Vars : holds'[v] \in Handles \cup {Null}
      BY <1>5, <1>8
    <2> HIDE DEF At
    <2> QED BY <1>3, <2>1
  <1>10. ASSUME NEW i \in DOMAIN vs
         PROVE  L[i] = holds'[vs[i]]
    <2>1. CASE i \in is
      BY <1>1, <1>6, <2>1
    <2>2. CASE i \notin is
      <3>1. L[i] = holds[vs[i]] /\ vs[i] \in Vars
        BY <1>1, <1>2, <2>2
      <3>2. ~ \E k \in is : vs[k] = vs[i]
        BY <1>1, <2>2 DEF Usable, IsInjective
      <3> QED BY <1>7, <3>1, <3>2
    <2> QED BY <2>1, <2>2
  <1> QED BY <1>8, <1>9, <1>10 DEF hs, H, L

\* What is in the variables afterwards.
LEMMA VarAfterwards ==
  ASSUME IInv, NEW vs, Usable(vs), NEW is, Completable(HandlesIn(vs), is), NEW single,
         Promised(vs, Left(HandlesIn(vs), is), is),
         WriteBack(vs, Left(HandlesIn(vs), is), single)
  PROVE  /\ var' \in [Vars -> Handles \cup {Null, Garbage}]
         /\ \A v \in Vars : var'[v] = holds'[v] \/ var'[v] = var[v]
         /\ ~Kept(single) =>
              \A v \in Vars : var'[v] = holds'[v] \/ (var'[v] = var[v] /\ holds'[v] = holds[v])
  <1> DEFINE L == Left(HandlesIn(vs), is)
             At(v) == CHOOSE i \in DOMAIN vs : vs[i] = v
  <1>1. var \in [Vars -> Handles \cup {Null, Garbage}]
    BY DEF IInv, StateType
  <1>2. /\ holds' \in [Vars -> Handles \cup {Null}]
        /\ \A v \in Vars : holds'[v] = holds[v] \/ holds[v] \in HandlesOf(HandlesIn(vs), is)
        /\ \A i \in DOMAIN vs : L[i] = holds'[vs[i]]
    BY HoldsAfterwards
  <1>3. /\ DOMAIN L = DOMAIN vs /\ is \subseteq DOMAIN vs
        /\ \A i \in DOMAIN vs : HandlesIn(vs)[i] = holds[vs[i]] /\ vs[i] \in Vars
        /\ \A i \in is : HandlesIn(vs)[i] \in Handles
    BY ReadyIsTaken DEF Left
  <1>4. CASE Kept(single)
    BY <1>1, <1>4 DEF WriteBack
  <1>5. CASE ~Kept(single)
    <2>1. var' = [v \in Vars |-> IF v \in ToSet(vs) THEN L[At(v)] ELSE var[v]]
      BY <1>5 DEF WriteBack
    <2> HIDE DEF L
    <2>2. ASSUME NEW v \in Vars, v \in ToSet(vs)
          PROVE  var'[v] = holds'[v]
      <3>1. \E i \in DOMAIN vs : vs[i] = v
        BY <1>3, <2>2 DEF ToSet
      <3>2. At(v) \in DOMAIN vs /\ vs[At(v)] = v
        BY <1>3, <3>1
      <3> HIDE DEF At
      <3> QED BY <1>2, <2>1, <2>2, <3>2
    <2>3. ASSUME NEW v \in Vars, v \notin ToSet(vs)
          PROVE  var'[v] = var[v] /\ holds'[v] = holds[v]
      <3>1. var'[v] = var[v]
        BY <2>1, <2>3
      <3>2. ASSUME holds[v] \in HandlesOf(HandlesIn(vs), is)
            PROVE  FALSE
        <4>1. PICK i \in is : holds[v] = HandlesIn(vs)[i]
          BY <3>2 DEF HandlesOf
        <4>2. holds[vs[i]] = holds[v] /\ vs[i] \in Vars /\ holds[v] # Null
          BY <1>3, <4>1, WrappersAssumption
        <4>3. vs[i] = v
          BY <4>2 DEF IInv, Named, OneName
        <4> QED BY <1>3, <2>3, <4>3 DEF ToSet
      <3> QED BY <1>2, <3>1, <3>2
    <2>4. \A v \in Vars : var'[v] \in Handles \cup {Null, Garbage}
      BY <1>1, <1>2, <2>2, <2>3
    <2>5. var' \in [Vars -> Handles \cup {Null, Garbage}]
      <3> HIDE DEF At
      <3> QED BY <2>1, <2>4
    <2> QED BY <2>2, <2>3, <2>5
  <1> QED BY <1>4, <1>5

\* The requests that are returned leave the tables, and the variables, together.
LEMMA CompleteKeepsRequests ==
  ASSUME IInv, local = Null, NEW vs, Usable(vs),
         NEW is, Completable(HandlesIn(vs), is), NEW how,
         Complete(vs, HandlesIn(vs), is, how)
  PROVE  /\ TablesTrue' /\ Named'
         /\ lib' \in [Handles -> Requests]
         /\ var' \in [Vars -> Handles \cup {Null, Garbage}]
         /\ holds' \in [Vars -> Handles \cup {Null}]
  <1> DEFINE H == HandlesOf(HandlesIn(vs), is)
  <1>1. /\ sends' = sends \ H /\ recvs' = recvs \ H /\ events' = events \ H
        /\ Released(H)
        /\ WriteBack(vs, Left(HandlesIn(vs), is), how = "status")
        /\ Promised(vs, Left(HandlesIn(vs), is), is)
        /\ UNCHANGED <<language, mode>> /\ local' = Null
    BY DEF Complete, Returns, Deregister, config
  <1> HIDE DEF H
  <1>2. /\ lib' \in [Handles -> Requests]
        /\ \A h \in Handles :
             IF h \notin H THEN lib'[h] = lib[h]
             ELSE IF lib[h].persistent
                  THEN lib'[h].state = "inactive" /\ lib'[h].persistent
                  ELSE lib'[h].state = "free"
        /\ \A k \in {"send", "recv"} : Live(k)' = Live(k) \ H
    BY <1>1, ReleasedStates DEF IInv
  <1>3. /\ holds' \in [Vars -> Handles \cup {Null}]
        /\ \A v \in Vars : holds'[v] = IF holds[v] \in H /\ ~lib[holds[v]].persistent
                                       THEN Null ELSE holds[v]
    BY <1>1, HoldsAfterwards DEF H
  <1>4. /\ var' \in [Vars -> Handles \cup {Null, Garbage}]
        /\ \A v \in Vars : var'[v] = holds'[v] \/ var'[v] = var[v]
        /\ ~Kept(how = "status") =>
             \A v \in Vars : var'[v] = holds'[v] \/ (var'[v] = var[v] /\ holds'[v] = holds[v])
    BY <1>1, VarAfterwards
  <1>5. /\ var \in [Vars -> Handles \cup {Null, Garbage}]
        /\ holds \in [Vars -> Handles \cup {Null}]
    BY DEF IInv, StateType
  <1>6. TablesTrue'
    <2>1. Live("send")' = Live("send") \ H /\ Live("recv")' = Live("recv") \ H
      BY <1>2
    <2> QED BY <1>1, <2>1 DEF IInv, TablesTrue
  <1>7. HeldLive'
    <2>1. ASSUME NEW v \in Vars, holds'[v] # Null
          PROVE  var'[v] = holds'[v] /\ lib'[holds'[v]].state \notin Gone
      <3>1. /\ holds'[v] = holds[v] /\ holds[v] \in Handles
            /\ ~ (holds[v] \in H /\ ~lib[holds[v]].persistent)
        BY <1>3, <1>5, <2>1
      <3>2. var[v] = holds[v] /\ lib[holds[v]].state \notin Gone
        BY <2>1, <3>1 DEF IInv, Named, HeldLive
      <3>3. lib'[holds[v]].state \notin Gone
        BY <1>2, <3>1, <3>2 DEF Gone
      <3> QED BY <1>4, <3>1, <3>2, <3>3
    <2> QED BY <2>1 DEF HeldLive, Gone
  <1>8. OneName'
    BY <1>3 DEF IInv, Named, OneName
  <1>9. LocalOwn'
    BY <1>1 DEF LocalOwn
  <1>10. AllNamed'
    <2>1. ASSUME NEW h \in Handles, lib'[h].state \notin Gone
          PROVE  \E v \in Vars : holds'[v] = h
      <3>1. ~ (h \in H /\ ~lib[h].persistent)
        BY <1>2, <2>1 DEF Gone
      <3>2. PICK v \in Vars : holds[v] = h
        <4>1. CASE h \notin H
          BY <1>2, <2>1, <4>1, WrappersAssumption DEF IInv, Named, AllNamed
        <4>2. CASE h \in H
          <5>1. PICK i \in is : h = HandlesIn(vs)[i]
            BY <4>2 DEF H, HandlesOf
          <5> QED BY <5>1, ReadyIsTaken
        <4> QED BY <4>1, <4>2
      <3> QED BY <1>3, <3>1, <3>2
    <2> QED BY <2>1 DEF AllNamed, Gone
  <1>11. InC'
    <2>1. ASSUME language = "c"
          PROVE  var' = holds'
      <3>1. var = holds
        BY <2>1 DEF IInv, Named, InC
      <3>2. ~Kept(how = "status")
        BY <2>1 DEF Kept
      <3>3. \A v \in Vars : var'[v] = holds'[v]
        BY <1>4, <3>1, <3>2
      <3> QED BY <1>3, <1>4, <3>3
    <2> QED BY <1>1, <2>1 DEF InC
  <1> QED BY <1>2, <1>3, <1>4, <1>6, <1>7, <1>8, <1>9, <1>10, <1>11 DEF Named

\* Whatever way a call answers.
LEMMA AnswerFits ==
  ASSUME NEW hs, NEW is, Taken(hs, is), NEW how \in {"status", "index", "some", "all"},
         how \in {"status", "index"} => is = {} \/ \E i \in is : is = {i}
  PROVE  Fits(Answer(how, hs, is), Due(hs, is))
  <1>1. CASE how \in {"status", "index"}
    <2>1. Answer(how, hs, is) = AnswerOne(hs, is, how = "index")
      BY <1>1 DEF Answer
    <2>2. Fits(AnswerOne(hs, is, how = "index"), Due(hs, is))
      BY <1>1, AnswerOneFits
    <2> QED BY <2>1, <2>2
  <1>2. CASE how = "some"
    <2>1. Answer(how, hs, is) = AnswerSome(hs, is)
      BY <1>2 DEF Answer
    <2> QED BY <2>1, AnswerSomeFits
  <1>3. CASE how = "all"
    <2>1. Answer(how, hs, is) = AnswerAll(hs, is)
      BY <1>3 DEF Answer
    <2> QED BY <2>1, AnswerAllFits
  <1> QED BY <1>1, <1>2, <1>3

\* The sets of requests that a call may return.
Outcomes(vs, outcomes, how) ==
  \A is \in outcomes :
    /\ Completable(HandlesIn(vs), is)
    /\ how \in {"status", "index"} => is = {} \/ \E i \in is : is = {i}

\* A call that completes requests, whatever MPI completes.
LEMMA MatchingKeeps ==
  ASSUME Supported, IInv, NEW vs \in Seq(Vars), IsInjective(vs),
         NEW outcomes, NEW how \in {"status", "index", "some", "all"},
         Outcomes(vs, outcomes, how), Matching(vs, outcomes, how)
  PROVE  IInv'
  <1>1. local = Null /\ phase = "running"
    BY DEF Matching, Calls
  <1>2. /\ \A i \in DOMAIN vs : var[vs[i]] = holds[vs[i]]
        /\ ~Mixed(HandlesIn(vs))
        /\ ~NoIndex(HandlesIn(vs), how)
    BY DEF Matching, MayUse, Supported
  <1>3. Usable(vs)
    BY <1>2 DEF Usable
  <1>4. ~Dangling(HandlesIn(vs))
    <2>1. ASSUME NEW i \in DOMAIN HandlesIn(vs)
          PROVE  /\ HandlesIn(vs)[i] # Garbage
                 /\ ~ (HandlesIn(vs)[i] \in Handles /\ lib[HandlesIn(vs)[i]].state \in Gone)
      <3>1. i \in DOMAIN vs /\ HandlesIn(vs)[i] = holds[vs[i]] /\ vs[i] \in Vars
        BY <1>2, <2>1 DEF HandlesIn
      <3>2. holds[vs[i]] \in Handles \cup {Null}
        BY <3>1 DEF IInv, StateType
      <3>3. holds[vs[i]] # Null => lib[holds[vs[i]]].state \notin Gone
        BY <3>1 DEF IInv, Named, HeldLive
      <3> QED BY <3>1, <3>2, <3>3, WrappersAssumption
    <2> QED BY <2>1 DEF Dangling, In, Gone
  <1>5. PICK is \in outcomes : Complete(vs, HandlesIn(vs), is, how)
    BY <1>2, <1>4 DEF Matching
  <1>6. /\ Completable(HandlesIn(vs), is)
        /\ how \in {"status", "index"} => is = {} \/ \E i \in is : is = {i}
    BY DEF Outcomes
  <1>7. /\ TablesTrue' /\ Named'
        /\ lib' \in [Handles -> Requests]
        /\ var' \in [Vars -> Handles \cup {Null, Garbage}]
        /\ holds' \in [Vars -> Handles \cup {Null}]
    BY <1>1, <1>3, <1>5, <1>6, CompleteKeepsRequests
  <1>8. /\ answer' = Answer(how, HandlesIn(vs), is)
        /\ due' = Due(HandlesIn(vs), is)
        /\ phase' = "running" /\ local' = Null /\ UNCHANGED config /\ UNCHANGED language
    BY <1>1, <1>5 DEF Complete, Returns, Due, config
  <1>9. Taken(HandlesIn(vs), is)
    BY <1>3, <1>6, ReadyIsTaken
  <1>10. Fits(answer', due')
    BY <1>6, <1>8, <1>9, AnswerFits
  <1>11. Answered'
    BY <1>8, <1>10, FitsIsRight
  <1>12. StateType' /\ NothingFails'
    BY <1>7, <1>8 DEF IInv, StateType, NothingFails, config, Phases
  <1> QED BY <1>7, <1>11, <1>12 DEF IInv

\* The calls on one variable.
LEMMA TestAndWaitKeep ==
  ASSUME Supported, IInv, NEW v \in Vars, MPI_Test(v) \/ MPI_Wait(v)
  PROVE  IInv'
  <1>1. <<v>> \in Seq(Vars) /\ IsInjective(<<v>>)
    BY DEF IsInjective
  <1>2. Outcomes(<<v>>, OneOf(<<v>>), "status")
    BY OutcomesAreReady DEF Outcomes, OneOf
  <1>3. Outcomes(<<v>>, Or_None(OneOf(<<v>>)), "status")
    BY OutcomesAreReady DEF Outcomes, OneOf, Or_None
  <1>4. Matching(<<v>>, Or_None(OneOf(<<v>>)), "status") \/ Matching(<<v>>, OneOf(<<v>>), "status")
    BY DEF MPI_Test, MPI_Wait
  <1> QED BY <1>1, <1>2, <1>3, <1>4, MatchingKeeps

\* The calls on an array.
LEMMA ArrayCallsKeep ==
  ASSUME Supported, IInv, NEW vs \in Arrays,
         \/ MPI_Testany(vs) \/ MPI_Testsome(vs) \/ MPI_Testall(vs)
         \/ MPI_Waitany(vs) \/ MPI_Waitsome(vs) \/ MPI_Waitall(vs)
  PROVE  IInv'
  <1>1. vs \in Seq(Vars) /\ IsInjective(vs)
    BY WrappersAssumption
  <1>2. CASE MPI_Testany(vs) \/ MPI_Waitany(vs)
    <2>1. Outcomes(vs, OneOf(vs), "index") /\ Outcomes(vs, Or_None(OneOf(vs)), "index")
      BY OutcomesAreReady DEF Outcomes, OneOf, Or_None
    <2> QED BY <1>1, <1>2, <2>1, MatchingKeeps DEF MPI_Testany, MPI_Waitany
  <1>3. CASE MPI_Testsome(vs) \/ MPI_Waitsome(vs)
    <2>1. Outcomes(vs, SomeOf(vs), "some") /\ Outcomes(vs, Or_None(SomeOf(vs)), "some")
      BY OutcomesAreReady DEF Outcomes, SomeOf, Or_None
    <2> QED BY <1>1, <1>3, <2>1, MatchingKeeps DEF MPI_Testsome, MPI_Waitsome
  <1>4. CASE MPI_Testall(vs) \/ MPI_Waitall(vs)
    <2>1. Outcomes(vs, AllOf(vs), "all") /\ Outcomes(vs, Or_None(AllOf(vs)), "all")
      BY OutcomesAreReady DEF Outcomes, AllOf, Or_None
    <2> QED BY <1>1, <1>4, <2>1, MatchingKeeps DEF MPI_Testall, MPI_Waitall
  <1> QED BY <1>2, <1>3, <1>4

\* All calls that are given one variable.
LEMMA VariableCallsKeep ==
  ASSUME Supported, IInv, NEW v \in Vars, OnVariable(v)
  PROVE  IInv'
  <1>1. CASE MPI_Isend(v) \/ MPI_Ibsend(v) \/ MPI_Irsend(v) \/ MPI_Issend(v)
    <2>1. {"standard", "buffered", "ready", "synchronous"} \subseteq DOMAIN Starts
      BY DEF Starts
    <2>2. PICK kind \in DOMAIN Starts : PostSend(v, kind)
      BY <1>1, <2>1 DEF MPI_Isend, MPI_Ibsend, MPI_Irsend, MPI_Issend
    <2> QED BY <2>2, PostSendKeeps
  <1>2. CASE \/ MPI_Recv_init(v) \/ MPI_Send_init(v)
             \/ MPI_Ssend_init(v) \/ MPI_Rsend_init(v) \/ MPI_Bsend_init(v)
    <2>1. PICK kind \in {"send", "recv"}, next \in {"running", "exited"} :
            MakePersistent(v, kind, next)
      BY <1>2 DEF MPI_Recv_init, MPI_Send_init, MPI_Ssend_init, MPI_Rsend_init, MPI_Bsend_init
    <2> QED BY <2>1, MakePersistentKeeps
  <1>3. CASE MPI_Start(v)
    BY <1>3, StartKeeps DEF MPI_Start
  <1> QED BY <1>1, <1>2, <1>3, IrecvKeeps, TestAndWaitKeep, CancelKeeps, RequestFreeKeeps
          DEF OnVariable

\* The blocking calls.
LEMMA BlockingCallsKeep ==
  ASSUME IInv, MPI_Send \/ MPI_Bsend \/ MPI_Rsend \/ MPI_Ssend \/ MPI_Recv \/ BlockingReturns
  PROVE  IInv'
  <1>1. CASE MPI_Send \/ MPI_Bsend \/ MPI_Rsend \/ MPI_Ssend
    <2>1. {"standard", "buffered", "ready", "synchronous"} \subseteq DOMAIN Starts
      BY DEF Starts
    <2>2. PICK kind \in DOMAIN Starts : BlockingSend(kind)
      BY <1>1, <2>1 DEF MPI_Send, MPI_Bsend, MPI_Rsend, MPI_Ssend
    <2> QED BY <2>2, BlockingSendKeeps
  <1> QED BY <1>1, RecvKeeps, BlockingReturnsKeeps

\* Nothing happens.
LEMMA StutterKeeps ==
  ASSUME IInv, UNCHANGED vars
  PROVE  IInv'
  <1>1. /\ RequestsUnchanged /\ UNCHANGED <<answer, due, language>>
        /\ phase' = phase /\ encode' = encode /\ provided' = provided
    BY DEF vars, config, known, RequestsUnchanged
  <1>2. StateType' /\ NothingFails'
    BY <1>1 DEF IInv, StateType, NothingFails, RequestsUnchanged
  <1> QED BY <1>1, <1>2, RequestsKept, UnchangedIsRight DEF IInv

\* Every step keeps the invariant.
LEMMA NextKeeps ==
  ASSUME Supported, IInv, [Next]_vars
  PROVE  IInv'
  <1>1. ASSUME NEW vs \in Arrays, OnArray(vs)
        PROVE  IInv'
    <2>1. CASE MPI_Startall(vs)
      <3>1. vs \in Seq(Vars)
        BY WrappersAssumption
      <3>2. ToSet(vs) \in SUBSET Vars
        BY <3>1 DEF ToSet
      <3> QED BY <2>1, <3>2, StartKeeps DEF MPI_Startall
    <2> QED BY <1>1, <2>1, ArrayCallsKeep DEF OnArray
  <1> QED BY <1>1, StartsAndEnds, BlockingCallsKeep, VariableCallsKeep, CompletesKeeps, StutterKeeps
          DEF Next

\* The variables that name a request are one at most.
LEMMA HandlesAreTrue ==
  ASSUME IInv
  PROVE  HandlesTrue
  <1>1. ASSUME NEW h \in Handles, lib[h].state \notin Gone
        PROVE  Cardinality({v \in Vars : var[v] = h /\ holds[v] = h})
                 + (IF local = h THEN 1 ELSE 0) = 1
    <2> DEFINE V == {v \in Vars : var[v] = h /\ holds[v] = h}
    <2>1. h # Null
      BY WrappersAssumption
    <2>2. CASE local = h
      <3>1. V = {}
        BY <2>1, <2>2 DEF IInv, Named, LocalOwn
      <3> QED BY <2>2, <3>1, FS_EmptySet
    <2>3. CASE local # h
      <3>1. PICK v \in Vars : holds[v] = h
        BY <1>1, <2>3 DEF IInv, Named, AllNamed
      <3>2. var[v] = h
        BY <2>1, <3>1 DEF IInv, Named, HeldLive
      <3>3. V = {v}
        BY <2>1, <3>1, <3>2 DEF IInv, Named, OneName
      <3> QED BY <2>3, <3>3, FS_Singleton
    <2> QED BY <2>2, <2>3
  <1> QED BY <1>1 DEF HandlesTrue, Gone, IInv, Named, InC

\* The inductive invariant holds of every behaviour.
LEMMA Invariance ==
  ASSUME Supported
  PROVE  Spec => []IInv
  <1>1. Init => IInv
    BY InitIsRight
  <1>2. IInv /\ [Next]_vars => IInv'
    BY NextKeeps
  <1> QED BY <1>1, <1>2, PTL DEF Spec

\* Whatever an application calls in whatever order, ReMPI's request tables list exactly
\* the requests of the supported functions that are under way, with an event for each
\* receive that is recorded, and nothing it is asked stops it (rempi_request_mg.cpp,
\* rempi_recorder.cpp).
THEOREM TablesKeptTrue ==
  ASSUME Supported
  PROVE  Spec => []KeptTrue
  <1>1. IInv => KeptTrue
    BY TypeParts DEF IInv, KeptTrue, Answered
  <1> QED BY <1>1, Invariance, PTL

\* Every request under way is named by one variable of the application or belongs to
\* the blocking call, whichever of them share a handle over time, and in C the variables
\* are what MPI says: the copying of handles in the Fortran wrappers loses none
\* (rempi_pmpi.cpp).
THEOREM RequestsNamed ==
  ASSUME Supported
  PROVE  Spec => []HandlesTrue
  <1> QED BY HandlesAreTrue, Invariance, PTL

\* The indices and statuses a call returns are those of the requests it completed, in C
\* and in Fortran (rempi_pmpi.cpp).
THEOREM AnswersRight ==
  ASSUME Supported
  PROVE  Spec => []ResultsRight
  <1>1. IInv => ResultsRight
    BY DEF IInv, Answered
  <1> QED BY <1>1, Invariance, PTL
================================================================================
