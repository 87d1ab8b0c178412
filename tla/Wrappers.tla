-------------------------------- MODULE Wrappers --------------------------------
(***************************************************************************)
(* The entry points of ReMPI (rempi_pmpi.cpp): what each MPI function does *)
(* with the application's request handles, in C and in Fortran, and what   *)
(* ReMPI's request tables know of them.  A handle is a value the library   *)
(* hands out again once its request is gone; a Fortran program holds the   *)
(* integer of a handle, which a wrapper converts to a handle of its own    *)
(* and, if the wrapper thinks of it, back.                                 *)
(*                                                                         *)
(* One process.  When a request completes is up to the library, and so is  *)
(* which of the completed requests a call returns; in a replay the record  *)
(* chooses (MpiReplay), among the same.  The build is the one that keeps   *)
(* calls apart whose requests ReMPI does not know (REMPI_LITE).            *)
(***************************************************************************)
EXTENDS Naturals, Sequences, FiniteSets, SequencesExt, FiniteSetsExt

CONSTANTS
  Languages, Modes, Encodes,
  Required, Available,  \* thread levels the application asks for, MPI can give
  Handles,
  Vars, Arrays,         \* request variables; arrays of them that calls are given
  Null,                 \* MPI_REQUEST_NULL
  Garbage,              \* what an uninitialised variable holds
  Undefined,            \* MPI_UNDEFINED
  Risks                 \* legal uses that ReMPI does not survive, see MayUse

\* MPI_THREAD_SINGLE to MPI_THREAD_MULTIPLE.
Levels == 0..3
Funneled == 1

ASSUME WrappersAssumption ==
  /\ Languages \subseteq {"c", "fortran"}
  /\ Modes \subseteq {"record", "replay"}
  /\ Required \subseteq Levels /\ Available \subseteq Levels
  /\ IsFiniteSet(Vars) /\ Arrays \subseteq {vs \in Seq(Vars) : IsInjective(vs)}
  /\ Risks \subseteq {"stale", "mixed", "no index", "free receive", "cancel send", "cancel"}
  /\ {Null, Garbage} \cap Handles = {} /\ Null # Garbage

VARIABLES
  phase,        \* of the process
  language, mode, encode,
  provided,     \* the thread level MPI_Init_thread returned
  lib,          \* the request of each handle
  var,          \* what is in the application's variables
  holds,        \* what MPI says is in them
  sends,        \* request_to_send_id_umap
  recvs,        \* request_to_recv_args_umap
  events,       \* request_to_recv_event_umap
  local,        \* the request of a blocking send or receive under way
  answer,       \* what the last call returned: indices and statuses
  due           \* the positions in its array and the requests it completed

config == <<language, mode, encode, provided>>
known  == <<sends, recvs, events>>
vars   == <<phase, config, lib, var, holds, known, local, answer, due>>

Phases == {"start", "running", "exited", "stopped", "finalized"}
\* "detached": freed by the application before it was complete.
States == {"free", "inactive", "active", "done", "cancelled", "detached"}
Requests == [kind : {"send", "recv"}, persistent : BOOLEAN, state : States]
Unused == [kind |-> "send", persistent |-> FALSE, state |-> "free"]

\* Positions in an array, as an application counts them in its language.
Base == IF language = "fortran" THEN 1 ELSE 0
Indices == 0..Cardinality(Vars) \cup {Undefined, Garbage}

TypeOK ==
  /\ phase \in Phases
  /\ language \in Languages /\ mode \in Modes /\ encode \in Encodes
  /\ provided \in Levels
  /\ lib \in [Handles -> Requests]
  /\ var \in [Vars -> Handles \cup {Null, Garbage}]
  /\ holds \in [Vars -> Handles \cup {Null}]
  /\ \A t \in {sends, recvs, events} : t \subseteq Handles
  /\ local \in Handles \cup {Null}
  /\ answer.indices \in Seq(Indices)
  /\ answer.statuses \in Seq(Handles \cup {Null, Garbage})
  /\ ToSet(due) \subseteq (1..Cardinality(Vars)) \X (Handles \cup {Null})

Nothing == [indices |-> <<>>, statuses |-> <<>>]

Init ==
  /\ phase = "start"
  /\ language \in Languages
  /\ mode \in Modes
  /\ encode \in Encodes
  /\ provided = 0
  /\ lib = [h \in Handles |-> Unused]
  /\ var = [v \in Vars |-> Null]
  /\ holds = [v \in Vars |-> Null]
  /\ sends = {} /\ recvs = {} /\ events = {}
  /\ local = Null
  /\ answer = Nothing
  /\ due = <<>>

-------------------------------------------------------------------------------
\* Starting and ending.

\* init_rempi: the library of REMPI_LITE has one recorder.
init_rempi == phase' = IF encode = 0 THEN "running" ELSE "stopped"

MPI_Init ==
  /\ phase = "start"
  /\ init_rempi
  /\ UNCHANGED <<config, lib, var, holds, known, local, answer, due>>

\* re_init_thread: ReMPI asks for funneled at least and never grants more.
MPI_Init_thread ==
  /\ phase = "start"
  /\ \E required \in Required, most \in Available :
       LET all_required == Max({required, Funneled})
           got == Min({all_required, most})
       IN  /\ provided' = IF got < Funneled THEN got ELSE Funneled
           /\ IF got < Funneled THEN phase' = "stopped" ELSE init_rempi
  /\ UNCHANGED <<language, mode, encode, lib, var, holds, known, local, answer, due>>

MPI_Finalize ==
  /\ phase = "running"
  /\ local = Null
  /\ \A h \in Handles : lib[h].state = "free"
  /\ phase' = "finalized"
  /\ UNCHANGED <<config, lib, var, holds, known, local, answer, due>>

\* REMPI_ERR and exceptions that nothing catches.
Stop ==
  /\ phase' = "stopped"
  /\ UNCHANGED <<config, lib, var, holds, known, local, answer, due>>

\* The application may call: it runs and no blocking call is under way.
Calls == phase = "running" /\ local = Null

\* A call that returns no requests.
Answers(indices, statuses) ==
  /\ answer' = [indices |-> indices, statuses |-> statuses]
  /\ due' = <<>>
Quiet == Answers(<<>>, <<>>)

-------------------------------------------------------------------------------
\* Making requests.

\* The library makes a request; a buffered send is complete at once.
Makes(h, kind, persistent, state) ==
  /\ lib[h].state = "free"
  /\ lib' = [lib EXCEPT ![h] = [kind |-> kind, persistent |-> persistent,
                                state |-> state]]

\* The application's variable gets the handle: a Fortran wrapper converts it.
Gets(v, h) ==
  /\ holds[v] = Null
  /\ holds' = [holds EXCEPT ![v] = h]
  /\ var' = [var EXCEPT ![v] = h]

\* rempi_reqmg_register_send_request.
RegisterSend(h) == sends' = sends \cup {h} /\ UNCHANGED <<recvs, events>>

\* record_irecv keeps an event for each receive that is not complete.
HasEvent(h) == mode = "record" /\ h \in events
RegisterRecv(h) ==
  /\ recvs' = recvs \cup {h}
  /\ events' = IF mode = "record" THEN events \cup {h} ELSE events
  /\ UNCHANGED sends

Starts == [standard |-> "active", buffered |-> "done",
           ready |-> "active", synchronous |-> "active"]

PostSend(v, kind) ==
  /\ Calls
  /\ \E h \in Handles :
       /\ Makes(h, "send", FALSE, Starts[kind])
       /\ Gets(v, h)
       /\ RegisterSend(h)
  /\ Quiet
  /\ UNCHANGED <<phase, config, local>>

MPI_Isend(v)  == PostSend(v, "standard")
MPI_Ibsend(v) == PostSend(v, "buffered")
MPI_Irsend(v) == PostSend(v, "ready")
MPI_Issend(v) == PostSend(v, "synchronous")

MPI_Irecv(v) ==
  /\ Calls
  /\ holds[v] = Null
  /\ \E h \in Handles :
       IF HasEvent(h) /\ lib[h].state = "free" THEN Stop
       ELSE /\ Makes(h, "recv", FALSE, "active")
            /\ Gets(v, h)
            /\ RegisterRecv(h)
            /\ Quiet
            /\ UNCHANGED <<phase, config, local>>

\* MPI_Send and its kin are MPI_Isend and its kin and a wait, MPI_Recv re_irecv
\* and re_wait, on a request of their own.
BlockingSend(kind) ==
  /\ Calls
  /\ \E h \in Handles :
       /\ Makes(h, "send", FALSE, Starts[kind])
       /\ RegisterSend(h)
       /\ local' = h
  /\ Quiet
  /\ UNCHANGED <<phase, config, var, holds>>

MPI_Send  == BlockingSend("standard")
MPI_Bsend == BlockingSend("buffered")
MPI_Rsend == BlockingSend("ready")
MPI_Ssend == BlockingSend("synchronous")

MPI_Recv ==
  /\ Calls
  /\ \E h \in Handles :
       IF HasEvent(h) /\ lib[h].state = "free" THEN Stop
       ELSE /\ Makes(h, "recv", FALSE, "active")
            /\ RegisterRecv(h)
            /\ local' = h
            /\ Quiet
            /\ UNCHANGED <<phase, config, var, holds>>

\* Persistent requests are not registered.  The wrappers of two of these
\* functions end with exit(1).
MakePersistent(v, kind, next) ==
  /\ Calls
  /\ \E h \in Handles : Makes(h, kind, TRUE, "inactive") /\ Gets(v, h)
  /\ phase' = next
  /\ Quiet
  /\ UNCHANGED <<config, known, local>>

MPI_Recv_init(v)  == MakePersistent(v, "recv", "exited")
MPI_Send_init(v)  == MakePersistent(v, "send", "exited")
MPI_Ssend_init(v) == MakePersistent(v, "send", "running")
MPI_Rsend_init(v) == MakePersistent(v, "send", "running")
MPI_Bsend_init(v) == MakePersistent(v, "send", "running")

Startable(v) ==
  holds[v] # Null /\ lib[holds[v]].persistent /\ lib[holds[v]].state = "inactive"

\* The handles stay what they were: nothing is lost by not writing them back.
Start(vs) ==
  /\ Calls
  /\ \A v \in vs : Startable(v)
  /\ lib' = [h \in Handles |-> IF \E v \in vs : var[v] = h
                               THEN [lib[h] EXCEPT !.state = "active"] ELSE lib[h]]
  /\ Quiet
  /\ UNCHANGED <<phase, config, var, holds, known, local>>

MPI_Start(v) == Start({v})
MPI_Startall(vs) == Start(ToSet(vs))

\* The library completes a request when it likes.
Completes(h) ==
  /\ phase = "running"
  /\ lib[h].state \in {"active", "detached"}
  /\ lib' = [lib EXCEPT ![h].state = IF @ = "active" THEN "done" ELSE "free"]
  /\ UNCHANGED <<phase, config, var, holds, known, local, answer, due>>

-------------------------------------------------------------------------------
\* Completing requests: the calls act on an array of handles hs.

Info(h) == CASE h \in sends -> "send"
             [] h \in recvs -> "recv"
             [] h = Null    -> "null"
             [] OTHER       -> "ignored"

Among(hs, infos) == {i \in DOMAIN hs : Info(hs[i]) \in infos}
Mixed(hs) == Among(hs, {"ignored"}) \notin {{}, DOMAIN hs}

\* Calls that record_mf and replay_mf leave to MPI.
Unrecorded(hs) == Among(hs, {"send", "recv"}) = {}

In(hs, states) == {i \in DOMAIN hs : hs[i] \in Handles /\ lib[hs[i]].state \in states}
Ready(hs)  == In(hs, {"done", "cancelled"})
Active(hs) == In(hs, {"active", "done", "cancelled"})
\* An invalid handle: the request is gone.
Dangling(hs) == In(hs, {"free", "detached"}) # {} \/ \E i \in DOMAIN hs : hs[i] = Garbage

\* The sets of requests MPI may complete: one of them, some or all.
One(hs)  == IF Active(hs) = {} THEN {{}} ELSE {{i} : i \in Ready(hs)}
Some(hs) == IF Active(hs) = {} THEN {{}} ELSE SUBSET Ready(hs) \ {{}}
All(hs)  == IF Ready(hs) = Active(hs) THEN {Active(hs)} ELSE {}
\* A test may also find that nothing has completed.
Or_None(sets) == sets \cup {{}}

HandlesOf(hs, is) == {hs[i] : i \in is}

\* rempi_reqmg_deregister_request for what record_mf or replay_mf completed, and the
\* event of a recorded receive.  Mutant _Sends leaves the sends.
Deregister_Sends(hs) ==
  recvs' = recvs \ hs /\ events' = events \ hs /\ UNCHANGED sends
Deregister(hs) ==
  /\ sends' = sends \ hs
  /\ recvs' = recvs \ hs
  /\ events' = events \ hs

\* What a call leaves in its array, and of the requests.  Mutant _Null: the null
\* handle for persistent requests as well.
Left_Null(hs, is) == [i \in DOMAIN hs |-> IF i \in is THEN Null ELSE hs[i]]
Left(hs, is) ==
  [i \in DOMAIN hs |-> IF i \in is /\ ~lib[hs[i]].persistent THEN Null ELSE hs[i]]
Released(hs) ==
  lib' = [h \in Handles |->
            IF h \notin hs THEN lib[h]
            ELSE IF lib[h].persistent THEN [lib[h] EXCEPT !.state = "inactive"]
            ELSE Unused]

\* The application's variables after a call on the array vs that left hs in its
\* array.  A Fortran wrapper of a call on an array does not convert them back.
Kept(single) == language = "fortran" /\ ~single
WriteBack(vs, hs, single) ==
  IF Kept(single) THEN UNCHANGED var
  ELSE var' = [v \in Vars |-> IF v \in ToSet(vs) THEN hs[CHOOSE i \in DOMAIN vs : vs[i] = v]
                                                 ELSE var[v]]
Promised(vs, hs, is) ==
  holds' = [v \in Vars |->
              IF \E i \in is : vs[i] = v THEN hs[CHOOSE i \in is : vs[i] = v]
                                         ELSE holds[v]]

\* The positions is, the first one first.
InOrder(is) ==
  CHOOSE s \in [1..Cardinality(is) -> is] : \A j, k \in DOMAIN s : j < k => s[j] < s[k]

\* An index as the application gets it: the Fortran wrappers add one.
\* Mutant _Zero: they do not.
AsIndex_Zero(i) == i - 1
AsIndex(i) == (i - 1) + Base

\* What a call returns, by the way it returns it.
\* One status; "any" also an index, which replay_mf_input leaves alone when the
\* record says that nothing completed.
AnswerOne(hs, is, any) ==
  [indices  |-> IF ~any THEN <<>>
                ELSE IF is # {} THEN [j \in {1} |-> AsIndex(Min(is))]
                ELSE IF mode = "replay" /\ ~Unrecorded(hs) THEN <<Garbage>>
                ELSE <<Undefined>>,
   statuses |-> [j \in 1..Cardinality(is) |-> hs[Min(is)]]]
\* As many indices and statuses as requests.  A Fortran wrapper converts a status
\* for each element of the array; the ones past the count were never set.
AnswerSome(hs, is) ==
  [indices  |-> [j \in DOMAIN InOrder(is) |-> AsIndex(InOrder(is)[j])],
   statuses |-> [j \in 1..(IF language = "fortran" THEN Len(hs) ELSE Cardinality(is)) |->
                   IF j <= Cardinality(is) THEN hs[InOrder(is)[j]] ELSE Garbage]]
\* A status for each element, empty for those that are not active.
AnswerAll(hs, is) ==
  [indices  |-> <<>>,
   statuses |-> [i \in DOMAIN hs |-> IF i \in is THEN hs[i]
                                     ELSE IF is = Active(hs) THEN Null ELSE Garbage]]

Answer(how, hs, is) ==
  CASE how \in {"status", "index"} -> AnswerOne(hs, is, how = "index")
    [] how = "some"                -> AnswerSome(hs, is)
    [] how = "all"                 -> AnswerAll(hs, is)

HandlesIn(vs) == [i \in DOMAIN vs |-> var[vs[i]]]

\* Persistent requests of which none is started: the index MPI returns is Undefined.
NoIndex(hs, how) == how = "index" /\ In(hs, {"inactive"}) # {} /\ Active(hs) = {}

\* Legal uses of request variables that the application keeps away from unless it
\* takes the risk: a Fortran variable whose request was completed through an array;
\* requests ReMPI does not know together with others; a call that returns an index,
\* when there is none to return.
MayUse(vs, how) ==
  /\ "stale" \in Risks \/ \A i \in DOMAIN vs : var[vs[i]] = holds[vs[i]]
  /\ "mixed" \in Risks \/ ~Mixed(HandlesIn(vs))
  /\ "no index" \in Risks \/ ~NoIndex(HandlesIn(vs), how)

\* What the wrapper and the application see of a call on the variables vs in which
\* MPI completes the requests is of the array hs.
Returns(vs, hs, is, how) ==
  /\ Released(HandlesOf(hs, is))
  /\ WriteBack(vs, Left(hs, is), how = "status")
  /\ Promised(vs, Left(hs, is), is)
  /\ answer' = Answer(how, hs, is)
  /\ due' = [j \in DOMAIN InOrder(is) |-> <<InOrder(is)[j], hs[InOrder(is)[j]]>>]
  /\ UNCHANGED <<phase, config, local>>

Complete(vs, hs, is, how) ==
  /\ Deregister(HandlesOf(hs, is))
  /\ Returns(vs, hs, is, how)

\* Nothing is completed, but the call is taken to have returned one request, at the
\* position Undefined: what is read there may be any handle, said to be of any kind.
\* It is an access out of bounds, or the handle is in no table, or it is struck off.
CompleteUndefined(vs, hs) ==
  \/ Stop
  \/ /\ \E h \in Handles \cup {Garbage} :
          /\ events' = events \ {h}
          /\ \/ UNCHANGED <<sends, recvs>>
             \/ sends' = sends \ {h} /\ UNCHANGED recvs
             \/ recvs' = recvs \ {h} /\ UNCHANGED sends
     /\ Returns(vs, hs, {}, "index")

\* A call through the wrapper and record_mf or replay_mf.
Matching(vs, outcomes, how) ==
  /\ Calls
  /\ MayUse(vs, how)
  /\ IF Mixed(HandlesIn(vs)) \/ Dangling(HandlesIn(vs)) THEN Stop
     ELSE IF NoIndex(HandlesIn(vs), how) THEN CompleteUndefined(vs, HandlesIn(vs))
     ELSE \E is \in outcomes : Complete(vs, HandlesIn(vs), is, how)

OneOf(vs)  == One(HandlesIn(vs))
SomeOf(vs) == Some(HandlesIn(vs))
AllOf(vs)  == All(HandlesIn(vs))

MPI_Test(v)      == Matching(<<v>>, Or_None(OneOf(<<v>>)), "status")
MPI_Testany(vs)  == Matching(vs, Or_None(OneOf(vs)), "index")
MPI_Testsome(vs) == Matching(vs, Or_None(SomeOf(vs)), "some")
MPI_Testall(vs)  == Matching(vs, Or_None(AllOf(vs)), "all")
MPI_Wait(v)      == Matching(<<v>>, OneOf(<<v>>), "status")
MPI_Waitany(vs)  == Matching(vs, OneOf(vs), "index")
MPI_Waitsome(vs) == Matching(vs, SomeOf(vs), "some")
MPI_Waitall(vs)  == Matching(vs, AllOf(vs), "all")

\* The wait of a blocking call returns.
BlockingReturns ==
  /\ phase = "running"
  /\ local # Null
  /\ lib[local].state = "done"
  /\ Deregister({local})
  /\ Released({local})
  /\ local' = Null
  /\ Quiet
  /\ UNCHANGED <<phase, config, var, holds>>

-------------------------------------------------------------------------------
\* Cancelling and freeing.

\* record_cancel and replay_cancel on the handle h, which the variable v then holds:
\* only a receive that ReMPI knows survives them.
Cancel(v, h) ==
  IF Info(h) # "recv" THEN Stop
  ELSE /\ recvs' = recvs \ {h}
       /\ events' = events \ {h}
       /\ lib' = [lib EXCEPT ![h].state = "cancelled"]
       /\ var' = [var EXCEPT ![v] = h]
       /\ Quiet
       /\ UNCHANGED <<phase, config, holds, sends, local>>

MayCancel(v) ==
  /\ holds[v] # Null
  /\ lib[holds[v]].state \in {"active", "done"}
  /\ Info(holds[v]) # "recv" => "cancel send" \in Risks
  /\ language = "fortran" => "cancel" \in Risks

\* The handle that the Fortran wrapper gives MPI_Cancel was never set.
CancelledHandles(v) ==
  IF language = "c" THEN {var[v]} ELSE Handles \cup {Garbage}

MPI_Cancel(v) ==
  /\ Calls
  /\ MayCancel(v)
  /\ \E h \in CancelledHandles(v) : Cancel(v, h)

\* re_request_free: the tables forget the request, the events do not.
MPI_Request_free(v) ==
  /\ Calls
  /\ holds[v] # Null
  /\ Info(var[v]) = "recv" => "free receive" \in Risks
  /\ sends' = sends \ {var[v]}
  /\ recvs' = recvs \ {var[v]}
  /\ lib' = [lib EXCEPT ![var[v]] =
               IF @.state = "active" THEN [@ EXCEPT !.state = "detached"] ELSE Unused]
  /\ var' = [var EXCEPT ![v] = Null]
  /\ holds' = [holds EXCEPT ![v] = Null]
  /\ Quiet
  /\ UNCHANGED <<phase, config, events, local>>

-------------------------------------------------------------------------------

OnVariable(v) ==
  \/ MPI_Isend(v) \/ MPI_Ibsend(v) \/ MPI_Irsend(v) \/ MPI_Issend(v)
  \/ MPI_Irecv(v)
  \/ MPI_Recv_init(v) \/ MPI_Send_init(v)
  \/ MPI_Ssend_init(v) \/ MPI_Rsend_init(v) \/ MPI_Bsend_init(v)
  \/ MPI_Start(v)
  \/ MPI_Test(v) \/ MPI_Wait(v)
  \/ MPI_Cancel(v) \/ MPI_Request_free(v)

OnArray(vs) ==
  \/ MPI_Startall(vs)
  \/ MPI_Testany(vs) \/ MPI_Testsome(vs) \/ MPI_Testall(vs)
  \/ MPI_Waitany(vs) \/ MPI_Waitsome(vs) \/ MPI_Waitall(vs)

Next ==
  \/ MPI_Init \/ MPI_Init_thread \/ MPI_Finalize
  \/ MPI_Send \/ MPI_Bsend \/ MPI_Rsend \/ MPI_Ssend \/ MPI_Recv
  \/ BlockingReturns
  \/ \E v \in Vars : OnVariable(v)
  \/ \E vs \in Arrays : OnArray(vs)
  \/ \E h \in Handles : Completes(h)

Spec == Init /\ [][Next]_vars

-------------------------------------------------------------------------------
\* The requests the library has and ReMPI is to know of.
Live(kind) ==
  {h \in Handles : /\ lib[h].kind = kind
                   /\ ~lib[h].persistent
                   /\ lib[h].state \in {"active", "done"}}

\* Whatever was called in whatever order, ReMPI's tables list exactly the requests
\* of the supported functions that are under way, each in the right table, and there
\* is an event to complete for each receive that is being recorded.
TablesTrue ==
  /\ sends = Live("send")
  /\ recvs = Live("recv")
  /\ events = IF mode = "record" THEN recvs ELSE {}

\* Every request under way can still be named by the application, by one variable
\* only, or belongs to the blocking call; and in C a variable is what MPI says.
HandlesTrue ==
  /\ \A h \in Handles : lib[h].state \notin {"free", "detached"} =>
       Cardinality({v \in Vars : var[v] = h /\ holds[v] = h})
         + (IF local = h THEN 1 ELSE 0) = 1
  /\ language = "c" => var = holds

\* The indices and statuses a call returns are those of the requests it completed,
\* counted as the language of the application counts.
ResultsRight ==
  \A j \in DOMAIN due :
    /\ answer.indices # <<>> => answer.indices[j] = due[j][1] - 1 + Base
    /\ \/ answer.statuses[j] = due[j][2]
       \/ answer.indices = <<>> /\ answer.statuses[due[j][1]] = due[j][2]

\* Nothing that the application may do makes ReMPI give up.
NothingFails == phase # "stopped"

\* A call that completes no request says so, in a replay as in the recorded run.
NoneIsUndefined == Garbage \notin ToSet(answer.indices)

\* Requests of functions that are not supported are left to MPI.
LeftToMpi == phase # "exited"

\* What ReMPI keeps of the requests is true, and nothing it is asked stops it.
KeptTrue == TypeOK /\ TablesTrue /\ NothingFails
===============================================================================
