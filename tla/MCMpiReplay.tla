------------------------------ MODULE MCMpiReplay ------------------------------
(***************************************************************************)
(* Programs for the runs of MpiReplay.                                     *)
(***************************************************************************)
EXTENDS MpiReplay

CONSTANTS p0, p1, p2, A, B

MCRanks == {p0, p1, p2}
MCTags == {A, B}

Isends(to, tag)    == [op |-> "isend", peer |-> to, tag |-> tag]
Irecvs(from, tag)  == [op |-> "irecv", peer |-> from, tag |-> tag]
Probes(from, tag)  == [op |-> "probe", peer |-> from, tag |-> tag]
Iprobes(from, tag) == [op |-> "iprobe", peer |-> from, tag |-> tag]
CancelsOp(k)       == [op |-> "cancel", k |-> k]
Waits(kind, ks)    == [op |-> "match", kind |-> kind, waits |-> TRUE, among |-> ks]
Tests(kind, ks)    == [op |-> "match", kind |-> kind, waits |-> FALSE, among |-> ks]
Other              == [op |-> "unsupported"]

ByRank(x, y, z) == [p \in MCRanks |-> CASE p = p0 -> x [] p = p1 -> y [] p = p2 -> z]

\* A server answers whoever comes first; the clients poll.
ServerProgram == ByRank(
  << Irecvs(AnySource, A), Irecvs(AnySource, A),
     Waits("one", <<1, 2>>), Isends(LastSource, B),
     Waits("all", <<2, 1>>), Isends(LastSource, B), Waits("all", <<4, 6>>) >>,
  << Isends(p0, A), Irecvs(p0, B), Tests("one", <<2>>), Waits("some", <<1, 2>>),
     Waits("all", <<1, 2>>) >>,
  << Isends(p0, A), Irecvs(AnySource, AnyTag), Tests("all", <<1, 2>>),
     Waits("all", <<1, 2>>) >>)

\* Receives with and without a tag compete for the messages of two processes.
TagsProgram == ByRank(
  << Irecvs(AnySource, AnyTag), Irecvs(AnySource, A), Irecvs(AnySource, AnyTag),
     Tests("some", <<1, 2, 3>>), Tests("one", <<3, 2, 1>>),
     Waits("some", <<1, 2, 3>>), Waits("all", <<1, 2, 3>>) >>,
  << Isends(p0, B), Isends(p0, A), Waits("all", <<1, 2>>) >>,
  << Isends(p0, A), Waits("one", <<1>>) >>)

\* Probes choose the source of the next receive; a receive that nothing matches
\* is cancelled; a request of an unsupported call is waited for by itself.
ProbesProgram == ByRank(
  << Irecvs(AnySource, B), Iprobes(AnySource, AnyTag), Probes(AnySource, A),
     Irecvs(LastSource, A), Waits("one", <<4>>), CancelsOp(1), Waits("one", <<1>>),
     Iprobes(AnySource, A), Irecvs(AnySource, A), Waits("one", <<9>>) >>,
  << Isends(p0, A), Waits("one", <<1>>) >>,
  << Isends(p0, A), Other, Waits("one", <<2>>), Waits("one", <<1>>) >>)

\* A receive is cancelled that a message may still match.
CancelProgram == ByRank(
  << Irecvs(AnySource, A), CancelsOp(1), Waits("one", <<1>>),
     Irecvs(AnySource, A), Waits("one", <<4>>) >>,
  << Isends(p0, A), Waits("one", <<1>>) >>,
  << Isends(p0, A), Waits("one", <<1>>) >>)

\* A call that waits for a receive and for a request of an unsupported call.
MixedProgram == ByRank(
  << Irecvs(AnySource, A), Other, Waits("all", <<1, 2>>) >>,
  << Isends(p0, A), Waits("one", <<1>>) >>,
  << >>)

\* A send is cancelled.
SendCancelProgram == ByRank(
  << Irecvs(AnySource, A), Waits("one", <<1>>) >>,
  << Isends(p0, A), CancelsOp(1), Waits("one", <<1>>) >>,
  << >>)

MCPrograms         == {ServerProgram, TagsProgram, ProbesProgram}
CancelPrograms     == {CancelProgram}
SendCancelPrograms == {SendCancelProgram}
MixedPrograms      == {MixedProgram}

\* What the theorems about all programs suppose holds of the programs of the run.
ASSUME ProgramsReplayable ==
  \A program \in MCPrograms : Replayable(program) /\ Accepted(program)
===============================================================================
