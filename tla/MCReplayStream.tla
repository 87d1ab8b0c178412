----------------------------- MODULE MCReplayStream -----------------------------
(***************************************************************************)
(* A small record file for ReplayStream.                                   *)
(***************************************************************************)
EXTENDS ReplayStream

CONSTANTS x, y

MCEvents == {x, y}
Times(e, k) == [event |-> e, count |-> k]

\* Chunks of different lengths; events merged within a chunk, none across chunks.
MCFile == << <<Times(x, 3), Times(y, 1)>>, <<Times(y, 2)>>,
             <<Times(x, 1), Times(y, 1), Times(x, 2)>> >>
===============================================================================
