----------------------------- MODULE MCRecordStream ----------------------------
(***************************************************************************)
(* Small instances of RecordStream.                                        *)
(***************************************************************************)
EXTENDS RecordStream

CONSTANTS h1, h2, r1, r2

MCHandles == {h1, h2}
MCSources == {r1, r2}
OneSource == {r1}
===============================================================================
