------------------------------- MODULE MCWrappers -------------------------------
(***************************************************************************)
(* Two request variables and three handles: a blocking call can be under   *)
(* way beside them, and every handle is handed out again.                  *)
(***************************************************************************)
EXTENDS Wrappers

CONSTANTS h1, h2, h3, r1, r2

MCHandles == {h1, h2, h3}
MCVars == {r1, r2}
MCArrays == {<<r1, r2>>, <<r2>>}
===============================================================================
