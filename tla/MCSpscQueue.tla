------------------------------- MODULE MCSpscQueue ------------------------------
(***************************************************************************)
(* A small instance of SpscQueue: nodes for all the items, more than the   *)
(* queue may need.                                                         *)
(***************************************************************************)
EXTENDS SpscQueue

CONSTANTS a, b, c, d, e, f, g

MCNodes == {a, b, c, d, e, f, g}
===============================================================================
