----------------------------- MODULE MCThinkingSweep -----------------------------
(* Two generations, so that the server may change between them, and one restart *)
(* by the operator.                                                             *)
EXTENDS ThinkingSweep

================================================================================
