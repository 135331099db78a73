----------------------------- MODULE MCCodingAnswer -----------------------------
(* Six tokens: a path can be answered twice in full, a block of thinking can be  *)
(* opened twice, closed and opened again, and a file can lie before, in or after *)
(* it.                                                                           *)
EXTENDS CodingAnswer

CONSTANTS p, q

MCPaths == {p, q}

================================================================================
