------------------------------ MODULE MCRepeatRun ------------------------------
(* Two labels and two invocations over the same $OUT: one label before and one *)
(* after the kill, and an earlier invocation to leave files behind.            *)
EXTENDS RepeatRun

================================================================================
