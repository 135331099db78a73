------------------------------ MODULE MCVariantRun ------------------------------
(* Two variants of two repetitions: one task has a prompt for both, one for the *)
(* second only, and one has none.                                               *)
EXTENDS VariantRun

CONSTANTS scala, rust, go

MCTasks == {scala, rust, go}
MCPrompts == [t \in MCTasks |-> CASE t = scala -> {1, 2} [] t = rust -> {2} [] OTHER -> {}]

================================================================================
