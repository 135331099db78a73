----------------------------- MODULE MCToolFidelity -----------------------------
(* One case, whose tool has an integer argument.                                  *)
EXTENDS ToolFidelity

MCCases == <<"run_command">>
MCEmitted == {"run_command"}

================================================================================
