-------------------------------- MODULE MCFullRun --------------------------------
(* Throughput: one worker, then two; with two requests each, the second level has *)
(* requests that have ended, that run and that wait when the first one raises.    *)
(* Fidelity: a case with a tool that has an integer argument and one without a    *)
(* tool, twice; every object over the tool's parameters and one it does not have, *)
(* the wrong tool and a tool there is not.                                        *)
(* Agent loop: three episodes, numbered in base 2 so that names extend one        *)
(* another as ep1 and ep10 do with thirteen episodes in base 10: 1 is a prefix of *)
(* 2 (10) and 3 (11).  Two invocations over the same directories.                 *)
EXTENDS FullRun

MCLevels == <<1, 2>>
MCCases == <<"run_command", "None">>
MCEmitted == {"run_command", "list_dir"}
MCPowers == {1, 2, 4}

================================================================================
