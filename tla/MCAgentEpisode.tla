----------------------------- MODULE MCAgentEpisode -----------------------------
(* One episode of four turns: enough for three faults and the turn after them, *)
(* for two nudges, and for a null-argument reply to repeat a repeated one.     *)
EXTENDS AgentEpisode

CONSTANTS broken, edited, fixed

MCProjects == {broken, edited, fixed}
MCPassing == {fixed}
MCReadTools == {"run_tests"}

================================================================================
