---------------------------- MODULE EpisodeContract ----------------------------
(* What one agent episode promises the program that runs it                    *)
(* (bench/scripts/agent_loop.py, run_episode): the model works on a project    *)
(* that starts as the pristine failing task, the session is closed, and only   *)
(* then is the project judged, by running its suite, so that an episode is     *)
(* reported as solved only if the project it leaves behind passes.  How the    *)
(* session is led - messages, tools, errors, turns - is left to AgentEpisode.  *)

CONSTANTS
    Projects,   \* the contents a project directory can have
    Passing,    \* the contents whose own test suite exits 0
    Pristine    \* the task as it is copied for every episode

VARIABLES
    project,    \* the project directory's contents
    phase,      \* "open", "closed", "judged" or "crashed"
    verdict     \* the reported tests_pass, FALSE until the project is judged

vars == <<project, phase, verdict>>

Init ==
    /\ project = Pristine
    /\ phase = "open"
    /\ verdict = FALSE

(* One turn: the project may change, and the session may be closed.            *)
Work ==
    /\ phase = "open"
    /\ phase' \in {"open", "closed"}
    /\ project' \in Projects
    /\ UNCHANGED verdict

(* A suite that passes may still be reported as failing (it can time out); one *)
(* that fails is never reported as passing.                                    *)
Judge ==
    /\ phase = "closed"
    /\ phase' = "judged"
    /\ verdict' \in BOOLEAN
    /\ verdict' = TRUE => project \in Passing
    /\ UNCHANGED project

(* An exception nobody catches: the episode ends without a verdict.            *)
Crash ==
    /\ phase \in {"open", "closed"}
    /\ phase' = "crashed"
    /\ project' \in Projects
    /\ UNCHANGED verdict

Next == Work \/ Judge \/ Crash

Spec == Init /\ [][Next]_vars

================================================================================
