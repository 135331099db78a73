--------------------------------- MODULE FullRun ---------------------------------
(* The full sweep against a running server: bench/scripts/run_all.sh.  Its stages *)
(* are programs, started one after another whatever became of the one before      *)
(* (there is no `set -e'): the throughput benchmark, the tool-call benchmark, the *)
(* coding tasks and the agent loops.  The coding tasks are RepeatRun, which has a *)
(* state space and a run of its own (ThinkingSweep); here they are one step.      *)
(*                                                                                *)
(* No stage reads or writes another one's files.  So what a stage leaves behind   *)
(* is forgotten when the next begins: its variables are then as its next start    *)
(* finds them, with the report on disk an old one.  That the agent loops are      *)
(* started again over their own files is AgentRun's Restart.                      *)
EXTENDS Throughput, ToolFidelity, AgentRun

VARIABLE
    stage       \* the program that runs: "throughput", "fidelity", "coding" or "agent"

fullVars == <<stage, throughputVars, fidelityVars, agentRunVars>>

FullInit ==
    /\ stage = "throughput"
    /\ ThroughputInit
    /\ FidelityInit
    /\ AgentRunInit

(* Only the program of the stage takes steps.                                     *)
InThroughput == stage = "throughput" /\ UNCHANGED <<stage, fidelityVars, agentRunVars>>
InFidelity == stage = "fidelity" /\ UNCHANGED <<stage, throughputVars, agentRunVars>>
InAgentLoop == stage = "agent" /\ UNCHANGED <<stage, throughputVars, fidelityVars>>

(* The exit status of the benchmarks is not looked at.                            *)
FidelityStarts ==
    /\ stage = "throughput"
    /\ phase \in {"done", "dead"}
    /\ stage' = "fidelity"
    /\ level' = 1 /\ phase' = "submit" /\ next' = 1 /\ failed' = FALSE
    /\ future' = [r \in Requests |-> "new"]
    /\ rows' = <<>> /\ throughputOut' = "old"
    /\ UNCHANGED <<fidelityVars, agentRunVars>>

CodingStarts ==
    /\ stage = "fidelity"
    /\ pc \in {"done", "dead"}
    /\ stage' = "coding"
    /\ rep' = 1 /\ case' = 1 /\ pc' = "ask" /\ reply' = <<>>
    /\ records' = <<>> /\ fails' = [r \in Reasons |-> 0] /\ fidelityOut' = "old"
    /\ UNCHANGED <<throughputVars, agentRunVars>>

(* run_repeat.sh ends; a build that hangs (VerifyProject) would keep it here.     *)
AgentLoopStarts ==
    /\ stage = "coding"
    /\ stage' = "agent"
    /\ UNCHANGED <<throughputVars, fidelityVars, agentRunVars>>

FullNext ==
    \/ InThroughput /\ ThroughputNext
    \/ FidelityStarts
    \/ InFidelity /\ FidelityNext
    \/ CodingStarts
    \/ AgentLoopStarts
    \/ InAgentLoop /\ AgentRunNext

(* The fairness of the programs, of the tool-call benchmark that a request which  *)
(* is not answered raises by its timeout; and the shell goes on.  That the coding *)
(* tasks end, which have no time limit, is assumed.                               *)
FullSpec ==
    /\ FullInit
    /\ [][FullNext]_fullVars
    /\ WF_fullVars(InThroughput /\ Main)
    /\ \A r \in Requests : WF_fullVars(InThroughput /\ r[1] = level /\ Worker(r[2]))
    /\ WF_fullVars(InFidelity /\ (Die \/ OpenFidelityReport \/ DumpFidelityReport))
    /\ WF_fullVars(FidelityStarts \/ CodingStarts \/ AgentLoopStarts)
    /\ WF_fullVars(InAgentLoop /\ (ClearWork \/ CopyTask \/ CopyRefused
                                     \/ OpenReport \/ DumpReport))
    /\ WF_fullVars(InAgentLoop /\ JudgeEpisode)

================================================================================
