------------------------------ MODULE ThinkingSweep ------------------------------
(* One thinking mode of the sweep: bench/scripts/thinking_sweep.sh probes the   *)
(* server and, if it lets it pass, runs run_repeat.sh into repeat-$MODE.  The   *)
(* measurement is RepeatRun, its generations now answered by a server that is   *)
(* external: llama-server, whose mode is fixed when it starts, which answers    *)
(* 503 while it loads, and which an operator may restart in either mode at any  *)
(* time.                                                                        *)
EXTENDS RepeatRun

CONSTANT
    MaxRestarts     \* bound: how often the operator restarts the server

ASSUME RestartsAssumption == MaxRestarts \in Nat

VARIABLES
    sweep,      \* where thinking_sweep.sh is
    want,       \* MODE: the mode the operator asked for
    chars,      \* CHARS: what the probe's one-liner printed
    server,     \* the state of llama-server and its thinking mode
    restarts,   \* how often it has been restarted
    probed,     \* the number of restarts when the probe was answered (history)
    answeredBy  \* the server modes that have answered for each label (history)

measurement == vars
sweepVars == <<sweep, want, chars, server, restarts, probed, answeredBy, measurement>>

Modes == {"think", "instruct"}

SweepInit ==
    /\ sweep = "probe"
    /\ want \in Modes
    /\ chars = "unset"
    /\ server \in [state : {"down", "loading", "ready"}, mode : Modes]
    /\ restarts = 0
    /\ probed = 0
    /\ answeredBy = [l \in Labels |-> {}]
    /\ Init

(* What the one-liner prints.  -1: the body is not JSON, as when curl got none. *)
(* Nothing ("empty"): the body is JSON but has no choices, the 503 of a server  *)
(* that is loading, and the lookup, outside the try, raises.  A loaded server   *)
(* answers, and thinks about the riddle exactly when it is in thinking mode:    *)
(* it is started with --reasoning-format deepseek, as env.example.sh insists.   *)
Printed ==
    CASE server.state = "down"    -> "minus1"
      [] server.state = "loading" -> "empty"
      [] server.mode = "think"    -> "positive"
      [] OTHER                    -> "zero"

Probe ==
    /\ sweep = "probe"
    /\ sweep' = "guards"
    /\ chars' = Printed
    /\ probed' = restarts
    /\ UNCHANGED <<want, server, restarts, answeredBy, measurement>>

(* The three guards, as bash evaluates them: [ "" -lt 0 ] is an error of the    *)
(* test command, and as a condition that is false.                              *)
NoAnswer == chars = "minus1"
(* Plausible bug: only the thinking direction is guarded.                       *)
WrongModeThinkOnly == want = "think" /\ chars = "zero"

WrongMode ==
    \/ want = "think" /\ chars = "zero"
    \/ want = "instruct" /\ chars = "positive"

Refuse ==
    /\ sweep = "guards"
    /\ NoAnswer \/ WrongMode
    /\ sweep' = "refused"
    /\ UNCHANGED <<want, chars, server, restarts, probed, answeredBy, measurement>>

Start ==
    /\ sweep = "guards"
    /\ ~ (NoAnswer \/ WrongMode)
    /\ sweep' = "measure"
    /\ \/ /\ step = "generate"
          /\ UNCHANGED <<answeredBy, measurement>>
       \/ /\ Rerun
          /\ answeredBy' = [l \in Labels |-> {}]
    /\ UNCHANGED <<want, chars, server, restarts, probed>>

(* A generation the server answers.                                             *)
ServerAnswers ==
    /\ sweep = "measure"
    /\ server.state = "ready"
    /\ AnswerArrives
    /\ answeredBy' = [answeredBy EXCEPT ![current] = @ \cup {server.mode}]
    /\ UNCHANGED <<sweep, want, chars, server, restarts, probed>>

(* Every other step of run_repeat.sh of its own: a generation that fails, the   *)
(* log, the tally.                                                              *)
MeasurementGoesOn ==
    /\ sweep = "measure"
    /\ \/ GenerationNotStarted
       \/ RequestFails
       \/ OpenLog
       \/ NoLogToOpen
       \/ LogNotOpened
       \/ Tally
    /\ UNCHANGED <<sweep, want, chars, server, restarts, probed, answeredBy>>

(* The build and the suite of a generated project end.                          *)
ProjectIsVerified ==
    /\ sweep = "measure"
    /\ VerifyProject
    /\ UNCHANGED <<sweep, want, chars, server, restarts, probed, answeredBy>>

(* The cost table, and the advice to restart in the other mode; or ^C.          *)
Finish ==
    /\ sweep = "measure"
    /\ \/ step = "done" /\ UNCHANGED measurement
       \/ Kill
    /\ sweep' = "finished"
    /\ UNCHANGED <<want, chars, server, restarts, probed, answeredBy>>

(* The operator runs the sweep of this mode again, over the same repeat-$MODE,  *)
(* after it was refused or to take it anew.                                     *)
SweepAgain ==
    /\ sweep \in {"refused", "finished"}
    /\ sweep' = "probe"
    /\ UNCHANGED <<want, chars, server, restarts, probed, answeredBy, measurement>>

(* The server, and the operator who restarts it.                                *)
ServerReady ==
    /\ server.state = "loading"
    /\ server' = [server EXCEPT !.state = "ready"]
    /\ UNCHANGED <<sweep, want, chars, restarts, probed, answeredBy, measurement>>

ServerDies ==
    /\ server.state # "down"
    /\ server' = [server EXCEPT !.state = "down"]
    /\ UNCHANGED <<sweep, want, chars, restarts, probed, answeredBy, measurement>>

ServerRestarts ==
    /\ restarts < MaxRestarts
    /\ restarts' = restarts + 1
    /\ \E m \in Modes : server' = [state |-> "loading", mode |-> m]
    /\ UNCHANGED <<sweep, want, chars, probed, answeredBy, measurement>>

Script ==
    \/ Probe
    \/ Refuse
    \/ Start
    \/ ServerAnswers
    \/ MeasurementGoesOn
    \/ ProjectIsVerified
    \/ Finish
    \/ SweepAgain

SweepNext == Script \/ ServerReady \/ ServerDies \/ ServerRestarts

(* A generation ends, answered or by its socket timeouts, and the rest is the   *)
(* shell's own work.  Nothing bounds a build or a suite in verify.sh, nor the   *)
(* probe's curl, and nothing is assumed of the server or the operator.          *)
SweepSpec ==
    /\ SweepInit
    /\ [][SweepNext]_sweepVars
    /\ WF_sweepVars(ServerAnswers \/ MeasurementGoesOn)

--------------------------------------------------------------------------------
(* Properties.                                                                  *)

SweepTypeOK ==
    /\ sweep \in {"probe", "guards", "measure", "refused", "finished"}
    /\ want \in Modes
    /\ chars \in {"unset", "minus1", "empty", "zero", "positive"}
    /\ server \in [state : {"down", "loading", "ready"}, mode : Modes]
    /\ restarts \in 0 .. MaxRestarts
    /\ probed \in 0 .. MaxRestarts
    /\ answeredBy \in [Labels -> SUBSET Modes]
    /\ TypeOK

(* Once it measures, the script never waits for anything but the program it     *)
(* verifies: whatever fails, it comes to a build or to the tally, unless it is  *)
(* killed.                                                                      *)
WaitsOnlyForBuilds == sweep = "measure" ~> step \in {"build", "done", "dead"}

(* The guard does its work when it measures: once the probe has printed a       *)
(* number, and as long as the server it came from is the one that runs, every   *)
(* answer this sweep collects is of the mode asked for, whatever was refused,   *)
(* restarted or measured before.                                                *)
MeasuredSweepIsOfItsMode ==
    /\ sweep \in {"measure", "finished"}
    /\ chars \in {"zero", "positive"}
    /\ probed = restarts
    => \A l \in Labels : answeredBy[l] \subseteq {want}

(* "It probes the live server first and refuses to run against the wrong one":  *)
(* with a server nobody restarts, every answer is of the mode asked for.        *)
SweepIsOfItsMode ==
    restarts = 0 => \A l \in Labels : answeredBy[l] \subseteq {want}

================================================================================
