-------------------------------- MODULE RepeatRun --------------------------------
(* The pass@1 measurement: bench/scripts/run_repeat.sh, the generation it calls *)
(* (main of run_coding_task.py), the verification (bench/tasks/*/verify.sh with *)
(* verify_common.sh) and the tally, run again and again over the same $OUT.     *)
(*                                                                              *)
(* The script has no `set -e' and looks at no exit status: whatever one command *)
(* does, the next one runs.  Contents are abstracted to provenance: project[l]  *)
(* is the set of invocations that have a file of theirs in $OUT/<l>/project, {} *)
(* while that directory does not exist.                                         *)
EXTENDS Integers

CONSTANTS
    Runs,           \* the labels <task>-run<i>, numbered in the order of the two loops
    MaxInvocations  \* bound: how often the script is started

ASSUME RunsAssumption == Runs \in Nat \ {0}
ASSUME InvocationsAssumption == MaxInvocations \in Nat \ {0}

VARIABLES
    invocation, \* which run of the script this is
    current,    \* the label the loops are at
    step,       \* where the script is
    present,    \* the labels whose directory $OUT/<l> exists
    project,    \* whose files each project directory holds
    log,        \* each verify.log: its verdict, who wrote it, over which files
    passed,     \* the labels counted by the tally
    unopened    \* the labels whose verify.log this invocation could not open though
                \* their directory was there (history)

files == <<present, project, log>>
vars == <<invocation, current, step, files, passed, unopened>>

Labels == 1 .. Runs
Invocations == 1 .. MaxInvocations

NoLog == [verdict |-> "none", of |-> 0, on |-> {}]

Init ==
    /\ invocation = 1
    /\ current = 1
    /\ step = "generate"
    /\ present = {}
    /\ project = [l \in Labels |-> {}]
    /\ log = [l \in Labels |-> NoLog]
    /\ passed = {}
    /\ unopened = {}

(* The end of the generation command, whatever its exit status.                 *)
Generated ==
    /\ step = "generate"
    /\ step' = "verify"
    /\ UNCHANGED <<invocation, current, log, passed, unopened>>

(* It dies before it creates its directory: no python3, no prompt file.         *)
GenerationNotStarted ==
    /\ Generated
    /\ UNCHANGED <<present, project>>

(* The directory is there, then the request or the stream raises: refused, 503, *)
(* timeout, connection lost.  Nothing an earlier invocation left is removed.    *)
RequestFails ==
    /\ Generated
    /\ present' = present \cup {current}
    /\ UNCHANGED project

(* The files of an answer over those that are there: none of it may be accepted *)
(* as a file, it may replace all of them, or leave some of the old ones, as     *)
(* when writing raises half way (a path that is a directory, a full disk).      *)
Overlay(old) == {old, old \cup {invocation}, {invocation}}

AnswerArrives ==
    /\ Generated
    /\ present' = present \cup {current}
    /\ project' \in {[project EXCEPT ![current] = p] : p \in Overlay(project[current])}

(* The redirection of verify.sh: it truncates the log, or fails, because there  *)
(* is no directory or the file cannot be opened in it, and then verify.sh is    *)
(* not run at all and the loops go on.                                          *)
OpenLog ==
    /\ step = "verify"
    /\ current \in present
    /\ step' = "build"
    /\ log' = [log EXCEPT ![current] = [NoLog EXCEPT !.of = invocation]]
    /\ UNCHANGED <<invocation, current, present, project, passed, unopened>>

(* Plausible bug: the loops run over one label too many.                       *)
AdvanceOneMore ==
    IF current > Runs
      THEN /\ step' = "tally"
           /\ UNCHANGED current
      ELSE /\ step' = "generate"
           /\ current' = current + 1

(* The next round of the loops, or the tally after the last.                    *)
Advance ==
    IF current = Runs
      THEN /\ step' = "tally"
           /\ UNCHANGED current
      ELSE /\ step' = "generate"
           /\ current' = current + 1

(* Plausible bug: verification is skipped although there is a directory, as     *)
(* after a failed generation, and the old log stays to be counted.              *)
VerifySkipped ==
    /\ step = "verify"
    /\ Advance
    /\ UNCHANGED <<invocation, files, passed, unopened>>

(* Plausible bug: without a directory the generation is tried again, for ever.  *)
GenerateAgain ==
    /\ step = "verify"
    /\ current \notin present
    /\ step' = "generate"
    /\ UNCHANGED <<invocation, current, files, passed, unopened>>

NoLogToOpen ==
    /\ step = "verify"
    /\ current \notin present
    /\ Advance
    /\ UNCHANGED <<invocation, files, passed, unopened>>

(* The directory is there and its log is not to be written: another user's, no  *)
(* inode left, an I/O error.  What an earlier invocation wrote into it stays.   *)
LogNotOpened ==
    /\ step = "verify"
    /\ current \in present
    /\ Advance
    /\ unopened' = unopened \cup {current}
    /\ UNCHANGED <<invocation, files, passed>>

(* verify.sh: `missing' without a project directory, else the build and, only   *)
(* if it succeeds, the tests.                                                   *)
Verdicts(p) == IF p = {} THEN {"missing"} ELSE {"build_fails", "tests_fail", "pass"}

(* Plausible bug: a fixed project path, whatever the label.                     *)
VerifyFirstProject ==
    /\ step = "build"
    /\ \E v \in Verdicts(project[1]) :
        log' = [log EXCEPT ![current] =
                    [verdict |-> v, of |-> invocation, on |-> project[1]]]
    /\ Advance
    /\ UNCHANGED <<invocation, present, project, passed, unopened>>

VerifyProject ==
    /\ step = "build"
    /\ \E v \in Verdicts(project[current]) :
        log' = [log EXCEPT ![current] =
                    [verdict |-> v, of |-> invocation, on |-> project[current]]]
    /\ Advance
    /\ UNCHANGED <<invocation, present, project, passed, unopened>>

(* pass@1: a grep over the logs of this invocation's labels.                    *)
Tally ==
    /\ step = "tally"
    /\ step' = "done"
    /\ passed' = {l \in Labels : log[l].verdict = "pass"}
    /\ UNCHANGED <<invocation, current, files, unopened>>

(* The script is killed between two of its effects; the files stay.             *)
Kill ==
    /\ step \notin {"done", "dead"}
    /\ step' = "dead"
    /\ UNCHANGED <<invocation, current, files, passed, unopened>>

Rerun ==
    /\ step \in {"done", "dead"}
    /\ invocation < MaxInvocations
    /\ invocation' = invocation + 1
    /\ current' = 1
    /\ step' = "generate"
    /\ passed' = {}
    /\ unopened' = {}
    /\ UNCHANGED files

Generation ==
    \/ GenerationNotStarted
    \/ RequestFails
    \/ AnswerArrives

Verification == OpenLog \/ NoLogToOpen \/ LogNotOpened \/ VerifyProject

Next ==
    \/ Generation
    \/ Verification
    \/ Tally
    \/ Kill
    \/ Rerun

Spec == Init /\ [][Next]_vars

--------------------------------------------------------------------------------
(* Properties.                                                                  *)

TypeOK ==
    /\ invocation \in Invocations
    /\ current \in Labels
    /\ step \in {"generate", "verify", "build", "tally", "done", "dead"}
    /\ present \subseteq Labels
    /\ project \in [Labels -> SUBSET Invocations]
    /\ log \in [Labels -> [verdict : {"none", "missing", "build_fails", "tests_fail", "pass"},
                           of : 0 .. MaxInvocations,
                           on : SUBSET Invocations]]
    /\ passed \subseteq Labels
    /\ unopened \subseteq Labels

(* What the tally counts was verified by this invocation, over the very files   *)
(* that lie in the label's directory when the count is printed: no pass of an   *)
(* earlier invocation is counted again where this one had no directory to open  *)
(* a log in, and no verdict outlives a later generation.  There is one way for  *)
(* an old pass to be counted, a log that could not be opened over an existing   *)
(* directory; whatever is counted then is an earlier invocation's.              *)
TallyIsCurrent ==
    step = "done" =>
        \A l \in passed :
            /\ l \in present
            /\ IF l \in unopened
                 THEN log[l].of \in 1 .. invocation - 1
                 ELSE /\ log[l].of = invocation
                      /\ log[l].on = project[l]
                      /\ project[l] # {}

(* Every log this invocation has closed speaks of the files on disk; the only   *)
(* logs that may be older are those of labels it has not come to yet and those  *)
(* it could not open, and those are older.                                      *)
LogsFollowFiles ==
    \A l \in Labels :
        LET verified == l < current \/ (l = current /\ step \in {"tally", "done"}) IN
        verified /\ step # "dead" =>
            IF l \in unopened
              THEN log[l].of < invocation
              ELSE /\ l \in present <=> log[l].of = invocation
                   /\ log[l].on = project[l]

(* pass@1 is "does generated code build and test unmodified": a pass that is    *)
(* counted is of files generated by the invocation that reports it.             *)
PassIsOwnGeneration ==
    step = "done" => \A l \in passed : log[l].on = {invocation}

================================================================================
