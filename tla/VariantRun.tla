------------------------------- MODULE VariantRun -------------------------------
(* The prompt variants of one task: bench/scripts/run_prompt_variants.sh.  The  *)
(* body of its loops is run_repeat.sh's, so RepeatRun's steps are used for it;  *)
(* it differs in that a variant without a prompt file is skipped with all its   *)
(* repetitions, and in the tally, which counts builds and tests over all        *)
(* variants, skipped or not.  Labels are <variant>-run<i> in one $OUT: they are *)
(* named for the variant only, and TASK may be another one in every invocation. *)
EXTENDS RepeatRun, Sequences

CONSTANTS
    Tasks,      \* the values TASK is given
    N,          \* N, the repetitions of a variant; Runs is N for each variant
    Prompts     \* for each task, the variants that have a prompt file

Variants == 1 .. Runs \div N

ASSUME RepetitionsAssumption == N \in Nat \ {0} /\ Runs % N = 0
ASSUME PromptsAssumption == Prompts \in [Tasks -> SUBSET Variants]

VARIABLES
    tasks,      \* the TASK of every invocation so far, this one's last
    built       \* the labels whose build is counted

variantVars == <<vars, tasks, built>>

Variant(l) == (l - 1) \div N + 1
HasPrompt(l) == Variant(l) \in Prompts[tasks[invocation]]

VariantInit ==
    /\ Init
    /\ \E t \in Tasks : tasks = <<t>>
    /\ built = {}

(* Plausible bug: break for continue, the variants behind it are left out too.  *)
PromptMissingBreaks ==
    /\ step = "generate"
    /\ ~ HasPrompt(current)
    /\ current' = Runs
    /\ step' = "tally"
    /\ UNCHANGED <<invocation, files, passed, unopened, tasks, built>>

(* [ -f "$P" ] || continue: on to the first label of the next variant.          *)
PromptMissing ==
    /\ step = "generate"
    /\ ~ HasPrompt(current)
    /\ IF Variant(current) * N = Runs
         THEN current' = Runs /\ step' = "tally"
         ELSE current' = Variant(current) * N + 1 /\ UNCHANGED step
    /\ UNCHANGED <<invocation, files, passed, unopened, tasks, built>>

GenerateVariant ==
    /\ HasPrompt(current)
    /\ Generation
    /\ UNCHANGED <<tasks, built>>

VerifyVariant == Verification /\ UNCHANGED <<tasks, built>>

(* The table: build=pass and test=pass are looked for in each log there is.     *)
TallyVariants ==
    /\ Tally
    /\ built' = {l \in Labels : log[l].verdict \in {"tests_fail", "pass"}}
    /\ UNCHANGED tasks

KillVariants == Kill /\ UNCHANGED <<tasks, built>>

(* The script is started again, for the same task or another one.               *)
RunAgain ==
    /\ Rerun
    /\ \E t \in Tasks : tasks' = Append(tasks, t)
    /\ built' = {}

VariantNext ==
    \/ PromptMissing
    \/ GenerateVariant
    \/ VerifyVariant
    \/ TallyVariants
    \/ KillVariants
    \/ RunAgain

VariantSpec == VariantInit /\ [][VariantNext]_variantVars

--------------------------------------------------------------------------------
(* Properties.                                                                  *)

(* Which counts of the table are this invocation's: a variant that has a prompt *)
(* for this task is counted by a verification of now, over the files that are   *)
(* there, unless its log could not be opened; whatever is counted of such a     *)
(* label or of a skipped one was verified by an earlier invocation, which may   *)
(* have been another task's.  Every test counted is of a build counted.         *)
CountsAreCurrentWherePrompted ==
    step = "done" =>
        /\ passed \subseteq built
        /\ \A l \in built :
            IF HasPrompt(l) /\ l \notin unopened
              THEN log[l].of = invocation /\ log[l].on = project[l]
              ELSE log[l].of \in 1 .. invocation - 1

(* "Run every prompt variant of one task N times": what the table counts is     *)
(* this task's.                                                                 *)
CountsAreOfThisTask ==
    step = "done" => \A l \in built : tasks[log[l].of] = tasks[invocation]

================================================================================
