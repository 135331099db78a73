---------------------------- MODULE MeasurementProofs ----------------------------
(* Proofs about the measurement of RepeatRun, for every number of labels and of *)
(* invocations, and about the two scripts that drive it: the thinking sweep,    *)
(* whose steps are RepeatRun's, and the prompt variants, whose loops pass over  *)
(* labels.                                                                      *)
EXTENDS ThinkingSweep, VariantRun, TLAPS

--------------------------------------------------------------------------------
(* The measurement.                                                             *)

(* A label without a directory has neither files nor a log.                     *)
NothingWithoutDirectory ==
    \A l \in Labels \ present : project[l] = {} /\ log[l] = NoLog

(* Only invocations there have been leave anything behind, and only a project   *)
(* that is there passes.                                                        *)
PastOnly ==
    \A l \in Labels :
        /\ project[l] \subseteq 1 .. invocation
        /\ log[l].of \in 0 .. invocation
        /\ log[l].verdict \in {"build_fails", "tests_fail", "pass"} =>
              log[l].on # {} /\ log[l].of # 0

(* What a log that is opened says about its label, and where the loops end.     *)
BuildIsOfCurrent ==
    /\ step = "build" =>
         current \in present /\ current \notin unopened /\ log[current].of = invocation
    /\ step \in {"tally", "done"} => current = Runs

(* The loops are past a label once it is verified or skipped, and come to it    *)
(* as long as it is not.                                                        *)
Behind(l) == l < current \/ (l = current /\ step \in {"tally", "done"})
Ahead(l) == l > current \/ (l = current /\ step \in {"generate", "verify"})

(* What this invocation has not come to has a log of an earlier one, if any.    *)
(* Without it a log that is not opened, or is skipped, could be of now.         *)
AheadIsOlder ==
    step # "dead" =>
        \A l \in Labels : Ahead(l) => log[l].of # invocation /\ l \notin unopened

(* What every step of the measurement keeps, whatever the loops around it do.   *)
Base ==
    /\ TypeOK
    /\ NothingWithoutDirectory
    /\ PastOnly
    /\ BuildIsOfCurrent
    /\ AheadIsOlder

(* The count, once it is made.                                                  *)
Counted == step = "done" => passed = {l \in Labels : log[l].verdict = "pass"}

IInv ==
    /\ Base
    /\ LogsFollowFiles
    /\ Counted

USE RunsAssumption, InvocationsAssumption DEF Labels, Invocations

(* The loops go on: to the next label, or from the last to the tally.           *)
Advanced ==
    \/ current = Runs /\ step' = "tally" /\ current' = current
    \/ current < Runs /\ step' = "generate" /\ current' = current + 1

LEMMA AdvanceAdvances ==
    ASSUME Base, Advance PROVE Advanced
BY DEF Base, TypeOK, Advance, Advanced

LEMMA InitIInv == Init => IInv
BY DEF Init, IInv, Base, TypeOK, NothingWithoutDirectory, PastOnly, BuildIsOfCurrent,
       AheadIsOlder, LogsFollowFiles, Counted, NoLog

(* A generation can change the current label's files and directory only.        *)
LEMMA GenerationFrame ==
    ASSUME Base, Generation
    PROVE  /\ step = "generate" /\ step' = "verify"
           /\ UNCHANGED <<invocation, current, log, passed, unopened>>
           /\ \/ present' = present /\ project' = project
              \/ /\ present' = present \cup {current}
                 /\ \E p \in SUBSET (1 .. invocation) : project' = [project EXCEPT ![current] = p]
<1>1. Generated
  BY DEF Generation, GenerationNotStarted, RequestFails, AnswerArrives
<1>2. project[current] \subseteq 1 .. invocation /\ invocation \in 1 .. invocation
  BY DEF Base, TypeOK, PastOnly
<1>3. project = [project EXCEPT ![current] = project[current]]
  BY DEF Base, TypeOK
<1>4. Overlay(project[current]) \subseteq SUBSET (1 .. invocation)
  BY <1>2 DEF Overlay
<1>6. \/ present' = present /\ project' = project
      \/ /\ present' = present \cup {current}
         /\ \E p \in SUBSET (1 .. invocation) : project' = [project EXCEPT ![current] = p]
  BY <1>2, <1>3, <1>4
  DEF Generation, GenerationNotStarted, RequestFails, AnswerArrives
<1> QED BY <1>1, <1>6 DEF Generated

LEMMA GenerationKeepsBase ==
    ASSUME Base, Generation PROVE Base'
<1>1. TypeOK'
  <2>1. 1 .. invocation \subseteq 1 .. MaxInvocations
    BY DEF Base, TypeOK
  <2>2. project' \in [Labels -> SUBSET Invocations]
    BY GenerationFrame, <2>1 DEF Base, TypeOK
  <2>3. present' \subseteq Labels
    BY GenerationFrame DEF Base, TypeOK
  <2> QED BY GenerationFrame, <2>2, <2>3 DEF Base, TypeOK
<1>2. NothingWithoutDirectory' /\ PastOnly'
  BY GenerationFrame DEF Base, TypeOK, NothingWithoutDirectory, PastOnly
<1>3. BuildIsOfCurrent' /\ AheadIsOlder'
  BY GenerationFrame DEF Base, BuildIsOfCurrent, AheadIsOlder, Ahead
<1> QED BY <1>1, <1>2, <1>3 DEF Base

(* A verification writes the current label's log only.  Once it is over, that   *)
(* log speaks of the files that are there, or there is neither, or it could not *)
(* be opened and is older.                                                      *)
Verified ==
    \/ /\ unopened' = unopened
       /\ current \notin unopened
       /\ current \in present <=> log'[current].of = invocation
       /\ log'[current].on = project[current]
    \/ /\ unopened' = unopened \cup {current}
       /\ log'[current].of < invocation

LEMMA VerificationFrame ==
    ASSUME Base, Verification
    PROVE  /\ step \in {"verify", "build"}
           /\ UNCHANGED <<invocation, present, project, passed>>
           /\ \A l \in Labels :
                l # current => log'[l] = log[l] /\ (l \in unopened' <=> l \in unopened)
           /\ \/ step' = "build" /\ current' = current /\ unopened' = unopened
              \/ Advanced /\ Verified
<1>1. CASE OpenLog
  BY <1>1 DEF Base, TypeOK, OpenLog
<1>2. CASE NoLogToOpen
  <2>1. project[current] = {} /\ log[current].of # invocation /\ log[current].on = {}
    BY <1>2 DEF Base, TypeOK, NothingWithoutDirectory, NoLog, NoLogToOpen
  <2>2. Advanced
    BY <1>2, AdvanceAdvances DEF NoLogToOpen
  <2>3. current \notin unopened
    BY <1>2 DEF Base, TypeOK, AheadIsOlder, Ahead, NoLogToOpen
  <2> QED BY <1>2, <2>1, <2>2, <2>3 DEF NoLogToOpen, files, Verified
<1>3. CASE LogNotOpened
  <2>1. Advanced
    BY <1>3, AdvanceAdvances DEF LogNotOpened
  <2>2. log[current].of < invocation
    BY <1>3 DEF Base, TypeOK, PastOnly, AheadIsOlder, Ahead, LogNotOpened
  <2> QED BY <1>3, <2>1, <2>2 DEF LogNotOpened, files, Verified
<1>4. CASE VerifyProject
  <2>1. Advanced
    BY <1>4, AdvanceAdvances DEF VerifyProject
  <2>2. current \in present /\ current \notin unopened
    BY <1>4 DEF Base, BuildIsOfCurrent, VerifyProject
  <2> QED BY <1>4, <2>1, <2>2 DEF VerifyProject, Base, TypeOK, Verified
<1> QED BY <1>1, <1>2, <1>3, <1>4 DEF Verification

LEMMA VerificationKeepsBase ==
    ASSUME Base, Verification PROVE Base'
<1>0. AheadIsOlder'
  <2> SUFFICES ASSUME NEW l \in Labels, Ahead(l)'
               PROVE  log'[l].of # invocation' /\ l \notin unopened'
    BY DEF AheadIsOlder
  <2>1. l # current /\ Ahead(l) /\ step # "dead"
    BY VerificationFrame DEF Ahead, Advanced, Base, TypeOK
  <2> QED BY <2>1, VerificationFrame DEF Base, AheadIsOlder
<1>1. CASE OpenLog
  <2>1. log' = [log EXCEPT ![current] = [verdict |-> "none", of |-> invocation, on |-> {}]]
    <3>1. [NoLog EXCEPT !.of = invocation] = [verdict |-> "none", of |-> invocation, on |-> {}]
      BY DEF NoLog
    <3> QED BY <1>1, <3>1 DEF OpenLog
  <2>2. TypeOK'
    <3>1. invocation \in 0 .. MaxInvocations /\ {} \in SUBSET Invocations
      BY DEF Base, TypeOK
    <3>2. log' \in [Labels -> [verdict : {"none", "missing", "build_fails", "tests_fail", "pass"},
                               of : 0 .. MaxInvocations, on : SUBSET Invocations]]
      BY <2>1, <3>1 DEF Base, TypeOK
    <3> QED BY <1>1, <3>2 DEF Base, TypeOK, OpenLog
  <2>3. NothingWithoutDirectory' /\ PastOnly'
    BY <1>1, <2>1 DEF Base, TypeOK, NothingWithoutDirectory, PastOnly, OpenLog
  <2>4. BuildIsOfCurrent'
    <3>1. current \in Labels /\ current \in present /\ current \notin unopened
      BY <1>1 DEF Base, TypeOK, AheadIsOlder, Ahead, OpenLog
    <3> QED BY <1>1, <2>1, <3>1 DEF Base, TypeOK, BuildIsOfCurrent, OpenLog
  <2> QED BY <1>0, <2>2, <2>3, <2>4 DEF Base
<1>2. CASE NoLogToOpen \/ LogNotOpened
  <2>1. Advanced /\ UNCHANGED <<invocation, files, passed>>
    BY <1>2, AdvanceAdvances DEF NoLogToOpen, LogNotOpened
  <2>2. unopened' \subseteq Labels
    BY <1>2 DEF Base, TypeOK, NoLogToOpen, LogNotOpened
  <2>3. TypeOK'
    BY <2>1, <2>2 DEF Base, TypeOK, Advanced, files
  <2>4. NothingWithoutDirectory' /\ PastOnly' /\ BuildIsOfCurrent'
    BY <2>1 DEF Base, NothingWithoutDirectory, PastOnly, BuildIsOfCurrent, Advanced, files
  <2> QED BY <1>0, <2>3, <2>4 DEF Base
<1>3. CASE VerifyProject
  <2>1. PICK v \in Verdicts(project[current]) :
          log' = [log EXCEPT ![current] =
                      [verdict |-> v, of |-> invocation, on |-> project[current]]]
    BY <1>3 DEF VerifyProject
  <2>2. /\ v \in {"missing", "build_fails", "tests_fail", "pass"}
        /\ v # "missing" => project[current] # {}
    BY DEF Verdicts
  <2>3. step = "build" /\ Advanced /\ UNCHANGED <<invocation, present, project, passed, unopened>>
    BY <1>3, AdvanceAdvances DEF VerifyProject
  <2>4. TypeOK'
    <3>1. /\ invocation \in 0 .. MaxInvocations /\ project[current] \in SUBSET Invocations
          /\ current' \in Labels /\ step' \in {"generate", "tally"}
      BY <2>3 DEF Base, TypeOK, Advanced
    <3>2. log' \in [Labels -> [verdict : {"none", "missing", "build_fails", "tests_fail", "pass"},
                               of : 0 .. MaxInvocations, on : SUBSET Invocations]]
      BY <2>1, <2>2, <3>1 DEF Base, TypeOK
    <3> QED BY <2>3, <3>1, <3>2 DEF Base, TypeOK
  <2>5. NothingWithoutDirectory' /\ PastOnly'
    BY <2>1, <2>2, <2>3
    DEF Base, TypeOK, NothingWithoutDirectory, PastOnly, BuildIsOfCurrent
  <2>6. BuildIsOfCurrent'
    BY <2>3 DEF BuildIsOfCurrent, Advanced
  <2> QED BY <1>0, <2>4, <2>5, <2>6 DEF Base
<1> QED BY <1>1, <1>2, <1>3 DEF Verification

LEMMA TallyKeepsBase ==
    ASSUME Base, Tally PROVE Base'
BY DEF Base, TypeOK, NothingWithoutDirectory, PastOnly, BuildIsOfCurrent, AheadIsOlder, Ahead,
       Tally, files

LEMMA KillKeepsBase ==
    ASSUME Base, Kill PROVE Base'
BY DEF Base, TypeOK, NothingWithoutDirectory, PastOnly, BuildIsOfCurrent, AheadIsOlder, Ahead,
       Kill, files

LEMMA RerunKeepsBase ==
    ASSUME Base, Rerun PROVE Base'
<1>1. TypeOK' /\ NothingWithoutDirectory' /\ PastOnly' /\ BuildIsOfCurrent'
  BY DEF Base, TypeOK, NothingWithoutDirectory, PastOnly, BuildIsOfCurrent, Rerun, files
<1>2. AheadIsOlder'
  BY DEF Base, TypeOK, PastOnly, AheadIsOlder, Rerun, files
<1> QED BY <1>1, <1>2 DEF Base

(* The loops of run_repeat.sh come to every label, so every log before the      *)
(* current one has been dealt with.                                             *)
LEMMA NextIInv == IInv /\ [Next]_vars => IInv'
<1> SUFFICES ASSUME IInv, [Next]_vars PROVE IInv'
  OBVIOUS
<1> USE DEF IInv
<1>1. CASE Generation
  <2>1. LogsFollowFiles'
    <3> SUFFICES ASSUME NEW l \in Labels, l < current
                 PROVE  IF l \in unopened
                          THEN log[l].of < invocation
                          ELSE /\ l \in present' <=> log[l].of = invocation
                               /\ log[l].on = project'[l]
      BY <1>1, GenerationFrame DEF LogsFollowFiles
    <3>1. IF l \in unopened
            THEN log[l].of < invocation
            ELSE /\ l \in present <=> log[l].of = invocation
                 /\ log[l].on = project[l]
      BY <1>1, GenerationFrame DEF LogsFollowFiles
    <3>2. (l \in present' <=> l \in present) /\ project'[l] = project[l]
      <4>1. l # current
        BY DEF Base, TypeOK
      <4>2. CASE present' = present /\ project' = project
        BY <4>2
      <4>3. CASE /\ present' = present \cup {current}
                 /\ \E p \in SUBSET (1 .. invocation) : project' = [project EXCEPT ![current] = p]
        BY <4>1, <4>3 DEF Base, TypeOK
      <4> QED BY <1>1, <4>2, <4>3, GenerationFrame
    <3> QED BY <3>1, <3>2
  <2>2. Counted'
    BY <1>1, GenerationFrame DEF Counted
  <2> QED BY <1>1, <2>1, <2>2, GenerationKeepsBase
<1>2. CASE Verification
  <2>1. LogsFollowFiles'
    <3> SUFFICES ASSUME NEW l \in Labels,
                        l < current' \/ (l = current' /\ step' \in {"tally", "done"})
                 PROVE  IF l \in unopened'
                          THEN log'[l].of < invocation'
                          ELSE /\ l \in present' <=> log'[l].of = invocation'
                               /\ log'[l].on = project'[l]
      BY DEF LogsFollowFiles
    <3>1. CASE l = current
      <4>1. current \in Labels
        BY DEF Base, TypeOK
      <4>2. ~ (step' = "build" /\ current' = current)
        BY <3>1, <4>1
      <4>3. UNCHANGED <<invocation, present, project>>
        BY <1>2, VerificationFrame
      <4>4. Verified
        BY <1>2, <4>2, VerificationFrame
      <4> QED BY <3>1, <4>3, <4>4 DEF Verified
    <3>2. CASE l # current
      <4>1. /\ step # "dead"
            /\ Advanced \/ (step' = "build" /\ current' = current)
        BY <1>2, VerificationFrame
      <4>2. l < current
        BY <3>2, <4>1 DEF Base, TypeOK, Advanced
      <4> QED BY <1>2, <3>2, <4>1, <4>2, VerificationFrame DEF LogsFollowFiles
    <3> QED BY <3>1, <3>2
  <2>2. Counted'
    BY <1>2, VerificationFrame DEF Counted, Advanced
  <2> QED BY <1>2, <2>1, <2>2, VerificationKeepsBase
<1>3. CASE Tally
  BY <1>3, TallyKeepsBase DEF Base, TypeOK, LogsFollowFiles, Counted, Tally, files
<1>4. CASE Kill
  BY <1>4, KillKeepsBase DEF Base, TypeOK, LogsFollowFiles, Counted, Kill, files
<1>5. CASE Rerun
  BY <1>5, RerunKeepsBase DEF Base, TypeOK, LogsFollowFiles, Counted, Rerun, files
<1>6. CASE UNCHANGED vars
  BY <1>6 DEF Base, TypeOK, NothingWithoutDirectory, PastOnly, BuildIsOfCurrent,
              AheadIsOlder, Ahead, LogsFollowFiles, Counted, vars, files
<1> QED BY <1>1, <1>2, <1>3, <1>4, <1>5, <1>6 DEF Next

(* What the count says of a label that is counted.                              *)
LEMMA IInvTally == IInv => TallyIsCurrent
<1> SUFFICES ASSUME IInv, step = "done", NEW l \in passed
             PROVE  /\ l \in present
                    /\ IF l \in unopened
                         THEN log[l].of \in 1 .. invocation - 1
                         ELSE /\ log[l].of = invocation
                              /\ log[l].on = project[l]
                              /\ project[l] # {}
  BY DEF TallyIsCurrent
<1>1. l \in Labels /\ log[l].verdict = "pass"
  BY DEF IInv, Counted
<1>2. l \in present
  BY <1>1 DEF IInv, Base, NothingWithoutDirectory, NoLog
<1>3. l < current \/ l = current
  BY <1>1 DEF IInv, Base, BuildIsOfCurrent
<1>4. log[l].of \in 1 .. invocation /\ log[l].on # {}
  BY <1>1 DEF IInv, Base, PastOnly
<1>5. IF l \in unopened
        THEN log[l].of < invocation
        ELSE log[l].of = invocation /\ log[l].on = project[l]
  BY <1>1, <1>2, <1>3 DEF IInv, LogsFollowFiles
<1>6. invocation \in Nat
  BY DEF IInv, Base, TypeOK
<1> QED BY <1>2, <1>4, <1>5, <1>6

LEMMA SpecIInv == Spec => []IInv
BY InitIInv, NextIInv, PTL DEF Spec

(* Every variable keeps its type.                                               *)
THEOREM TypeCorrect == Spec => []TypeOK
<1>1. IInv => TypeOK
  BY DEF IInv, Base
<1> QED BY <1>1, SpecIInv, PTL

(* Whatever failed before, the tally counts verdicts of this invocation over    *)
(* the files that are there, save older ones from logs it could not open.       *)
THEOREM TallyCurrent == Spec => []TallyIsCurrent
BY IInvTally, SpecIInv, PTL

(* A log this invocation has closed speaks of the files on disk, and one it     *)
(* could not open is older.                                                     *)
THEOREM LogsOfFiles == Spec => []LogsFollowFiles
<1>1. IInv => LogsFollowFiles
  BY DEF IInv
<1> QED BY <1>1, SpecIInv, PTL

--------------------------------------------------------------------------------
(* The sweep.                                                                   *)

LEMMA SweepMeasures == [SweepNext]_sweepVars => [Next]_vars
<1> SUFFICES ASSUME [SweepNext]_sweepVars, vars' # vars PROVE Next
  OBVIOUS
<1> USE DEF measurement
<1>1. CASE Start
  BY <1>1 DEF Start, Next
<1>2. CASE ServerAnswers
  BY <1>2 DEF ServerAnswers, Next, Generation
<1>3. CASE MeasurementGoesOn
  BY <1>3 DEF MeasurementGoesOn, Next, Generation, Verification
<1>4. CASE ProjectIsVerified
  BY <1>4 DEF ProjectIsVerified, Next, Verification
<1>5. CASE Finish
  BY <1>5 DEF Finish, Next
<1>6. vars' = vars \/ Start \/ ServerAnswers \/ MeasurementGoesOn \/ ProjectIsVerified \/ Finish
  BY DEF SweepNext, Script, Probe, Refuse, SweepAgain, ServerReady, ServerDies,
         ServerRestarts, sweepVars
<1> QED BY <1>1, <1>2, <1>3, <1>4, <1>5, <1>6

(* Every behaviour of the sweep is one of the measurement: the guards, the      *)
(* server and its operator add nothing run_repeat.sh could not do, and          *)
(* whatever holds of RepeatRun holds of the sweep.                              *)
THEOREM SweepIsARepeatRun == SweepSpec => Spec
<1>1. SweepInit => Init
  BY DEF SweepInit
<1> QED BY <1>1, SweepMeasures, PTL DEF SweepSpec, Spec

(* What the probe has seen of the server that still runs.                       *)
ProbeHolds ==
    /\ probed <= restarts
    /\ probed = restarts =>
        /\ chars = "zero" => server.mode = "instruct"
        /\ chars = "positive" => server.mode = "think"

GuardsPassed == sweep \in {"measure", "finished"} => ~ WrongMode

(* A sweep that has yet to measure finds an earlier measurement over, or none.  *)
NothingUnderWay ==
    /\ sweep \in {"probe", "guards", "refused"} =>
          \/ step \in {"done", "dead"}
          \/ step = "generate" /\ \A l \in Labels : answeredBy[l] = {}
    /\ sweep = "finished" => step \in {"done", "dead"}

SweepType ==
    /\ sweep \in {"probe", "guards", "measure", "refused", "finished"}
    /\ want \in Modes
    /\ chars \in {"unset", "minus1", "empty", "zero", "positive"}
    /\ server \in [state : {"down", "loading", "ready"}, mode : Modes]
    /\ restarts \in 0 .. MaxRestarts
    /\ probed \in 0 .. MaxRestarts
    /\ answeredBy \in [Labels -> SUBSET Modes]

SweepInv ==
    /\ SweepType
    /\ ProbeHolds
    /\ GuardsPassed
    /\ NothingUnderWay
    /\ MeasuredSweepIsOfItsMode

LEMMA InitSweepInv == SweepInit => SweepInv
BY RestartsAssumption
DEF SweepInit, Init, SweepInv, SweepType, ProbeHolds, GuardsPassed, NothingUnderWay,
    MeasuredSweepIsOfItsMode, WrongMode, Modes

LEMMA NextSweepInv ==
    ASSUME SweepInv, TypeOK, [SweepNext]_sweepVars PROVE SweepInv'
<1> USE RestartsAssumption DEF SweepInv, measurement, Modes
<1>1. CASE Probe
  <2>1. SweepType'
    BY <1>1 DEF Probe, Printed, SweepType
  <2>2. ProbeHolds'
    BY <1>1 DEF Probe, Printed, SweepType, ProbeHolds
  <2>3. GuardsPassed' /\ NothingUnderWay' /\ MeasuredSweepIsOfItsMode'
    BY <1>1 DEF Probe, GuardsPassed, NothingUnderWay, MeasuredSweepIsOfItsMode, vars
  <2> QED BY <2>1, <2>2, <2>3
<1>2. CASE Refuse
  BY <1>2 DEF Refuse, SweepType, ProbeHolds, GuardsPassed, NothingUnderWay,
              MeasuredSweepIsOfItsMode, vars
<1>3. CASE Start
  <2>1. SweepType' /\ ProbeHolds'
    BY <1>3 DEF Start, SweepType, ProbeHolds
  <2>2. GuardsPassed'
    BY <1>3 DEF Start, GuardsPassed, WrongMode
  <2>3. NothingUnderWay'
    BY <1>3 DEF Start, NothingUnderWay
  <2>4. \A l \in Labels : answeredBy'[l] = {}
    BY <1>3 DEF Start, NothingUnderWay
  <2>5. MeasuredSweepIsOfItsMode'
    BY <2>4 DEF MeasuredSweepIsOfItsMode
  <2> QED BY <2>1, <2>2, <2>3, <2>5
<1>4. CASE ServerAnswers
  <2>1. /\ sweep = "measure" /\ current \in Labels
        /\ UNCHANGED <<sweep, want, chars, server, restarts, probed>>
        /\ answeredBy' = [answeredBy EXCEPT ![current] = @ \cup {server.mode}]
    BY <1>4 DEF ServerAnswers, TypeOK
  <2>2. SweepType' /\ ProbeHolds' /\ GuardsPassed' /\ NothingUnderWay'
    BY <2>1 DEF SweepType, ProbeHolds, GuardsPassed, NothingUnderWay, WrongMode
  <2>3. MeasuredSweepIsOfItsMode'
    <3> SUFFICES ASSUME chars \in {"zero", "positive"}, probed = restarts, NEW l \in Labels
                 PROVE  answeredBy'[l] \subseteq {want}
      BY <2>1 DEF MeasuredSweepIsOfItsMode
    <3>1. server.mode = want
      BY <2>1 DEF SweepType, ProbeHolds, GuardsPassed, WrongMode
    <3>2. answeredBy[l] \subseteq {want}
      BY <2>1 DEF MeasuredSweepIsOfItsMode
    <3> QED BY <2>1, <3>1, <3>2 DEF SweepType
  <2> QED BY <2>2, <2>3
<1>5. CASE MeasurementGoesOn \/ ProjectIsVerified
  BY <1>5 DEF MeasurementGoesOn, ProjectIsVerified, SweepType, ProbeHolds, GuardsPassed,
              NothingUnderWay, MeasuredSweepIsOfItsMode, WrongMode
<1>6. CASE Finish
  BY <1>6 DEF Finish, Kill, SweepType, ProbeHolds, GuardsPassed, NothingUnderWay,
              MeasuredSweepIsOfItsMode, WrongMode, vars
<1>7. CASE SweepAgain
  <2>1. SweepType' /\ ProbeHolds' /\ GuardsPassed' /\ MeasuredSweepIsOfItsMode'
    BY <1>7 DEF SweepAgain, SweepType, ProbeHolds, GuardsPassed, MeasuredSweepIsOfItsMode
  <2>2. NothingUnderWay'
    BY <1>7 DEF SweepAgain, NothingUnderWay, vars
  <2> QED BY <2>1, <2>2
<1>8. CASE ServerReady \/ ServerDies
  BY <1>8 DEF ServerReady, ServerDies, SweepType, ProbeHolds, GuardsPassed,
              NothingUnderWay, MeasuredSweepIsOfItsMode, WrongMode, vars
<1>9. CASE ServerRestarts
  <2>1. SweepType' /\ ProbeHolds' /\ probed' # restarts'
    BY <1>9 DEF ServerRestarts, SweepType, ProbeHolds
  <2>2. GuardsPassed' /\ NothingUnderWay' /\ MeasuredSweepIsOfItsMode'
    BY <1>9, <2>1 DEF ServerRestarts, GuardsPassed, NothingUnderWay,
                      MeasuredSweepIsOfItsMode, WrongMode, vars
  <2> QED BY <2>1, <2>2
<1>10. CASE UNCHANGED sweepVars
  BY <1>10 DEF sweepVars, SweepType, ProbeHolds, GuardsPassed, NothingUnderWay,
               MeasuredSweepIsOfItsMode, WrongMode, vars
<1> QED
  BY <1>1, <1>2, <1>3, <1>4, <1>5, <1>6, <1>7, <1>8, <1>9, <1>10 DEF SweepNext, Script

LEMMA SweepSpecInv == SweepSpec => [](SweepInv /\ TypeOK)
BY SweepIsARepeatRun, TypeCorrect, InitSweepInv, NextSweepInv, PTL DEF SweepSpec

(* The variables of the sweep and of the measurement in it keep their types.    *)
THEOREM SweepTypeCorrect == SweepSpec => []SweepTypeOK
<1>1. SweepInv /\ TypeOK => SweepTypeOK
  BY DEF SweepInv, SweepType, SweepTypeOK
<1> QED BY <1>1, SweepSpecInv, PTL

(* Once the probe has printed a number, and while its server runs, every answer *)
(* is of the mode asked for, for any number of restarts and of measurements.    *)
THEOREM SweepOfItsMode == SweepSpec => []MeasuredSweepIsOfItsMode
<1>1. SweepInv => MeasuredSweepIsOfItsMode
  BY DEF SweepInv
<1> QED BY <1>1, SweepSpecInv, PTL

(* What RepeatRun's tally and logs promise, they promise inside the sweep.      *)
THEOREM SweepTalliesCurrent == SweepSpec => [](TallyIsCurrent /\ LogsFollowFiles)
BY SweepIsARepeatRun, TallyCurrent, LogsOfFiles, PTL

--------------------------------------------------------------------------------
(* The prompt variants.                                                         *)

USE RepetitionsAssumption, PromptsAssumption

(* Dividing by N: what lies in [q * N, (q + 1) * N) has quotient q.             *)
LEMMA Quotient ==
    ASSUME NEW a \in Nat
    PROVE  /\ a \div N \in Nat
           /\ (a \div N) * N <= a
           /\ a < (a \div N) * N + N
BY SMT

LEMMA QuotientIsUnique ==
    ASSUME NEW a \in Nat, NEW q \in Nat, q * N <= a, a < q * N + N
    PROVE  a \div N = q
BY SMT

(* The labels from any of a variant's to its last are that variant's, and the   *)
(* last one is a label, since every variant has all N repetitions.              *)
LEMMA SkippedAreOfOneVariant ==
    ASSUME NEW c \in Labels
    PROVE  /\ Variant(c) * N \in c .. Runs
           /\ \A l \in c .. Variant(c) * N : Variant(l) = Variant(c)
<1> DEFINE q == (c - 1) \div N
           k == Runs \div N
<1>1. q \in Nat /\ q * N <= c - 1 /\ c - 1 < q * N + N
  BY Quotient
<1>2. k \in Nat /\ Runs = k * N
  BY SMT
<1>3. Variant(c) = q + 1 /\ Variant(c) * N = q * N + N
  BY <1>1, SMT DEF Variant
<1>4. Variant(c) * N <= Runs
  <2>1. q * N < k * N
    BY <1>1, <1>2
  <2>2. q < k
    BY <2>1, <1>1, <1>2, SMT
  <2>3. (q + 1) * N <= k * N
    BY <2>2, <1>1, <1>2, SMT
  <2> QED BY <2>3, <1>2, <1>3
<1>5. ASSUME NEW l \in c .. Variant(c) * N PROVE Variant(l) = Variant(c)
  <2>1. l - 1 \in Nat /\ q * N <= l - 1 /\ l - 1 < q * N + N
    BY <1>1, <1>3
  <2>2. (l - 1) \div N = q
    BY <2>1, <1>1, QuotientIsUnique
  <2> QED BY <2>2, <1>3 DEF Variant
<1> QED BY <1>1, <1>3, <1>4, <1>5

(* What a label's log says once the loops are past it.                          *)
LogFollowsPrompt(l) ==
    IF HasPrompt(l) /\ l \notin unopened
      THEN /\ l \in present <=> log[l].of = invocation
           /\ log[l].on = project[l]
      ELSE log[l].of # invocation

LogsFollowPrompts ==
    step # "dead" => \A l \in Labels : Behind(l) => LogFollowsPrompt(l)

(* Only labels with a prompt file are generated and verified.                   *)
OnlyPrompted == step \in {"verify", "build"} => HasPrompt(current)

VariantsCounted ==
    step = "done" =>
        /\ passed = {l \in Labels : log[l].verdict = "pass"}
        /\ built = {l \in Labels : log[l].verdict \in {"tests_fail", "pass"}}

TasksOfInvocations == tasks \in Seq(Tasks) /\ Len(tasks) = invocation

VariantInv ==
    /\ Base
    /\ TasksOfInvocations
    /\ LogsFollowPrompts
    /\ OnlyPrompted
    /\ VariantsCounted

LEMMA InitVariantInv == VariantInit => VariantInv
<1> SUFFICES ASSUME VariantInit PROVE VariantInv
  OBVIOUS
<1>1. Base
  BY InitIInv DEF VariantInit, IInv
<1>2. TasksOfInvocations
  BY DEF VariantInit, Init, TasksOfInvocations
<1>3. LogsFollowPrompts /\ OnlyPrompted /\ VariantsCounted
  BY DEF VariantInit, Init, NoLog, LogsFollowPrompts, LogFollowsPrompt, Behind, OnlyPrompted,
         VariantsCounted
<1> QED BY <1>1, <1>2, <1>3 DEF VariantInv

(* A variant without a prompt is skipped: the labels passed over keep the logs  *)
(* of earlier invocations.                                                      *)
LEMMA PromptMissingKeeps ==
    ASSUME VariantInv, PromptMissing PROVE VariantInv'
<1> USE DEF VariantInv
<1> DEFINE last == Variant(current) * N
<1>1. current \in Labels
  BY DEF Base, TypeOK
<1>2. last \in current .. Runs /\ \A l \in current .. last : Variant(l) = Variant(current)
  BY <1>1, SkippedAreOfOneVariant
<1> HIDE DEF last
<1>3. /\ step = "generate" /\ ~ HasPrompt(current)
      /\ UNCHANGED <<invocation, present, project, log, passed, unopened, tasks, built>>
      /\ \/ last = Runs /\ current' = Runs /\ step' = "tally"
         \/ last < Runs /\ current' = last + 1 /\ step' = "generate"
  BY <1>1, <1>2 DEF PromptMissing, files, last
<1>4. Base'
  <2>1. /\ current' \in Labels /\ step' \in {"generate", "tally"}
        /\ step' = "tally" => current' = Runs
    BY <1>1, <1>2, <1>3
  <2>2. TypeOK'
    BY <1>3, <2>1 DEF Base, TypeOK
  <2>3. NothingWithoutDirectory' /\ PastOnly' /\ BuildIsOfCurrent'
    BY <1>3, <2>1 DEF Base, NothingWithoutDirectory, PastOnly, BuildIsOfCurrent
  <2>4. \A l \in Labels : Ahead(l)' => Ahead(l)
    BY <1>1, <1>2, <1>3 DEF Ahead
  <2>5. AheadIsOlder'
    BY <1>3, <2>4 DEF Base, AheadIsOlder
  <2> QED BY <2>2, <2>3, <2>5 DEF Base
<1>5. TasksOfInvocations' /\ OnlyPrompted' /\ VariantsCounted'
  BY <1>3 DEF TasksOfInvocations, OnlyPrompted, VariantsCounted
<1>6. LogsFollowPrompts'
  <2>1. \A l \in Labels : HasPrompt(l)' <=> HasPrompt(l)
    BY <1>3 DEF HasPrompt, Variant
  <2>2. \A l \in Labels : LogFollowsPrompt(l)' <=> LogFollowsPrompt(l)
    BY <1>3, <2>1 DEF LogFollowsPrompt
  <2> SUFFICES ASSUME NEW l \in Labels, Behind(l)' PROVE LogFollowsPrompt(l)
    BY <2>2 DEF LogsFollowPrompts
  <2>3. CASE l < current
    BY <1>3, <2>3 DEF LogsFollowPrompts, Behind
  <2>4. CASE l \in current .. last
    <3>1. ~ HasPrompt(l)
      BY <1>2, <1>3, <2>4 DEF HasPrompt
    <3>2. log[l].of # invocation
      BY <1>1, <1>3, <2>4 DEF Base, AheadIsOlder, Ahead
    <3> QED BY <3>1, <3>2 DEF LogFollowsPrompt
  <2>5. ~ l > last
    BY <1>1, <1>2, <1>3 DEF Behind
  <2> QED BY <1>1, <1>2, <2>3, <2>4, <2>5
<1> QED BY <1>4, <1>5, <1>6

LEMMA GenerateVariantKeeps ==
    ASSUME VariantInv, GenerateVariant PROVE VariantInv'
<1> USE DEF VariantInv
<1>1. HasPrompt(current) /\ Generation /\ UNCHANGED <<tasks, built>>
  BY DEF GenerateVariant
<1>2. Base'
  BY <1>1, GenerationKeepsBase
<1>3. /\ step = "generate" /\ step' = "verify"
      /\ UNCHANGED <<invocation, current, log, passed, unopened>>
  BY <1>1, GenerationFrame
<1>4. TasksOfInvocations' /\ OnlyPrompted' /\ VariantsCounted'
  BY <1>1, <1>3 DEF TasksOfInvocations, OnlyPrompted, VariantsCounted, HasPrompt, Variant
<1>5. LogsFollowPrompts'
  <2>1. \A l \in Labels : HasPrompt(l)' <=> HasPrompt(l)
    BY <1>1, <1>3 DEF HasPrompt, Variant
  <2>2. \A l \in Labels : l # current => (l \in present' <=> l \in present) /\ project'[l] = project[l]
    <3>1. CASE present' = present /\ project' = project
      BY <3>1
    <3>2. CASE /\ present' = present \cup {current}
               /\ \E p \in SUBSET (1 .. invocation) : project' = [project EXCEPT ![current] = p]
      BY <3>2 DEF Base, TypeOK
    <3> QED BY <1>1, <3>1, <3>2, GenerationFrame
  <2>3. \A l \in Labels \ {current} : LogFollowsPrompt(l)' <=> LogFollowsPrompt(l)
    BY <1>3, <2>1, <2>2 DEF LogFollowsPrompt
  <2>4. \A l \in Labels : Behind(l)' => Behind(l) /\ l # current
    BY <1>3 DEF Behind, Base, TypeOK
  <2> QED BY <1>3, <2>3, <2>4 DEF LogsFollowPrompts
<1> QED BY <1>2, <1>4, <1>5

LEMMA VerifyVariantKeeps ==
    ASSUME VariantInv, VerifyVariant PROVE VariantInv'
<1> USE DEF VariantInv
<1>1. Verification /\ UNCHANGED <<tasks, built>>
  BY DEF VerifyVariant
<1>2. Base'
  BY <1>1, VerificationKeepsBase
<1>3. /\ step \in {"verify", "build"}
      /\ UNCHANGED <<invocation, present, project, passed>>
      /\ \A l \in Labels :
           l # current => log'[l] = log[l] /\ (l \in unopened' <=> l \in unopened)
      /\ \/ step' = "build" /\ current' = current
         \/ Advanced /\ Verified
  BY <1>1, VerificationFrame
<1>4. HasPrompt(current) /\ current \in Labels
  BY <1>3 DEF OnlyPrompted, Base, TypeOK
<1>5. \A l \in Labels : HasPrompt(l)' <=> HasPrompt(l)
  BY <1>1, <1>3 DEF HasPrompt, Variant
<1>6. TasksOfInvocations' /\ OnlyPrompted' /\ VariantsCounted'
  <2>1. OnlyPrompted'
    BY <1>3, <1>4, <1>1 DEF OnlyPrompted, Advanced, HasPrompt, Variant
  <2> QED BY <1>1, <1>3, <2>1 DEF TasksOfInvocations, VariantsCounted, Advanced
<1>7. LogsFollowPrompts'
  <2> SUFFICES ASSUME NEW l \in Labels, Behind(l)' PROVE LogFollowsPrompt(l)'
    BY DEF LogsFollowPrompts
  <2>1. CASE l = current
    <3>1. Advanced /\ Verified
      BY <2>1, <1>3, <1>4 DEF Behind
    <3> QED BY <2>1, <3>1, <1>3, <1>4, <1>5 DEF Verified, LogFollowsPrompt, Base, TypeOK
  <2>2. CASE l # current
    <3>1. Behind(l) /\ step # "dead"
      BY <2>2, <1>3, <1>4 DEF Behind, Advanced
    <3>2. LogFollowsPrompt(l)
      BY <3>1 DEF LogsFollowPrompts
    <3> QED BY <2>2, <3>2, <1>3, <1>5 DEF LogFollowsPrompt
  <2> QED BY <2>1, <2>2
<1> QED BY <1>2, <1>6, <1>7

LEMMA NextVariantInv == ASSUME VariantInv, [VariantNext]_variantVars PROVE VariantInv'
<1> USE DEF VariantInv
<1>1. CASE TallyVariants
  <2>1. Base' /\ TasksOfInvocations'
    BY <1>1, TallyKeepsBase DEF TallyVariants, Tally, TasksOfInvocations
  <2>2. OnlyPrompted' /\ VariantsCounted'
    BY <1>1 DEF TallyVariants, Tally, OnlyPrompted, VariantsCounted, files
  <2>3. LogsFollowPrompts'
    BY <1>1 DEF TallyVariants, Tally, LogsFollowPrompts, LogFollowsPrompt, Behind, HasPrompt,
                Variant, files, Base, BuildIsOfCurrent
  <2> QED BY <2>1, <2>2, <2>3
<1>2. CASE KillVariants
  BY <1>2, KillKeepsBase
  DEF KillVariants, Kill, TasksOfInvocations, OnlyPrompted, VariantsCounted, LogsFollowPrompts
<1>3. CASE RunAgain
  <2>1. Base'
    BY <1>3, RerunKeepsBase DEF RunAgain
  <2>2. TasksOfInvocations'
    <3>1. PICK t \in Tasks : tasks' = Append(tasks, t)
      BY <1>3 DEF RunAgain
    <3> QED BY <1>3, <3>1 DEF RunAgain, Rerun, TasksOfInvocations, Base, TypeOK
  <2>3. OnlyPrompted' /\ VariantsCounted'
    BY <1>3 DEF RunAgain, Rerun, OnlyPrompted, VariantsCounted
  <2>4. LogsFollowPrompts'
    <3>1. current' = 1 /\ step' = "generate"
      BY <1>3 DEF RunAgain, Rerun
    <3>2. \A l \in Labels : ~ Behind(l)'
      BY <3>1 DEF Behind
    <3> QED BY <3>2 DEF LogsFollowPrompts
  <2> QED BY <2>1, <2>2, <2>3, <2>4
<1>4. CASE UNCHANGED variantVars
  BY <1>4 DEF variantVars, vars, files, Base, TypeOK, NothingWithoutDirectory, PastOnly,
              BuildIsOfCurrent, AheadIsOlder, TasksOfInvocations, OnlyPrompted, VariantsCounted,
              LogsFollowPrompts, LogFollowsPrompt, Behind, Ahead, HasPrompt, Variant
<1> QED
  BY <1>1, <1>2, <1>3, <1>4, PromptMissingKeeps, GenerateVariantKeeps, VerifyVariantKeeps
  DEF VariantNext

LEMMA VariantInvCounts == VariantInv => CountsAreCurrentWherePrompted
<1> SUFFICES ASSUME VariantInv, step = "done"
             PROVE  /\ passed \subseteq built
                    /\ \A l \in built :
                        IF HasPrompt(l) /\ l \notin unopened
                          THEN log[l].of = invocation /\ log[l].on = project[l]
                          ELSE log[l].of \in 1 .. invocation - 1
  BY DEF CountsAreCurrentWherePrompted
<1> USE DEF VariantInv
<1>1. passed \subseteq built
  BY DEF VariantsCounted
<1>2. ASSUME NEW l \in built
      PROVE  IF HasPrompt(l) /\ l \notin unopened
               THEN log[l].of = invocation /\ log[l].on = project[l]
               ELSE log[l].of \in 1 .. invocation - 1
  <2>1. l \in Labels /\ log[l].verdict \in {"tests_fail", "pass"}
    BY <1>2 DEF VariantsCounted
  <2>2. Behind(l)
    BY <2>1 DEF Behind, Base, TypeOK, BuildIsOfCurrent
  <2>3. l \in present
    BY <2>1 DEF Base, NothingWithoutDirectory, NoLog
  <2>4. log[l].of \in 1 .. invocation
    BY <2>1 DEF Base, TypeOK, PastOnly
  <2>5. LogFollowsPrompt(l)
    BY <2>1, <2>2 DEF LogsFollowPrompts
  <2>6. log[l].of # invocation => log[l].of \in 1 .. invocation - 1
    BY <2>4 DEF Base, TypeOK
  <2> QED BY <2>3, <2>5, <2>6 DEF LogFollowsPrompt
<1> QED BY <1>1, <1>2

(* The table of the variants counts, of a variant with a prompt, only what was  *)
(* verified now, unless its log could not be opened; whatever it counts of such *)
(* a label or of a skipped variant is an earlier invocation's.                  *)
THEOREM VariantCounts == VariantSpec => []CountsAreCurrentWherePrompted
BY InitVariantInv, NextVariantInv, VariantInvCounts, PTL DEF VariantSpec

================================================================================
