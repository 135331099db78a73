----------------------------- MODULE AgentRunProofs -----------------------------
(* Proofs about AgentRun, for every number of episodes, every base of the      *)
(* numerals and every number of invocations.                                   *)
EXTENDS AgentRun, TLAPS

(* A name that extends another belongs to an episode that is not run before it. *)
LEMMA ExtendsIsLater ==
    ASSUME NEW e \in Eps, NEW f \in Eps, Extends(f, e)
    PROVE  f >= e
<1>1. PICK p \in Powers : \E r \in 0 .. p - 1 : f = e * p + r
  BY DEF Extends
<1>2. PICK r \in 0 .. p - 1 : f = e * p + r
  BY <1>1
<1>3. p \in Nat /\ p >= 1
  BY PowersAssumption
<1>4. e * p >= e
  <2>1. PICK q \in Nat : p = q + 1
    BY <1>3, p - 1 \in Nat
  <2>2. e * p = e * q + e
    BY <2>1, EpisodesAssumption DEF Eps
  <2>3. e * q >= 0
    BY <2>1, EpisodesAssumption DEF Eps
  <2> QED BY <2>1, <2>2, <2>3, EpisodesAssumption DEF Eps
<1> QED BY <1>2, <1>3, <1>4, EpisodesAssumption DEF Eps

(* Where main is in its loop: the results are those of the episodes before ep. *)
Progress ==
    /\ step \in {"clear", "copy", "session"} => Len(results) = ep - 1
    /\ step \in {"report", "dump"} => Len(results) = Episodes

(* The results are those of episodes 1, 2, ..., each on its own work.          *)
ResultsInOrder ==
    \A i \in 1 .. Len(results) :
        /\ results[i].episode = i
        /\ results[i].judged = {<<invocation, i>>}

(* While a session runs, only it has written into its directory.               *)
SessionOwnsWork == step = "session" => files[ep] = {Self}

IInv ==
    /\ AgentRunTypeOK
    /\ Progress
    /\ ResultsInOrder
    /\ SessionOwnsWork
    /\ ReportIsWhole

LEMMA InitIInv == AgentRunInit => IInv
<1> SUFFICES ASSUME AgentRunInit PROVE IInv
  OBVIOUS
<1> USE EpisodesAssumption, InvocationsAssumption
<1>1. AgentRunTypeOK
  BY DEF AgentRunInit, AgentRunTypeOK, NoReport, Report, Eps, Invocations
<1>2. Progress /\ ResultsInOrder /\ SessionOwnsWork /\ ReportIsWhole
  BY DEF AgentRunInit, Progress, ResultsInOrder, SessionOwnsWork, ReportIsWhole, NoReport
<1> QED BY <1>1, <1>2 DEF IInv

LEMMA NextIInv == IInv /\ [AgentRunNext]_agentRunVars => IInv'
<1> SUFFICES ASSUME IInv, [AgentRunNext]_agentRunVars PROVE IInv'
  OBVIOUS
<1> USE EpisodesAssumption, InvocationsAssumption
<1>t. /\ invocation \in Nat /\ ep \in Nat /\ Episodes \in Nat
      /\ Self \in Writers
      /\ results \in Seq(Record)
  BY DEF IInv, AgentRunTypeOK, Self, Writers, Eps, Invocations
<1>1. CASE ClearWork
  <2>1. AgentRunTypeOK'
    BY <1>1 DEF IInv, AgentRunTypeOK, ClearWork, Report
  <2>2. Progress' /\ ResultsInOrder' /\ SessionOwnsWork' /\ ReportIsWhole'
    BY <1>1 DEF IInv, Progress, ResultsInOrder, SessionOwnsWork, ReportIsWhole,
                ClearWork, OwnWork
  <2> QED BY <2>1, <2>2 DEF IInv
<1>2. CASE CopyTask
  <2>1. AgentRunTypeOK'
    BY <1>2, <1>t DEF IInv, AgentRunTypeOK, CopyTask, Report
  <2>2. Progress' /\ ResultsInOrder' /\ ReportIsWhole'
    BY <1>2 DEF IInv, Progress, ResultsInOrder, ReportIsWhole, CopyTask, OwnWork
  <2>3. SessionOwnsWork'
    BY <1>2 DEF IInv, AgentRunTypeOK, SessionOwnsWork, CopyTask, Self
  <2> QED BY <2>1, <2>2, <2>3 DEF IInv
<1>3. CASE CopyRefused
  <2>1. AgentRunTypeOK'
    BY <1>3 DEF IInv, AgentRunTypeOK, CopyRefused, Report
  <2>2. Progress' /\ ResultsInOrder' /\ SessionOwnsWork' /\ ReportIsWhole'
    BY <1>3 DEF IInv, Progress, ResultsInOrder, SessionOwnsWork, ReportIsWhole,
                CopyRefused, OwnWork
  <2> QED BY <2>1, <2>2 DEF IInv
<1>4. CASE SessionWrites
  <2>1. PICK f \in Eps : files' = [files EXCEPT ![f] = @ \cup {Self}]
    BY <1>4 DEF SessionWrites
  <2>2. AgentRunTypeOK'
    BY <1>4, <1>t, <2>1 DEF IInv, AgentRunTypeOK, SessionWrites, Report
  <2>3. Progress' /\ ResultsInOrder' /\ ReportIsWhole'
    BY <1>4 DEF IInv, Progress, ResultsInOrder, ReportIsWhole, SessionWrites, OwnWork
  <2>4. SessionOwnsWork'
    BY <1>4, <2>1 DEF IInv, AgentRunTypeOK, SessionOwnsWork, SessionWrites, Self
  <2> QED BY <2>2, <2>3, <2>4 DEF IInv
<1>5. CASE JudgeEpisode
  <2> DEFINE r == [episode |-> ep, judged |-> files[ep]]
  <2>1. r \in Record /\ r.episode = ep /\ r.judged = {<<invocation, ep>>}
    BY <1>5 DEF IInv, AgentRunTypeOK, SessionOwnsWork, JudgeEpisode, Record, Self
  <2>2. results' = Append(results, r) /\ Len(results) = ep - 1
    BY <1>5 DEF IInv, Progress, JudgeEpisode
  <2>3. /\ results' \in Seq(Record)
        /\ Len(results') = ep
        /\ results'[ep] = r
        /\ \A i \in 1 .. ep - 1 : results'[i] = results[i]
    <3> HIDE DEF r
    <3> QED BY <2>1, <2>2, <1>t
  <2>4. AgentRunTypeOK'
    BY <1>5, <2>3 DEF IInv, AgentRunTypeOK, JudgeEpisode, Eps, Report
  <2>5. Progress'
    BY <1>5, <1>t, <2>3 DEF JudgeEpisode, Progress
  <2>6. ResultsInOrder'
    <3> HIDE DEF r
    <3>1. invocation' = invocation
      BY <1>5 DEF JudgeEpisode
    <3>2. \A i \in 1 .. ep - 1 : results[i].episode = i /\ results[i].judged = {<<invocation, i>>}
      BY <2>2 DEF IInv, ResultsInOrder
    <3> QED BY <1>t, <2>1, <2>3, <3>1, <3>2 DEF ResultsInOrder
  <2>7. SessionOwnsWork' /\ ReportIsWhole'
    BY <1>5 DEF IInv, SessionOwnsWork, ReportIsWhole, JudgeEpisode, OwnWork
  <2> QED BY <2>4, <2>5, <2>6, <2>7 DEF IInv
<1>6. CASE OpenReport
  <2>1. AgentRunTypeOK'
    BY <1>6, <1>t DEF IInv, AgentRunTypeOK, OpenReport, Report, Invocations
  <2>2. Progress' /\ ResultsInOrder' /\ SessionOwnsWork' /\ ReportIsWhole'
    BY <1>6 DEF IInv, Progress, ResultsInOrder, SessionOwnsWork, ReportIsWhole, OpenReport
  <2> QED BY <2>1, <2>2 DEF IInv
<1>7. CASE DumpReport
  <2>1. AgentRunTypeOK'
    BY <1>7, <1>t DEF IInv, AgentRunTypeOK, DumpReport, Report, Invocations
  <2>2. Progress' /\ ResultsInOrder' /\ SessionOwnsWork'
    BY <1>7 DEF IInv, Progress, ResultsInOrder, SessionOwnsWork, DumpReport
  <2>3. ReportIsWhole'
    <3>1. /\ agentOut'.of = invocation /\ agentOut'.results = results /\ invocation' = invocation
          /\ Len(results) = Episodes
      BY <1>7 DEF IInv, Progress, DumpReport
    <3>2. ASSUME NEW i \in 1 .. Len(results)
          PROVE  results[i].episode = i /\ OwnWork(results[i], invocation)
      BY DEF IInv, ResultsInOrder, OwnWork
    <3>3. \A i \in 1 .. Len(agentOut'.results) :
            agentOut'.results[i].episode = i /\ OwnWork(agentOut'.results[i], agentOut'.of)
      BY <3>1, <3>2
    <3>4. agentOut'.of \in 1 .. invocation'
      BY <3>1 DEF IInv, AgentRunTypeOK, Invocations
    <3> HIDE DEF OwnWork
    <3> QED BY <3>1, <3>3, <3>4 DEF ReportIsWhole
  <2> QED BY <2>1, <2>2, <2>3 DEF IInv
<1>8. CASE Crash
  <2>1. AgentRunTypeOK'
    BY <1>8 DEF IInv, AgentRunTypeOK, Crash, Report
  <2>2. Progress' /\ ResultsInOrder' /\ SessionOwnsWork' /\ ReportIsWhole'
    BY <1>8 DEF IInv, Progress, ResultsInOrder, SessionOwnsWork, ReportIsWhole,
                Crash, OwnWork
  <2> QED BY <2>1, <2>2 DEF IInv
<1>9. CASE Restart
  <2>1. AgentRunTypeOK'
    BY <1>9, <1>t DEF IInv, AgentRunTypeOK, Restart, Report, Invocations, Eps
  <2>2. Progress' /\ ResultsInOrder' /\ SessionOwnsWork'
    BY <1>9 DEF Progress, ResultsInOrder, SessionOwnsWork, Restart
  <2>3. ReportIsWhole'
    BY <1>9, <1>t DEF IInv, ReportIsWhole, OwnWork, Restart
  <2> QED BY <2>1, <2>2, <2>3 DEF IInv
<1>10. CASE UNCHANGED agentRunVars
  <2>1. AgentRunTypeOK'
    BY <1>10 DEF IInv, AgentRunTypeOK, agentRunVars, Report
  <2>2. Progress' /\ ResultsInOrder' /\ SessionOwnsWork' /\ ReportIsWhole'
    BY <1>10 DEF IInv, Progress, ResultsInOrder, SessionOwnsWork, ReportIsWhole,
                 agentRunVars, OwnWork, Self
  <2> QED BY <2>1, <2>2 DEF IInv
<1> QED
  BY <1>1, <1>2, <1>3, <1>4, <1>5, <1>6, <1>7, <1>8, <1>9, <1>10 DEF AgentRunNext, Program

LEMMA SafetyIInv == Safety => []IInv
BY InitIInv, NextIInv, PTL DEF Safety

(* Every variable keeps its type.                                              *)
THEOREM TypeCorrect == AgentRunSpec => []AgentRunTypeOK
<1>1. IInv => AgentRunTypeOK
  BY DEF IInv
<1> QED BY <1>1, SafetyIInv, PTL DEF AgentRunSpec

(* No episode is judged on anything but its own work, whatever rmtree left     *)
(* behind and whatever the sessions wrote past their own directories.          *)
THEOREM OwnWorkJudged == AgentRunSpec => []JudgedOnOwnWork
<1>1. IInv => JudgedOnOwnWork
  BY DEF IInv, ResultsInOrder, JudgedOnOwnWork, OwnWork
<1> QED BY <1>1, SafetyIInv, PTL DEF AgentRunSpec

(* A complete report is of one whole invocation.                               *)
THEOREM WholeReport == AgentRunSpec => []ReportIsWhole
<1>1. IInv => ReportIsWhole
  BY DEF IInv
<1> QED BY <1>1, SafetyIInv, PTL DEF AgentRunSpec

(* A directory that has been judged is not written again by this invocation:   *)
(* main clears and copies only the current episode's, and the names a session  *)
(* can reach besides its own belong to later episodes.                         *)
THEOREM JudgedEvidenceKept == AgentRunSpec => EvidenceKept
<1> DEFINE Kept == \A i \in 1 .. Len(results) :
                      files'[results[i].episode] = files[results[i].episode]
<1>1. IInv /\ [AgentRunNext]_agentRunVars => [invocation' = invocation => Kept]_agentRunVars
  <2> SUFFICES ASSUME IInv, [AgentRunNext]_agentRunVars PROVE Kept
    OBVIOUS
  <2> USE EpisodesAssumption DEF Eps
  <2>1. CASE files' = files
    BY <2>1
  <2>2. ASSUME NEW f \in Eps, NEW v, files' = [files EXCEPT ![f] = v],
               f >= ep, Len(results) = ep - 1
        PROVE  Kept
    <3> SUFFICES ASSUME NEW i \in 1 .. Len(results)
                 PROVE  files'[results[i].episode] = files[results[i].episode]
      OBVIOUS
    <3>1. results[i].episode = i
      BY DEF IInv, ResultsInOrder
    <3>2. i # f /\ i \in Eps
      BY <2>2 DEF IInv, AgentRunTypeOK
    <3> QED BY <2>2, <3>1, <3>2 DEF IInv, AgentRunTypeOK
  <2>3. CASE ClearWork
    <3>1. CASE files' = files
      BY <2>1, <3>1
    <3>2. CASE files' = [files EXCEPT ![ep] = {}]
      <4>1. ep \in Eps /\ ep >= ep /\ Len(results) = ep - 1
        BY <2>3 DEF ClearWork, IInv, AgentRunTypeOK, Progress
      <4> QED BY <2>2, <3>2, <4>1
    <3> QED BY <2>3, <3>1, <3>2 DEF ClearWork
  <2>4. CASE CopyTask
    <3>1. ep \in Eps /\ ep >= ep /\ Len(results) = ep - 1
      BY <2>4 DEF CopyTask, IInv, AgentRunTypeOK, Progress
    <3> QED BY <2>2, <2>4, <3>1 DEF CopyTask
  <2>5. CASE SessionWrites
    <3>1. PICK f \in Eps : Extends(f, ep) /\ files' = [files EXCEPT ![f] = @ \cup {Self}]
      BY <2>5 DEF SessionWrites
    <3>2. f >= ep
      BY <3>1, ExtendsIsLater DEF IInv, AgentRunTypeOK
    <3> QED BY <2>2, <2>5, <3>1, <3>2 DEF SessionWrites, IInv, Progress
  <2> QED
    BY <2>1, <2>3, <2>4, <2>5
    DEF AgentRunNext, Program, CopyRefused, JudgeEpisode, OpenReport, DumpReport, Crash, Restart, agentRunVars
<1> QED BY <1>1, SafetyIInv, PTL DEF AgentRunSpec, Safety, EvidenceKept

================================================================================
