-------------------------------- MODULE AgentRun --------------------------------
(* The program around the episodes: main of bench/scripts/agent_loop.py, run   *)
(* again and again over the same --work-root and --out, as run_all.sh does.    *)
(*                                                                             *)
(* A directory is abstracted to who wrote into it: files[e] is the set of      *)
(* <<invocation, episode>> pairs that put something into ep<e>, {} while the   *)
(* directory does not exist.  How a session is led is AgentEpisode's business; *)
(* here its turns only write.                                                  *)
EXTENDS Integers, Sequences

CONSTANTS
    Episodes,       \* --episodes
    Powers,         \* the powers of the base episode numbers are written in
    MaxInvocations  \* bound: how often the program is started

ASSUME EpisodesAssumption == Episodes \in Nat \ {0}
ASSUME PowersAssumption == Powers \subseteq Nat \ {0}
ASSUME InvocationsAssumption == MaxInvocations \in Nat \ {0}

VARIABLES
    invocation, \* which run of the program this is
    ep,         \* the loop variable of main
    step,       \* where main is
    files,      \* who wrote into each episode's directory
    results,    \* the records collected, in memory
    agentOut    \* the file at --out

agentRunVars == <<invocation, ep, step, files, results, agentOut>>

Eps == 1 .. Episodes
Invocations == 1 .. MaxInvocations
Writers == Invocations \X Eps

(* The current episode as a writer.                                            *)
Self == <<invocation, ep>>

(* Plausible bug: the prefix test taken in either direction.                   *)
Overlaps(f, e) == \E p \in Powers : \E r \in 0 .. p - 1 : f = e * p + r \/ e = f * p + r

(* Sandbox._resolve accepts every path that starts with the text of its root,  *)
(* so .../ep1 also admits .../ep10: the decimal numeral of f extends that of e *)
(* when f = e * 10^k + r with r < 10^k.                                        *)
Extends(f, e) == \E p \in Powers : \E r \in 0 .. p - 1 : f = e * p + r

NoReport == [state |-> "absent", of |-> 0, results |-> <<>>]

AgentRunInit ==
    /\ invocation = 1
    /\ ep = 1
    /\ step = "clear"
    /\ files = [e \in Eps |-> {}]
    /\ results = <<>>
    /\ agentOut = NoReport

(* shutil.rmtree with ignore_errors: what cannot be removed stays, unreported. *)
ClearWork ==
    /\ step = "clear"
    /\ step' = "copy"
    /\ files' \in {[files EXCEPT ![ep] = {}], files}
    /\ UNCHANGED <<invocation, ep, results, agentOut>>

(* Plausible bug: copytree told to accept a directory that exists.             *)
CopyOver ==
    /\ step = "copy"
    /\ step' = "session"
    /\ files' = [files EXCEPT ![ep] = @ \cup {Self}]
    /\ UNCHANGED <<invocation, ep, results, agentOut>>

CopyTask ==
    /\ step = "copy"
    /\ files[ep] = {}
    /\ step' = "session"
    /\ files' = [files EXCEPT ![ep] = {Self}]
    /\ UNCHANGED <<invocation, ep, results, agentOut>>

(* Plausible bug: a refused copy is retried after another rmtree, without end. *)
CopyRetried ==
    /\ step = "copy"
    /\ files[ep] # {}
    /\ step' = "clear"
    /\ UNCHANGED <<invocation, ep, files, results, agentOut>>

(* copytree refuses a directory that already exists, and main does not catch it. *)
CopyRefused ==
    /\ step = "copy"
    /\ files[ep] # {}
    /\ step' = "dead"
    /\ UNCHANGED <<invocation, ep, files, results, agentOut>>

(* A tool call of the session writes where _resolve lets it: into its own      *)
(* directory, or into one whose name extends its own.                          *)
SessionWrites ==
    /\ step = "session"
    /\ \E f \in Eps :
        /\ Extends(f, ep)
        /\ files' = [files EXCEPT ![f] = @ \cup {Self}]
    /\ UNCHANGED <<invocation, ep, step, results, agentOut>>

(* Plausible bug: the loop runs one episode too many.                          *)
JudgeOneMore ==
    /\ step = "session"
    /\ results' = Append(results, [episode |-> ep, judged |-> files[ep]])
    /\ IF ep > Episodes
         THEN /\ step' = "report"
              /\ UNCHANGED ep
         ELSE /\ step' = "clear"
              /\ ep' = ep + 1
    /\ UNCHANGED <<invocation, files, agentOut>>

(* The session is over and the directory is judged as it is found; the record  *)
(* is kept in memory and the loop goes on.                                     *)
JudgeEpisode ==
    /\ step = "session"
    /\ results' = Append(results, [episode |-> ep, judged |-> files[ep]])
    /\ IF ep = Episodes
         THEN /\ step' = "report"
              /\ UNCHANGED ep
         ELSE /\ step' = "clear"
              /\ ep' = ep + 1
    /\ UNCHANGED <<invocation, files, agentOut>>

(* The report is written once, after the last episode: open truncates the old  *)
(* file, json.dump fills the new one.                                          *)
OpenReport ==
    /\ step = "report"
    /\ step' = "dump"
    /\ agentOut' = [state |-> "partial", of |-> invocation, results |-> <<>>]
    /\ UNCHANGED <<invocation, ep, files, results>>

DumpReport ==
    /\ step = "dump"
    /\ step' = "done"
    /\ agentOut' = [state |-> "complete", of |-> invocation, results |-> results]
    /\ UNCHANGED <<invocation, ep, files, results>>

(* Plausible bug: the report is written on the way out of a failing run too.   *)
CrashReporting ==
    /\ step \notin {"dead", "done"}
    /\ step' = "dead"
    /\ agentOut' = [state |-> "complete", of |-> invocation, results |-> results]
    /\ UNCHANGED <<invocation, ep, files, results>>

(* An exception that leaves run_episode (a malformed reply, an unbound result, *)
(* a verdict that cannot be taken), a full disk, a kill.                       *)
Crash ==
    /\ step \notin {"dead", "done"}
    /\ step' = "dead"
    /\ UNCHANGED <<invocation, ep, files, results, agentOut>>

(* The operator starts the program again; only the files survive.              *)
Restart ==
    /\ step \in {"dead", "done"}
    /\ invocation < MaxInvocations
    /\ invocation' = invocation + 1
    /\ ep' = 1
    /\ step' = "clear"
    /\ results' = <<>>
    /\ UNCHANGED <<files, agentOut>>

Program ==
    \/ ClearWork
    \/ CopyTask
    \/ CopyRefused
    \/ SessionWrites
    \/ JudgeEpisode
    \/ OpenReport
    \/ DumpReport

AgentRunNext == Program \/ Crash \/ Restart

Safety == AgentRunInit /\ [][AgentRunNext]_agentRunVars

(* The session ends (AgentEpisode!Terminates) and nothing else of main waits.  *)
(* That the operator restarts, or that nothing crashes, is not assumed.        *)
AgentRunSpec ==
    /\ Safety
    /\ WF_agentRunVars(ClearWork \/ CopyTask \/ CopyRefused \/ OpenReport \/ DumpReport)
    /\ WF_agentRunVars(JudgeEpisode)

--------------------------------------------------------------------------------
(* Properties.                                                                 *)

Record == [episode : Eps, judged : SUBSET Writers]
Report == [state : {"absent", "partial", "complete"}, of : 0 .. MaxInvocations,
           results : Seq(Record)]

AgentRunTypeOK ==
    /\ invocation \in Invocations
    /\ ep \in Eps
    /\ step \in {"clear", "copy", "session", "report", "dump", "done", "dead"}
    /\ files \in [Eps -> SUBSET Writers]
    /\ results \in Seq(Record)
    /\ agentOut \in Report

(* An episode is judged on its own work alone: nothing an earlier invocation   *)
(* left behind although rmtree failed silently, nothing a session wrote past   *)
(* its own directory, whichever episodes came before it.                       *)
OwnWork(r, inv) == r.judged = {<<inv, r.episode>>}

JudgedOnOwnWork ==
    \A i \in 1 .. Len(results) : OwnWork(results[i], invocation)

(* Once judged, a directory stays as it was judged until the program is        *)
(* started again: it is the evidence for the verdict.  Sessions can write      *)
(* outside their directory, but only into one that is still to be cleared.     *)
EvidenceKept ==
    [][ invocation' = invocation =>
          \A i \in 1 .. Len(results) :
              files'[results[i].episode] = files[results[i].episode] ]_agentRunVars

(* A report is of one invocation and of all its episodes, in order, each judged *)
(* on its own work; it is never completed by a run that lost an episode, and a *)
(* report that is not this invocation's is an earlier one's, untouched.        *)
ReportIsWhole ==
    agentOut.state = "complete" =>
        /\ agentOut.of \in 1 .. invocation
        /\ Len(agentOut.results) = Episodes
        /\ \A i \in 1 .. Len(agentOut.results) :
            /\ agentOut.results[i].episode = i
            /\ OwnWork(agentOut.results[i], agentOut.of)

(* Every started program comes to its end.                                     *)
AgentRunEnds == []<>(step \in {"done", "dead"})

================================================================================
