------------------------------ MODULE AgentEpisode ------------------------------
(* One multi-turn episode of the agent harness: run_episode and the Sandbox it *)
(* drives (bench/scripts/agent_loop.py).  One action is one turn of the loop:  *)
(* the request, the reply of the model server (external: any reply is          *)
(* possible), the tool it asks for, and everything the handler appends.        *)
(*                                                                             *)
(* Text is abstracted to where it comes from.  A message records the turn      *)
(* whose tool call it carries or answers and the turn whose execution produced *)
(* its content; Python's local `result' is the number of the turn that last    *)
(* assigned it, 0 while it is unbound.                                         *)
EXTENDS Integers, Sequences

CONSTANTS
    MaxTurns,   \* --max-turns
    ReadTools,  \* the tools that leave the project alone: list_dir, read_file, run_tests
    Projects,   \* the contents a project directory can have
    Passing,    \* the contents whose own test suite exits 0
    Pristine    \* the task as it is copied for every episode

ASSUME TurnsAssumption == MaxTurns \in Nat \ {0}

ASSUME ToolsAssumption ==
    ReadTools \cap {"write_file", "finish", "unknown", "none"} = {}

ASSUME ProjectsAssumption ==
    /\ Passing \subseteq Projects
    /\ Pristine \in Projects \ Passing

VARIABLES
    pc,         \* "running", "judging" (after the loop), "done" or "crashed"
    messages,   \* the transcript sent with every request
    turns,      \* the records of the report, one per turn
    errors,     \* the counter behind both the stall rule and tool_errors
    result,     \* the turn that last bound the local `result', Unbound if none
    project,    \* the contents of the sandbox directory
    verdict     \* tests_pass of the returned record

vars == <<pc, messages, turns, errors, result, project, verdict>>

Tools == ReadTools \cup {"write_file", "finish"}

StallLimit == 3
Unbound == 0

(* The turn being executed, numbered from 1 like `turn' in the loop.           *)
Turn == Len(turns) + 1

Message(role, call, from) == [role |-> role, call |-> call, from |-> from]

Init ==
    /\ pc = "running"
    /\ messages = <<Message("system", 0, 0), Message("user", 0, 0)>>
    /\ turns = <<>>
    /\ errors = 0
    /\ result = Unbound
    /\ project = Pristine
    /\ verdict = FALSE

(* Plausible bug: the loop bound is lost, only a break leaves the loop.        *)
LeaveUnbounded(break) ==
    pc' = IF break THEN "judging" ELSE "running"

(* A break, or the loop running out of turns, goes on to the judgement.        *)
Leave(break) ==
    pc' = IF break \/ Turn = MaxTurns THEN "judging" ELSE "running"

Record(status, tool) ==
    turns' = Append(turns, [status |-> status, tool |-> tool])

(* What a tool call leaves in the directory: only write_file changes it, and   *)
(* it may leave any contents, a file truncated before the failing write too.   *)
After(tool) == IF tool = "write_file" THEN Projects ELSE {project}

(* Plausible bug: any finish ends the session, accepted or not.                *)
AnswerAnyFinish(status, tool, from) ==
    /\ messages' = messages \o <<Message("assistant", Turn, Turn),
                                 Message("tool", Turn, from)>>
    /\ Record(status, tool)
    /\ result' = from
    /\ Leave(tool = "finish")
    /\ UNCHANGED verdict

(* The echo of the assistant turn and the common tail of the handler: the      *)
(* `result' in hand, whichever turn bound it, is sent back under this call.    *)
Answer(status, tool, from) ==
    /\ messages' = messages \o <<Message("assistant", Turn, Turn),
                                 Message("tool", Turn, from)>>
    /\ Record(status, tool)
    /\ result' = from
    /\ Leave(tool = "finish" /\ status = "ok")
    /\ UNCHANGED verdict

(* chat() raises: connection refused, timeout, HTTP status, body not JSON.     *)
ChatFails ==
    /\ pc = "running"
    /\ Record("http_error", "none")
    /\ Leave(TRUE)
    /\ UNCHANGED <<messages, errors, result, project, verdict>>

(* A reply that is JSON but lacks choices, message, function, name or id: the  *)
(* lookup is outside every try.  Only the id is read after the tool has run.   *)
MalformedReply ==
    /\ pc = "running"
    /\ pc' = "crashed"
    /\ project' \in Projects
    /\ UNCHANGED <<messages, turns, errors, result, verdict>>

(* Plausible bug: the nudge is forgotten, the next request ends in an assistant *)
(* message.                                                                    *)
NoToolCallSilent ==
    LET stalled == errors + 1 >= StallLimit IN
    /\ pc = "running"
    /\ Record(IF stalled THEN "stalled" ELSE "no_tool_call", "none")
    /\ errors' = errors + 1
    /\ messages' = Append(messages, Message("assistant", 0, Turn))
    /\ Leave(stalled)
    /\ UNCHANGED <<result, project, verdict>>

(* No tool call: the model is nudged, or given up on once three errors of any  *)
(* kind have accumulated.  The comment there says to nudge once; with no other *)
(* error the counter nudges twice.                                             *)
NoToolCall ==
    LET stalled == errors + 1 >= StallLimit IN
    /\ pc = "running"
    /\ Record(IF stalled THEN "stalled" ELSE "no_tool_call", "none")
    /\ errors' = errors + 1
    /\ messages' = messages \o <<Message("assistant", 0, Turn), Message("user", 0, 0)>>
    /\ Leave(stalled)
    /\ UNCHANGED <<result, project, verdict>>

(* A name that is not one of the tools offered.                                *)
HallucinatedTool ==
    /\ pc = "running"
    /\ Answer("hallucinated_tool", "unknown", Turn)
    /\ errors' = errors + 1
    /\ UNCHANGED project

(* Plausible bug: the handler of bad JSON does not assign `result'.            *)
BadJsonKeepsResult(tool) ==
    /\ pc = "running"
    /\ Answer("bad_json", tool, result)
    /\ errors' = errors + 1
    /\ UNCHANGED project

BadJson(tool) ==
    /\ pc = "running"
    /\ Answer("bad_json", tool, Turn)
    /\ errors' = errors + 1
    /\ UNCHANGED project

(* Arguments that decode to None (the JSON text null): the status is already   *)
(* "ok", the call is skipped, and `result' still holds an earlier reply.       *)
NullArguments(tool) ==
    /\ pc = "running"
    /\ result # Unbound
    /\ Answer("ok", tool, result)
    /\ UNCHANGED <<errors, project>>

(* The same before any tool has answered: UnboundLocalError.                   *)
NullArgumentsUnbound ==
    /\ pc = "running"
    /\ result = Unbound
    /\ pc' = "crashed"
    /\ UNCHANGED <<messages, turns, errors, result, project, verdict>>

(* The call raises TypeError: wrong parameters, or a write_file whose content  *)
(* is no string, which has by then truncated the file.                         *)
BadArgs(tool) ==
    /\ pc = "running"
    /\ tool # "finish"
    /\ Answer("bad_args", tool, Turn)
    /\ errors' = errors + 1
    /\ project' \in After(tool)

(* Plausible bug: a tool that raises is tried again without using up a turn.   *)
ToolRaisesRetried(tool) ==
    /\ pc = "running"
    /\ project' \in After(tool)
    /\ UNCHANGED <<pc, messages, turns, errors, result, verdict>>

(* Any other exception, the suite's timeout too.  It is not counted.           *)
ToolRaises(tool) ==
    /\ pc = "running"
    /\ Answer("tool_error", tool, Turn)
    /\ project' \in After(tool)
    /\ UNCHANGED errors

ToolRuns(tool) ==
    /\ pc = "running"
    /\ Answer("ok", tool, Turn)
    /\ project' \in After(tool)
    /\ UNCHANGED errors

(* Plausible bug: an accepted finish is believed instead of the suite.         *)
JudgeByFinish ==
    /\ pc = "judging"
    /\ pc' = "done"
    /\ verdict' = (turns[Len(turns)] = [status |-> "ok", tool |-> "finish"])
    /\ UNCHANGED <<messages, turns, errors, result, project>>

(* tests_pass: a suite that outlives its timeout counts as failing.            *)
Judge ==
    /\ pc = "judging"
    /\ pc' = "done"
    /\ verdict' \in BOOLEAN
    /\ verdict' = TRUE => project \in Passing
    /\ UNCHANGED <<messages, turns, errors, result, project>>

(* tests_pass raising what it does not catch: no interpreter at --pytest-bin,  *)
(* or suite output that does not decode.                                       *)
JudgeRaises ==
    /\ pc = "judging"
    /\ pc' = "crashed"
    /\ UNCHANGED <<messages, turns, errors, result, project, verdict>>

Next ==
    \/ ChatFails
    \/ MalformedReply
    \/ NoToolCall
    \/ HallucinatedTool
    \/ \E tool \in Tools :
        \/ BadJson(tool)
        \/ NullArguments(tool)
        \/ BadArgs(tool)
        \/ ToolRaises(tool)
        \/ ToolRuns(tool)
    \/ NullArgumentsUnbound
    \/ Judge
    \/ JudgeRaises

Safety == Init /\ [][Next]_vars

(* Every wait of the loop is bounded by the code: a request by urlopen's 900 s *)
(* timeout, a suite by subprocess's 120 s.  So the episode keeps taking steps. *)
Spec == Safety /\ WF_vars(Next)

--------------------------------------------------------------------------------
(* Properties.                                                                 *)

FaultStatuses == {"no_tool_call", "stalled", "hallucinated_tool", "bad_json", "bad_args"}
Statuses == FaultStatuses \cup {"http_error", "tool_error", "ok"}

MessageType ==
    [role : {"system", "user", "assistant", "tool"}, call : 0 .. MaxTurns, from : 0 .. MaxTurns]
TurnType == [status : Statuses, tool : Tools \cup {"unknown", "none"}]

TypeOK ==
    /\ pc \in {"running", "judging", "done", "crashed"}
    /\ messages \in Seq(MessageType)
    /\ turns \in Seq(TurnType)
    /\ Len(turns) <= MaxTurns
    /\ pc = "running" => Len(turns) < MaxTurns
    /\ errors \in 0 .. MaxTurns
    /\ result \in 0 .. MaxTurns
    /\ project \in Projects
    /\ verdict \in BOOLEAN

(* The transcript every request carries is one the chat template accepts:      *)
(* an assistant message is never the last one, a tool call is answered at once *)
(* under its own id (only calls[0] is echoed, however many came), and a tool   *)
(* message answers the message before it.                                      *)
TranscriptAnswered ==
    \A i \in 1 .. Len(messages) :
        LET m == messages[i] IN
        /\ m.role = "assistant" =>
              /\ i < Len(messages)
              /\ messages[i + 1].role = IF m.call = 0 THEN "user" ELSE "tool"
              /\ messages[i + 1].call = m.call
        /\ m.role = "tool" =>
              /\ i > 1
              /\ messages[i - 1].role = "assistant"
              /\ messages[i - 1].call = m.call

(* The turn records after which run_episode breaks out of its loop.            *)
Ends(t) ==
    \/ t.status \in {"http_error", "stalled"}
    \/ t.status = "ok" /\ t.tool = "finish"

(* A session is left for one of four reasons - transport, stall, finish, turns *)
(* used up - and not one turn later: a finish whose arguments do not parse, or *)
(* that raises, does not end it, an accepted one always does.                  *)
LeftForAReason ==
    /\ \A i \in 1 .. Len(turns) - 1 : ~ Ends(turns[i])
    /\ pc = "running" => \A i \in 1 .. Len(turns) : ~ Ends(turns[i])
    /\ pc \in {"judging", "done"} =>
          \/ Len(turns) = MaxTurns
          \/ Ends(turns[Len(turns)])

(* A tool message whose content is not that of its own call repeats the tool   *)
(* message before it: it answers an "ok" turn whose arguments were null, never *)
(* a turn the loop counted as a fault and never an unbound local.              *)
ToolMessages == {i \in 1 .. Len(messages) : messages[i].role = "tool"}
StaleRepliesRepeat ==
    \A i \in ToolMessages :
        LET m == messages[i] IN
        m.from # m.call =>
            /\ turns[m.call].status = "ok"
            /\ \E j \in ToolMessages :
                /\ j < i
                /\ messages[j].from = m.from
                /\ \A k \in ToolMessages : k <= j \/ k >= i

(* "The tools really touch the filesystem and really run the tests": the text  *)
(* sent back under a tool call was produced by executing that call.            *)
RepliesAreReal ==
    \A i \in ToolMessages : messages[i].from = messages[i].call

(* Whatever the model does, the episode ends, judged or by an exception.       *)
Terminates == <>(pc \in {"done", "crashed"})

(* The episode keeps its contract: solved is reported only of a project whose  *)
(* suite passes when the session is over.                                      *)
Phase ==
    CASE pc = "running" -> "open"
      [] pc = "judging" -> "closed"
      [] pc = "done"    -> "judged"
      [] OTHER          -> "crashed"

Contract == INSTANCE EpisodeContract WITH phase <- Phase

ImplementsContract == Contract!Spec

================================================================================
