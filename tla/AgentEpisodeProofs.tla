--------------------------- MODULE AgentEpisodeProofs ---------------------------
(* Proofs about AgentEpisode, for every bound on the turns, every set of tools *)
(* and every set of projects.                                                  *)
EXTENDS AgentEpisode, TLAPS

(* Two messages appended to a transcript.                                      *)
LEMMA ExchangeAppends ==
    ASSUME NEW s \in Seq(MessageType), NEW a \in MessageType, NEW b \in MessageType,
           NEW u, u = s \o <<a, b>>
    PROVE  /\ u \in Seq(MessageType)
           /\ Len(u) = Len(s) + 2
           /\ \A i \in 1 .. Len(s) : u[i] = s[i]
           /\ u[Len(s) + 1] = a
           /\ u[Len(s) + 2] = b
<1> HIDE DEF MessageType
<1> QED OBVIOUS

(* The well-formedness of TranscriptAnswered, of any transcript.               *)
WellFormed(s) ==
    \A i \in 1 .. Len(s) :
        LET m == s[i] IN
        /\ m.role = "assistant" =>
              /\ i < Len(s)
              /\ s[i + 1].role = IF m.call = 0 THEN "user" ELSE "tool"
              /\ s[i + 1].call = m.call
        /\ m.role = "tool" =>
              /\ i > 1
              /\ s[i - 1].role = "assistant"
              /\ s[i - 1].call = m.call

(* An assistant message with its answer keeps a transcript well-formed.        *)
LEMMA ExchangeKeepsWellFormed ==
    ASSUME NEW s \in Seq(MessageType), NEW a \in MessageType, NEW b \in MessageType,
           WellFormed(s), a.role = "assistant", a.call = b.call,
           b.role = IF a.call = 0 THEN "user" ELSE "tool"
    PROVE  WellFormed(s \o <<a, b>>)
<1> DEFINE u == s \o <<a, b>>
<1>1. /\ Len(u) = Len(s) + 2
      /\ \A i \in 1 .. Len(s) : u[i] = s[i]
      /\ u[Len(s) + 1] = a
      /\ u[Len(s) + 2] = b
  BY ExchangeAppends
<1>2. Len(s) \in Nat
  OBVIOUS
<1> HIDE DEF u
<1> SUFFICES ASSUME NEW i \in 1 .. Len(u)
             PROVE  /\ u[i].role = "assistant" =>
                          /\ i < Len(u)
                          /\ u[i + 1].role = IF u[i].call = 0 THEN "user" ELSE "tool"
                          /\ u[i + 1].call = u[i].call
                    /\ u[i].role = "tool" =>
                          /\ i > 1
                          /\ u[i - 1].role = "assistant"
                          /\ u[i - 1].call = u[i].call
  BY DEF WellFormed, u
<1>3. CASE i = Len(s) + 1
  BY <1>1, <1>2, <1>3
<1>4. CASE i = Len(s) + 2
  <2>1. i - 1 = Len(s) + 1 /\ i > 1
    BY <1>2, <1>4
  <2> QED BY <1>1, <1>4, <2>1
<1>5. CASE i \in 1 .. Len(s)
  <2>1. u[i] = s[i]
    BY <1>1, <1>5
  <2>2. ASSUME s[i].role = "assistant"
        PROVE  i + 1 \in 1 .. Len(s) /\ u[i + 1] = s[i + 1]
    BY <1>1, <1>2, <1>5, <2>2 DEF WellFormed
  <2>3. ASSUME s[i].role = "tool"
        PROVE  i - 1 \in 1 .. Len(s) /\ u[i - 1] = s[i - 1]
    BY <1>1, <1>2, <1>5, <2>3 DEF WellFormed
  <2> QED BY <1>1, <1>2, <1>5, <2>1, <2>2, <2>3 DEF WellFormed
<1> QED BY <1>1, <1>2, <1>3, <1>4, <1>5

(* The inductive invariant: what the properties say, and that the error counter *)
(* never runs ahead of the turns, which keeps it in its type.                   *)
IInv ==
    /\ TypeOK
    /\ errors <= Len(turns)
    /\ TranscriptAnswered
    /\ LeftForAReason

(* What the six actions that answer a tool call have in common.                *)
Answers(status, tool, from) ==
    /\ pc = "running"
    /\ status \in {"hallucinated_tool", "bad_json", "bad_args", "tool_error", "ok"}
    /\ tool \in Tools \cup {"unknown"}
    /\ from \in 0 .. MaxTurns
    /\ from = Turn \/ (status = "ok" /\ from = result /\ result # Unbound)
    /\ Answer(status, tool, from)
    /\ errors' = errors + (IF status \in FaultStatuses THEN 1 ELSE 0)
    /\ project' \in Projects

ToolTurn ==
    \/ HallucinatedTool
    \/ \E tool \in Tools :
        \/ BadJson(tool)
        \/ NullArguments(tool)
        \/ BadArgs(tool)
        \/ ToolRaises(tool)
        \/ ToolRuns(tool)

LEMMA ToolTurnAnswers ==
    ASSUME TypeOK, ToolTurn
    PROVE  \E status, tool, from : Answers(status, tool, from)
<1>1. ASSUME pc = "running" PROVE Turn \in 0 .. MaxTurns
  BY <1>1, TurnsAssumption DEF TypeOK, Turn
<1>2. project \in Projects /\ \A tool : After(tool) \subseteq Projects
  BY DEF TypeOK, After
<1>e. errors \in Nat
  BY TurnsAssumption DEF TypeOK
<1>3. CASE HallucinatedTool
  <2>1. Answers("hallucinated_tool", "unknown", Turn)
    BY <1>1, <1>2, <1>e, <1>3 DEF HallucinatedTool, Answers, FaultStatuses
  <2> QED BY <2>1
<1>4. ASSUME NEW tool \in Tools, BadJson(tool)
      PROVE  Answers("bad_json", tool, Turn)
  BY <1>1, <1>2, <1>e, <1>4 DEF BadJson, Answers, FaultStatuses
<1>5. ASSUME NEW tool \in Tools, NullArguments(tool)
      PROVE  Answers("ok", tool, result)
  BY <1>2, <1>e, <1>5 DEF NullArguments, Answers, FaultStatuses, TypeOK
<1>6. ASSUME NEW tool \in Tools, BadArgs(tool)
      PROVE  Answers("bad_args", tool, Turn)
  BY <1>1, <1>2, <1>e, <1>6 DEF BadArgs, Answers, FaultStatuses
<1>7. ASSUME NEW tool \in Tools, ToolRaises(tool)
      PROVE  Answers("tool_error", tool, Turn)
  BY <1>1, <1>2, <1>e, <1>7 DEF ToolRaises, Answers, FaultStatuses
<1>8. ASSUME NEW tool \in Tools, ToolRuns(tool)
      PROVE  Answers("ok", tool, Turn)
  BY <1>1, <1>2, <1>e, <1>8 DEF ToolRuns, Answers, FaultStatuses
<1> QED BY <1>3, <1>4, <1>5, <1>6, <1>7, <1>8 DEF ToolTurn

(* A turn that answers a tool call keeps the invariant.                        *)
LEMMA AnswerKeepsIInv ==
    ASSUME IInv, NEW status, NEW tool, NEW from, Answers(status, tool, from)
    PROVE  IInv'
<1> DEFINE a == Message("assistant", Turn, Turn)
           b == Message("tool", Turn, from)
           t == [status |-> status, tool |-> tool]
           n == Len(turns)
<1> USE TurnsAssumption
<1>1. /\ n \in Nat /\ n < MaxTurns /\ errors \in Nat /\ errors <= n
      /\ turns \in Seq(TurnType) /\ messages \in Seq(MessageType)
      /\ pc = "running"
  BY DEF IInv, TypeOK, Answers
<1>2. a \in MessageType /\ b \in MessageType /\ t \in TurnType
  BY <1>1 DEF Answers, Message, MessageType, TurnType, Statuses, FaultStatuses, Turn
<1>3. /\ messages' = messages \o <<a, b>>
      /\ turns' = Append(turns, t)
      /\ result' = from
      /\ pc' = IF (tool = "finish" /\ status = "ok") \/ n + 1 = MaxTurns
                 THEN "judging" ELSE "running"
      /\ verdict' = verdict
  BY DEF Answers, Answer, Record, Leave, Turn
<1>4. /\ Len(turns') = n + 1
      /\ \A i \in 1 .. n : turns'[i] = turns[i]
      /\ turns'[n + 1] = t
      /\ turns' \in Seq(TurnType)
  <2> HIDE DEF t
  <2> QED BY <1>1, <1>2, <1>3
<1>5. errors' = errors + (IF status \in FaultStatuses THEN 1 ELSE 0)
  BY DEF Answers
<1>6. TypeOK'
  <2>1. messages' \in Seq(MessageType)
    <3> HIDE DEF a, b
    <3> QED BY <1>1, <1>2, <1>3, ExchangeAppends
  <2>2. errors' \in 0 .. MaxTurns
    BY <1>1, <1>5
  <2> QED BY <1>1, <1>3, <1>4, <2>1, <2>2 DEF IInv, TypeOK, Answers
<1>7. errors' <= Len(turns')
  BY <1>1, <1>4, <1>5
<1>8. TranscriptAnswered'
  <2>1. WellFormed(messages)
    BY DEF IInv, TranscriptAnswered, WellFormed
  <2>2. a.role = "assistant" /\ b.role = "tool" /\ a.call = b.call /\ a.call # 0
    BY <1>1 DEF Message, Turn
  <2>3. WellFormed(messages \o <<a, b>>)
    <3> HIDE DEF a, b
    <3> QED BY <1>1, <1>2, <2>1, <2>2, ExchangeKeepsWellFormed
  <2> QED BY <1>3, <2>3 DEF TranscriptAnswered, WellFormed
<1>9. LeftForAReason'
  <2>1. \A i \in 1 .. n : ~ Ends(turns'[i])
    BY <1>1, <1>4 DEF IInv, LeftForAReason
  <2>2. Ends(turns'[n + 1]) <=> status = "ok" /\ tool = "finish"
    BY <1>4 DEF Ends, Answers
  <2> QED BY <1>1, <1>3, <1>4, <2>1, <2>2 DEF LeftForAReason
<1> QED BY <1>6, <1>7, <1>8, <1>9 DEF IInv

LEMMA NoToolCallKeepsIInv ==
    ASSUME IInv, NoToolCall
    PROVE  IInv'
<1> DEFINE a == Message("assistant", 0, Turn)
           b == Message("user", 0, 0)
           stalled == errors + 1 >= StallLimit
           t == [status |-> IF stalled THEN "stalled" ELSE "no_tool_call", tool |-> "none"]
           n == Len(turns)
<1> USE TurnsAssumption
<1>1. /\ n \in Nat /\ n < MaxTurns /\ errors \in Nat /\ errors <= n
      /\ turns \in Seq(TurnType) /\ messages \in Seq(MessageType)
      /\ pc = "running"
  BY DEF IInv, TypeOK, NoToolCall
<1>2. a \in MessageType /\ b \in MessageType /\ t \in TurnType
  BY <1>1 DEF Message, MessageType, TurnType, Statuses, FaultStatuses, Turn
<1>3. /\ messages' = messages \o <<a, b>>
      /\ turns' = Append(turns, t)
      /\ errors' = errors + 1
      /\ pc' = IF stalled \/ n + 1 = MaxTurns THEN "judging" ELSE "running"
      /\ UNCHANGED <<result, project, verdict>>
  BY DEF NoToolCall, Record, Leave, Turn
<1>4. /\ Len(turns') = n + 1
      /\ \A i \in 1 .. n : turns'[i] = turns[i]
      /\ turns'[n + 1] = t
      /\ turns' \in Seq(TurnType)
  <2> HIDE DEF t
  <2> QED BY <1>1, <1>2, <1>3
<1>5. TypeOK'
  <2>1. messages' \in Seq(MessageType)
    <3> HIDE DEF a, b
    <3> QED BY <1>1, <1>2, <1>3, ExchangeAppends
  <2> QED BY <1>1, <1>3, <1>4, <2>1 DEF IInv, TypeOK
<1>6. errors' <= Len(turns')
  BY <1>1, <1>3, <1>4
<1>7. TranscriptAnswered'
  <2>1. WellFormed(messages)
    BY DEF IInv, TranscriptAnswered, WellFormed
  <2>2. a.role = "assistant" /\ b.role = "user" /\ a.call = 0 /\ b.call = 0
    BY DEF Message
  <2>3. WellFormed(messages \o <<a, b>>)
    <3> HIDE DEF a, b
    <3> QED BY <1>1, <1>2, <2>1, <2>2, ExchangeKeepsWellFormed
  <2> QED BY <1>3, <2>3 DEF TranscriptAnswered, WellFormed
<1>8. LeftForAReason'
  <2>1. \A i \in 1 .. n : ~ Ends(turns'[i])
    BY <1>1, <1>4 DEF IInv, LeftForAReason
  <2>2. Ends(turns'[n + 1]) <=> stalled
    BY <1>4 DEF Ends
  <2> HIDE DEF t, stalled
  <2> QED BY <1>1, <1>3, <1>4, <2>1, <2>2 DEF LeftForAReason
<1> QED BY <1>5, <1>6, <1>7, <1>8 DEF IInv

LEMMA InitIInv == Init => IInv
<1> SUFFICES ASSUME Init PROVE IInv
  OBVIOUS
<1> USE TurnsAssumption
<1>1. /\ messages = <<Message("system", 0, 0), Message("user", 0, 0)>>
      /\ turns = <<>> /\ errors = 0 /\ pc = "running"
  BY DEF Init
<1>2. TypeOK
  <2>1. Message("system", 0, 0) \in MessageType /\ Message("user", 0, 0) \in MessageType
    BY DEF Message, MessageType
  <2>2. messages \in Seq(MessageType)
    BY <1>1, <2>1
  <2>3. result = 0 /\ project \in Projects /\ verdict = FALSE
    BY ProjectsAssumption DEF Init, Unbound
  <2>4. turns \in Seq(TurnType) /\ Len(turns) = 0
    BY <1>1
  <2>5. verdict \in BOOLEAN
    BY <2>3
  <2> HIDE TurnsAssumption
  <2>6. errors \in 0 .. MaxTurns /\ result \in 0 .. MaxTurns /\ Len(turns) < MaxTurns
    BY <1>1, <2>3, <2>4, TurnsAssumption
  <2> QED BY <1>1, <2>2, <2>3, <2>4, <2>5, <2>6 DEF TypeOK
<1>3. TranscriptAnswered
  BY <1>1 DEF TranscriptAnswered, Message
<1>4. LeftForAReason
  BY <1>1 DEF LeftForAReason
<1> QED BY <1>1, <1>2, <1>3, <1>4 DEF IInv

LEMMA NextIInv == IInv /\ [Next]_vars => IInv'
<1> SUFFICES ASSUME IInv, [Next]_vars PROVE IInv'
  OBVIOUS
<1> USE TurnsAssumption
<1>1. CASE ChatFails
  <2> DEFINE t == [status |-> "http_error", tool |-> "none"]
             n == Len(turns)
  <2>1. /\ n \in Nat /\ n < MaxTurns /\ turns \in Seq(TurnType) /\ errors <= n
        /\ t \in TurnType /\ errors \in Nat
    BY <1>1 DEF IInv, TypeOK, ChatFails, TurnType, Statuses, FaultStatuses
  <2>2. /\ turns' = Append(turns, t) /\ pc' = "judging"
        /\ UNCHANGED <<messages, errors, result, project, verdict>>
    BY <1>1 DEF ChatFails, Record, Leave
  <2>3. /\ Len(turns') = n + 1
        /\ \A i \in 1 .. n : turns'[i] = turns[i]
        /\ turns'[n + 1] = t
        /\ turns' \in Seq(TurnType)
    <3> HIDE DEF t
    <3> QED BY <2>1, <2>2
  <2>4. TypeOK' /\ errors' <= Len(turns')
    BY <2>1, <2>2, <2>3 DEF IInv, TypeOK
  <2>5. TranscriptAnswered'
    BY <2>2 DEF IInv, TranscriptAnswered
  <2>6. LeftForAReason'
    <3>1. \A i \in 1 .. n : ~ Ends(turns'[i])
      BY <1>1, <2>1, <2>3 DEF IInv, LeftForAReason, ChatFails
    <3>2. Ends(turns'[n + 1])
      BY <2>3 DEF Ends
    <3> QED BY <2>1, <2>2, <2>3, <3>1, <3>2 DEF LeftForAReason
  <2> QED BY <2>4, <2>5, <2>6 DEF IInv
<1>2. CASE MalformedReply
  <2>1. TypeOK'
    BY <1>2 DEF IInv, TypeOK, MalformedReply
  <2> QED BY <1>2, <2>1 DEF IInv, TranscriptAnswered, LeftForAReason, MalformedReply
<1>3. CASE NoToolCall
  BY <1>3, NoToolCallKeepsIInv
<1>4. CASE ToolTurn
  <2>1. PICK status, tool, from : Answers(status, tool, from)
    BY <1>4, ToolTurnAnswers DEF IInv
  <2> QED BY <2>1, AnswerKeepsIInv
<1>5. CASE NullArgumentsUnbound
  <2>1. TypeOK'
    BY <1>5 DEF IInv, TypeOK, NullArgumentsUnbound
  <2> QED BY <1>5, <2>1
          DEF IInv, TranscriptAnswered, LeftForAReason, NullArgumentsUnbound
<1>6. CASE Judge
  <2>1. TypeOK'
    BY <1>6 DEF IInv, TypeOK, Judge
  <2>2. pc = "judging" /\ pc' = "done" /\ UNCHANGED <<messages, turns, errors>>
    BY <1>6 DEF Judge
  <2> QED BY <2>1, <2>2 DEF IInv, TranscriptAnswered, LeftForAReason
<1>7. CASE JudgeRaises
  <2>1. TypeOK'
    BY <1>7 DEF IInv, TypeOK, JudgeRaises
  <2> QED BY <1>7, <2>1 DEF IInv, TranscriptAnswered, LeftForAReason, JudgeRaises
<1>8. CASE UNCHANGED vars
  <2>1. TypeOK'
    BY <1>8 DEF IInv, TypeOK, vars
  <2> QED BY <1>8, <2>1 DEF IInv, TranscriptAnswered, LeftForAReason, vars
<1> QED
  BY <1>1, <1>2, <1>3, <1>4, <1>5, <1>6, <1>7, <1>8 DEF Next, ToolTurn

LEMMA SafetyIInv == Safety => []IInv
BY InitIInv, NextIInv, PTL DEF Safety

(* Every variable keeps its type, with at most MaxTurns turns.                 *)
THEOREM TypeCorrect == Spec => []TypeOK
<1>1. IInv => TypeOK
  BY DEF IInv
<1> QED BY <1>1, SafetyIInv, PTL DEF Spec

(* Every request carries a transcript in which each tool call has been answered *)
(* under its own id and the model is the one to speak next.                    *)
THEOREM TranscriptsAnswered == Spec => []TranscriptAnswered
<1>1. IInv => TranscriptAnswered
  BY DEF IInv
<1> QED BY <1>1, SafetyIInv, PTL DEF Spec

(* A session ends exactly when one of its four reasons holds.                  *)
THEOREM SessionLeftForAReason == Spec => []LeftForAReason
<1>1. IInv => LeftForAReason
  BY DEF IInv
<1> QED BY <1>1, SafetyIInv, PTL DEF Spec

(* What a stale reply repeats: while the local is bound, it holds what the last *)
(* tool message says, and every tool message answers a turn on record.         *)
ResultIsLast ==
    /\ \A i \in ToolMessages : messages[i].call \in 1 .. Len(turns)
    /\ result # Unbound =>
          \E j \in ToolMessages :
              /\ messages[j].from = result
              /\ \A k \in ToolMessages : k <= j

Replies == StaleRepliesRepeat /\ ResultIsLast

(* Turns that only lengthen the records, and messages that are no tool's, leave *)
(* the replies as they were.                                                   *)
LEMMA OldRepliesStay ==
    ASSUME TypeOK, Replies,
           Len(turns') >= Len(turns), Len(turns') \in Nat,
           \A i \in 1 .. Len(turns) : turns'[i] = turns[i],
           ToolMessages' = ToolMessages,
           \A i \in ToolMessages : messages'[i] = messages[i],
           result' = result
    PROVE  Replies'
<1>1. Len(turns) \in Nat
  BY DEF TypeOK
<1>2. StaleRepliesRepeat'
  <2> SUFFICES ASSUME NEW i \in ToolMessages, messages[i].from # messages[i].call
               PROVE  /\ turns'[messages[i].call].status = "ok"
                      /\ \E j \in ToolMessages :
                            /\ j < i
                            /\ messages'[j].from = messages[i].from
                            /\ \A k \in ToolMessages : k <= j \/ k >= i
    BY DEF StaleRepliesRepeat
  <2>1. turns'[messages[i].call] = turns[messages[i].call]
    BY DEF Replies, ResultIsLast
  <2>2. turns[messages[i].call].status = "ok"
    BY DEF Replies, StaleRepliesRepeat
  <2>3. PICK j \in ToolMessages :
          /\ j < i
          /\ messages[j].from = messages[i].from
          /\ \A k \in ToolMessages : k <= j \/ k >= i
    BY DEF Replies, StaleRepliesRepeat
  <2> HIDE DEF ToolMessages
  <2> QED BY <2>1, <2>2, <2>3
<1>3. ResultIsLast'
  <2>1. \A i \in ToolMessages : messages'[i].call \in 1 .. Len(turns')
    BY <1>1 DEF Replies, ResultIsLast
  <2>2. ASSUME result # Unbound
        PROVE  \E j \in ToolMessages : messages'[j].from = result /\ \A k \in ToolMessages : k <= j
    BY <2>2 DEF Replies, ResultIsLast
  <2> QED BY <2>1, <2>2 DEF ResultIsLast, Unbound
<1> QED BY <1>2, <1>3 DEF Replies

(* A tool's answer is its own, or repeats the last one under an "ok" turn.     *)
LEMMA AnswerKeepsReplies ==
    ASSUME TypeOK, Replies, NEW status, NEW tool, NEW from, Answers(status, tool, from)
    PROVE  Replies'
<1> DEFINE a == Message("assistant", Turn, Turn)
           b == Message("tool", Turn, from)
           t == [status |-> status, tool |-> tool]
           n == Len(turns)
           last == Len(messages) + 2
<1> USE TurnsAssumption
<1>1. /\ n \in Nat /\ n < MaxTurns /\ Len(messages) \in Nat
      /\ turns \in Seq(TurnType) /\ messages \in Seq(MessageType)
      /\ from \in 0 .. MaxTurns /\ Turn = n + 1
  BY DEF TypeOK, Answers, Turn
<1>2. a \in MessageType /\ b \in MessageType /\ t \in TurnType
  BY <1>1 DEF Answers, Message, MessageType, TurnType, Statuses, FaultStatuses
<1>3. messages' = messages \o <<a, b>> /\ turns' = Append(turns, t) /\ result' = from
  BY DEF Answers, Answer, Record
<1>4. /\ Len(turns') = n + 1
      /\ \A i \in 1 .. n : turns'[i] = turns[i]
      /\ turns'[n + 1] = t
  <2> HIDE DEF t
  <2> QED BY <1>1, <1>2, <1>3
<1>5. /\ Len(messages') = last
      /\ \A i \in 1 .. Len(messages) : messages'[i] = messages[i]
      /\ messages'[Len(messages) + 1] = a
      /\ messages'[last] = b
  <2> HIDE DEF a, b
  <2> QED BY <1>1, <1>2, <1>3, ExchangeAppends
<1>6. /\ a.role = "assistant"
      /\ b.role = "tool" /\ b.call = n + 1 /\ b.from = from
      /\ t.status = status
  BY <1>1 DEF Message
<1> HIDE DEF a, b, t, n
<1>7. /\ ToolMessages' = ToolMessages \cup {last}
      /\ ToolMessages \subseteq 1 .. Len(messages)
      /\ \A i \in ToolMessages : messages'[i] = messages[i]
  BY <1>1, <1>5, <1>6 DEF ToolMessages
<1>8. \A i \in ToolMessages : messages[i].call \in 1 .. n
  BY DEF Replies, ResultIsLast, n
<1>9. \A i \in ToolMessages : i < last
  BY <1>1, <1>7
<1>10. StaleRepliesRepeat'
  <2> SUFFICES ASSUME NEW i \in ToolMessages', messages'[i].from # messages'[i].call
               PROVE  /\ turns'[messages'[i].call].status = "ok"
                      /\ \E j \in ToolMessages' :
                            /\ j < i
                            /\ messages'[j].from = messages'[i].from
                            /\ \A k \in ToolMessages' : k <= j \/ k >= i
    BY DEF StaleRepliesRepeat
  <2>1. CASE i \in ToolMessages
    <3>1. turns'[messages'[i].call].status = "ok"
      BY <1>4, <1>7, <1>8, <2>1 DEF Replies, StaleRepliesRepeat
    <3>2. PICK j \in ToolMessages :
            /\ j < i
            /\ messages[j].from = messages[i].from
            /\ \A k \in ToolMessages : k <= j \/ k >= i
      BY <1>7, <2>1 DEF Replies, StaleRepliesRepeat
    <3>3. last >= i
      BY <1>1, <1>7, <2>1
    <3> HIDE DEF last
    <3> QED BY <1>7, <2>1, <3>1, <3>2, <3>3
  <2>2. CASE i = last
    <3>1. from # n + 1
      BY <1>5, <1>6, <2>2
    <3>2. status = "ok" /\ from = result /\ result # Unbound
      BY <1>1, <3>1 DEF Answers
    <3>3. PICK j \in ToolMessages :
            messages[j].from = result /\ \A k \in ToolMessages : k <= j
      BY <3>2 DEF Replies, ResultIsLast
    <3>4. turns'[messages'[i].call].status = "ok"
      BY <1>4, <1>5, <1>6, <2>2, <3>2
    <3>5. messages'[j].from = messages'[i].from
      BY <1>5, <1>6, <1>7, <2>2, <3>2, <3>3
    <3>6. j \in ToolMessages' /\ j < i
      BY <1>7, <1>9, <2>2, <3>3
    <3>7. ASSUME NEW k \in ToolMessages' PROVE k <= j \/ k >= i
      BY <1>1, <1>7, <2>2, <3>3, <3>7
    <3> QED BY <3>4, <3>5, <3>6, <3>7
  <2> QED BY <1>7, <2>1, <2>2
<1>11. ResultIsLast'
  <2>1. \A i \in ToolMessages' : messages'[i].call \in 1 .. Len(turns')
    BY <1>1, <1>4, <1>5, <1>6, <1>7, <1>8 DEF n
  <2>2. messages'[last].from = result' /\ \A k \in ToolMessages' : k <= last
    BY <1>1, <1>3, <1>5, <1>6, <1>7, <1>9
  <2>3. last \in ToolMessages'
    BY <1>7
  <2> QED BY <2>1, <2>2, <2>3 DEF ResultIsLast
<1> QED BY <1>10, <1>11 DEF Replies

LEMMA NextReplies == TypeOK /\ Replies /\ [Next]_vars => Replies'
<1> SUFFICES ASSUME TypeOK, Replies, [Next]_vars PROVE Replies'
  OBVIOUS
<1>1. Len(turns) \in Nat /\ Len(messages) \in Nat /\ turns \in Seq(TurnType)
  BY DEF TypeOK
<1>2. ASSUME UNCHANGED <<messages, turns, result>> PROVE Replies'
  BY <1>2 DEF Replies, StaleRepliesRepeat, ResultIsLast, ToolMessages
<1>3. ASSUME NEW t \in TurnType, turns' = Append(turns, t), result' = result,
             ToolMessages' = ToolMessages,
             \A i \in ToolMessages : messages'[i] = messages[i]
      PROVE  Replies'
  <2> HIDE DEF TurnType
  <2>1. Len(turns') = Len(turns) + 1 /\ \A i \in 1 .. Len(turns) : turns'[i] = turns[i]
    BY <1>1, <1>3
  <2> HIDE DEF ToolMessages
  <2> QED BY <1>1, <1>3, <2>1, OldRepliesStay
<1>4. CASE ChatFails
  <2>1. [status |-> "http_error", tool |-> "none"] \in TurnType
    BY DEF TurnType, Statuses, FaultStatuses
  <2>2. /\ turns' = Append(turns, [status |-> "http_error", tool |-> "none"])
        /\ messages' = messages /\ result' = result
    BY <1>4 DEF ChatFails, Record
  <2>3. ToolMessages' = ToolMessages
    BY <2>2 DEF ToolMessages
  <2> HIDE DEF ToolMessages
  <2> QED BY <1>3, <2>1, <2>2, <2>3
<1>5. CASE NoToolCall
  <2> DEFINE a == Message("assistant", 0, Turn)
             b == Message("user", 0, 0)
             t == [status |-> IF errors + 1 >= StallLimit THEN "stalled" ELSE "no_tool_call",
                   tool |-> "none"]
  <2>1. a \in MessageType /\ b \in MessageType /\ t \in TurnType
    BY <1>5, TurnsAssumption
       DEF TypeOK, NoToolCall, Message, MessageType, TurnType, Statuses, FaultStatuses, Turn
  <2>2. messages' = messages \o <<a, b>> /\ turns' = Append(turns, t) /\ result' = result
    BY <1>5 DEF NoToolCall, Record
  <2>3. a.role = "assistant" /\ b.role = "user"
    BY DEF Message
  <2>4. /\ Len(messages') = Len(messages) + 2
        /\ \A i \in 1 .. Len(messages) : messages'[i] = messages[i]
        /\ messages'[Len(messages) + 1] = a
        /\ messages'[Len(messages) + 2] = b
    <3>1. messages \in Seq(MessageType)
      BY DEF TypeOK
    <3> HIDE DEF a, b
    <3> QED BY <2>1, <2>2, <3>1, ExchangeAppends
  <2>5. ToolMessages' = ToolMessages /\ \A i \in ToolMessages : messages'[i] = messages[i]
    <3> HIDE DEF a, b
    <3> QED BY <1>1, <2>3, <2>4 DEF ToolMessages
  <2> HIDE DEF t, ToolMessages
  <2> QED BY <1>3, <2>1, <2>2, <2>5
<1>6. CASE ToolTurn
  <2>1. PICK status, tool, from : Answers(status, tool, from)
    BY <1>6, ToolTurnAnswers
  <2> QED BY <2>1, AnswerKeepsReplies
<1>7. CASE MalformedReply \/ NullArgumentsUnbound \/ Judge \/ JudgeRaises \/ UNCHANGED vars
  BY <1>2, <1>7 DEF MalformedReply, NullArgumentsUnbound, Judge, JudgeRaises, vars
<1> QED BY <1>4, <1>5, <1>6, <1>7 DEF Next, ToolTurn

(* A tool message that is not its own call's answer repeats the one before it, *)
(* under an "ok" turn: null arguments, and no other path, reuse `result'.      *)
THEOREM StaleRepliesOnlyRepeat == Spec => []StaleRepliesRepeat
<1>1. Init => Replies
  BY DEF Init, Replies, StaleRepliesRepeat, ResultIsLast, ToolMessages, Message, Unbound
<1>2. IInv => TypeOK
  BY DEF IInv
<1>3. Replies => StaleRepliesRepeat
  BY DEF Replies
<1> QED BY <1>1, <1>2, <1>3, NextReplies, SafetyIInv, PTL DEF Spec, Safety

(* The episode implements its contract: whatever the turns do, the project is  *)
(* judged after the last of them and reported as solved only if it passes.     *)
THEOREM EpisodeKeepsContract == Spec => ImplementsContract
<1> USE ProjectsAssumption
<1>1. Init => Contract!Init
  BY DEF Init, Contract!Init, Phase
<1>2. TypeOK /\ [Next]_vars => [Contract!Next]_(Contract!vars)
  <2> SUFFICES ASSUME TypeOK, [Next]_vars
               PROVE  Contract!Next \/ UNCHANGED Contract!vars
    OBVIOUS
  <2> USE DEF Phase
  <2>1. CASE ChatFails
    <3>1. Contract!Work
      BY <2>1 DEF TypeOK, ChatFails, Leave, Contract!Work
    <3> QED BY <3>1 DEF Contract!Next
  <2>2. CASE MalformedReply
    <3>1. Contract!Crash
      BY <2>2 DEF MalformedReply, Contract!Crash
    <3> QED BY <3>1 DEF Contract!Next
  <2>3. CASE NoToolCall
    <3>1. Contract!Work
      BY <2>3 DEF TypeOK, NoToolCall, Leave, Contract!Work
    <3> QED BY <3>1 DEF Contract!Next
  <2>4. CASE ToolTurn
    <3>1. PICK status, tool, from : Answers(status, tool, from)
      BY <2>4, ToolTurnAnswers
    <3>2. Contract!Work
      BY <3>1 DEF Answers, Answer, Leave, Contract!Work
    <3> QED BY <3>2 DEF Contract!Next
  <2>5. CASE NullArgumentsUnbound
    <3>1. Contract!Crash
      BY <2>5 DEF TypeOK, NullArgumentsUnbound, Contract!Crash
    <3> QED BY <3>1 DEF Contract!Next
  <2>6. CASE Judge
    <3>1. Contract!Judge
      BY <2>6 DEF Judge, Contract!Judge
    <3> QED BY <3>1 DEF Contract!Next
  <2>7. CASE JudgeRaises
    <3>1. Contract!Crash
      BY <2>7 DEF TypeOK, JudgeRaises, Contract!Crash
    <3> QED BY <3>1 DEF Contract!Next
  <2>8. CASE UNCHANGED vars
    BY <2>8 DEF vars, Contract!vars
  <2> QED
    BY <2>1, <2>2, <2>3, <2>4, <2>5, <2>6, <2>7, <2>8 DEF Next, ToolTurn
<1>3. IInv => TypeOK
  BY DEF IInv
<1> QED
  BY <1>1, <1>2, <1>3, SafetyIInv, PTL DEF Spec, Safety, ImplementsContract, Contract!Spec

================================================================================
