------------------------------ MODULE ToolFidelity ------------------------------
(* Single-turn tool calling: bench/scripts/tool_call_fidelity.py.  Every case is *)
(* put to the model reps times; its first tool call, if any, is judged by a chain *)
(* of tests and counted, and the report is written once, at the end.              *)
(*                                                                                *)
(* A JSON value is abstracted to the Python type json.loads gives it, and the     *)
(* arguments of a call to what json.loads makes of them: nothing, a value that is *)
(* no object, or an object as a function from its keys.                           *)
EXTENDS Integers, Sequences, FiniteSets

CONSTANTS
    Cases,      \* CASES: the tool expected for each prompt, or "None"
    CaseReps,   \* --reps
    Emitted     \* bound: the declared tools that the model calls

TOOL_SCHEMAS ==
    [list_dir    |-> [required   |-> {"path"},
                      properties |-> [path |-> "string"]],
     read_file   |-> [required   |-> {"path"},
                      properties |-> [path |-> "string", start_line |-> "integer",
                                      end_line |-> "integer"]],
     write_file  |-> [required   |-> {"path", "content"},
                      properties |-> [path |-> "string", content |-> "string"]],
     run_command |-> [required   |-> {"command"},
                      properties |-> [command |-> "string", timeout_sec |-> "integer"]],
     search_code |-> [required   |-> {"pattern"},
                      properties |-> [pattern |-> "string", glob |-> "string"]]]

Tools == DOMAIN TOOL_SCHEMAS
Declared(t) == TOOL_SCHEMAS[t].properties

ASSUME CasesAssumption == Cases \in Seq(Tools \cup {"None"}) /\ Cases # <<>>
ASSUME CaseRepsAssumption == CaseReps \in Nat \ {0}
ASSUME EmittedAssumption == Emitted \subseteq Tools

VARIABLES
    rep, case,  \* where the two loops are
    pc,         \* "ask", "report", "dump", "done" or "dead"
    reply,      \* tool_calls of the last reply
    records,    \* what has been judged: the repetition, the case's expectation,
                \* the verdict and, of a schema violation, its detail
    fails,      \* the Counter of reasons
    fidelityOut \* what is at --out: an "old" report, a "partial" or the "new" one

loops == <<rep, case, pc>>
fidelityVars == <<loops, reply, records, fails, fidelityOut>>

(* The Python types of values; bool is a subclass of int.                         *)
PyTypes == {"str", "int", "bool"}
TYPE_MAP == [string |-> {"str"}, integer |-> {"int", "bool"}]

(* Plausible bug: only strings have their type looked at.                         *)
WrongTypeOfString(t, obj) == {k \in DOMAIN obj \cap DOMAIN Declared(t) :
                                Declared(t)[k] = "string" /\ obj[k] # "str"}

(* What check_args finds wrong with the arguments of a declared tool.             *)
Missing(t, obj) == TOOL_SCHEMAS[t].required \ DOMAIN obj
Undeclared(t, obj) == DOMAIN obj \ DOMAIN Declared(t)
WrongType(t, obj) == {k \in DOMAIN obj \cap DOMAIN Declared(t) :
                        obj[k] \notin TYPE_MAP[Declared(t)[k]]}

(* The detail it returns: what is missing first, then the first fault in the      *)
(* order of the object's keys, which may be any.                                  *)
Details(t, obj) ==
    IF Missing(t, obj) # {} THEN {"missing required"}
    ELSE {d \in {"undeclared arg", "wrong type"} :
            \/ d = "undeclared arg" /\ Undeclared(t, obj) # {}
            \/ d = "wrong type" /\ WrongType(t, obj) # {}}

(* The calls a model can make: of a tool it was offered, with any of its          *)
(* parameters and one it does not have, or of another tool.                       *)
Objects(keys) == UNION {[given -> PyTypes] : given \in SUBSET keys}
Arguments(keys) == [json : {"unparseable", "not an object"}, obj : {<<>>}]
                     \cup [json : {"object"}, obj : Objects(keys)]
Calls == (UNION {[name : {t}, args : Arguments(DOMAIN Declared(t) \cup {"extra"})] :
                    t \in Emitted})
           \cup [name : {"no_such_tool"}, args : Arguments({"extra"})]

Reasons == {"called tool when none needed", "no tool call emitted",
            "hallucinated tool name", "unparseable arguments", "wrong tool selected",
            "missing required", "undeclared arg", "wrong type"}

FidelityInit ==
    /\ rep = 1
    /\ case = 1
    /\ pc = "ask"
    /\ reply = <<>>
    /\ records = <<>>
    /\ fails = [r \in Reasons |-> 0]
    /\ fidelityOut = "old"

expected == Cases[case]

(* Plausible bug: the last repetition is left out.                                *)
NextCaseShort ==
    \/ case < Len(Cases) /\ case' = case + 1 /\ UNCHANGED <<rep, pc>>
    \/ case = Len(Cases) /\ rep + 1 < CaseReps /\ case' = 1 /\ rep' = rep + 1 /\ UNCHANGED pc
    \/ case = Len(Cases) /\ rep + 1 >= CaseReps /\ pc' = "report" /\ UNCHANGED <<rep, case>>

NextCase ==
    \/ case < Len(Cases) /\ case' = case + 1 /\ UNCHANGED <<rep, pc>>
    \/ case = Len(Cases) /\ rep < CaseReps /\ case' = 1 /\ rep' = rep + 1 /\ UNCHANGED pc
    \/ case = Len(Cases) /\ rep = CaseReps /\ pc' = "report" /\ UNCHANGED <<rep, case>>

(* The rest of the loop's body: the record, the counter, the next case.           *)
Judged(verdict, detail, reason) ==
    /\ pc = "ask"
    /\ records' = Append(records, [rep |-> rep, expected |-> expected,
                                   verdict |-> verdict, detail |-> detail])
    /\ fails' = [r \in Reasons |-> fails[r] + (IF r = reason THEN 1 ELSE 0)]
    /\ NextCase
    /\ UNCHANGED fidelityOut

(* A reply without a tool call.                                                   *)
StaysQuiet ==
    /\ reply' = <<>>
    /\ expected = "None"
    /\ Judged("ok", "", "")

NoCall ==
    /\ reply' = <<>>
    /\ expected # "None"
    /\ Judged("no_call", "", "no tool call emitted")

(* A reply whose first call is c; further ones are counted and not looked at.     *)
FalsePositive(c) ==
    /\ reply' = <<c>>
    /\ expected = "None"
    /\ Judged("false_positive", "", "called tool when none needed")

HallucinatedTool(c) ==
    /\ reply' = <<c>>
    /\ expected # "None"
    /\ c.name \notin Tools
    /\ Judged("hallucinated_tool", "", "hallucinated tool name")

BadJson(c) ==
    /\ reply' = <<c>>
    /\ expected # "None"
    /\ c.name \in Tools
    /\ c.args.json # "object"
    /\ Judged("bad_json", "", "unparseable arguments")

(* Plausible bug: the wrong tool is recorded and not counted.                     *)
WrongToolUncounted(c) ==
    /\ reply' = <<c>>
    /\ expected # "None"
    /\ c.name \in Tools \ {expected}
    /\ c.args.json = "object"
    /\ Judged("wrong_tool", "", "")

WrongTool(c) ==
    /\ reply' = <<c>>
    /\ expected # "None"
    /\ c.name \in Tools \ {expected}
    /\ c.args.json = "object"
    /\ Judged("wrong_tool", "", "wrong tool selected")

BadSchema(c) ==
    /\ reply' = <<c>>
    /\ c.name = expected
    /\ c.args.json = "object"
    /\ \E d \in Details(c.name, c.args.obj) : Judged("bad_schema", d, d)

RightCall(c) ==
    /\ reply' = <<c>>
    /\ c.name = expected
    /\ c.args.json = "object"
    /\ Details(c.name, c.args.obj) = {}
    /\ Judged("ok", "", "")

(* The request raises (refused, a status that is an error, 900 s without a byte), *)
(* the reply has no choices or its call no name, the report cannot be written, or *)
(* someone stops the program: nothing catches it.                                 *)
Die ==
    /\ pc \in {"ask", "report", "dump"}
    /\ pc' = "dead"
    /\ UNCHANGED <<rep, case, reply, records, fails, fidelityOut>>

OpenFidelityReport ==
    /\ pc = "report"
    /\ pc' = "dump"
    /\ fidelityOut' = "partial"
    /\ UNCHANGED <<rep, case, reply, records, fails>>

DumpFidelityReport ==
    /\ pc = "dump"
    /\ pc' = "done"
    /\ fidelityOut' = "new"
    /\ UNCHANGED <<rep, case, reply, records, fails>>

Judge(c) ==
    \/ FalsePositive(c)
    \/ HallucinatedTool(c)
    \/ BadJson(c)
    \/ WrongTool(c)
    \/ BadSchema(c)
    \/ RightCall(c)

FidelityNext ==
    \/ StaysQuiet
    \/ NoCall
    \/ \E c \in Calls : Judge(c)
    \/ Die
    \/ OpenFidelityReport
    \/ DumpFidelityReport

FidelitySpec == FidelityInit /\ [][FidelityNext]_fidelityVars

--------------------------------------------------------------------------------
(* Properties.                                                                    *)

Verdicts == {"ok", "no_call", "false_positive", "hallucinated_tool", "bad_json",
             "wrong_tool", "bad_schema"}

FidelityTypeOK ==
    /\ rep \in 1 .. CaseReps
    /\ case \in 1 .. Len(Cases)
    /\ pc \in {"ask", "report", "dump", "done", "dead"}
    /\ records \in Seq([rep : 1 .. CaseReps, expected : Tools \cup {"None"},
                        verdict : Verdicts, detail : Reasons \cup {""}])
    /\ fails \in [Reasons -> Nat]
    /\ fidelityOut \in {"old", "partial", "new"}

(* The schema as JSON Schema has it: a boolean is no integer.                     *)
JsonType == [string |-> "str", integer |-> "int"]
Conforms(t, obj) ==
    /\ TOOL_SCHEMAS[t].required \subseteq DOMAIN obj
    /\ DOMAIN obj \subseteq DOMAIN Declared(t)
    /\ \A k \in DOMAIN obj : obj[k] = JsonType[Declared(t)[k]]

(* The same with its integers written as booleans.                                *)
ConformsButForBooleans(t, obj) ==
    \E good \in Objects(DOMAIN Declared(t)) :
        /\ Conforms(t, good)
        /\ DOMAIN good = DOMAIN obj
        /\ \A k \in DOMAIN obj :
            \/ obj[k] = good[k]
            \/ obj[k] = "bool" /\ Declared(t)[k] = "integer"

(* A call whose arguments "match the schema": of a reply with a tool where one is *)
(* wanted, ok promises no less.  It does not keep it: isinstance takes a boolean   *)
(* for an integer.                                                                *)
OkConforms ==
    records # <<>> =>
        LET r == records[Len(records)] IN
        r.verdict = "ok" /\ r.expected # "None" =>
            Conforms(reply[1].name, reply[1].args.obj)

(* What ok does mean: no call where none is warranted, and otherwise the expected *)
(* tool, with an object for arguments that matches its schema but for booleans in *)
(* the place of integers.  It is the verdict of every such reply and of no other: *)
(* the chain of tests, whichever comes first and in whatever order the arguments  *)
(* are looked at, hides no other fault.                                           *)
OkMeansFaithful ==
    records # <<>> =>
        LET r == records[Len(records)]
            c == reply[1] IN
        r.verdict = "ok" <=>
            IF r.expected = "None" THEN reply = <<>>
            ELSE /\ reply # <<>>
                 /\ c.name = r.expected
                 /\ c.args.json = "object"
                 /\ ConformsButForBooleans(c.name, c.args.obj)

(* The reason a record is counted under.                                          *)
Reason(r) ==
    CASE r.verdict = "false_positive"    -> "called tool when none needed"
      [] r.verdict = "no_call"           -> "no tool call emitted"
      [] r.verdict = "hallucinated_tool" -> "hallucinated tool name"
      [] r.verdict = "bad_json"          -> "unparseable arguments"
      [] r.verdict = "wrong_tool"        -> "wrong tool selected"
      [] r.verdict = "bad_schema"        -> r.detail
      [] OTHER                           -> "none"

(* The summary's two books agree at every point: the counter of reasons, kept     *)
(* along the way, is the count of the records, from which accuracy is computed.   *)
BooksAgree ==
    \A reason \in Reasons :
        fails[reason] = Cardinality({i \in 1 .. Len(records) : Reason(records[i]) = reason})

(* A report, even half a one, is of every case of every repetition, in order; a   *)
(* program that dies before leaves the report of an earlier run.                  *)
ReportIsComplete ==
    fidelityOut # "old" =>
        /\ Len(records) = CaseReps * Len(Cases)
        /\ \A i \in 1 .. CaseReps, c \in 1 .. Len(Cases) :
            LET r == records[(i - 1) * Len(Cases) + c]
            IN  r.rep = i /\ r.expected = Cases[c]

================================================================================
