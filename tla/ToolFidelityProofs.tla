----------------------------- MODULE ToolFidelityProofs -----------------------------
(* Proofs about ToolFidelity, for every list of cases, every number of repeats    *)
(* and every set of tools the model calls.                                        *)
EXTENDS ToolFidelity, FiniteSetTheorems, TLAPS

LEMMA Constants ==
    /\ Len(Cases) \in Nat \ {0} /\ CaseReps \in Nat \ {0}
    /\ \A c \in 1 .. Len(Cases) : Cases[c] \in Tools \cup {"None"}
    /\ "None" \notin Tools
BY CasesAssumption, CaseRepsAssumption DEF Tools, TOOL_SCHEMAS

--------------------------------------------------------------------------------
(* The schemas.                                                                   *)

LEMMA DeclaredTypes ==
    ASSUME NEW t \in Tools, NEW k \in DOMAIN Declared(t)
    PROVE  Declared(t)[k] \in {"string", "integer"}
BY DEF Tools, Declared, TOOL_SCHEMAS

(* The types Python takes for a declared one: the right one, and for an integer a *)
(* boolean too.                                                                   *)
LEMMA AcceptedTypes ==
    ASSUME NEW t \in Tools, NEW k \in DOMAIN Declared(t), NEW v
    PROVE  /\ JsonType[Declared(t)[k]] \in PyTypes
           /\ v \in TYPE_MAP[Declared(t)[k]] <=>
                \/ v = JsonType[Declared(t)[k]]
                \/ v = "bool" /\ Declared(t)[k] = "integer"
BY DeclaredTypes DEF JsonType, TYPE_MAP, PyTypes

(* check_args finds no fault exactly in what the schema accepts but for booleans: *)
(* none of its tests, in any order of the arguments, hides another.               *)
LEMMA NoFaultMeansConforming ==
    ASSUME NEW t \in Tools, NEW keys, NEW obj \in Objects(keys)
    PROVE  Details(t, obj) = {} <=> ConformsButForBooleans(t, obj)
<1>1. Details(t, obj) = {} <=>
        Missing(t, obj) = {} /\ Undeclared(t, obj) = {} /\ WrongType(t, obj) = {}
  BY DEF Details
<1>2. ASSUME Missing(t, obj) = {}, Undeclared(t, obj) = {}, WrongType(t, obj) = {}
      PROVE  ConformsButForBooleans(t, obj)
  <2> DEFINE good == [k \in DOMAIN obj |-> JsonType[Declared(t)[k]]]
  <2>1. DOMAIN obj \subseteq DOMAIN Declared(t)
    BY <1>2 DEF Undeclared
  <2>2. good \in [DOMAIN obj -> PyTypes]
    BY <2>1, AcceptedTypes
  <2>3. good \in Objects(DOMAIN Declared(t))
    BY <2>1, <2>2 DEF Objects
  <2>4. Conforms(t, good)
    BY <1>2, <2>1 DEF Conforms, Missing
  <2>5. \A k \in DOMAIN obj :
          obj[k] = good[k] \/ (obj[k] = "bool" /\ Declared(t)[k] = "integer")
    BY <1>2, <2>1, AcceptedTypes DEF WrongType
  <2> QED BY <2>3, <2>4, <2>5 DEF ConformsButForBooleans
<1>3. ASSUME ConformsButForBooleans(t, obj)
      PROVE  Missing(t, obj) = {} /\ Undeclared(t, obj) = {} /\ WrongType(t, obj) = {}
  <2>1. PICK good \in Objects(DOMAIN Declared(t)) :
          /\ Conforms(t, good)
          /\ DOMAIN good = DOMAIN obj
          /\ \A k \in DOMAIN obj :
              obj[k] = good[k] \/ (obj[k] = "bool" /\ Declared(t)[k] = "integer")
    BY <1>3 DEF ConformsButForBooleans
  <2>2. Missing(t, obj) = {} /\ Undeclared(t, obj) = {}
    BY <2>1 DEF Conforms, Missing, Undeclared
  <2>3. WrongType(t, obj) = {}
    BY <2>1, AcceptedTypes DEF Conforms, WrongType
  <2> QED BY <2>2, <2>3
<1> QED BY <1>1, <1>2, <1>3

LEMMA CallsHave ==
    ASSUME NEW c \in Calls
    PROVE  /\ c.name \in Tools \cup {"no_such_tool"}
           /\ c.name # "None"
           /\ c.name \in Tools /\ c.args.json = "object" =>
                c.args.obj \in Objects(DOMAIN Declared(c.name) \cup {"extra"})
<1>1. CASE c \in [name : {"no_such_tool"}, args : Arguments({"extra"})]
  BY <1>1 DEF Tools, TOOL_SCHEMAS
<1>2. CASE c \notin [name : {"no_such_tool"}, args : Arguments({"extra"})]
  <2>1. PICK t \in Emitted :
          c \in [name : {t}, args : Arguments(DOMAIN Declared(t) \cup {"extra"})]
    <3>1. c \in UNION {[name : {t}, args : Arguments(DOMAIN Declared(t) \cup {"extra"})] :
                         t \in Emitted}
      BY <1>2 DEF Calls
    <3> QED BY <3>1
  <2>2. c.name = t /\ c.args \in Arguments(DOMAIN Declared(t) \cup {"extra"})
    BY <2>1
  <2>3. t \in Tools /\ t # "None"
    BY EmittedAssumption, Constants
  <2>4. c.args.json = "object" => c.args.obj \in Objects(DOMAIN Declared(t) \cup {"extra"})
    BY <2>2 DEF Arguments
  <2> QED BY <2>2, <2>3, <2>4
<1> QED BY <1>1, <1>2

--------------------------------------------------------------------------------
(* The inductive invariant.                                                       *)

(* The records so far are those of the cases the loops have been at.              *)
InOrder ==
    /\ pc = "ask" => fidelityOut = "old" /\ Len(records) = (rep - 1) * Len(Cases) + case - 1
    /\ pc \in {"report", "dump", "done"} \/ fidelityOut # "old" => Len(records) = CaseReps * Len(Cases)
    /\ \A i \in 1 .. CaseReps, c \in 1 .. Len(Cases) :
        (i - 1) * Len(Cases) + c <= Len(records) =>
            /\ records[(i - 1) * Len(Cases) + c].rep = i
            /\ records[(i - 1) * Len(Cases) + c].expected = Cases[c]

IInv ==
    /\ FidelityTypeOK
    /\ InOrder
    /\ OkMeansFaithful
    /\ BooksAgree

LEMMA InitIInv == FidelityInit => IInv
<1> SUFFICES ASSUME FidelityInit PROVE IInv
  OBVIOUS
<1>1. FidelityTypeOK
  <2>1. records \in Seq([rep : 1 .. CaseReps, expected : Tools \cup {"None"},
                         verdict : Verdicts, detail : Reasons \cup {""}])
    BY DEF FidelityInit
  <2>2. 1 \in 1 .. CaseReps /\ 1 \in 1 .. Len(Cases)
    BY Constants
  <2> QED BY <2>1, <2>2 DEF FidelityInit, FidelityTypeOK
<1>2. InOrder
  <2>1. (1 - 1) * Len(Cases) = 0
    BY Constants
  <2>2. \A i \in 1 .. CaseReps, c \in 1 .. Len(Cases) : (i - 1) * Len(Cases) + c > 0
    <3>1. \A a, b \in Nat : a * b \in Nat
      BY SMT
    <3>2. ASSUME NEW i \in 1 .. CaseReps, NEW c \in 1 .. Len(Cases)
          PROVE  (i - 1) * Len(Cases) + c > 0
      <4>1. i - 1 \in Nat /\ Len(Cases) \in Nat /\ c \in Nat \ {0}
        BY Constants
      <4>2. (i - 1) * Len(Cases) \in Nat
        BY <3>1, <4>1
      <4> QED BY <4>1, <4>2
    <3> QED BY <3>2
  <2> QED BY <2>1, <2>2 DEF FidelityInit, InOrder
<1>3. OkMeansFaithful
  BY DEF FidelityInit, OkMeansFaithful
<1>4. BooksAgree
  <2>1. \A reason : {i \in 1 .. Len(records) : Reason(records[i]) = reason} = {}
    BY DEF FidelityInit
  <2> QED BY <2>1, FS_EmptySet DEF FidelityInit, BooksAgree
<1> QED BY <1>1, <1>2, <1>3, <1>4 DEF IInv

(* The record of a judgement, and the reason it is counted under.                 *)
RecordSet == [rep : 1 .. CaseReps, expected : Tools \cup {"None"},
              verdict : Verdicts, detail : Reasons \cup {""}]

Record(verdict, detail) ==
    [rep |-> rep, expected |-> expected, verdict |-> verdict, detail |-> detail]

CountedUnder(verdict, detail, reason) ==
    /\ verdict \in Verdicts
    /\ detail \in Reasons \cup {""}
    /\ \A x \in Reasons : Reason(Record(verdict, detail)) = x <=> reason = x

(* The reply just received is what the case asks for.                             *)
FaithfulReply ==
    IF expected = "None" THEN reply' = <<>>
    ELSE /\ reply' # <<>>
         /\ reply'[1].name = expected
         /\ reply'[1].args.json = "object"
         /\ ConformsButForBooleans(reply'[1].name, reply'[1].args.obj)

Judgement(verdict, detail, reason) ==
    /\ Judged(verdict, detail, reason)
    /\ CountedUnder(verdict, detail, reason)
    /\ verdict = "ok" <=> FaithfulReply

Asks == StaysQuiet \/ NoCall \/ \E c \in Calls : Judge(c)

(* The verdicts are counted under reasons of their own.                           *)
LEMMA Counting ==
    /\ CountedUnder("ok", "", "")
    /\ CountedUnder("no_call", "", "no tool call emitted")
    /\ CountedUnder("false_positive", "", "called tool when none needed")
    /\ CountedUnder("hallucinated_tool", "", "hallucinated tool name")
    /\ CountedUnder("bad_json", "", "unparseable arguments")
    /\ CountedUnder("wrong_tool", "", "wrong tool selected")
    /\ \A d \in {"missing required", "undeclared arg", "wrong type"} :
          CountedUnder("bad_schema", d, d)
BY DEF CountedUnder, Record, Reason, Reasons, Verdicts

(* The chain of tests gives every reply one verdict, ok when it is faithful and   *)
(* only then.                                                                     *)
LEMMA EveryReplyIsJudged ==
    ASSUME FidelityTypeOK, Asks
    PROVE  \E verdict, detail, reason : Judgement(verdict, detail, reason)
<1>1. expected \in Tools \cup {"None"} /\ "None" \notin Tools
  BY Constants DEF FidelityTypeOK, expected
<1>2. CASE StaysQuiet
  <2>1. Judgement("ok", "", "")
    BY <1>2, Counting DEF StaysQuiet, Judgement, FaithfulReply
  <2> QED BY <2>1
<1>3. CASE NoCall
  <2>1. Judgement("no_call", "", "no tool call emitted")
    BY <1>3, Counting DEF NoCall, Judgement, FaithfulReply
  <2> QED BY <2>1
<1>4. ASSUME NEW c \in Calls, Judge(c)
      PROVE  \E verdict, detail, reason : Judgement(verdict, detail, reason)
  <2>1. reply' = <<c>> /\ reply' # <<>> /\ reply'[1] = c
    <3>1. reply' = <<c>>
      BY <1>4 DEF Judge, FalsePositive, HallucinatedTool, BadJson, WrongTool, BadSchema, RightCall
    <3> QED BY <3>1
  <2>2. CASE FalsePositive(c)
    <3>1. Judgement("false_positive", "", "called tool when none needed")
      BY <2>1, <2>2, Counting DEF FalsePositive, Judgement, FaithfulReply
    <3> QED BY <3>1
  <2>3. CASE HallucinatedTool(c)
    <3>1. Judgement("hallucinated_tool", "", "hallucinated tool name")
      BY <1>1, <2>1, <2>3, Counting DEF HallucinatedTool, Judgement, FaithfulReply
    <3> QED BY <3>1
  <2>4. CASE BadJson(c)
    <3>1. Judgement("bad_json", "", "unparseable arguments")
      BY <2>1, <2>4, Counting DEF BadJson, Judgement, FaithfulReply
    <3> QED BY <3>1
  <2>5. CASE WrongTool(c)
    <3>1. Judgement("wrong_tool", "", "wrong tool selected")
      BY <2>1, <2>5, Counting DEF WrongTool, Judgement, FaithfulReply
    <3> QED BY <3>1
  <2>6. CASE BadSchema(c) \/ RightCall(c)
    <3>1. c.name = expected /\ c.args.json = "object" /\ expected # "None" /\ c.name \in Tools
      BY <1>1, <2>6, CallsHave DEF BadSchema, RightCall
    <3>2. FaithfulReply <=> Details(c.name, c.args.obj) = {}
      BY <2>1, <3>1, CallsHave, NoFaultMeansConforming DEF FaithfulReply
    <3>3. CASE BadSchema(c)
      <4>1. PICK d \in Details(c.name, c.args.obj) : Judged("bad_schema", d, d)
        BY <3>3 DEF BadSchema
      <4>2. d \in {"missing required", "undeclared arg", "wrong type"}
        BY DEF Details
      <4>3. ~ FaithfulReply
        BY <3>2, <4>1
      <4>4. Judgement("bad_schema", d, d)
        BY <4>1, <4>2, <4>3, Counting DEF Judgement
      <4> QED BY <4>4
    <3>4. CASE RightCall(c)
      <4>1. Judgement("ok", "", "")
        BY <3>2, <3>4, Counting DEF RightCall, Judgement
      <4> QED BY <4>1
    <3> QED BY <2>6, <3>3, <3>4
  <2> QED BY <1>4, <2>2, <2>3, <2>4, <2>5, <2>6 DEF Judge
<1> QED BY <1>2, <1>3, <1>4 DEF Asks

(* What a judgement does to the records.                                          *)
LEMMA JudgementAppends ==
    ASSUME FidelityTypeOK, NEW verdict, NEW detail, NEW reason, Judgement(verdict, detail, reason)
    PROVE  /\ Len(records) \in Nat /\ Len(records') = Len(records) + 1
           /\ records' \in Seq(RecordSet)
           /\ records'[Len(records) + 1] = Record(verdict, detail)
           /\ \A i \in 1 .. Len(records) : records'[i] = records[i]
<1>1. Record(verdict, detail) \in RecordSet
  BY Constants DEF FidelityTypeOK, Record, RecordSet, expected, Judgement, CountedUnder
<1>2. records \in Seq(RecordSet) /\ records' = Append(records, Record(verdict, detail))
  BY DEF FidelityTypeOK, RecordSet, Judgement, Judged, Record
<1> QED BY <1>1, <1>2

(* Positions: the record of repetition i and case c has a place of its own.       *)
LEMMA PlacesAreUnique ==
    ASSUME NEW L \in Nat \ {0}, NEW i \in Nat, NEW j \in Nat,
           NEW c \in 1 .. L, NEW d \in 1 .. L, i * L + c = j * L + d
    PROVE  i = j /\ c = d
<1>1. ASSUME NEW a \in Nat, NEW b \in Nat, a < b PROVE a * L + L <= b * L
  <2>1. PICK k \in Nat : b = a + 1 + k
    <3>1. b - (a + 1) \in Nat /\ b = a + 1 + (b - (a + 1))
      BY <1>1
    <3> QED BY <3>1
  <2>2. b * L = a * L + L + k * L /\ k * L \in Nat /\ a * L \in Nat
    BY <2>1, SMT
  <2> QED BY <2>2
<1>2. i * L \in Nat /\ j * L \in Nat
  BY SMT
<1>3. ~ (i < j)
  BY <1>1, <1>2
<1>4. ~ (j < i)
  BY <1>1, <1>2
<1> QED BY <1>2, <1>3, <1>4

(* A judgement adds a record, and advances the loops.                             *)
LEMMA JudgedKeepsOrder ==
    ASSUME FidelityTypeOK, InOrder, NEW verdict, NEW detail, NEW reason,
           Judgement(verdict, detail, reason)
    PROVE  FidelityTypeOK' /\ InOrder'
<1> DEFINE L == Len(Cases)
           place(i, c) == (i - 1) * L + c
<1>1. /\ pc = "ask" /\ fidelityOut' = fidelityOut /\ NextCase
      /\ fails' = [r \in Reasons |-> fails[r] + (IF r = reason THEN 1 ELSE 0)]
  BY DEF Judgement, Judged
<1>2. L \in Nat \ {0} /\ CaseReps \in Nat \ {0} /\ rep \in 1 .. CaseReps /\ case \in 1 .. L
  BY Constants DEF FidelityTypeOK
<1>4. /\ Len(records) \in Nat /\ Len(records') = Len(records) + 1
      /\ records' \in Seq(RecordSet)
      /\ records'[Len(records) + 1] = Record(verdict, detail)
      /\ \A i \in 1 .. Len(records) : records'[i] = records[i]
  BY JudgementAppends
<1>5. FidelityTypeOK'
  <2>1. fails' \in [Reasons -> Nat]
    <3>1. fails \in [Reasons -> Nat]
      BY DEF FidelityTypeOK
    <3> QED BY <1>1, <3>1
  <2>2. rep' \in 1 .. CaseReps /\ case' \in 1 .. L /\ pc' \in {"ask", "report"}
    BY <1>1, <1>2 DEF NextCase
  <2>3. fidelityOut' \in {"old", "partial", "new"}
    BY <1>1 DEF FidelityTypeOK
  <2> QED BY <1>4, <2>1, <2>2, <2>3 DEF FidelityTypeOK, RecordSet
<1>6. Len(records) + 1 = place(rep, case)
  <2>1. (rep - 1) * L \in Nat
    BY <1>2, SMT
  <2> QED BY <1>1, <1>2, <2>1 DEF InOrder
<1>7. /\ pc' = "ask" => place(rep, case) = (rep' - 1) * L + case' - 1
      /\ pc' # "ask" => place(rep, case) = CaseReps * L
  <2>1. (rep - 1) * L \in Nat /\ (rep - 1) * L + L = rep * L /\ (rep + 1) - 1 = rep
    BY <1>2, SMT
  <2>2. CASE case < L /\ case' = case + 1 /\ UNCHANGED <<rep, pc>>
    BY <1>1, <1>2, <2>1, <2>2
  <2>3. CASE case = L /\ rep < CaseReps /\ case' = 1 /\ rep' = rep + 1 /\ UNCHANGED pc
    <3>1. place(rep, case) = rep * L /\ rep' - 1 = rep /\ rep * L \in Nat
      BY <1>2, <2>1, <2>3
    <3> QED BY <1>1, <2>3, <3>1
  <2>4. CASE case = L /\ rep = CaseReps /\ pc' = "report" /\ UNCHANGED <<rep, case>>
    BY <1>2, <2>1, <2>4
  <2> QED BY <1>1, <2>2, <2>3, <2>4 DEF NextCase
<1>8. ASSUME NEW i \in 1 .. CaseReps, NEW c \in 1 .. L, place(i, c) <= Len(records')
      PROVE  records'[place(i, c)].rep = i /\ records'[place(i, c)].expected = Cases[c]
  <2>1. i - 1 \in Nat /\ rep - 1 \in Nat /\ (i - 1) * L \in Nat /\ place(i, c) \in Nat \ {0}
    BY <1>2, SMT
  <2>2. CASE place(i, c) = place(rep, case)
    <3>1. i - 1 = rep - 1 /\ c = case
      BY <1>2, <2>1, <2>2, PlacesAreUnique
    <3>2. i = rep
      BY <1>2, <3>1
    <3>3. records'[place(i, c)] = Record(verdict, detail)
      BY <1>4, <1>6, <2>2
    <3> HIDE DEF place
    <3> QED BY <3>1, <3>2, <3>3 DEF Record, expected
  <2>3. CASE place(i, c) # place(rep, case)
    <3>1. place(i, c) \in 1 .. Len(records)
      <4>1. \A p \in Nat \ {0}, n \in Nat : p <= n + 1 /\ p # n + 1 => p \in 1 .. n
        OBVIOUS
      <4>2. place(i, c) # Len(records) + 1 /\ place(i, c) <= Len(records) + 1
        BY <1>4, <1>6, <1>8, <2>3
      <4> HIDE DEF place
      <4> QED BY <1>4, <2>1, <4>1, <4>2
    <3> QED BY <1>4, <3>1 DEF InOrder
  <2> QED BY <2>2, <2>3
<1>9. fidelityOut' = "old"
  BY <1>1 DEF InOrder
<1>10. InOrder'
  <2>1. pc' \in {"ask", "report"}
    BY <1>1 DEF NextCase
  <2> QED BY <1>4, <1>6, <1>7, <1>8, <1>9, <2>1 DEF InOrder
<1> QED BY <1>5, <1>10

(* The counter and the records are written together.                              *)
LEMMA JudgedKeepsBooks ==
    ASSUME FidelityTypeOK, BooksAgree, NEW verdict, NEW detail, NEW reason,
           Judgement(verdict, detail, reason)
    PROVE  BooksAgree'
<1> SUFFICES ASSUME NEW x \in Reasons
             PROVE  fails'[x] = Cardinality({i \in 1 .. Len(records') : Reason(records'[i]) = x})
  BY DEF BooksAgree, Reason
<1> DEFINE under == {i \in 1 .. Len(records) : Reason(records[i]) = x}
           underNow == {i \in 1 .. Len(records') : Reason(records'[i]) = x}
           n == Len(records) + 1
<1>1. /\ Len(records) \in Nat /\ Len(records') = n
      /\ records'[n] = Record(verdict, detail)
      /\ \A i \in 1 .. Len(records) : records'[i] = records[i]
  BY JudgementAppends
<1>2. fails'[x] = fails[x] + (IF x = reason THEN 1 ELSE 0) /\ fails[x] = Cardinality(under)
  BY DEF Judgement, Judged, BooksAgree
<1>3. IsFiniteSet(under) /\ Cardinality(under) \in Nat /\ n \notin under
  <2>1. IsFiniteSet(1 .. Len(records))
    BY <1>1, FS_Interval
  <2> QED BY <1>1, <2>1, FS_Subset, FS_CardinalityType
<1>4. 1 .. n = (1 .. Len(records)) \cup {n}
  BY <1>1
<1>5. CASE x = reason
  <2>1. Reason(records'[n]) = x
    BY <1>1, <1>5 DEF Judgement, CountedUnder
  <2>2. underNow = under \cup {n}
    BY <1>1, <1>4, <2>1
  <2> QED BY <1>2, <1>3, <1>5, <2>2, FS_AddElement
<1>6. CASE x # reason
  <2>1. Reason(records'[n]) # x
    BY <1>1, <1>6 DEF Judgement, CountedUnder
  <2>2. underNow = under
    BY <1>1, <1>4, <2>1
  <2>3. fails'[x] = fails[x]
    BY <1>2, <1>3, <1>6
  <2> QED BY <1>2, <2>2, <2>3
<1> QED BY <1>5, <1>6

LEMMA JudgedIsFaithful ==
    ASSUME FidelityTypeOK, NEW verdict, NEW detail, NEW reason, Judgement(verdict, detail, reason)
    PROVE  OkMeansFaithful'
<1>1. /\ records'[Len(records')].verdict = verdict
      /\ records'[Len(records')].expected = expected
  <2>1. records'[Len(records')] = Record(verdict, detail)
    BY JudgementAppends
  <2> QED BY <2>1 DEF Record
<1> QED BY <1>1 DEF Judgement, FaithfulReply, OkMeansFaithful

LEMMA NextIInv == ASSUME IInv, [FidelityNext]_fidelityVars PROVE IInv'
<1> USE DEF IInv
<1>1. CASE Asks
  <2>1. PICK verdict, detail, reason : Judgement(verdict, detail, reason)
    BY <1>1, EveryReplyIsJudged
  <2> QED BY <2>1, JudgedKeepsOrder, JudgedKeepsBooks, JudgedIsFaithful
<1>2. CASE Die \/ OpenFidelityReport \/ DumpFidelityReport
  <2>1. UNCHANGED <<rep, case, reply, records, fails>>
    BY <1>2 DEF Die, OpenFidelityReport, DumpFidelityReport
  <2>2. FidelityTypeOK' /\ InOrder'
    BY <1>2, <2>1 DEF FidelityTypeOK, InOrder, Die, OpenFidelityReport, DumpFidelityReport
  <2>3. OkMeansFaithful' /\ BooksAgree'
    BY <2>1 DEF OkMeansFaithful, BooksAgree
  <2> QED BY <2>2, <2>3
<1>3. CASE UNCHANGED fidelityVars
  <2>1. UNCHANGED <<rep, case, pc, reply, records, fails, fidelityOut>>
    BY <1>3 DEF fidelityVars, loops
  <2>2. FidelityTypeOK' /\ InOrder'
    BY <2>1 DEF FidelityTypeOK, InOrder
  <2>3. OkMeansFaithful' /\ BooksAgree'
    BY <2>1 DEF OkMeansFaithful, BooksAgree
  <2> QED BY <2>2, <2>3
<1> QED BY <1>1, <1>2, <1>3 DEF FidelityNext, Asks

LEMMA SpecIInv == FidelitySpec => []IInv
BY InitIInv, NextIInv, PTL DEF FidelitySpec

--------------------------------------------------------------------------------
(* What follows from it.                                                          *)

(* Every variable keeps its type.                                                 *)
THEOREM TypeCorrect == FidelitySpec => []FidelityTypeOK
<1>1. IInv => FidelityTypeOK
  BY DEF IInv
<1> QED BY <1>1, SpecIInv, PTL

(* The verdict ok is given to the replies that are what was asked for, and to no  *)
(* other, whatever the model calls and with whatever arguments.                   *)
THEOREM OkIsFaithful == FidelitySpec => []OkMeansFaithful
<1>1. IInv => OkMeansFaithful
  BY DEF IInv
<1> QED BY <1>1, SpecIInv, PTL

(* The counter of reasons is the count of the records at every point.             *)
THEOREM BooksAlwaysAgree == FidelitySpec => []BooksAgree
<1>1. IInv => BooksAgree
  BY DEF IInv
<1> QED BY <1>1, SpecIInv, PTL

(* A report there is covers every repetition of every case, in order.             *)
THEOREM ReportsAreComplete == FidelitySpec => []ReportIsComplete
<1>1. ASSUME IInv PROVE ReportIsComplete
  <2> SUFFICES ASSUME fidelityOut # "old"
               PROVE  /\ Len(records) = CaseReps * Len(Cases)
                      /\ \A i \in 1 .. CaseReps, c \in 1 .. Len(Cases) :
                          LET r == records[(i - 1) * Len(Cases) + c]
                          IN  r.rep = i /\ r.expected = Cases[c]
    BY DEF ReportIsComplete
  <2>1. Len(records) = CaseReps * Len(Cases)
    BY <1>1 DEF IInv, InOrder
  <2>2. ASSUME NEW i \in 1 .. CaseReps, NEW c \in 1 .. Len(Cases)
        PROVE  (i - 1) * Len(Cases) + c <= CaseReps * Len(Cases)
    <3>1. PICK k \in Nat : CaseReps = (i - 1) + 1 + k
      <4>1. CaseReps - i \in Nat /\ CaseReps = (i - 1) + 1 + (CaseReps - i)
        BY Constants
      <4> QED BY <4>1
    <3>2. /\ i - 1 \in Nat /\ k * Len(Cases) \in Nat /\ (i - 1) * Len(Cases) \in Nat
          /\ CaseReps * Len(Cases) = (i - 1) * Len(Cases) + Len(Cases) + k * Len(Cases)
      BY <3>1, Constants, SMT
    <3> QED BY <3>2, Constants
  <2> QED BY <1>1, <2>1, <2>2 DEF IInv, InOrder
<1> QED BY <1>1, SpecIInv, PTL

================================================================================
