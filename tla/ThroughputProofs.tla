------------------------------ MODULE ThroughputProofs ------------------------------
(* Proofs about Throughput, for every list of levels and every number of repeats. *)
EXTENDS Throughput, TLAPS

(* Every level has at least one request.                                          *)
LEMMA Sizes ==
    /\ Len(Levels) \in Nat \ {0}
    /\ \A l \in LevelNumbers : Size(l) \in Nat \ {0}
<1>1. Len(Levels) \in Nat \ {0}
  BY LevelsAssumption
<1>2. ASSUME NEW l \in LevelNumbers PROVE Size(l) \in Nat \ {0}
  <2>1. Levels[l] \in Nat \ {0} /\ Reps \in Nat \ {0}
    BY <1>2, LevelsAssumption, RepsAssumption DEF LevelNumbers
  <2>2. \A a, b \in Nat \ {0} : a * b \in Nat \ {0}
    BY SMT
  <2> QED BY <2>1, <2>2 DEF Size
<1> QED BY <1>1, <1>2

LEMMA RequestsAreNumbered ==
    \A l, i : <<l, i>> \in Requests <=> l \in LevelNumbers /\ i \in 1 .. Size(l)
BY DEF Requests

LEMMA RequestsArePairs ==
    ASSUME NEW r \in Requests
    PROVE  r = <<r[1], r[2]>> /\ r[1] \in LevelNumbers /\ r[2] \in 1 .. Size(r[1])
BY DEF Requests

--------------------------------------------------------------------------------
(* The inductive invariant.                                                       *)

(* The levels before the current one have succeeded, those after it not begun.    *)
OtherLevels ==
    \A l \in LevelNumbers : \A i \in 1 .. Size(l) :
        /\ l < level => future[<<l, i>>] = "done"
        /\ l > level => future[<<l, i>>] = "new"

AllDone == \A i \in 1 .. Size(level) : future[<<level, i>>] = "done"

(* What main knows where it is: results are collected from the first one up and   *)
(* cancelled from the last one down, and a failed level is the last.              *)
Collecting ==
    /\ phase \in {"submit", "collect"} => next # 0 /\ ~ failed
    /\ phase = "collect" =>
          /\ next <= Size(level)
          /\ \A i \in 1 .. Size(level) : i < next => future[<<level, i>>] = "done"
    /\ phase = "shutdown" /\ ~ failed => next = Size(level) + 1 /\ AllDone
    /\ phase \in {"report", "dump", "done"} => level = Len(Levels) /\ AllDone

Failing ==
    /\ phase \in {"cancel", "dead"} => failed
    /\ phase = "cancel" =>
          /\ next <= Size(level)
          /\ \A i \in 1 .. Size(level) : i > next => future[<<level, i>>] # "pending"
    /\ phase \in {"shutdown", "dead"} /\ failed =>
          \A i \in 1 .. Size(level) : future[<<level, i>>] # "pending"
    /\ phase = "dead" => \A i \in 1 .. Size(level) : future[<<level, i>>] # "running"

RowsSoFar ==
    /\ Len(rows) = IF phase \in {"report", "dump", "done"} THEN level ELSE level - 1
    /\ \A k \in 1 .. Len(rows) : rows[k].level = k /\ rows[k].counted = 1 .. Size(k)

ReportLast == throughputOut # "old" => phase \in {"dump", "done"}

IInv ==
    /\ ThroughputTypeOK
    /\ OtherLevels
    /\ Collecting
    /\ Failing
    /\ RowsSoFar
    /\ ReportLast

LEMMA InitIInv == ThroughputInit => IInv
<1> SUFFICES ASSUME ThroughputInit PROVE IInv
  OBVIOUS
<1>1. 1 \in LevelNumbers /\ Size(1) \in Nat \ {0}
  BY Sizes DEF LevelNumbers
<1>2. ThroughputTypeOK
  <2>1. next \in 0 .. Size(level) + 1 /\ level \in LevelNumbers
    BY <1>1 DEF ThroughputInit
  <2>2. rows \in Seq([level : LevelNumbers, counted : SUBSET (Nat \ {0})])
    BY DEF ThroughputInit
  <2> QED BY <2>1, <2>2 DEF ThroughputInit, ThroughputTypeOK
<1>3. OtherLevels
  <2> SUFFICES ASSUME NEW l \in LevelNumbers, NEW i \in 1 .. Size(l)
               PROVE  ~ (l < level) /\ future[<<l, i>>] = "new"
    BY DEF OtherLevels
  <2>1. l \in Nat \ {0}
    BY Sizes DEF LevelNumbers
  <2>2. <<l, i>> \in Requests
    BY RequestsAreNumbered
  <2> QED BY <2>1, <2>2 DEF ThroughputInit
<1>4. Collecting /\ Failing /\ RowsSoFar /\ ReportLast
  BY <1>1 DEF ThroughputInit, Collecting, Failing, RowsSoFar, ReportLast
<1> QED BY <1>2, <1>3, <1>4 DEF IInv

(* A step that changes one future of the current level.                            *)
LEMMA OneFutureChanges ==
    ASSUME ThroughputTypeOK, NEW i \in 1 .. Size(level),
           NEW s \in {"new", "pending", "running", "done", "raised", "cancelled"},
           future' = [future EXCEPT ![<<level, i>>] = s]
    PROVE  /\ future' \in [Requests ->
                             {"new", "pending", "running", "done", "raised", "cancelled"}]
           /\ future'[<<level, i>>] = s
           /\ \A l \in LevelNumbers : \A j \in 1 .. Size(l) :
                l # level \/ j # i => future'[<<l, j>>] = future[<<l, j>>]
<1>1. <<level, i>> \in Requests
  BY RequestsAreNumbered DEF ThroughputTypeOK
<1>2. \A l \in LevelNumbers : \A j \in 1 .. Size(l) :
        l # level \/ j # i => <<l, j>> \in Requests /\ <<l, j>> # <<level, i>>
  BY RequestsAreNumbered
<1> QED BY <1>1, <1>2 DEF ThroughputTypeOK

LEMMA CurrentLevel ==
    ASSUME ThroughputTypeOK PROVE level \in LevelNumbers /\ level \in Nat /\ Size(level) \in Nat \ {0}
BY Sizes DEF ThroughputTypeOK, LevelNumbers

(* A worker changes one future only, from pending to running or from running on.  *)
LEMMA WorkerKeepsIInv ==
    ASSUME IInv, NEW i \in 1 .. Size(level), Worker(i) PROVE IInv'
<1> USE DEF IInv
<1>1. PICK s \in {"running", "done", "raised"} :
        /\ future[<<level, i>>] \in {"pending", "running"}
        /\ future' = [future EXCEPT ![<<level, i>>] = s]
        /\ UNCHANGED <<level, phase, next, failed, rows, throughputOut>>
        /\ s = "running" => future[<<level, i>>] = "pending"
  BY DEF Worker, Begin, Finish, InState
<1>2. level \in LevelNumbers /\ Size(level) \in Nat
  BY CurrentLevel
<1>3. /\ future' \in [Requests -> {"new", "pending", "running", "done", "raised", "cancelled"}]
      /\ future'[<<level, i>>] = s
      /\ \A l \in LevelNumbers : \A j \in 1 .. Size(l) :
           l # level \/ j # i => future'[<<l, j>>] = future[<<l, j>>]
  BY <1>1, OneFutureChanges
<1>4. ThroughputTypeOK'
  BY <1>1, <1>3 DEF ThroughputTypeOK, LevelNumbers, Size
<1>5. OtherLevels'
  <2> SUFFICES ASSUME NEW l \in LevelNumbers, NEW j \in 1 .. Size(l)
               PROVE  /\ l < level => future'[<<l, j>>] = "done"
                      /\ l > level => future'[<<l, j>>] = "new"
    BY <1>1 DEF OtherLevels
  <2>1. CASE l = level
    BY <2>1, CurrentLevel
  <2>2. CASE l # level
    BY <1>3, <2>2 DEF OtherLevels
  <2> QED BY <2>1, <2>2
<1>6. Collecting'
  BY <1>1, <1>2, <1>3 DEF Collecting, AllDone, Size
<1>7. Failing'
  BY <1>1, <1>2, <1>3 DEF Failing, Size
<1>8. RowsSoFar' /\ ReportLast'
  BY <1>1 DEF RowsSoFar, ReportLast, Size
<1> QED BY <1>4, <1>5, <1>6, <1>7, <1>8

(* The steps of main that submit, collect and cancel.                             *)
LEMMA RunLevelKeepsIInv ==
    ASSUME IInv, RunLevel PROVE IInv'
<1> USE DEF IInv
<1> DEFINE futures == [Requests -> {"new", "pending", "running", "done", "raised", "cancelled"}]
<1>1. level \in LevelNumbers /\ level \in Nat /\ Size(level) \in Nat \ {0}
  BY CurrentLevel
<1>2. level' = level /\ Size(level)' = Size(level) /\ UNCHANGED <<rows, throughputOut>>
  BY DEF RunLevel, Submit, Submitted, Collect, CollectRaises, Cancel, Cancelled, Size
<1>3. RowsSoFar' /\ ReportLast'
  BY <1>2 DEF RowsSoFar, ReportLast, Size, RunLevel, Submit, Submitted, Collect,
              CollectRaises, Cancel, Cancelled
<1>4. CASE Submit
  <2>1. next \in 1 .. Size(level)
    BY <1>1, <1>4 DEF Submit, Collecting, ThroughputTypeOK
  <2>2. /\ future' \in futures
        /\ \A l \in LevelNumbers : \A j \in 1 .. Size(l) :
             l # level \/ j # next => future'[<<l, j>>] = future[<<l, j>>]
    BY <1>4, <2>1, OneFutureChanges DEF Submit
  <2>3. ThroughputTypeOK'
    BY <1>1, <1>2, <1>4, <2>1, <2>2 DEF ThroughputTypeOK, Submit
  <2>4. OtherLevels'
    BY <1>1, <1>2, <2>2 DEF OtherLevels, LevelNumbers, Size
  <2>5. Collecting' /\ Failing'
    BY <1>1, <1>2, <1>4, <2>1, <2>2 DEF Submit, Collecting, Failing
  <2> QED BY <1>3, <2>3, <2>4, <2>5
<1>5. CASE Submitted \/ Collect \/ CollectRaises \/ Cancelled
  <2>1. future' = future
    BY <1>5 DEF Submitted, Collect, CollectRaises, Cancelled
  <2>2. ThroughputTypeOK'
    <3>1. next' \in 0 .. Size(level) + 1
      BY <1>1, <1>5 DEF ThroughputTypeOK, Submitted, Collect, CollectRaises, Cancelled, Collecting
    <3>2. phase' \in {"collect", "shutdown", "cancel"} /\ failed' \in BOOLEAN
      BY <1>5 DEF ThroughputTypeOK, Submitted, Collect, CollectRaises, Cancelled
    <3> QED BY <1>2, <2>1, <3>1, <3>2 DEF ThroughputTypeOK
  <2>3. OtherLevels'
    BY <1>2, <2>1 DEF OtherLevels, Size
  <2>4. CASE Submitted
    BY <1>1, <1>2, <1>3, <2>1, <2>2, <2>3, <2>4 DEF Submitted, Collecting, Failing
  <2>5. CASE Collect
    <3>1. next \in Nat /\ next <= Size(level) /\ ~ failed /\ next # 0
      BY <1>1, <2>5 DEF Collect, Collecting, ThroughputTypeOK
    <3>2. \A i \in 1 .. Size(level) : i < next' => future[<<level, i>>] = "done"
      BY <1>1, <2>5, <3>1 DEF Collect, Collecting
    <3>3. Collecting' /\ Failing'
      BY <1>1, <1>2, <2>1, <2>5, <3>1, <3>2 DEF Collect, Collecting, Failing, AllDone
    <3> QED BY <1>3, <2>2, <2>3, <3>3
  <2>6. CASE CollectRaises
    BY <1>1, <1>2, <1>3, <2>1, <2>2, <2>3, <2>6 DEF CollectRaises, Collecting, Failing
  <2>7. CASE Cancelled
    BY <1>1, <1>2, <1>3, <2>1, <2>2, <2>3, <2>7 DEF Cancelled, Collecting, Failing
  <2> QED BY <1>5, <2>4, <2>5, <2>6, <2>7
<1>6. CASE Cancel
  <2>1. next \in 1 .. Size(level) /\ failed
    BY <1>1, <1>6 DEF Cancel, Failing, ThroughputTypeOK
  <2>2. /\ future' \in futures
        /\ future'[<<level, next>>] # "pending"
        /\ \A l \in LevelNumbers : \A j \in 1 .. Size(l) :
             l # level \/ j # next => future'[<<l, j>>] = future[<<l, j>>]
    <3>1. CASE next \in InState("pending")
      BY <1>6, <2>1, <3>1, OneFutureChanges DEF Cancel
    <3>2. CASE next \notin InState("pending")
      BY <1>6, <2>1, <3>2 DEF Cancel, InState, ThroughputTypeOK
    <3> QED BY <3>1, <3>2
  <2>3. ThroughputTypeOK'
    BY <1>1, <1>2, <1>6, <2>1, <2>2 DEF ThroughputTypeOK, Cancel
  <2>4. OtherLevels'
    BY <1>1, <1>2, <2>2 DEF OtherLevels, LevelNumbers, Size
  <2>5. Collecting' /\ Failing'
    BY <1>1, <1>2, <1>6, <2>1, <2>2 DEF Cancel, Collecting, Failing
  <2> QED BY <1>3, <2>3, <2>4, <2>5
<1> QED BY <1>4, <1>5, <1>6 DEF RunLevel

(* The end of a level, on to the next one or to the report.                       *)
LEMMA LevelEndsKeepsIInv ==
    ASSUME IInv, LevelEnds PROVE IInv'
<1> USE DEF IInv
<1>1. level \in LevelNumbers /\ level \in Nat /\ Size(level) \in Nat \ {0}
  BY CurrentLevel
<1>2. next = Size(level) + 1 /\ AllDone /\ Len(rows) = level - 1
  BY DEF LevelEnds, Collecting, RowsSoFar
<1>3. /\ rows' = Append(rows, [level |-> level, counted |-> 1 .. Size(level)])
      /\ UNCHANGED <<failed, future, throughputOut>>
  BY <1>1, <1>2 DEF LevelEnds
<1>4. \/ level = Len(Levels) /\ phase' = "report" /\ UNCHANGED <<level, next>>
      \/ level + 1 \in LevelNumbers /\ phase' = "submit" /\ level' = level + 1 /\ next' = 1
  BY <1>1, Sizes DEF LevelEnds, LastLevel, LevelNumbers
<1>5. Size(level') \in Nat \ {0}
  BY <1>1, <1>4, Sizes
<1>6. rows' \in Seq([level : LevelNumbers, counted : SUBSET (Nat \ {0})])
  BY <1>1, <1>3 DEF ThroughputTypeOK
<1>7. ThroughputTypeOK'
  BY <1>1, <1>2, <1>3, <1>4, <1>5, <1>6 DEF ThroughputTypeOK, LevelEnds, Size
<1>8. OtherLevels'
  <2> SUFFICES ASSUME NEW l \in LevelNumbers, NEW i \in 1 .. Size(l)
               PROVE  /\ l < level' => future[<<l, i>>] = "done"
                      /\ l > level' => future[<<l, i>>] = "new"
    BY <1>3 DEF OtherLevels
  <2>1. l \in Nat
    BY DEF LevelNumbers
  <2>2. l < level' => l < level \/ l = level
    BY <1>1, <1>4, <2>1
  <2>3. l > level' => l > level
    BY <1>1, <1>4, <2>1
  <2> QED BY <1>2, <2>2, <2>3 DEF OtherLevels, AllDone
<1>9. Collecting' /\ Failing'
  BY <1>1, <1>2, <1>3, <1>4 DEF LevelEnds, Collecting, Failing, AllDone, Size
<1>10. RowsSoFar'
  <2>1. Len(rows') = level /\ rows'[level] = [level |-> level, counted |-> 1 .. Size(level)]
    BY <1>1, <1>2, <1>3 DEF ThroughputTypeOK
  <2>2. \A k \in 1 .. level : k # level => k \in 1 .. Len(rows) /\ rows'[k] = rows[k]
    BY <1>1, <1>2, <1>3 DEF ThroughputTypeOK
  <2> QED BY <1>1, <1>4, <2>1, <2>2 DEF RowsSoFar, Size
<1>11. ReportLast'
  BY <1>3 DEF LevelEnds, ReportLast
<1> QED BY <1>7, <1>8, <1>9, <1>10, <1>11

LEMMA EndKeepsIInv ==
    ASSUME IInv, GiveUp \/ OpenThroughputReport \/ DumpThroughputReport PROVE IInv'
<1> USE DEF IInv
<1>1. UNCHANGED <<level, next, failed, future, rows>>
  BY DEF GiveUp, OpenThroughputReport, DumpThroughputReport
<1>2. ThroughputTypeOK' /\ OtherLevels' /\ RowsSoFar' /\ ReportLast'
  BY <1>1 DEF ThroughputTypeOK, OtherLevels, RowsSoFar, ReportLast, GiveUp, OpenThroughputReport, DumpThroughputReport, Size
<1>3. Collecting'
  BY <1>1 DEF Collecting, AllDone, GiveUp, OpenThroughputReport, DumpThroughputReport, Size
<1>4. Failing'
  BY <1>1 DEF Failing, GiveUp, OpenThroughputReport, DumpThroughputReport, Drained, InState, Size
<1> QED BY <1>2, <1>3, <1>4

LEMMA NextIInv == ASSUME IInv, [ThroughputNext]_throughputVars PROVE IInv'
<1>1. CASE UNCHANGED throughputVars
  BY <1>1 DEF throughputVars, IInv, ThroughputTypeOK, OtherLevels, Collecting, Failing, RowsSoFar, ReportLast,
              AllDone, Size
<1> QED
  BY <1>1, WorkerKeepsIInv, RunLevelKeepsIInv, LevelEndsKeepsIInv, EndKeepsIInv DEF ThroughputNext, Main

LEMMA SpecIInv == ThroughputSpec => []IInv
BY InitIInv, NextIInv, PTL DEF ThroughputSpec

--------------------------------------------------------------------------------
(* What follows from it.                                                          *)

(* Every variable keeps its type.                                                 *)
THEOREM TypeCorrect == ThroughputSpec => []ThroughputTypeOK
<1>1. IInv => ThroughputTypeOK
  BY DEF IInv
<1> QED BY <1>1, SpecIInv, PTL

(* Requests are on their way only while their own level is measured, whichever    *)
(* request of whichever level fails, for any levels and repeats.                  *)
THEOREM NoOverlap == ThroughputSpec => []LevelsDoNotOverlap
<1>1. ASSUME IInv PROVE LevelsDoNotOverlap
  <2> SUFFICES ASSUME NEW r \in Requests, future[r] \in {"pending", "running"}
               PROVE  r[1] = level /\ phase \in {"submit", "collect", "cancel", "shutdown"}
    BY DEF LevelsDoNotOverlap
  <2>1. r = <<r[1], r[2]>> /\ r[1] \in LevelNumbers /\ r[2] \in 1 .. Size(r[1])
    BY RequestsArePairs
  <2>2. r[1] = level
    <3>1. ~ (r[1] < level) /\ ~ (r[1] > level)
      BY <1>1, <2>1 DEF IInv, OtherLevels
    <3> QED BY <1>1, <2>1, <3>1, CurrentLevel DEF IInv, LevelNumbers
  <2>3. phase \notin {"report", "dump", "done", "dead"}
    BY <1>1, <2>1, <2>2 DEF IInv, Collecting, AllDone, Failing
  <2> QED BY <1>1, <2>2, <2>3 DEF IInv, ThroughputTypeOK
<1> QED BY <1>1, SpecIInv, PTL

(* A row is printed only when all its level's requests have succeeded, and counts *)
(* them all.                                                                      *)
THEOREM WholeRows == ThroughputSpec => []RowsAreWhole
<1>1. ASSUME IInv PROVE RowsAreWhole
  <2> SUFFICES ASSUME NEW k \in 1 .. Len(rows), NEW i \in rows[k].counted
               PROVE  future[<<k, i>>] = "done"
    BY <1>1 DEF IInv, RowsSoFar, RowsAreWhole
  <2>1. i \in 1 .. Size(k) /\ level \in LevelNumbers /\ level \in Nat
    BY <1>1, CurrentLevel DEF IInv, RowsSoFar
  <2>2. k \in LevelNumbers /\ (k < level \/ (k = level /\ phase \in {"report", "dump", "done"}))
    BY <1>1, <2>1, Sizes DEF IInv, RowsSoFar, LevelNumbers
  <2> QED BY <1>1, <2>1, <2>2 DEF IInv, OtherLevels, Collecting, AllDone
<1> QED BY <1>1, SpecIInv, PTL

(* The report is written when every level has its row, and never after a request  *)
(* has raised.                                                                    *)
THEOREM ReportIsAllOrNothing == ThroughputSpec => []AllOrNothing
<1>1. ASSUME IInv PROVE AllOrNothing
  <2>1. throughputOut # "old" => Len(rows) = Len(Levels)
    BY <1>1 DEF IInv, ReportLast, RowsSoFar, Collecting
  <2>2. ASSUME NEW r \in Requests, future[r] = "raised", throughputOut # "old" PROVE FALSE
    <3>1. r = <<r[1], r[2]>> /\ r[1] \in LevelNumbers /\ r[2] \in 1 .. Size(r[1])
      BY RequestsArePairs
    <3>2. level = Len(Levels) /\ AllDone
      BY <1>1, <2>2 DEF IInv, ReportLast, Collecting
    <3>3. r[1] < level \/ r[1] = level
      BY <3>1, <3>2, Sizes DEF LevelNumbers
    <3> QED BY <1>1, <2>2, <3>1, <3>2, <3>3 DEF IInv, OtherLevels, AllDone
  <2> QED BY <2>1, <2>2 DEF AllOrNothing
<1> QED BY <1>1, SpecIInv, PTL

(* When main has dealt with a failure the queue is empty and stays so.            *)
THEOREM NothingSentLater == ThroughputSpec => []NothingSentAfterFailure
<1>1. IInv => NothingSentAfterFailure
  BY DEF IInv, Failing, NothingSentAfterFailure, InState
<1> QED BY <1>1, SpecIInv, PTL

================================================================================
