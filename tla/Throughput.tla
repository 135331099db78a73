-------------------------------- MODULE Throughput --------------------------------
(* The throughput benchmark: main and run_level of                                *)
(* bench/scripts/bench_throughput.py.  For every concurrency level a thread pool  *)
(* of that many workers is given reps requests per worker, the results are taken  *)
(* in the order of the requests, and the pool is shut down before the level's     *)
(* clock is stopped.  Nothing catches a request that raises.                      *)
(*                                                                                *)
(* The pool (concurrent.futures) is external: a queue that workers take futures   *)
(* from in order, map, which cancels what is left when a result raises, and a     *)
(* with block, which waits for the workers.                                       *)
EXTENDS Integers, Sequences, FiniteSets

CONSTANTS
    Levels,     \* --concurrency: the levels, in order
    Reps        \* --reps

ASSUME LevelsAssumption == Levels \in Seq(Nat \ {0}) /\ Levels # <<>>
ASSUME RepsAssumption == Reps \in Nat \ {0}

VARIABLES
    level,          \* the level main is at
    phase,          \* where run_level, or main around it, is
    next,           \* the request submitted, collected or cancelled next
    failed,         \* a result has raised in main
    future,         \* the state of every request's future
    rows,           \* the rows so far: the level and the requests counted in it
    throughputOut   \* what is at --out: an "old", a "partial" or the "new" report

throughputVars == <<level, phase, next, failed, future, rows, throughputOut>>

LevelNumbers == 1 .. Len(Levels)
Size(l) == Levels[l] * Reps
Requests == UNION {{l} \X (1 .. Size(l)) : l \in LevelNumbers}

(* The current level's requests in a state.                                       *)
InState(s) == {i \in 1 .. Size(level) : future[<<level, i>>] = s}

ThroughputInit ==
    /\ level = 1
    /\ phase = "submit"
    /\ next = 1
    /\ failed = FALSE
    /\ future = [r \in Requests |-> "new"]
    /\ rows = <<>>
    /\ throughputOut = "old"

(* pool.map submits every request before it returns; workers are at it already.   *)
Submit ==
    /\ phase = "submit"
    /\ next <= Size(level)
    /\ future' = [future EXCEPT ![<<level, next>>] = "pending"]
    /\ next' = next + 1
    /\ UNCHANGED <<level, phase, failed, rows, throughputOut>>

Submitted ==
    /\ phase = "submit"
    /\ next > Size(level)
    /\ phase' = "collect"
    /\ next' = 1
    /\ UNCHANGED <<level, failed, future, rows, throughputOut>>

(* A free worker takes the first future of the queue; cancelled ones are skipped. *)
Begin(i) ==
    /\ i \in InState("pending")
    /\ \A j \in InState("pending") : i <= j
    /\ Cardinality(InState("running")) < Levels[level]
    /\ future' = [future EXCEPT ![<<level, i>>] = "running"]
    /\ UNCHANGED <<level, phase, next, failed, rows, throughputOut>>

(* one_request returns: the stream has ended, with [DONE] or without, whatever it *)
(* carried; or it raises: refused, a status that is an error, a timeout.          *)
Finish(i) ==
    /\ i \in InState("running")
    /\ \E s \in {"done", "raised"} : future' = [future EXCEPT ![<<level, i>>] = s]
    /\ UNCHANGED <<level, phase, next, failed, rows, throughputOut>>

(* Plausible bug: results are taken as they come, not in order.                   *)
CollectAsCompleted ==
    /\ phase = "collect"
    /\ InState("done") # {}
    /\ next' = next + 1
    /\ phase' = IF next = Size(level) THEN "shutdown" ELSE "collect"
    /\ UNCHANGED <<level, failed, future, rows, throughputOut>>

(* The results are taken in the order of the requests, waiting for each.          *)
Collect ==
    /\ phase = "collect"
    /\ future[<<level, next>>] = "done"
    /\ next' = next + 1
    /\ phase' = IF next = Size(level) THEN "shutdown" ELSE "collect"
    /\ UNCHANGED <<level, failed, future, rows, throughputOut>>

(* Plausible bug: only the futures already taken are cancelled.                   *)
CollectRaisesLate ==
    /\ phase = "collect"
    /\ future[<<level, next>>] = "raised"
    /\ failed' = TRUE
    /\ phase' = "cancel"
    /\ UNCHANGED <<level, next, future, rows, throughputOut>>

(* The first result that raises: map's generator is left, and cancels the rest.   *)
CollectRaises ==
    /\ phase = "collect"
    /\ future[<<level, next>>] = "raised"
    /\ failed' = TRUE
    /\ phase' = "cancel"
    /\ next' = Size(level)
    /\ UNCHANGED <<level, future, rows, throughputOut>>

(* Plausible bug: the cancelling stops at a future that is no longer pending.     *)
CancelWhilePending ==
    /\ phase = "cancel"
    /\ next \in InState("pending")
    /\ future' = [future EXCEPT ![<<level, next>>] = "cancelled"]
    /\ next' = next - 1
    /\ UNCHANGED <<level, phase, failed, rows, throughputOut>>

(* future.cancel(), from the last one down (map has reversed its list): it takes  *)
(* only those no worker has begun.                                                *)
Cancel ==
    /\ phase = "cancel"
    /\ next > 0
    /\ future' = IF next \in InState("pending")
                   THEN [future EXCEPT ![<<level, next>>] = "cancelled"] ELSE future
    /\ next' = next - 1
    /\ UNCHANGED <<level, phase, failed, rows, throughputOut>>

Cancelled ==
    /\ phase = "cancel"
    /\ next = 0
    /\ phase' = "shutdown"
    /\ UNCHANGED <<level, next, failed, future, rows, throughputOut>>

(* Plausible bug: the pool is shut down without waiting for its workers.          *)
DrainedAtOnce == TRUE

(* shutdown(wait=True): the queue is empty and no worker is busy.                 *)
Drained == InState("pending") = {} /\ InState("running") = {}

(* The end of the with block, on the way out of a failed level: main ends.        *)
GiveUp ==
    /\ phase = "shutdown"
    /\ failed
    /\ Drained
    /\ phase' = "dead"
    /\ UNCHANGED <<level, next, failed, future, rows, throughputOut>>

(* Plausible bug: a level too few.                                                *)
LastLevelEarly == level + 1 >= Len(Levels)

(* Plausible bug: a level too many.                                               *)
LastLevelLate == level > Len(Levels)

LastLevel == level = Len(Levels)

(* The end of the with block: the row of the level, and on to the next one.       *)
LevelEnds ==
    /\ phase = "shutdown"
    /\ ~ failed
    /\ Drained
    /\ rows' = Append(rows, [level |-> level, counted |-> 1 .. next - 1])
    /\ IF LastLevel
         THEN /\ phase' = "report"
              /\ UNCHANGED <<level, next>>
         ELSE /\ phase' = "submit"
              /\ level' = level + 1
              /\ next' = 1
    /\ UNCHANGED <<failed, future, throughputOut>>

(* The report is written once, after the last level, over an older one.           *)
OpenThroughputReport ==
    /\ phase = "report"
    /\ phase' = "dump"
    /\ throughputOut' = "partial"
    /\ UNCHANGED <<level, next, failed, future, rows>>

DumpThroughputReport ==
    /\ phase = "dump"
    /\ phase' = "done"
    /\ throughputOut' = "new"
    /\ UNCHANGED <<level, next, failed, future, rows>>

RunLevel ==
    \/ Submit
    \/ Submitted
    \/ Collect
    \/ CollectRaises
    \/ Cancel
    \/ Cancelled

Main ==
    \/ RunLevel
    \/ GiveUp
    \/ LevelEnds
    \/ OpenThroughputReport
    \/ DumpThroughputReport

Worker(i) == Begin(i) \/ Finish(i)

ThroughputNext == Main \/ \E i \in 1 .. Size(level) : Worker(i)

(* A request ends: urlopen gives every read 1800 s.  Workers that are free take   *)
(* work, and main goes on when it can.                                            *)
ThroughputSpec ==
    /\ ThroughputInit
    /\ [][ThroughputNext]_throughputVars
    /\ WF_throughputVars(Main)
    /\ \A r \in Requests : WF_throughputVars(r[1] = level /\ Worker(r[2]))

--------------------------------------------------------------------------------
(* Properties.                                                                    *)

ThroughputTypeOK ==
    /\ level \in LevelNumbers
    /\ phase \in {"submit", "collect", "cancel", "shutdown", "report", "dump", "done", "dead"}
    /\ next \in 0 .. Size(level) + 1
    /\ failed \in BOOLEAN
    /\ future \in [Requests -> {"new", "pending", "running", "done", "raised", "cancelled"}]
    /\ rows \in Seq([level : LevelNumbers, counted : SUBSET (Nat \ {0})])
    /\ throughputOut \in {"old", "partial", "new"}

(* No level is measured under another one's load: a request is on its way only    *)
(* between the two readings of its own level's clock, and none is left when the   *)
(* program ends, not even after a failure.                                        *)
LevelsDoNotOverlap ==
    \A r \in Requests :
        future[r] \in {"pending", "running"} =>
            /\ r[1] = level
            /\ phase \in {"submit", "collect", "cancel", "shutdown"}

(* A row counts all the requests of its level, each of which has succeeded; rows  *)
(* come in the order of the levels.                                               *)
RowsAreWhole ==
    \A k \in 1 .. Len(rows) :
        /\ rows[k].level = k
        /\ rows[k].counted = 1 .. Size(k)
        /\ \A i \in rows[k].counted : future[<<k, i>>] = "done"

(* One failed request costs every row: the report is touched only when all levels *)
(* have succeeded, and after a failure the one on disk is an earlier run's.       *)
AllOrNothing ==
    /\ throughputOut # "old" => Len(rows) = Len(Levels)
    /\ (\E r \in Requests : future[r] = "raised") => throughputOut = "old"

(* Once main has dealt with a failure nothing more is sent: the queue is empty,   *)
(* whatever the workers took from it while main was cancelling.                   *)
NothingSentAfterFailure ==
    failed /\ phase \in {"shutdown", "dead"} => InState("pending") = {}

(* The benchmark ends, with a report or without.                                  *)
ThroughputEnds == <>(phase \in {"done", "dead"})

================================================================================
