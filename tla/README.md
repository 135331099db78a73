# A TLA+ model of qwen3.8-27b-bench

The repository measures a local language model: it starts `llama-server`, asks
it for code in several ways, builds and tests what comes back, and reports
rates. Nothing in it is a server with many clients; what can go wrong is that a
*number is reported that does not mean what it says*: an old result counted as a
new one, a session judged on files it did not write, a measurement taken in the
wrong mode, a transcript in which the model is told something that did not
happen. The modules here are about those.

## The system

| component | source | state | operations | interacts with |
|---|---|---|---|---|
| agent episode | `bench/scripts/agent_loop.py`: `run_episode`, `chat`, `Sandbox` | transcript `messages`, records `turns`, counter `errors`, the local `result`, the project directory | one turn: request, reply, tool call, answer; the final judgement | model server (HTTP), file system, pytest |
| agent run | `agent_loop.py`: `main` | work directories `ep1..epN`, `results` in memory, the report `--out` | clear, copy, lead an episode, judge, write the report | episodes; started twice by `run_all.sh` |
| pass@1 measurement | `bench/scripts/run_repeat.sh` | `$OUT/<label>/project`, `metrics.json`, `verify.log`; the counts | generate, verify, tally | generation client, verification scripts |
| generation client | `bench/scripts/run_coding_task.py` | the streamed text, the files extracted from it | stream, split off thinking, extract files, write | model server, `$OUT` |
| verification | `bench/scripts/verify_common.sh`, `bench/tasks/*/verify.sh` | `/tmp/v_*.log` | build, test, verdict | the generated project |
| thinking sweep | `bench/scripts/thinking_sweep.sh` | `MODE`, `CHARS` | probe, three guards, measure, cost table | model server, `run_repeat.sh` |
| task store (lock) | `bench/tasks/agent-{go,rust}-rest/reference` | map and `nextID` under a read-write lock | list, create, get, put, delete | concurrent HTTP clients |
| task store (Refs) | `bench/tasks/agent-scala-rest/reference` | two `Ref`s | the same | concurrent HTTP clients |
| throughput | `bench/scripts/bench_throughput.py` | thread pool, rows | a level of concurrent requests, the report | model server |
| tool-call fidelity | `bench/scripts/tool_call_fidelity.py` | records, failure counts | call, judge the call, summarise | model server |
| prompt variants | `run_prompt_variants.sh` | as pass@1, labels named for the variant | skip or generate, verify, tally | generation client, verification |
| repair round | `run_repair.sh` | as pass@1 | one generation and verification per task | generation client, verification |
| full run | `run_all.sh` | none | stages in a line | all of the above |
| serving | `serving/*.sh` | none of its own | preflight, download, start, smoke test | `llama-server` |
| examples | `output/examples` | map and id counter | the TODO API | HTTP clients |
| fixtures, prompts, opencode config | `bench/tasks/agent-*-bug`, `PROMPT.md`, `opencode/` | none | none | input data |

### What is hard here

* **Partial failure without exit statuses.** The shell scripts run under
  `set -uo pipefail` without `-e`: whatever fails, the next command runs over
  whatever is on disk.
* **Re-runs over the same directories.** Every output path is fixed; crashes and
  kills leave files that the next invocation meets.
* **A model that may reply anything.** Every reply is legal input for the agent
  loop, in any order over a long session, with one error counter and one local
  variable carried across turns.
* **A probe that is stale when used.** The sweep looks at the server once, then
  measures for hours.
* **Real concurrency**: in the reference stores, with two different disciplines,
  and between the throughput benchmark and its thread pool.

## Modules

### `EpisodeContract`, `AgentEpisode`: one episode

`AgentEpisode` has one action per way a turn can go in `run_episode`; an action
is the whole turn, from the request to the last `append`.

| action | code |
|---|---|
| `ChatFails` | `chat` raises; `http_error`, break (137-141) |
| `MalformedReply` | a lookup outside every `try` raises (143, 164-165, 198) |
| `NoToolCall` | nudge or stall (151-162) |
| `HallucinatedTool`, `BadJson`, `BadArgs`, `ToolRaises`, `ToolRuns` | the five outcomes of a call (172-195), each with the common tail `Answer` (169-170, 197-203) |
| `NullArguments`, `NullArgumentsUnbound` | `args` decodes to `None`: the branch of line 185 is skipped and line 197 uses `result` as it is, or finds it unbound |
| `Judge`, `JudgeRaises` | `tests_pass` (109-115) in the returned record (205-209) |

Text is abstracted to its origin: a tool message records the turn whose *call*
it answers and the turn it is *from*. That is what tells a real reply from a
repeated one. The project directory is a member of `Projects`; `write_file` may
turn it into any other, also when it raises after truncating the file.

`EpisodeContract` is what `main` relies on: work, then close, then judge; solved
is reported only of a project whose own suite passes at that moment. The
episode implements it (`ImplementsContract`) under `phase <- Phase`.

### `AgentRun`: episodes in a program that is started again

A directory is the set of `<<invocation, episode>>` pairs that wrote into it.
`ClearWork` is `rmtree(ignore_errors=True)`, so it may leave everything;
`CopyTask`/`CopyRefused` is `copytree`, which insists that the directory is not
there; `SessionWrites` goes where `_resolve` lets it, which is a prefix test on
text, so the session of `ep1` may also write into `ep10` (`Extends`; the
constant `Powers` is the number base, so that three episodes in base 2 have the
same situation as ten in base 10). `OpenReport`/`DumpReport` are the truncating
`open` and `json.dump`. `Crash` stands for every exception that leaves `main`,
and for kills.

### `RepeatRun`: pass@1

`project[l]` is the set of invocations that have a file in the label's project
directory; `log[l]` is the verdict, who wrote it and over which files. The
generation has three outcomes (`GenerationNotStarted`, `RequestFails`,
`AnswerArrives`), none of which stops the script; the files of an answer replace
none, some or all of those that are there, some also when writing breaks off.
The redirection of line 33 truncates the log before `verify.sh` starts
(`OpenLog`), or fails, and then nothing is verified: because the directory does
not exist (`NoLogToOpen`), or because the log in it cannot be opened
(`LogNotOpened`), which leaves an earlier invocation's log to be counted. The
history variable `unopened` remembers the labels of the second case.
`metrics.json` is left out: only the sweep's cost table reads it, and prints.

### `ThinkingSweep`: the guard in front of the measurement

Extends `RepeatRun` and drives its actions; `llama-server` is external
(`ServerReady`, `ServerDies`, `ServerRestarts`). Its run is also the one that
checks `RepeatRun`'s properties: a generation is answered only while the server
is ready, and the script is killed, and started again, by the sweep.
`ServerAnswers`, `MeasurementGoesOn` and `ProjectIsVerified` divide
`run_repeat.sh`'s steps by what they wait for: the server, nothing, a build.
`CHARS` has the four kinds of value the one-liner can print: -1, nothing, zero,
positive. Bash's evaluation of `[ "" -lt 0 ]` (an error, hence false) is modelled
as it is.

### `VariantRun`: the prompt variants of a task

Extends `RepeatRun` with the loops of `run_prompt_variants.sh`: a label is a
variant and a repetition, `PromptMissing` is the `continue` of line 27, which
skips all repetitions of a variant, and `TallyVariants` counts builds and tests
of *all* labels, the skipped ones too. `tasks` is the `TASK` of each invocation,
which the labels do not name.

### `ToolFidelity`: single-turn tool calls

`main` of `tool_call_fidelity.py` with `check_args`. The state is the place in
the two loops, the records, the counter of reasons and what lies at `--out`; the
actions are the branches of the verdict chain (155-181), each with the common
tail of the loop's body (`Judged`), and the two steps of the report. A call's
arguments are what `json.loads` makes of them: nothing, a value that is no
object, or an object, a function from its keys to the Python types of their
values. `Details` is the set of details `check_args` may return: the order of an
object's keys decides which fault it meets first. `TOOL_SCHEMAS` is the
repository's, all five tools of it.

### `TaskApi`, `TaskStore`, `TaskRefs`: the reference stores

`TaskApi` is the abstract object: a call is open, takes effect at once, is
served. `TaskStore` is the Go handler under a read-write lock, with the Rust order
of the two statements of `create` as an alternative. Every statement that touches
the shared state is a step of its own: `Find` and `Update` are put's lookup and
write (101, 103), `Find` and `Remove` delete's (121, 122), `ReadBack` put's
second lookup (105), `CopyEntry` one round of list's loop. So nothing but the lock
keeps another handler out from between them. The lock is `sync.RWMutex` with its
preference for writers: a writer comes to the front alone (`Announce`), waits for
the readers that are there (`Lock`), and readers that come after it are parked
(`Park`) until its unlock lets them in (`Release`, `Resume`).

`TaskRefs` is the Scala store, a step per `Ref` operation. Both implement
`TaskApi`: `TaskStore` takes effect where the lock is released
(`tasks <- committed.tasks`), `TaskRefs` where the task is stored
(`created <- inserted`: ids need not be handed out in order).

### `CodingAnswer`: the text of one answer

`stream_completion` and `extract_files`. Text is a sequence of tokens, as coarse
as the three regular expressions allow: a think tag, a `### FILE:` line, a fence,
any other line; each carries its place in the stream, so that a line of a file can
be followed back. There are two kinds of fence, since `FENCE_RE` begins a block
only at backticks with a plain info string or none: an odd fence (`rust,ignore`)
can end a block and not begin one (`Blocks`). `ContentDelta`, `ReasoningDelta`,
`StreamEnds` and `StreamRaises` are the loop over the event stream (45-74),
`Split` the two passes over think tags (80-90), `Extract` the call of
`extract_files` (111-119). A stream that is closed before `[DONE]` is a
`StreamEnds` after fewer tokens: the loop cannot tell the two apart. `Matches` is
the non-greedy `THINK_RE` as `re` applies it, left to right and without overlap.

### `Throughput`: concurrent requests and their report

`run_level` per level and `main` around it. `Submit`..`Submitted`, `Collect` and
`CollectRaises` are `list(pool.map(...))`; the pool itself is external and
modelled from how `concurrent.futures` is used here: workers take pending futures
in order (`Begin`), `map` cancels what is left, last first, when a result raises
(`Cancel`), and the `with` block waits for queue and workers (`Drained`).
Workers go on while `main` cancels. `Finish` is `one_request`, which returns or
raises; times and token counts are abstracted.

### `FullRun`: one program after another

`run_all.sh` starts the throughput benchmark, the tool-call benchmark, the coding
tasks and the agent loops in this order and looks at no exit status. `FullRun`
extends the three modules of programs that have one run of the script each and
lets only the program of the current `stage` take steps; the next stage begins
when the one before is done *or dead*. No program reads another one's files, so
what a stage leaves behind is forgotten when the next one begins. The coding tasks
are one step here: they are `RepeatRun`, with a state space of their own.

### MC modules

Each `MC*` module only supplies constants. `*.cfg` of the same name is the
passing run; the other configurations check one sentence of the repository that
the code does not keep.

## Runs

| run | bounds | shows |
|---|---|---|
| `agent_episode` | 4 turns, 3 contents, one reading tool | 301k states. Four turns hold three faults and one more turn, so the stall limit is met, passed by other faults, and met at the last turn; a stale reply can be repeated and repeated again. |
| `full_run` | levels 1 and 2, 2 requests per worker; 2 cases, 2 repetitions, calls of `run_command`, `list_dir` and an unknown tool; 3 episodes in base 2, 2 invocations | 65k states. Throughput: the second level has requests that ended, that run and that wait when the first of them raises; the first level has a failure with a level still to come. Tool calls: every object over the parameters of the expected tool, one of them an integer, and one more key, each with a string, an integer or a boolean; a case that wants no tool; a last case and a last repetition. Agent loops: episode 1's name is a prefix of 2's and 3's, and each can be crashed, left uncleared, judged and run again. |
| `sweep` | 2 labels, 2 measurements, 1 restart | 1.3M states. The server loads, dies and changes mode between any two steps of the script; one label before and one after every failure, and an earlier invocation's files under each. |
| `variants` | 2 variants of 2 repetitions, 2 invocations, 3 tasks | 3.6M states. A task has a prompt for both variants, for the second only, or for none, so a variant is skipped first, last, and with logs of the same or of another task under it. |
| `task_store` | 3 clients, 2 ids | 206k states. Two clients serve every request, so every handler of one meets every step of every handler of the other, which is where a missing lock would show; the third reads, so that readers can overlap for ever in front of a writer. With a lock that lets readers in behind a waiting writer, `Answered` fails here; with two clients it would not. |
| `task_refs` | 2 clients, 3 ids | Two creates in flight, stored in either order, over a store that is not empty. |
| `coding_answer` | 6 tokens, 2 paths | 1.4M states. A path can be answered twice in full; a thinking block can be opened twice, closed and opened again, with a file before, in or after it; a section can begin with a fence that cannot begin a block. |
| `null_arguments` | as `agent_episode` | **finding 1** |
| `stale_project` | `run_repeat.sh` alone, 2 labels, 2 invocations | **finding 2** |
| `sweep_unready` | as `sweep` | **finding 3** |
| `orphan_think` | as `coding_answer` | **finding 4** |
| `boolean_integer` | 1 case, 1 repetition, calls of `run_command` | **finding 5** |

`CHECK_DEADLOCK FALSE` is set where the program stops: an episode returns, the
scripts end, and nobody has to start them again. The stores run on and are
checked for deadlock, except that a bound on ids (`MaxId`) limits creates.

### Properties

* `TranscriptAnswered` - every tool call is answered at once, under its id; no
  request ends in an assistant message.
* `LeftForAReason` - the session ends for one of four reasons and not a turn
  later.
* `StaleRepliesRepeat` - the most the null-arguments defect can do is repeat the
  previous tool message on a turn recorded as ok.
* `Terminates`, `ImplementsContract` - the episode ends, and its verdict is of
  the project as the session left it.
* `JudgedOnOwnWork`, `EvidenceKept`, `ReportIsWhole`, `AgentRunEnds` - the
  verdicts of a run, the directories they are about, and the report, over crashes,
  silent `rmtree` failures and sibling writes.
* `TallyIsCurrent`, `LogsFollowFiles`, `WaitsOnlyForBuilds` - what pass@1 counts
  was verified by this invocation over the files that lie there, except where the
  log could not be opened over an existing directory: what is counted there is an
  earlier invocation's. Only a build can keep the script waiting.
* `MeasuredSweepIsOfItsMode` - once the probe has printed a number, and while
  the server it came from runs, all answers are of the mode asked for. It is about
  the guards: of a server restarted after the probe it says nothing, and of one
  that is still loading finding 3 does.
* `DeletedStaysDeleted` - no create and no put that found an id before it was
  deleted brings it back. `ImplementsTaskApi`, `HolesAreInFlight` - the stores are
  one atomic object to their clients and never share an id. `Answered` - readers
  do not starve writers, nor writers readers.
* `NothingLost`, `AnswerIsWhatWasNotThought` - every token is measured once, as
  reasoning or as answer, save the tag of a block that was never closed; and the
  two passes leave what a reader takes for the answer who goes through the text
  once and remembers only whether the model is thinking (a second definition,
  independent of the regular expressions). A closing tag that closes nothing makes
  one difference: it stays, and with it a block that is open at the end. That this
  is not what the code says it does is finding 4.
* `FilesAreLastBlocks` - a file is exactly the lines between the first fence of its
  path's last complete section that can begin a block and the fence after it.
  `FilesAccumulate` - cutting the stream short loses the section being written and
  no file that was already whole, as long as every closing tag closes something:
  an orphan can bring back a block that had been cut off as unterminated, and the
  marks in it then end an earlier section.
* `LevelsDoNotOverlap`, `RowsAreWhole`, `AllOrNothing`, `NothingSentAfterFailure`,
  `ThroughputEnds` - no request is on its way outside its own level's clock; rows
  are of whole successful levels, in order; the report is of all levels or
  untouched; after a failure the queue is empty and the program ends.
* `OkMeansFaithful` - what the verdict ok does mean: a reply that keeps quiet when
  it should, or calls the right tool with arguments that conform to its schema (a
  definition of conformance independent of `check_args`) or would with integers
  for its booleans; and every such reply has it. That it should mean conformance
  without the exception is finding 5. `BooksAgree` - the counter of reasons is at
  every point the count of the records. `ReportIsComplete` - a report, even half a
  one, is of every case of every repetition in order.
* `CountsAreCurrentWherePrompted` - what the table of variants counts of a variant
  that has a prompt, and whose log could be opened, was verified by this invocation
  over the files that are there; all else it counts was verified by an earlier one.

### Fairness

* `AgentEpisode`: `WF(Next)`. Every wait is bounded by the code: `urlopen` has a
  timeout of 900 s (per socket operation), the suite one of 120 s.
* `AgentRun`: `WF` of the steps of `main`, and of `JudgeEpisode` on its own,
  since an episode ends (`Terminates`). Not of `Crash` or `Restart`.
* `RepeatRun`: none of its own. `ThinkingSweep`: `WF` of the steps of the
  measurement except the verification: a request has 3600 s per read and `verify.sh`
  no limit. Nothing is assumed of the probe, whose `curl` has no limit, of the
  server or of the operator.
* `TaskStore`: a handler that can go on goes on (`WF`). Coming to the front among
  the writers (`Announce`) is `SF`: Go's writers queue for one `sync.Mutex`, whose
  starvation mode serves a waiter of more than a millisecond first. Nothing is
  assumed of readers against writers; that neither starves the other is what
  parking and releasing do. Rust's `RwLock` promises no order, so `Answered`
  speaks for Go.
* `CodingAnswer`, `VariantRun`: none, they state no liveness.
* `Throughput`: `WF` of `main` and of each request's worker: `urlopen` gives every
  read 1800 s, after which `one_request` raises.
* `FullRun`: that of the programs, each in its own stage; `WF` of the tool-call
  benchmark's `Die` and report, whose request raises after 900 s if nothing else
  happens; and the shell goes on. The step that stands for the coding tasks is fair
  too, that is, they are assumed to end: a build has no time limit
  (`WaitsOnlyForBuilds`).

## Findings

1. **A call with null arguments is answered with another call's result**
   (`agent_loop.py:185`). `json.loads("null")` is `None`; the status is already
   `"ok"`, the call is skipped, and the `result` of an earlier turn is sent back
   under this id. As the first call of a session it raises `UnboundLocalError`
   and ends the whole run. The docstring (lines 5-6) says the tools really run.
2. **An old project is counted as this run's pass** (`run_repeat.sh:33`): a
   generation that fails leaves the files of an earlier invocation in place, and
   `verify.sh` passes them. `README.md:157` defines pass@1 over generated code.
   Where `verify.log` cannot be opened, the earlier log itself is counted.
3. **The mode guard lets a loading server through** (`thinking_sweep.sh:58`): its
   503 is JSON without `choices`, `CHARS` is empty, and all three guards are
   false. Lines 19-21 say the script refuses.
4. **A file drafted in the thinking is extracted** (`run_coding_task.py:82`). Where
   the prompt's template has opened the thinking, the text has a closing tag and no
   opening one; `THINK_RE` does not match it, line 87 looks for an opening tag, and
   a FILE block of the thinking is written to the project. Line 80 says inline
   thinking is "excluded from the file-extraction pass". `README.md:184-187`,
   `docs/SETUP.md:118-121`, `docs/RESUMING.md:51-55` and `serving/03_smoke.sh:48-52`
   say the opposite, that FILE blocks are hunted in the thinking whenever it is
   inline: so it is in this case, and `AnswerIsWhatWasNotThought` shows that it is
   not where the tags come in pairs.
5. **A boolean passes for an integer** (`tool_call_fidelity.py:96`): `bool` is a
   subclass of `int`, so a call with `true` for an integer parameter is ok. Lines
   4-5 and `README.md:159` speak of arguments that match the schema.

Met while modelling, without a run of their own:

* `run_coding_task.py:87` cuts an unterminated block off only if no `</think>` is
  left anywhere in the text. After an orphan the block stays in the answer, and
  files drafted in it are written: finding 4 once more, at the other end.
* `run_prompt_variants.sh` counts, for a variant without a prompt, whatever logs
  an earlier invocation left under its labels, also of another task: labels do
  not name the task. Line 2 speaks of the variants "of one task". With
  `VariantRun`'s `CountsAreOfThisTask` as an invariant TLC shows such a table;
  `CountsAreCurrentWherePrompted` says that variants with a prompt are safe.
* `agent_loop.py:159` nudges twice in a session without other faults where the
  comment at line 152 says "nudge once, then treat as a stall". No property of the
  count is stated: it could only repeat the counter of one side or the other.
* `serving/03_smoke.sh:68` tests for a missing tool call in a branch that is never
  taken, and ends in success although its comment (32-34) wants a loud failure.
* `run_repair.sh:29-37` quotes `answer.md` and `verify.log` as they lie there, under
  the heading "It failed to build", whatever the log says and also when they are of
  different attempts.

## Proofs

Every invariant and every action property a run checks is also a theorem, for
every value of the constants that satisfies the named assumptions; so are the
three refinements (the episode of its contract, the two stores of `TaskApi`).
Left to TLC alone are liveness and the five findings. Each proof is that of an
inductive invariant, which TLC checked on the run's instance first, with one step
per action.

### `AgentEpisodeProofs`

`TypeOK`, `TranscriptAnswered`, `LeftForAReason`, `StaleRepliesRepeat`,
`ImplementsContract`. The inductive invariant `IInv` is the conjunction of the
first three with `errors <= Len(turns)`, which keeps the counter in its type. Most
steps append an assistant message and what answers it, and one record:
`ExchangeAppends` and `ExchangeKeepsWellFormed` say that such a pair keeps a
transcript well formed. `AnswerKeepsIInv` proves once what the six actions that
answer a tool call have in common. `StaleRepliesRepeat` is not inductive on its
own: that a stale reply repeats the message *just before it* needs to know that
the local `result` is always what the last tool message carries (`ResultIsLast`).

### `AgentRunProofs`

`AgentRunTypeOK`, `JudgedOnOwnWork`, `ReportIsWhole`, `EvidenceKept`. The inductive
invariant adds to the types that there are `ep - 1` results while `ep` is at work
and all of them while reporting (`Progress`), that they are in order
(`ResultsInOrder`), that during a session the episode's directory holds exactly
its own writes (`SessionOwnsWork`), and `ReportIsWhole`. `JudgedOnOwnWork`
follows from `ResultsInOrder`; `EvidenceKept` needs besides that a name which
extends another is that of a *later* episode (`ExtendsIsLater`), so that a
session only ever dirties directories that will still be cleared, or at which the
copy will be refused.

### `MeasurementProofs`: `RepeatRun`, `ThinkingSweep`, `VariantRun`

* `RepeatRun`: its types, `TallyIsCurrent`, `LogsFollowFiles`. `Base` is what
  every step keeps whatever loop drives it: a label without a directory has no
  files and no log (`NothingWithoutDirectory`), nothing comes from an invocation
  still to be and nothing passes without files (`PastOnly`), an open log is the
  current label's (`BuildIsOfCurrent`), and the labels ahead of the loop, like
  those whose log could not be opened, have older logs (`AheadIsOlder`).
  `LogsFollowFiles` says what is behind the loop variable; the tally is a count of
  that (`Counted`).
* `ThinkingSweep`: `SweepIsARepeatRun` (`SweepSpec => Spec`) shows that the guards,
  the server and its operator add nothing `run_repeat.sh` could not do; the two
  properties of the measurement then hold in the sweep without another proof.
  `MeasuredSweepIsOfItsMode` needs that a probed number still tells the mode of a
  server that has not been restarted (`ProbeHolds`), that a measurement runs only
  behind the guards (`GuardsPassed`), and that no answers are left over from an
  earlier one when it starts (`NothingUnderWay`).
* `VariantRun`: `CountsAreCurrentWherePrompted`. Its loops are not `RepeatRun`'s,
  so `Base` is reused and `LogsFollowFiles` is replaced: behind the loops only the
  labels of variants with a prompt, whose log could be opened, have a log of now
  (`LogsFollowPrompts`), and no label ahead of them has one (`AheadIsOlder`).
  Skipping a variant jumps over all of its labels; that these are its labels and
  no others is arithmetic about division (`SkippedAreOfOneVariant`).

### `TaskStoreProofs`, `TaskRefsProofs`

For every finite set of clients:

* `TaskStore`: types, `DeletedStaysDeleted` and `ImplementsTaskApi`. The invariant
  says who holds the lock, waits for it or is parked behind it (`LockExcludes`),
  what a writer has done to the shared state since it took it, statement by
  statement, as against `committed` (`WriterInvariant`), and what a reader has
  copied of it (`ReaderInvariant`). In the refinement `Unlock` is `TaskApi`'s step
  (`UnlockRefines`); all statements under the lock are stutters
  (`UnderTheLockStutters`).
* `TaskRefs`: types, `HolesAreInFlight` and `ImplementsTaskApi`. The invariant is
  `HolesAreInFlight` itself with the types and what a handler knows of its request;
  that no two creates hold one id is what makes storing a *new* task of the object.
* Both invariants count the creates that have yet to take an id (`IdsLeft`), since
  `MaxId` admits a create only while ids are left: this, and nothing in the code,
  is what needs finitely many clients.

### `ThroughputProofs`

Types, `LevelsDoNotOverlap`, `RowsAreWhole`, `AllOrNothing`,
`NothingSentAfterFailure`, for every list of levels. The invariant says that the
levels before the current one have succeeded and those after it not begun
(`OtherLevels`), that the results collected so far are done (`Collecting`), that
cancelling leaves nothing pending behind it although workers go on (`Failing`),
and that there is a row for each level passed (`RowsSoFar`).

### `ToolFidelityProofs`

Types, `OkMeansFaithful`, `BooksAgree`, `ReportIsComplete`, for every list of
cases. `NoFaultMeansConforming` is the heart of it: `check_args` finds no fault
exactly in the objects the schema accepts, but for booleans as integers. `InOrder`
ties the records to the place in the two loops; `JudgedKeepsBooks` and `Counting`
are about the counter against a set of records that grows by one.

### `CodingAnswerProofs`

Types, `NothingLost`, `AnswerIsWhatWasNotThought`, `FilesAreLastBlocks` and
`FilesAccumulate`, for every set of paths and every length of stream. The state
machine is trivial here (the answer and the files are functions of the content);
what is proved is what its recursive functions compute, for *every* text:

* The library's induction theorems take an operator as a parameter and cannot be
  instantiated by the provers at hand. The module goes another way: a set of
  numbers that is not empty has a least element (`LeastOf`, from `WFMin` and
  `NatLessThanWellFounded`, both first-order), hence `Induction` over a *set*; and
  from that `Recursion` and `JumpingRecursion`: a function whose value at `i` is
  given by the one at `i - 1`, or by that at a later place, exists. They turn the
  recursive definitions of the model into equations.
* `ThoughtsAreInBlocks`: a token is a thought if and only if the last tag before it
  opened a block. `MatchesAreTheClosedBlocks`: what the non-greedy pattern takes,
  left to right, are exactly the places in a block that is closed. `TagsLeft`,
  `UnclosedIsATail`, `AnswerIsTheRest`: what is left, cut at a dangling tag, is the
  rest of the text, with the one exception for an orphan closing tag.
* `Selects(s, text, places)` says that `s` is the part of `text` at these places,
  in order; all that is said of answers goes through it.
* `ExtractedIsLastOfEach`: under each path the last whole section; `BlockOfSection`:
  its lines, from the first fence that can begin a block. `FilesAccumulate`
  is `WholeSectionsStay`: what comes later changes no thought into a part of the
  answer or back (`ThoughtsStay`), and no mark gets between a mark and its fences.

### Assumptions

`MaxTurns`, `Episodes`, `Runs`, `MaxInvocations`, `Reps`, `CaseReps`, `N`
positive, the other bounds natural numbers; `Runs` a multiple of `N`; the tool
names are distinct from the loop's own markers, the paths from the other tokens;
`Pristine` is a project that does not pass; the powers of the number base are
positive; `Cases` and `Levels` are not empty; the clients of a store are finitely
many. The counters with a bound (`MaxTokens`, `MaxId`, `MaxInvocations`, ...) are
bounded in the theorems too, by any bound.

### Only model-checked

Liveness under fairness is out of the prover's reach: `Terminates`,
`ThroughputEnds`, `AgentRunEnds`, `WaitsOnlyForBuilds` and `Answered` stay with
TLC on the bounds above. So do the findings, which are counterexamples.

## Assumptions and what is left out

* The timeout of `urlopen` limits each socket operation, not the whole answer;
  a server that trickles bytes for ever is not modelled.
* Two runs over the same work root at the same time are not modelled; nor are the
  suites' own writes into the project.
* A loaded server answers the probe and thinks about it exactly in thinking
  mode, as `--reasoning-format deepseek` in `serving/env.example.sh` is for.
* Cancelled requests (a fiber cancelled between the two steps of the Scala
  `create`) are not modelled.
* The calls of a reply after its first are counted by both tool benchmarks and not
  looked at; they are not modelled.
* Formatting, printed summaries, sampling parameters, metrics and `metrics.json`:
  left out.

## Not modelled

* `run_repair.sh`: one generation and one verification per round with the steps of
  `RepeatRun`; new in it is only the text of a prompt.
* `run_all.sh`'s mode check, which prints and goes on; its other stages are in
  `FullRun`, the coding tasks as one step.
* `serving/*.sh`: download, start and smoke test of an external program, without
  state of their own. The server is external in `ThinkingSweep`.
* `verify_common.sh` and `verify.sh` beyond their verdict: the logs in `/tmp` are
  read by no one else unless two verifications run at the same time, which no
  script does.
* `output/examples`: kept answers of the model, which no script runs.
* `bench/tasks/agent-*-bug/project`: deliberately broken input for the agent;
  its defects are not the program's.
* The cost table of the sweep, which reads `metrics.json` and prints.

## Plan

1. The null-arguments defect bounded from the other side: a transcript in which no
   record is ok with null arguments has only real replies.
2. `HolesAreInFlight` read from outside: the ids a client of the Ref-based store is
   ever given are all different.
3. The steps of one verification (`verify_common.sh`) as actions, which share
   `/tmp/v_*.log`.
