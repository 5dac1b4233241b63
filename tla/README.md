# Verification of mini-workbuddy

TLA+ models of the backend of mini-workbuddy (`src/backend/app`), the TLC runs
that check them on small instances, and TLAPS proofs, for instances of every
size, of every safety invariant those runs check, of their action properties, and
that the evaluation engine and the agent loop implement their abstract
specifications. Paths below are relative to
`src/backend/app/`; "012 spec" and the like are the documents in `src/specs/`.

## 1. The system

mini-workbuddy is a single-process FastAPI application over SQLite with a Vue
front end. A user configures models, tools, skills, MCP servers and agents,
chats with an agent, and evaluates agents on data sets. Almost everything that
can go wrong sits in the places that hold state *outside* the database, or hold
it in two places at once:

| Component | State | Operations | Hard behaviour |
|---|---|---|---|
| **Evaluation engine** `services/evaluation/runner.py`, `run_service.py`, `api/evaluation.py`, `task_service.py` | tables `evaluation_runs`, `evaluation_case_runs`; in memory `RUN_CONTROLS` (task, pause and cancel event, current row) | start, pause, resume, cancel, retry, delete; the background loop (dispatch, execute, judge, settle, aggregate); recovery at startup | two stores that must agree; requests between any two cases; crash at any await; status written by routes and loops |
| **Chat generation** `services/chat_service.py`, `generation_registry.py`, `api/chat.py`, `agent_runtime/recorder.py` | tables `messages`, `conversations`, `runs`; in memory the registry, event buffer and subscriber queues of each generation | send, regenerate, stop, stream, switch agent; the background task and its final write; recovery | one generation per conversation; replay-then-follow streams; stop at any point; a sync route in a worker thread; crash leaves orphans |
| **Agent loop** `agent_runtime/runtime.py`, `__init__.py` (`execute_run`), `tools.py`, `permission.py`, `ask_user.py`, `events.py` | per run: round, messages, tool calls, grants, cancel event; shared: the registry of waiting questions | model requests, tool calls, permission stage, questions and answers, MCP calls, the event stream, clean-up | answer / cancel / timeout racing; permissions decided before a wait and used after; events emitted behind the fact |
| **Context compression** `agent_runtime/compression.py`, `context_builder.py` | table `conversation_compactions` (summary, boundary); per run: messages, attempts, marks | capacity checks, batched summary, store, trimming, fallback | state that outlives the run and is read under other settings; off-by-one marks; limits on attempts and batches |
| **Run records** `agent_runtime/recorder.py`, `run_service.py` | tables `runs`, `run_events`, `run_payloads`; the counters of the recorder object | observe, finish, close, recovery, replay | up to four commits per event, each of which may fail and is not retried; three paths that may all write the end of a run; numbers that are shared with the evaluation and the chat |
| **Evaluators** `evaluation/evaluators.py`, `execute_case_run` in `runner.py` | the row of a case, the attempts of the judge | consume a run, exact match, judge, retry of an invalid judgement | an answer of a run that failed or was cancelled must not be judged; a score only from a valid judgement |
| **Management** `services/model_service.py`, `agent_service.py`, `agent_references.py`, `mcp_service.py`, `skill_service.py`, `skill_files.py` and their routes | one table each for models, agents, MCP servers, skills; `agent_bindings`; the test locks; the skill directories | create, edit, delete, set default, enable, test connection, refresh, import | default uniqueness, deletion guards that are checked before the delete, a test result for an edited configuration, rows and directories that drift apart, keys that are used again |
| Evaluation data | data sets, cases, tasks, snapshots | CRUD, import, export | snapshots decouple them from the rest |
| OpenAI client, danger rules, sanitising, file/shell tools, workspace | none or one column | parsing, pattern matching, I/O | strings, out of reach of a finite model |
| Front end | view state | – | the client of a stream is modelled on the server's side |

How they interact: the chat task and the evaluation loop both call
`execute_run`, which drives `run_agent_loop`, feeds every event to the recorder
and yields it to its caller. The loop calls `run_compaction` before requests
and `run_tool` for each tool call; `run_tool` may suspend the run in the
question registry, which the chat's answer route wakes. Cancelling an
evaluation sets the run's cancel event; stopping a chat cancels the asyncio
task. Everything except synchronous routes (which FastAPI runs in worker
threads) happens on one event loop, so code interleaves only at `await`: that
is the grain of every action below.

What makes each one correct, in short: a run shown as running is being
executed, results are written once and counted exactly; a conversation
generates one reply, its clients see every event once, the stored reply is what
they saw; a waiting question can be answered and leaves nothing behind, no file or
shell call is executed on a path that was judged to be outside without consent;
the context is always the
recent end of the conversation and the summary covers what the boundary hides;
there is one default, references resolve, a verdict on a server belongs to the
configuration it is shown for, and where requests that overlap may break this, it
is known which.
`PROJECT.json` lists every component with its status and every hazard with its
line.

## 2. The modules

| Module | Content |
|---|---|
| `EvaluationLedger` | abstract specification: what the tables of evaluation runs promise |
| `Evaluation` | the evaluation engine; refines `EvaluationLedger` |
| `EvaluationProofs` | proofs about `Evaluation`: types, loops, counters, nothing stored as running that nobody works on, the transition table |
| `EvaluationRefinement` | proof that `Evaluation` implements `EvaluationLedger` |
| `RunStream` | abstract specification: the stream of events `execute_run` promises its readers |
| `AgentRun` | one or more runs of the agent loop with tools, permissions and questions; refines `RunStream` |
| `AgentRunProofs` | proofs about `AgentRun`: questions, answers, consent, cancel; that it implements `RunStream` |
| `RunRecorder` | the recorder of a run: counters, commits, tables, replay |
| `CaseExecution` | an evaluation row while its run is read and judged |
| `RecordedRun` | `execute_run` as a whole: any producer that keeps to `RunStream`, composed with the recorder and the reader that is a case |
| `RecordedRunProofs` | proofs about `RecordedRun`: the row of a run, its counters, time line and replay, the case judged from it |
| `Generation` | chat generations, registry, streams, run rows |
| `GenerationProofs` | proofs about `Generation`: one generation per conversation, exact streams |
| `ReplyProofs` | proofs about the stored reply of a generation |
| `Compaction` | context compression of a conversation over many runs |
| `CompactionProofs` | proofs about `Compaction`: the context, the boundary and the summary, unchecked requests; induction over data |
| `AgentReferences` | tables, requests, and whether an agent refers to a resource |
| `ModelCatalogue`, `McpServers`, `SkillStore` | models and their default; MCP servers and the connection test; skill rows and directories |
| `Management` | agents and their bindings, composed with the three above |
| `ManagementProofs` | proofs about `Management`: references, defaults, deletions, verdicts, skill rows |
| `MCEvaluation`, `MCGeneration`, `MCAgentRun`, `MCRecordedRun`, `MCCompaction`, `MCManagement` | instances for TLC |

Operators marked `mutant:` are not part of a specification. Each is a
plausible bug in the definition next to it; the definition is replaced by it to
see that the property it is meant for fails.

### Evaluation and EvaluationLedger

State: `status`, `rows`, `totals` are the tables; `control` is `RUN_CONTROLS`;
`pc`, `run`, `cur`, `queue`, `pauseEvent`, `cancelEvent` are the handles and
the locals of `_run_evaluation_loop`. Actions: one per route (`StartRun`,
`PauseRun`, `ResumeRun`, `CancelRun`, `RetryCase`, `DeleteTask`) with the
service calls it makes; one per stretch of the loop between two awaits or two
commits (`LoopBegin`, `LoopRefused`, `Dispatch`, `ExecDone`, `JudgeDone`,
`EndPaused`, `SweepRows`, `EndCancelled`, `EndCompleted`, `FinishTotals`);
`LoopError` and `FinishError`, an exception before and behind the first commit of
`finish_run`; `Kill`, `Shutdown`, `Recover`. `finish_run` is two actions, since it
commits the status (`BeginFinish`, at "finishing") before `aggregate_run` commits
the counters (`FinishTotals`): the process may die, an exception may strike and a
task may be deleted between them. `torn` is a history variable: the runs whose last
finish was cut there. Routes and other loops run only when no loop is "between" two
cases, has "swept" the rows of a cancelled run or is "finishing" (`EventLoopFree`);
`DeleteTask` is a synchronous route and may run even then.

`EvaluationLedger` has no loops, handles or events: runs move along the
transition table, rows start only in a run that is running or paused, a run
completes only when all its rows are settled, retries add a row and touch no
other. `ImplementsLedger` is `Ledger!Spec` with the tables mapped to
themselves.

### Generation

State: `reply`, `last`, `record` are rows of `messages`, the newest row per
conversation and the run rows; `registry`, `task` the `GenerationTask`s with
buffer and asyncio task; `sub` the connected streams with their queue and what
the client has received; `switch` worker threads in the switch-agent route,
whose three database and registry accesses are separate steps. `Finalize` is
`_finalize_generation` as a whole (final write, events, removal), because it
contains no await. The agent loop is reduced to how it can end: normally, with
an error, cancelled, or with an exception nobody handles (`RunRaises`).
`StorageFault` is a commit that fails. Both are off where `MaxFaults = 0`.

### RunStream and AgentRun

State of a run: `pc` (where its task is suspended), `round`, `todo` and `calls`
(tool calls of the reply, and all calls made with request, answer and result),
`said`, `cancel`, `late` (the timer of the open question), `grants`, `stream`;
shared: `registry`. `CallSettles`, `CallAsks` and `CallMcp` are the three ways
through `run_tool`; `AskResumes` is the end of `await_ask_user` with
`resume_pending_tool`; `CloseRun` is what `execute_run` does behind its
`finally`. Paths are model values with the set of directories above them, so
containment, protection and grants are those of `permission.py` on any tree. A
call names its targets; `link` says where a name leads, and `Relink` moves a link.
The permission stage resolves a name against the workspace or the system root
(`Judged`); the tool resolves it again, behind a wait where there was one, and from
the base it uses itself (`UsedAs`: the authorised directory for files, the working
directory of the process for the shell), which gives `Touched`. A call remembers
both; grants are for what was judged.
`Load` may raise and `Kill` may strike wherever a task is suspended. Events of
text increments, compression and token usage are left out; sequence numbers
too. What a model answers is any of a bounded set of lists of tool calls.

`RunStream` says which event may follow which, that a call's events carry its
number, that a stream is only extended, and that a run returns only behind
`run_completed`. It has no rounds, tools or tasks. `ImplementsRunStream` shows
that `AgentRun` keeps to it, with several events per step and runs killed at
any point; `over` is mapped to the runs that have returned. The events of
compression, which `AgentRun` does not emit, are part of `RunStream` as
`compression.py` and `_maybe_compact` emit them.

### RunRecorder, CaseExecution and RecordedRun

`RecordedRun` takes the promise instead of the loop: `LoopYields` lets through
any event that `RunStream!MayCome`, with its number in the order of the
emitter: `run_tool` numbers one permission check for every path of a call before
the loop numbers the call, so a call leaves `early` numbers out, up to `MaxChecks`,
and the checks that come behind it take these in their order. Every yield goes through `Observe(e, n)`, in which n of the commits
the event asks for (`Writes`: row, payloads, event, final state) succeed and
the next one raises; `observe` swallows the exception. `FinishRecorder` is
`finish` and `close`, which share the guard `_finished`. The ways out of
`execute_run` are actions of their own: `Close` and `CloseRecorder` (the end),
`Raise` (an exception the loop does not turn into an error), `Cancel` (at an
await or a yield inside the `try`), `CancelCleanup` (behind it, where nobody
finishes the record). `Restart` is the death of the process with the recovery
at the next start. `Replay` is what `build_run_replay` gives the chat after a
reload: the table read by number (`ByNumber`), filtered. The filter is `Chosen`,
which says by counting which member is the k-th: a `SelectSeq` one can reason
about. `stream` is both a history variable and what the reader has read: the
generator is pulled, so a reader never lags behind.

`CaseExecution` is the reader of an evaluation: `Answer` decides from the stream
whether there is something to judge, `Evaluate` is exact match or one attempt of
the judge, of which there are two. A reply of the judge is abstracted to what
`_validate` tells apart: whether there is an object, an integer score (which
may lie outside the range) and a reason.

### Compaction

State: `size` (rounds of the conversation with the tokens of their user message
and reply), `saved` (summary as the set of rounds that went into it, and
boundary), and the fields of `RunContext` that compression uses. Actions follow
`_maybe_compact` and `run_compaction` branch by branch; batches are summarised
one at a time, and a failure, stop or crash may come between. Estimates are
small numbers, the thresholds of the code keep their order. Each run takes new
settings (`auto`, `keep`), as an agent may be edited or switched between runs.
One run at a time: `Generation!OneGeneration` is what justifies this.

### Management

`AgentReferences` holds what the pages share: tables as functions from primary
keys to rows, the key SQLite gives a new row, the unique index of the default
flag, `agent`, `binding`, and `req`, the request each worker thread is in the
middle of. Routes are synchronous and run in a thread each, so a request is two
steps or more: the first reads and checks and keeps what it read, the next writes,
by what was read (the ORM writes only columns that differ), and commits or fails.
Any number of threads overlap in any way. `ModelCatalogue`, `McpServers` and
`SkillStore` add one table each with their operations; `Management` adds the agents
and composes the four with the event loop, the disk (`WriteSkillFile`: the file
editor and anything outside the application) and `Restart`.

A connection test is three steps: `BeginTest` reads the configuration and takes the
lock, `LeaveLock` has the answer of the server and gives the lock back,
`StoreVerdict` commits it; an edit looks at the lock once (`BeginUpdateServer`) and
may do so, or write, between any two of them. A refresh of the skills deletes one
row per commit (`RefreshRow`) and then lists (`RefreshLists`, `ListSkills`); an import
moves its directory first and then refreshes; enabling a skill adds its row
(`FindSkill`) and sets the flag (`SetSkillEnabled`) in two commits; deleting one
removes its directory before its row. `server[s].tested` is a history variable, the
configuration of the last test; so are `met` (what was committed while a request is
in progress: the tables written, and a test of the server it edits) and `disturbed`
(the servers that were written while their test was under way). The properties use
them to say which overlaps the code does not survive. Names, secrets, other columns,
prompt versions, built-in tools and the checks of an archive are left out; the reads
of one request are one snapshot.

## 3. The runs

Every run with expected result "pass" visits its whole bounded state space;
deadlock is checked only in `Management` and `SkillRefresh`, because the other bounded
instances legitimately run out of inputs (no more loops, tasks, messages or lives).

| Run | Shows | Bounds and why they suffice |
|---|---|---|
| `EvalCore` | `TypeOK`, `OneLoopPerRun`, `TotalsCurrent`, `ImplementsLedger`, `LegalRunTransitions`; without a retry `RunningRunHasLoop` and `RunningEnds`; while nothing has failed (`Undisturbed`) `RunningRowHasWorker` and `CancelDrains`, because a stop leaves rows running (disagreements 6, 7) | 1 run, 2 cases (one executing while one is pending) and 1 retry (3 rows), 2 loops (the paused and the resumed), 1 restart, orderly or not, 1 fault; 2 lives of the primary key (what is said of rows is said of the first, because of disagreement 8). The stop and the fault may strike between the two commits of a finish, too. 419 000 states. One run: all of these but `CancelDrains` and `RunningEnds` are proved for any number |
| `EvalRetryStuck` | **violated**: `RunningNeverStuck`, what `RunningRunHasLoop` leaves out | finding 1 |
| `AgentRun` | registry, answers, consent and cancel (proved for every size), termination, and the stream (`ImplementsRunStream`, proved, too) | a chat run and an evaluation run side by side (a chat's route may answer the other's question); 1 round and the closing request; replies of two calls in which the second meets the grant, the cancel or the answer of the first; a workspace, a directory outside and a protected one in it, a link in the workspace that may be turned towards the protected one, and a relative name that the tool looks up elsewhere. 1 048 000 states |
| `AgentUnattended` | **violated**: `UnattendedNeverWaits` | finding 3 |
| `RecordedRun` | the record against the stream, its end, its losses, the replay, and the case that was judged from the same run; all proved for every size | runs of up to 4 requests, tool calls and compressions for the chat, 3 for an evaluation: two requests with two calls between them, or a compression with its summary request and a call; calls with up to 2 permission checks each; 1 failed commit at any of the commits of any event, 1 restart (3 021 000 states); scores at both edges of the scale and of the threshold, and beyond the scale |
| `RecordedUsage` | **violated**: `UsageIsOfTheRequests` | finding 2; one request suffices |
| `GenCore` | the generation properties and their liveness | 1 conversation, 2 replies, 2 tasks (a generation and its regeneration or successor), 1 stream, 2 increments, 1 crash; the safety properties are proved for every size |
| `GenTwoConvs` | `OneGeneration` | 2 conversations, 2 tasks, a thread switching agents, 1 crash, 1 exception, early stops; symmetric conversations and tasks |
| `Compaction` | context, boundary, overflow only where unchecked; all proved for every size | 5 rounds of 1 or 3 tokens against a capacity of 8 and a trigger of 6, keep 1 or 2, batches of 4 and at most 2 of them: compression, a second one on top of a summary, fallback, give-up and the cut-off batch all occur |
| `CompactionOverflow` | **violated**: `SentRequestFits` | finding 4 |
| `Management` | `ExactlyOneDefault`, `ReferencesResolve`, `VerdictIsCurrent`, `OneRowPerDirectory`; all proved for any tables and any number of threads | 2 threads and, one scene after the other (`Overlaps`), what can meet: two models (a default and a successor) and an agent that uses them, two agents, an agent with a server, an agent with a skill, a server with 2 configurations and its tests, two skill directories on a disk that changes; keys used again after a deletion, at most 1 binding per request, restarts between any two steps. 1 397 000 states. The proofs need no scenes |
| `SkillRefresh` | **violated**: `BindingsResolve` | finding 5 |

Each of the longer runs takes one to three minutes with two workers of TLC.

### Fairness

* Evaluation: strong fairness of each loop's steps. The event loop is first
  come, first served, but a step of one loop is disabled again and again while
  another is between two cases, so weak fairness would say too little.
  Recovery is weakly fair: a stopped process is started again.
* Generation: weak fairness of each task, stream and of recovery.
* AgentRun: weak fairness of the run's own steps and of the timer.
* Nobody promises to answer, stop, resume or reconnect. Model requests end
  because the HTTP client has read timeouts. MCP calls have **no** time limit:
  `McpReturns` has no fairness, and `RunEndsOrHangsInMcp` says exactly that. The
  liveness of `Evaluation` and `Generation`, in which a run is one step,
  therefore assumes that MCP servers answer.
* RecordedRun, Compaction and Management have safety and action properties
  only: a run may be left at any yield, and nobody promises to go on reading.

## 4. The proofs

The theorems hold for every value of the constants that the assumptions of the
modules (`EvaluationAssumption`, `GenerationAssumption`, `AgentRunAssumption`,
`RecordedRunAssumption`, `CompactionAssumption`, `SkillsAssumption` ...) allow: any
number of runs, loops, cases, conversations, tasks, clients, events, messages,
rows, lives, restarts and faults. What they assume beyond that is part of their
statement. Hardly any of the properties is inductive; each proof rests on a
stronger invariant that is. The lemmas follow the actions, and operators on rows, counters and sequences
have lemmas of their own.

**The evaluation engine.** `EvaluationProofs` proves `TypeCorrect` (`TypeOK`),
`OneLoop` (`OneLoopPerRun`) and `TotalsAreCurrent` (`TotalsCurrent`: the counters of a
completed or failed run are those of its rows, unless a loop is between the two
commits of its finish or the finish was cut there).
`TypeInv == TypeOK /\ Registered` is inductive: a task that is not forgotten,
finished ones included, is the one the registry names for its run. A new loop is
spawned only where the registry's entry is free or done, so the entry it
overwrites belonged to nobody else; and two live loops of one run would both be
the registry's, hence equal. `Counted == ExecutingNotFinished /\ \A r \in Runs : CountsRight(r)`
is inductive relative to it: while a loop executes a run, the run has neither
completed nor failed, so nothing rewrites rows that were already counted, and a
loop that is finishing leaves either the counters or a mark in `torn`.

It goes on to prove `RunningIsAlive` (`RunningRunHasLoop`),
`StatusMovesLegally` (`LegalRunTransitions`) and `RunningRowIsWorked`
(`RunningRowHasWorker`). `RunInv` adds to `TypeInv` that what the registry
names is a loop of that run (`Backed`), that rows are there for exactly the runs
that exist (`Booked`), that a stopped process has no live loop (`Stopped`) and that a run
whose finish is under way has the status of an end (`Ended`).
`ExecutedInv` is `RunningRunHasLoop` together with `Waiting`: a loop that has not
begun finds its run in another status than running, or it would refuse it and
leave it shown as running, which is what a retry of a finished run does (finding
1, hence the restriction to runs without one). `WorkedInv` is
`RunningRowHasWorker` row by row. `StatusMovesLegally` excepts the one step in which a
retry adds its row and shows the run as running; every other step of a run, before
and after retries, takes a transition of the table. Where the code leaves a row running
(disagreements 6, 8), the property says so and the invariant follows it.

`EvaluationRefinement` proves `EngineImplementsLedger`: initial states are
initial states of the ledger and every step is a step of it or leaves the tables
alone. `AgendaInv` adds to `RunInv` what a loop still knows of a run in its first
life: the run is not over unless the loop was told so, its list holds pending
rows only and every first attempt that is pending, its current row is running
(`Agendas`). Keys never given out are untouched (`Unused`) and attempts are
numbered from 1 (`Numbered`). Without it, a loop that completes a run could leave pending rows
behind, which the ledger forbids.

**Chat generations.** `GenerationProofs` proves `NeverTwoGenerations`
(`OneGeneration`) and `StreamsAreExact` (`StreamExact`). For the first, `WorkInv`
ties a live task to its conversation: the registry names it for a reply that is
stored (`Owned`), no two live tasks (`OneTask`) and no two waiting replies
(`OneRow`) have one conversation, and the newest reply of a conversation is a
stored one of it (`LastStored`). For the second, `StreamInv`
says that whatever a message or a client refers to is a task that was begun
(`Used`), that nothing is published behind the terminal event (`Sealed`), and that what a client received followed by
its queue is the buffer of its task (`Followed`): replay and live events never
overlap nor leave a gap.

`ReplyProofs` proves, under `Switchers = {}`, `LiveReplyWaits`
(`LiveReplyIsGenerating`), `ReplyAsStreamed` (`ReplyMatchesStream`) and
`ReplyMovesLegally` (`ReplyLifeCycle`): with a thread in the switch-agent route
they are false (disagreement 15). `BusyIsWorking` (`BusyMeansWorking`) holds
under `MaxFaults = 0 /\ ~ EarlyStop`, because of disagreement 14.

**The agent loop.** `AgentRunProofs` proves `RegistryExact` (`RegistryIsExact`),
`AnswersCount` (`AcceptedAnswerCounts`), `ConsentNeeded` (`OutsideNeedsConsent`)
and `CancelStopsTools` (`NothingRunsAfterCancel`), for any number of runs side by
side and every tree of paths. `RunInv` says that only the last call of a run is
open, and only while the run waits for it or was killed there (`LastOpen`). So
the registry holds at most one question of a run, and the call an answer is
written into is the one the run will resume. Every grant comes from an answer
"allow" to an earlier guarded call (`Granted`), and nobody is asked for what is
protected (`Askable`): together they give the consent of a call that is executed
without a question. `ConsentNeeded` says this of the paths as they were judged, and
that the path the tool touches is that one unless the tool starts from another base
or the call waited; in these two cases it may be another one (disagreement 32), for
every tree, every base and every move of a link.

`RunsKeepThePromise` is the refinement: `AgentRun` implements `RunStream`
(`ImplementsRunStream`). The strengthening is `Placed`: the last event of a run
fits the place where its task is suspended, in particular it is the question of
the current call while the run waits, and of the call before it while an MCP
server works (`tool_call_started` is emitted behind the call). A step emits
several events; a `Block` is such a piece of a stream, two of them join where the
last event of one may be followed by the first of the other, and a block behind a
well-formed stream leaves it well-formed.

**The record of a run.** `RecordedRunProofs` proves `RunPageIsHonest`
(`RecordIsHonest`), `EndedRecordFinal` (`EndedRecordIsFinal`),
`RunningRowExplained` (`RunningRowIsExplained`), `EventsHavePayloads`
(`EventHasItsPayloads`) and `ScoresEarned` (`ScoresAreEarned`). The first three
rest on `RecordInv`. Its heart is `RecorderRemembers`: while the run goes on, the
object is finished only behind `run_completed`, and an end that the row shows is
one the object knows of. So whoever comes later finds `finished` set and leaves
the row alone. `PlaceOfRun` adds that no error was seen while the loop still
yields, hence the error of a row is exactly a failed end; `RecorderWrote` that a
row is missing or still running behind its end only if a commit failed. The
handlers enter these proofs through `Observed` and `Finished`, what they do when
all, or not all, of their commits succeed; which commits are done when the first
n succeed is the lemma `Written`, on which the fourth theorem rests, too: the
payloads are committed before their event.

`CountsOfTheStream` (`CountsAreOfTheStream`) rests on `CountsInv`: while the run
goes on, the object counts exactly what was yielded, whichever commits fail; the
first event is never a request, so the row is there before anything is counted,
and the row takes the counts when it is given its end. `AccountsAgree`
(`CaseAgreesWithRecord`) combines it with `CaseInv`: a case is judged only behind a
stream that ended with an answer.

`LossesAreBounded` (`LossIsBounded`) needs that no event is dropped because its
number is taken. `NumbersInv` says that numbers are distinct, that `seq` is the last
one given, and that nobody has the `early` numbers in front of it, which are kept for
the checks of the last call. `NewNumber`, `NextNumber` and `KeptNumber` are its cases:
any new number, one behind all the others, and the first of those kept.

`ReplayFaithful` (`ReplayIsTheStream`) combines all of them. The table is read by
number, the stream was shown in the order of the yields; `OrderInv` says that only a
permission check is numbered before what was yielded before it, and such an event
is not shown. What is shown must also be the same: an output is looked up by the
number of its request, so `OutputsInv` (a saved output belongs to the end of a
request that has one) and the distinctness of those numbers are needed. The
lemmas on `Chosen` are about counting: a map between two sets of places that is
onto and keeps their order (`Aligned`) takes the k-th place to the k-th.

**Context compression.** `CompactionProofs` proves `ContextsAreRecent`
(`ContextIsRecentPart`), `OnlyUncheckedOverflow` (`OnlyUncheckedRequestsOverflow`) and
`CompactionsMoveForward` (`CompactionMovesForward`). The groups of a run are an
interval a .. n that ends with the newest message and starts behind the boundary, so
that the cut is a matter of arithmetic (`Cut`) and trimming leaves an interval again
(`FittingEnds`). What is not obvious is in `RunInv`: the boundary of the next
compression covers nothing that was dropped without being summarised, because a run
whose context was trimmed has too few groups left to be compressed again.
`DraftInv` follows the batches: together with the draft they have exactly the
compressed groups, unless there are more than `MaxBatches` of them (disagreement 20).
`CheckedInv` says which requests are preceded by a check.

Two facts there are inductions over data: that an estimate, a sum over the groups,
is a number, and that the batches, built group by group, have every compressed
group. The induction theorems of the library take an operator, which the provers
cannot instantiate; `SetInduction` says the same of a set, from the theorem that
numbers are well founded, and `RecursionExists` gives the functions that such
recursions define. `TokensOf` and `AllBatches` are recursive functions for that
reason.

**The management pages.** `ManagementProofs` proves `AgentsRefer`
(`ReferencesResolve`), `DefaultIsUnique` (`ExactlyOneDefault`), `VerdictsAreCurrent`
(`VerdictIsCurrent`) and `SkillsHaveOneRow` (`OneRowPerDirectory`) for any number of
threads whose requests overlap in any way. The first two rest on `Consistent`: what a
request in progress has read (the rows it saw, that nobody refers to the row to be
deleted, who becomes the default after it) is still so when it writes, *unless it met
a write to a table it read*. Such an overlap may take the last default away or cut a
reference loose (disagreements 22, 23), and the two properties allow exactly that:
two defaults at a time never exist, a default is lost only to a request that met a
write, a reference is cut loose only by a save that met one, by a deletion that met
one to the agents, or by a refresh of the skills (finding 5). Where requests do not
overlap, nothing is excused. For `VerdictsAreCurrent`, `Tests` says that the test of a
server nobody disturbed tests the configuration the server has, and that an edit that
met no test knows whether there is a verdict to withdraw; what remains are the two
windows of disagreement 24. `SkillsHaveOneRow` excuses nothing: the unique index refuses
a second row, and with it all rows of that listing.

**Only model-checked:** liveness (`RunningEnds`, `CancelDrains`, `GenerationEnds`,
`StreamEnds`, `RunEndsOrHangsInMcp`), which is out of reach of the prover. That the
disagreements of section 5 are real is shown by TLC only. Of the compositions,
`RecordedRun` takes the promise of `RunStream` and `AgentRun` keeps it; that the two
modules agree on `MayCome` is by their using the same definition, not by a theorem
about a common state.

## 5. Where the code disagrees with what is said of it

Shown by a run (findings in `PROJECT.json`):

1. `EvalRetryStuck`: retrying a finished run sets it to `running` before its loop
   starts, the loop refuses (`runner.py:426`), and the run is shown as running
   until the next restart (012 spec.md:177).
2. `RecordedUsage`: the total that comes with `run_completed` is merged into the
   sum of the requests (`recorder.py:318`), although every request was merged
   into it before (`recorder.py:143`): the run page shows twice the tokens (011
   spec.md:45, data-model.md:61).
3. `AgentUnattended`: a permission question in an evaluation run waits for the
   timeout instead of failing at once (014 contracts/workspace-permission-api.md:132).
4. `CompactionOverflow`: the mark of a successful compression names the next
   round, whose capacity check is skipped; an oversized request leaves
   (`compression.py:391`, 011 spec.md:217-218).
5. `SkillRefresh`: refreshing the skills deletes the row of a directory whose
   `SKILL.md` is gone or was saved empty, although an agent binds it
   (`skill_service.py:97`, 007 spec.md:182, `agent_service.py:139`).

Seen while modelling, with a counterexample at the time, and kept out of the
passing runs by their bounds or by the wording of a property:

6. An orderly stop in the middle of a case leaves the row `running`
   (`runner.py:521-525` against its comment).
7. Recovery looks at running and paused runs only: rows of a run that was
   pending or already cancelled stay open (`run_service.py:326`, 012
   data-model.md:204).
8. Deleting a task does not stop its loop, which may write into a row that got
   the same primary key (`task_service.py:156`).
9. A retry while the loop works adds a row the loop never looks at
   (`runner.py:438-459` against the comment at `api/evaluation.py:339`).
10. Resuming before the paused loop reached its boundary leaves the run shown as
    paused while it goes on (`runner.py:557`).
11. Cancelling a paused run whose loop has returned leaves its rows pending
    (`api/evaluation.py:312`, 012 research.md:73).
12. A retry reopens completed, cancelled and failed runs past the transition
    table (`runner.py:624`, 012 data-model.md:184).
13. Cancelling shows `cancelled` while a case still executes
    (`api/evaluation.py:317`, 012 spec.md:175).
14. A stop before the first step of a generation ends it without a terminal event
    (`chat_service.py:672`); so does a failed final commit (`:437`).
15. The switch-agent thread may mark the row of a live generation as an orphan
    (`chat_service.py:572`).
16. A stop while the MCP connections of a failed run are closed leaves the run row
    running (`agent_runtime/__init__.py:107`).
17. A stopped generation with text ends with status error
    (`chat_service.py:415`); one that ends empty at its last round is reported as
    cancelled (`:450`).
18. The cancel signal does not reach an MCP call in progress (`tools.py:1048`, 009
    spec.md:108).
19. `permission_checked` gets its sequence number before the `tool_call_started`
    that precedes it (`tools.py:523`), and `tool_call_started` is emitted after the
    tool has run (`runtime.py:545`).
20. Batches beyond `compact_max_batches` are not summarised although the boundary
    covers them (`compression.py:242`).
21. An unexpected exception leaves `execute_run` before `recorder.close`
    (`agent_runtime/__init__.py:113`); the run row stays `running` until the next
    start (011 spec.md:161). `RunningRowIsExplained` names this and 16 as the only
    ways, apart from a failed commit.
22. Of two requests that overlap, one may delete the only default model or agent
    while the other creates a second one that is not the default
    (`model_service.py:96`, `agent_service.py:304`); so may setting the default
    model again while another becomes the default (`model_service.py:133`: an
    unchanged attribute is not written). Nothing is the default then, although
    `agent_service.py:281` says that agents always have one. `ExactlyOneDefault`
    names these overlaps as the only ones.
23. Saving an agent while a model, server or skill it names is deleted leaves a
    dangling reference: both sides check before they write
    (`agent_references.py:93`, `agent_service.py:247`). `ReferencesResolve` names
    these overlaps, and the refresh of finding 5, as the only ones.
24. The lock of a connection test keeps an edit away only while the test waits. An
    edit that looked at it before may commit during the wait, and one that looks
    after the lock was left (`mcp_service.py:294`) may do so before the result is
    committed (`:313`) or just after: the verdict on the old configuration is stored,
    or kept, for the new one (004 spec FR-034). `VerdictIsCurrent` names these
    overlaps as the only ones. The row is not read again after the
    wait (`mcp_service.py:297` returns the session's own copy), so the branch for a
    server deleted meanwhile is never taken.
25. The row of a skill gets a new key after a refresh found its directory empty
    once; its enabled flag is lost, and a dangling binding may point at another
    skill that got the key (`skill_service.py:97`).
26. A request that reports no usage is skipped, so the sum of a run looks complete
    although it is not (`recorder.py:143`).
27. A summary request that fails takes a sequence number for its
    `model_request_started`, but the event is never yielded
    (`compression.py:334`): the run page has a gap and does not count the request
    (011 spec.md:45, 96 count failed ones).
28. If the commit of the event `run_completed` fails, the final state is not
    written, and `close` then stores `failed` for a run that completed
    (`recorder.py:116`). `RecordIsHonest` therefore asks for the right end only
    while every commit succeeds.
29. `finish(cancelled=True)` clears an error that was reported before
    (`recorder.py:108`).
30. An exception that `execute_case_run` raises itself (an unknown evaluator type
    at `runner.py:269`, a failed commit) ends the whole evaluation run as failed,
    although a case is said to raise nothing (`runner.py:71`, `:181`, 012 FR-012);
    `LoopError` covers it.
31. A finish that is cut between its two commits (`run_service.py:282`, `:262`) leaves a
    run completed, or failed, with the counters it had before: the second attempt
    (`runner.py:526-529`) is refused, since a completed run cannot fail, and
    `mark_interrupted_runs` does not look at it. `TotalsCurrent` excepts these runs
    (012 spec FR-020).
32. What the permission stage judged need not be what a tool touches. It resolves a
    relative path against the workspace (`tools.py:551`), the file tool against the
    authorised directory (`file_tool.py:31-36`, although it says that its algorithm is
    the same), the shell an explicit directory against that of the process
    (`tools.py:648`); and a call that waited for its answer resolves its arguments,
    links included, once more behind the wait (`tools.py:870`; 014 spec FR-014 has the
    real target judged). `OutsideNeedsConsent` names these two as the only differences.

## 6. Not modelled, and why

Data sets, cases, tasks and snapshots, tool flags, workspaces and the schema are
single-transaction row operations; so are the parts of the management pages named
in section 2. The OpenAI client, danger rules, sanitising, truncation,
JSON extraction and file tools work on strings. The front end is not modelled.
Inside the modelled parts: durations, texts and token estimates are abstracted;
a usage is one number; built-in tools are instantaneous, although
`shell_tool.py` blocks the event loop while a command runs. In `RecordedRun` the
loop may do anything its promise allows, so a run there may ask for tools in an
order the rounds of `AgentRun` exclude: what holds there holds of more runs
than there are.

## 7. Plan

Order of the next steps, most important first:

1. The link between `AgentRun` and `RecordedRun` as a theorem: a run of the loop,
   its stream numbered as the emitter does, is a run of `RecordedRun`. `MayCome` is
   shared; the numbers (a call that leaves out those of its permission checks) are
   what is left.
2. Prompt versions as a sequence per agent in `Management`.
3. The catalogue of tools a run is given (`build_tool_catalog`) against the flags
   and servers that change while it runs, beside `Management`.
4. Pure operators: `aggregate_run` with rounding, and `_split_batches` against a
   reference definition (each batch within its limit unless it is one group),
   which `SetInduction` puts within reach of a proof.
