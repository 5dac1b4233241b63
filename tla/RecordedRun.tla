---------------------------- MODULE RecordedRun ----------------------------
(***************************************************************************)
(* execute_run around the agent loop: the stream the loop yields, the      *)
(* recorder that observes every event before its reader does, the ways out *)
(* (the end, an exception, a cancellation inside the loop or during the    *)
(* clean-up, a reader that goes away, the death of the process), and what  *)
(* is built on the same stream: the run page, the replay of a chat, and    *)
(* the result of an evaluation case.                                       *)
(*                                                                         *)
(* The loop is taken for any producer that keeps to RunStream, which       *)
(* AgentRun is shown to implement.                                         *)
(***************************************************************************)
EXTENDS RunRecorder, CaseExecution

CONSTANTS MaxStarts,    \* bound, per use: requests, tool calls and compressions of the run
          MaxChecks,    \* bound: paths of one call that are judged
          MaxFaults,    \* bound: commits of the recorder that fail
          MaxRestarts,  \* bound: deaths of the process
          Reported,     \* the usages a request may report, 0 = none
          Uses          \* who reads the stream: "chat", "evaluation"

ASSUME RecordedRunAssumption ==
    /\ MaxStarts \in [Uses -> Nat] /\ MaxChecks \in Nat
    /\ MaxFaults \in Nat /\ MaxRestarts \in Nat
    /\ Reported \subseteq Nat
    /\ Uses \subseteq {"chat", "evaluation"}

VARIABLES
    use,        \* who reads this stream
    pc,         \* where execute_run is
    stream,     \* the events yielded
    seq,        \* RunEventEmitter._seq
    early,      \* the permission checks numbered before their call and still to come
    faults, restarts

producer == <<use, pc, stream, seq, early>>
bounds == <<faults, restarts>>
vars == <<recordVars, case, producer, bounds>>

Promise == INSTANCE RunStream WITH Runs <- {"run"}, stream <- [r \in {"run"} |-> stream],
                                   over <- IF pc = "ended" THEN {"run"} ELSE {}

\* loop: in run_agent_loop; closing: in ctx.aclose; final: the last event is out,
\* recorder.close is due; then: ended, or left by an exception (raised), by a
\* cancellation in the loop (cancelled) or during the clean-up (cut).
Working == {"loop", "closing", "final"}
Left == {"ended", "raised", "cancelled", "cut"}

LastKind == IF stream = <<>> THEN "none" ELSE Last(stream).event
CountOf(kinds) == CountIn(stream, LAMBDA e : e.event \in kinds)

Init ==
    /\ use \in Uses
    /\ pc = "idle" /\ stream = <<>> /\ seq = 0 /\ early = 0
    /\ RecorderInit
    /\ CaseInit
    /\ faults = 0 /\ restarts = 0

-----------------------------------------------------------------------------
(* The events of the loop                                                  *)

\* n of the commits succeed; if it is not all, one has failed.
Commits(n, all) ==
    /\ n \in 0 .. all
    /\ n < all => faults < MaxFaults
    /\ faults' = faults + (IF n < all THEN 1 ELSE 0)

Yield(e) ==
    /\ \E n \in 0 .. Len(Writes(e)) : Commits(n, Len(Writes(e))) /\ Observe(e, n)
    /\ stream' = Append(stream, e)

\* The call an event belongs to: requests, compressions and tool calls are
\* numbered each (the code gives them random names).
CallOf(kind) ==
    CASE kind \in RequestStarts      -> CountOf(RequestStarts) + 1
      [] kind \in RequestEnds        -> CountOf(RequestStarts)
      [] kind = "compression_started" -> CountOf({"compression_started"}) + 1
      [] kind \in {"compression_completed", "compression_failed", "compression_fallback"}
                                     -> CountOf({"compression_started"})
      [] kind = "tool_call_started"  -> CountOf({"tool_call_started"}) + 1
      [] kind \in Promise!InsideCall -> CountOf({"tool_call_started"})
      [] OTHER                       -> 0

Event(kind, number, status, usage, output) ==
    [event |-> kind, call |-> CallOf(kind), seq |-> number,
     status |-> status, usage |-> usage, output |-> output]

\* ctx.usage_total
UsageTotal ==
    FoldSeq(LAMBDA e, sum : sum + (IF e.event \in RequestEnds THEN e.usage ELSE 0), 0, stream)

Starts == RequestStarts \cup {"tool_call_started", "compression_started"}

\* Only the run of a chat compresses its context (compact_enabled).
Startable(kind) ==
    /\ kind \in Starts => CountOf(Starts) < MaxStarts[use]
    /\ kind = "compression_started" => use = "chat"

\* The number of an event.  run_tool numbers one permission check for every path
\* of a call before the loop numbers the call, and yields them behind it, in
\* their order; a summary request that fails leaves one number out, as its first
\* event is never yielded.
NumbersShared(kind) ==                           \* mutant: a result under its call's number
    IF kind = "tool_call_completed" THEN {seq} ELSE {seq + 1}

Numbers(kind) ==
    CASE kind = "permission_checked" -> {seq - early}
      [] kind = "tool_call_started"  -> {seq + 1 + checks : checks \in 0 .. MaxChecks}
      [] kind = "compression_failed" -> {seq + 1, seq + 2}
      [] OTHER                       -> {seq + 1}

\* The checks still to come behind an event with that number.
ChecksToCome(kind, number) ==
    CASE kind = "tool_call_started"  -> number - (seq + 1)
      [] kind = "permission_checked" -> early - 1
      [] OTHER                       -> early

\* What is particular to the kinds: the outcome of a call, the usage and the
\* output of a request, the ending and its total.
Variants(kind) ==
    CASE kind = "tool_call_completed" -> [status : {"success", "denied"}, usage : {0}, output : {FALSE}]
      [] kind = "model_request_completed" -> [status : {""}, usage : Reported, output : BOOLEAN]
      [] kind = "summary_completed" -> [status : {""}, usage : Reported, output : {TRUE}]
      [] kind = "run_completed" ->
             [status : IF LastKind = "model_request_completed"
                       THEN {"max_rounds", "cancelled"} \cup
                            (IF HasOutput(stream) THEN {"completed"} ELSE {})
                       ELSE {"cancelled"},
              usage : {UsageTotal}, output : {FALSE}]
      [] OTHER -> [status : {""}, usage : {0}, output : {FALSE}]

MaxOf(a, b) == IF a < b THEN b ELSE a

\* run_agent_loop yields an event; the stream of a failed run is completed
\* behind the clean-up only.
LoopYields(kind) ==
    /\ pc = "loop" /\ LastKind # "error"
    /\ kind \in (IF stream = <<>> THEN Promise!Openings ELSE Promise!Successors[LastKind])
    /\ Startable(kind)
    /\ kind = "permission_checked" <=> early > 0
    /\ kind = "tool_call_started" /\ LastKind = "model_request_completed" => Last(stream).output
    /\ \E number \in Numbers(kind), v \in Variants(kind) :
         LET e == Event(kind, number, v.status, v.usage, v.output)
         IN  /\ Promise!MayCome(stream, e)
             /\ Yield(e)
             /\ seq' = MaxOf(seq, number)
             /\ early' = ChecksToCome(kind, number)
    /\ pc' = IF kind \in {"error", "run_completed"} THEN "closing" ELSE "loop"
    /\ UNCHANGED <<case, use, restarts>>

-----------------------------------------------------------------------------
(* The ways out of execute_run                                             *)

FinishRecorder(status) ==
    \E n \in 0 .. Len(FinishWrites) : Commits(n, Len(FinishWrites)) /\ Finish(status, n)

\* Behind the clean-up: a failed run gets its run_completed now.
Close ==
    /\ pc = "closing"
    /\ IF LastKind = "run_completed"
       THEN UNCHANGED <<recordVars, stream, seq, faults>>
       ELSE /\ Yield(Event("run_completed", seq + 1, "error", UsageTotal, FALSE))
            /\ seq' = seq + 1
    /\ pc' = "final"
    /\ UNCHANGED <<case, use, early, restarts>>

\* recorder.close, the last line.
CloseRecorder ==
    /\ pc = "final"
    /\ FinishRecorder("failed")
    /\ pc' = "ended"
    /\ UNCHANGED <<case, use, stream, seq, early, restarts>>

CancelSilently ==                                \* mutant: no finish on CancelledError
    /\ pc = "loop"
    /\ pc' = "cancelled"
    /\ UNCHANGED <<recordVars, case, use, stream, seq, early, bounds>>

\* CancelledError where the loop is suspended, or GeneratorExit at a yield
\* because the reader went away, the last yield of the loop included.
Cancel ==
    /\ \/ pc = "loop"
       \/ pc = "closing" /\ LastKind \in {"error", "run_completed"}
    /\ FinishRecorder("cancelled")
    /\ pc' = "cancelled"
    /\ UNCHANGED <<case, use, stream, seq, early, restarts>>

\* Behind the try: the task is cancelled during ctx.aclose, or the reader goes
\* away at the run_completed that follows it.  Nothing finishes the record.
CancelCleanup ==
    /\ pc = "closing" \/ (pc = "final" /\ Last(stream).status = "error")
    /\ pc' = "cut"
    /\ UNCHANGED <<recordVars, case, use, stream, seq, early, bounds>>

\* Any other exception, in the loop or in the clean-up.
Raise ==
    /\ pc \in {"loop", "closing"}
    /\ pc' = "raised"
    /\ UNCHANGED <<recordVars, case, use, stream, seq, early, bounds>>

-----------------------------------------------------------------------------
(* The reader that is an evaluation, and the process                       *)

Begin ==
    /\ pc = "idle"
    /\ pc' = "loop"
    /\ IF use = "evaluation" THEN CaseStarts ELSE UNCHANGED case
    /\ UNCHANGED <<recordVars, use, stream, seq, early, bounds>>

ReadStream ==
    /\ use = "evaluation"
    /\ \/ pc = "raised" /\ RunRaised
       \/ pc = "ended" /\
             \E cancelled, blank \in BOOLEAN, evaluator \in Evaluators :
                 Answer(stream, cancelled, blank, evaluator)
    /\ UNCHANGED <<recordVars, producer, bounds>>

Judge ==
    /\ Evaluate
    /\ UNCHANGED <<recordVars, producer, bounds>>

\* The process dies and the next one starts: what was open is closed.
Restart ==
    /\ restarts < MaxRestarts
    /\ pc \in Working \/ case.pc \in {"running", "judging"}   \* else nothing is lost
    /\ restarts' = restarts + 1
    /\ pc' = IF pc \in Working THEN "dead" ELSE pc
    /\ MarkInterrupted
    /\ IF use = "evaluation" THEN CaseInterrupted ELSE UNCHANGED case
    /\ UNCHANGED <<use, stream, seq, early, faults>>

RunStep ==
    \/ Begin
    \/ \E kind \in Promise!EventKinds : LoopYields(kind)
    \/ Close \/ CloseRecorder

Next ==
    \/ RunStep
    \/ Cancel \/ CancelCleanup \/ Raise
    \/ ReadStream \/ Judge
    \/ Restart

Spec == Init /\ [][Next]_vars

-----------------------------------------------------------------------------
(* Properties                                                              *)

Completed(status) == LastKind = "run_completed" /\ Last(stream).status = status

\* The run page does not lie (run_completed, _STATUS_MAP, finish and close in
\* recorder.py): a run shown as succeeded or partial ended so, one shown as
\* cancelled was cancelled, an error is shown exactly for a failed one, and as
\* long as every commit succeeds one that ran to its end is shown with exactly
\* that end, whoever finished the record first.
RecordIsHonest ==
    /\ run.st = "succeeded" => Completed("completed")
    /\ run.st = "partial" => Completed("max_rounds")
    /\ run.st = "cancelled" => Completed("cancelled") \/ pc = "cancelled"
    /\ run.st \in Terminal => (run.error <=> run.st = "failed")
    /\ pc = "ended" /\ faults = 0 => run.st = StatusOf(Last(stream).status)

\* Once a run is shown with an end nothing rewrites it: not a reader that leaves
\* behind the last event, not recorder.close, not the next start of the process.
EndedRecordIsFinal == [][run.st \in Terminal => run' = run]_vars

\* The metrics of a finished record are those of the events the reader got, even
\* when some of these events could not be stored.
CountsAreOfTheStream ==
    run.reason = "own" =>
        /\ run.requests = ModelCalls(stream)
        /\ run.tools = ToolCallsDone(stream)

\* A failed commit costs at most one event of the time line, a conflict of
\* numbers none: what the table has was yielded, and what it lacks is explained.
LossIsBounded ==
    /\ events \subseteq Range(stream)
    /\ Cardinality({i \in DOMAIN stream : stream[i] \notin events}) <= faults

\* A stored event has the texts the run page offers for it.
EventHasItsPayloads ==
    \A e \in events : \A i \in DOMAIN PayloadsOf(e) :
        [call |-> e.call, type |-> PayloadsOf(e)[i]] \in payloads

\* After a reload the chat shows what it showed live: the outputs and the tool
\* calls in the order in which they were streamed, although the table is read
\* in the order of the numbers and the texts are in another one.
ShownLive(e) ==
    \/ e.event = "model_request_completed" /\ e.output
    \/ e.event = "tool_call_completed"
ReplayIsTheStream ==
    Replay = Chosen(stream, LAMBDA e : e \in events /\ ShownLive(e))

\* A row is shown as running while its run goes on; afterwards only if an
\* exception or a cancellation passed the recorder by, or a commit failed.
RunningRowIsExplained ==
    run.st = "running" => pc \in Working \cup {"raised", "cut"} \/ (pc \in Left /\ faults > 0)

\* The two accounts of one run agree: a case is only judged if the run page says
\* that the run has an answer, and both show the same numbers of calls.
CaseAgreesWithRecord ==
    /\ case.st \in {"passed", "failed", "judge_failed"} /\ faults = 0 =>
           run.st \in {"succeeded", "partial"}
    /\ case.requests # NoCount /\ run.reason = "own" =>
           case.requests = run.requests /\ case.tools = run.tools

\* FR-017, FR-019: a score is only given by a valid judgement, on the right side
\* of the threshold; whatever fails is not given a zero.
ScoresAreEarned ==
    /\ case.score # NoScore <=> case.st \in {"passed", "failed"}
    /\ case.score # NoScore => case.score \in 0 .. 100
    /\ case.score # NoScore /\ case.evaluator = "llm_judge" =>
           (case.st = "passed" <=> case.score >= Threshold)

-----------------------------------------------------------------------------
(* What the documents say and the code does not do                         *)

\* The usage of a run is the sum of what its requests report.
UsageIsOfTheRequests == run.reason = "own" => run.usage = UsageTotal

=============================================================================
