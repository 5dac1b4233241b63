------------------------------ MODULE AgentRun ------------------------------
(***************************************************************************)
(* One run of the Agent loop: run_agent_loop and execute_run, the single   *)
(* entry of tool calls (run_tool), the permission stage, the registry of   *)
(* waiting questions (ask_user.py) and the events the run emits.           *)
(*                                                                         *)
(* A run is one asyncio task.  It hands control to the event loop only     *)
(* while it connects to MCP servers ("connecting"), compresses the context *)
(* before a request ("round"), reads the model's stream ("request"), calls *)
(* an MCP tool ("mcp"), waits for the user ("asked") and closes its MCP    *)
(* connections ("closing"); everything between two of these points is one  *)
(* step, and several events may be emitted in it.  Built-in tools run      *)
(* synchronously inside such a step.                                       *)
(*                                                                         *)
(* A call names its targets; a name is resolved when the call is judged    *)
(* and once more when the tool is called, and links may have moved in      *)
(* between.  A path stands for a resolved path; Ancestors says which       *)
(* directories contain it.  A name the code cannot resolve leads to a      *)
(* protected path here: both are a DENY.                                   *)
(***************************************************************************)
EXTENDS Naturals, Sequences, FiniteSets

CONSTANTS Runs,
          Attended,      \* the runs of the chat, the others are evaluations
          MaxRounds,     \* agents.max_rounds
          Replies,       \* bound: the tool calls a model reply may ask for
          MaxPerReply,   \* bound: how many of them in one reply
          Answers,       \* what the user may submit
          Allow,         \* the answer that selects the "allow" label
          Names,         \* full names of targets: links not followed
          UsedAs,        \* per run and name the permission stage makes of a target:
                         \* the name the tool makes of it (another base, no ~)
          Paths,
          Links,         \* where the names lead at first
          Moves,         \* bound: what may become of them, pairs <<name, path>>
          Ancestors,     \* per path: itself and the directories above it
          Protected,     \* protected roots
          Roots          \* per run: the system root and its workspace

\* ask: ask_user; guarded: file_read_write and shell with their targets;
\* plain: the other built-ins and load_skill; unknown: not in the catalog.
Tools == {"unknown", "plain", "ask", "guarded", "mcp"}
ToolRequests == [tool : Tools, targets : {ns \in SUBSET Names : IsFiniteSet(ns)}]

\* a call that nobody has answered
NoAnswer == "none"

ASSUME AgentRunAssumption ==
    /\ Attended \subseteq Runs
    /\ MaxRounds \in Nat \ {0} /\ MaxPerReply \in Nat
    /\ Replies \subseteq {s \in Seq(ToolRequests) : Len(s) \in 1 .. MaxPerReply}
    /\ Allow \in Answers /\ NoAnswer \notin Answers
    /\ UsedAs \in [Runs -> [Names -> Names]]
    /\ Links \in [Names -> Paths] /\ Moves \subseteq Names \X Paths
    /\ Ancestors \in [Paths -> SUBSET Paths]
    /\ \A p \in Paths : p \in Ancestors[p]
    /\ Protected \subseteq Paths
    /\ Roots \in [Runs -> SUBSET Paths]

VARIABLES
    pc,         \* where the run's task is
    round,      \* ctx.round_no
    todo,       \* the calls of this reply not yet run
    calls,      \* the tool calls made: [want, judged, touched, answer, result]
    said,       \* content_parts or reasoning_parts is not empty
    cancel,     \* RunRequest.cancel is set
    late,       \* the 300 s of the open question have passed
    grants,     \* RunPermissionContext.grants
    registry,   \* ask_user._registry: call ids that wait for an answer
    stream,     \* the events emitted: [event, call]
    link        \* the file system: the path a name leads to

runVars == <<pc, round, todo, calls, said, cancel, late, grants, stream>>
vars == <<runVars, registry, link>>

\* What becomes of a call: open, executed (the tool was called, whatever it
\* returned), answered (the text of the answer was handed to the model),
\* denied, unavailable, timeout or cancelled.
Open == "open"
Suspended == {"connecting", "round", "request", "mcp", "asked", "closing"}
Over == {"ended", "killed"}

Event(e, c) == [event |-> e, call |-> c]
Plain(e) == Event(e, 0)
\* The last event of the loop itself: a failed run gets its run_completed
\* behind the clean-up, from CloseRun.
Completed == <<Plain("run_completed")>>
ErrorOut == <<Plain("error")>>

Current(r) == Len(calls[r])
CallId(r) == <<r, Current(r)>>
CurrentCall(r) == calls[r][Current(r)]

Emit(r, events) == stream' = [stream EXCEPT ![r] = @ \o events]
Goto(r, label) == pc' = [pc EXCEPT ![r] = label]
End(r, events) == Emit(r, events) /\ Goto(r, "closing")
LastEvent(r) == stream[r][Len(stream[r])].event

-----------------------------------------------------------------------------
(* Permission (permission.py, the permission stage of run_tool)            *)

IsWithin(p, roots) == Ancestors[p] \cap roots # {}

CheckGrantsFirst(r, p) ==                        \* mutant: a grant overrides
    IF IsWithin(p, Roots[r] \cup grants[r]) THEN "allow"
    ELSE IF IsWithin(p, Protected) THEN "deny"
    ELSE "ask_user"

\* PermissionManager.check: the branches are in the order of their priority.
Check(r, p) ==
    IF IsWithin(p, Protected) THEN "deny"
    ELSE IF IsWithin(p, Roots[r] \cup grants[r]) THEN "allow"
    ELSE "ask_user"

\* Where the targets of a call lead, for the permission stage and for the tool.
Judged(want)     == [n \in want.targets |-> link[n]]
Touched(r, want) == [n \in want.targets |-> link[UsedAs[r][n]]]
Untouched        == [n \in {} |-> n]

\* One verdict for all targets of a call, as they are resolved now.
Verdict(r, targets) ==
    IF \E n \in targets : Check(r, link[n]) = "deny" THEN "deny"
    ELSE IF \E n \in targets : Check(r, link[n]) = "ask_user" THEN "ask_user"
    ELSE "allow"

ImmediateIgnoringCancel(r, want) ==              \* mutant: cancel not looked at
    CASE want.tool = "unknown"   -> "denied"
      [] want.tool = "plain"     -> "executed"
      [] want.tool = "ask"       -> "unavailable"
      [] OTHER -> IF Verdict(r, want.targets) = "deny" THEN "denied" ELSE "executed"

\* What run_tool does with a call that it settles without suspending.
Immediate(r, want) ==
    IF cancel[r] THEN "cancelled"
    ELSE CASE want.tool = "unknown" -> "denied"
           [] want.tool = "plain"   -> "executed"
           [] want.tool = "ask"     -> "unavailable"
           [] OTHER -> IF Verdict(r, want.targets) = "deny" THEN "denied" ELSE "executed"

MustAsk(r, want) ==
    /\ ~ cancel[r]
    /\ \/ want.tool = "ask" /\ r \in Attended
       \/ want.tool = "guarded" /\ Verdict(r, want.targets) = "ask_user"

MustWaitMcp(r, want) == ~ cancel[r] /\ want.tool = "mcp"

\* permission_checked is emitted for every target of a guarded call.
CheckedEvents(r, want, c) ==
    IF want.tool = "guarded" /\ ~ cancel[r]
    THEN [i \in 1 .. Cardinality(want.targets) |-> Event("permission_checked", c)]
    ELSE <<>>

-----------------------------------------------------------------------------
(* Start, rounds and model requests                                        *)

Init ==
    /\ pc = [r \in Runs |-> "idle"]
    /\ round = [r \in Runs |-> 0]
    /\ todo = [r \in Runs |-> <<>>]
    /\ calls = [r \in Runs |-> <<>>]
    /\ said = [r \in Runs |-> FALSE]
    /\ cancel = [r \in Runs |-> FALSE]
    /\ late = [r \in Runs |-> FALSE]
    /\ grants = [r \in Runs |-> {}]
    /\ registry = {}
    /\ stream = [r \in Runs |-> <<>>]
    /\ link = Links

\* Loading the configuration; the agent or its model may be gone, or it
\* raises (the database, a key that cannot be decrypted).
Load(r) ==
    /\ pc[r] = "idle"
    /\ \/ Goto(r, "connecting") /\ UNCHANGED stream
       \/ End(r, ErrorOut)
       \/ Goto(r, "killed") /\ UNCHANGED stream
    /\ UNCHANGED <<round, todo, calls, said, cancel, late, grants, registry, link>>

\* The fixed part of the prompt may already exceed the context; only the
\* runs of a conversation check this.
Connected(r) ==
    /\ pc[r] = "connecting"
    /\ \/ Emit(r, <<Plain("run_started")>>) /\ Goto(r, "round")
       \/ r \in Attended /\ End(r, <<Plain("run_started")>> \o ErrorOut)
    /\ UNCHANGED <<round, todo, calls, said, cancel, late, grants, registry, link>>

\* The head of a round, and of the closing request after the last one, which
\* does not look at the cancel signal again.
BeginRequest(r) ==
    /\ pc[r] = "round"
    /\ IF cancel[r] /\ round[r] < MaxRounds
       THEN End(r, Completed) /\ UNCHANGED round
       ELSE /\ round' = [round EXCEPT ![r] = @ + 1]
            /\ \/ Emit(r, <<Plain("model_request_started")>>) /\ Goto(r, "request")
               \/ r \in Attended /\ End(r, ErrorOut)
    /\ UNCHANGED <<todo, calls, said, cancel, late, grants, registry, link>>

RequestDone == <<Plain("model_request_completed")>>

\* The model's stream is over: it failed, or it brought text (or none) and
\* tool calls (or none).  The closing request offers no tools.
ReplyFails(r) ==
    /\ pc[r] = "request"
    /\ End(r, RequestDone \o (IF cancel[r] THEN Completed ELSE ErrorOut))
    /\ \E text \in BOOLEAN : said' = [said EXCEPT ![r] = @ \/ text]
    /\ UNCHANGED <<round, todo, calls, cancel, late, grants, registry, link>>

ReplyEnds(r) ==
    /\ pc[r] = "request"
    /\ \E text \in BOOLEAN : said' = [said EXCEPT ![r] = @ \/ text]
    /\ LET empty == ~ cancel[r] /\ round[r] <= MaxRounds /\ ~ said'[r]
       IN  End(r, RequestDone \o (IF empty THEN ErrorOut ELSE Completed))
    /\ UNCHANGED <<round, todo, calls, cancel, late, grants, registry, link>>

ReplyCallsTools(r, reply) ==
    /\ pc[r] = "request"
    /\ round[r] <= MaxRounds
    /\ ~ cancel[r]
    /\ \E text \in BOOLEAN : said' = [said EXCEPT ![r] = @ \/ text]
    /\ Emit(r, RequestDone)
    /\ Goto(r, "calls")
    /\ todo' = [todo EXCEPT ![r] = reply]
    /\ UNCHANGED <<round, calls, cancel, late, grants, registry, link>>

-----------------------------------------------------------------------------
(* Tool calls                                                              *)

NewCall(want, touched, result) ==
    [want |-> want, judged |-> Judged(want), touched |-> touched,
     answer |-> NoAnswer, result |-> result]
Touching(r, want, result) == IF result = "executed" THEN Touched(r, want) ELSE Untouched
StartEvents(r, want, c) ==
    <<Event("tool_call_started", c)>> \o CheckedEvents(r, want, c)
DoneEvent(c) == <<Event("tool_call_completed", c)>>

\* run_tool settles the call at once.
CallSettles(r) ==
    /\ pc[r] = "calls" /\ todo[r] # <<>>
    /\ LET want == Head(todo[r])
           c == Current(r) + 1
       IN  /\ ~ MustAsk(r, want) /\ ~ MustWaitMcp(r, want)
           /\ LET result == Immediate(r, want)
              IN  calls' = [calls EXCEPT ![r] =
                               Append(@, NewCall(want, Touching(r, want, result), result))]
           /\ Emit(r, StartEvents(r, want, c) \o DoneEvent(c))
    /\ todo' = [todo EXCEPT ![r] = Tail(@)]
    /\ UNCHANGED <<pc, round, said, cancel, late, grants, registry, link>>

\* run_tool registers a question, then the loop emits it and waits.
CallAsks(r) ==
    /\ pc[r] = "calls" /\ todo[r] # <<>>
    /\ LET want == Head(todo[r])
           c == Current(r) + 1
       IN  /\ MustAsk(r, want)
           /\ calls' = [calls EXCEPT ![r] = Append(@, NewCall(want, Untouched, Open))]
           /\ registry' = registry \cup {<<r, c>>}
           /\ Emit(r, StartEvents(r, want, c) \o <<Event("ask_user", c)>>)
    /\ todo' = [todo EXCEPT ![r] = Tail(@)]
    /\ late' = [late EXCEPT ![r] = FALSE]
    /\ Goto(r, "asked")
    /\ UNCHANGED <<round, said, cancel, grants, link>>

\* An MCP call is awaited inside run_tool: its events come afterwards.
CallMcp(r) ==
    /\ pc[r] = "calls" /\ todo[r] # <<>>
    /\ MustWaitMcp(r, Head(todo[r]))
    /\ calls' = [calls EXCEPT ![r] = Append(@, NewCall(Head(todo[r]), Untouched, Open))]
    /\ todo' = [todo EXCEPT ![r] = Tail(@)]
    /\ Goto(r, "mcp")
    /\ UNCHANGED <<round, said, cancel, late, grants, registry, stream, link>>

Settle(r, result, touched) ==
    /\ calls' = [calls EXCEPT ![r][Current(r)] =
                    [@ EXCEPT !.result = result, !.touched = touched]]
    /\ Goto(r, "calls")

McpReturns(r) ==
    /\ pc[r] = "mcp"
    /\ Settle(r, "executed", Untouched)
    /\ Emit(r, <<Event("tool_call_started", Current(r))>> \o DoneEvent(Current(r)))
    /\ UNCHANGED <<round, todo, said, cancel, late, grants, registry, link>>

WaitOutcomeTimerFirst(r) ==                      \* mutant: the timer wins
    IF cancel[r] THEN "cancelled"
    ELSE IF late[r] THEN "timeout"
    ELSE "answered"

\* await_ask_user: the outcome is read from the flags after the wait, the
\* cancel signal first, then the answer.
WaitOutcome(r) ==
    IF cancel[r] THEN "cancelled"
    ELSE IF CurrentCall(r).answer = NoAnswer THEN "timeout"
    ELSE "answered"

\* permission_info.resolved_paths
Places(call) == {call.judged[n] : n \in call.want.targets}

\* resume_pending_tool: a question is answered with the text; a permission
\* request is executed after an "allow" and denied after anything else.  The
\* grant is for what was judged; the tool resolves the arguments anew.
Resumed(want, outcome, answer) ==
    IF want.tool = "ask" \/ outcome = "cancelled" THEN outcome
    ELSE IF outcome = "answered" /\ answer = Allow THEN "executed"
    ELSE "denied"

AskResumesOnAnswer(r) ==                         \* mutant: a wait without a limit
    /\ pc[r] = "asked"
    /\ cancel[r] \/ CurrentCall(r).answer # NoAnswer
    /\ registry' = registry \ {CallId(r)}
    /\ Settle(r, Resumed(CurrentCall(r).want, WaitOutcome(r), CurrentCall(r).answer), Untouched)
    /\ Emit(r, DoneEvent(Current(r)))
    /\ UNCHANGED <<round, todo, said, cancel, late, grants, link>>

AskResumes(r) ==
    /\ pc[r] = "asked"
    /\ cancel[r] \/ late[r] \/ CurrentCall(r).answer # NoAnswer
    /\ registry' = registry \ {CallId(r)}
    /\ LET want == CurrentCall(r).want
           result == Resumed(want, WaitOutcome(r), CurrentCall(r).answer)
       IN  /\ Settle(r, result, Touching(r, want, result))
           /\ grants' = [grants EXCEPT ![r] =
                             IF result = "executed" THEN @ \cup Places(CurrentCall(r)) ELSE @]
    /\ Emit(r, DoneEvent(Current(r)))
    /\ UNCHANGED <<round, todo, said, cancel, late, link>>

\* After the last call of a reply.
CallsDone(r) ==
    /\ pc[r] = "calls" /\ todo[r] = <<>>
    /\ IF cancel[r] THEN End(r, Completed)
                    ELSE Goto(r, "round") /\ UNCHANGED stream
    /\ UNCHANGED <<round, todo, calls, said, cancel, late, grants, registry, link>>

CloseRunSilently(r) ==                           \* mutant: no final event
    /\ pc[r] = "closing"
    /\ Goto(r, "ended")
    /\ UNCHANGED <<round, todo, calls, said, cancel, late, grants, registry, stream, link>>

\* execute_run behind its finally block: the final event, if it is still due.
CloseRun(r) ==
    /\ pc[r] = "closing"
    /\ Goto(r, "ended")
    /\ Emit(r, IF LastEvent(r) = "run_completed" THEN <<>> ELSE Completed)
    /\ UNCHANGED <<round, todo, calls, said, cancel, late, grants, registry, link>>

-----------------------------------------------------------------------------
(* The world around a run                                                  *)

TimerFires(r) ==
    /\ pc[r] = "asked" /\ ~ late[r]
    /\ late' = [late EXCEPT ![r] = TRUE]
    /\ UNCHANGED <<pc, round, todo, calls, said, cancel, grants, registry, stream, link>>

\* ask_answers_route and submit_answer: the generation the request names is
\* still going on, the question waits and has no answer yet.
SubmitAnswer(m, r, i, a) ==
    /\ m \in Attended /\ pc[m] \notin Over \cup {"idle"}
    /\ <<r, i>> \in registry
    /\ calls[r][i].answer = NoAnswer
    /\ calls' = [calls EXCEPT ![r][i].answer = a]
    /\ UNCHANGED <<pc, round, todo, said, cancel, late, grants, registry, stream, link>>

\* cancel_evaluation_run sets the signal of the case that runs; the chat
\* never does.
SetCancel(r) ==
    /\ r \notin Attended /\ pc[r] \notin Over /\ ~ cancel[r]
    /\ cancel' = [cancel EXCEPT ![r] = TRUE]
    /\ UNCHANGED <<pc, round, todo, calls, said, late, grants, registry, stream, link>>

KillKeepingQuestion(r) ==                        \* mutant: no finally block
    /\ pc[r] \in Suspended
    /\ Goto(r, "killed")
    /\ UNCHANGED <<round, todo, calls, said, cancel, late, grants, registry, stream, link>>

\* The task is cancelled (a stop in the chat, a shutdown) where it is
\* suspended, or what it waits for raises: the finally blocks run, nothing
\* more is emitted.
Kill(r) ==
    /\ pc[r] \in Suspended
    /\ registry' = registry \ {CallId(r)}
    /\ Goto(r, "killed")
    /\ UNCHANGED <<round, todo, calls, said, cancel, late, grants, stream, link>>

\* A link is moved, by a command of a run or by another program.  (Between the
\* judgement and the call of a tool that need not wait, in one stretch of
\* synchronous code, nobody is given the time to.)
Relink ==
    /\ \E m \in Moves : link' = [link EXCEPT ![m[1]] = m[2]]
    /\ UNCHANGED <<runVars, registry>>

LoopStep(r) ==
    \/ Load(r) \/ Connected(r) \/ BeginRequest(r)
    \/ ReplyFails(r) \/ ReplyEnds(r) \/ \E reply \in Replies : ReplyCallsTools(r, reply)
    \/ CallSettles(r) \/ CallAsks(r) \/ CallMcp(r) \/ AskResumes(r) \/ CallsDone(r)
    \/ CloseRun(r)

User ==
    \E m, r \in Runs : \E i \in 1 .. Current(r) : \E a \in Answers :
        SubmitAnswer(m, r, i, a)

Next ==
    \/ \E r \in Runs : \/ LoopStep(r) \/ McpReturns(r) \/ TimerFires(r)
                       \/ SetCancel(r) \/ Kill(r)
    \/ User
    \/ Relink

Spec == Init /\ [][Next]_vars

\* A run whose task is ready is run, a model request ends (its reads time
\* out) and the timer of a wait fires.  Nobody has to answer or to stop, and
\* an MCP call has no time limit: it may never return.
Fairness == \A r \in Runs : WF_vars(LoopStep(r)) /\ WF_vars(TimerFires(r))
FairSpec == Spec /\ Fairness

-----------------------------------------------------------------------------
(* Properties                                                              *)

\* The registry of waiting questions (ask_user.py) holds exactly the open
\* question of every run that waits: no way out of the wait (an answer, the
\* cancel signal, the timeout, the death of the task) leaves an entry behind,
\* and a run that waits can be answered.
RegistryIsExact ==
    registry = {CallId(r) : r \in {x \in Runs : pc[x] = "asked"}}

\* An answer the route accepted (submit_answer returned TRUE) is what the call
\* ends with, however late it came and whatever woke the wait; only the cancel
\* signal or the death of the task may discard it.  A call never reports a
\* timeout after an accepted answer, nor an answer nobody gave.
AcceptedAnswerCounts ==
    \A r \in Runs : \A i \in 1 .. Len(calls[r]) :
        LET call == calls[r][i] IN
        /\ call.result = "timeout" => call.answer = NoAnswer
        /\ call.result = "answered" => call.answer # NoAnswer
        /\ call.answer = Allow =>
               \/ call.result \in {"executed", "answered"}
               \/ cancel[r]
               \/ call.result = Open /\ i = Len(calls[r]) /\ pc[r] \in {"asked", "killed"}

\* The path is not protected, and it is below a root of the run or below a path
\* the user allowed in an answer to the i-th or an earlier call.
Consent(r, i, p) ==
    /\ ~ IsWithin(p, Protected)
    /\ \/ IsWithin(p, Roots[r])
       \/ \E j \in 1 .. i : /\ calls[r][j].answer = Allow
                            /\ calls[r][j].want.tool = "guarded"
                            /\ IsWithin(p, Places(calls[r][j]))

\* A guarded tool is executed only with consent to every target, as the target
\* was resolved when the call was judged (permission.py, grants of
\* resume_pending_tool); and the path it touches is that path, or the tool
\* starts from another base than the judge, or the call waited for its answer
\* (_resolve_within_root and _resolve_shell_cwd resolve the arguments again).
OutsideNeedsConsent ==
    \A r \in Runs : \A i \in 1 .. Len(calls[r]) :
        LET call == calls[r][i] IN
        call.want.tool = "guarded" /\ call.result = "executed" =>
            \A n \in call.want.targets :
                /\ Consent(r, i, call.judged[n])
                /\ \/ call.touched[n] = call.judged[n]
                   \/ UsedAs[r][n] # n
                   \/ call.answer # NoAnswer

\* The streams, as their readers are promised them.
Promise == INSTANCE RunStream
               WITH Runs <- Runs, stream <- stream, over <- {r \in Runs : pc[r] = "ended"}

\* Every run implements RunStream, the promise the recorder, the chat and the
\* evaluation are built on (RecordedRun starts from it): whatever several
\* events a step of the loop emits, it extends the stream by events that may
\* follow and takes none back, and wherever the loop, the error path or the
\* clean-up took a run that was not killed, it ends behind one run_completed.
ImplementsRunStream == Promise!Spec

\* After the cancel signal no tool is started any more: the only call that can
\* still turn out executed is the MCP call that was already under way.
NothingRunsAfterCancel ==
    [][\A r \in Runs : cancel[r] =>
          \A i \in 1 .. Len(calls'[r]) :
              calls'[r][i].result = "executed" =>
                  \/ i <= Len(calls[r]) /\ calls[r][i].result = "executed"
                  \/ pc[r] = "mcp"]_vars

\* Every run ends, however the answers, stops and timeouts fall, unless it is
\* inside an MCP call for ever.
RunEndsOrHangsInMcp ==
    \A r \in Runs : <>[](pc[r] \in Over \cup {"mcp"})

-----------------------------------------------------------------------------
(* What the documents say and the code does not do                         *)

\* An unattended run is never suspended for an answer: a permission question
\* is refused at once with ask_user_unavailable.
UnattendedNeverWaits ==
    \A r \in Runs \ Attended : pc[r] # "asked"

=============================================================================
