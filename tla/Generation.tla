----------------------------- MODULE Generation -----------------------------
(***************************************************************************)
(* Reply generation of the chat: services/chat_service.py,                 *)
(* services/generation_registry.py, the end of a run in                    *)
(* agent_runtime/__init__.py and the run row agent_runtime/recorder.py     *)
(* keeps.                                                                  *)
(*                                                                         *)
(* One event loop: the async routes (send, regenerate, stop, stream) and   *)
(* the generation tasks interleave only where a task awaits: before its    *)
(* first step ("created"), inside the agent loop ("running") and while the *)
(* MCP connections of the run are closed ("closing").  Switching the agent *)
(* is a sync route: it runs in a worker thread, step by step between the   *)
(* steps of the event loop.                                                *)
(*                                                                         *)
(* The tables (reply, last, record) survive a crash; the registry, the     *)
(* tasks and the streams do not.                                           *)
(***************************************************************************)
EXTENDS Naturals, Sequences, FiniteSets

CONSTANTS Convs,          \* conversations
          NumMsgs,        \* bound: replies ever created
          Tasks,          \* generation tasks, each used once
          NoTask,
          Subs,           \* stream subscriptions, each used once
          Switchers,      \* worker threads running the switch-agent route
          MaxDeltas,      \* bound: text increments of one generation
          MaxRestarts,    \* bound: how often the process dies
          MaxFaults,      \* bound: unexpected exceptions and failed commits
          EarlyStop       \* whether a stop may precede the first step of a task

ASSUME GenerationAssumption ==
    /\ NumMsgs \in Nat /\ MaxDeltas \in Nat
    /\ MaxRestarts \in Nat /\ MaxFaults \in Nat
    /\ NoTask \notin Tasks
    /\ EarlyStop \in BOOLEAN

VARIABLES
    reply,      \* assistant rows of messages: [conv, st, text]
    last,       \* per conversation: the reply that is its newest row, 0 = none
    record,     \* runs.status of the run of a task, "none" = no row yet
    registry,   \* GenerationRegistry._tasks
    task,       \* GenerationTask and its asyncio task
    sub,        \* streams: [pc, msg, task, queue, got]
    switch,     \* switch-agent requests: [pc, conv, msg]
    up, restarts, faults

tables == <<reply, last, record>>
streams == <<sub, switch>>
bounds == <<restarts, faults>>
vars == <<tables, registry, task, streams, up, bounds>>

Msgs == 1 .. NumMsgs

\* A stream event: n numbers the text increments and, in the terminal event
\* (run_completed), is the length of the text of the stored message.
Event(kind, status, n) == [kind |-> kind, status |-> status, n |-> n]
Started       == Event("started", "", 0)
Delta(n)      == Event("delta", "", n)
ErrorEvent    == Event("error", "", 0)
Done(s, n)    == Event("done", s, n)

TextOf(b) == Cardinality({i \in DOMAIN b : b[i].kind = "delta"})

IsTerminal(t) == \E i \in DOMAIN task[t].buffer : task[t].buffer[i].kind = "done"

\* the asyncio task exists and is not done
Live == {"created", "running", "closing"}

\* get_running_by_conversation looks at terminal_event only, not at the task
Registered(m) == registry[m] # NoTask
RunningIn(c) == \E m \in Msgs : Registered(m) /\ reply[m].conv = c /\ ~IsTerminal(registry[m])

FreshTask  == [pc |-> "free", msg |-> 0, buffer |-> <<>>, cancel |-> FALSE,
               ending |-> "none"]
FreshSub   == [pc |-> "none", msg |-> 0, task |-> NoTask, queue |-> <<>>, got |-> <<>>]
FreshReply == [conv |-> "none", st |-> "absent", text |-> 0]
IdleSwitch == [pc |-> "idle", conv |-> "none", msg |-> 0]

Init ==
    /\ reply = [m \in Msgs |-> FreshReply]
    /\ last = [c \in Convs |-> 0]
    /\ record = [t \in Tasks |-> "none"]
    /\ registry = [m \in Msgs |-> NoTask]
    /\ task = [t \in Tasks |-> FreshTask]
    /\ sub = [s \in Subs |-> FreshSub]
    /\ switch = [w \in Switchers |-> IdleSwitch]
    /\ up = TRUE /\ restarts = 0 /\ faults = 0

-----------------------------------------------------------------------------
(* GenerationTask: publish and subscribe                                    *)

\* append to the buffer and to every subscriber's queue
PublishTo(t, tk, events) ==
    /\ task' = [task EXCEPT ![t] = [tk EXCEPT !.buffer = @ \o events]]
    /\ sub' = [s \in Subs |->
                 IF sub[s].pc = "following" /\ sub[s].task = t
                 THEN [sub[s] EXCEPT !.queue = @ \o events] ELSE sub[s]]

-----------------------------------------------------------------------------
(* Requests on the event loop                                               *)

Generating(c) == {m \in Msgs : reply[m].conv = c /\ reply[m].st = "generating"}

OrphanMarkedAnyStatus(c) ==                      \* mutant: no status filter
    IF last[c] = 0 THEN reply ELSE [reply EXCEPT ![last[c]].st = "incomplete"]

\* _assert_not_busy: refused while a task is registered without a terminal
\* event; a generating row without one is marked incomplete.
NotBusy(c) == ~RunningIn(c)
OrphanMarked(c) ==
    IF Generating(c) = {} THEN reply
    ELSE [reply EXCEPT ![CHOOSE m \in Generating(c) : TRUE].st = "incomplete"]

\* _start_generation_task
StartTask(m, t) ==
    /\ task[t].pc = "free"
    /\ task' = [task EXCEPT ![t] = [FreshTask EXCEPT !.pc = "created", !.msg = m]]
    /\ registry' = [registry EXCEPT ![m] = t]

SendWithoutBusyCheck(c, m, t) ==                 \* mutant: no mutual exclusion
    /\ up
    /\ reply[m].st = "absent" /\ \A k \in Msgs : k < m => reply[k].st # "absent"
    /\ reply' = [reply EXCEPT ![m] = [conv |-> c, st |-> "generating", text |-> 0]]
    /\ last' = [last EXCEPT ![c] = m]
    /\ StartTask(m, t)
    /\ UNCHANGED <<record, streams, up, bounds>>

\* send_message: the user row and the placeholder reply are committed, then the
\* task is registered.
SendMessage(c, m, t) ==
    /\ up /\ NotBusy(c)
    /\ reply[m].st = "absent" /\ \A k \in Msgs : k < m => reply[k].st # "absent"
    /\ reply' = [OrphanMarked(c) EXCEPT ![m] = [conv |-> c, st |-> "generating", text |-> 0]]
    /\ last' = [last EXCEPT ![c] = m]
    /\ StartTask(m, t)
    /\ UNCHANGED <<record, streams, up, bounds>>

RegenerateWithoutReset(c, t) ==                  \* mutant: the row is not reset
    /\ up /\ NotBusy(c) /\ last[c] # 0
    /\ reply' = OrphanMarked(c)
    /\ StartTask(last[c], t)
    /\ UNCHANGED <<last, record, streams, up, bounds>>

\* regenerate: the last row, if a reply, is reset in place under the same id.
Regenerate(c, t) ==
    /\ up /\ NotBusy(c) /\ last[c] # 0
    /\ reply' = [OrphanMarked(c) EXCEPT ![last[c]].st = "generating", ![last[c]].text = 0]
    /\ StartTask(last[c], t)
    /\ UNCHANGED <<last, record, streams, up, bounds>>

\* A send or regenerate refused after _assert_not_busy (agent gone, context too
\* long, nothing to regenerate) has still marked the orphan.
Refused(c) ==
    /\ up /\ NotBusy(c) /\ Generating(c) # {}
    /\ reply' = OrphanMarked(c)
    /\ UNCHANGED <<last, record, registry, task, streams, up, bounds>>

\* stop_generation: cancel the asyncio task; nothing happens to one that is done.
Stop(m) ==
    /\ up /\ Registered(m)
    /\ LET t == registry[m] IN
         /\ task[t].pc \in Live /\ ~task[t].cancel
         /\ EarlyStop \/ task[t].pc # "created"
         /\ task' = [task EXCEPT ![t].cancel = TRUE]
    /\ UNCHANGED <<tables, registry, streams, up, bounds>>

-----------------------------------------------------------------------------
(* Streams                                                                  *)

\* stream_message_route has found the row; the stream itself starts later.
OpenStream(s, m) ==
    /\ up /\ sub[s].pc = "none" /\ reply[m].st \notin {"absent", "deleted"}
    /\ sub' = [sub EXCEPT ![s].pc = "opening", ![s].msg = m]
    /\ UNCHANGED <<tables, registry, task, switch, up, bounds>>

FollowWithoutReplay(s) ==                        \* mutant: no replay of the buffer
    /\ up /\ sub[s].pc = "opening" /\ Registered(sub[s].msg)
    /\ sub' = [sub EXCEPT ![s].pc = "following", ![s].task = registry[sub[s].msg]]
    /\ UNCHANGED <<tables, registry, task, switch, up, bounds>>

\* build_message_stream with a task: replay its buffer, then follow.
Follow(s) ==
    /\ up /\ sub[s].pc = "opening" /\ Registered(sub[s].msg)
    /\ LET t == registry[sub[s].msg] IN
         sub' = [sub EXCEPT ![s].pc = "following", ![s].task = t, ![s].queue = task[t].buffer]
    /\ UNCHANGED <<tables, registry, task, switch, up, bounds>>

\* ... and without: a generating row is marked incomplete, one terminal event is
\* sent; if the row is gone meanwhile the stream breaks off.
NoTaskStream(s) ==
    /\ up /\ sub[s].pc = "opening" /\ ~Registered(sub[s].msg)
    /\ LET m == sub[s].msg IN
         /\ reply' = [reply EXCEPT ![m].st = IF @ = "generating" THEN "incomplete" ELSE @]
         /\ sub' = [sub EXCEPT ![s].pc = "closed",
                               ![s].got = IF reply[m].st = "deleted" THEN <<>>
                                          ELSE <<Done("cancelled", reply[m].text)>>]
    /\ UNCHANGED <<last, record, registry, task, switch, up, bounds>>

DeliverWithoutReturn(s) ==                       \* mutant: the stream goes on after it
    /\ up /\ sub[s].pc = "following" /\ sub[s].queue # <<>>
    /\ sub' = [sub EXCEPT ![s].queue = Tail(@), ![s].got = Append(@, Head(sub[s].queue))]
    /\ UNCHANGED <<tables, registry, task, switch, up, bounds>>

\* one event reaches the client; the terminal one ends the stream
Deliver(s) ==
    /\ up /\ sub[s].pc = "following" /\ sub[s].queue # <<>>
    /\ LET e == Head(sub[s].queue) IN
         sub' = [sub EXCEPT ![s].queue = Tail(@), ![s].got = Append(@, e),
                            ![s].pc = IF e.kind = "done" THEN "closed" ELSE @]
    /\ UNCHANGED <<tables, registry, task, switch, up, bounds>>

\* the client goes away; the generation goes on
Disconnect(s) ==
    /\ up /\ sub[s].pc = "following"
    /\ sub' = [sub EXCEPT ![s].pc = "gone", ![s].queue = <<>>]
    /\ UNCHANGED <<tables, registry, task, switch, up, bounds>>

-----------------------------------------------------------------------------
(* Switching the agent, in a worker thread: _assert_not_busy in three steps. *)

SwitchCheck(w, c) ==
    /\ up /\ switch[w].pc = "idle" /\ NotBusy(c)
    /\ switch' = [switch EXCEPT ![w] = [pc |-> "checked", conv |-> c, msg |-> 0]]
    /\ UNCHANGED <<tables, registry, task, sub, up, bounds>>

\* the query for a generating row
SwitchFind(w) ==
    /\ up /\ switch[w].pc = "checked"
    /\ \/ /\ Generating(switch[w].conv) = {}
          /\ switch' = [switch EXCEPT ![w].pc = "done"]
       \/ \E m \in Generating(switch[w].conv) :
            switch' = [switch EXCEPT ![w].pc = "found", ![w].msg = m]
    /\ UNCHANGED <<tables, registry, task, sub, up, bounds>>

\* the commit of "incomplete"; an update of a row that is gone fails
SwitchMark(w) ==
    /\ up /\ switch[w].pc = "found"
    /\ reply' = [reply EXCEPT ![switch[w].msg].st = IF @ = "deleted" THEN @ ELSE "incomplete"]
    /\ switch' = [switch EXCEPT ![w].pc = "done"]
    /\ UNCHANGED <<last, record, registry, task, sub, up, bounds>>

-----------------------------------------------------------------------------
(* The generation task, _run_generation around execute_run                  *)

\* The first step; a task cancelled before it never enters its body.
Begin(t) ==
    /\ up /\ task[t].pc = "created"
    /\ task' = [task EXCEPT ![t].pc = IF task[t].cancel THEN "ended" ELSE "running"]
    /\ UNCHANGED <<tables, registry, streams, up, bounds>>

Running(t) == up /\ task[t].pc = "running" /\ ~task[t].cancel

\* run_started: the recorder creates the run row
RunStarted(t) ==
    /\ Running(t) /\ record[t] = "none"
    /\ record' = [record EXCEPT ![t] = "running"]
    /\ PublishTo(t, task[t], <<Started>>)
    /\ UNCHANGED <<reply, last, registry, switch, up, bounds>>

\* a reasoning or content increment
Increment(t) ==
    /\ Running(t) /\ record[t] = "running" /\ TextOf(task[t].buffer) < MaxDeltas
    /\ PublishTo(t, task[t], <<Delta(TextOf(task[t].buffer) + 1)>>)
    /\ UNCHANGED <<tables, registry, switch, up, bounds>>

\* run_agent_loop yields run_completed: an answer, or the closing answer after
\* the last round, which may be empty.  The recorder settles the run row.
RunCompletes(t) ==
    /\ Running(t) /\ record[t] = "running"
    /\ \E k \in {"completed", "max_rounds"} :
         /\ k = "completed" => TextOf(task[t].buffer) > 0
         /\ record' = [record EXCEPT ![t] = IF k = "completed" THEN "succeeded" ELSE "partial"]
         /\ task' = [task EXCEPT ![t].ending = k, ![t].pc = "closing"]
    /\ UNCHANGED <<reply, last, registry, streams, up, bounds>>

\* The loop ends with an error event only (model error, no capacity, agent
\* gone); run_completed is due after the connections are closed.
RunErrs(t) ==
    /\ Running(t)
    /\ record' = [record EXCEPT ![t] = "running"]
    /\ task' = [task EXCEPT ![t].ending = "error", ![t].pc = "closing"]
    /\ UNCHANGED <<reply, last, registry, streams, up, bounds>>

\* An exception execute_run does not catch: no terminal event, and the recorder
\* is not told.
RunRaises(t) ==
    /\ Running(t) /\ faults < MaxFaults /\ faults' = faults + 1
    /\ task' = [task EXCEPT ![t].ending = "raised", ![t].pc = "closing"]
    /\ UNCHANGED <<tables, registry, streams, up, restarts>>

\* CancelledError inside the agent loop: the recorder settles the run row.
RunCancelled(t) ==
    /\ up /\ task[t].pc = "running" /\ task[t].cancel
    /\ record' = [record EXCEPT ![t] = "cancelled"]
    /\ task' = [task EXCEPT ![t].ending = "cancelled", ![t].pc = "closing",
                            ![t].cancel = FALSE]
    /\ UNCHANGED <<reply, last, registry, streams, up, bounds>>

-----------------------------------------------------------------------------
(* Closing the connections, then _finalize_generation                       *)

FinalizeUncommitted(t, k, err) ==                \* mutant: the row is not stored
    LET n == TextOf(task[t].buffer) IN
    /\ PublishTo(t, [task[t] EXCEPT !.pc = "ended"],
                 <<Done(IF k = "none" THEN "error" ELSE k, n)>>)
    /\ UNCHANGED <<reply, last, registry>>

FinalizeWithoutFinish(t, k, err) ==              \* mutant: no terminal event if no text
    LET m == task[t].msg
        n == TextOf(task[t].buffer) IN
    IF n = 0
    THEN /\ reply' = [reply EXCEPT ![m].st = "deleted"]
         /\ last' = [c \in Convs |-> IF last[c] = m THEN 0 ELSE last[c]]
         /\ registry' = [registry EXCEPT ![m] = NoTask]
         /\ PublishTo(t, [task[t] EXCEPT !.pc = "ended"], <<>>)
    ELSE /\ reply' = [reply EXCEPT ![m].st = "incomplete", ![m].text = n]
         /\ PublishTo(t, [task[t] EXCEPT !.pc = "ended"], <<Done("error", n)>>)
         /\ UNCHANGED <<last, registry>>

\* k is the status of the run_completed event the bridge has seen ("none" if it
\* saw none, which is then treated as an error), err whether it saw an error.
\* Without text the row is deleted and the registry entry removed; with text
\* the row is settled and the entry stays.
Finalize(t, k, err) ==
    LET m == task[t].msg
        n == TextOf(task[t].buffer)
        ok == k \in {"completed", "max_rounds"}
        status == IF n = 0 THEN IF err THEN "error" ELSE "cancelled"
                  ELSE IF (err /\ ~ok) \/ k = "none" THEN "error" ELSE k
    IN
    /\ IF n = 0
       THEN /\ reply' = [reply EXCEPT ![m].st = "deleted"]
            /\ last' = [c \in Convs |-> IF last[c] = m THEN 0 ELSE last[c]]
            /\ registry' = [registry EXCEPT ![m] = NoTask]
       ELSE /\ reply' = [reply EXCEPT ![m].st = IF ok THEN "completed" ELSE "incomplete",
                                      ![m].text = n]
            /\ UNCHANGED <<last, registry>>
    /\ PublishTo(t, [task[t] EXCEPT !.pc = "ended"],
                 (IF err THEN <<ErrorEvent>> ELSE <<>>) \o <<Done(status, n)>>)

\* The connections are closed; after an error execute_run now yields
\* run_completed and the recorder settles the run row.
CloseDone(t) ==
    /\ up /\ task[t].pc = "closing" /\ ~task[t].cancel
    /\ record' = [record EXCEPT ![t] = IF task[t].ending = "error" THEN "failed" ELSE @]
    /\ Finalize(t, IF task[t].ending \in {"cancelled", "raised"} THEN "none" ELSE task[t].ending,
                 task[t].ending \in {"error", "raised"})
    /\ UNCHANGED <<switch, up, bounds>>

CloseCancelledSilently(t) ==                     \* mutant: the cancellation escapes
    /\ up /\ task[t].pc = "closing" /\ task[t].cancel
    /\ task' = [task EXCEPT ![t].pc = "ended"]
    /\ UNCHANGED <<tables, registry, streams, up, bounds>>

\* A stop while the connections are being closed: what execute_run would still
\* have yielded is lost.
CloseCancelled(t) ==
    /\ up /\ task[t].pc = "closing" /\ task[t].cancel
    /\ Finalize(t, IF task[t].ending \in {"completed", "max_rounds"} THEN task[t].ending ELSE "none",
                 task[t].ending = "error")
    /\ UNCHANGED <<record, switch, up, bounds>>

\* Reading the history, or the commit of the final row, raises: the exception
\* leaves the task without a terminal event.
StorageFault(t) ==
    /\ up /\ task[t].pc \in {"created", "closing"} /\ ~task[t].cancel
    /\ faults < MaxFaults /\ faults' = faults + 1
    /\ record' = [record EXCEPT ![t] = IF task[t].ending = "error" THEN "failed" ELSE @]
    /\ task' = [task EXCEPT ![t].pc = "ended"]
    /\ UNCHANGED <<reply, last, registry, streams, up, restarts>>

-----------------------------------------------------------------------------
(* The process                                                              *)

\* The process dies; what is in memory is gone.
Kill ==
    /\ up /\ restarts < MaxRestarts
    /\ up' = FALSE /\ restarts' = restarts + 1
    /\ registry' = [m \in Msgs |-> NoTask]
    /\ task' = [t \in Tasks |-> IF task[t].pc = "free" THEN task[t]
                                ELSE [FreshTask EXCEPT !.pc = "dead"]]
    /\ sub' = [s \in Subs |-> IF sub[s].pc = "none" THEN sub[s] ELSE [FreshSub EXCEPT !.pc = "gone"]]
    /\ switch' = [w \in Switchers |-> IF switch[w].pc = "idle" THEN switch[w]
                                       ELSE [IdleSwitch EXCEPT !.pc = "done"]]
    /\ UNCHANGED <<tables, faults>>

\* lifespan: mark_interrupted_runs fails the run rows left running; generating
\* replies are left for the next request of their conversation.
Recover ==
    /\ ~up /\ up' = TRUE
    /\ record' = [t \in Tasks |-> IF record[t] = "running" THEN "failed" ELSE record[t]]
    /\ UNCHANGED <<reply, last, registry, task, streams, bounds>>

-----------------------------------------------------------------------------

Requests ==
    \/ \E c \in Convs, t \in Tasks :
         \/ \E m \in Msgs : SendMessage(c, m, t)
         \/ Regenerate(c, t)
    \/ \E c \in Convs : Refused(c)
    \/ \E m \in Msgs : Stop(m)
    \/ \E s \in Subs : Disconnect(s) \/ \E m \in Msgs : OpenStream(s, m)

TaskStep(t) ==
    \/ Begin(t)
    \/ RunStarted(t)
    \/ Increment(t)
    \/ RunCompletes(t)
    \/ RunErrs(t)
    \/ RunCancelled(t)
    \/ CloseDone(t)
    \/ CloseCancelled(t)

TaskFault(t) == RunRaises(t) \/ StorageFault(t)

StreamStep(s) == Follow(s) \/ NoTaskStream(s) \/ Deliver(s)

SwitchStep(w) ==
    \/ \E c \in Convs : SwitchCheck(w, c)
    \/ SwitchFind(w)
    \/ SwitchMark(w)

Next ==
    \/ Requests
    \/ \E t \in Tasks : TaskStep(t) \/ TaskFault(t)
    \/ \E s \in Subs : StreamStep(s)
    \/ \E w \in Switchers : SwitchStep(w)
    \/ Kill
    \/ Recover

Spec == Init /\ [][Next]_vars

\* The event loop schedules every ready task and stream; agent runs end because
\* model calls, built-in tools, waits and rounds are bounded
\* (AgentRun!RunEndsOrHangsInMcp: MCP servers have to answer); a stopped process
\* is started again.  Users and clients promise nothing.
FairSpec ==
    /\ Spec
    /\ \A t \in Tasks : WF_vars(TaskStep(t))
    /\ \A s \in Subs : WF_vars(StreamStep(s))
    /\ WF_vars(Recover)

-----------------------------------------------------------------------------
(* Safety                                                                   *)

ConvOf(t) == reply[task[t].msg].conv

\* FR-020: a conversation generates at most one reply at a time, and never has
\* two rows waiting for one, whatever was left behind by a restart.
OneGeneration ==
    /\ \A c \in Convs : Cardinality(Generating(c)) <= 1
    /\ \A t, u \in Tasks :
         task[t].pc \in Live /\ task[u].pc \in Live /\ ConvOf(t) = ConvOf(u) => t = u

\* The row of a live generation is waiting for it: nothing takes it for an
\* orphan (the comment in _assert_not_busy: "the registry has no such task").
LiveReplyIsGenerating ==
    \A t \in Tasks : task[t].pc \in Live => reply[task[t].msg].st = "generating"

\* FR-020, FR-025: a conversation that refuses requests as busy is really being
\* worked for, so the refusal ends.
BusyMeansWorking ==
    \A m \in Msgs : Registered(m) /\ ~IsTerminal(registry[m]) => task[registry[m]].pc \in Live

\* Contract of the stream endpoint: whenever a client joins, replay and live
\* events together are the events of the generation, each once, in order; a
\* stream that has ended has delivered all of them.
StreamExact ==
    \A s \in Subs :
      /\ sub[s].pc = "following" => sub[s].got \o sub[s].queue = task[sub[s].task].buffer
      /\ sub[s].pc = "closed" /\ sub[s].task # NoTask => sub[s].got = task[sub[s].task].buffer

\* The three accounts of a generation agree: the text and the status its terminal
\* event gives to the clients are what is stored, and the run row says succeeded
\* or partial exactly if the reply is completed.
ReplyMatchesStream ==
    \A m \in Msgs : Registered(m) /\ IsTerminal(registry[m]) =>
      LET b == task[registry[m]].buffer
          d == b[Len(b)]
      IN  /\ d.kind = "done" /\ d.n = TextOf(b) /\ reply[m].text = d.n
          /\ reply[m].st = (IF d.status \in {"completed", "max_rounds"} THEN "completed"
                            ELSE "incomplete")
          /\ record[registry[m]] \in {"succeeded", "partial"} <=> reply[m].st = "completed"

\* A stored reply changes only by being regenerated; a completed one is never
\* taken back and an unfinished one never becomes complete by itself.
ReplyLifeCycle ==
    [][\A m \in Msgs :
         LET a == reply[m].st
             b == reply'[m].st
         IN  \/ a = b
             \/ a = "absent" /\ b = "generating"
             \/ a = "generating" /\ b \in {"completed", "incomplete", "deleted"}
             \/ a \in {"completed", "incomplete"} /\ b = "generating" /\ registry'[m] # registry[m]]_vars

-----------------------------------------------------------------------------
(* Liveness                                                                 *)

\* FR-025, 009 FR-035: a generation that was started publishes its terminal event
\* unless the process dies.
GenerationEnds ==
    \A t \in Tasks : task[t].pc \in Live ~> IsTerminal(t) \/ task[t].pc = "dead"

\* FR-025: a client that stays connected sees its stream end.
StreamEnds ==
    \A s \in Subs : sub[s].pc \in {"opening", "following"} ~> sub[s].pc \in {"closed", "gone"}

=============================================================================
