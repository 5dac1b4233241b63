---------------------------- MODULE RunRecorder ----------------------------
(***************************************************************************)
(* The recorder of one run (recorder.py) and its three tables: the row in  *)
(* runs, the structural events in run_events and the texts in run_payloads.*)
(*                                                                         *)
(* An event leads to up to four commits, each in a session of its own.     *)
(* Observe(e, n) is the handler when n of them succeed: the next one, if   *)
(* there is one, raises and observe swallows the exception, so that what   *)
(* would have followed is not done.  A process that dies between two       *)
(* commits leaves the same tables.                                         *)
(***************************************************************************)
EXTENDS Naturals, Sequences, FiniteSets, SequencesExt

VARIABLES
    recorder,   \* the RunRecorder object
    run,        \* the row of the run in runs
    events,     \* its rows in run_events
    payloads    \* its rows in run_payloads: [call, type]

recordVars == <<recorder, run, events, payloads>>

\* error: error_category is set.  reason: who wrote the end.
NoRow == [st |-> "none", reason |-> "", requests |-> 0, tools |-> 0, usage |-> 0, error |-> FALSE]
NewRow == [NoRow EXCEPT !.st = "running"]
NewRecorder == [created |-> FALSE, finished |-> FALSE, requests |-> 0, tools |-> 0,
                usage |-> 0, error |-> FALSE]
Terminal == {"succeeded", "partial", "failed", "cancelled"}

RecorderInit ==
    /\ recorder = NewRecorder
    /\ run = NoRow
    /\ events = {}
    /\ payloads = {}

RequestStarts == {"model_request_started", "summary_started"}
RequestEnds == {"model_request_completed", "summary_completed"}

\* The payloads an event brings, in the order they are saved.  A summary always
\* has an output, a chat request only if the model said or called something.
PayloadsOf(e) ==
    CASE e.event = "model_request_completed" ->
             IF e.output THEN <<"model_input", "model_output">> ELSE <<"model_input">>
      [] e.event = "summary_completed"     -> <<"model_input", "model_output">>
      [] e.event = "tool_call_started"     -> <<"tool_params">>
      [] e.event = "tool_call_completed"   -> <<"tool_result">>
      [] e.event = "compression_started"   -> <<"compression_input">>
      [] e.event = "compression_completed" -> <<"compression_output">>
      [] OTHER                             -> <<>>

\* The commits of _observe: the row with the first event, the payloads, the
\* event itself and, for run_completed, the final state of the row.
FinalWrites(e) ==
    IF e.event = "run_completed" /\ ~ recorder.finished THEN <<"final">> ELSE <<>>

WritesEventFirst(e) ==                           \* mutant: payloads behind their event
    (IF recorder.created THEN <<>> ELSE <<"row">>)
        \o <<"event">> \o PayloadsOf(e) \o FinalWrites(e)

Writes(e) ==
    (IF recorder.created THEN <<>> ELSE <<"row">>)
        \o PayloadsOf(e) \o <<"event">> \o FinalWrites(e)

FinishWrites ==
    IF recorder.finished THEN <<>>
    ELSE IF recorder.created THEN <<"final">> ELSE <<"row", "final">>

\* _STATUS_MAP
StatusOf(ending) ==
    CASE ending = "completed"  -> "succeeded"
      [] ending = "max_rounds" -> "partial"
      [] ending = "cancelled"  -> "cancelled"
      [] OTHER                 -> "failed"

\* _persist_finish: nothing happens to a row that was never inserted.
RunAfter(done, rec, status) ==
    LET row == IF "row" \in done THEN NewRow ELSE run
    IN  IF "final" \in done /\ row.st # "none"
        THEN [st |-> status, reason |-> "own", requests |-> rec.requests,
              tools |-> rec.tools, usage |-> rec.usage, error |-> rec.error]
        ELSE row

IsCountedAlways(e) == e.event = "tool_call_completed"   \* mutant: refused calls, too

\* _TOOL_COUNTED_STATUSES
IsCounted(e) == e.event = "tool_call_completed" /\ e.status # "denied"

\* The counters of the object, which change before the commits of the event
\* are tried; only the row comes before the count of requests.
Counted(e, n) ==
    LET rowThere == recorder.created \/ n > 0
        one(condition) == IF condition THEN 1 ELSE 0
    IN  [recorder EXCEPT
            !.created = TRUE,
            !.requests = @ + one(e.event \in RequestStarts /\ rowThere),
            !.tools = @ + one(IsCounted(e)),
            !.usage = @ + (IF e.event \in RequestEnds THEN e.usage ELSE 0),
            !.error = @ \/ e.event = "error"]

\* observe: the recorder takes the final usage as one more request
\* (_persist_finish_from_completed merges usage_total into the sum).
Observe(e, n) ==
    LET done == {Writes(e)[i] : i \in 1 .. n}
        finishes == "event" \in done /\ FinalWrites(e) # <<>>
        rec == [Counted(e, n) EXCEPT
                   !.finished = @ \/ finishes,
                   !.usage = @ + (IF finishes THEN e.usage ELSE 0)]
        fresh == \A x \in events : x.seq # e.seq    \* unique(run_id, seq): else skipped
    IN  /\ recorder' = rec
        /\ run' = RunAfter(done, rec, StatusOf(e.status))
        /\ events' = IF "event" \in done /\ fresh THEN events \cup {e} ELSE events
        /\ payloads' = payloads \cup
               {[call |-> e.call, type |-> t] : t \in done \cap Range(PayloadsOf(e))}

FinishAgain(status, n) ==                        \* mutant: _finished not looked at
    LET done == {<<"row", "final">>[i] : i \in 1 .. n}
        rec == [recorder EXCEPT !.error = status = "failed"]
    IN  /\ recorder' = [recorder EXCEPT !.created = TRUE, !.finished = TRUE]
        /\ run' = IF run.st = "none" THEN RunAfter(done, rec, status)
                  ELSE RunAfter({"final"}, rec, status)
        /\ UNCHANGED <<events, payloads>>

\* finish, and close with the status "failed"; an error reported before is not
\* looked at.
Finish(status, n) ==
    LET done == {FinishWrites[i] : i \in 1 .. n}
    IN  IF recorder.finished
        THEN UNCHANGED recordVars
        ELSE /\ recorder' = [recorder EXCEPT !.created = TRUE, !.finished = TRUE]
             /\ run' = RunAfter(done, [recorder EXCEPT !.error = status = "failed"], status)
             /\ UNCHANGED <<events, payloads>>

InterruptsAll == Terminal \cup {"running"}       \* mutant: the query without its WHERE
Interrupted == {"running"}

\* mark_interrupted_runs at the start of the next process.
MarkInterrupted ==
    /\ run' = IF run.st \in Interrupted
              THEN [run EXCEPT !.st = "failed", !.reason = "interrupted", !.error = TRUE]
              ELSE run
    /\ recorder' = NewRecorder
    /\ UNCHANGED <<events, payloads>>

-----------------------------------------------------------------------------
(* What is read back                                                       *)

IsShownByKind(e) ==                              \* mutant: the payload not looked for
    e.event \in {"model_request_completed", "tool_call_completed"}

\* build_run_replay: the requests of the chat that have an output, and the
\* tool calls, in the order of their numbers.  (Of an output that is nothing but
\* tool calls there is nothing to show, here as in the live stream.)
IsShown(e) ==
    \/ /\ e.event = "model_request_completed"
       /\ [call |-> e.call, type |-> "model_output"] \in payloads
    \/ e.event = "tool_call_completed"

\* The members of s that pass Test, in the order of their places.
Chosen(s, Test(_)) ==
    LET places == {i \in DOMAIN s : Test(s[i])}
    IN  [k \in 1 .. Cardinality(places) |->
            s[CHOOSE i \in places : Cardinality({j \in places : j <= i}) = k]]

ByNumber == [n \in {e.seq : e \in events} |-> CHOOSE e \in events : e.seq = n]
Replay == Chosen(ByNumber, IsShown)

=============================================================================
