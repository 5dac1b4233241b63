----------------------------- MODULE Evaluation -----------------------------
(***************************************************************************)
(* The evaluation execution engine: services/evaluation/runner.py, the     *)
(* aggregation and recovery of services/evaluation/run_service.py and the  *)
(* control endpoints of api/evaluation.py.                                 *)
(*                                                                         *)
(* One process, one asyncio event loop.  The control endpoints are async   *)
(* routes and the background loops are asyncio tasks, so they interleave   *)
(* only where a task awaits: before its first step ("created"), inside     *)
(* execute_run ("executing") and inside the evaluator ("judging").  A loop *)
(* that is "between" two cases, has "swept" the rows of a cancelled run or *)
(* is "finishing" (status committed, counters not yet) runs synchronously; *)
(* no other event-loop code can run then (EventLoopFree), only the task-   *)
(* deletion route, a sync route in a worker thread, and the death of the   *)
(* process.                                                                *)
(*                                                                         *)
(* The database (status, rows, totals) survives a crash; the control       *)
(* registry RUN_CONTROLS and the loops do not.                             *)
(***************************************************************************)
EXTENDS Naturals, FiniteSets

CONSTANTS Runs,             \* primary keys of evaluation_runs
          Loops,            \* identities of background loop tasks (control handles)
          NoLoop,           \* no entry in RUN_CONTROLS
          NoRun,
          NumCases,         \* cases in the task's dataset snapshot
          MaxRows,          \* bound: rows of a run; MaxRows - NumCases retries
          MaxRestarts,      \* bound: how often the process stops
          MaxFaults,        \* bound: how many framework-level exceptions happen
          MaxLives,         \* bound: how many runs are stored under one primary key
          GracefulStop      \* whether the process may stop in an orderly way

ASSUME EvaluationAssumption ==
    /\ NumCases \in Nat \ {0}
    /\ MaxRows \in Nat /\ NumCases <= MaxRows
    /\ NoLoop \notin Loops /\ NoRun \notin Runs
    /\ MaxRestarts \in Nat /\ MaxFaults \in Nat /\ MaxLives \in Nat
    /\ GracefulStop \in BOOLEAN

VARIABLES
    status,       \* evaluation_runs.status; "absent" = no such row
    rows,         \* evaluation_case_runs of the run, in id order
    totals,       \* the counters stored on the run by aggregate_run
    control,      \* RUN_CONTROLS: [Runs -> Loops \cup {NoLoop}]
    run,          \* EvaluationRunControl.run_pk of a loop
    pc,           \* where the loop's task is
    cur,          \* current_case_run_pk, 0 = None
    queue,        \* items the loop has not reached yet (fixed at its start)
    pauseEvent,   \* EvaluationRunControl.pause_event
    cancelEvent,  \* EvaluationRunControl.cancel_event
    up,           \* the process is serving requests
    restarts, faults, lives,  \* counters for the bounds
    torn          \* history: runs whose last finish_run was cut between its two
                  \* commits; no guard reads it

db      == <<status, rows, totals>>
handles == <<control, run, pc, cur, queue, pauseEvent, cancelEvent>>
bounds  == <<restarts, faults, lives>>
vars    == <<db, handles, up, bounds, torn>>

RowIds == 1 .. MaxRows
NoRow  == [st |-> "none", case |-> 0, attempt |-> 0]

\* The tables as the ledger sees them.  A primary key that SQLite gives to a
\* second run leaves its books: a loop of the first may still write there.
FirstLife(r) == lives[r] <= 1
LedgerStatus == [r \in Runs |-> IF FirstLife(r) THEN status[r] ELSE "absent"]
LedgerRows   == [r \in Runs |-> IF FirstLife(r) THEN rows[r] ELSE [i \in RowIds |-> NoRow]]

Ledger == INSTANCE EvaluationLedger WITH status <- LedgerStatus, rows <- LedgerRows

RunStatus   == Ledger!RunStatus
OpenRow     == Ledger!OpenRow
SettledRow  == Ledger!SettledRow
RunStatusCan(from, to) == Ledger!RunStatusCan(from, to)

\* EvaluationRunControl.active: the task exists and is not done.
Sync == {"between", "swept", "finishing"}
Live == {"created", "executing", "judging"} \cup Sync
Busy == {"executing", "judging"}
Active(r) == control[r] # NoLoop /\ pc[control[r]] \in Live

EventLoopFree == \A l \in Loops : pc[l] \notin Sync
Serving == up /\ EventLoopFree

\* RETRYABLE_CASE_RUN_STATUSES
Retryable == {"execution_failed", "judge_failed", "failed", "cancelled"}

-----------------------------------------------------------------------------
(* Aggregation (run_service.py:209-263)                                    *)

\* The newest row of each case that is not cancelled.
EffectiveRows(rs) ==
    {i \in RowIds :
        /\ rs[i].st \notin {"none", "cancelled"}
        /\ \A j \in RowIds :
             (i < j /\ rs[j].case = rs[i].case) => rs[j].st \in {"none", "cancelled"}}

CountOf(rs, s) == Cardinality({i \in EffectiveRows(rs) : rs[i].st = s})

Aggregate(rs) ==
    [passed    |-> CountOf(rs, "passed"),
     failed    |-> CountOf(rs, "failed"),
     execution |-> CountOf(rs, "execution_failed"),
     judge     |-> CountOf(rs, "judge_failed"),
     cancelled |-> Cardinality({i \in RowIds : rs[i].st = "cancelled"})]

NoTotals == [passed |-> 0, failed |-> 0, execution |-> 0, judge |-> 0, cancelled |-> 0]

\* completed_cases
CompletedCases(t) == t.passed + t.failed + t.execution + t.judge

-----------------------------------------------------------------------------
(* finish_run, and the except-branch of the loop that falls back to         *)
(* "failed" when the transition is refused with ValueError: the status is    *)
(* committed first, aggregate_run commits the counters after it.             *)

FinishUnchecked(from, target) == target          \* mutant: no transition check

Finishes(from, target) == from = target \/ RunStatusCan(from, target)

FinishStatus(from, target) ==
    IF Finishes(from, target) THEN target
    ELSE IF Finishes(from, "failed") THEN "failed" ELSE from

\* whether one of the two attempts gets as far as aggregate_run
FinishAggregates(from, target) == Finishes(from, target) \/ Finishes(from, "failed")

-----------------------------------------------------------------------------

Row    == [st : OpenRow \cup SettledRow \cup {"none"}, case : 0 .. NumCases, attempt : Nat]
Totals == [passed : Nat, failed : Nat, execution : Nat, judge : Nat, cancelled : Nat]

StoredTypeOK ==
    /\ status \in [Runs -> RunStatus]
    /\ rows \in [Runs -> [RowIds -> Row]]
    /\ totals \in [Runs -> Totals]

HandleTypeOK ==
    /\ control \in [Runs -> Loops \cup {NoLoop}]
    /\ run \in [Loops -> Runs \cup {NoRun}]
    /\ pc \in [Loops -> Live \cup {"idle", "done"}]
    /\ cur \in [Loops -> RowIds \cup {0}]
    /\ \A l \in Loops : cur[l] # 0 <=> pc[l] \in Busy
    /\ queue \in [Loops -> SUBSET RowIds]
    /\ pauseEvent \in [Loops -> BOOLEAN]
    /\ cancelEvent \in [Loops -> BOOLEAN]

TypeOK ==
    /\ StoredTypeOK
    /\ HandleTypeOK
    /\ up \in BOOLEAN
    /\ restarts \in Nat /\ faults \in Nat /\ lives \in [Runs -> Nat]
    /\ torn \subseteq Runs

Init ==
    /\ status = [r \in Runs |-> "absent"]
    /\ rows = [r \in Runs |-> [i \in RowIds |-> NoRow]]
    /\ totals = [r \in Runs |-> NoTotals]
    /\ control = [r \in Runs |-> NoLoop]
    /\ run = [l \in Loops |-> NoRun]
    /\ pc = [l \in Loops |-> "idle"]
    /\ cur = [l \in Loops |-> 0]
    /\ queue = [l \in Loops |-> {}]
    /\ pauseEvent = [l \in Loops |-> FALSE]
    /\ cancelEvent = [l \in Loops |-> FALSE]
    /\ up = TRUE
    /\ restarts = 0 /\ faults = 0 /\ lives = [r \in Runs |-> 0]
    /\ torn = {}

-----------------------------------------------------------------------------
(* Control handles                                                          *)

\* The identity of a new task does not matter: one that is not in use.
FreeLoop == CHOOSE l \in Loops : pc[l] = "idle"

\* start_evaluation_run / resume_evaluation_run: create the task, register the
\* handle.  A handle left behind by a task that is done is replaced.
Spawn(r, l) ==
    /\ pc[l] = "idle" /\ l = FreeLoop
    /\ control' = [control EXCEPT ![r] = l]
    /\ run' = [run EXCEPT ![l] = r]
    /\ pc' = [k \in Loops |-> IF k = l THEN "created"
                              ELSE IF k = control[r] /\ pc[k] = "done" THEN "idle" ELSE pc[k]]
    /\ pauseEvent' = [pauseEvent EXCEPT ![l] = FALSE]
    /\ cancelEvent' = [cancelEvent EXCEPT ![l] = FALSE]
    /\ UNCHANGED <<cur, queue>>

StartUnlessActive(r) ==
    \/ Active(r) /\ UNCHANGED handles
    \/ ~Active(r) /\ \E l \in Loops : Spawn(r, l)

\* the finally-clause RUN_CONTROLS.pop(run_pk, None); the task is done
Pop(l) ==
    /\ control' = [control EXCEPT ![run[l]] = NoLoop]
    /\ run' = [run EXCEPT ![l] = NoRun]
    /\ pc' = [pc EXCEPT ![l] = "idle"]
    /\ queue' = [queue EXCEPT ![l] = {}]
    /\ pauseEvent' = [pauseEvent EXCEPT ![l] = FALSE]
    /\ cancelEvent' = [cancelEvent EXCEPT ![l] = FALSE]

NoHandles ==
    /\ control' = [r \in Runs |-> NoLoop]
    /\ run' = [l \in Loops |-> NoRun]
    /\ pc' = [l \in Loops |-> "idle"]
    /\ cur' = [l \in Loops |-> 0]
    /\ queue' = [l \in Loops |-> {}]
    /\ pauseEvent' = [l \in Loops |-> FALSE]
    /\ cancelEvent' = [l \in Loops |-> FALSE]

-----------------------------------------------------------------------------
(* Requests                                                                 *)

FreshRows ==
    [i \in RowIds |-> IF i <= NumCases THEN [st |-> "pending", case |-> i, attempt |-> 1] ELSE NoRow]

\* POST /tasks/{id}/runs: create_run_for_task, then start_evaluation_run.  The
\* rows are committed before the start is refused for a key still in use.
StartRun(r) ==
    /\ Serving
    /\ status[r] = "absent" /\ lives[r] < MaxLives
    /\ status' = [status EXCEPT ![r] = "pending"]
    /\ rows' = [rows EXCEPT ![r] = FreshRows]
    /\ totals' = [totals EXCEPT ![r] = NoTotals]
    /\ lives' = [lives EXCEPT ![r] = @ + 1]
    /\ torn' = torn \ {r}
    /\ StartUnlessActive(r)
    /\ UNCHANGED <<up, restarts, faults>>

PauseRun(r) ==
    /\ Serving /\ Active(r)
    /\ pauseEvent' = [pauseEvent EXCEPT ![control[r]] = TRUE]
    /\ status' = [status EXCEPT ![r] = IF @ = "running" THEN "paused" ELSE @]
    /\ UNCHANGED <<rows, totals, control, run, pc, cur, queue, cancelEvent, up, bounds, torn>>

ResumeWithoutActiveCheck(r) ==                   \* mutant: always a new loop
    /\ Serving /\ status[r] = "paused"
    /\ \E l \in Loops : Spawn(r, l)
    /\ UNCHANGED <<db, up, bounds, torn>>

\* A live loop only has its pause flag cleared; otherwise a paused run gets a
\* new loop.
ResumeRun(r) ==
    /\ Serving
    /\ \/ /\ Active(r)
          /\ pauseEvent' = [pauseEvent EXCEPT ![control[r]] = FALSE]
          /\ UNCHANGED <<control, run, pc, cur, queue, cancelEvent>>
       \/ /\ ~Active(r) /\ status[r] = "paused"
          /\ \E l \in Loops : Spawn(r, l)
    /\ UNCHANGED <<db, up, bounds, torn>>

CancelStatusOnly(r) ==                           \* mutant: the loop is not told
    /\ Serving
    /\ status[r] \in {"pending", "running", "paused"}
    /\ status' = [status EXCEPT ![r] = "cancelled"]
    /\ UNCHANGED <<rows, totals, handles, up, bounds, torn>>

\* cancel_run persists "cancelled" at once and leaves the rows to the loop.
CancelRun(r) ==
    /\ Serving
    /\ status[r] \in {"pending", "running", "paused"}
    /\ cancelEvent' = [l \in Loops |-> cancelEvent[l] \/ l = control[r]]
    /\ status' = [status EXCEPT ![r] = "cancelled"]
    /\ UNCHANGED <<rows, totals, control, run, pc, cur, queue, pauseEvent, up, bounds, torn>>

NextFree(rs, j) == rs[j].st = "none" /\ \A k \in RowIds : k < j => rs[k].st # "none"

\* retry_case_run appends attempt+1 and forces the run to "running", then
\* start_evaluation_run is called; its refusal is swallowed.
RetryCase(r, i, j) ==
    /\ Serving
    /\ rows[r][i].st \in Retryable
    /\ NextFree(rows[r], j)
    /\ rows' = [rows EXCEPT ![r][j] =
                 [st |-> "pending", case |-> rows[r][i].case, attempt |-> rows[r][i].attempt + 1]]
    /\ status' = [status EXCEPT ![r] = "running"]
    /\ StartUnlessActive(r)
    /\ UNCHANGED <<totals, up, bounds, torn>>

\* DELETE /tasks/{id}: a sync route, so it may run at any point of a loop; the
\* loop of the deleted run is not told.
DeleteTask(r) ==
    /\ up /\ status[r] # "absent"
    /\ status' = [status EXCEPT ![r] = "absent"]
    /\ rows' = [rows EXCEPT ![r] = [i \in RowIds |-> NoRow]]
    /\ totals' = [totals EXCEPT ![r] = NoTotals]
    /\ torn' = torn \ {r}
    /\ UNCHANGED <<handles, up, bounds>>

-----------------------------------------------------------------------------
(* The background loop, _run_evaluation_loop                                *)

Startable == {"pending", "paused", "interrupted"}

PendingRows(r) == {i \in RowIds : rows[r][i].st = "pending"}

LoopBeginAnyStatus(l) ==                         \* mutant: no status check
    /\ up /\ EventLoopFree /\ pc[l] = "created"
    /\ status[run[l]] # "absent"
    /\ status' = [status EXCEPT ![run[l]] = "running"]
    /\ queue' = [queue EXCEPT ![l] = PendingRows(run[l])]
    /\ pc' = [pc EXCEPT ![l] = "between"]
    /\ UNCHANGED <<rows, totals, control, run, cur, pauseEvent, cancelEvent, up, bounds, torn>>

\* The first step: commit "running" and fix the list of pending rows.
LoopBegin(l) ==
    /\ up /\ EventLoopFree /\ pc[l] = "created"
    /\ status[run[l]] \in Startable
    /\ status' = [status EXCEPT ![run[l]] = "running"]
    /\ queue' = [queue EXCEPT ![l] = PendingRows(run[l])]
    /\ pc' = [pc EXCEPT ![l] = "between"]
    /\ UNCHANGED <<rows, totals, control, run, cur, pauseEvent, cancelEvent, up, bounds, torn>>

\* The early returns leave the handle registered, with its task done.
LoopRefused(l) ==
    /\ up /\ EventLoopFree /\ pc[l] = "created"
    /\ status[run[l]] \notin Startable
    /\ pc' = [pc EXCEPT ![l] = "done"]
    /\ UNCHANGED <<db, control, run, cur, queue, pauseEvent, cancelEvent, up, bounds, torn>>

First(q, i) == i \in q /\ \A j \in q : i <= j

\* worker + step 1 of execute_case_run: the row is marked running and the agent
\* run starts; a row that is gone is skipped.
Dispatch(l) ==
    /\ up /\ pc[l] = "between"
    /\ ~cancelEvent[l] /\ ~pauseEvent[l]
    /\ \E i \in RowIds :
         /\ First(queue[l], i)
         /\ queue' = [queue EXCEPT ![l] = @ \ {i}]
         /\ \/ /\ rows[run[l]][i].st = "none"
               /\ UNCHANGED <<rows, pc, cur>>
            \/ /\ rows[run[l]][i].st # "none"
               /\ rows' = [rows EXCEPT ![run[l]][i].st = "running"]
               /\ pc' = [pc EXCEPT ![l] = "executing"]
               /\ cur' = [cur EXCEPT ![l] = i]
    /\ UNCHANGED <<status, totals, control, run, pauseEvent, cancelEvent, up, bounds, torn>>

SettleKeepingCurrent(l, s) ==                    \* mutant: current_case_run_pk not reset
    /\ rows' = [rows EXCEPT ![run[l]][cur[l]].st = s]
    /\ pc' = [pc EXCEPT ![l] = "between"]
    /\ UNCHANGED <<status, totals, control, run, cur, queue, pauseEvent, cancelEvent, up, bounds, torn>>

\* _persist_case_run_terminal: the row may have been deleted meanwhile.
Settle(l, s) ==
    /\ rows' = IF rows[run[l]][cur[l]].st = "none" THEN rows
               ELSE [rows EXCEPT ![run[l]][cur[l]].st = s]
    /\ cur' = [cur EXCEPT ![l] = 0]
    /\ pc' = [pc EXCEPT ![l] = "between"]
    /\ UNCHANGED <<status, totals, control, run, queue, pauseEvent, cancelEvent, up, bounds, torn>>

\* execute_run has ended: with an exception, cancelled (the handle's event is
\* looked at only now), without a usable answer, or with one.
ExecDone(l) ==
    /\ Serving /\ pc[l] = "executing"
    /\ \/ Settle(l, "execution_failed")
       \/ cancelEvent[l] /\ Settle(l, "cancelled")
       \/ /\ ~cancelEvent[l]
          /\ pc' = [pc EXCEPT ![l] = "judging"]
          /\ UNCHANGED <<db, control, run, cur, queue, pauseEvent, cancelEvent, up, bounds, torn>>

JudgeDoneUnstored(l) ==                          \* mutant: a failed judgement is not stored
    /\ Serving /\ pc[l] = "judging"
    /\ \/ \E s \in {"passed", "failed"} : Settle(l, s)
       \/ /\ cur' = [cur EXCEPT ![l] = 0]
          /\ pc' = [pc EXCEPT ![l] = "between"]
          /\ UNCHANGED <<db, control, run, queue, pauseEvent, cancelEvent, up, bounds, torn>>

\* The evaluator has answered: a valid score on either side of the threshold,
\* or no valid judgement.
JudgeDone(l) ==
    /\ Serving /\ pc[l] = "judging"
    /\ \E s \in {"passed", "failed", "judge_failed"} : Settle(l, s)

CancelRunningOnly(rs) ==                         \* mutant: unstarted rows forgotten
    [i \in RowIds |-> IF rs[i].st = "running" THEN [rs[i] EXCEPT !.st = "cancelled"] ELSE rs[i]]

\* the batch update to "cancelled", in the loop and in mark_interrupted_runs
CancelOpenRows(rs) == Ledger!CancelOpen(rs)

\* Once the cancel event is seen the remaining items are skipped and every open
\* row of the run is cancelled, in a commit of its own.
SweepRows(l) ==
    /\ up /\ pc[l] = "between" /\ cancelEvent[l]
    /\ rows' = [rows EXCEPT ![run[l]] = CancelOpenRows(@)]
    /\ pc' = [pc EXCEPT ![l] = "swept"]
    /\ UNCHANGED <<status, totals, control, run, cur, queue, pauseEvent, cancelEvent, up, bounds, torn>>

\* finish_run up to its first commit.  When it is refused, or the row is gone,
\* the exception ends the task; an equal status goes straight to aggregate_run.
BeginFinish(l, target) ==
    /\ status' = [status EXCEPT ![run[l]] = FinishStatus(@, target)]
    /\ \/ /\ FinishAggregates(status[run[l]], target)
          /\ pc' = [pc EXCEPT ![l] = "finishing"]
          /\ UNCHANGED <<control, run, queue, pauseEvent, cancelEvent>>
       \/ /\ ~FinishAggregates(status[run[l]], target)
          /\ Pop(l)
    /\ UNCHANGED <<rows, totals, up, restarts, lives, torn>>

EndCancelled(l) ==
    /\ up /\ pc[l] = "swept"
    /\ BeginFinish(l, "cancelled")
    /\ UNCHANGED <<cur, faults>>

FinishWithoutTotals(l) ==                        \* mutant: no aggregate_run
    /\ up /\ pc[l] = "finishing"
    /\ torn' = torn \ {run[l]}
    /\ Pop(l)
    /\ UNCHANGED <<db, cur, up, bounds>>

\* aggregate_run, the second commit; a deleted run has nothing to aggregate.
FinishTotals(l) ==
    /\ up /\ pc[l] = "finishing"
    /\ totals' = [totals EXCEPT ![run[l]] =
                    IF status[run[l]] = "absent" THEN @ ELSE Aggregate(rows[run[l]])]
    /\ torn' = torn \ {run[l]}
    /\ Pop(l)
    /\ UNCHANGED <<status, rows, cur, up, bounds>>

EndPausedSilently(l) ==                          \* mutant: the status is not stored
    /\ up /\ pc[l] = "between" /\ ~cancelEvent[l] /\ pauseEvent[l]
    /\ Pop(l)
    /\ UNCHANGED <<db, cur, up, bounds, torn>>

EndPaused(l) ==
    /\ up /\ pc[l] = "between" /\ ~cancelEvent[l] /\ pauseEvent[l]
    /\ status' = [status EXCEPT ![run[l]] = IF @ = "running" THEN "paused" ELSE @]
    /\ Pop(l)
    /\ UNCHANGED <<rows, totals, cur, up, bounds, torn>>

EndCompleted(l) ==
    /\ up /\ pc[l] = "between" /\ ~cancelEvent[l] /\ ~pauseEvent[l]
    /\ queue[l] = {}
    /\ BeginFinish(l, "completed")
    /\ UNCHANGED <<cur, faults>>

\* An exception outside the isolated part of a case (snapshot expansion, a
\* failed commit): the run is finished as failed, its rows are left as they are.
LoopError(l) ==
    /\ up /\ pc[l] \in {"between", "swept"} \cup Busy /\ faults < MaxFaults
    /\ pc[l] \in Busy => EventLoopFree
    /\ faults' = faults + 1
    /\ cur' = [cur EXCEPT ![l] = 0]
    /\ BeginFinish(l, "failed")

\* aggregate_run itself fails: the second attempt to finish is refused, since
\* the first one has committed an end status, and the counters stay behind.
FinishError(l) ==
    /\ up /\ pc[l] = "finishing" /\ faults < MaxFaults
    /\ faults' = faults + 1
    /\ torn' = torn \cup {run[l]}
    /\ Pop(l)
    /\ UNCHANGED <<db, cur, up, restarts, lives>>

-----------------------------------------------------------------------------
(* The process                                                              *)

\* The process dies; nothing more is written.
Kill ==
    /\ up /\ restarts < MaxRestarts
    /\ up' = FALSE /\ restarts' = restarts + 1
    /\ torn' = torn \cup {run[l] : l \in {k \in Loops : pc[k] = "finishing"}}
    /\ NoHandles
    /\ UNCHANGED <<db, faults, lives>>

\* asyncio cancels the tasks that are awaiting: the loops catch CancelledError
\* and finish their runs, in two commits each and as far as the process lets
\* them; a task that never started writes nothing.
Shutdown ==
    /\ GracefulStop /\ Serving /\ restarts < MaxRestarts
    /\ up' = FALSE /\ restarts' = restarts + 1
    /\ \E A, S \in SUBSET Runs :
         /\ A \subseteq S
         /\ \A r \in S : /\ \E l \in Loops : run[l] = r /\ pc[l] \in Busy
                         /\ Finishes(status[r], "cancelled")
         /\ status' = [r \in Runs |-> IF r \in S THEN "cancelled" ELSE status[r]]
         /\ totals' = [r \in Runs |-> IF r \in A THEN Aggregate(rows[r]) ELSE totals[r]]
         /\ torn' = (torn \ A) \cup (S \ A)
    /\ NoHandles
    /\ UNCHANGED <<rows, faults, lives>>

InterruptsPausedOnly == {"paused"}               \* mutant: running runs overlooked

\* the runs mark_interrupted_runs selects
Interrupts == {"running", "paused"}

\* lifespan: mark_interrupted_runs before the first request is served.
Recover ==
    LET S == {r \in Runs : status[r] \in Interrupts} IN
    /\ ~up /\ up' = TRUE
    /\ status' = [r \in Runs |-> IF r \in S THEN "interrupted" ELSE status[r]]
    /\ rows' = [r \in Runs |-> IF r \in S THEN CancelOpenRows(rows[r]) ELSE rows[r]]
    /\ UNCHANGED <<totals, handles, bounds, torn>>

-----------------------------------------------------------------------------

Requests(r) ==
    \/ StartRun(r)
    \/ PauseRun(r)
    \/ ResumeRun(r)
    \/ CancelRun(r)
    \/ \E i, j \in RowIds : RetryCase(r, i, j)
    \/ DeleteTask(r)

LoopStep(l) ==
    \/ LoopBegin(l)
    \/ LoopRefused(l)
    \/ Dispatch(l)
    \/ ExecDone(l)
    \/ JudgeDone(l)
    \/ SweepRows(l)
    \/ EndCancelled(l)
    \/ EndPaused(l)
    \/ EndCompleted(l)
    \/ FinishTotals(l)

LoopFault(l) == LoopError(l) \/ FinishError(l)

Next ==
    \/ \E r \in Runs : Requests(r)
    \/ \E l \in Loops : LoopStep(l) \/ LoopFault(l)
    \/ Kill
    \/ Shutdown
    \/ Recover

Spec == Init /\ [][Next]_vars

\* The event loop schedules every ready task, first come first served, so that a
\* loop is not starved by another one that is between two cases ever again;
\* agent runs and evaluator calls end because model calls, built-in tools, waits
\* and rounds are bounded (AgentRun!RunEndsOrHangsInMcp: MCP servers have to
\* answer, the code sets them no limit); a stopped process is started again.
\* Users promise nothing.
FairSpec == Spec /\ (\A l \in Loops : SF_vars(LoopStep(l))) /\ WF_vars(Recover)

-----------------------------------------------------------------------------
(* Safety                                                                   *)

\* FR-027: a run is never executed by two loops.  Every live loop is the one
\* its run's registry entry names, so the active-check of start and resume
\* sees it, and its finally-clause pops its own entry.
OneLoopPerRun ==
    \A l \in Loops : pc[l] \in Live => run[l] \in Runs /\ control[run[l]] = l

\* No process was stopped and no framework exception happened so far.
Undisturbed == restarts = 0 /\ faults = 0

\* FR-027: no case row is executed twice at the same time, and a row shown as
\* running is being executed: it is the current row of a live loop.  (Until the
\* first stop or framework exception: both may leave the row running.  And not
\* for a key used again: its row may be the one an old loop still works on.)
RunningRowHasWorker ==
    up /\ Undisturbed => \A r \in Runs : \A i \in RowIds :
            FirstLife(r) /\ rows[r][i].st = "running" =>
              \E l \in Loops : pc[l] \in Busy /\ run[l] = r /\ cur[l] = i

\* No attempt was added to the rows a run was created with.
RetryFree == \A r \in Runs : \A i \in RowIds : i > NumCases => rows[r][i].st = "none"

RunningIsExecuted == \A r \in Runs : status[r] = "running" => Active(r)

\* FR-026: no run stays "running" forever because nothing executes it, however
\* pauses, resumptions, cancels, deletions, exceptions and restarts fall, as
\* long as no case was retried (what a retry does is RunningNeverStuck).
RunningRunHasLoop == up /\ RetryFree => RunningIsExecuted

\* The same with retries: while the process serves requests, a run shown as
\* running has a live loop (api/evaluation.py starts one behind every retry).
RunningNeverStuck == up => RunningIsExecuted

\* FR-020: the counters stored on a run that has completed or failed are those
\* of its rows, however pauses, retries, restarts and resumptions were
\* interleaved; except while a loop is between the two commits of finish_run,
\* and for good where that finish was cut there.
TotalsCurrent ==
    \A r \in Runs : status[r] \in {"completed", "failed"} =>
        \/ totals[r] = Aggregate(rows[r])
        \/ \E l \in Loops : pc[l] = "finishing" /\ run[l] = r
        \/ r \in torn

\* The step adds a row to the run and shows it as running: a retry.
Reopens(r) ==
    /\ status'[r] = "running"
    /\ \E i \in RowIds : rows[r][i].st = "none" /\ rows'[r][i].st = "pending"

\* FR-023: the status of a run moves along RUN_STATUS_TRANSITIONS only, except
\* in the step in which a retry reopens it; a new run starts as pending.
LegalRunTransitions ==
    [][\A r \in Runs :
         \/ status'[r] \in {status[r], "absent"}
         \/ status[r] = "absent" /\ status'[r] = "pending"
         \/ status[r] # "absent" /\ RunStatusCan(status[r], status'[r])
         \/ status[r] # "absent" /\ Reopens(r)]_vars

\* The engine implements the promise of EvaluationLedger: in particular a case
\* starts only in a run that is running or paused, a run completes only when
\* every case has been started, and a retry never touches the row it repeats.
ImplementsLedger == Ledger!Spec

-----------------------------------------------------------------------------
(* Liveness                                                                 *)

\* FR-026: a run does not stay running for ever, unless a retry stuck it.
RunningEnds == \A r \in Runs : status[r] = "running" ~> status[r] # "running" \/ ~RetryFree

\* A cancel that finds a case in execution settles every row of the run, unless
\* the process stops or an exception ends the loop.
CancelDrains ==
    \A r \in Runs :
      (status[r] = "cancelled" /\ \E l \in Loops : run[l] = r /\ pc[l] \in Busy) ~>
         \/ status[r] = "absent" \/ ~Undisturbed \/ ~FirstLife(r)
         \/ ~Active(r) /\ \A i \in RowIds : rows[r][i].st \notin OpenRow

=============================================================================
