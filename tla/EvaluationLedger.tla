-------------------------- MODULE EvaluationLedger --------------------------
(***************************************************************************)
(* What the evaluation subsystem promises about the two tables it keeps:   *)
(* one status per evaluation run and one status per case run (row).  The   *)
(* module says nothing about loops, control handles or events; the         *)
(* execution engine of module Evaluation is shown to implement it.         *)
(*                                                                         *)
(* Sources of the promise: RUN_STATUS_TRANSITIONS (schemas/evaluation.py), *)
(* the case-run life cycle of data-model.md 4.3, and the retry endpoint's  *)
(* contract, which reopens a run whatever its status is.                   *)
(***************************************************************************)
EXTENDS Naturals

CONSTANTS Runs,      \* primary keys of evaluation_runs
          MaxRows    \* case-run rows a run can have (1 .. MaxRows)

VARIABLES status,    \* [Runs -> run status]
          rows       \* [Runs -> [RowIds -> row]], row = [st, case, attempt]

ledger == <<status, rows>>

RowIds == 1 .. MaxRows

OpenRow     == {"pending", "running"}
SettledRow  == {"passed", "failed", "execution_failed", "judge_failed", "cancelled"}

\* schemas/evaluation.py:38; "absent" stands for "no such row in the table".
Transitions ==
    [absent      |-> {},
     pending     |-> {"running", "cancelled"},
     running     |-> {"paused", "completed", "cancelled", "failed", "interrupted"},
     paused      |-> {"running", "cancelled", "interrupted"},
     completed   |-> {},
     cancelled   |-> {},
     failed      |-> {},
     interrupted |-> {"running"}]

\* run_status_can
RunStatusCan(from, to) == to \in Transitions[from]

RunStatus == DOMAIN Transitions

NoRow == [st |-> "none", case |-> 0, attempt |-> 0]

CancelOpen(rs) ==
    [i \in RowIds |-> IF rs[i].st \in OpenRow THEN [rs[i] EXCEPT !.st = "cancelled"] ELSE rs[i]]

-----------------------------------------------------------------------------

Init ==
    /\ status = [r \in Runs |-> "absent"]
    /\ rows = [r \in Runs |-> [i \in RowIds |-> NoRow]]

\* A run is created pending, with fresh first-attempt rows, all pending.
CreateRun(r) ==
    /\ status[r] = "absent"
    /\ status' = [status EXCEPT ![r] = "pending"]
    /\ \E n \in RowIds :
         rows' = [rows EXCEPT ![r] = [i \in RowIds |->
                    IF i <= n THEN [st |-> "pending", case |-> i, attempt |-> 1] ELSE NoRow]]

\* The status moves along the table; a run that completes has left no
\* first-attempt row unstarted.
MoveRun(r, to) ==
    /\ RunStatusCan(status[r], to)
    /\ to # "interrupted"
    /\ to = "completed" =>
         \A i \in RowIds : rows[r][i].attempt = 1 => rows[r][i].st # "pending"
    /\ status' = [status EXCEPT ![r] = to]
    /\ UNCHANGED rows

\* A cancel sweeps the rows of a run; a retry or a pause may have followed it,
\* but no run that completed, failed, was interrupted or is yet to start is swept.
SweepCancelled(r) ==
    /\ status[r] \in {"running", "paused", "cancelled"}
    /\ rows' = [rows EXCEPT ![r] = CancelOpen(rows[r])]
    /\ UNCHANGED status

\* A row starts only in a run that is executing: a cancelled, completed,
\* failed or interrupted run starts nothing.
StartRow(r, i) ==
    /\ status[r] \in {"running", "paused"}
    /\ rows[r][i].st = "pending"
    /\ rows' = [rows EXCEPT ![r][i].st = "running"]
    /\ UNCHANGED status

\* A result is recorded once, on a row that was being executed.
SettleRow(r, i) ==
    /\ rows[r][i].st = "running"
    /\ \E s \in SettledRow : rows' = [rows EXCEPT ![r][i].st = s]
    /\ UNCHANGED status

\* A retry appends the next attempt of the same case and reopens the run; the
\* row it repeats is left alone.
RetryRow(r, i, j) ==
    /\ rows[r][i].st \in SettledRow \ {"passed"}
    /\ rows[r][j].st = "none"
    /\ rows' = [rows EXCEPT ![r][j] =
                 [st |-> "pending", case |-> rows[r][i].case, attempt |-> rows[r][i].attempt + 1]]
    /\ status' = [status EXCEPT ![r] = "running"]

DeleteRun(r) ==
    /\ status[r] # "absent"
    /\ status' = [status EXCEPT ![r] = "absent"]
    /\ rows' = [rows EXCEPT ![r] = [i \in RowIds |-> NoRow]]

\* Start-up recovery interrupts a set of runs at once and cancels their open rows.
RecoverRuns ==
    \E S \in SUBSET Runs :
       /\ \A r \in S : RunStatusCan(status[r], "interrupted")
       /\ status' = [r \in Runs |-> IF r \in S THEN "interrupted" ELSE status[r]]
       /\ rows' = [r \in Runs |-> IF r \in S THEN CancelOpen(rows[r]) ELSE rows[r]]

\* An orderly stop of the process cancels the runs it was executing.
ShutdownRuns ==
    \E S \in SUBSET Runs :
       /\ \A r \in S : RunStatusCan(status[r], "cancelled")
       /\ status' = [r \in Runs |-> IF r \in S THEN "cancelled" ELSE status[r]]
       /\ UNCHANGED rows

Next ==
    \/ \E r \in Runs :
         \/ CreateRun(r)
         \/ \E to \in RunStatus : MoveRun(r, to)
         \/ SweepCancelled(r)
         \/ \E i \in RowIds : StartRow(r, i) \/ SettleRow(r, i)
         \/ \E i, j \in RowIds : RetryRow(r, i, j)
         \/ DeleteRun(r)
    \/ RecoverRuns
    \/ ShutdownRuns

Spec == Init /\ [][Next]_ledger

=============================================================================
