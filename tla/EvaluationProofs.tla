-------------------------- MODULE EvaluationProofs --------------------------
(***************************************************************************)
(* Proofs about the evaluation engine, for any number of runs, loops,      *)
(* cases, retries, restarts and faults.                                    *)
(*                                                                         *)
(* OneLoopPerRun and TotalsCurrent are not inductive.  The strengthening   *)
(* says that a task that has not been forgotten is the one the registry    *)
(* names for its run (a task that is done included: Spawn must be able to  *)
(* conclude that the entry it overwrites belonged to nobody else), and     *)
(* that a run being executed is not finished (so nothing rewrites the rows *)
(* a finished run was counted from).                                       *)
(***************************************************************************)
EXTENDS Evaluation, FiniteSetTheorems, TLAPS

Registered ==
    \A l \in Loops : pc[l] # "idle" => run[l] \in Runs /\ control[run[l]] = l

Executing == {"between", "swept", "executing", "judging"}

Targets == {"completed", "cancelled", "failed"}
Counts  == {"completed", "failed"}

ExecutingNotFinished ==
    \A l \in Loops : pc[l] \in Executing => status[run[l]] \notin Counts

TypeInv == TypeOK /\ Registered

-----------------------------------------------------------------------------
(* Operators                                                                *)

\* A finite set of row ids has a natural number of elements.
LEMMA RowCount ==
    ASSUME NEW S, S \subseteq RowIds PROVE Cardinality(S) \in Nat
<1>1. IsFiniteSet(RowIds)
  BY EvaluationAssumption, FS_Interval DEF RowIds
<1> QED BY <1>1, FS_Subset, FS_CardinalityType

\* aggregate_run stores natural numbers.
LEMMA AggregateType ==
    ASSUME NEW rs PROVE Aggregate(rs) \in Totals
<1>1. \A s : CountOf(rs, s) \in Nat
  <2> TAKE s
  <2>1. {i \in EffectiveRows(rs) : rs[i].st = s} \subseteq RowIds BY DEF EffectiveRows
  <2> QED BY <2>1, RowCount DEF CountOf
<1>2. Cardinality({i \in RowIds : rs[i].st = "cancelled"}) \in Nat
  BY RowCount
<1> QED BY <1>1, <1>2 DEF Aggregate, Totals

\* A row whose status alone is changed is a row.
LEMMA RowWithStatus ==
    ASSUME NEW row \in Row, NEW s \in OpenRow \cup SettledRow
    PROVE  [row EXCEPT !.st = s] \in Row
BY DEF Row

\* A row table in which one row's status is changed is a row table.
LEMMA RowsWithStatus ==
    ASSUME NEW T \in [Runs -> [RowIds -> Row]], NEW r \in Runs, NEW i \in RowIds,
           NEW s \in OpenRow \cup SettledRow
    PROVE  [T EXCEPT ![r][i].st = s] \in [Runs -> [RowIds -> Row]]
<1>1. [T[r][i] EXCEPT !.st = s] \in Row BY RowWithStatus
<1>2. [T[r] EXCEPT ![i].st = s] \in [RowIds -> Row] BY <1>1
<1> QED BY <1>2

\* Cancelling the open rows keeps the type of a row table.
LEMMA CancelOpenType ==
    ASSUME NEW rs \in [RowIds -> Row] PROVE CancelOpenRows(rs) \in [RowIds -> Row]
<1>1. CancelOpenRows(rs) = [i \in RowIds |->
          IF rs[i].st \in OpenRow THEN [rs[i] EXCEPT !.st = "cancelled"] ELSE rs[i]]
  BY DEF CancelOpenRows, Ledger!CancelOpen, Ledger!RowIds, RowIds, OpenRow, Ledger!OpenRow
<1>2. ASSUME NEW i \in RowIds PROVE CancelOpenRows(rs)[i] \in Row
  <2>1. rs[i] \in Row OBVIOUS
  <2>2. [rs[i] EXCEPT !.st = "cancelled"] \in Row
    BY <2>1 DEF Row, OpenRow, SettledRow, Ledger!OpenRow, Ledger!SettledRow
  <2> QED BY <1>1, <2>1, <2>2
<1> QED BY <1>1, <1>2

\* The status finish_run leaves is a status; it is one of the three targets if
\* finish_run gets as far as aggregate_run, and the old one otherwise.
LEMMA FinishType ==
    ASSUME NEW from \in RunStatus, NEW target \in Targets
    PROVE  /\ FinishStatus(from, target) \in RunStatus
           /\ FinishAggregates(from, target) => FinishStatus(from, target) \in Targets
           /\ ~FinishAggregates(from, target) => FinishStatus(from, target) = from
           /\ ~FinishAggregates(from, target) => from # "running"
BY DEF FinishStatus, FinishAggregates, Finishes, RunStatus, RunStatusCan, Targets,
       Ledger!RunStatusCan, Ledger!RunStatus, Ledger!Transitions

-----------------------------------------------------------------------------
(* Control handles: each operation on them keeps their type and the         *)
(* registration invariant.                                                  *)

LEMMA SpawnHandles ==
    ASSUME HandleTypeOK, Registered, NEW r \in Runs, NEW l \in Loops, ~Active(r), Spawn(r, l)
    PROVE  HandleTypeOK' /\ Registered'
<1>1. control' \in [Runs -> Loops \cup {NoLoop}] /\ run' \in [Loops -> Runs \cup {NoRun}]
  BY DEF HandleTypeOK, Spawn
<1>2. pc' \in [Loops -> Live \cup {"idle", "done"}]
  BY DEF HandleTypeOK, Spawn, Live
<1>3. \A k \in Loops : cur'[k] # 0 <=> pc'[k] \in Busy
  BY DEF HandleTypeOK, Spawn, Live, Busy
<1>4. HandleTypeOK'
  BY <1>1, <1>2, <1>3 DEF HandleTypeOK, Spawn
<1>5. ASSUME NEW k \in Loops, pc'[k] # "idle"
      PROVE  run'[k] \in Runs /\ control'[run'[k]] = k
  <2>1. CASE k = l
    BY <2>1 DEF Spawn, HandleTypeOK
  <2>2. CASE k # l
    <3>1. pc[k] # "idle" BY <1>5, <2>2 DEF Spawn
    <3>2. run[k] \in Runs /\ control[run[k]] = k BY <3>1 DEF Registered
    <3>3. run[k] # r
      BY <1>5, <2>2, <3>1, <3>2, EvaluationAssumption DEF Spawn, Active, HandleTypeOK, Live
    <3> QED BY <2>2, <3>2, <3>3 DEF Spawn, HandleTypeOK
  <2> QED BY <2>1, <2>2
<1> QED BY <1>4, <1>5 DEF Registered

LEMMA StartHandles ==
    ASSUME HandleTypeOK, Registered, NEW r \in Runs, StartUnlessActive(r)
    PROVE  HandleTypeOK' /\ Registered'
<1>1. CASE UNCHANGED handles
  BY <1>1 DEF handles, HandleTypeOK, Registered
<1>2. CASE ~Active(r) /\ \E l \in Loops : Spawn(r, l)
  BY <1>2, SpawnHandles
<1> QED BY <1>1, <1>2 DEF StartUnlessActive

LEMMA PopHandles ==
    ASSUME HandleTypeOK, Registered, NEW l \in Loops, pc[l] # "idle", Pop(l),
           cur' = [cur EXCEPT ![l] = 0]
    PROVE  HandleTypeOK' /\ Registered'
<1>1. run[l] \in Runs /\ control[run[l]] = l BY DEF Registered
<1>2. \A k \in Loops : cur'[k] # 0 <=> pc'[k] \in Busy
  BY DEF HandleTypeOK, Pop, Busy
<1>3. HandleTypeOK'
  <2>1. control' \in [Runs -> Loops \cup {NoLoop}] /\ run' \in [Loops -> Runs \cup {NoRun}]
    BY DEF HandleTypeOK, Pop
  <2>2. pc' \in [Loops -> Live \cup {"idle", "done"}] /\ queue' \in [Loops -> SUBSET RowIds]
    BY DEF HandleTypeOK, Pop
  <2>3. cur' \in [Loops -> RowIds \cup {0}] BY DEF HandleTypeOK
  <2>4. pauseEvent' \in [Loops -> BOOLEAN] /\ cancelEvent' \in [Loops -> BOOLEAN]
    BY DEF HandleTypeOK, Pop
  <2> QED BY <1>2, <2>1, <2>2, <2>3, <2>4 DEF HandleTypeOK
<1>4. ASSUME NEW k \in Loops, pc'[k] # "idle"
      PROVE  run'[k] \in Runs /\ control'[run'[k]] = k
  <2>1. k # l /\ pc[k] # "idle" BY <1>4 DEF Pop, HandleTypeOK
  <2>2. run[k] \in Runs /\ control[run[k]] = k BY <2>1 DEF Registered
  <2> QED BY <1>1, <2>1, <2>2 DEF Pop, HandleTypeOK
<1> QED BY <1>3, <1>4 DEF Registered

LEMMA NoHandlesLeft ==
    ASSUME NoHandles PROVE HandleTypeOK' /\ Registered'
BY DEF NoHandles, HandleTypeOK, Registered, Busy

\* A loop that only moves on keeps its registration.
LEMMA MoveOn ==
    ASSUME Registered, NEW l \in Loops, pc[l] # "idle", HandleTypeOK,
           NEW where, pc' = [pc EXCEPT ![l] = where], UNCHANGED <<control, run>>
    PROVE  Registered'
BY DEF Registered, HandleTypeOK

\* Settling a row keeps every type and ends the work on the row.
LEMMA SettleType ==
    ASSUME TypeInv, NEW l \in Loops, pc[l] \in Busy,
           NEW s \in SettledRow, Settle(l, s)
    PROVE  StoredTypeOK' /\ HandleTypeOK' /\ Registered'
<1>1. run[l] \in Runs /\ cur[l] \in RowIds
  BY DEF TypeInv, TypeOK, HandleTypeOK, Registered, Busy
<1>2. StoredTypeOK'
  <2>2. [rows EXCEPT ![run[l]][cur[l]].st = s] \in [Runs -> [RowIds -> Row]]
    BY <1>1, RowsWithStatus DEF TypeInv, TypeOK, StoredTypeOK
  <2> QED BY <2>2 DEF Settle, TypeInv, TypeOK, StoredTypeOK
<1>3. HandleTypeOK'
  BY DEF Settle, TypeInv, TypeOK, HandleTypeOK, Busy, Live, Sync
<1>4. Registered'
  BY MoveOn DEF Settle, TypeInv, TypeOK, Busy
<1> QED BY <1>2, <1>3, <1>4

-----------------------------------------------------------------------------
(* finish_run and the requests                                              *)

\* finish_run up to its first commit keeps the types and the registration.
LEMMA BeginFinishType ==
    ASSUME TypeInv, NEW l \in Loops, pc[l] # "idle", NEW target \in Targets,
           BeginFinish(l, target), cur' = [cur EXCEPT ![l] = 0]
    PROVE  /\ StoredTypeOK' /\ HandleTypeOK' /\ Registered'
           /\ up' \in BOOLEAN /\ restarts' \in Nat /\ lives' \in [Runs -> Nat] /\ torn' \subseteq Runs
<1> USE DEF TypeInv, TypeOK
<1>1. StoredTypeOK'
  <2>1. run[l] \in Runs /\ status[run[l]] \in RunStatus BY DEF Registered, StoredTypeOK
  <2>2. FinishStatus(status[run[l]], target) \in RunStatus BY <2>1, FinishType
  <2>3. status' \in [Runs -> RunStatus] BY <2>1, <2>2 DEF BeginFinish, StoredTypeOK
  <2> QED BY <2>3 DEF BeginFinish, StoredTypeOK
<1>2. HandleTypeOK' /\ Registered'
  <2>1. CASE Pop(l) BY <2>1, PopHandles
  <2>2. CASE /\ pc' = [pc EXCEPT ![l] = "finishing"]
             /\ UNCHANGED <<control, run, queue, pauseEvent, cancelEvent>>
    <3>1. Registered' BY <2>2, MoveOn
    <3>2. HandleTypeOK' BY <2>2 DEF HandleTypeOK, Busy, Live, Sync
    <3> QED BY <3>1, <3>2
  <2> QED BY <2>1, <2>2 DEF BeginFinish
<1>3. up' \in BOOLEAN /\ restarts' \in Nat /\ lives' \in [Runs -> Nat] /\ torn' \subseteq Runs
  BY DEF BeginFinish
<1> QED BY <1>1, <1>2, <1>3

\* The statuses the actions assign are statuses.
LEMMA StatusNames ==
    {"absent", "pending", "running", "paused", "completed", "cancelled", "failed", "interrupted"}
      = RunStatus
BY DEF RunStatus, Ledger!RunStatus, Ledger!Transitions

LEMMA RequestType ==
    ASSUME TypeInv, NEW r \in Runs, Requests(r)
    PROVE  TypeInv'
<1> USE DEF TypeInv, TypeOK
<1>1. CASE StartRun(r)
  <2>1. HandleTypeOK' /\ Registered' BY <1>1, StartHandles DEF StartRun
  <2>2. FreshRows \in [RowIds -> Row]
    <3>1. \A i \in RowIds : i \in Nat /\ i > 0
      BY EvaluationAssumption DEF RowIds
    <3>2. ASSUME NEW i \in RowIds, i <= NumCases
          PROVE  [st |-> "pending", case |-> i, attempt |-> 1] \in Row
      BY <3>1, <3>2, EvaluationAssumption DEF Row, OpenRow, Ledger!OpenRow
    <3>3. NoRow \in Row
      BY EvaluationAssumption DEF Row, NoRow
    <3> QED BY <3>2, <3>3 DEF FreshRows
  <2>3. NoTotals \in Totals BY DEF NoTotals, Totals
  <2>4. StoredTypeOK'
    BY <1>1, <2>2, <2>3, StatusNames DEF StartRun, StoredTypeOK
  <2>5. lives' \in [Runs -> Nat] BY <1>1 DEF StartRun
  <2> QED BY <1>1, <2>1, <2>4, <2>5 DEF StartRun
<1>2. CASE PauseRun(r)
  <2>1. StoredTypeOK' BY <1>2, StatusNames DEF PauseRun, StoredTypeOK
  <2>2. HandleTypeOK' /\ Registered' BY <1>2 DEF PauseRun, HandleTypeOK, Registered
  <2> QED BY <1>2, <2>1, <2>2 DEF PauseRun, bounds
<1>3. CASE ResumeRun(r)
  <2>1. StoredTypeOK' BY <1>3 DEF ResumeRun, db, StoredTypeOK
  <2>2. CASE Active(r)
    <3>1. HandleTypeOK' /\ Registered' BY <1>3, <2>2 DEF ResumeRun, HandleTypeOK, Registered
    <3> QED BY <1>3, <2>1, <3>1 DEF ResumeRun, bounds
  <2>3. CASE ~Active(r)
    <3>1. HandleTypeOK' /\ Registered' BY <1>3, <2>3, SpawnHandles DEF ResumeRun
    <3> QED BY <1>3, <2>1, <3>1 DEF ResumeRun, bounds
  <2> QED BY <2>2, <2>3
<1>4. CASE CancelRun(r)
  <2>1. StoredTypeOK' BY <1>4, StatusNames DEF CancelRun, StoredTypeOK
  <2>2. cancelEvent' \in [Loops -> BOOLEAN] BY <1>4 DEF CancelRun
  <2>3. HandleTypeOK' /\ Registered' BY <1>4, <2>2 DEF CancelRun, HandleTypeOK, Registered
  <2> QED BY <1>4, <2>1, <2>3 DEF CancelRun, bounds
<1>5. ASSUME NEW i \in RowIds, NEW j \in RowIds, RetryCase(r, i, j) PROVE TypeInv'
  <2>1. HandleTypeOK' /\ Registered' BY <1>5, StartHandles DEF RetryCase
  <2>2. rows[r] \in [RowIds -> Row] /\ rows[r][i] \in Row BY DEF StoredTypeOK
  <2>3. [st |-> "pending", case |-> rows[r][i].case, attempt |-> rows[r][i].attempt + 1] \in Row
    BY <2>2 DEF Row, OpenRow, Ledger!OpenRow
  <2>4. rows' \in [Runs -> [RowIds -> Row]]
    BY <1>5, <2>2, <2>3 DEF RetryCase, StoredTypeOK
  <2>5. StoredTypeOK' BY <1>5, <2>4, StatusNames DEF RetryCase, StoredTypeOK
  <2> QED BY <1>5, <2>1, <2>5 DEF RetryCase, bounds
<1>6. CASE DeleteTask(r)
  <2>1. NoTotals \in Totals BY DEF NoTotals, Totals
  <2>2. NoRow \in Row BY EvaluationAssumption DEF Row, NoRow
  <2>3. StoredTypeOK' BY <1>6, <2>1, <2>2, StatusNames DEF DeleteTask, StoredTypeOK
  <2>4. HandleTypeOK' /\ Registered' BY <1>6 DEF DeleteTask, handles, HandleTypeOK, Registered
  <2> QED BY <1>6, <2>3, <2>4 DEF DeleteTask, bounds
<1> QED BY <1>1, <1>2, <1>3, <1>4, <1>5, <1>6 DEF Requests

-----------------------------------------------------------------------------
(* The steps of a loop                                                      *)

LEMMA LoopType ==
    ASSUME TypeInv, NEW l \in Loops, LoopStep(l) \/ LoopFault(l)
    PROVE  TypeInv'
<1> USE DEF TypeInv, TypeOK
<1>1. pc[l] # "idle"
  BY DEF LoopStep, LoopFault, LoopError, FinishError, LoopBegin, LoopRefused, Dispatch, ExecDone,
         JudgeDone, SweepRows, EndCancelled, EndPaused, EndCompleted, FinishTotals, Busy
<1>2. run[l] \in Runs /\ control[run[l]] = l BY <1>1 DEF Registered
<1>3. CASE LoopBegin(l)
  <2>1. StoredTypeOK' BY <1>3, StatusNames DEF LoopBegin, StoredTypeOK
  <2>2. HandleTypeOK'
    BY <1>3 DEF LoopBegin, HandleTypeOK, Live, Sync, Busy, PendingRows
  <2>3. Registered' BY <1>1, <1>3, MoveOn DEF LoopBegin
  <2> QED BY <1>3, <2>1, <2>2, <2>3 DEF LoopBegin, bounds
<1>4. CASE LoopRefused(l)
  <2>1. StoredTypeOK' BY <1>4 DEF LoopRefused, db, StoredTypeOK
  <2>2. HandleTypeOK' BY <1>4 DEF LoopRefused, HandleTypeOK, Busy
  <2>3. Registered' BY <1>1, <1>4, MoveOn DEF LoopRefused
  <2> QED BY <1>4, <2>1, <2>2, <2>3 DEF LoopRefused, bounds
<1>5. CASE Dispatch(l)
  <2>1. PICK i \in RowIds :
          /\ queue' = [queue EXCEPT ![l] = @ \ {i}]
          /\ \/ UNCHANGED <<rows, pc, cur>>
             \/ /\ rows' = [rows EXCEPT ![run[l]][i].st = "running"]
                /\ pc' = [pc EXCEPT ![l] = "executing"]
                /\ cur' = [cur EXCEPT ![l] = i]
    BY <1>5 DEF Dispatch
  <2>2. queue' \in [Loops -> SUBSET RowIds] BY <2>1 DEF HandleTypeOK
  <2>3. pc[l] = "between" /\ up' = up BY <1>5 DEF Dispatch
  <2>4. CASE UNCHANGED <<rows, pc, cur>>
    <3>1. StoredTypeOK' BY <1>5, <2>4 DEF Dispatch, StoredTypeOK
    <3>2. HandleTypeOK' /\ Registered'
      BY <1>5, <2>2, <2>4 DEF Dispatch, HandleTypeOK, Registered
    <3> QED BY <1>5, <3>1, <3>2 DEF Dispatch, bounds
  <2>5. CASE /\ rows' = [rows EXCEPT ![run[l]][i].st = "running"]
             /\ pc' = [pc EXCEPT ![l] = "executing"]
             /\ cur' = [cur EXCEPT ![l] = i]
    <3>1. "running" \in OpenRow \cup SettledRow BY DEF OpenRow, Ledger!OpenRow
    <3>2. StoredTypeOK'
      BY <1>2, <1>5, <2>5, <3>1, RowsWithStatus DEF Dispatch, StoredTypeOK
    <3>3. 0 \notin RowIds BY EvaluationAssumption DEF RowIds
    <3>4. \A k \in Loops : cur'[k] # 0 <=> pc'[k] \in Busy
      BY <2>5, <3>3 DEF HandleTypeOK, Busy
    <3>5. HandleTypeOK' BY <1>5, <2>2, <2>5, <3>4 DEF Dispatch, HandleTypeOK, Live
    <3>6. Registered' BY <1>1, <1>5, <2>5, MoveOn DEF Dispatch
    <3> QED BY <1>5, <3>2, <3>5, <3>6 DEF Dispatch, bounds
  <2> QED BY <2>1, <2>4, <2>5
<1>6. ASSUME NEW s \in SettledRow, pc[l] \in Busy, Settle(l, s) PROVE TypeInv'
  <2>1. StoredTypeOK' /\ HandleTypeOK' /\ Registered' BY <1>6, SettleType
  <2> QED BY <1>6, <2>1 DEF Settle, bounds
<1>7. CASE ExecDone(l)
  <2>1. pc[l] = "executing" BY <1>7 DEF ExecDone
  <2>2. CASE Settle(l, "execution_failed") \/ Settle(l, "cancelled")
    BY <1>6, <2>1, <2>2 DEF SettledRow, Ledger!SettledRow, Busy
  <2>3. CASE /\ pc' = [pc EXCEPT ![l] = "judging"]
             /\ UNCHANGED <<db, control, run, cur, queue, pauseEvent, cancelEvent, up, bounds, torn>>
    <3>1. StoredTypeOK' BY <2>3 DEF db, StoredTypeOK
    <3>2. HandleTypeOK' BY <2>1, <2>3 DEF HandleTypeOK, Busy, Live
    <3>3. Registered' BY <1>1, <2>3, MoveOn
    <3> QED BY <2>3, <3>1, <3>2, <3>3 DEF bounds
  <2> QED BY <1>7, <2>2, <2>3 DEF ExecDone
<1>8. CASE JudgeDone(l)
  BY <1>6, <1>8 DEF JudgeDone, SettledRow, Ledger!SettledRow, Busy
<1>9. CASE SweepRows(l)
  <2>1. rows[run[l]] \in [RowIds -> Row] BY <1>2 DEF StoredTypeOK
  <2>2. CancelOpenRows(rows[run[l]]) \in [RowIds -> Row] BY <2>1, CancelOpenType
  <2>3. StoredTypeOK' BY <1>9, <2>2 DEF SweepRows, StoredTypeOK
  <2>4. HandleTypeOK' BY <1>9 DEF SweepRows, HandleTypeOK, Busy, Live, Sync
  <2>5. Registered' BY <1>1, <1>9, MoveOn DEF SweepRows
  <2> QED BY <1>9, <2>3, <2>4, <2>5 DEF SweepRows, bounds
<1>10. CASE EndPaused(l)
  <2>1. StoredTypeOK' BY <1>10, StatusNames DEF EndPaused, StoredTypeOK
  <2>2. cur' = [cur EXCEPT ![l] = 0]
    BY <1>10 DEF EndPaused, HandleTypeOK, Busy
  <2>3. HandleTypeOK' /\ Registered' BY <1>1, <1>10, <2>2, PopHandles DEF EndPaused
  <2> QED BY <1>10, <2>1, <2>3 DEF EndPaused, bounds
<1>11. CASE EndCancelled(l) \/ EndCompleted(l)
  <2>1. PICK target \in Targets : BeginFinish(l, target)
    BY <1>11 DEF EndCancelled, EndCompleted, Targets
  <2>2. cur' = [cur EXCEPT ![l] = 0] /\ faults' = faults
    BY <1>11 DEF EndCancelled, EndCompleted, HandleTypeOK, Busy
  <2> QED BY <1>1, <2>1, <2>2, BeginFinishType
<1>12. CASE LoopError(l)
  <2>1. BeginFinish(l, "failed") /\ "failed" \in Targets BY <1>12 DEF LoopError, Targets
  <2>2. cur' = [cur EXCEPT ![l] = 0] /\ faults' \in Nat BY <1>12 DEF LoopError
  <2> QED BY <1>1, <2>1, <2>2, BeginFinishType
<1>13. CASE FinishTotals(l)
  <2>1. Aggregate(rows[run[l]]) \in Totals BY AggregateType
  <2>2. StoredTypeOK' BY <1>2, <1>13, <2>1 DEF FinishTotals, StoredTypeOK
  <2>3. cur' = [cur EXCEPT ![l] = 0]
    BY <1>13 DEF FinishTotals, HandleTypeOK, Busy
  <2>4. HandleTypeOK' /\ Registered' BY <1>1, <1>13, <2>3, PopHandles DEF FinishTotals
  <2> QED BY <1>13, <2>2, <2>4 DEF FinishTotals, bounds
<1>14. CASE FinishError(l)
  <2>1. StoredTypeOK' BY <1>14 DEF FinishError, db, StoredTypeOK
  <2>2. cur' = [cur EXCEPT ![l] = 0]
    BY <1>14 DEF FinishError, HandleTypeOK, Busy
  <2>3. HandleTypeOK' /\ Registered' BY <1>1, <1>14, <2>2, PopHandles DEF FinishError
  <2> QED BY <1>2, <1>14, <2>1, <2>3 DEF FinishError
<1> QED
  BY <1>3, <1>4, <1>5, <1>7, <1>8, <1>9, <1>10, <1>11, <1>12, <1>13, <1>14
  DEF LoopStep, LoopFault

LEMMA ProcessType ==
    ASSUME TypeInv, Kill \/ Shutdown \/ Recover
    PROVE  TypeInv'
<1> USE DEF TypeInv, TypeOK
<1>1. CASE Kill
  <2>1. HandleTypeOK' /\ Registered' BY <1>1, NoHandlesLeft DEF Kill
  <2>2. StoredTypeOK' BY <1>1 DEF Kill, db, StoredTypeOK
  <2>3. up' \in BOOLEAN BY <1>1 DEF Kill
  <2>4. restarts' \in Nat /\ faults' \in Nat /\ lives' \in [Runs -> Nat] BY <1>1 DEF Kill
  <2>5. torn' \subseteq Runs BY <1>1 DEF Kill, Registered
  <2> QED BY <2>1, <2>2, <2>3, <2>4, <2>5
<1>2. CASE Shutdown
  <2>1. HandleTypeOK' /\ Registered' BY <1>2, NoHandlesLeft DEF Shutdown
  <2>2. \A r \in Runs : Aggregate(rows[r]) \in Totals BY AggregateType
  <2>3. StoredTypeOK' BY <1>2, <2>2, StatusNames DEF Shutdown, StoredTypeOK
  <2>4. up' \in BOOLEAN BY <1>2 DEF Shutdown
  <2>5. restarts' \in Nat /\ faults' \in Nat /\ lives' \in [Runs -> Nat] BY <1>2 DEF Shutdown
  <2>6. torn' \subseteq Runs BY <1>2 DEF Shutdown
  <2> QED BY <2>1, <2>3, <2>4, <2>5, <2>6
<1>3. CASE Recover
  <2>1. HandleTypeOK' /\ Registered' BY <1>3 DEF Recover, handles, HandleTypeOK, Registered
  <2>2. \A r \in Runs : CancelOpenRows(rows[r]) \in [RowIds -> Row]
    BY CancelOpenType DEF StoredTypeOK
  <2>3. StoredTypeOK' BY <1>3, <2>2, StatusNames DEF Recover, StoredTypeOK
  <2> QED BY <1>3, <2>1, <2>3 DEF Recover, bounds
<1> QED BY <1>1, <1>2, <1>3

-----------------------------------------------------------------------------

LEMMA InitType == Init => TypeInv
<1> SUFFICES ASSUME Init PROVE TypeInv OBVIOUS
<1>1. NoRow \in Row BY EvaluationAssumption DEF Row, NoRow
<1>2. NoTotals \in Totals BY DEF NoTotals, Totals
<1>3. StoredTypeOK BY <1>1, <1>2, StatusNames DEF Init, StoredTypeOK
<1>4. HandleTypeOK /\ Registered BY DEF Init, HandleTypeOK, Registered, Busy
<1> QED BY <1>3, <1>4 DEF Init, TypeInv, TypeOK

LEMMA NextType == TypeInv /\ [Next]_vars => TypeInv'
<1> SUFFICES ASSUME TypeInv, [Next]_vars PROVE TypeInv' OBVIOUS
<1>1. CASE \E r \in Runs : Requests(r)
  BY <1>1, RequestType
<1>2. CASE \E l \in Loops : LoopStep(l) \/ LoopFault(l)
  BY <1>2, LoopType
<1>3. CASE Kill \/ Shutdown \/ Recover
  BY <1>3, ProcessType
<1>4. CASE UNCHANGED vars
  BY <1>4 DEF vars, db, handles, bounds, TypeInv, TypeOK, StoredTypeOK, HandleTypeOK, Registered
<1> QED BY <1>1, <1>2, <1>3, <1>4 DEF Next

\* The engine's tables, registry entries and loops always have their types; in
\* particular a loop has a current case exactly while it executes or judges one.
THEOREM TypeCorrect == Spec => []TypeOK
<1>1. TypeInv => TypeOK BY DEF TypeInv
<1> QED BY InitType, NextType, <1>1, PTL DEF Spec

\* FR-027: whatever requests, retries, deletions and restarts do, a live loop is
\* the one RUN_CONTROLS names for its run, so no run is executed by two loops.
THEOREM OneLoop == Spec => []OneLoopPerRun
<1>1. TypeInv => OneLoopPerRun BY DEF TypeInv, Registered, OneLoopPerRun, Live, Sync
<1> QED BY InitType, NextType, <1>1, PTL DEF Spec

-----------------------------------------------------------------------------
(* The counters of a finished run                                           *)

FinishingOf(r) == \E l \in Loops : pc[l] = "finishing" /\ run[l] = r

CountsRight(r) == status[r] \in Counts => totals[r] = Aggregate(rows[r]) \/ FinishingOf(r) \/ r \in torn

Counted == ExecutingNotFinished /\ \A r \in Runs : CountsRight(r)

\* A step finishes no run: a finished one has kept its tables, its finishing loop
\* and its mark.
KeepsFinished ==
    /\ \A r \in Runs : status'[r] \in Counts =>
          /\ status[r] = status'[r] /\ rows'[r] = rows[r] /\ totals'[r] = totals[r]
          /\ r \in torn => r \in torn'
    /\ \A l \in Loops : pc[l] = "finishing" => pc'[l] = "finishing" /\ run'[l] = run[l]

\* A step sets no loop to work.
SetsNoneToWork ==
    \A l \in Loops : pc'[l] \in Executing =>
        pc[l] \in Executing /\ run[l] \in Runs /\ run'[l] = run[l]

LEMMA QuietStep ==
    ASSUME Counted, KeepsFinished, SetsNoneToWork
    PROVE  Counted'
<1>1. ASSUME NEW r \in Runs PROVE CountsRight(r)'
  <2> SUFFICES ASSUME status'[r] \in Counts
               PROVE  totals'[r] = Aggregate(rows'[r]) \/ FinishingOf(r)' \/ r \in torn'
    BY DEF CountsRight, Aggregate, CountOf, EffectiveRows
  <2>1. status[r] \in Counts /\ rows'[r] = rows[r] /\ totals'[r] = totals[r]
    BY DEF KeepsFinished
  <2>2. CASE totals[r] = Aggregate(rows[r]) BY <2>1, <2>2
  <2>3. CASE FinishingOf(r) BY <2>3 DEF FinishingOf, KeepsFinished
  <2>4. CASE r \in torn BY <2>4 DEF KeepsFinished
  <2> QED BY <2>1, <2>2, <2>3, <2>4 DEF Counted, CountsRight
<1>2. ExecutingNotFinished'
  BY DEF Counted, ExecutingNotFinished, KeepsFinished, SetsNoneToWork
<1> QED BY <1>1, <1>2 DEF Counted

LEMMA StartKeepsWorkers ==
    ASSUME TypeInv, NEW r \in Runs, StartUnlessActive(r), NEW l \in Loops
    PROVE  /\ pc'[l] \in Executing => pc[l] \in Executing /\ run[l] \in Runs /\ run'[l] = run[l]
           /\ pc[l] = "finishing" => pc'[l] = "finishing" /\ run'[l] = run[l]
<1>1. CASE UNCHANGED handles
  BY <1>1 DEF handles, TypeInv, Registered, Executing
<1>2. CASE \E k \in Loops : Spawn(r, k)
  BY <1>2 DEF Spawn, TypeInv, TypeOK, HandleTypeOK, Registered, Executing
<1> QED BY <1>1, <1>2 DEF StartUnlessActive

LEMMA SameWorkers ==
    ASSUME TypeInv, UNCHANGED <<pc, run>>
    PROVE  /\ SetsNoneToWork
           /\ \A l \in Loops : pc[l] = "finishing" => pc'[l] = "finishing" /\ run'[l] = run[l]
BY DEF SetsNoneToWork, TypeInv, Registered, Executing

LEMMA RequestCounted ==
    ASSUME TypeInv, Counted, NEW r \in Runs, Requests(r)
    PROVE  Counted'
<1> USE DEF TypeInv, TypeOK, StoredTypeOK, Counts
<1>1. CASE StartRun(r)
  <2>1. KeepsFinished /\ SetsNoneToWork
    BY <1>1, StartKeepsWorkers DEF StartRun, KeepsFinished, SetsNoneToWork
  <2> QED BY <2>1, QuietStep
<1>2. CASE PauseRun(r)
  BY <1>2, SameWorkers, QuietStep DEF PauseRun, KeepsFinished
<1>3. CASE ResumeRun(r)
  <2>1. CASE Active(r)
    <3>1. UNCHANGED <<pc, run, db, torn>> BY <1>3, <2>1 DEF ResumeRun
    <3> QED BY <3>1, SameWorkers, QuietStep DEF KeepsFinished, db
  <2>2. CASE ~Active(r)
    <3>1. StartUnlessActive(r) BY <1>3, <2>2 DEF ResumeRun, StartUnlessActive
    <3>2. KeepsFinished /\ SetsNoneToWork
      BY <1>3, <3>1, StartKeepsWorkers DEF ResumeRun, db, KeepsFinished, SetsNoneToWork
    <3> QED BY <3>2, QuietStep
  <2> QED BY <2>1, <2>2
<1>4. CASE CancelRun(r)
  BY <1>4, SameWorkers, QuietStep DEF CancelRun, KeepsFinished
<1>5. ASSUME NEW i \in RowIds, NEW j \in RowIds, RetryCase(r, i, j) PROVE Counted'
  <2>1. KeepsFinished /\ SetsNoneToWork
    BY <1>5, StartKeepsWorkers DEF RetryCase, KeepsFinished, SetsNoneToWork
  <2> QED BY <2>1, QuietStep
<1>6. CASE DeleteTask(r)
  BY <1>6, SameWorkers, QuietStep DEF DeleteTask, handles, KeepsFinished
<1> QED BY <1>1, <1>2, <1>3, <1>4, <1>5, <1>6 DEF Requests

\* What a loop does to the rows of its own run is not seen by a finished one: it
\* works before its finish, and the finish ends with the counters or a mark.
LEMMA LoopCounted ==
    ASSUME TypeInv, Counted, NEW l \in Loops, LoopStep(l) \/ LoopFault(l)
    PROVE  Counted'
<1> USE DEF TypeInv, TypeOK, StoredTypeOK
<1>1. pc[l] # "idle"
  BY DEF LoopStep, LoopFault, LoopError, FinishError, LoopBegin, LoopRefused, Dispatch, ExecDone,
         JudgeDone, SweepRows, EndCancelled, EndPaused, EndCompleted, FinishTotals, Busy
<1>2. run[l] \in Runs /\ control[run[l]] = l BY <1>1 DEF Registered
<1> PICK w \in Runs : w = run[l] BY <1>2
<1>3. pc[l] \in Executing => status[run[l]] \notin Counts
  BY DEF Counted, ExecutingNotFinished
\* No other loop works for this run.
<1>4. \A k \in Loops \ {l} : pc[k] # "idle" => run[k] # run[l] BY <1>2 DEF Registered
\* It is enough to look at the loop's own run and at where the loop goes.
<1>5. ASSUME \A r \in Runs \ {run[l]} : /\ status'[r] = status[r] /\ rows'[r] = rows[r]
                                        /\ totals'[r] = totals[r] /\ (r \in torn => r \in torn'),
             \A k \in Loops \ {l} : pc'[k] = pc[k] /\ run'[k] = run[k],
             pc'[l] \in Executing => run'[l] = run[l] /\ status'[run[l]] \notin Counts,
             CountsRight(w)'
      PROVE  Counted'
  <2>1. ASSUME NEW r \in Runs, r # run[l] PROVE CountsRight(r)'
    <3>1. CountsRight(r) BY DEF Counted
    <3>2. FinishingOf(r) => FinishingOf(r)' BY <1>5, <2>1 DEF FinishingOf
    <3> QED BY <1>5, <2>1, <3>1, <3>2 DEF CountsRight
  <2>2. ASSUME NEW k \in Loops, pc'[k] \in Executing PROVE status'[run'[k]] \notin Counts
    <3>1. CASE k = l BY <1>5, <2>2, <3>1
    <3>2. CASE k # l
      <4>1. pc[k] \in Executing /\ run'[k] = run[k] BY <1>5, <2>2, <3>2
      <4>2. run[k] # run[l] /\ run[k] \in Runs BY <1>4, <3>2, <4>1 DEF Registered, Executing
      <4>3. status[run[k]] \notin Counts BY <4>1 DEF Counted, ExecutingNotFinished
      <4> QED BY <1>5, <4>1, <4>2, <4>3
    <3> QED BY <3>1, <3>2
  <2> QED BY <1>5, <2>1, <2>2 DEF Counted, ExecutingNotFinished
\* The loop goes on and its run is not finished.
<1>6. ASSUME NEW where \in Executing, pc' = [pc EXCEPT ![l] = where],
             UNCHANGED <<run, totals, torn>>, status'[run[l]] \notin Counts,
             \A r \in Runs \ {run[l]} : status'[r] = status[r] /\ rows'[r] = rows[r]
      PROVE  Counted'
  <2>1. CountsRight(w)' BY <1>6 DEF CountsRight
  <2>2. \A k \in Loops \ {l} : pc'[k] = pc[k] /\ run'[k] = run[k] BY <1>6 DEF HandleTypeOK
  <2> QED BY <1>5, <1>6, <2>1, <2>2
<1>7. CASE LoopBegin(l)
  BY <1>2, <1>6, <1>7 DEF LoopBegin, Executing, Counts
<1>8. CASE LoopRefused(l)
  <2>1. KeepsFinished /\ SetsNoneToWork
    BY <1>8 DEF LoopRefused, db, KeepsFinished, SetsNoneToWork, HandleTypeOK, Registered, Executing
  <2> QED BY <2>1, QuietStep
<1>9. CASE Dispatch(l)
  <2>1. pc[l] = "between" /\ "between" \in Executing BY <1>9 DEF Dispatch, Executing
  <2>2. \E where \in Executing : pc' = [pc EXCEPT ![l] = where]
    <3>1. CASE pc' = pc BY <2>1, <3>1 DEF HandleTypeOK
    <3>2. CASE pc' = [pc EXCEPT ![l] = "executing"] BY <3>2 DEF Executing
    <3> QED BY <1>9, <3>1, <3>2 DEF Dispatch
  <2>3. UNCHANGED <<run, totals, torn, status>> BY <1>9 DEF Dispatch
  <2>4. \A r \in Runs \ {run[l]} : rows'[r] = rows[r] BY <1>2, <1>9 DEF Dispatch
  <2> QED BY <1>3, <1>6, <2>1, <2>2, <2>3, <2>4
<1>10. ASSUME NEW s, pc[l] \in Busy, Settle(l, s) PROVE Counted'
  <2>1. pc[l] \in Executing /\ "between" \in Executing BY <1>10 DEF Busy, Executing
  <2>2. pc' = [pc EXCEPT ![l] = "between"] /\ UNCHANGED <<run, totals, torn, status>>
    BY <1>10 DEF Settle
  <2>3. \A r \in Runs \ {run[l]} : rows'[r] = rows[r] BY <1>2, <1>10 DEF Settle
  <2> QED BY <1>3, <1>6, <2>1, <2>2, <2>3
<1>11. CASE ExecDone(l)
  <2>1. pc[l] = "executing" BY <1>11 DEF ExecDone
  <2>2. CASE Settle(l, "execution_failed") \/ Settle(l, "cancelled")
    BY <1>10, <2>1, <2>2 DEF Busy
  <2>3. CASE pc' = [pc EXCEPT ![l] = "judging"] /\ UNCHANGED <<db, run, torn>>
    BY <1>3, <1>6, <2>1, <2>3 DEF db, Executing
  <2> QED BY <1>11, <2>2, <2>3 DEF ExecDone
<1>12. CASE JudgeDone(l)
  BY <1>10, <1>12 DEF JudgeDone, Busy
<1>13. CASE SweepRows(l)
  <2>1. pc[l] \in Executing /\ "swept" \in Executing BY <1>13 DEF SweepRows, Executing
  <2>2. pc' = [pc EXCEPT ![l] = "swept"] /\ UNCHANGED <<run, totals, torn, status>>
    BY <1>13 DEF SweepRows
  <2>3. \A r \in Runs \ {run[l]} : rows'[r] = rows[r] BY <1>2, <1>13 DEF SweepRows
  <2> QED BY <1>3, <1>6, <2>1, <2>2, <2>3
<1>14. ASSUME Pop(l)
       PROVE  /\ \A k \in Loops \ {l} : pc'[k] = pc[k] /\ run'[k] = run[k]
              /\ pc'[l] \notin Executing
  BY <1>14 DEF Pop, HandleTypeOK, Executing
<1>15. CASE EndPaused(l)
  <2>1. status[run[l]] \notin Counts BY <1>3, <1>15 DEF EndPaused, Executing
  <2>2. status'[run[l]] \notin Counts BY <1>2, <1>15, <2>1 DEF EndPaused, Counts
  <2>3. CountsRight(w)' BY <2>2 DEF CountsRight
  <2>4. UNCHANGED <<rows, totals, torn>> /\ Pop(l)
        /\ \A r \in Runs \ {run[l]} : status'[r] = status[r]
    BY <1>2, <1>15 DEF EndPaused
  <2> QED BY <1>5, <1>14, <2>3, <2>4
<1>16. ASSUME NEW target \in Targets, BeginFinish(l, target), pc[l] \in Executing PROVE Counted'
  <2>1. status[run[l]] \in RunStatus /\ status[run[l]] \notin Counts BY <1>2, <1>3, <1>16
  <2>2. UNCHANGED <<rows, totals, torn>> /\ \A r \in Runs \ {run[l]} : status'[r] = status[r]
    BY <1>2, <1>16 DEF BeginFinish
  <2>3. CASE FinishAggregates(status[run[l]], target)
    <3>1. pc' = [pc EXCEPT ![l] = "finishing"] /\ run' = run BY <1>16, <2>3 DEF BeginFinish
    <3>2. pc'[l] = "finishing" /\ \A k \in Loops \ {l} : pc'[k] = pc[k]
      BY <3>1 DEF HandleTypeOK
    <3>3. CountsRight(w)' BY <3>1, <3>2 DEF CountsRight, FinishingOf
    <3> QED BY <1>5, <2>2, <3>1, <3>2, <3>3 DEF Executing
  <2>4. CASE ~FinishAggregates(status[run[l]], target)
    <3>1. Pop(l) /\ status'[run[l]] = FinishStatus(status[run[l]], target)
      BY <1>2, <1>16, <2>4 DEF BeginFinish
    <3>2. status'[run[l]] \notin Counts BY <2>1, <2>4, <3>1, FinishType
    <3>3. CountsRight(w)' BY <3>2 DEF CountsRight
    <3> QED BY <1>5, <1>14, <2>2, <3>1, <3>3
  <2> QED BY <2>3, <2>4
<1>17. CASE EndCancelled(l) \/ EndCompleted(l) \/ LoopError(l)
  BY <1>16, <1>17 DEF EndCancelled, EndCompleted, LoopError, Targets, Executing, Busy
<1>18. CASE FinishTotals(l)
  <2>1. UNCHANGED <<status, rows>> /\ Pop(l) BY <1>18 DEF FinishTotals
  <2>2. CASE status[run[l]] = "absent"
    <3>1. status'[run[l]] \notin Counts BY <2>1, <2>2 DEF Counts
    <3>2. CountsRight(w)' BY <3>1 DEF CountsRight
    <3>3. \A r \in Runs \ {run[l]} : totals'[r] = totals[r] /\ (r \in torn => r \in torn')
      BY <1>2, <1>18 DEF FinishTotals
    <3> QED BY <1>5, <1>14, <2>1, <3>2, <3>3
  <2>3. CASE status[run[l]] # "absent"
    <3>1. totals'[run[l]] = Aggregate(rows[run[l]]) BY <1>2, <1>18, <2>3 DEF FinishTotals
    <3>2. totals'[run[l]] = Aggregate(rows'[run[l]]) BY <2>1, <3>1
    <3>3. CountsRight(w)' BY <3>2 DEF CountsRight
    <3>4. \A r \in Runs \ {run[l]} : totals'[r] = totals[r] /\ (r \in torn => r \in torn')
      BY <1>2, <1>18 DEF FinishTotals
    <3> QED BY <1>5, <1>14, <2>1, <3>3, <3>4
  <2> QED BY <2>2, <2>3
<1>19. CASE FinishError(l)
  <2>1. UNCHANGED <<status, rows, totals>> /\ Pop(l) /\ torn' = torn \cup {run[l]}
    BY <1>19 DEF FinishError, db
  <2>2. CountsRight(w)' BY <2>1 DEF CountsRight
  <2> QED BY <1>5, <1>14, <2>1, <2>2
<1> QED
  BY <1>7, <1>8, <1>9, <1>11, <1>12, <1>13, <1>15, <1>17, <1>18, <1>19 DEF LoopStep, LoopFault

LEMMA ProcessCounted ==
    ASSUME TypeInv, Counted, Kill \/ Shutdown \/ Recover
    PROVE  Counted'
<1> USE DEF TypeInv, TypeOK, StoredTypeOK
<1>1. NoHandles => SetsNoneToWork
  BY DEF NoHandles, Executing, SetsNoneToWork
<1>2. CASE Kill
  <2>1. UNCHANGED <<status, rows, totals>> /\ NoHandles BY <1>2 DEF Kill, db
  <2>2. ASSUME NEW r \in Runs PROVE CountsRight(r)'
    <3>1. FinishingOf(r) => r \in torn' BY <1>2 DEF Kill, FinishingOf
    <3>2. r \in torn => r \in torn' BY <1>2 DEF Kill
    <3>3. CountsRight(r) BY DEF Counted
    <3> QED BY <2>1, <3>1, <3>2, <3>3 DEF CountsRight
  <2>3. ExecutingNotFinished' BY <2>1 DEF NoHandles, ExecutingNotFinished, Executing
  <2> QED BY <2>2, <2>3 DEF Counted
<1>3. CASE Shutdown
  <2>1. PICK A \in SUBSET Runs, S \in SUBSET Runs :
           /\ A \subseteq S
           /\ status' = [r \in Runs |-> IF r \in S THEN "cancelled" ELSE status[r]]
           /\ totals' = [r \in Runs |-> IF r \in A THEN Aggregate(rows[r]) ELSE totals[r]]
           /\ torn' = (torn \ A) \cup (S \ A)
    BY <1>3 DEF Shutdown
  <2>2. NoHandles /\ rows' = rows /\ \A l \in Loops : pc[l] # "finishing"
    BY <1>3 DEF Shutdown, Serving, EventLoopFree, Sync
  <2>3. KeepsFinished BY <2>1, <2>2 DEF KeepsFinished, Counts
  <2> QED BY <1>1, <2>2, <2>3, QuietStep
<1>4. CASE Recover
  <2>1. UNCHANGED <<pc, run, totals, torn>> BY <1>4 DEF Recover, handles
  <2>2. \A r \in Runs : status'[r] \in Counts => status'[r] = status[r] /\ rows'[r] = rows[r]
    BY <1>4 DEF Recover, Counts
  <2> QED BY <2>1, <2>2, SameWorkers, QuietStep DEF KeepsFinished
<1> QED BY <1>2, <1>3, <1>4

\* FR-020: the counters a completed or failed run shows are those of its stored
\* rows, however pauses, retries, cancellations, restarts and deletions were
\* interleaved, except while and where its finish was cut between its commits.
THEOREM TotalsAreCurrent == Spec => []TotalsCurrent
<1>1. Init => Counted
  BY DEF Init, Counted, ExecutingNotFinished, CountsRight, Executing, Counts
<1>2. TypeInv /\ Counted /\ [Next]_vars => Counted'
  <2> SUFFICES ASSUME TypeInv, Counted, [Next]_vars PROVE Counted' OBVIOUS
  <2>1. CASE \E r \in Runs : Requests(r) BY <2>1, RequestCounted
  <2>2. CASE \E l \in Loops : LoopStep(l) \/ LoopFault(l) BY <2>2, LoopCounted
  <2>3. CASE Kill \/ Shutdown \/ Recover BY <2>3, ProcessCounted
  <2>4. CASE UNCHANGED vars
    BY <2>4 DEF vars, db, handles, Counted, ExecutingNotFinished, CountsRight, FinishingOf
  <2> QED BY <2>1, <2>2, <2>3, <2>4 DEF Next
<1>3. Counted => TotalsCurrent
  BY DEF Counted, CountsRight, FinishingOf, TotalsCurrent, Counts
<1> QED BY InitType, NextType, <1>1, <1>2, <1>3, PTL DEF Spec

-----------------------------------------------------------------------------
(***************************************************************************)
(* What a run or a row shown as running means, and how the status of a run *)
(* moves.  None of these is inductive.  What has to be added: a registry   *)
(* entry names a loop of its own run (Backed), so that a loop that ends    *)
(* takes nobody else out of the registry; a stored run has a row for every *)
(* case (Booked), so that a retry really adds a row; a stopped process has *)
(* no loops (Stopped); a loop that is finishing has given its run an end   *)
(* status (Ended); and a loop that has not begun is not the one of a   *)
(* run shown as running (Waiting), because it would refuse to work.        *)
(***************************************************************************)

Backed ==
    \A r \in Runs : control[r] # NoLoop => pc[control[r]] # "idle" /\ run[control[r]] = r

Booked ==
    \A r \in Runs :
        /\ status[r] = "absent" => rows[r] = [i \in RowIds |-> NoRow]
        /\ status[r] # "absent" => \A i \in 1 .. NumCases : rows[r][i].st # "none"

Stopped == ~ up => restarts > 0 /\ \A l \in Loops : pc[l] = "idle"

RowsFree(r) == \A i \in RowIds : i > NumCases => rows[r][i].st = "none"

Executed(r) == status[r] = "running" => Active(r)
Waiting(r) == \A l \in Loops : pc[l] = "created" /\ run[l] = r => status[r] # "running"

Ended == \A l \in Loops : pc[l] = "finishing" => status[run[l]] \in Targets \cup {"absent"}

RunInv == TypeInv /\ Backed /\ Booked /\ Stopped /\ Ended

-----------------------------------------------------------------------------
(* Operators                                                                *)

\* What finish_run leaves is the status it found or a legal successor, never
\* running; it does not bring back a deleted run.
LEMMA FinishMoves ==
    ASSUME NEW from \in RunStatus, NEW target \in Targets
    PROVE  /\ \/ FinishStatus(from, target) = from
              \/ RunStatusCan(from, FinishStatus(from, target))
           /\ FinishStatus(from, target) # "running"
           /\ FinishStatus(from, target) = "absent" <=> from = "absent"
BY DEF FinishStatus, Finishes, Targets, RunStatusCan, Ledger!RunStatusCan, RunStatus,
       Ledger!RunStatus, Ledger!Transitions

\* Cancelling the open rows of a run row by row.
LEMMA CancelOpenRow ==
    ASSUME NEW rs \in [RowIds -> Row]
    PROVE  /\ CancelOpenRows(rs) \in [RowIds -> Row]
           /\ \A i \in RowIds : CancelOpenRows(rs)[i] =
                 IF rs[i].st \in OpenRow THEN [rs[i] EXCEPT !.st = "cancelled"] ELSE rs[i]
           /\ \A i \in RowIds : CancelOpenRows(rs)[i].st =
                 IF rs[i].st \in OpenRow THEN "cancelled" ELSE rs[i].st
<1>1. CancelOpenRows(rs) = [i \in RowIds |->
          IF rs[i].st \in OpenRow THEN [rs[i] EXCEPT !.st = "cancelled"] ELSE rs[i]]
  BY DEF CancelOpenRows, Ledger!CancelOpen, Ledger!RowIds, RowIds, OpenRow, Ledger!OpenRow
<1>2. ASSUME NEW i \in RowIds
      PROVE  CancelOpenRows(rs)[i].st = IF rs[i].st \in OpenRow THEN "cancelled" ELSE rs[i].st
  <2>1. rs[i] \in Row OBVIOUS
  <2> QED BY <1>1, <2>1 DEF Row
<1> QED BY <1>1, <1>2, CancelOpenType

\* A run without rows has nothing to cancel.
LEMMA CancelNone ==
    CancelOpenRows([i \in RowIds |-> NoRow]) = [i \in RowIds |-> NoRow]
<1>1. NoRow.st \notin OpenRow BY DEF NoRow, OpenRow, Ledger!OpenRow
<1> QED BY <1>1 DEF CancelOpenRows, Ledger!CancelOpen, Ledger!RowIds, RowIds, OpenRow, Ledger!OpenRow

LEMMA RowIdsFacts == 0 \notin RowIds /\ 1 .. NumCases \subseteq RowIds /\ RowIds \subseteq Nat
BY EvaluationAssumption DEF RowIds

-----------------------------------------------------------------------------
(* The registry                                                             *)

LEMMA SpawnBacked ==
    ASSUME HandleTypeOK, Registered, Backed, NEW r \in Runs, NEW l \in Loops, Spawn(r, l)
    PROVE  /\ Backed'
           /\ Active(r)'
           /\ \A k \in Runs : Active(k) => Active(k)'
           /\ \A k \in Loops : pc'[k] = "created" => (k = l /\ run'[k] = r) \/ (pc[k] = "created" /\ run'[k] = run[k])
           /\ \A k \in Loops : pc[k] \in Live => pc'[k] = pc[k] /\ run'[k] = run[k]
<1> USE EvaluationAssumption DEF Spawn, HandleTypeOK
<1>1. Backed'
  <2> SUFFICES ASSUME NEW k \in Runs, control'[k] # NoLoop
               PROVE  pc'[control'[k]] # "idle" /\ run'[control'[k]] = k
    BY DEF Backed
  <2>1. CASE k = r BY <2>1
  <2>2. CASE k # r
    <3>1. control'[k] = control[k] /\ control[k] \in Loops BY <2>2
    <3>2. pc[control[k]] # "idle" /\ run[control[k]] = k BY <3>1 DEF Backed
    <3>3. control[k] # l BY <3>2
    <3>4. control[k] # control[r] BY <2>2, <3>1, <3>2 DEF Backed
    <3> QED BY <3>1, <3>2, <3>3, <3>4
  <2> QED BY <2>1, <2>2
<1>2. \A k \in Loops : pc[k] \in Live => pc'[k] = pc[k] /\ run'[k] = run[k]
  BY DEF Live, Sync
<1>3. Active(r)' BY DEF Active, Live
<1>4. ASSUME NEW k \in Runs, Active(k) PROVE Active(k)'
  BY <1>2, <1>3, <1>4 DEF Active
<1> QED BY <1>1, <1>2, <1>3, <1>4

LEMMA StartBacked ==
    ASSUME HandleTypeOK, Registered, Backed, NEW r \in Runs, StartUnlessActive(r)
    PROVE  /\ Backed'
           /\ \A k \in Runs : Active(k) => Active(k)'
           /\ \A k \in Loops : pc'[k] = "created" => run'[k] = r \/ (pc[k] = "created" /\ run'[k] = run[k])
           /\ \A k \in Loops : pc[k] \in Live => pc'[k] = pc[k] /\ run'[k] = run[k]
<1>1. CASE UNCHANGED handles
  BY <1>1 DEF handles, Backed, Active
<1>2. CASE \E l \in Loops : Spawn(r, l)
  BY <1>2, SpawnBacked
<1> QED BY <1>1, <1>2 DEF StartUnlessActive

LEMMA PopBacked ==
    ASSUME HandleTypeOK, Registered, Backed, NEW l \in Loops, pc[l] # "idle", Pop(l)
    PROVE  /\ Backed'
           /\ \A k \in Runs \ {run[l]} : Active(k) => Active(k)'
           /\ \A k \in Loops \ {l} : pc'[k] = pc[k] /\ run'[k] = run[k]
           /\ pc'[l] = "idle"
<1> USE EvaluationAssumption DEF Pop, HandleTypeOK
<1>1. run[l] \in Runs /\ control[run[l]] = l BY DEF Registered
<1>2. ASSUME NEW k \in Runs, k # run[l], control[k] # NoLoop
      PROVE  /\ control'[k] = control[k] /\ control[k] \in Loops \ {l}
             /\ pc'[control[k]] = pc[control[k]] /\ run'[control[k]] = run[control[k]]
  BY <1>2 DEF Backed
<1>3. Backed' BY <1>1, <1>2 DEF Backed
<1>4. ASSUME NEW k \in Runs \ {run[l]}, Active(k) PROVE Active(k)'
  BY <1>2, <1>4 DEF Active
<1> QED BY <1>3, <1>4

-----------------------------------------------------------------------------
(* The books: which rows a stored run has                                   *)

\* A step that neither stores nor deletes a run and removes no row.
LEMMA SameBooks ==
    ASSUME Booked,
           \A r \in Runs : status'[r] = "absent" <=> status[r] = "absent",
           \A r \in Runs : status[r] = "absent" => rows'[r] = rows[r],
           \A r \in Runs : \A i \in RowIds : rows[r][i].st # "none" => rows'[r][i].st # "none"
    PROVE  Booked'
BY RowIdsFacts DEF Booked

\* A row that exists belongs to a stored run.
LEMMA RowOfStoredRun ==
    ASSUME Booked, NEW r \in Runs, NEW i \in RowIds, rows[r][i].st # "none"
    PROVE  status[r] # "absent"
BY DEF Booked, NoRow

LEMMA RequestBooked ==
    ASSUME TypeInv, Booked, NEW r \in Runs, Requests(r)
    PROVE  Booked'
<1> USE DEF TypeInv, TypeOK, StoredTypeOK
<1>1. CASE StartRun(r)
  <2>1. \A i \in 1 .. NumCases : FreshRows[i].st # "none" BY RowIdsFacts, EvaluationAssumption DEF FreshRows
  <2> QED BY <1>1, <2>1 DEF StartRun, Booked
<1>2. CASE PauseRun(r)
  BY <1>2, SameBooks DEF PauseRun
<1>3. CASE ResumeRun(r)
  BY <1>3, SameBooks DEF ResumeRun, db
<1>4. CASE CancelRun(r)
  BY <1>4, SameBooks DEF CancelRun
<1>5. ASSUME NEW i \in RowIds, NEW j \in RowIds, RetryCase(r, i, j) PROVE Booked'
  <2>1. status[r] # "absent" BY <1>5, RowOfStoredRun DEF RetryCase, Retryable
  <2>2. rows'[r][j].st = "pending" /\ \A k \in RowIds \ {j} : rows'[r][k] = rows[r][k]
    BY <1>5 DEF RetryCase
  <2>3. \A k \in Runs \ {r} : rows'[k] = rows[k] /\ status'[k] = status[k]
    BY <1>5 DEF RetryCase
  <2>4. status'[r] = "running" BY <1>5 DEF RetryCase
  <2> QED BY <2>1, <2>2, <2>3, <2>4, SameBooks
<1>6. CASE DeleteTask(r)
  BY <1>6 DEF DeleteTask, Booked
<1> QED BY <1>1, <1>2, <1>3, <1>4, <1>5, <1>6 DEF Requests

\* What a loop does to the tables, it does to its own run.
LEMMA LoopTables ==
    ASSUME TypeInv, NEW l \in Loops, LoopStep(l) \/ LoopFault(l)
    PROVE  /\ pc[l] # "idle" /\ run[l] \in Runs /\ control[run[l]] = l
           /\ \A r \in Runs \ {run[l]} : status'[r] = status[r] /\ rows'[r] = rows[r]
           /\ up /\ up' /\ lives' = lives /\ restarts' = restarts
<1> USE DEF TypeInv, TypeOK, StoredTypeOK
<1>1. pc[l] # "idle"
  BY DEF LoopStep, LoopFault, LoopError, FinishError, LoopBegin, LoopRefused, Dispatch, ExecDone,
         JudgeDone, SweepRows, EndCancelled, EndPaused, EndCompleted, FinishTotals, Busy
<1>2. run[l] \in Runs /\ control[run[l]] = l BY <1>1 DEF Registered
<1>3. up /\ up' /\ lives' = lives /\ restarts' = restarts
  BY DEF LoopStep, LoopFault, LoopError, FinishError, LoopBegin, LoopRefused, Dispatch, ExecDone,
         JudgeDone, Settle, SweepRows, EndCancelled, EndPaused, EndCompleted, BeginFinish,
         FinishTotals, Serving, bounds
<1>4. ASSUME NEW r \in Runs, r # run[l] PROVE status'[r] = status[r] /\ rows'[r] = rows[r]
  <2>1. \A s : Settle(l, s) => status'[r] = status[r] /\ rows'[r] = rows[r]
    BY <1>2, <1>4 DEF Settle
  <2>2. CASE LoopBegin(l) \/ LoopRefused(l) \/ Dispatch(l)
    BY <1>2, <1>4, <2>2 DEF LoopBegin, LoopRefused, Dispatch, db
  <2>3. CASE ExecDone(l) \/ JudgeDone(l)
    BY <2>1, <2>3 DEF ExecDone, JudgeDone, db
  <2>4. CASE EndCancelled(l) \/ EndPaused(l) \/ EndCompleted(l) \/ LoopError(l)
    BY <1>2, <1>4, <2>4 DEF EndCancelled, EndPaused, EndCompleted, LoopError, BeginFinish
  <2>5. CASE SweepRows(l) \/ FinishTotals(l) \/ FinishError(l)
    BY <1>2, <1>4, <2>5 DEF SweepRows, FinishTotals, FinishError, db
  <2> QED BY <2>2, <2>3, <2>4, <2>5 DEF LoopStep, LoopFault
<1> QED BY <1>1, <1>2, <1>3, <1>4

LEMMA LoopBooked ==
    ASSUME TypeInv, Booked, NEW l \in Loops, LoopStep(l) \/ LoopFault(l)
    PROVE  Booked'
<1> USE DEF TypeInv, TypeOK, StoredTypeOK
<1> DEFINE r == run[l]
           Kept == /\ status'[r] = "absent" <=> status[r] = "absent"
                   /\ status[r] = "absent" => rows'[r] = rows[r]
                   /\ \A i \in RowIds : rows[r][i].st # "none" => rows'[r][i].st # "none"
<1>1. r \in Runs /\ rows[r] \in [RowIds -> Row] /\ status[r] \in RunStatus
  BY LoopTables
<1>2. Kept => Booked' BY <1>1, LoopTables, SameBooks
<1>3. CASE LoopBegin(l)
  BY <1>1, <1>2, <1>3 DEF LoopBegin, Startable
<1>4. CASE LoopRefused(l)
  BY <1>2, <1>4 DEF LoopRefused, db
<1>5. CASE Dispatch(l)
  <2>1. PICK i \in RowIds :
          \/ UNCHANGED rows
          \/ rows[r][i].st # "none" /\ rows' = [rows EXCEPT ![r][i].st = "running"]
    BY <1>5 DEF Dispatch
  <2>2. CASE UNCHANGED rows BY <1>2, <1>5, <2>2 DEF Dispatch
  <2>3. CASE rows[r][i].st # "none" /\ rows' = [rows EXCEPT ![r][i].st = "running"]
    <3>1. rows'[r][i].st = "running" /\ \A k \in RowIds \ {i} : rows'[r][k] = rows[r][k]
      BY <1>1, <2>3 DEF Row
    <3>2. status[r] # "absent" BY <1>1, <2>3, RowOfStoredRun
    <3> QED BY <1>2, <1>5, <3>1, <3>2 DEF Dispatch
  <2> QED BY <2>1, <2>2, <2>3
<1>6. ASSUME NEW s \in SettledRow, pc[l] \in Busy, Settle(l, s) PROVE Booked'
  <2>1. cur[l] \in RowIds BY <1>6 DEF HandleTypeOK
  <2>2. CASE rows[r][cur[l]].st = "none" BY <1>2, <1>6, <2>2 DEF Settle
  <2>3. CASE rows[r][cur[l]].st # "none"
    <3>1. rows'[r][cur[l]].st = s /\ \A k \in RowIds \ {cur[l]} : rows'[r][k] = rows[r][k]
      BY <1>1, <1>6, <2>1, <2>3 DEF Settle, Row
    <3>2. status[r] # "absent" BY <1>1, <2>1, <2>3, RowOfStoredRun
    <3>3. s # "none" BY DEF SettledRow, Ledger!SettledRow
    <3> QED BY <1>2, <1>6, <3>1, <3>2, <3>3 DEF Settle
  <2> QED BY <2>2, <2>3
<1>7. CASE ExecDone(l)
  <2>1. CASE Settle(l, "execution_failed") \/ Settle(l, "cancelled")
    BY <1>6, <1>7, <2>1 DEF ExecDone, Busy, SettledRow, Ledger!SettledRow
  <2>2. CASE UNCHANGED db BY <1>2, <2>2 DEF db
  <2> QED BY <1>7, <2>1, <2>2 DEF ExecDone
<1>8. CASE JudgeDone(l)
  BY <1>6, <1>8 DEF JudgeDone, Busy, SettledRow, Ledger!SettledRow
<1>9. CASE SweepRows(l)
  <2>1. rows'[r] = CancelOpenRows(rows[r]) BY <1>1, <1>9 DEF SweepRows
  <2>2. status[r] = "absent" => rows'[r] = rows[r] BY <1>1, <2>1, CancelNone DEF Booked
  <2>3. \A i \in RowIds : rows[r][i].st # "none" => rows'[r][i].st # "none"
    BY <1>1, <2>1, CancelOpenRow
  <2>4. status' = status BY <1>9 DEF SweepRows
  <2> QED BY <1>2, <2>2, <2>3, <2>4
<1>10. CASE EndPaused(l)
  BY <1>1, <1>2, <1>10 DEF EndPaused
<1>11. CASE EndCancelled(l) \/ EndCompleted(l) \/ LoopError(l)
  <2>1. PICK target \in Targets : BeginFinish(l, target)
    BY <1>11 DEF EndCancelled, EndCompleted, LoopError, Targets
  <2> QED BY <1>1, <1>2, <2>1, FinishMoves DEF BeginFinish
<1>12. CASE FinishTotals(l) \/ FinishError(l)
  BY <1>2, <1>12 DEF FinishTotals, FinishError, db
<1> QED
  BY <1>3, <1>4, <1>5, <1>7, <1>8, <1>9, <1>10, <1>11, <1>12 DEF LoopStep, LoopFault

LEMMA ProcessBooked ==
    ASSUME TypeInv, Booked, Kill \/ Shutdown \/ Recover
    PROVE  Booked'
<1> USE DEF TypeInv, TypeOK, StoredTypeOK
<1>1. CASE Kill BY <1>1, SameBooks DEF Kill, db
<1>2. CASE Shutdown
  <2>1. \A r \in Runs : Finishes(status[r], "cancelled") => status[r] # "absent"
    BY DEF Finishes, RunStatusCan, Ledger!RunStatusCan, Ledger!Transitions
  <2>2. \A r \in Runs : status'[r] = status[r] \/ (status'[r] = "cancelled" /\ status[r] # "absent")
    BY <1>2, <2>1 DEF Shutdown
  <2> QED BY <1>2, <2>2, SameBooks DEF Shutdown
<1>3. CASE Recover
  <2>1. \A r \in Runs : \/ status'[r] = status[r] /\ rows'[r] = rows[r]
                        \/ /\ status[r] \in Interrupts /\ status'[r] = "interrupted"
                           /\ rows'[r] = CancelOpenRows(rows[r])
    BY <1>3 DEF Recover
  <2>2. \A r \in Runs : rows[r] \in [RowIds -> Row] OBVIOUS
  <2>3. ASSUME NEW r \in Runs, NEW i \in RowIds, rows[r][i].st # "none"
        PROVE  rows'[r][i].st # "none"
    <3>1. CancelOpenRows(rows[r])[i].st # "none" BY <2>2, <2>3, CancelOpenRow
    <3> QED BY <2>1, <2>3, <3>1
  <2> QED BY <2>1, <2>3, SameBooks DEF Interrupts
<1> QED BY <1>1, <1>2, <1>3

-----------------------------------------------------------------------------
(* The registry and the process                                             *)

LEMMA RequestBacked ==
    ASSUME RunInv, NEW r \in Runs, Requests(r)
    PROVE  Backed' /\ Stopped'
<1> USE DEF RunInv, TypeInv, TypeOK
<1>1. up
  BY DEF Requests, StartRun, PauseRun, ResumeRun, CancelRun, RetryCase, DeleteTask, Serving
<1>2. up' = up
  BY DEF Requests, StartRun, PauseRun, ResumeRun, CancelRun, RetryCase, DeleteTask
<1>3. Backed'
  <2>1. CASE UNCHANGED <<control, run, pc>> BY <2>1 DEF Backed
  <2>2. CASE StartUnlessActive(r) BY <2>2, StartBacked
  <2>3. CASE \E l \in Loops : Spawn(r, l) BY <2>3, SpawnBacked
  <2> QED
    BY <2>1, <2>2, <2>3
    DEF Requests, StartRun, PauseRun, ResumeRun, CancelRun, RetryCase, DeleteTask, handles
<1> QED BY <1>1, <1>2, <1>3 DEF Stopped

LEMMA LoopBacked ==
    ASSUME RunInv, NEW l \in Loops, LoopStep(l) \/ LoopFault(l)
    PROVE  Backed' /\ Stopped'
<1> USE DEF RunInv, TypeInv, TypeOK
<1>1. pc[l] # "idle" /\ up' BY LoopTables
<1>2. ASSUME UNCHANGED <<control, run>>, NEW where \in Live \cup {"done"},
             pc' = [pc EXCEPT ![l] = where]
      PROVE  Backed'
  BY <1>1, <1>2 DEF Backed, HandleTypeOK, Live, Sync
<1>3. ASSUME UNCHANGED <<control, run, pc>> PROVE Backed'
  BY <1>3 DEF Backed
<1>4. ASSUME Pop(l) PROVE Backed'
  BY <1>1, <1>4, PopBacked
<1>5. \/ UNCHANGED <<control, run>> /\ \E where \in Live \cup {"done"} : pc' = [pc EXCEPT ![l] = where]
      \/ UNCHANGED <<control, run, pc>>
      \/ Pop(l)
  <2>1. CASE LoopBegin(l) \/ LoopRefused(l) BY <2>1 DEF LoopBegin, LoopRefused, Live, Sync
  <2>2. CASE Dispatch(l) BY <2>2 DEF Dispatch, Live, Sync
  <2>3. CASE ExecDone(l) \/ JudgeDone(l) BY <2>3 DEF ExecDone, JudgeDone, Settle, Live, Sync
  <2>4. CASE EndCancelled(l) \/ EndCompleted(l) \/ LoopError(l)
    BY <2>4 DEF EndCancelled, EndCompleted, LoopError, BeginFinish, Live, Sync
  <2>5. CASE SweepRows(l) BY <2>5 DEF SweepRows, Live, Sync
  <2>6. CASE EndPaused(l) \/ FinishTotals(l) \/ FinishError(l)
    BY <2>6 DEF EndPaused, FinishTotals, FinishError
  <2> QED BY <2>1, <2>2, <2>3, <2>4, <2>5, <2>6 DEF LoopStep, LoopFault
<1> QED BY <1>1, <1>2, <1>3, <1>4, <1>5 DEF Stopped

LEMMA ProcessBacked ==
    ASSUME RunInv, Kill \/ Shutdown \/ Recover
    PROVE  Backed' /\ Stopped'
<1> USE DEF RunInv, TypeInv, TypeOK
<1>1. CASE Kill \/ Shutdown
  <2>1. NoHandles /\ restarts' = restarts + 1 BY <1>1 DEF Kill, Shutdown
  <2> QED BY <2>1 DEF NoHandles, Backed, Stopped
<1>2. CASE Recover
  BY <1>2 DEF Recover, handles, bounds, Backed, Stopped
<1> QED BY <1>1, <1>2

\* An end status stays: the loop that is finishing has the event loop to itself.
LEMMA EndedStays ==
    ASSUME RunInv, Next PROVE Ended'
<1> USE DEF RunInv, TypeInv, TypeOK, StoredTypeOK
<1>1. ASSUME NEW r \in Runs, Requests(r) PROVE Ended'
  <2>1. CASE DeleteTask(r) BY <2>1 DEF DeleteTask, handles, Ended, Registered
  <2>2. CASE Serving /\ ~DeleteTask(r)
    <3>1. \A l \in Loops : pc[l] # "finishing" BY <2>2 DEF Serving, EventLoopFree, Sync
    <3>2. UNCHANGED pc \/ \E k \in Loops : Spawn(r, k)
      BY <1>1, <2>2 DEF Requests, StartRun, PauseRun, ResumeRun, CancelRun, RetryCase,
                        StartUnlessActive, handles
    <3>3. \A l \in Loops : pc'[l] # "finishing"
      BY <3>1, <3>2 DEF Spawn
    <3> QED BY <3>3 DEF Ended
  <2> QED BY <1>1, <2>1, <2>2 DEF Requests, StartRun, PauseRun, ResumeRun, CancelRun, RetryCase
<1>2. ASSUME NEW l \in Loops, LoopStep(l) \/ LoopFault(l) PROVE Ended'
  <2>1. /\ pc[l] # "idle" /\ run[l] \in Runs /\ control[run[l]] = l
        /\ \A r \in Runs \ {run[l]} : status'[r] = status[r]
    BY <1>2, LoopTables
  <2>2. \A k \in Loops \ {l} : pc'[k] = pc[k] /\ run'[k] = run[k]
    <3>1. CASE Pop(l) BY <3>1 DEF Pop, HandleTypeOK
    <3>2. CASE run' = run /\ \E where : pc' = [pc EXCEPT ![l] = where] BY <3>2 DEF HandleTypeOK
    <3>3. CASE UNCHANGED <<run, pc>> BY <3>3
    <3>4. CASE LoopBegin(l) \/ LoopRefused(l) BY <3>2, <3>4 DEF LoopBegin, LoopRefused
    <3>5. CASE Dispatch(l) BY <3>2, <3>3, <3>5 DEF Dispatch
    <3>6. CASE ExecDone(l) \/ JudgeDone(l) BY <3>2, <3>6 DEF ExecDone, JudgeDone, Settle
    <3>7. CASE EndCancelled(l) \/ EndCompleted(l) \/ LoopError(l)
      BY <3>1, <3>2, <3>7 DEF EndCancelled, EndCompleted, LoopError, BeginFinish
    <3>8. CASE SweepRows(l) BY <3>2, <3>8 DEF SweepRows
    <3>9. CASE EndPaused(l) \/ FinishTotals(l) \/ FinishError(l)
      BY <3>1, <3>9 DEF EndPaused, FinishTotals, FinishError
    <3> QED
      BY <1>2, <3>4, <3>5, <3>6, <3>7, <3>8, <3>9 DEF LoopStep, LoopFault
  <2>3. pc'[l] = "finishing" => run'[l] = run[l] /\ status'[run[l]] \in Targets
    <3>1. CASE LoopBegin(l) \/ LoopRefused(l)
      BY <3>1 DEF LoopBegin, LoopRefused, HandleTypeOK
    <3>2. CASE Dispatch(l) BY <3>2 DEF Dispatch, HandleTypeOK
    <3>3. CASE ExecDone(l) \/ JudgeDone(l) BY <3>3 DEF ExecDone, JudgeDone, Settle, HandleTypeOK
    <3>4. ASSUME NEW target \in Targets, BeginFinish(l, target), pc'[l] = "finishing"
          PROVE  run'[l] = run[l] /\ status'[run[l]] \in Targets
      <4>1. FinishAggregates(status[run[l]], target) /\ run' = run
        BY <3>4 DEF BeginFinish, Pop, HandleTypeOK
      <4>2. FinishStatus(status[run[l]], target) \in Targets BY <2>1, <4>1, FinishType
      <4> QED BY <2>1, <3>4, <4>1, <4>2 DEF BeginFinish
    <3>5. CASE EndCancelled(l) \/ EndCompleted(l) \/ LoopError(l)
      BY <3>4, <3>5 DEF EndCancelled, EndCompleted, LoopError, Targets
    <3>6. CASE SweepRows(l) BY <3>6 DEF SweepRows, HandleTypeOK
    <3>7. CASE EndPaused(l) \/ FinishTotals(l) \/ FinishError(l)
      BY <3>7 DEF EndPaused, FinishTotals, FinishError, Pop, HandleTypeOK
    <3> QED BY <1>2, <3>1, <3>2, <3>3, <3>5, <3>6, <3>7 DEF LoopStep, LoopFault
  <2>4. ASSUME NEW k \in Loops, pc'[k] = "finishing"
        PROVE  status'[run'[k]] \in Targets \cup {"absent"}
    <3>1. CASE k = l BY <2>3, <2>4, <3>1
    <3>2. CASE k # l
      <4>1. pc[k] = "finishing" /\ run'[k] = run[k] BY <2>2, <2>4, <3>2
      <4>2. run[k] \in Runs /\ run[k] # run[l] BY <2>1, <3>2, <4>1 DEF Registered
      <4> QED BY <2>1, <4>1, <4>2 DEF Ended
    <3> QED BY <3>1, <3>2
  <2> QED BY <2>4 DEF Ended
<1>3. CASE Kill \/ Shutdown
  <2>1. NoHandles BY <1>3 DEF Kill, Shutdown
  <2> QED BY <2>1 DEF NoHandles, Ended
<1>4. CASE Recover
  BY <1>4 DEF Recover, handles, Stopped, Ended
<1> QED BY <1>1, <1>2, <1>3, <1>4 DEF Next

LEMMA InitRun == Init => RunInv
<1> SUFFICES ASSUME Init PROVE RunInv OBVIOUS
<1>1. Backed /\ Booked /\ Stopped /\ Ended BY DEF Init, Backed, Booked, Stopped, Ended
<1> QED BY <1>1, InitType DEF RunInv

LEMMA NextRun == RunInv /\ [Next]_vars => RunInv'
<1> SUFFICES ASSUME RunInv, [Next]_vars PROVE RunInv' OBVIOUS
<1>1. TypeInv' BY NextType DEF RunInv
<1>2. Ended'
  BY EndedStays DEF vars, db, handles, RunInv, Ended
<1>3. Backed' /\ Booked' /\ Stopped'
  <2>1. CASE \E r \in Runs : Requests(r)
    BY <2>1, RequestBacked, RequestBooked DEF RunInv
  <2>2. CASE \E l \in Loops : LoopStep(l) \/ LoopFault(l)
    BY <2>2, LoopBacked, LoopBooked DEF RunInv
  <2>3. CASE Kill \/ Shutdown \/ Recover
    BY <2>3, ProcessBacked, ProcessBooked DEF RunInv
  <2>4. CASE UNCHANGED vars
    BY <2>4 DEF vars, db, handles, bounds, RunInv, Backed, Booked, Stopped
  <2> QED BY <2>1, <2>2, <2>3, <2>4 DEF Next
<1> QED BY <1>1, <1>2, <1>3 DEF RunInv

-----------------------------------------------------------------------------
(* A run shown as running                                                   *)

ExecutedInv == up => \A r \in Runs : RowsFree(r) => Executed(r) /\ Waiting(r)

\* A step that sets no run running, takes no run its loop and spawns none.
LEMMA StillExecuted ==
    ASSUME ExecutedInv, up,
           \A r \in Runs : status'[r] = "running" => status[r] = "running",
           \A r \in Runs : RowsFree(r)' => RowsFree(r),
           \A r \in Runs : Active(r) => Active(r)',
           \A l \in Loops : pc'[l] = "created" => pc[l] = "created" /\ run'[l] = run[l]
    PROVE  ExecutedInv'
BY DEF ExecutedInv, Executed, Waiting

\* The same if one run is looked at by itself.
LEMMA OneRunExecuted ==
    ASSUME ExecutedInv, up, NEW r \in Runs,
           \A k \in Runs \ {r} : status'[k] = status[k] /\ rows'[k] = rows[k],
           \A k \in Runs \ {r} : Active(k) => Active(k)',
           \A l \in Loops : pc'[l] = "created" =>
              run'[l] = r \/ (pc[l] = "created" /\ run'[l] = run[l]),
           RowsFree(r)' => Executed(r)' /\ Waiting(r)'
    PROVE  ExecutedInv'
<1>1. ASSUME NEW k \in Runs \ {r}, RowsFree(k)' PROVE Executed(k)' /\ Waiting(k)'
  <2>1. RowsFree(k) BY <1>1 DEF RowsFree
  <2>2. Executed(k) /\ Waiting(k) BY <2>1 DEF ExecutedInv
  <2> QED BY <2>2 DEF Executed, Waiting
<1> QED BY <1>1 DEF ExecutedInv

LEMMA RequestExecuted ==
    ASSUME RunInv, ExecutedInv, NEW r \in Runs, Requests(r)
    PROVE  ExecutedInv'
<1> USE DEF RunInv, TypeInv, TypeOK, StoredTypeOK
<1>1. up
  BY DEF Requests, StartRun, PauseRun, ResumeRun, CancelRun, RetryCase, DeleteTask, Serving
<1>2. CASE StartRun(r)
  <2>1. status'[r] = "pending" /\ \A k \in Runs \ {r} : status'[k] = status[k] /\ rows'[k] = rows[k]
    BY <1>2 DEF StartRun
  <2>2. StartUnlessActive(r) BY <1>2 DEF StartRun
  <2>3. Executed(r)' /\ Waiting(r)' BY <2>1 DEF Executed, Waiting
  <2> QED BY <1>1, <2>1, <2>2, <2>3, StartBacked, OneRunExecuted
<1>3. CASE PauseRun(r)
  <2>1. \A k \in Runs : status'[k] = "running" => status[k] = "running" BY <1>3 DEF PauseRun
  <2>2. UNCHANGED <<rows, control, pc, run>> BY <1>3 DEF PauseRun
  <2> QED BY <1>1, <2>1, <2>2, StillExecuted DEF RowsFree, Active
<1>4. CASE ResumeRun(r)
  <2>1. UNCHANGED <<status, rows>> BY <1>4 DEF ResumeRun, db
  <2>2. CASE UNCHANGED <<control, pc, run>>
    BY <1>1, <2>1, <2>2, StillExecuted DEF RowsFree, Active
  <2>3. CASE status[r] = "paused" /\ \E l \in Loops : Spawn(r, l)
    <3>1. Executed(r)' /\ Waiting(r)' BY <2>1, <2>3 DEF Executed, Waiting
    <3> QED BY <1>1, <2>1, <2>3, <3>1, SpawnBacked, OneRunExecuted
  <2> QED BY <1>4, <2>2, <2>3 DEF ResumeRun
<1>5. CASE CancelRun(r)
  <2>1. \A k \in Runs : status'[k] = "running" => status[k] = "running" BY <1>5 DEF CancelRun
  <2>2. UNCHANGED <<rows, control, pc, run>> BY <1>5 DEF CancelRun
  <2> QED BY <1>1, <2>1, <2>2, StillExecuted DEF RowsFree, Active
<1>6. ASSUME NEW i \in RowIds, NEW j \in RowIds, RetryCase(r, i, j) PROVE ExecutedInv'
  <2>1. j > NumCases
    <3>1. status[r] # "absent" BY <1>6, RowOfStoredRun DEF RetryCase, Retryable
    <3>2. j \notin 1 .. NumCases BY <1>6, <3>1 DEF RetryCase, NextFree, Booked
    <3> QED BY <3>2, EvaluationAssumption DEF RowIds
  <2>2. rows'[r][j].st = "pending" /\ \A k \in Runs \ {r} : rows'[k] = rows[k] /\ status'[k] = status[k]
    BY <1>6 DEF RetryCase
  <2>3. ~ RowsFree(r)' BY <2>1, <2>2 DEF RowsFree
  <2>4. StartUnlessActive(r) BY <1>6 DEF RetryCase
  <2> QED BY <1>1, <2>2, <2>3, <2>4, StartBacked, OneRunExecuted
<1>7. CASE DeleteTask(r)
  <2>1. UNCHANGED <<control, pc, run>> BY <1>7 DEF DeleteTask, handles
  <2>2. status'[r] = "absent" /\ \A k \in Runs \ {r} : status'[k] = status[k] /\ rows'[k] = rows[k]
    BY <1>7 DEF DeleteTask
  <2>3. Executed(r)' /\ Waiting(r)' BY <2>2 DEF Executed, Waiting
  <2> QED BY <1>1, <2>1, <2>2, <2>3, OneRunExecuted DEF Active
<1> QED BY <1>2, <1>3, <1>4, <1>5, <1>6, <1>7 DEF Requests

LEMMA LoopExecuted ==
    ASSUME RunInv, ExecutedInv, NEW l \in Loops, LoopStep(l) \/ LoopFault(l)
    PROVE  ExecutedInv'
<1> USE DEF RunInv, TypeInv, TypeOK, StoredTypeOK
<1> PICK r \in Runs : r = run[l] BY LoopTables
<1>1. /\ pc[l] # "idle" /\ r = run[l] /\ control[r] = l /\ up /\ up'
      /\ \A k \in Runs \ {r} : status'[k] = status[k] /\ rows'[k] = rows[k]
  BY LoopTables
<1>2. rows[r] \in [RowIds -> Row] /\ status[r] \in RunStatus BY <1>1
<1>3. \A k \in Loops \ {l} : pc[k] # "idle" => run[k] # r BY <1>1 DEF Registered
<1>4. \A k \in Runs \ {r} : control[k] # l BY <1>1, EvaluationAssumption DEF Backed
\* The loop goes on.
<1>5. ASSUME UNCHANGED <<control, run>>, NEW where \in Sync \cup Busy,
             pc' = [pc EXCEPT ![l] = where]
      PROVE  ExecutedInv'
  <2>1. \A k \in Runs : Active(k) => Active(k)' BY <1>5 DEF Active, Live, Sync, Busy, HandleTypeOK
  <2>2. Active(r)'
    BY <1>1, <1>5, EvaluationAssumption DEF Active, Live, Sync, Busy, HandleTypeOK
  <2>3. \A k \in Loops : pc'[k] = "created" => k # l /\ pc[k] = "created" /\ run'[k] = run[k]
    BY <1>5 DEF HandleTypeOK, Sync, Busy
  <2>4. Executed(r)' /\ Waiting(r)' BY <1>3, <2>2, <2>3 DEF Executed, Waiting
  <2> QED BY <1>1, <2>1, <2>3, <2>4, OneRunExecuted
\* The loop ends, and leaves its run in another status.
<1>6. ASSUME Pop(l), status'[r] # "running" PROVE ExecutedInv'
  <2>1. Executed(r)' /\ Waiting(r)' BY <1>6 DEF Executed, Waiting
  <2>2. \A k \in Loops : pc'[k] = "created" => pc[k] = "created" /\ run'[k] = run[k]
    BY <1>1, <1>6, PopBacked
  <2> QED BY <1>1, <1>6, <2>1, <2>2, PopBacked, OneRunExecuted
<1>7. CASE LoopBegin(l) BY <1>5, <1>7 DEF LoopBegin, Sync
<1>8. CASE LoopRefused(l)
  <2>1. UNCHANGED <<status, rows, control, run>> /\ pc' = [pc EXCEPT ![l] = "done"] /\ pc[l] = "created"
    BY <1>8 DEF LoopRefused, db
  <2>2. \A k \in Loops : pc'[k] = "created" => pc[k] = "created" /\ run'[k] = run[k]
    BY <2>1 DEF HandleTypeOK
  <2>3. \A k \in Runs \ {r} : Active(k) => Active(k)' BY <1>4, <2>1 DEF Active, HandleTypeOK
  <2>4. RowsFree(r)' => Executed(r)' /\ Waiting(r)'
    <3>1. RowsFree(r) => status[r] # "running" BY <1>1, <2>1 DEF ExecutedInv, Waiting
    <3> QED BY <2>1, <3>1 DEF Executed, Waiting, RowsFree
  <2> QED BY <1>1, <2>2, <2>3, <2>4, OneRunExecuted
<1>9. CASE Dispatch(l)
  <2>1. CASE UNCHANGED <<rows, pc, cur>>
    BY <1>1, <1>9, <2>1, StillExecuted DEF Dispatch, RowsFree, Active
  <2>2. CASE pc' = [pc EXCEPT ![l] = "executing"] BY <1>5, <1>9, <2>2 DEF Dispatch, Busy
  <2> QED BY <1>9, <2>1, <2>2 DEF Dispatch
<1>10. CASE ExecDone(l) \/ JudgeDone(l)
  BY <1>5, <1>10 DEF ExecDone, JudgeDone, Settle, Sync, Busy
<1>11. CASE SweepRows(l) BY <1>5, <1>11 DEF SweepRows, Sync
<1>12. CASE EndPaused(l)
  BY <1>1, <1>6, <1>12 DEF EndPaused
<1>13. CASE EndCancelled(l) \/ EndCompleted(l) \/ LoopError(l)
  <2>1. PICK target \in Targets : BeginFinish(l, target)
    BY <1>13 DEF EndCancelled, EndCompleted, LoopError, Targets
  <2>2. CASE FinishAggregates(status[r], target)
    BY <1>1, <1>5, <2>1, <2>2 DEF BeginFinish, Sync
  <2>3. CASE ~FinishAggregates(status[r], target)
    <3>1. Pop(l) /\ status'[r] = status[r] /\ status[r] # "running"
      BY <1>1, <1>2, <2>1, <2>3, FinishType DEF BeginFinish
    <3> QED BY <1>6, <3>1
  <2> QED BY <2>2, <2>3
<1>14. CASE FinishTotals(l) \/ FinishError(l)
  <2>1. Pop(l) /\ status' = status /\ pc[l] = "finishing"
    BY <1>14 DEF FinishTotals, FinishError, db
  <2>2. status[r] # "running" BY <1>1, <2>1 DEF Ended, Targets
  <2> QED BY <1>6, <2>1, <2>2
<1> QED
  BY <1>7, <1>8, <1>9, <1>10, <1>11, <1>12, <1>13, <1>14 DEF LoopStep, LoopFault

\* FR-026: while the process serves requests, a run shown as running has a live
\* loop, whatever pauses, resumptions, cancels, deletions, exceptions and
\* restarts came before, as long as no case was retried.
THEOREM RunningIsAlive == Spec => []RunningRunHasLoop
<1>1. Init => ExecutedInv
  BY DEF Init, ExecutedInv, Executed, Waiting
<1>2. RunInv /\ ExecutedInv /\ [Next]_vars => ExecutedInv'
  <2> SUFFICES ASSUME RunInv, ExecutedInv, [Next]_vars PROVE ExecutedInv' OBVIOUS
  <2>1. CASE \E r \in Runs : Requests(r) BY <2>1, RequestExecuted
  <2>2. CASE \E l \in Loops : LoopStep(l) \/ LoopFault(l) BY <2>2, LoopExecuted
  <2>3. CASE Kill \/ Shutdown BY <2>3 DEF Kill, Shutdown, ExecutedInv
  <2>4. CASE Recover
    <3>1. \A r \in Runs : status'[r] # "running"
      BY <2>4 DEF Recover, Interrupts, RunInv, TypeInv, TypeOK, StoredTypeOK
    <3> QED BY <3>1 DEF ExecutedInv, Executed, Waiting
  <2>5. CASE UNCHANGED vars
    BY <2>5 DEF vars, db, handles, ExecutedInv, Executed, Waiting, Active, RowsFree
  <2> QED BY <2>1, <2>2, <2>3, <2>4, <2>5 DEF Next
<1>3. ExecutedInv => RunningRunHasLoop
  BY DEF ExecutedInv, Executed, RowsFree, RunningRunHasLoop, RetryFree, RunningIsExecuted
<1> QED BY InitRun, NextRun, <1>1, <1>2, <1>3, PTL DEF Spec

-----------------------------------------------------------------------------
(* The status of a run                                                      *)

Legal(r) ==
    \/ status'[r] \in {status[r], "absent"}
    \/ status[r] = "absent" /\ status'[r] = "pending"
    \/ status[r] # "absent" /\ RunStatusCan(status[r], status'[r])
    \/ status[r] # "absent" /\ Reopens(r)

LEMMA CanNotAbsent ==
    ASSUME NEW from \in RunStatus, NEW to, RunStatusCan(from, to) PROVE from # "absent"
BY DEF RunStatusCan, Ledger!RunStatusCan, Ledger!Transitions

LEMMA RequestLegal ==
    ASSUME RunInv, NEW r \in Runs, Requests(r)
    PROVE  \A k \in Runs : Legal(k)
<1> USE DEF RunInv, TypeInv, TypeOK, StoredTypeOK
<1>1. CASE StartRun(r) BY <1>1 DEF StartRun, Legal
<1>2. CASE PauseRun(r)
  BY <1>2 DEF PauseRun, Legal, RunStatusCan, Ledger!RunStatusCan, Ledger!Transitions
<1>3. CASE ResumeRun(r) BY <1>3 DEF ResumeRun, db, Legal
<1>4. CASE CancelRun(r)
  BY <1>4 DEF CancelRun, Legal, RunStatusCan, Ledger!RunStatusCan, Ledger!Transitions
<1>5. ASSUME NEW i \in RowIds, NEW j \in RowIds, RetryCase(r, i, j)
      PROVE  \A k \in Runs : Legal(k)
  <2>1. status[r] # "absent" BY <1>5, RowOfStoredRun DEF RetryCase, Retryable
  <2>2. status'[r] = "running" /\ \A k \in Runs \ {r} : status'[k] = status[k]
    BY <1>5 DEF RetryCase
  <2>3. rows[r][j].st = "none" /\ rows'[r][j].st = "pending"
    BY <1>5 DEF RetryCase, NextFree
  <2>4. Reopens(r) BY <2>2, <2>3 DEF Reopens
  <2> QED BY <2>1, <2>2, <2>4 DEF Legal
<1>6. CASE DeleteTask(r) BY <1>6 DEF DeleteTask, Legal
<1> QED BY <1>1, <1>2, <1>3, <1>4, <1>5, <1>6 DEF Requests

LEMMA LoopLegal ==
    ASSUME RunInv, NEW l \in Loops, LoopStep(l) \/ LoopFault(l)
    PROVE  \A k \in Runs : Legal(k)
<1> USE DEF RunInv, TypeInv, TypeOK, StoredTypeOK
<1> PICK r \in Runs : r = run[l] BY LoopTables
<1>1. status[r] \in RunStatus OBVIOUS
<1>2. status'[r] = status[r] \/ RunStatusCan(status[r], status'[r])
  <2>1. CASE LoopBegin(l)
    BY <2>1 DEF LoopBegin, Startable, RunStatusCan, Ledger!RunStatusCan, Ledger!Transitions
  <2>2. CASE LoopRefused(l) \/ Dispatch(l) BY <2>2 DEF LoopRefused, Dispatch, db
  <2>3. CASE ExecDone(l) \/ JudgeDone(l) BY <2>3 DEF ExecDone, JudgeDone, Settle, db
  <2>4. CASE EndCancelled(l) \/ EndCompleted(l) \/ LoopError(l)
    <3>1. PICK target \in Targets : BeginFinish(l, target)
      BY <2>4 DEF EndCancelled, EndCompleted, LoopError, Targets
    <3> QED BY <1>1, <3>1, FinishMoves DEF BeginFinish
  <2>5. CASE EndPaused(l)
    BY <2>5 DEF EndPaused, RunStatusCan, Ledger!RunStatusCan, Ledger!Transitions
  <2>6. CASE SweepRows(l) \/ FinishTotals(l) \/ FinishError(l)
    BY <2>6 DEF SweepRows, FinishTotals, FinishError, db
  <2> QED BY <2>1, <2>2, <2>3, <2>4, <2>5, <2>6 DEF LoopStep, LoopFault
<1> QED BY <1>1, <1>2, LoopTables, CanNotAbsent DEF Legal

LEMMA ProcessLegal ==
    ASSUME RunInv, Kill \/ Shutdown \/ Recover
    PROVE  \A k \in Runs : Legal(k)
<1> USE DEF RunInv, TypeInv, TypeOK, StoredTypeOK
<1>1. CASE Kill BY <1>1 DEF Kill, db, Legal
<1>2. CASE Shutdown BY <1>2, CanNotAbsent DEF Shutdown, Finishes, Legal
<1>3. CASE Recover
  BY <1>3 DEF Recover, Interrupts, Legal, RunStatusCan, Ledger!RunStatusCan, Ledger!Transitions
<1> QED BY <1>1, <1>2, <1>3

\* FR-023: whoever writes the status, a request, a loop, recovery or the stop of
\* the process, it moves along RUN_STATUS_TRANSITIONS; the one step that need not
\* is the retry that adds a row and shows the run as running.
THEOREM StatusMovesLegally == Spec => LegalRunTransitions
<1> DEFINE A == \A r \in Runs :
                  \/ status'[r] \in {status[r], "absent"}
                  \/ status[r] = "absent" /\ status'[r] = "pending"
                  \/ status[r] # "absent" /\ RunStatusCan(status[r], status'[r])
                  \/ status[r] # "absent" /\ Reopens(r)
<1>1. RunInv /\ [Next]_vars => [A]_vars
  <2> SUFFICES ASSUME RunInv, Next PROVE \A r \in Runs : Legal(r) BY DEF Legal
  <2>1. CASE \E r \in Runs : Requests(r) BY <2>1, RequestLegal
  <2>2. CASE \E l \in Loops : LoopStep(l) \/ LoopFault(l) BY <2>2, LoopLegal
  <2>3. CASE Kill \/ Shutdown \/ Recover BY <2>3, ProcessLegal
  <2> QED BY <2>1, <2>2, <2>3 DEF Next
<1> QED BY InitRun, NextRun, <1>1, PTL DEF Spec, LegalRunTransitions

-----------------------------------------------------------------------------
(* A row shown as running                                                   *)

HasWorker(r, i) == \E l \in Loops : pc[l] \in Busy /\ run[l] = r /\ cur[l] = i

\* The invariant row by row: the first life of a run, before any stop or fault.
Worked(r, i) == FirstLife(r) /\ rows[r][i].st = "running" => HasWorker(r, i)

WorkedInv == Undisturbed => \A r \in Runs : \A i \in RowIds : Worked(r, i)

\* A step that sets no row running and takes no loop from its row.
LEMMA StillWorked ==
    ASSUME TypeInv, \A r \in Runs : \A i \in RowIds : Worked(r, i),
           \A r \in Runs : lives[r] <= lives'[r] /\ lives[r] \in Nat /\ lives'[r] \in Nat,
           \A r \in Runs : \A i \in RowIds :
              rows'[r][i].st = "running" => rows[r][i].st = "running",
           \A l \in Loops : pc[l] \in Busy =>
              pc'[l] \in Busy /\ run'[l] = run[l] /\ cur'[l] = cur[l]
    PROVE  \A r \in Runs : \A i \in RowIds : Worked(r, i)'
<1> SUFFICES ASSUME NEW r \in Runs, NEW i \in RowIds, FirstLife(r)', rows'[r][i].st = "running"
             PROVE  HasWorker(r, i)'
  BY DEF Worked
<1>1. FirstLife(r) /\ rows[r][i].st = "running" BY DEF FirstLife
<1>2. HasWorker(r, i) BY <1>1 DEF Worked
<1> QED BY <1>2 DEF HasWorker

LEMMA RequestWorked ==
    ASSUME RunInv, \A r \in Runs : \A i \in RowIds : Worked(r, i), NEW r \in Runs, Requests(r)
    PROVE  \A k \in Runs : \A i \in RowIds : Worked(k, i)'
<1> USE DEF RunInv, TypeInv, TypeOK, StoredTypeOK
<1>1. ASSUME NEW l \in Loops, pc[l] \in Busy
      PROVE  pc'[l] \in Busy /\ run'[l] = run[l] /\ cur'[l] = cur[l]
  <2>1. CASE UNCHANGED <<pc, run, cur>> BY <1>1, <2>1
  <2>2. CASE StartUnlessActive(r)
    BY <1>1, <2>2, StartBacked DEF Busy, Live, StartUnlessActive, Spawn, handles
  <2>3. CASE \E k \in Loops : Spawn(r, k)
    BY <1>1, <2>3, SpawnBacked DEF Busy, Live, Spawn
  <2> QED
    BY <2>1, <2>2, <2>3
    DEF Requests, StartRun, PauseRun, ResumeRun, CancelRun, RetryCase, DeleteTask, handles
<1>2. ASSUME NEW k \in Runs
      PROVE  lives[k] <= lives'[k] /\ lives[k] \in Nat /\ lives'[k] \in Nat
  <2>1. lives[k] \in Nat OBVIOUS
  <2>2. lives' = lives \/ lives' = [lives EXCEPT ![r] = @ + 1]
    BY DEF Requests, StartRun, PauseRun, ResumeRun, CancelRun, RetryCase, DeleteTask, bounds
  <2> QED BY <2>1, <2>2
<1>3. ASSUME NEW k \in Runs, NEW i \in RowIds, rows'[k][i].st = "running"
      PROVE  rows[k][i].st = "running"
  <2>1. CASE StartRun(r)
    <3>1. FreshRows[i].st # "running" BY DEF FreshRows, NoRow
    <3> QED BY <1>3, <2>1, <3>1 DEF StartRun
  <2>2. CASE PauseRun(r) \/ ResumeRun(r) \/ CancelRun(r)
    BY <1>3, <2>2 DEF PauseRun, ResumeRun, CancelRun, db
  <2>3. ASSUME NEW a \in RowIds, NEW j \in RowIds, RetryCase(r, a, j)
        PROVE  rows[k][i].st = "running"
    <3>1. rows'[r][j].st = "pending" BY <2>3 DEF RetryCase
    <3>2. k # r \/ i # j BY <1>3, <3>1
    <3>3. rows'[k][i] = rows[k][i] BY <2>3, <3>2 DEF RetryCase
    <3> QED BY <1>3, <3>3
  <2>4. CASE DeleteTask(r) BY <1>3, <2>4 DEF DeleteTask, NoRow
  <2> QED BY <2>1, <2>2, <2>3, <2>4 DEF Requests
<1> QED BY <1>1, <1>2, <1>3, StillWorked

LEMMA LoopWorked ==
    ASSUME RunInv, \A r \in Runs : \A i \in RowIds : Worked(r, i), NEW l \in Loops, LoopStep(l)
    PROVE  \A k \in Runs : \A i \in RowIds : Worked(k, i)'
<1> USE DEF RunInv, TypeInv, TypeOK, StoredTypeOK
<1> PICK r \in Runs : r = run[l] BY LoopTables
<1>1. lives' = lives /\ pc[l] # "idle" BY LoopTables
<1>2. \A k \in Runs : lives[k] <= lives'[k] /\ lives[k] \in Nat /\ lives'[k] \in Nat BY <1>1
<1>3. CASE LoopBegin(l) \/ LoopRefused(l)
  <2>1. UNCHANGED <<rows, run, cur>> /\ \A k \in Loops : pc[k] \in Busy => pc'[k] = pc[k]
    BY <1>3 DEF LoopBegin, LoopRefused, db, Busy, HandleTypeOK
  <2> QED BY <1>2, <2>1, StillWorked
<1>4. CASE Dispatch(l)
  <2>1. CASE UNCHANGED <<rows, pc, cur>>
    BY <1>2, <1>4, <2>1, StillWorked DEF Dispatch
  <2>2. ASSUME NEW i \in RowIds, rows' = [rows EXCEPT ![r][i].st = "running"],
               pc' = [pc EXCEPT ![l] = "executing"], cur' = [cur EXCEPT ![l] = i]
        PROVE  \A k \in Runs : \A j \in RowIds : Worked(k, j)'
    <3>1. pc[l] = "between" /\ run' = run BY <1>4 DEF Dispatch
    <3>2. ASSUME NEW k \in Runs, NEW j \in RowIds, FirstLife(k)', rows'[k][j].st = "running"
          PROVE  HasWorker(k, j)'
      <4>1. CASE k = r /\ j = i
        <5>1. pc'[l] = "executing" /\ cur'[l] = i /\ run'[l] = r BY <2>2, <3>1 DEF HandleTypeOK
        <5> QED BY <4>1, <5>1 DEF HasWorker, Busy
      <4>2. CASE k # r \/ j # i
        <5>1. rows'[k][j] = rows[k][j] BY <2>2, <4>2
        <5>2. HasWorker(k, j) BY <1>1, <3>2, <5>1 DEF Worked, FirstLife
        <5>3. PICK m \in Loops : pc[m] \in Busy /\ run[m] = k /\ cur[m] = j
          BY <5>2 DEF HasWorker
        <5>4. m # l BY <3>1, <5>3 DEF Busy
        <5>5. pc'[m] = pc[m] /\ cur'[m] = cur[m] BY <2>2, <5>4 DEF HandleTypeOK
        <5> QED BY <3>1, <5>3, <5>5 DEF HasWorker
      <4> QED BY <4>1, <4>2
    <3> QED BY <3>2 DEF Worked
  <2> QED BY <1>4, <2>1, <2>2 DEF Dispatch
<1>5. ASSUME NEW s \in SettledRow, pc[l] \in Busy, Settle(l, s)
      PROVE  \A k \in Runs : \A i \in RowIds : Worked(k, i)'
  <2>1. cur[l] \in RowIds BY <1>5 DEF HandleTypeOK
  <2>2. rows'[r][cur[l]].st # "running"
    <3>1. rows[r][cur[l]] \in Row BY <2>1
    <3>2. s # "running" BY DEF SettledRow, Ledger!SettledRow
    <3>3. CASE rows[r][cur[l]].st = "none" BY <1>5, <3>3 DEF Settle
    <3>4. CASE rows[r][cur[l]].st # "none"
      <4>1. rows'[r][cur[l]].st = s BY <1>5, <2>1, <3>1, <3>4 DEF Settle, Row
      <4> QED BY <3>2, <4>1
    <3> QED BY <3>3, <3>4
  <2>3. ASSUME NEW k \in Runs, NEW i \in RowIds, FirstLife(k)', rows'[k][i].st = "running"
        PROVE  HasWorker(k, i)'
    <3>1. k # r \/ i # cur[l] BY <2>2, <2>3
    <3>2. rows'[k][i] = rows[k][i] BY <1>5, <2>1, <3>1 DEF Settle
    <3>3. HasWorker(k, i) BY <1>1, <2>3, <3>2 DEF Worked, FirstLife
    <3>4. PICK m \in Loops : pc[m] \in Busy /\ run[m] = k /\ cur[m] = i BY <3>3 DEF HasWorker
    <3>5. m # l BY <3>1, <3>4
    <3>6. pc'[m] = pc[m] /\ cur'[m] = cur[m] /\ run'[m] = run[m]
      BY <1>5, <3>5 DEF Settle, HandleTypeOK
    <3> QED BY <3>4, <3>6 DEF HasWorker
  <2> QED BY <2>3 DEF Worked
<1>6. CASE ExecDone(l)
  <2>1. pc[l] = "executing" BY <1>6 DEF ExecDone
  <2>2. CASE Settle(l, "execution_failed") \/ Settle(l, "cancelled")
    BY <1>5, <2>1, <2>2 DEF Busy, SettledRow, Ledger!SettledRow
  <2>3. CASE pc' = [pc EXCEPT ![l] = "judging"] /\ UNCHANGED <<db, run, cur>>
    <3>1. UNCHANGED <<rows, run, cur>> /\ \A k \in Loops : pc[k] \in Busy => pc'[k] \in Busy
      BY <2>3 DEF db, Busy, HandleTypeOK
    <3> QED BY <1>2, <3>1, StillWorked
  <2> QED BY <1>6, <2>2, <2>3 DEF ExecDone
<1>7. CASE JudgeDone(l)
  BY <1>5, <1>7 DEF JudgeDone, Busy, SettledRow, Ledger!SettledRow
<1>8. CASE SweepRows(l)
  <2>1. pc[l] = "between" /\ UNCHANGED <<cur, run>> /\ pc' = [pc EXCEPT ![l] = "swept"]
    BY <1>8 DEF SweepRows
  <2>2. \A k \in Loops : pc[k] \in Busy => pc'[k] = pc[k]
    BY <2>1 DEF Busy, HandleTypeOK
  <2>3. rows' = [rows EXCEPT ![r] = CancelOpenRows(rows[r])]
    BY <1>8 DEF SweepRows
  <2>4. ASSUME NEW k \in Runs, NEW i \in RowIds, rows'[k][i].st = "running"
        PROVE  rows[k][i].st = "running"
    <3>1. rows[r] \in [RowIds -> Row] OBVIOUS
    <3>2. CancelOpenRows(rows[r])[i].st # "running" BY <3>1, CancelOpenRow DEF OpenRow, Ledger!OpenRow
    <3> QED BY <2>3, <2>4, <3>2
  <2> QED BY <1>2, <2>1, <2>2, <2>4, StillWorked
<1>9. CASE EndPaused(l) \/ EndCancelled(l) \/ EndCompleted(l) \/ FinishTotals(l)
  <2>1. pc[l] \in Sync /\ UNCHANGED <<cur, rows>>
        /\ (Pop(l) \/ (run' = run /\ pc' = [pc EXCEPT ![l] = "finishing"]))
    BY <1>9 DEF EndPaused, EndCancelled, EndCompleted, FinishTotals, BeginFinish, Sync
  <2>2. \A k \in Loops : pc[k] \in Busy => pc'[k] = pc[k] /\ run'[k] = run[k]
    BY <2>1 DEF Pop, Busy, Sync, HandleTypeOK
  <2> QED BY <1>2, <2>1, <2>2, StillWorked
<1> QED BY <1>3, <1>4, <1>6, <1>7, <1>8, <1>9 DEF LoopStep

\* FR-027: until the first stop or fault, a row shown as running is the current
\* row of a live loop, of exactly the run it belongs to.
THEOREM RunningRowIsWorked == Spec => []RunningRowHasWorker
<1>1. Init => WorkedInv
  BY DEF Init, WorkedInv, Worked, NoRow
<1>2. RunInv /\ WorkedInv /\ [Next]_vars => WorkedInv'
  <2> SUFFICES ASSUME RunInv, WorkedInv, [Next]_vars, Undisturbed'
               PROVE  \A r \in Runs : \A i \in RowIds : Worked(r, i)'
    BY DEF WorkedInv
  <2> USE DEF RunInv, TypeInv, TypeOK
  <2>1. CASE \E r \in Runs : Requests(r)
    <3>1. UNCHANGED <<restarts, faults>>
      BY <2>1 DEF Requests, StartRun, PauseRun, ResumeRun, CancelRun, RetryCase, DeleteTask, bounds
    <3> QED BY <2>1, <3>1, RequestWorked DEF WorkedInv, Undisturbed
  <2>2. CASE \E l \in Loops : LoopStep(l)
    <3>1. UNCHANGED <<restarts, faults>>
      BY <2>2 DEF LoopStep, LoopBegin, LoopRefused, Dispatch, ExecDone, JudgeDone, Settle,
                  SweepRows, EndCancelled, EndPaused, EndCompleted, BeginFinish, FinishTotals, bounds
    <3> QED BY <2>2, <3>1, LoopWorked DEF WorkedInv, Undisturbed
  <2>3. CASE \E l \in Loops : LoopFault(l)
    BY <2>3 DEF LoopFault, LoopError, FinishError, Undisturbed
  <2>4. CASE Kill \/ Shutdown BY <2>4 DEF Kill, Shutdown, Undisturbed
  <2>5. CASE Recover BY <2>5 DEF Recover, bounds, Stopped, Undisturbed
  <2>6. CASE UNCHANGED vars
    BY <2>6 DEF vars, db, handles, bounds, WorkedInv, Undisturbed, Worked, HasWorker, FirstLife
  <2> QED BY <2>1, <2>2, <2>3, <2>4, <2>5, <2>6 DEF Next
<1>3. WorkedInv => RunningRowHasWorker
  BY DEF WorkedInv, Worked, HasWorker, RunningRowHasWorker
<1> QED BY InitRun, NextRun, <1>1, <1>2, <1>3, PTL DEF Spec

=============================================================================
