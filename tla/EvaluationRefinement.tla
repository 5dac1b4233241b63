------------------------ MODULE EvaluationRefinement ------------------------
(***************************************************************************)
(* The evaluation engine implements EvaluationLedger, for any number of    *)
(* runs, loops, cases, retries, restarts, faults and reused keys.          *)
(*                                                                         *)
(* A step of the engine that touches the tables is allowed by the ledger   *)
(* only because of what the loop still knows when it takes the step.  The  *)
(* agenda of a loop says what that is: its run is running or paused unless *)
(* the loop has been told of the cancel (so a row starts only there), the  *)
(* list it took at its start holds pending rows only and every first       *)
(* attempt that is still pending (so a run completes only when none is     *)
(* left; once it has swept the rows of a cancelled run the list no longer  *)
(* counts), and its current row is running (so a result is recorded once). *)
(* It is kept for the first run stored under a primary key, as long as it  *)
(* is stored: a loop that outlives its run knows nothing of a second one.  *)
(***************************************************************************)
EXTENDS EvaluationProofs

Agenda(l) ==
    pc[l] \in Executing /\ FirstLife(run[l]) /\ status[run[l]] # "absent" =>
        /\ \/ status[run[l]] \in {"running", "paused"}
           \/ status[run[l]] = "cancelled" /\ cancelEvent[l]
        /\ pc[l] # "swept" =>
             /\ \A i \in queue[l] : rows[run[l]][i].st = "pending"
             /\ \A i \in RowIds :
                  rows[run[l]][i].st = "pending" /\ rows[run[l]][i].attempt = 1 => i \in queue[l]
        /\ pc[l] \in Busy => rows[run[l]][cur[l]].st = "running"

Agendas == \A l \in Loops : Agenda(l)

\* Nothing is stored, and no loop works, under a key that was never given out.
Unused ==
    \A r \in Runs : lives[r] = 0 =>
        status[r] = "absent" /\ \A l \in Loops : pc[l] # "idle" => run[l] # r

\* Attempts are counted from 1, so the rows a retry appends are never first attempts.
Numbered ==
    \A r \in Runs : \A i \in RowIds : rows[r][i].st # "none" => rows[r][i].attempt # 0

AgendaInv == RunInv /\ Agendas /\ Unused /\ Numbered

-----------------------------------------------------------------------------
(* The agenda of a loop, while others act                                   *)

LEMMA OthersLeaveAgenda ==
    ASSUME NEW l \in Loops, Agenda(l), FirstLife(run[l])' => FirstLife(run[l]),
           pc'[l] = pc[l], run'[l] = run[l], cur'[l] = cur[l], queue'[l] = queue[l],
           cancelEvent[l] => cancelEvent'[l],
           status'[run[l]] # "absent" => rows'[run[l]] = rows[run[l]],
           \/ status'[run[l]] = status[run[l]]
           \/ status'[run[l]] = "absent"
           \/ status[run[l]] # "absent" /\ status'[run[l]] \in {"running", "paused"}
           \/ status[run[l]] # "absent" /\ status'[run[l]] = "cancelled" /\ cancelEvent'[l]
    PROVE  Agenda(l)'
BY DEF Agenda

LEMMA NotExecuting ==
    ASSUME NEW l \in Loops, pc'[l] \notin Executing PROVE Agenda(l)'
BY DEF Agenda

\* An attempt behind another one is not the first.
LEMMA NextIsNotFirst == \A n \in Nat \ {0} : n + 1 # 1 OBVIOUS

\* A retry appends a second or later attempt, in a place that was empty.
LEMMA RetryLeavesAgenda ==
    ASSUME RunInv, Numbered, NEW l \in Loops, Agenda(l), run[l] \in Runs,
           NEW r \in Runs, NEW i \in RowIds, NEW j \in RowIds, RetryCase(r, i, j),
           pc'[l] = pc[l], run'[l] = run[l]
    PROVE  Agenda(l)'
<1> USE DEF RunInv, TypeInv, TypeOK, StoredTypeOK
<1>1. cur' = cur /\ queue' = queue /\ lives' = lives
      /\ (pc[l] \in Live => cancelEvent'[l] = cancelEvent[l])
  BY DEF RetryCase, StartUnlessActive, Spawn, handles, bounds, Live, Sync, HandleTypeOK
<1>2. \A k \in Runs \ {r} : status'[k] = status[k] /\ rows'[k] = rows[k]
  BY DEF RetryCase
<1>3. /\ status[r] # "absent" /\ status'[r] = "running" /\ rows[r][j].st = "none"
      /\ rows'[r][j].st = "pending" /\ rows'[r][j].attempt # 1
      /\ \A k \in RowIds \ {j} : rows'[r][k] = rows[r][k]
  <2>1. status[r] # "absent" BY RowOfStoredRun DEF RetryCase, Retryable
  <2>2. rows[r][i].attempt \in Nat \ {0}
    <3>1. rows[r][i] \in Row OBVIOUS
    <3> QED BY <3>1 DEF RetryCase, Retryable, Numbered, Row
  <2>3. rows'[r][j].attempt = rows[r][i].attempt + 1 BY DEF RetryCase
  <2>4. rows'[r][j].attempt # 1 BY <2>2, <2>3, NextIsNotFirst, Zenon
  <2> QED BY <2>1, <2>4 DEF RetryCase, NextFree
<1>4. ASSUME pc[l] \in Executing PROVE cancelEvent'[l] = cancelEvent[l]
  BY <1>1, <1>4 DEF Executing, Live, Sync
<1>5. CASE run[l] # r
  BY <1>1, <1>2, <1>4, <1>5 DEF Agenda, FirstLife
<1>6. CASE run[l] = r /\ pc[l] \in Executing /\ FirstLife(r)
  <2>1. /\ pc[l] # "swept"
        /\ \A k \in queue[l] : k \in RowIds /\ rows[r][k].st = "pending"
        /\ \A k \in RowIds : rows[r][k].st = "pending" /\ rows[r][k].attempt = 1 => k \in queue[l]
        /\ pc[l] \in Busy => rows[r][cur[l]].st = "running" /\ cur[l] \in RowIds
    <3>1. pc[l] # "swept" BY DEF RetryCase, Serving, EventLoopFree, Sync
    <3> QED BY <1>3, <1>6, <3>1 DEF Agenda, HandleTypeOK
  <2>2. \A k \in queue'[l] : rows'[r][k].st = "pending"
    BY <1>1, <1>3, <2>1
  <2>3. \A k \in RowIds : rows'[r][k].st = "pending" /\ rows'[r][k].attempt = 1 => k \in queue'[l]
    BY <1>1, <1>3, <2>1
  <2>4. pc'[l] \in Busy => rows'[r][cur'[l]].st = "running"
    <3> SUFFICES ASSUME pc[l] \in Busy PROVE rows'[r][cur[l]].st = "running" BY <1>1
    <3>1. cur[l] # j BY <1>3, <2>1
    <3> QED BY <1>3, <2>1, <3>1
  <2> QED BY <1>3, <1>6, <2>2, <2>3, <2>4 DEF Agenda
<1>7. CASE run[l] = r /\ ~ (pc[l] \in Executing /\ FirstLife(r))
  BY <1>1, <1>7 DEF Agenda, FirstLife
<1> QED BY <1>5, <1>6, <1>7

LEMMA RequestAgendas ==
    ASSUME AgendaInv, NEW r \in Runs, Requests(r)
    PROVE  Agendas'
<1> USE DEF AgendaInv, RunInv, TypeInv, TypeOK, StoredTypeOK
<1> SUFFICES ASSUME NEW l \in Loops PROVE Agenda(l)' BY DEF Agendas
<1>1. Agenda(l) BY DEF Agendas
<1>2. CASE pc'[l] \notin Executing BY <1>2, NotExecuting
<1>3. CASE pc'[l] \in Executing
  <2>1. /\ pc[l] = pc'[l] /\ run'[l] = run[l] /\ cur'[l] = cur[l] /\ queue'[l] = queue[l]
        /\ run[l] \in Runs /\ control[run[l]] = l
    <3>1. \A k \in Loops : Spawn(r, k) =>
            pc[l] = pc'[l] /\ run'[l] = run[l] /\ cur'[l] = cur[l] /\ queue'[l] = queue[l]
      BY <1>3 DEF Spawn, Executing, HandleTypeOK
    <3>2. pc[l] = pc'[l] /\ run'[l] = run[l] /\ cur'[l] = cur[l] /\ queue'[l] = queue[l]
      BY <3>1 DEF Requests, StartRun, PauseRun, ResumeRun, CancelRun, RetryCase, DeleteTask,
                  StartUnlessActive, handles
    <3> QED BY <1>3, <3>2 DEF Registered, Executing
  <2>2. CASE StartRun(r)
    <3>1. CASE run[l] = r
      <4>1. lives[r] # 0 /\ lives[r] \in Nat BY <1>3, <2>1, <3>1 DEF Unused, Executing
      <4>2. ~ FirstLife(r)' BY <2>2, <4>1 DEF StartRun, FirstLife
      <4> QED BY <2>1, <3>1, <4>2 DEF Agenda
    <3>2. CASE run[l] # r
      <4>1. status'[run[l]] = status[run[l]] /\ rows'[run[l]] = rows[run[l]]
            /\ lives'[run[l]] = lives[run[l]]
        BY <2>1, <2>2, <3>2 DEF StartRun
      <4>2. cancelEvent'[l] = cancelEvent[l]
        BY <1>3, <2>1, <2>2 DEF StartRun, StartUnlessActive, Spawn, handles, Executing, HandleTypeOK
      <4> QED BY <1>1, <2>1, <4>1, <4>2, OthersLeaveAgenda DEF FirstLife
    <3> QED BY <3>1, <3>2
  <2>3. CASE PauseRun(r)
    <3>1. UNCHANGED <<rows, cancelEvent, lives>>
          /\ (status'[run[l]] = status[run[l]]
               \/ (status[run[l]] # "absent" /\ status'[run[l]] = "paused"))
      BY <2>1, <2>3 DEF PauseRun, bounds
    <3> QED BY <1>1, <2>1, <3>1, OthersLeaveAgenda DEF FirstLife
  <2>4. CASE ResumeRun(r)
    <3>1. UNCHANGED <<status, rows, lives>> BY <2>4 DEF ResumeRun, db, bounds
    <3>2. cancelEvent'[l] = cancelEvent[l]
      BY <1>3, <2>1, <2>4 DEF ResumeRun, Spawn, Executing, HandleTypeOK
    <3> QED BY <1>1, <2>1, <3>1, <3>2, OthersLeaveAgenda DEF FirstLife
  <2>5. CASE CancelRun(r)
    <3>1. UNCHANGED <<rows, lives>> BY <2>5 DEF CancelRun, bounds
    <3>2. cancelEvent[l] => cancelEvent'[l] BY <2>5 DEF CancelRun
    <3>3. \/ status'[run[l]] = status[run[l]]
          \/ status[run[l]] # "absent" /\ status'[run[l]] = "cancelled" /\ cancelEvent'[l]
      BY <2>1, <2>5 DEF CancelRun
    <3> QED BY <1>1, <2>1, <3>1, <3>2, <3>3, OthersLeaveAgenda DEF FirstLife
  <2>6. ASSUME NEW i \in RowIds, NEW j \in RowIds, RetryCase(r, i, j) PROVE Agenda(l)'
    BY <1>1, <2>1, <2>6, RetryLeavesAgenda
  <2>7. CASE DeleteTask(r)
    <3>1. UNCHANGED <<cancelEvent, lives>> BY <2>7 DEF DeleteTask, handles, bounds
    <3>2. \/ status'[run[l]] = "absent"
          \/ status'[run[l]] = status[run[l]] /\ rows'[run[l]] = rows[run[l]]
      BY <2>1, <2>7 DEF DeleteTask
    <3> QED BY <1>1, <2>1, <3>1, <3>2, OthersLeaveAgenda DEF FirstLife
  <2> QED BY <2>2, <2>3, <2>4, <2>5, <2>6, <2>7 DEF Requests
<1> QED BY <1>2, <1>3

LEMMA RequestUnused ==
    ASSUME AgendaInv, NEW r \in Runs, Requests(r)
    PROVE  Unused' /\ Numbered'
<1> USE DEF AgendaInv, RunInv, TypeInv, TypeOK, StoredTypeOK
<1>1. CASE StartRun(r)
  <2>1. Unused'
    <3> SUFFICES ASSUME NEW k \in Runs, lives'[k] = 0
                 PROVE  status'[k] = "absent" /\ \A l \in Loops : pc'[l] # "idle" => run'[l] # k
      BY DEF Unused
    <3>1. k # r BY <1>1 DEF StartRun
    <3>2. lives[k] = 0 /\ status'[k] = status[k] BY <1>1, <3>1 DEF StartRun
    <3>3. \A l \in Loops : pc'[l] # "idle" => run'[l] = r \/ (run'[l] = run[l] /\ pc[l] # "idle")
      BY <1>1 DEF StartRun, StartUnlessActive, Spawn, handles, HandleTypeOK
    <3> QED BY <3>1, <3>2, <3>3 DEF Unused
  <2>2. \A i \in RowIds : FreshRows[i].st # "none" => FreshRows[i].attempt # 0
    BY DEF FreshRows, NoRow
  <2>3. Numbered' BY <1>1, <2>2 DEF StartRun, Numbered
  <2> QED BY <2>1, <2>3
<1>2. CASE PauseRun(r) \/ CancelRun(r) \/ DeleteTask(r)
  <2>1. UNCHANGED <<pc, run, lives>> /\ \A k \in Runs : status[k] = "absent" => status'[k] = "absent"
    BY <1>2 DEF PauseRun, CancelRun, DeleteTask, handles, bounds
  <2>2. Unused' BY <2>1 DEF Unused
  <2>3. \A k \in Runs : rows'[k] = rows[k] \/ rows'[k] = [i \in RowIds |-> NoRow]
    BY <1>2 DEF PauseRun, CancelRun, DeleteTask
  <2>4. Numbered' BY <2>3 DEF Numbered, NoRow
  <2> QED BY <2>2, <2>4
<1>3. CASE ResumeRun(r)
  <2>1. UNCHANGED <<status, rows, lives>> BY <1>3 DEF ResumeRun, db, bounds
  <2>2. \A l \in Loops : pc'[l] # "idle" =>
           (run'[l] = run[l] /\ pc[l] # "idle") \/ (run'[l] = r /\ status[r] = "paused")
    BY <1>3 DEF ResumeRun, Spawn, HandleTypeOK
  <2> QED BY <2>1, <2>2 DEF Unused, Numbered
<1>4. ASSUME NEW i \in RowIds, NEW j \in RowIds, RetryCase(r, i, j) PROVE Unused' /\ Numbered'
  <2>1. status[r] # "absent" BY <1>4, RowOfStoredRun DEF RetryCase, Retryable
  <2>2. lives' = lives /\ \A k \in Runs \ {r} : status'[k] = status[k] /\ rows'[k] = rows[k]
    BY <1>4 DEF RetryCase, bounds
  <2>3. \A l \in Loops : pc'[l] # "idle" => run'[l] = r \/ (run'[l] = run[l] /\ pc[l] # "idle")
    BY <1>4 DEF RetryCase, StartUnlessActive, Spawn, handles, HandleTypeOK
  <2>4. lives[r] # 0 BY <2>1 DEF Unused
  <2>5. Unused' BY <2>2, <2>3, <2>4 DEF Unused
  <2>6. rows[r][i].attempt \in Nat
    <3>1. rows[r][i] \in Row OBVIOUS
    <3> QED BY <3>1 DEF Row
  <2>7. rows'[r][j].attempt # 0 /\ \A k \in RowIds \ {j} : rows'[r][k] = rows[r][k]
    BY <1>4, <2>6 DEF RetryCase
  <2> QED BY <2>2, <2>5, <2>7 DEF Numbered
<1> QED BY <1>1, <1>2, <1>3, <1>4 DEF Requests

-----------------------------------------------------------------------------
(* The agenda of a loop, while it works                                     *)

\* What a loop does to the handles, it does to its own.
LEMMA OwnHandle ==
    ASSUME RunInv, NEW l \in Loops, LoopStep(l) \/ LoopFault(l)
    PROVE  \A k \in Loops \ {l} :
              /\ pc'[k] = pc[k] /\ run'[k] = run[k] /\ cur'[k] = cur[k]
              /\ queue'[k] = queue[k] /\ cancelEvent'[k] = cancelEvent[k]
<1> SUFFICES ASSUME NEW k \in Loops \ {l}
             PROVE  /\ pc'[k] = pc[k] /\ run'[k] = run[k] /\ cur'[k] = cur[k]
                    /\ queue'[k] = queue[k] /\ cancelEvent'[k] = cancelEvent[k]
  OBVIOUS
<1> USE DEF RunInv, TypeInv, TypeOK, HandleTypeOK
<1>1. CASE LoopBegin(l) BY <1>1 DEF LoopBegin
<1>2. CASE LoopRefused(l) BY <1>2 DEF LoopRefused
<1>3. CASE Dispatch(l) BY <1>3 DEF Dispatch
<1>4. CASE ExecDone(l) \/ JudgeDone(l) BY <1>4 DEF ExecDone, JudgeDone, Settle
<1>5. CASE SweepRows(l) BY <1>5 DEF SweepRows
<1>6. CASE EndCancelled(l) \/ EndCompleted(l) \/ LoopError(l)
  BY <1>6 DEF EndCancelled, EndCompleted, LoopError, BeginFinish, Pop
<1>7. CASE EndPaused(l) \/ FinishTotals(l) \/ FinishError(l)
  BY <1>7 DEF EndPaused, FinishTotals, FinishError, Pop
<1> QED BY <1>1, <1>2, <1>3, <1>4, <1>5, <1>6, <1>7 DEF LoopStep, LoopFault

LEMMA SettleAgenda ==
    ASSUME RunInv, Numbered, NEW l \in Loops, Agenda(l), run[l] \in Runs, pc[l] \in Busy,
           NEW s \in SettledRow, Settle(l, s)
    PROVE  Agenda(l)' /\ Numbered'
<1> USE DEF RunInv, TypeInv, TypeOK, StoredTypeOK
<1> PICK r \in Runs : r = run[l] OBVIOUS
<1> PICK c \in RowIds : c = cur[l] BY DEF HandleTypeOK
<1>1. /\ run'[l] = r /\ queue'[l] = queue[l] /\ cancelEvent'[l] = cancelEvent[l] /\ lives' = lives
      /\ pc'[l] = "between" /\ status' = status
  BY DEF Settle, bounds, HandleTypeOK
<1>2. \A k \in RowIds \ {c} : rows'[r][k] = rows[r][k]
  BY DEF Settle
<1>3. /\ \A k \in Runs \ {r} : rows'[k] = rows[k]
      /\ rows'[r][c].attempt = rows[r][c].attempt
      /\ rows'[r][c].st \in {rows[r][c].st, s}
      /\ rows[r][c].st # "none" => rows'[r][c].st = s
      /\ rows[r][c].st = "none" => rows'[r][c] = rows[r][c]
  <2>1. rows[r][c] \in Row OBVIOUS
  <2> QED BY <2>1 DEF Settle, Row
<1>4. s \notin {"none", "pending"} BY DEF SettledRow, Ledger!SettledRow
<1>5. Numbered' BY <1>2, <1>3, <1>4 DEF Numbered
<1>6. CASE FirstLife(r) /\ status[r] # "absent"
  <2>1. /\ \/ status[r] \in {"running", "paused"}
           \/ status[r] = "cancelled" /\ cancelEvent[l]
        /\ \A i \in queue[l] : i \in RowIds /\ rows[r][i].st = "pending"
        /\ \A i \in RowIds : rows[r][i].st = "pending" /\ rows[r][i].attempt = 1 => i \in queue[l]
        /\ rows[r][c].st = "running"
    BY <1>6 DEF Agenda, HandleTypeOK, Executing, Busy
  <2>2. c \notin queue[l] BY <2>1
  <2>3. \A i \in queue[l] : rows'[r][i].st = "pending" BY <1>2, <2>1, <2>2
  <2>4. \A i \in RowIds : rows'[r][i].st = "pending" /\ rows'[r][i].attempt = 1 => i \in queue[l]
    BY <1>2, <1>3, <1>4, <2>1
  <2> QED BY <1>1, <1>5, <2>1, <2>3, <2>4 DEF Agenda, Busy
<1>7. CASE ~ (FirstLife(r) /\ status[r] # "absent")
  BY <1>1, <1>5, <1>7 DEF Agenda, FirstLife
<1> QED BY <1>6, <1>7

LEMMA DispatchAgenda ==
    ASSUME RunInv, Numbered, NEW l \in Loops, Agenda(l), run[l] \in Runs, Dispatch(l)
    PROVE  Agenda(l)' /\ Numbered'
<1> USE DEF RunInv, TypeInv, TypeOK, StoredTypeOK
<1> PICK r \in Runs : r = run[l] OBVIOUS
<1>1. /\ run'[l] = r /\ cancelEvent'[l] = cancelEvent[l] /\ lives' = lives
      /\ pc[l] = "between" /\ status' = status
  BY DEF Dispatch, bounds
<1>2. PICK i \in RowIds :
         /\ i \in queue[l] /\ queue'[l] = queue[l] \ {i}
         /\ \/ rows[r][i].st = "none" /\ UNCHANGED <<rows, pc, cur>>
            \/ /\ rows[r][i].st # "none" /\ rows' = [rows EXCEPT ![r][i].st = "running"]
               /\ pc'[l] = "executing" /\ cur'[l] = i
  BY DEF Dispatch, First, HandleTypeOK
<1>3. /\ \A k \in Runs \ {r} : rows'[k] = rows[k]
      /\ \A k \in RowIds \ {i} : rows'[r][k] = rows[r][k]
      /\ rows'[r][i].attempt = rows[r][i].attempt
      /\ rows[r][i].st = "none" => rows'[r][i] = rows[r][i]
      /\ rows[r][i].st # "none" => rows'[r][i].st = "running" /\ pc'[l] = "executing" /\ cur'[l] = i
  <2>1. rows[r][i] \in Row OBVIOUS
  <2> QED BY <1>2, <2>1 DEF Row
<1>4. Numbered' BY <1>3 DEF Numbered
<1>5. CASE FirstLife(r) /\ status[r] # "absent"
  <2>1. /\ \/ status[r] \in {"running", "paused"}
           \/ status[r] = "cancelled" /\ cancelEvent[l]
        /\ \A k \in queue[l] : k \in RowIds /\ rows[r][k].st = "pending"
        /\ \A k \in RowIds : rows[r][k].st = "pending" /\ rows[r][k].attempt = 1 => k \in queue[l]
    BY <1>1, <1>5 DEF Agenda, HandleTypeOK, Executing
  <2>2. rows[r][i].st = "pending" BY <1>2, <2>1
  <2>3. rows'[r][i].st = "running" /\ pc'[l] = "executing" /\ cur'[l] = i BY <1>3, <2>2
  <2>4. \A k \in queue'[l] : rows'[r][k].st = "pending" BY <1>2, <1>3, <2>1
  <2>5. \A k \in RowIds : rows'[r][k].st = "pending" /\ rows'[r][k].attempt = 1 => k \in queue'[l]
    BY <1>2, <1>3, <2>1, <2>3
  <2> QED BY <1>1, <1>4, <2>1, <2>3, <2>4, <2>5 DEF Agenda
<1>6. CASE ~ (FirstLife(r) /\ status[r] # "absent")
  BY <1>1, <1>4, <1>6 DEF Agenda, FirstLife
<1> QED BY <1>5, <1>6

LEMMA LoopAgendas ==
    ASSUME AgendaInv, NEW l \in Loops, LoopStep(l) \/ LoopFault(l)
    PROVE  Agendas' /\ Unused' /\ Numbered'
<1> USE DEF AgendaInv, RunInv, TypeInv, TypeOK, StoredTypeOK
<1> PICK r \in Runs : r = run[l] BY LoopTables
<1>1. /\ pc[l] # "idle" /\ lives' = lives
      /\ \A k \in Runs \ {r} : status'[k] = status[k] /\ rows'[k] = rows[k]
  BY LoopTables
<1>2. \A k \in Loops \ {l} : Agenda(k)'
  <2> SUFFICES ASSUME NEW k \in Loops \ {l} PROVE Agenda(k)' OBVIOUS
  <2>1. CASE pc[k] = "idle" BY <2>1, OwnHandle, NotExecuting DEF Executing
  <2>2. CASE pc[k] # "idle"
    <3>1. run[k] \in Runs \ {r} BY <1>1, <2>2 DEF Registered
    <3>2. Agenda(k) BY DEF Agendas
    <3> QED BY <1>1, <3>1, <3>2, OwnHandle, OthersLeaveAgenda DEF FirstLife
  <2> QED BY <2>1, <2>2
<1>3. Unused'
  <2>1. l \in Loops /\ (pc'[l] # "idle" => run'[l] = r)
    BY DEF LoopStep, LoopFault, LoopError, FinishError, LoopBegin, LoopRefused, Dispatch, ExecDone,
           JudgeDone, Settle, SweepRows, EndCancelled, EndPaused, EndCompleted, FinishTotals,
           BeginFinish, Pop, HandleTypeOK
  <2> QED BY <1>1, <2>1, OwnHandle DEF Unused
<1>4. Agenda(l) BY DEF Agendas
<1>5. Agenda(l)' /\ Numbered'
  <2>1. CASE LoopBegin(l)
    <3>1. /\ pc'[l] = "between" /\ run'[l] = r /\ status'[r] = "running" /\ rows' = rows
          /\ queue'[l] = {i \in RowIds : rows[r][i].st = "pending"}
      BY <2>1 DEF LoopBegin, PendingRows, HandleTypeOK
    <3> QED BY <3>1 DEF Agenda, Numbered, Busy
  <2>2. CASE LoopRefused(l)
    <3>1. pc'[l] = "done" /\ rows' = rows BY <2>2 DEF LoopRefused, db, HandleTypeOK
    <3> QED BY <3>1, NotExecuting DEF Executing, Numbered
  <2>3. CASE Dispatch(l) BY <1>4, <2>3, DispatchAgenda
  <2>4. CASE ExecDone(l)
    <3>1. CASE Settle(l, "execution_failed") \/ Settle(l, "cancelled")
      BY <1>4, <2>4, <3>1, SettleAgenda DEF ExecDone, Busy, SettledRow, Ledger!SettledRow
    <3>2. CASE pc' = [pc EXCEPT ![l] = "judging"]
               /\ UNCHANGED <<db, control, run, cur, queue, pauseEvent, cancelEvent, up, bounds, torn>>
      <4>1. /\ pc[l] = "executing" /\ pc'[l] = "judging" /\ UNCHANGED <<status, rows, lives>>
            /\ UNCHANGED <<run, cur, queue, cancelEvent>>
        BY <2>4, <3>2 DEF ExecDone, db, bounds, HandleTypeOK
      <4>2. Numbered' BY <4>1 DEF Numbered
      <4>3. Agenda(l)' BY <1>4, <4>1 DEF Agenda, FirstLife, Executing, Busy
      <4> QED BY <4>2, <4>3
    <3> QED BY <2>4, <3>1, <3>2 DEF ExecDone
  <2>5. CASE JudgeDone(l)
    BY <1>4, <2>5, SettleAgenda DEF JudgeDone, Busy, SettledRow, Ledger!SettledRow
  <2>6. CASE EndCancelled(l) \/ EndPaused(l) \/ EndCompleted(l) \/ FinishTotals(l) \/ LoopFault(l)
    <3>1. pc'[l] \in {"idle", "finishing"} /\ rows' = rows
      BY <2>6 DEF EndCancelled, EndPaused, EndCompleted, FinishTotals, LoopFault, LoopError,
                  FinishError, BeginFinish, Pop, HandleTypeOK, db
    <3>2. Numbered' BY <3>1 DEF Numbered
    <3> QED BY <3>1, <3>2, NotExecuting DEF Executing
  <2>7. CASE SweepRows(l)
    <3>1. /\ pc[l] = "between" /\ pc'[l] = "swept" /\ run'[l] = r /\ status' = status
          /\ cancelEvent'[l] = cancelEvent[l]
      BY <2>7 DEF SweepRows, HandleTypeOK
    <3>2. rows' = [rows EXCEPT ![r] = CancelOpenRows(rows[r])] BY <2>7 DEF SweepRows
    <3>3. rows[r] \in [RowIds -> Row] OBVIOUS
    <3>4. \A i \in RowIds : /\ CancelOpenRows(rows[r])[i].attempt = rows[r][i].attempt
                            /\ rows[r][i].st = "none" => CancelOpenRows(rows[r])[i].st = "none"
      <4> SUFFICES ASSUME NEW i \in RowIds
                   PROVE  /\ CancelOpenRows(rows[r])[i].attempt = rows[r][i].attempt
                          /\ rows[r][i].st = "none" => CancelOpenRows(rows[r])[i].st = "none"
        OBVIOUS
      <4>1. rows[r][i] \in Row BY <3>3
      <4>2. CancelOpenRows(rows[r])[i] =
              IF rows[r][i].st \in OpenRow THEN [rows[r][i] EXCEPT !.st = "cancelled"] ELSE rows[r][i]
        BY <3>3, CancelOpenRow
      <4> QED BY <4>1, <4>2 DEF Row, OpenRow, Ledger!OpenRow
    <3>5. Numbered' BY <3>2, <3>4 DEF Numbered
    <3>6. Agenda(l)' BY <1>1, <1>4, <3>1 DEF Agenda, FirstLife, Executing, Busy
    <3> QED BY <3>5, <3>6
  <2> QED BY <2>1, <2>2, <2>3, <2>4, <2>5, <2>6, <2>7 DEF LoopStep
<1> QED BY <1>2, <1>3, <1>4, <1>5 DEF Agendas

LEMMA InitAgenda == Init => AgendaInv
<1> SUFFICES ASSUME Init PROVE AgendaInv OBVIOUS
<1>1. Agendas /\ Unused /\ Numbered
  BY DEF Init, Agendas, Agenda, Executing, Unused, Numbered, NoRow
<1> QED BY <1>1, InitRun DEF AgendaInv

LEMMA NextAgenda == AgendaInv /\ [Next]_vars => AgendaInv'
<1> SUFFICES ASSUME AgendaInv, [Next]_vars PROVE AgendaInv' OBVIOUS
<1> USE DEF AgendaInv
<1>1. RunInv' BY NextRun
<1>2. Agendas' /\ Unused' /\ Numbered'
  <2>1. CASE \E r \in Runs : Requests(r) BY <2>1, RequestAgendas, RequestUnused
  <2>2. CASE \E l \in Loops : LoopStep(l) \/ LoopFault(l) BY <2>2, LoopAgendas
  <2>3. CASE Kill \/ Shutdown
    <3>1. /\ \A l \in Loops : pc'[l] = "idle"
          /\ rows' = rows /\ lives' = lives
          /\ \A r \in Runs : status[r] = "absent" => status'[r] = "absent"
      <4>1. \A r \in Runs : status[r] = "absent" => ~ Finishes(status[r], "cancelled")
        BY DEF Finishes, RunStatusCan, Ledger!RunStatusCan, Ledger!Transitions
      <4> QED BY <2>3, <4>1 DEF Kill, Shutdown, NoHandles, db
    <3> QED BY <3>1 DEF Agendas, Agenda, Executing, Unused, Numbered
  <2>4. CASE Recover
    <3>1. /\ \A l \in Loops : pc'[l] = "idle"
          /\ lives' = lives
      BY <2>4 DEF Recover, handles, bounds, RunInv, Stopped
    <3>2. \A r \in Runs : status[r] = "absent" => status'[r] = "absent"
      BY <2>4 DEF Recover, Interrupts, RunInv, TypeInv, TypeOK, StoredTypeOK
    <3>3. ASSUME NEW r \in Runs, NEW i \in RowIds, rows'[r][i].st # "none"
          PROVE  rows'[r][i].attempt # 0
      <4>1. rows'[r] = rows[r] \/ rows'[r] = CancelOpenRows(rows[r]) BY <2>4 DEF Recover
      <4>2. rows[r] \in [RowIds -> Row] /\ rows[r][i] \in Row
        BY DEF RunInv, TypeInv, TypeOK, StoredTypeOK
      <4>3. CancelOpenRows(rows[r])[i] =
              IF rows[r][i].st \in OpenRow THEN [rows[r][i] EXCEPT !.st = "cancelled"] ELSE rows[r][i]
        BY <4>2, CancelOpenRow
      <4>4. rows'[r][i].attempt = rows[r][i].attempt /\ rows[r][i].st # "none"
        BY <3>3, <4>1, <4>2, <4>3 DEF Row, OpenRow, Ledger!OpenRow
      <4> QED BY <4>4 DEF Numbered
    <3> QED BY <3>1, <3>2, <3>3 DEF Agendas, Agenda, Executing, Unused, Numbered
  <2>5. CASE UNCHANGED vars
    BY <2>5 DEF vars, db, handles, bounds, Agendas, Agenda, FirstLife, Unused, Numbered
  <2> QED BY <2>1, <2>2, <2>3, <2>4, <2>5 DEF Next
<1> QED BY <1>1, <1>2

-----------------------------------------------------------------------------
(* The ledger's view of a step                                              *)

LedgerStep == Ledger!Next \/ UNCHANGED Ledger!ledger

\* Only what is stored under r, or how often r was given out, changes.
OnlyEntry(r) ==
    \A k \in Runs \ {r} : status'[k] = status[k] /\ rows'[k] = rows[k] /\ lives'[k] = lives[k]

LEMMA SameEntry ==
    ASSUME NEW r \in Runs, OnlyEntry(r),
           FirstLife(r)' <=> FirstLife(r),
           FirstLife(r) => status'[r] = status[r] /\ rows'[r] = rows[r]
    PROVE  LedgerStep
<1>1. LedgerStatus' = LedgerStatus BY DEF LedgerStatus, FirstLife, OnlyEntry
<1>2. LedgerRows' = LedgerRows BY DEF LedgerRows, FirstLife, OnlyEntry
<1> QED BY <1>1, <1>2 DEF LedgerStep, Ledger!ledger

\* A second life is not in the ledger.
LEMMA LaterLife ==
    ASSUME NEW r \in Runs, OnlyEntry(r), lives'[r] = lives[r], ~ FirstLife(r)
    PROVE  LedgerStep
BY SameEntry DEF FirstLife

LEMMA NewEntry ==
    ASSUME NEW r \in Runs, OnlyEntry(r), FirstLife(r), FirstLife(r)'
    PROVE  /\ LedgerStatus' = [LedgerStatus EXCEPT ![r] = status'[r]]
           /\ LedgerRows' = [LedgerRows EXCEPT ![r] = rows'[r]]
           /\ LedgerStatus[r] = status[r] /\ LedgerRows[r] = rows[r]
           /\ status'[r] = status[r] => LedgerStatus' = LedgerStatus
           /\ rows'[r] = rows[r] => LedgerRows' = LedgerRows
<1>1. LedgerStatus' = [LedgerStatus EXCEPT ![r] = status'[r]]
  BY DEF LedgerStatus, FirstLife, OnlyEntry
<1>2. LedgerRows' = [LedgerRows EXCEPT ![r] = rows'[r]]
  BY DEF LedgerRows, FirstLife, OnlyEntry
<1>3. LedgerStatus[r] = status[r] /\ LedgerRows[r] = rows[r] BY DEF LedgerStatus, LedgerRows
<1> QED BY <1>1, <1>2, <1>3 DEF LedgerStatus, LedgerRows

\* The status moves, the rows stay.
LEMMA MoveEntry ==
    ASSUME NEW r \in Runs, OnlyEntry(r), lives'[r] = lives[r], FirstLife(r),
           status'[r] \in RunStatus \ {"interrupted"}, RunStatusCan(status[r], status'[r]),
           status'[r] = "completed" =>
              \A i \in RowIds : rows[r][i].attempt = 1 => rows[r][i].st # "pending",
           rows'[r] = rows[r]
    PROVE  LedgerStep
<1>1. FirstLife(r)' BY DEF FirstLife
<1>2. Ledger!MoveRun(r, status'[r])
  BY <1>1, NewEntry DEF Ledger!MoveRun, RunStatusCan, Ledger!RowIds, RowIds
<1> QED BY <1>2 DEF LedgerStep, Ledger!Next, RunStatus

LEMMA RequestLedger ==
    ASSUME AgendaInv, NEW r \in Runs, Requests(r)
    PROVE  LedgerStep
<1> USE DEF AgendaInv, RunInv, TypeInv, TypeOK, StoredTypeOK
<1>1. CASE StartRun(r)
  <2>1. OnlyEntry(r) /\ status[r] = "absent" /\ lives'[r] = lives[r] + 1 /\ lives[r] \in Nat
    BY <1>1 DEF StartRun, OnlyEntry
  <2>2. CASE lives[r] = 0
    <3>1. FirstLife(r) /\ FirstLife(r)' BY <2>1, <2>2 DEF FirstLife
    <3>2. status'[r] = "pending" /\ rows'[r] = FreshRows BY <1>1 DEF StartRun
    <3>3. NumCases \in Ledger!RowIds BY EvaluationAssumption DEF Ledger!RowIds
    <3>4. FreshRows = [i \in Ledger!RowIds |->
             IF i <= NumCases THEN [st |-> "pending", case |-> i, attempt |-> 1] ELSE Ledger!NoRow]
      BY DEF FreshRows, RowIds, Ledger!RowIds, NoRow, Ledger!NoRow
    <3>5. /\ LedgerStatus[r] = "absent" /\ LedgerStatus' = [LedgerStatus EXCEPT ![r] = "pending"]
          /\ LedgerRows' = [LedgerRows EXCEPT ![r] = FreshRows]
      BY <2>1, <3>1, <3>2, NewEntry
    <3>6. Ledger!CreateRun(r)
      BY <3>3, <3>4, <3>5, Zenon DEF Ledger!CreateRun
    <3> QED BY <3>6 DEF LedgerStep, Ledger!Next
  <2>3. CASE lives[r] = 1
    <3>1. rows[r] = [i \in RowIds |-> NoRow] BY <2>1 DEF Booked
    <3>2. FirstLife(r) /\ ~ FirstLife(r)' BY <2>1, <2>3 DEF FirstLife
    <3>3. LedgerStatus' = LedgerStatus
      BY <2>1, <3>2 DEF LedgerStatus, OnlyEntry, FirstLife
    <3>4. LedgerRows' = LedgerRows
      BY <2>1, <3>1, <3>2 DEF LedgerRows, OnlyEntry, FirstLife
    <3> QED BY <3>3, <3>4 DEF LedgerStep, Ledger!ledger
  <2>4. CASE lives[r] > 1
    <3>1. ~ FirstLife(r) /\ ~ FirstLife(r)' BY <2>1, <2>4 DEF FirstLife
    <3> QED BY <2>1, <3>1, SameEntry
  <2>5. \A n \in Nat : n = 0 \/ n = 1 \/ n > 1 OBVIOUS
  <2> QED BY <2>1, <2>2, <2>3, <2>4, <2>5, Zenon
<1>2. CASE PauseRun(r)
  <2>1. OnlyEntry(r) /\ lives'[r] = lives[r] /\ rows'[r] = rows[r]
        /\ status'[r] = IF status[r] = "running" THEN "paused" ELSE status[r]
    BY <1>2 DEF PauseRun, OnlyEntry, bounds
  <2>2. CASE status[r] = "running" /\ FirstLife(r)
    BY <2>1, <2>2, MoveEntry DEF RunStatusCan, Ledger!RunStatusCan, RunStatus, Ledger!RunStatus, Ledger!Transitions
  <2>3. CASE status[r] # "running" \/ ~ FirstLife(r)
    BY <2>1, <2>3, SameEntry DEF FirstLife
  <2> QED BY <2>2, <2>3
<1>3. CASE ResumeRun(r)
  BY <1>3, SameEntry DEF ResumeRun, db, bounds, OnlyEntry, FirstLife
<1>4. CASE CancelRun(r)
  <2>1. OnlyEntry(r) /\ lives'[r] = lives[r] /\ rows'[r] = rows[r]
        /\ status[r] \in {"pending", "running", "paused"} /\ status'[r] = "cancelled"
    BY <1>4 DEF CancelRun, OnlyEntry, bounds
  <2>2. CASE FirstLife(r)
    BY <2>1, <2>2, MoveEntry DEF RunStatusCan, Ledger!RunStatusCan, RunStatus, Ledger!RunStatus, Ledger!Transitions
  <2> QED BY <2>1, <2>2, LaterLife
<1>5. ASSUME NEW i \in RowIds, NEW j \in RowIds, RetryCase(r, i, j) PROVE LedgerStep
  <2>1. OnlyEntry(r) /\ lives'[r] = lives[r] BY <1>5 DEF RetryCase, OnlyEntry, bounds
  <2>2. CASE FirstLife(r)
    <3>1. FirstLife(r)' BY <2>1, <2>2 DEF FirstLife
    <3>2. /\ status'[r] = "running" /\ rows[r][j].st = "none"
          /\ rows[r][i].st \in SettledRow \ {"passed"}
          /\ rows'[r] = [rows[r] EXCEPT ![j] =
               [st |-> "pending", case |-> rows[r][i].case, attempt |-> rows[r][i].attempt + 1]]
      BY <1>5 DEF RetryCase, NextFree, Retryable, SettledRow, Ledger!SettledRow
    <3>3. Ledger!RetryRow(r, i, j)
      BY <2>1, <2>2, <3>1, <3>2, NewEntry DEF Ledger!RetryRow, SettledRow, LedgerRows
    <3> QED BY <3>3 DEF LedgerStep, Ledger!Next, RowIds, Ledger!RowIds
  <2> QED BY <2>1, <2>2, LaterLife
<1>6. CASE DeleteTask(r)
  <2>1. OnlyEntry(r) /\ lives'[r] = lives[r] /\ status[r] # "absent" /\ status'[r] = "absent"
        /\ rows'[r] = [i \in RowIds |-> NoRow]
    BY <1>6 DEF DeleteTask, OnlyEntry, bounds
  <2>2. CASE FirstLife(r)
    <3>1. FirstLife(r)' BY <2>1, <2>2 DEF FirstLife
    <3>2. Ledger!DeleteRun(r)
      BY <2>1, <2>2, <3>1, NewEntry
      DEF Ledger!DeleteRun, Ledger!RowIds, RowIds, NoRow, Ledger!NoRow
    <3> QED BY <3>2 DEF LedgerStep, Ledger!Next
  <2> QED BY <2>1, <2>2, LaterLife
<1> QED BY <1>1, <1>2, <1>3, <1>4, <1>5, <1>6 DEF Requests

LEMMA SettleLedger ==
    ASSUME AgendaInv, NEW l \in Loops, run[l] \in Runs, pc[l] \in Busy,
           NEW s \in SettledRow, Settle(l, s)
    PROVE  LedgerStep
<1> USE DEF AgendaInv, RunInv, TypeInv, TypeOK, StoredTypeOK
<1> PICK r \in Runs : r = run[l] OBVIOUS
<1> PICK c \in RowIds : c = cur[l] BY DEF HandleTypeOK
<1>1. OnlyEntry(r) /\ lives'[r] = lives[r] /\ status'[r] = status[r]
  BY DEF Settle, OnlyEntry, bounds
<1>2. CASE ~ FirstLife(r) BY <1>1, <1>2, LaterLife
<1>3. CASE FirstLife(r) /\ status[r] = "absent"
  <2>1. rows[r][c].st = "none" BY <1>3 DEF Booked, NoRow
  <2>2. rows'[r] = rows[r] BY <2>1 DEF Settle
  <2> QED BY <1>1, <2>2, SameEntry DEF FirstLife
<1>4. CASE FirstLife(r) /\ status[r] # "absent"
  <2>1. rows[r][c].st = "running" BY <1>4 DEF Agendas, Agenda, Executing, Busy
  <2>2. rows'[r] = [rows[r] EXCEPT ![c].st = s] BY <2>1 DEF Settle
  <2>3. FirstLife(r)' BY <1>1, <1>4 DEF FirstLife
  <2>4. Ledger!SettleRow(r, c)
    BY <1>1, <1>4, <2>1, <2>2, <2>3, NewEntry, ZenonT(30) DEF Ledger!SettleRow, SettledRow, LedgerRows
  <2> QED BY <2>4 DEF LedgerStep, Ledger!Next, RowIds, Ledger!RowIds
<1> QED BY <1>2, <1>3, <1>4

LEMMA LoopLedger ==
    ASSUME AgendaInv, NEW l \in Loops, LoopStep(l) \/ LoopFault(l)
    PROVE  LedgerStep
<1> USE DEF AgendaInv, RunInv, TypeInv, TypeOK, StoredTypeOK
<1> PICK r \in Runs : r = run[l] BY LoopTables
<1>1. OnlyEntry(r) /\ lives'[r] = lives[r] BY LoopTables DEF OnlyEntry
<1>2. status[r] \in RunStatus /\ rows[r] \in [RowIds -> Row] OBVIOUS
<1>3. CASE ~ FirstLife(r) BY <1>1, <1>3, LaterLife
<1>4. ASSUME status'[r] = status[r], rows'[r] = rows[r] PROVE LedgerStep
  BY <1>1, <1>4, SameEntry DEF FirstLife
\* finish_run
<1>5. ASSUME NEW target \in Targets, FirstLife(r), rows'[r] = rows[r],
             status'[r] = FinishStatus(status[r], target),
             target = "completed" /\ status[r] # "absent" =>
                \A i \in RowIds : rows[r][i].attempt = 1 => rows[r][i].st # "pending"
      PROVE  LedgerStep
  <2>1. CASE status'[r] = status[r] BY <1>4, <1>5, <2>1
  <2>2. CASE status'[r] # status[r]
    <3>1. RunStatusCan(status[r], status'[r]) BY <1>2, <1>5, <2>2, FinishMoves
    <3>2. status'[r] \in {target, "failed"} BY <1>5, <2>2 DEF FinishStatus
    <3>3. status[r] # "absent"
      BY <3>1 DEF RunStatusCan, Ledger!RunStatusCan, Ledger!Transitions
    <3>4. status'[r] \in RunStatus \ {"interrupted"}
      BY <3>2 DEF Targets, RunStatus, Ledger!RunStatus, Ledger!Transitions
    <3> QED BY <1>1, <1>5, <3>1, <3>2, <3>3, <3>4, MoveEntry
  <2> QED BY <2>1, <2>2
<1>6. CASE LoopBegin(l) /\ FirstLife(r)
  <2>1. status[r] \in Startable /\ status'[r] = "running" /\ rows' = rows
    BY <1>6 DEF LoopBegin
  <2>2. RunStatusCan(status[r], "running")
    BY <2>1 DEF Startable, RunStatusCan, Ledger!RunStatusCan, Ledger!Transitions
  <2>3. "running" \in RunStatus \ {"interrupted"}
    BY DEF RunStatus, Ledger!RunStatus, Ledger!Transitions
  <2> QED BY <1>1, <1>6, <2>1, <2>2, <2>3, MoveEntry
<1>7. CASE LoopRefused(l) BY <1>4, <1>7 DEF LoopRefused, db
<1>8. CASE Dispatch(l) /\ FirstLife(r)
  <2>1. PICK i \in RowIds :
           /\ i \in queue[l]
           /\ UNCHANGED rows \/ (rows[r][i].st # "none" /\ rows' = [rows EXCEPT ![r][i].st = "running"])
    BY <1>8 DEF Dispatch, First
  <2>2. pc[l] = "between" /\ ~ cancelEvent[l] /\ status' = status BY <1>8 DEF Dispatch
  <2>3. CASE UNCHANGED rows BY <1>4, <2>2, <2>3
  <2>4. CASE rows[r][i].st # "none" /\ rows' = [rows EXCEPT ![r][i].st = "running"]
    <3>1. status[r] # "absent" BY <2>4, RowOfStoredRun
    <3>2. status[r] \in {"running", "paused"} /\ rows[r][i].st = "pending"
      BY <1>8, <2>1, <2>2, <3>1 DEF Agendas, Agenda, Executing
    <3>3. rows'[r] = [rows[r] EXCEPT ![i].st = "running"] BY <2>4
    <3>4. FirstLife(r)' BY <1>1, <1>8 DEF FirstLife
    <3>5. Ledger!StartRow(r, i)
      BY <1>1, <1>8, <2>2, <3>2, <3>3, <3>4, NewEntry DEF Ledger!StartRow, LedgerRows
    <3> QED BY <3>5 DEF LedgerStep, Ledger!Next, RowIds, Ledger!RowIds
  <2> QED BY <2>1, <2>3, <2>4
<1>9. CASE ExecDone(l)
  <2>1. CASE Settle(l, "execution_failed") \/ Settle(l, "cancelled")
    BY <1>9, <2>1, SettleLedger DEF ExecDone, Busy, SettledRow, Ledger!SettledRow
  <2>2. CASE UNCHANGED db BY <1>4, <2>2 DEF db
  <2> QED BY <1>9, <2>1, <2>2 DEF ExecDone
<1>10. CASE JudgeDone(l)
  BY <1>10, SettleLedger DEF JudgeDone, Busy, SettledRow, Ledger!SettledRow
<1>11. CASE SweepRows(l) /\ FirstLife(r)
  <2>1. /\ pc[l] = "between" /\ rows'[r] = CancelOpenRows(rows[r]) /\ status'[r] = status[r]
    BY <1>11 DEF SweepRows
  <2>2. CASE status[r] = "absent"
    <3>1. rows'[r] = rows[r] BY <2>1, <2>2, CancelNone DEF Booked
    <3> QED BY <1>4, <2>1, <3>1
  <2>3. CASE status[r] \in {"running", "paused", "cancelled"}
    <3>1. FirstLife(r)' BY <1>1, <1>11 DEF FirstLife
    <3>2. Ledger!SweepCancelled(r)
      BY <1>1, <1>11, <2>1, <2>3, <3>1, NewEntry DEF Ledger!SweepCancelled, CancelOpenRows
    <3> QED BY <3>2 DEF LedgerStep, Ledger!Next
  <2> QED BY <1>11, <2>1, <2>2, <2>3 DEF Agendas, Agenda, Executing
<1>12. CASE EndPaused(l) /\ FirstLife(r)
  <2>1. rows' = rows /\ status'[r] = IF status[r] = "running" THEN "paused" ELSE status[r]
    BY <1>12 DEF EndPaused
  <2>2. CASE status[r] = "running"
    BY <1>1, <1>12, <2>1, <2>2, MoveEntry
    DEF RunStatusCan, Ledger!RunStatusCan, RunStatus, Ledger!RunStatus, Ledger!Transitions
  <2> QED BY <1>4, <2>1, <2>2
<1>13. CASE EndCompleted(l) /\ FirstLife(r)
  <2>1. /\ pc[l] = "between" /\ queue[l] = {} /\ rows' = rows
        /\ status'[r] = FinishStatus(status[r], "completed")
    BY <1>13 DEF EndCompleted, BeginFinish
  <2>2. status[r] # "absent" =>
           \A i \in RowIds : rows[r][i].attempt = 1 => rows[r][i].st # "pending"
    BY <1>13, <2>1 DEF Agendas, Agenda, Executing
  <2> QED BY <1>5, <1>13, <2>1, <2>2 DEF Targets
<1>14. CASE EndCancelled(l) /\ FirstLife(r)
  BY <1>5, <1>14 DEF EndCancelled, BeginFinish, Targets
<1>15. CASE LoopError(l) /\ FirstLife(r)
  BY <1>5, <1>15 DEF LoopError, BeginFinish, Targets
<1>16. CASE FinishTotals(l) \/ FinishError(l)
  BY <1>4, <1>16 DEF FinishTotals, FinishError, db
<1> QED
  BY <1>3, <1>6, <1>7, <1>8, <1>9, <1>10, <1>11, <1>12, <1>13, <1>14, <1>15, <1>16
  DEF LoopStep, LoopFault

LEMMA ProcessLedger ==
    ASSUME AgendaInv, Kill \/ Shutdown \/ Recover
    PROVE  LedgerStep
<1> USE DEF AgendaInv, RunInv, TypeInv, TypeOK, StoredTypeOK
<1>1. lives' = lives BY DEF Kill, Shutdown, Recover, bounds
<1>2. CASE Kill
  <2>1. LedgerStatus' = LedgerStatus /\ LedgerRows' = LedgerRows
    BY <1>1, <1>2 DEF Kill, db, LedgerStatus, LedgerRows, FirstLife
  <2> QED BY <2>1 DEF LedgerStep, Ledger!ledger
<1>3. CASE Shutdown
  <2>1. PICK S \in SUBSET Runs :
          /\ \A r \in S : Finishes(status[r], "cancelled")
          /\ status' = [r \in Runs |-> IF r \in S THEN "cancelled" ELSE status[r]]
    BY <1>3 DEF Shutdown
  <2> DEFINE T == {r \in S : FirstLife(r) /\ status[r] # "cancelled"}
  <2>2. rows' = rows BY <1>3 DEF Shutdown
  <2>3. \A r \in T : Ledger!RunStatusCan(LedgerStatus[r], "cancelled")
    BY <2>1 DEF LedgerStatus, Finishes, RunStatusCan
  <2>4. LedgerStatus' = [r \in Runs |-> IF r \in T THEN "cancelled" ELSE LedgerStatus[r]]
    BY <1>1, <2>1 DEF LedgerStatus, FirstLife
  <2>5. LedgerRows' = LedgerRows BY <1>1, <2>2 DEF LedgerRows, FirstLife
  <2>6. Ledger!ShutdownRuns BY <2>3, <2>4, <2>5 DEF Ledger!ShutdownRuns
  <2> QED BY <2>6 DEF LedgerStep, Ledger!Next
<1>4. CASE Recover
  <2> DEFINE S == {r \in Runs : FirstLife(r) /\ status[r] \in Interrupts}
  <2>1. \A r \in S : Ledger!RunStatusCan(LedgerStatus[r], "interrupted")
    BY DEF LedgerStatus, Interrupts, Ledger!RunStatusCan, Ledger!Transitions
  <2>2. LedgerStatus' = [r \in Runs |-> IF r \in S THEN "interrupted" ELSE LedgerStatus[r]]
    BY <1>1, <1>4 DEF Recover, LedgerStatus, FirstLife
  <2>3. LedgerRows' = [r \in Runs |-> IF r \in S THEN Ledger!CancelOpen(LedgerRows[r]) ELSE LedgerRows[r]]
    BY <1>1, <1>4 DEF Recover, LedgerRows, FirstLife, CancelOpenRows
  <2>4. Ledger!RecoverRuns BY <2>1, <2>2, <2>3 DEF Ledger!RecoverRuns
  <2> QED BY <2>4 DEF LedgerStep, Ledger!Next
<1> QED BY <1>2, <1>3, <1>4

\* The engine keeps the promise of the ledger: a case starts only in a run that
\* is running or paused, a result is recorded once and on a row in execution, a
\* run completes only when every case of it has been started, a retry never
\* touches the row it repeats, and a cancel or the recovery sweeps the rows of no
\* run that has completed or failed.
THEOREM EngineImplementsLedger == Spec => ImplementsLedger
<1>1. Init => Ledger!Init
  <2> SUFFICES ASSUME Init PROVE Ledger!Init OBVIOUS
  <2>1. LedgerStatus = [r \in Runs |-> "absent"] BY DEF Init, LedgerStatus
  <2>2. LedgerRows = [r \in Runs |-> [i \in RowIds |-> NoRow]] BY DEF Init, LedgerRows
  <2> QED BY <2>1, <2>2 DEF Ledger!Init, RowIds, Ledger!RowIds, NoRow, Ledger!NoRow
<1>2. AgendaInv /\ [Next]_vars => [Ledger!Next]_(Ledger!ledger)
  <2> SUFFICES ASSUME AgendaInv, [Next]_vars PROVE LedgerStep BY DEF LedgerStep
  <2>1. CASE \E r \in Runs : Requests(r) BY <2>1, RequestLedger
  <2>2. CASE \E l \in Loops : LoopStep(l) \/ LoopFault(l) BY <2>2, LoopLedger
  <2>3. CASE Kill \/ Shutdown \/ Recover BY <2>3, ProcessLedger
  <2>4. CASE UNCHANGED vars
    BY <2>4 DEF vars, db, bounds, LedgerStep, Ledger!ledger, LedgerStatus, LedgerRows, FirstLife
  <2> QED BY <2>1, <2>2, <2>3, <2>4 DEF Next
<1> QED BY InitAgenda, NextAgenda, <1>1, <1>2, PTL DEF Spec, ImplementsLedger, Ledger!Spec

=============================================================================
