---------------------------- MODULE ReplyProofs ----------------------------
(***************************************************************************)
(* Proofs about the reply a generation leaves behind, for any number of    *)
(* conversations, replies, tasks, streams, restarts and faults.  Switching *)
(* the agent runs in a worker thread and may take the reply of a           *)
(* generation that has just begun for an orphan: what is proved here is    *)
(* what holds while nobody switches (Switchers = {}).                      *)
(***************************************************************************)
EXTENDS GenerationProofs

\* Who is registered for a reply works or has worked for it.
Assigned == \A m \in Msgs : registry[m] # NoTask => task[registry[m]].msg = m

\* The run row and the way the agent loop ended agree until the generation is
\* finalized; a process that is down runs no task.
Recorded ==
    \A t \in Tasks :
      /\ task[t].pc = "closing" =>
            (task[t].ending \in {"completed", "max_rounds"} <=> record[t] \in {"succeeded", "partial"})
      /\ task[t].pc = "running" => record[t] \in {"none", "running"}
      /\ task[t].pc \in {"free", "created"} => record[t] = "none" /\ task[t].ending = "none"
      /\ task[t].pc \in Live => up

ReplyInv == WorkInv /\ StreamInv /\ LiveReplyIsGenerating /\ Assigned /\ Recorded

LEMMA InitReply == Init => ReplyInv /\ ReplyMatchesStream
<1> SUFFICES ASSUME Init PROVE ReplyInv /\ ReplyMatchesStream OBVIOUS
<1>1. \A t \in Tasks : task[t].pc = "free" /\ record[t] = "none" /\ task[t].ending = "none"
  BY DEF Init, FreshTask
<1>2. \A m \in Msgs : registry[m] = NoTask BY DEF Init
<1> QED
  BY <1>1, <1>2, InitWork, InitStream
  DEF ReplyInv, LiveReplyIsGenerating, Assigned, Recorded, Live, ReplyMatchesStream, Registered

-----------------------------------------------------------------------------
(* Replies of live tasks                                                    *)

\* A new generation touches no reply another task works for.
LEMMA StartApart ==
    ASSUME TypeOK, WorkInv, NEW c \in Convs, NEW t \in Tasks, NEW m \in Msgs,
           NotBusy(c), task[t].pc = "free",
           reply[m].st = "absent" \/ reply[m].conv = c,
           NEW u \in Tasks \ {t}, task[u].pc \in Live
    PROVE  /\ task[u].msg \in Msgs \ {m}
           /\ OrphanMarked(c)[task[u].msg] = reply[task[u].msg]
<1>1. task[u].msg \in Msgs /\ reply[task[u].msg].st \notin {"absent", "deleted"}
  BY DEF WorkInv, Owned
<1>2. reply[task[u].msg].conv # c BY NotBusyMeansIdle DEF WorkInv, ConvOf
<1>3. OrphanMarked(c)[task[u].msg] = reply[task[u].msg]
  <2>1. CASE Generating(c) = {} BY <2>1 DEF OrphanMarked
  <2>2. CASE Generating(c) # {}
    <3>1. PICK n \in Generating(c) : OrphanMarked(c) = [reply EXCEPT ![n].st = "incomplete"]
      BY <2>2 DEF OrphanMarked
    <3>2. n # task[u].msg BY <1>2 DEF Generating
    <3> QED BY <1>1, <3>1, <3>2 DEF TypeOK
  <2> QED BY <2>1, <2>2
<1> QED BY <1>1, <1>2, <1>3

\* What a request leaves of the replies, the registry and the tasks.
LEMMA StartedReply ==
    ASSUME TypeOK, WorkInv, NEW c \in Convs, NEW t \in Tasks, NEW m \in Msgs,
           SendMessage(c, m, t) \/ (Regenerate(c, t) /\ m = last[c])
    PROVE  /\ NotBusy(c) /\ StartTask(m, t)
           /\ reply[m].st = "absent" \/ reply[m].conv = c
           /\ reply[m].st # "deleted"
           /\ reply'[m].st = "generating" /\ record' = record /\ up /\ up' = up
           /\ \A k \in Msgs \ {m} : reply'[k] = OrphanMarked(c)[k]
<1>1. OrphanMarked(c) \in [Msgs -> ReplySet] BY OrphanType
<1>2. CASE SendMessage(c, m, t) BY <1>1, <1>2 DEF SendMessage
<1>3. CASE Regenerate(c, t) /\ m = last[c]
  <2>1. reply[m].conv = c /\ reply[m].st \notin {"absent", "deleted"}
    BY <1>3 DEF Regenerate, WorkInv, LastStored
  <2>2. reply' = [OrphanMarked(c) EXCEPT ![m].st = "generating", ![m].text = 0]
    BY <1>3 DEF Regenerate
  <2>3. OrphanMarked(c)[m] \in ReplySet BY <1>1
  <2>4. reply'[m].st = "generating" /\ \A k \in Msgs \ {m} : reply'[k] = OrphanMarked(c)[k]
    BY <1>1, <2>2, <2>3 DEF ReplySet
  <2> QED BY <1>3, <2>1, <2>4 DEF Regenerate
<1> QED BY <1>2, <1>3

Kept == LiveReplyIsGenerating /\ Assigned /\ Recorded

LEMMA StartKept ==
    ASSUME TypeOK, WorkInv, StreamInv, Kept, NEW c \in Convs, NEW t \in Tasks, NEW m \in Msgs,
           SendMessage(c, m, t) \/ (Regenerate(c, t) /\ m = last[c])
    PROVE  Kept'
<1> USE DEF Kept
<1>1. /\ NotBusy(c) /\ StartTask(m, t) /\ reply'[m].st = "generating" /\ record' = record
      /\ reply[m].st = "absent" \/ reply[m].conv = c
      /\ up /\ up' = up
      /\ \A k \in Msgs \ {m} : reply'[k] = OrphanMarked(c)[k]
  BY StartedReply
<1>2. /\ task[t].pc = "free" /\ \A u \in Tasks \ {t} : task'[u] = task[u]
      /\ task'[t].pc = "created" /\ task'[t].msg = m /\ task'[t].ending = "none"
      /\ registry'[m] = t /\ \A k \in Msgs \ {m} : registry'[k] = registry[k]
  BY <1>1 DEF StartTask, FreshTask, TypeOK
<1>3. LiveReplyIsGenerating'
  <2>1. ASSUME NEW u \in Tasks \ {t}, task[u].pc \in Live
        PROVE  reply'[task[u].msg].st = "generating"
    <3>1. /\ task[u].msg \in Msgs \ {m}
          /\ OrphanMarked(c)[task[u].msg] = reply[task[u].msg]
      BY <1>1, <1>2, <2>1, StartApart
    <3> QED BY <1>1, <2>1, <3>1 DEF LiveReplyIsGenerating
  <2> QED BY <1>1, <1>2, <2>1 DEF LiveReplyIsGenerating
<1>4. Assigned'
  <2>1. \A k \in Msgs : registry[k] # NoTask => registry[k] \in Tasks \ {t}
    BY <1>2 DEF TypeOK, StreamInv, Used
  <2> QED BY <1>2, <2>1 DEF Assigned
<1>5. Recorded' BY <1>1, <1>2 DEF Recorded, Live
<1> QED BY <1>3, <1>4, <1>5

\* Steps that touch no task, no registration and no reply of a live task.
LEMMA QuietKept ==
    ASSUME TypeOK, Kept, UNCHANGED <<task, registry, record, up>>,
           \A t \in Tasks : task[t].pc \in Live => reply'[task[t].msg].st = reply[task[t].msg].st
    PROVE  Kept'
BY DEF Kept, LiveReplyIsGenerating, Assigned, Recorded

LEMMA RequestKept ==
    ASSUME TypeOK, WorkInv, StreamInv, Kept, Requests PROVE Kept'
<1>1. ASSUME NEW c \in Convs, NEW t \in Tasks, NEW m \in Msgs, SendMessage(c, m, t) PROVE Kept'
  BY <1>1, StartKept
<1>2. ASSUME NEW c \in Convs, NEW t \in Tasks, Regenerate(c, t) PROVE Kept'
  <2>1. last[c] \in Msgs BY <1>2 DEF Regenerate, TypeOK
  <2> QED BY <1>2, <2>1, StartKept
<1>3. ASSUME NEW c \in Convs, Refused(c) PROVE Kept'
  <2>1. UNCHANGED <<task, registry, record, up>> /\ NotBusy(c) /\ reply' = OrphanMarked(c)
    BY <1>3 DEF Refused
  <2>2. ASSUME NEW t \in Tasks, task[t].pc \in Live
        PROVE  reply'[task[t].msg].st = reply[task[t].msg].st
    <3>1. task[t].msg \in Msgs /\ reply[task[t].msg].conv # c
      BY <2>1, <2>2, NotBusyMeansIdle DEF WorkInv, Owned, ConvOf
    <3>2. CASE Generating(c) = {} BY <2>1, <3>2 DEF OrphanMarked
    <3>3. CASE Generating(c) # {}
      <4>1. PICK n \in Generating(c) : OrphanMarked(c) = [reply EXCEPT ![n].st = "incomplete"]
        BY <3>3 DEF OrphanMarked
      <4> QED BY <2>1, <3>1, <4>1 DEF Generating, TypeOK
    <3> QED BY <3>2, <3>3
  <2> QED BY <2>1, <2>2, QuietKept
<1>4. ASSUME NEW m \in Msgs, Stop(m) PROVE Kept'
  <2>1. UNCHANGED <<reply, registry, record, up>> /\ registry[m] \in Tasks
        /\ task' = [task EXCEPT ![registry[m]].cancel = TRUE]
    BY <1>4 DEF Stop, Registered, TypeOK, tables
  <2>2. \A t \in Tasks : /\ task'[t].pc = task[t].pc /\ task'[t].msg = task[t].msg
                         /\ task'[t].ending = task[t].ending
    BY <2>1 DEF TypeOK, TaskSet
  <2>3. \A k \in Msgs : registry[k] \in Tasks \cup {NoTask} BY DEF TypeOK
  <2> QED BY <2>1, <2>2, <2>3 DEF Kept, LiveReplyIsGenerating, Assigned, Recorded
<1>5. CASE UNCHANGED <<reply, registry, record, task, up>> BY <1>5, QuietKept
<1> QED
  BY <1>1, <1>2, <1>3, <1>4, <1>5 DEF Requests, Disconnect, OpenStream, tables

LEMMA SubscriberKept ==
    ASSUME TypeOK, WorkInv, Kept, NEW s \in Subs, StreamStep(s) PROVE Kept'
<1>1. CASE NoTaskStream(s)
  <2> PICK m \in Msgs : m = sub[s].msg BY <1>1 DEF NoTaskStream, TypeOK, Opened
  <2>1. /\ registry[m] = NoTask /\ UNCHANGED <<task, registry, record, up>>
        /\ \A k \in Msgs \ {m} : reply'[k] = reply[k]
    BY <1>1 DEF NoTaskStream, Registered, TypeOK
  <2>2. \A t \in Tasks : task[t].pc \in Live => task[t].msg \in Msgs \ {m}
    BY <2>1, GenerationAssumption DEF WorkInv, Owned
  <2> QED BY <2>1, <2>2, QuietKept
<1>2. CASE Follow(s) \/ Deliver(s)
  BY <1>2, QuietKept DEF Follow, Deliver, tables
<1> QED BY <1>1, <1>2 DEF StreamStep

\* What the agent loop does to the run row before the generation is finalized.
LEMMA MovesRecorded ==
    ASSUME TypeOK, Recorded, NEW t \in Tasks, TaskStep(t) \/ TaskFault(t),
           ~ CloseDone(t), ~ CloseCancelled(t)
    PROVE  /\ up' = up /\ \A u \in Tasks \ {t} : record'[u] = record[u]
           /\ task'[t].pc = "closing" =>
                 (task'[t].ending \in {"completed", "max_rounds"} <=> record'[t] \in {"succeeded", "partial"})
           /\ task'[t].pc = "running" => record'[t] \in {"none", "running"}
<1>1. /\ task[t] \in TaskSet
      /\ task[t].pc = "running" => record[t] \in {"none", "running"}
      /\ task[t].pc = "created" => record[t] = "none"
  BY DEF TypeOK, Recorded
<1>2. CASE RunStarted(t) \/ Increment(t)
  <2>1. task'[t].pc = "running"
    <3>1. task'[t].pc = task[t].pc
      <4>1. PICK e \in [kind : {"started", "delta"}, status : {""}, n : {0, TextOf(task[t].buffer) + 1}] :
              task' = [task EXCEPT ![t] = [task[t] EXCEPT !.buffer = @ \o <<e>>]]
        BY <1>2 DEF RunStarted, Increment, PublishTo, Started, Delta, Event
      <4> QED BY <4>1 DEF TypeOK, TaskSet
    <3> QED BY <1>2, <3>1 DEF RunStarted, Increment, Running
  <2>2. record' = record \/ record' = [record EXCEPT ![t] = "running"]
    BY <1>2 DEF RunStarted, Increment, tables
  <2>3. up' = up BY <1>2 DEF RunStarted, Increment
  <2> QED BY <1>1, <1>2, <2>1, <2>2, <2>3 DEF RunStarted, Increment, Running, TypeOK
<1>3. CASE Begin(t)
  <2>1. task'[t].pc \in {"ended", "running"} /\ record' = record /\ up' = up
    BY <1>3 DEF Begin, TypeOK, TaskSet, tables
  <2> QED BY <1>1, <1>3, <2>1 DEF Begin
<1>4. CASE RunCompletes(t)
  <2>1. PICK k \in {"completed", "max_rounds"} :
          /\ record' = [record EXCEPT ![t] = IF k = "completed" THEN "succeeded" ELSE "partial"]
          /\ task' = [task EXCEPT ![t].ending = k, ![t].pc = "closing"]
    BY <1>4 DEF RunCompletes
  <2>2. task'[t].ending = k /\ task'[t].pc = "closing" BY <2>1 DEF TypeOK, TaskSet
  <2>3. record'[t] \in {"succeeded", "partial"} /\ \A u \in Tasks \ {t} : record'[u] = record[u]
    BY <2>1 DEF TypeOK
  <2> QED BY <1>4, <2>2, <2>3 DEF RunCompletes
<1>5. CASE RunErrs(t) \/ RunRaises(t) \/ RunCancelled(t)
  <2>1. task'[t].ending \in {"error", "raised", "cancelled"} /\ task'[t].pc = "closing"
    BY <1>5 DEF RunErrs, RunRaises, RunCancelled, TypeOK, TaskSet
  <2>2. /\ record' = record \/ \E v \in {"running", "cancelled"} : record' = [record EXCEPT ![t] = v]
        /\ up' = up /\ task[t].pc = "running"
    BY <1>5 DEF RunErrs, RunRaises, RunCancelled, Running, tables
  <2>3. record'[t] \notin {"succeeded", "partial"} /\ \A u \in Tasks \ {t} : record'[u] = record[u]
    BY <1>1, <2>2 DEF TypeOK
  <2> QED BY <2>1, <2>2, <2>3
<1>6. CASE StorageFault(t)
  <2>1. task'[t].pc = "ended" /\ up' = up BY <1>6 DEF StorageFault, TypeOK, TaskSet
  <2>2. record' = record \/ record' = [record EXCEPT ![t] = "failed"]
    BY <1>6 DEF StorageFault, TypeOK
  <2>3. \A u \in Tasks \ {t} : record'[u] = record[u] BY <2>2 DEF TypeOK
  <2> QED BY <2>1, <2>3
<1> QED BY <1>2, <1>3, <1>4, <1>5, <1>6 DEF TaskStep, TaskFault

LEMMA TaskKept ==
    ASSUME TypeOK, WorkInv, Kept, NEW t \in Tasks, TaskStep(t) \/ TaskFault(t) PROVE Kept'
<1> USE DEF Kept
<1>1. CASE CloseDone(t) \/ CloseCancelled(t)
  <2> PICK m \in Msgs : m = task[t].msg BY <1>1, ClosingFinalizes DEF WorkInv, Owned, Live
  <2>1. /\ task'[t].pc = "ended" /\ task'[t].msg = m /\ \A u \in Tasks \ {t} : task'[u] = task[u]
        /\ task[t].pc \in Live /\ up' = up
        /\ \A u \in Tasks \ {t} : record'[u] = record[u]
    <3>1. /\ task'[t].pc = "ended" /\ task'[t].msg = m /\ \A u \in Tasks \ {t} : task'[u] = task[u]
      BY <1>1, ClosingPublishes
    <3>2. /\ task[t].pc = "closing" /\ up' = up
          /\ record' \in {record, [record EXCEPT ![t] = "failed"]}
      BY <1>1, ClosingFinalizes
    <3> QED BY <3>1, <3>2 DEF Live, TypeOK
  <2>2. \A k \in Msgs \ {m} : reply'[k] = reply[k] /\ registry'[k] = registry[k]
    <3>1. CASE Text(t) = 0
      <4>1. /\ reply' = [reply EXCEPT ![m].st = "deleted"]
            /\ registry' = [registry EXCEPT ![m] = NoTask]
        BY <1>1, <3>1, ClosingFinalizes
      <4> QED BY <4>1 DEF TypeOK
    <3>2. CASE Text(t) # 0
      <4>1. /\ reply' = [reply EXCEPT ![m].st = IF Answered(t) THEN "completed" ELSE "incomplete",
                                      ![m].text = Text(t)]
            /\ registry' = registry
        BY <1>1, <3>2, ClosingFinalizes
      <4> QED BY <4>1 DEF TypeOK
    <3> QED BY <3>1, <3>2
  <2>3. registry'[m] \in {registry[m], NoTask}
    BY <1>1, ClosingFinalizes DEF TypeOK
  <2>4. ASSUME NEW u \in Tasks \ {t}, task[u].pc \in Live PROVE task[u].msg \in Msgs \ {m}
    BY <2>1, <2>4 DEF WorkInv, Owned
  <2>5. LiveReplyIsGenerating' BY <2>1, <2>2, <2>4 DEF LiveReplyIsGenerating, Live
  <2>6. Assigned'
    <3>1. \A u \in Tasks : task'[u].msg = task[u].msg BY <2>1
    <3> QED BY <2>2, <2>3, <3>1 DEF Assigned, TypeOK
  <2>7. Recorded' BY <2>1 DEF Recorded, Live
  <2> QED BY <2>5, <2>6, <2>7
<1>2. CASE ~ CloseDone(t) /\ ~ CloseCancelled(t)
  <2>1. /\ task[t].pc \in Live /\ up /\ reply' = reply /\ registry' = registry
        /\ \A u \in Tasks \ {t} : task'[u] = task[u]
        /\ task'[t].pc \in {"running", "closing", "ended"} /\ task'[t].msg = task[t].msg
    BY <1>2, TaskMoves
  <2>2. Recorded'
    <3>1. /\ up' = up /\ \A u \in Tasks \ {t} : record'[u] = record[u]
          /\ task'[t].pc = "closing" =>
                (task'[t].ending \in {"completed", "max_rounds"} <=> record'[t] \in {"succeeded", "partial"})
          /\ task'[t].pc = "running" => record'[t] \in {"none", "running"}
      BY <1>2, MovesRecorded
    <3> QED BY <2>1, <3>1 DEF Recorded
  <2>3. \A k \in Msgs : registry[k] \in Tasks \cup {NoTask} BY DEF TypeOK
  <2>4. \A u \in Tasks : task'[u].msg = task[u].msg BY <2>1
  <2>5. \A u \in Tasks : task'[u].pc \in Live => task[u].pc \in Live BY <2>1
  <2> QED BY <2>1, <2>2, <2>3, <2>4, <2>5 DEF LiveReplyIsGenerating, Assigned
<1> QED BY <1>1, <1>2

LEMMA ProcessKept ==
    ASSUME TypeOK, Kept, Kill \/ Recover PROVE Kept'
<1> USE DEF Kept
<1>1. CASE Kill
  <2>1. \A t \in Tasks : (task'[t] = task[t] /\ task[t].pc = "free") \/ task'[t].pc = "dead"
    BY <1>1 DEF Kill, FreshTask
  <2>2. record' = record /\ \A m \in Msgs : registry'[m] = NoTask BY <1>1 DEF Kill, tables
  <2> QED BY <2>1, <2>2 DEF LiveReplyIsGenerating, Assigned, Recorded, Live
<1>2. CASE Recover
  <2>1. UNCHANGED <<reply, registry, task>> /\ ~ up
        /\ \A t \in Tasks : record'[t] = IF record[t] = "running" THEN "failed" ELSE record[t]
    BY <1>2 DEF Recover
  <2>2. \A t \in Tasks : task[t].pc \notin Live BY <2>1 DEF Recorded
  <2> QED BY <2>1, <2>2 DEF LiveReplyIsGenerating, Assigned, Recorded, Live
<1> QED BY <1>1, <1>2

LEMMA NextKept ==
    ASSUME Switchers = {}
    PROVE  TypeOK /\ ReplyInv /\ [Next]_vars => ReplyInv'
<1> SUFFICES ASSUME TypeOK, ReplyInv, [Next]_vars PROVE ReplyInv' OBVIOUS
<1>1. WorkInv' /\ StreamInv' BY NextWork, NextStream DEF ReplyInv
<1>2. Kept'
  <2>1. WorkInv /\ StreamInv /\ Kept BY DEF ReplyInv, Kept
  <2>2. CASE UNCHANGED vars BY <2>1, <2>2, QuietKept DEF vars, tables
  <2> QED BY <2>1, <2>2, RequestKept, SubscriberKept, TaskKept, ProcessKept DEF Next
<1> QED BY <1>1, <1>2 DEF ReplyInv, Kept

\* While nobody switches the agent, nothing takes the reply of a generation that
\* is being worked on for an orphan (_assert_not_busy, build_message_stream and
\* _finalize_generation of other replies).
THEOREM LiveReplyWaits ==
    ASSUME Switchers = {} PROVE Spec => []LiveReplyIsGenerating
<1>1. Init => TypeOK /\ ReplyInv BY InitType, InitReply
<1>2. TypeOK /\ ReplyInv /\ [Next]_vars => (TypeOK /\ ReplyInv)' BY NextType, NextKept
<1>3. ReplyInv => LiveReplyIsGenerating BY DEF ReplyInv
<1> QED BY <1>1, <1>2, <1>3, PTL DEF Spec

-----------------------------------------------------------------------------
(* The three accounts of a generation                                       *)

Matches(m) ==
    registry[m] # NoTask /\ IsTerminal(registry[m]) =>
      LET b == task[registry[m]].buffer
          d == b[Len(b)]
      IN  /\ d.kind = "done" /\ d.n = TextOf(b) /\ reply[m].text = d.n
          /\ reply[m].st = (IF d.status \in {"completed", "max_rounds"} THEN "completed"
                            ELSE "incomplete")
          /\ record[registry[m]] \in {"succeeded", "partial"} <=> reply[m].st = "completed"

\* Nothing about the generation of a reply changes.
LEMMA SameMatches ==
    ASSUME NEW k \in Msgs, Matches(k),
           \/ registry'[k] = NoTask
           \/ /\ registry'[k] = registry[k]
              /\ task'[registry[k]].buffer = task[registry[k]].buffer
              /\ IsTerminal(registry[k]) =>
                    /\ reply'[k] = reply[k]
                    /\ record'[registry[k]] \in {"succeeded", "partial"}
                          <=> record[registry[k]] \in {"succeeded", "partial"}
    PROVE  Matches(k)'
<1>1. CASE registry'[k] = NoTask BY <1>1 DEF Matches
<1>2. CASE /\ registry'[k] = registry[k]
           /\ task'[registry[k]].buffer = task[registry[k]].buffer
           /\ IsTerminal(registry[k]) =>
                 /\ reply'[k] = reply[k]
                 /\ record'[registry[k]] \in {"succeeded", "partial"}
                       <=> record[registry[k]] \in {"succeeded", "partial"}
  <2>1. IsTerminal(registry[k])' <=> IsTerminal(registry[k]) BY <1>2 DEF IsTerminal
  <2> QED BY <1>2, <2>1 DEF Matches
<1> QED BY <1>1, <1>2

\* A row whose generation is over is no orphan.
LEMMA OrphanMatches ==
    ASSUME TypeOK, NEW c \in Convs, NEW k \in Msgs, Matches(k), registry[k] # NoTask,
           IsTerminal(registry[k])
    PROVE  OrphanMarked(c)[k] = reply[k]
<1>1. reply[k].st # "generating" BY DEF Matches
<1> QED BY <1>1, OrphanType

LEMMA StartMatches ==
    ASSUME TypeOK, WorkInv, StreamInv, \A k \in Msgs : Matches(k),
           NEW c \in Convs, NEW t \in Tasks, NEW m \in Msgs,
           SendMessage(c, m, t) \/ (Regenerate(c, t) /\ m = last[c]),
           NEW k \in Msgs
    PROVE  Matches(k)'
<1>1. /\ StartTask(m, t) /\ record' = record
      /\ \A j \in Msgs \ {m} : reply'[j] = OrphanMarked(c)[j]
  BY StartedReply
<1>2. /\ task[t].pc = "free" /\ \A u \in Tasks \ {t} : task'[u] = task[u]
      /\ task'[t].buffer = <<>>
      /\ registry'[m] = t /\ \A j \in Msgs \ {m} : registry'[j] = registry[j]
  BY <1>1 DEF StartTask, FreshTask, TypeOK
<1>3. CASE k = m
  <2>1. registry'[k] = t /\ task'[t].buffer = <<>> BY <1>2, <1>3
  <2>2. ~ IsTerminal(registry[k])' BY <2>1 DEF IsTerminal
  <2> QED BY <2>2 DEF Matches
<1>4. CASE k # m
  <2>1. registry'[k] = registry[k] BY <1>2, <1>4
  <2>2. CASE registry[k] = NoTask BY <2>1, <2>2, SameMatches
  <2>3. CASE registry[k] # NoTask
    <3>1. registry[k] \in Tasks \ {t} BY <1>2, <2>3 DEF TypeOK, StreamInv, Used
    <3>2. task'[registry[k]].buffer = task[registry[k]].buffer BY <1>2, <3>1
    <3>3. IsTerminal(registry[k]) => reply'[k] = reply[k] BY <1>1, <1>4, <2>3, OrphanMatches
    <3> QED BY <1>1, <2>1, <3>2, <3>3, SameMatches
  <2> QED BY <2>2, <2>3
<1> QED BY <1>3, <1>4

LEMMA RequestMatches ==
    ASSUME TypeOK, WorkInv, StreamInv, \A k \in Msgs : Matches(k), Requests, NEW k \in Msgs
    PROVE  Matches(k)'
<1>1. ASSUME NEW c \in Convs, NEW t \in Tasks, NEW m \in Msgs, SendMessage(c, m, t) PROVE Matches(k)'
  BY <1>1, StartMatches
<1>2. ASSUME NEW c \in Convs, NEW t \in Tasks, Regenerate(c, t) PROVE Matches(k)'
  <2>1. last[c] \in Msgs BY <1>2 DEF Regenerate, TypeOK
  <2> QED BY <1>2, <2>1, StartMatches
<1>3. ASSUME NEW c \in Convs, Refused(c) PROVE Matches(k)'
  <2>1. UNCHANGED <<task, registry, record>> /\ reply' = OrphanMarked(c) BY <1>3 DEF Refused
  <2>2. CASE registry[k] = NoTask BY <2>1, <2>2, SameMatches
  <2>3. CASE registry[k] # NoTask
    <3>1. IsTerminal(registry[k]) => reply'[k] = reply[k] BY <2>1, <2>3, OrphanMatches
    <3> QED BY <2>1, <3>1, SameMatches
  <2> QED BY <2>2, <2>3
<1>4. ASSUME NEW m \in Msgs, Stop(m) PROVE Matches(k)'
  <2>1. UNCHANGED <<reply, registry, record>> /\ registry[m] \in Tasks
        /\ task' = [task EXCEPT ![registry[m]].cancel = TRUE]
    BY <1>4 DEF Stop, Registered, TypeOK, tables
  <2>2. \A t \in Tasks : task'[t].buffer = task[t].buffer BY <2>1 DEF TypeOK, TaskSet
  <2>3. registry[k] \in Tasks \cup {NoTask} BY DEF TypeOK
  <2> QED BY <2>1, <2>2, <2>3, SameMatches
<1>5. CASE UNCHANGED <<reply, registry, record, task>> BY <1>5, SameMatches
<1> QED
  BY <1>1, <1>2, <1>3, <1>4, <1>5 DEF Requests, Disconnect, OpenStream, tables

LEMMA SubscriberMatches ==
    ASSUME TypeOK, NEW k \in Msgs, Matches(k), NEW s \in Subs, StreamStep(s) PROVE Matches(k)'
<1>1. CASE NoTaskStream(s)
  <2> PICK m \in Msgs : m = sub[s].msg BY <1>1 DEF NoTaskStream, TypeOK, Opened
  <2>1. /\ registry[m] = NoTask /\ UNCHANGED <<task, registry, record>>
        /\ \A j \in Msgs \ {m} : reply'[j] = reply[j]
    BY <1>1 DEF NoTaskStream, Registered, TypeOK
  <2> QED BY <2>1, SameMatches
<1>2. CASE Follow(s) \/ Deliver(s)
  <2>1. UNCHANGED <<reply, registry, record, task>> BY <1>2 DEF Follow, Deliver, tables
  <2> QED BY <2>1, SameMatches
<1> QED BY <1>1, <1>2 DEF StreamStep

\* An event that is no increment leaves the text as it is.
LEMMA SameText ==
    ASSUME NEW b \in Seq(EventSet), NEW e \in EventSet, e.kind # "delta"
    PROVE  TextOf(b \o <<e>>) = TextOf(b) /\ (b \o <<e>>)[Len(b \o <<e>>)] = e
<1>1. /\ b \o <<e>> \in Seq(EventSet) /\ Len(b \o <<e>>) = Len(b) + 1 /\ Len(b) \in Nat
      /\ DOMAIN b = 1 .. Len(b) /\ DOMAIN (b \o <<e>>) = 1 .. Len(b) + 1
  BY AppendedEvent, LenProperties
<1>2. \A i \in DOMAIN (b \o <<e>>) :
         \/ i \in DOMAIN b /\ (b \o <<e>>)[i] = b[i]
         \/ i = Len(b) + 1 /\ (b \o <<e>>)[i] = e
  BY AppendedEvent
<1>3. Len(b) + 1 \notin 1 .. Len(b) /\ 1 .. Len(b) \subseteq 1 .. Len(b) + 1
      /\ Len(b) + 1 \in 1 .. Len(b) + 1
  BY <1>1
<1>4. {i \in DOMAIN (b \o <<e>>) : (b \o <<e>>)[i].kind = "delta"} = {i \in DOMAIN b : b[i].kind = "delta"}
  BY <1>1, <1>2, <1>3
<1>5. (b \o <<e>>)[Len(b) + 1] = e BY <1>1, <1>2, <1>3
<1> QED BY <1>1, <1>4, <1>5 DEF TextOf

LEMMA FinalBuffer ==
    ASSUME TypeOK, NEW t \in Tasks, NEW f, f = task[t].buffer \o FinalEvents(t)
    PROVE  f[Len(f)] = Done(FinalStatus(t), Text(t)) /\ TextOf(f) = Text(t)
<1> PICK b \in Seq(EventSet) : b = task[t].buffer BY DEF TypeOK, TaskSet
<1> PICK d \in EventSet : d = Done(FinalStatus(t), Text(t)) BY FinalTypes
<1>1. d.kind # "delta" BY DEF Done, Event
<1>2. CASE ~ Erred(t)
  <2>1. FinalEvents(t) = <<d>> BY <1>2, FinalTypes
  <2> QED BY <1>1, <2>1, SameText DEF Text
<1>3. CASE Erred(t)
  <2> PICK e \in EventSet : e = ErrorEvent /\ e.kind # "delta" BY EventTypes DEF ErrorEvent, Event
  <2>1. FinalEvents(t) = <<e, d>> BY <1>3, FinalTypes
  <2>2. b \o <<e, d>> = (b \o <<e>>) \o <<d>>
    <3>0. <<e>> \in Seq(EventSet) /\ <<d>> \in Seq(EventSet) OBVIOUS
    <3> PICK x \in Seq(EventSet) : x = <<e>> BY <3>0, Zenon
    <3> PICK y \in Seq(EventSet) : y = <<d>> BY <3>0, Zenon
    <3>1. <<e, d>> = x \o y BY TwoElements
    <3>2. (b \o x) \o y = b \o (x \o y) BY ConcatAssociative
    <3> QED BY <3>1, <3>2
  <2> PICK g \in Seq(EventSet) : g = b \o <<e>> BY AppendedEvent
  <2>3. TextOf(g) = TextOf(b) BY SameText
  <2>4. TextOf(g \o <<d>>) = TextOf(g) /\ (g \o <<d>>)[Len(g \o <<d>>)] = d BY <1>1, SameText
  <2>5. f = g \o <<d>> BY <2>1, <2>2
  <2> QED BY <2>3, <2>4, <2>5 DEF Text
<1> QED BY <1>2, <1>3

LEMMA FinalMatches ==
    ASSUME TypeOK, WorkInv, Recorded, Assigned, NEW t \in Tasks, CloseDone(t) \/ CloseCancelled(t),
           NEW k \in Msgs, Matches(k)
    PROVE  Matches(k)'
<1>1. task[t].pc = "closing" /\ task[t].pc \in Live BY ClosingFinalizes DEF Live
<1> PICK m \in Msgs : m = task[t].msg /\ registry[m] = t BY <1>1 DEF WorkInv, Owned
<1> PICK n \in Nat : n = Text(t) BY FinalTypes
<1>2. /\ \A u \in Tasks \ {t} : task'[u] = task[u]
      /\ task'[t].buffer = task[t].buffer \o FinalEvents(t)
      /\ task'[t].msg = m
  BY ClosingPublishes
<1>3. /\ record' \in {record, [record EXCEPT ![t] = "failed"]}
      /\ task[t].ending # "error" => record' = record
  BY ClosingFinalizes
<1>4. CASE k # m
  <2>1. reply'[k] = reply[k] /\ registry'[k] = registry[k]
    <3>1. CASE n = 0
      <4>1. /\ reply' = [reply EXCEPT ![m].st = "deleted"]
            /\ registry' = [registry EXCEPT ![m] = NoTask]
        BY <3>1, ClosingFinalizes
      <4> QED BY <1>4, <4>1 DEF TypeOK
    <3>2. CASE n # 0
      <4>1. /\ reply' = [reply EXCEPT ![m].st = IF Answered(t) THEN "completed" ELSE "incomplete",
                                      ![m].text = n]
            /\ registry' = registry
        BY <3>2, ClosingFinalizes
      <4> QED BY <1>4, <4>1 DEF TypeOK
    <3> QED BY <3>1, <3>2
  <2>2. CASE registry[k] = NoTask BY <2>1, <2>2, SameMatches
  <2>3. CASE registry[k] \in Tasks \ {t}
    <3>1. record'[registry[k]] = record[registry[k]] BY <1>3, <2>3 DEF TypeOK
    <3> QED BY <1>2, <2>1, <2>3, <3>1, SameMatches
  <2>4. registry[k] # t BY <1>4, GenerationAssumption DEF Assigned
  <2> QED BY <2>2, <2>3, <2>4 DEF TypeOK
<1>5. CASE k = m
  <2>1. CASE n = 0
    <3>1. registry' = [registry EXCEPT ![m] = NoTask] BY <2>1, ClosingFinalizes
    <3>2. registry'[k] = NoTask BY <1>5, <3>1 DEF TypeOK
    <3> QED BY <3>2, SameMatches
  <2>2. CASE n # 0
    <3>1. /\ reply' = [reply EXCEPT ![m].st = IF Answered(t) THEN "completed" ELSE "incomplete",
                                    ![m].text = n]
          /\ registry' = registry
      BY <2>2, ClosingFinalizes
    <3>2. reply'[m].text = n /\ reply'[m].st = IF Answered(t) THEN "completed" ELSE "incomplete"
      <4>1. reply[m] \in ReplySet BY DEF TypeOK
      <4> QED BY <3>1, <4>1 DEF TypeOK, ReplySet
    <3>3. Answered(t) <=> task[t].ending \in {"completed", "max_rounds"} BY DEF Answered, Ending
    <3>4. record'[t] \in {"succeeded", "partial"} <=> Answered(t)
      BY <1>1, <1>3, <3>3 DEF Recorded, TypeOK
    <3>5. FinalStatus(t) \in {"completed", "max_rounds"} <=> Answered(t)
      BY <2>2 DEF FinalStatus, Answered
    <3> PICK f : f = task[t].buffer \o FinalEvents(t) OBVIOUS
    <3> PICK d : d = f[Len(f)] OBVIOUS
    <3>6. /\ d = Done(FinalStatus(t), n) /\ TextOf(f) = n BY FinalBuffer
    <3>7. d.kind = "done" /\ d.n = n /\ d.status = FinalStatus(t) BY <3>6 DEF Done, Event
    <3>8. registry'[m] = t /\ task'[t].buffer = f BY <1>2, <3>1
    <3> QED BY <1>5, <3>2, <3>4, <3>5, <3>6, <3>7, <3>8, ZenonT(30) DEF Matches
  <2> QED BY <2>1, <2>2
<1> QED BY <1>4, <1>5

LEMMA TaskMatches ==
    ASSUME TypeOK, WorkInv, Recorded, Assigned, NEW t \in Tasks, TaskStep(t) \/ TaskFault(t),
           NEW k \in Msgs, Matches(k)
    PROVE  Matches(k)'
<1>1. CASE CloseDone(t) \/ CloseCancelled(t) BY <1>1, FinalMatches
<1>2. CASE ~ CloseDone(t) /\ ~ CloseCancelled(t)
  <2>1. /\ task[t].pc \in Live /\ reply' = reply /\ registry' = registry
        /\ \A u \in Tasks \ {t} : task'[u] = task[u]
    BY <1>2, TaskMoves
  <2>2. \A u \in Tasks \ {t} : record'[u] = record[u] BY <1>2, MovesRecorded
  <2>3. CASE registry[k] = t
    <3>1. ~ IsTerminal(t) BY <2>1 DEF WorkInv, Owned
    <3>2. ~ IsTerminal(t)'
      <4>1. CASE task'[t].buffer = task[t].buffer BY <3>1, <4>1 DEF IsTerminal
      <4>2. ASSUME NEW e \in {Started} \cup {Delta(n) : n \in Nat},
                   task'[t].buffer = task[t].buffer \o <<e>>
            PROVE  ~ IsTerminal(t)'
        <5>1. task[t].buffer \in Seq(EventSet) BY DEF TypeOK, TaskSet
        <5>2. e \in EventSet /\ e.kind # "done" BY MoveEvents
        <5> QED BY <3>1, <4>2, <5>1, <5>2, AppendedEvent DEF IsTerminal
      <4> QED BY <1>2, <4>1, <4>2, TaskMoves
    <3>3. registry'[k] = t BY <2>1, <2>3
    <3> QED BY <3>2, <3>3 DEF Matches
  <2>4. CASE registry[k] = NoTask BY <2>1, <2>4, SameMatches
  <2>5. CASE registry[k] \in Tasks \ {t} BY <2>1, <2>2, <2>5, SameMatches
  <2> QED BY <2>3, <2>4, <2>5 DEF TypeOK
<1> QED BY <1>1, <1>2

LEMMA NextMatches ==
    ASSUME Switchers = {}
    PROVE  TypeOK /\ ReplyInv /\ (\A k \in Msgs : Matches(k)) /\ [Next]_vars
             => (\A k \in Msgs : Matches(k))'
<1> SUFFICES ASSUME TypeOK, ReplyInv, \A k \in Msgs : Matches(k), [Next]_vars, NEW k \in Msgs
             PROVE  Matches(k)'
  OBVIOUS
<1> USE DEF ReplyInv
<1>1. CASE Kill
  <2>1. registry'[k] = NoTask BY <1>1 DEF Kill
  <2> QED BY <2>1, SameMatches
<1>2. CASE Recover
  <2>1. UNCHANGED <<reply, registry, task>>
        /\ record' = [t \in Tasks |-> IF record[t] = "running" THEN "failed" ELSE record[t]]
    BY <1>2 DEF Recover
  <2>2. CASE registry[k] = NoTask BY <2>1, <2>2, SameMatches
  <2>3. CASE registry[k] \in Tasks
    <3>1. record'[registry[k]] \in {"succeeded", "partial"} <=> record[registry[k]] \in {"succeeded", "partial"}
      BY <2>1, <2>3
    <3> QED BY <2>1, <3>1, SameMatches
  <2> QED BY <2>2, <2>3 DEF TypeOK
<1>3. CASE UNCHANGED vars
  <2>1. UNCHANGED <<reply, registry, record, task>> BY <1>3 DEF vars, tables
  <2> QED BY <2>1, SameMatches
<1> QED
  BY <1>1, <1>2, <1>3, RequestMatches, SubscriberMatches, TaskMatches DEF Next

\* While nobody switches the agent, the three accounts of a finished generation
\* agree: the text and the status its terminal event gives to the clients are
\* those stored (_finalize_generation), and the run row (RunRecorder) says
\* succeeded or partial exactly if the reply is completed.
THEOREM ReplyAsStreamed ==
    ASSUME Switchers = {} PROVE Spec => []ReplyMatchesStream
<1> DEFINE Inv == TypeOK /\ ReplyInv /\ \A k \in Msgs : Matches(k)
<1>1. Init => Inv
  <2> SUFFICES ASSUME Init PROVE \A k \in Msgs : Matches(k) BY InitType, InitReply
  <2> QED BY DEF Init, Matches
<1>2. Inv /\ [Next]_vars => Inv' BY NextType, NextKept, NextMatches
<1>3. Inv => ReplyMatchesStream BY DEF ReplyMatchesStream, Matches, Registered
<1> HIDE DEF Inv
<1> QED BY <1>1, <1>2, <1>3, PTL DEF Spec

-----------------------------------------------------------------------------
(* The life of a reply                                                      *)

Legal(m) ==
    LET a == reply[m].st
        b == reply'[m].st
    IN  \/ a = b
        \/ a = "absent" /\ b = "generating"
        \/ a = "generating" /\ b \in {"completed", "incomplete", "deleted"}
        \/ a \in {"completed", "incomplete"} /\ b = "generating" /\ registry'[m] # registry[m]

LEMMA StartLegal ==
    ASSUME TypeOK, WorkInv, StreamInv, NEW c \in Convs, NEW t \in Tasks, NEW m \in Msgs,
           SendMessage(c, m, t) \/ (Regenerate(c, t) /\ m = last[c]),
           NEW k \in Msgs
    PROVE  Legal(k)
<1>1. /\ StartTask(m, t) /\ reply[m].st # "deleted" /\ reply'[m].st = "generating"
      /\ \A j \in Msgs \ {m} : reply'[j] = OrphanMarked(c)[j]
  BY StartedReply
<1>2. CASE k # m BY <1>1, <1>2, OrphanType DEF Legal
<1>3. CASE k = m
  <2>1. registry'[m] = t /\ task[t].pc = "free" BY <1>1 DEF StartTask, TypeOK
  <2>2. registry[m] # t BY <2>1, GenerationAssumption DEF StreamInv, Used
  <2>3. reply[m].st \in {"absent", "generating", "completed", "incomplete"}
    BY <1>1 DEF TypeOK, ReplySet
  <2> QED BY <1>1, <1>3, <2>1, <2>2, <2>3 DEF Legal
<1> QED BY <1>2, <1>3

LEMMA FinalLegal ==
    ASSUME TypeOK, WorkInv, LiveReplyIsGenerating, NEW t \in Tasks, CloseDone(t) \/ CloseCancelled(t),
           NEW k \in Msgs
    PROVE  Legal(k)
<1>1. task[t].pc \in Live BY ClosingFinalizes DEF Live
<1> PICK m \in Msgs : m = task[t].msg BY <1>1 DEF WorkInv, Owned
<1>2. reply[m].st = "generating" /\ reply[m] \in ReplySet
  BY <1>1 DEF LiveReplyIsGenerating, TypeOK
<1>3. CASE Text(t) = 0
  <2>1. reply' = [reply EXCEPT ![m].st = "deleted"] BY <1>3, ClosingFinalizes
  <2> QED BY <1>2, <2>1 DEF Legal, TypeOK, ReplySet
<1>4. CASE Text(t) # 0
  <2>1. PICK v \in {"completed", "incomplete"} : reply' = [reply EXCEPT ![m].st = v, ![m].text = Text(t)]
    BY <1>4, ClosingFinalizes
  <2>2. CASE k = m
    <3>1. reply'[m].st = v BY <1>2, <2>1 DEF TypeOK, ReplySet
    <3> QED BY <1>2, <2>2, <3>1 DEF Legal
  <2>3. CASE k # m
    <3>1. reply'[k] = reply[k] BY <2>1, <2>3 DEF TypeOK
    <3> QED BY <3>1 DEF Legal
  <2> QED BY <2>2, <2>3
<1> QED BY <1>3, <1>4

LEMMA NextLegal ==
    ASSUME Switchers = {}, TypeOK, ReplyInv, [Next]_vars, NEW k \in Msgs
    PROVE  Legal(k)
<1> USE DEF ReplyInv
<1>1. CASE reply' = reply BY <1>1 DEF Legal
<1>2. ASSUME NEW c \in Convs, NEW t \in Tasks, NEW m \in Msgs, SendMessage(c, m, t) PROVE Legal(k)
  BY <1>2, StartLegal
<1>3. ASSUME NEW c \in Convs, NEW t \in Tasks, Regenerate(c, t) PROVE Legal(k)
  <2>1. last[c] \in Msgs BY <1>3 DEF Regenerate, TypeOK
  <2> QED BY <1>3, <2>1, StartLegal
<1>4. ASSUME NEW c \in Convs, Refused(c) PROVE Legal(k)
  BY <1>4, OrphanType DEF Refused, Legal
<1>5. ASSUME NEW s \in Subs, NoTaskStream(s) PROVE Legal(k)
  <2>1. reply' = [reply EXCEPT ![sub[s].msg].st = IF @ = "generating" THEN "incomplete" ELSE @]
    BY <1>5 DEF NoTaskStream
  <2>2. reply[k] \in ReplySet BY DEF TypeOK
  <2> QED BY <2>1, <2>2 DEF Legal, TypeOK, ReplySet
<1>6. ASSUME NEW t \in Tasks, TaskStep(t) \/ TaskFault(t) PROVE Legal(k)
  <2>1. CASE CloseDone(t) \/ CloseCancelled(t) BY <2>1, FinalLegal
  <2>2. CASE ~ CloseDone(t) /\ ~ CloseCancelled(t)
    <3>1. reply' = reply BY <1>6, <2>2, TaskMoves
    <3> QED BY <1>1, <3>1
  <2> QED BY <2>1, <2>2
<1>7. CASE Requests
  BY <1>1, <1>2, <1>3, <1>4, <1>7 DEF Requests, Stop, Disconnect, OpenStream, tables
<1>8. CASE \E s \in Subs : StreamStep(s)
  BY <1>1, <1>5, <1>8 DEF StreamStep, Follow, Deliver, tables
<1>9. CASE Kill \/ Recover \/ UNCHANGED vars
  BY <1>1, <1>9 DEF Kill, Recover, vars, tables
<1> QED BY <1>6, <1>7, <1>8, <1>9 DEF Next

\* While nobody switches the agent, a stored reply changes only by being
\* regenerated: a completed one is never taken back, an unfinished one never
\* becomes complete by itself, a deleted one never comes back.
THEOREM ReplyMovesLegally ==
    ASSUME Switchers = {} PROVE Spec => ReplyLifeCycle
<1>1. Init => TypeOK /\ ReplyInv BY InitType, InitReply
<1>2. TypeOK /\ ReplyInv /\ [Next]_vars => (TypeOK /\ ReplyInv)' BY NextType, NextKept
<1>3. TypeOK /\ ReplyInv /\ [Next]_vars => \A m \in Msgs : Legal(m) BY NextLegal
<1>4. (\A m \in Msgs : Legal(m)) =>
        (\A m \in Msgs :
           LET a == reply[m].st
               b == reply'[m].st
           IN  \/ a = b
               \/ a = "absent" /\ b = "generating"
               \/ a = "generating" /\ b \in {"completed", "incomplete", "deleted"}
               \/ a \in {"completed", "incomplete"} /\ b = "generating" /\ registry'[m] # registry[m])
  BY DEF Legal
<1> QED BY <1>1, <1>2, <1>3, <1>4, PTL DEF Spec, ReplyLifeCycle

-----------------------------------------------------------------------------
(* Busy conversations                                                       *)

EarlyInv ==
    /\ BusyMeansWorking
    /\ faults \in Nat
    /\ \A t \in Tasks : task[t].pc \in {"free", "created"} => ~ task[t].cancel

LEMMA NextEarly ==
    ASSUME MaxFaults = 0, ~ EarlyStop
    PROVE  TypeOK /\ WorkInv /\ StreamInv /\ EarlyInv /\ [Next]_vars => EarlyInv'
<1> SUFFICES ASSUME TypeOK, WorkInv, StreamInv, EarlyInv, [Next]_vars PROVE EarlyInv' OBVIOUS
<1>1. ASSUME UNCHANGED <<registry, task, faults>> PROVE EarlyInv'
  BY <1>1 DEF EarlyInv, BusyMeansWorking, Registered, IsTerminal
<1>2. ASSUME NEW t \in Tasks, NEW m \in Msgs, StartTask(m, t), faults' = faults PROVE EarlyInv'
  <2>1. /\ task[t].pc = "free" /\ \A u \in Tasks \ {t} : task'[u] = task[u]
        /\ task'[t].pc = "created" /\ ~ task'[t].cancel
        /\ registry'[m] = t /\ \A k \in Msgs \ {m} : registry'[k] = registry[k]
    BY <1>2 DEF StartTask, FreshTask, TypeOK
  <2>2. \A k \in Msgs : registry[k] # NoTask => registry[k] \in Tasks \ {t}
    BY <2>1 DEF TypeOK, StreamInv, Used
  <2>3. BusyMeansWorking'
    BY <2>1, <2>2 DEF EarlyInv, BusyMeansWorking, Registered, IsTerminal, Live
  <2> QED BY <1>2, <2>1, <2>3 DEF EarlyInv
<1>3. ASSUME NEW m \in Msgs, Stop(m) PROVE EarlyInv'
  <2>1. UNCHANGED <<registry, faults>> /\ registry[m] \in Tasks
        /\ task' = [task EXCEPT ![registry[m]].cancel = TRUE] /\ task[registry[m]].pc \in Live \ {"created"}
    BY <1>3 DEF Stop, Registered, TypeOK, bounds
  <2>2. \A t \in Tasks : /\ task'[t].pc = task[t].pc /\ task'[t].buffer = task[t].buffer
                         /\ task'[t].cancel = task[t].cancel \/ t = registry[m]
    BY <2>1 DEF TypeOK, TaskSet
  <2>3. BusyMeansWorking'
    BY <2>1, <2>2 DEF EarlyInv, BusyMeansWorking, Registered, IsTerminal, TypeOK
  <2> QED BY <2>1, <2>2, <2>3 DEF EarlyInv, Live
<1>4. ASSUME NEW t \in Tasks, CloseDone(t) \/ CloseCancelled(t) PROVE EarlyInv'
  <2>1. /\ \A u \in Tasks \ {t} : task'[u] = task[u]
        /\ task'[t].pc = "ended" /\ task'[t].buffer = task[t].buffer \o FinalEvents(t)
    BY <1>4, ClosingPublishes
  <2>2. IsTerminal(t)'
    <3> PICK f : f = task[t].buffer \o FinalEvents(t) OBVIOUS
    <3>1. f \in Seq(EventSet) /\ Len(f) \in DOMAIN f
      <4> PICK b \in Seq(EventSet) : b = task[t].buffer BY DEF TypeOK, TaskSet
      <4> PICK e \in Seq(EventSet) : e = FinalEvents(t) BY FinalTypes
      <4>1. Len(e) \in Nat \ {0}
        <5> PICK d \in EventSet : d = Done(FinalStatus(t), Text(t)) BY FinalTypes
        <5>1. e = <<d>> \/ e = <<ErrorEvent, d>> BY FinalTypes
        <5>2. Len(<<d>>) = 1 /\ \A x : Len(<<x, d>>) = 2 OBVIOUS
        <5>3. Len(e) = 1 \/ Len(e) = 2 BY <5>1, <5>2, Zenon
        <5>4. 1 \in Nat \ {0} /\ 2 \in Nat \ {0} OBVIOUS
        <5> QED BY <5>3, <5>4, Zenon
      <4>2. b \o e \in Seq(EventSet) /\ Len(b \o e) = Len(b) + Len(e) /\ Len(b) \in Nat
            /\ DOMAIN (b \o e) = 1 .. Len(b \o e)
        BY ConcatProperties, LenProperties
      <4> QED BY <4>1, <4>2
    <3>2. f[Len(f)] = Done(FinalStatus(t), Text(t)) BY FinalBuffer
    <3>3. f[Len(f)].kind = "done" BY <3>2 DEF Done, Event
    <3> QED BY <2>1, <3>1, <3>3 DEF IsTerminal
  <2>3. \A k \in Msgs : registry'[k] \in {registry[k], NoTask}
    BY <1>4, ClosingFinalizes DEF TypeOK
  <2>4. faults' = faults BY <1>4 DEF CloseDone, CloseCancelled, bounds
  <2>5. BusyMeansWorking'
    <3> SUFFICES ASSUME NEW k \in Msgs, registry'[k] # NoTask, ~ IsTerminal(registry[k])'
                 PROVE  task'[registry'[k]].pc \in Live
      BY DEF BusyMeansWorking, Registered, IsTerminal
    <3>1. registry'[k] = registry[k] /\ registry[k] \in Tasks \ {t}
      BY <2>2, <2>3 DEF TypeOK, IsTerminal
    <3> QED BY <2>1, <3>1 DEF EarlyInv, BusyMeansWorking, Registered, IsTerminal
  <2> QED BY <2>1, <2>4, <2>5 DEF EarlyInv
<1>5. ASSUME NEW t \in Tasks, TaskStep(t), ~ CloseDone(t), ~ CloseCancelled(t) PROVE EarlyInv'
  <2>1. /\ registry' = registry /\ \A u \in Tasks \ {t} : task'[u] = task[u]
        /\ task'[t].pc \in {"running", "closing", "ended"}
    BY <1>5, TaskMoves
  <2>2. task'[t].pc \in Live
    <3>1. CASE Begin(t)
      <4>1. task'[t].pc = "running" BY <3>1 DEF Begin, EarlyInv, TypeOK, TaskSet
      <4> QED BY <4>1 DEF Live
    <3>2. CASE RunStarted(t) \/ Increment(t)
      <4>1. PICK e : task' = [task EXCEPT ![t] = [task[t] EXCEPT !.buffer = @ \o <<e>>]]
        BY <3>2 DEF RunStarted, Increment, PublishTo
      <4>2. task'[t].pc = task[t].pc BY <4>1 DEF TypeOK, TaskSet
      <4> QED BY <3>2, <4>2 DEF RunStarted, Increment, Running, Live
    <3>3. CASE RunCompletes(t) \/ RunErrs(t) \/ RunCancelled(t)
      <4>1. task'[t].pc = "closing"
        BY <3>3 DEF RunCompletes, RunErrs, RunCancelled, TypeOK, TaskSet
      <4> QED BY <4>1 DEF Live
    <3> QED BY <1>5, <3>1, <3>2, <3>3 DEF TaskStep
  <2>3. faults' = faults
    BY <1>5 DEF TaskStep, Begin, RunStarted, Increment, RunCompletes, RunErrs, RunCancelled, bounds
  <2>4. BusyMeansWorking'
    <3> SUFFICES ASSUME NEW k \in Msgs, registry[k] # NoTask, ~ IsTerminal(registry[k])'
                 PROVE  task'[registry[k]].pc \in Live
      BY <2>1 DEF BusyMeansWorking, Registered, IsTerminal
    <3>1. CASE registry[k] = t BY <2>2, <3>1
    <3>2. CASE registry[k] # t
      <4>1. registry[k] \in Tasks \ {t} BY <3>2 DEF TypeOK
      <4> QED BY <2>1, <4>1 DEF EarlyInv, BusyMeansWorking, Registered, IsTerminal
    <3> QED BY <3>1, <3>2
  <2> QED BY <2>1, <2>3, <2>4 DEF EarlyInv
<1>6. ASSUME NEW t \in Tasks, TaskFault(t) PROVE FALSE
  <2>1. faults < 0 BY <1>6 DEF TaskFault, RunRaises, StorageFault
  <2> QED BY <2>1 DEF EarlyInv
<1>7. CASE Kill
  <2>1. \A m \in Msgs : registry'[m] = NoTask BY <1>7 DEF Kill
  <2>2. \A t \in Tasks : task'[t] = task[t] \/ task'[t].pc = "dead" BY <1>7 DEF Kill, FreshTask
  <2>3. faults' = faults BY <1>7 DEF Kill
  <2> QED BY <2>1, <2>2, <2>3 DEF EarlyInv, BusyMeansWorking, Registered
<1>8. CASE Requests
  BY <1>1, <1>2, <1>3, <1>8
  DEF Requests, SendMessage, Regenerate, Refused, Disconnect, OpenStream, bounds, TypeOK
<1>9. CASE (\E s \in Subs : StreamStep(s)) \/ (\E w \in Switchers : SwitchStep(w))
  BY <1>1, <1>9
  DEF StreamStep, Follow, NoTaskStream, Deliver, SwitchStep, SwitchCheck, SwitchFind, SwitchMark, bounds
<1>10. CASE Recover \/ UNCHANGED vars BY <1>1, <1>10 DEF Recover, vars, bounds
<1> QED BY <1>4, <1>5, <1>6, <1>7, <1>8, <1>9, <1>10 DEF Next

\* FR-020, FR-025: without unexpected exceptions, and as long as no stop comes
\* before the first step of a task, a conversation that refuses requests as busy
\* is being worked for (_assert_not_busy looks at the buffer, not at the task).
THEOREM BusyIsWorking ==
    ASSUME MaxFaults = 0, ~ EarlyStop PROVE Spec => []BusyMeansWorking
<1> DEFINE Inv == TypeOK /\ WorkInv /\ StreamInv /\ EarlyInv
<1>1. Init => Inv
  <2> SUFFICES ASSUME Init PROVE EarlyInv BY InitType, InitWork, InitStream
  <2> QED BY DEF Init, EarlyInv, BusyMeansWorking, Registered, FreshTask
<1>2. Inv /\ [Next]_vars => Inv' BY NextType, NextWork, NextStream, NextEarly
<1>3. Inv => BusyMeansWorking BY DEF EarlyInv
<1> HIDE DEF Inv
<1> QED BY <1>1, <1>2, <1>3, PTL DEF Spec

=============================================================================
