-------------------------- MODULE GenerationProofs --------------------------
(***************************************************************************)
(* Proofs about the chat generation, for any number of conversations,      *)
(* replies, tasks, streams, switch requests, restarts and faults.          *)
(*                                                                         *)
(* The mutual exclusion of generations rests on the registry: a task that  *)
(* is not done is the one registered for its reply and has published no    *)
(* terminal event (Owned), so that the busy check of its conversation sees *)
(* it.  That nothing is delivered twice or lost rests on the terminal      *)
(* event being the last one (Sealed) and on tasks being used once (Used).  *)
(***************************************************************************)
EXTENDS Generation, FiniteSetTheorems, SequenceTheorems, TLAPS

EventSet ==
    [kind : {"started", "delta", "error", "done"},
     status : {"", "completed", "max_rounds", "error", "cancelled"},
     n : Nat]

ReplySet ==
    [conv : Convs \cup {"none"},
     st : {"absent", "generating", "completed", "incomplete", "deleted"},
     text : Nat]

TaskSet ==
    [pc : {"free", "created", "running", "closing", "ended", "dead"},
     msg : Msgs \cup {0},
     buffer : Seq(EventSet),
     cancel : BOOLEAN,
     ending : {"none", "completed", "max_rounds", "error", "raised", "cancelled"}]

SubSet ==
    [pc : {"none", "opening", "following", "closed", "gone"},
     msg : Msgs \cup {0},
     task : Tasks \cup {NoTask},
     queue : Seq(EventSet),
     got : Seq(EventSet)]

SwitchSet ==
    [pc : {"idle", "checked", "found", "done"}, conv : Convs \cup {"none"}, msg : Msgs \cup {0}]

Opened == \A s \in Subs : sub[s].pc = "opening" => sub[s].msg \in Msgs

TypeOK ==
    /\ reply \in [Msgs -> ReplySet]
    /\ last \in [Convs -> Msgs \cup {0}]
    /\ record \in [Tasks -> {"none", "running", "succeeded", "partial", "failed", "cancelled"}]
    /\ registry \in [Msgs -> Tasks \cup {NoTask}]
    /\ task \in [Tasks -> TaskSet]
    /\ sub \in [Subs -> SubSet]
    /\ switch \in [Switchers -> SwitchSet]
    /\ up \in BOOLEAN
    /\ Opened

-----------------------------------------------------------------------------
(* Events                                                                   *)

LEMMA MsgsFacts == 0 \notin Msgs
BY GenerationAssumption DEF Msgs

LEMMA TextNat ==
    ASSUME NEW b \in Seq(EventSet) PROVE TextOf(b) \in Nat
<1>1. DOMAIN b = 1 .. Len(b) /\ Len(b) \in Nat BY LenProperties
<1>2. IsFiniteSet(DOMAIN b) BY <1>1, FS_Interval
<1>3. {i \in DOMAIN b : b[i].kind = "delta"} \subseteq DOMAIN b OBVIOUS
<1> QED BY <1>2, <1>3, FS_Subset, FS_CardinalityType DEF TextOf

LEMMA EventTypes ==
    /\ <<>> \in Seq(EventSet)
    /\ Started \in EventSet /\ ErrorEvent \in EventSet
    /\ \A n \in Nat : Delta(n) \in EventSet
    /\ \A n \in Nat, s \in {"completed", "max_rounds", "error", "cancelled"} : Done(s, n) \in EventSet
BY DEF Started, ErrorEvent, Delta, Done, Event, EventSet

\* What publishing changes: the buffer of the task, and what the streams that
\* follow it have still to deliver.
LEMMA Published ==
    ASSUME TypeOK, NEW t \in Tasks, NEW tk \in TaskSet, NEW events \in Seq(EventSet),
           PublishTo(t, tk, events)
    PROVE  /\ task' \in [Tasks -> TaskSet] /\ sub' \in [Subs -> SubSet]
           /\ \A u \in Tasks \ {t} : task'[u] = task[u]
           /\ task'[t].buffer = tk.buffer \o events
           /\ task'[t].pc = tk.pc /\ task'[t].msg = tk.msg /\ task'[t].cancel = tk.cancel
           /\ task'[t].ending = tk.ending
           /\ \A s \in Subs : /\ sub'[s].pc = sub[s].pc /\ sub'[s].msg = sub[s].msg
                              /\ sub'[s].task = sub[s].task /\ sub'[s].got = sub[s].got
                              /\ IF sub[s].pc = "following" /\ sub[s].task = t
                                 THEN sub'[s].queue = sub[s].queue \o events
                                 ELSE sub'[s] = sub[s]
<1> USE DEF TypeOK
<1>1. tk.buffer \o events \in Seq(EventSet) BY ConcatProperties DEF TaskSet
<1>2. [tk EXCEPT !.buffer = @ \o events] \in TaskSet BY <1>1 DEF TaskSet
<1>3. task' = [task EXCEPT ![t] = [tk EXCEPT !.buffer = @ \o events]] BY DEF PublishTo
<1>4. ASSUME NEW s \in Subs
      PROVE  /\ sub'[s] \in SubSet
             /\ sub'[s].pc = sub[s].pc /\ sub'[s].msg = sub[s].msg
             /\ sub'[s].task = sub[s].task /\ sub'[s].got = sub[s].got
             /\ IF sub[s].pc = "following" /\ sub[s].task = t
                THEN sub'[s].queue = sub[s].queue \o events
                ELSE sub'[s] = sub[s]
  <2>1. sub[s] \in SubSet OBVIOUS
  <2>2. sub[s].queue \o events \in Seq(EventSet) BY <2>1, ConcatProperties DEF SubSet
  <2>3. sub'[s] = IF sub[s].pc = "following" /\ sub[s].task = t
                  THEN [sub[s] EXCEPT !.queue = @ \o events] ELSE sub[s]
    BY DEF PublishTo
  <2> QED BY <2>1, <2>2, <2>3 DEF SubSet
<1>5. sub' \in [Subs -> SubSet]
  <2>1. sub' = [s \in Subs |-> sub'[s]] BY DEF PublishTo
  <2> QED BY <1>4, <2>1
<1>6. task' \in [Tasks -> TaskSet] BY <1>2, <1>3
<1>7. task'[t] = [tk EXCEPT !.buffer = @ \o events] BY <1>3
<1>8. \A u \in Tasks \ {t} : task'[u] = task[u] BY <1>3
<1> QED BY <1>4, <1>5, <1>6, <1>7, <1>8 DEF TaskSet

LEMMA TwoElements ==
    ASSUME NEW S, NEW a \in S, NEW d \in S
    PROVE  <<a>> \o <<d>> = <<a, d>>
<1>1. <<a>> \in Seq(S) /\ <<d>> \in Seq(S) /\ <<a, d>> \in Seq(S) OBVIOUS
<1>2. Len(<<a>>) = 1 /\ Len(<<d>>) = 1 /\ Len(<<a, d>>) = 2 OBVIOUS
<1>3. <<a>> \o <<d>> \in Seq(S) /\ Len(<<a>> \o <<d>>) = 2
  BY <1>1, <1>2, ConcatProperties
<1>4. (<<a>> \o <<d>>)[1] = a /\ (<<a>> \o <<d>>)[2] = d
  <2>1. \A i \in 1 .. 2 : (<<a>> \o <<d>>)[i] = IF i <= 1 THEN <<a>>[i] ELSE <<d>>[i - 1]
    BY <1>1, <1>2, ConcatProperties
  <2> QED BY <2>1
<1>5. \A i \in 1 .. 2 : (<<a>> \o <<d>>)[i] = <<a, d>>[i] BY <1>4
<1> QED BY <1>1, <1>2, <1>3, <1>5, SeqEqual

\* What _finalize_generation is told of the run: the status of the terminal
\* event the bridge has seen, and whether it saw an error.
Ending(t) ==
    IF task[t].cancel
    THEN IF task[t].ending \in {"completed", "max_rounds"} THEN task[t].ending ELSE "none"
    ELSE IF task[t].ending \in {"cancelled", "raised"} THEN "none" ELSE task[t].ending

Erred(t) == task[t].ending = "error" \/ (task[t].ending = "raised" /\ ~ task[t].cancel)

Answered(t) == Ending(t) \in {"completed", "max_rounds"}

\* ... and the events it publishes.
Text(t) == TextOf(task[t].buffer)

FinalStatus(t) ==
    IF Text(t) = 0 THEN IF Erred(t) THEN "error" ELSE "cancelled"
    ELSE IF (Erred(t) /\ ~ Answered(t)) \/ Ending(t) = "none" THEN "error" ELSE Ending(t)

FinalEvents(t) ==
    (IF Erred(t) THEN <<ErrorEvent>> ELSE <<>>) \o <<Done(FinalStatus(t), Text(t))>>

Ended(t) == [task[t] EXCEPT !.pc = "ended"]

LEMMA FinalTypes ==
    ASSUME TypeOK, NEW t \in Tasks
    PROVE  /\ Text(t) \in Nat /\ Ended(t) \in TaskSet
           /\ FinalStatus(t) \in {"completed", "max_rounds", "error", "cancelled"}
           /\ Done(FinalStatus(t), Text(t)) \in EventSet
           /\ FinalEvents(t) \in Seq(EventSet)
           /\ FinalEvents(t) = IF Erred(t) THEN <<ErrorEvent, Done(FinalStatus(t), Text(t))>>
                               ELSE <<Done(FinalStatus(t), Text(t))>>
<1>1. task[t] \in TaskSet BY DEF TypeOK
<1>2. Text(t) \in Nat BY <1>1, TextNat DEF TaskSet, Text
<1>3. Ended(t) \in TaskSet BY <1>1 DEF TaskSet, Ended
<1>4. FinalStatus(t) \in {"completed", "max_rounds", "error", "cancelled"}
  <2>1. Ending(t) \in {"none", "completed", "max_rounds", "error"} /\ (Ending(t) = "error" => Erred(t))
    <3>1. task[t].ending \in {"none", "completed", "max_rounds", "error", "raised", "cancelled"}
      BY <1>1 DEF TaskSet
    <3>2. Ending(t) \in {"none", "completed", "max_rounds", "error"} BY <3>1 DEF Ending
    <3>3. Ending(t) = "error" => Erred(t) BY DEF Ending, Erred
    <3> QED BY <3>2, <3>3
  <2> QED BY <2>1 DEF FinalStatus, Answered
<1>5. PICK d \in EventSet : d = Done(FinalStatus(t), Text(t))
  BY <1>2, <1>4, EventTypes
<1>6. ErrorEvent \in EventSet BY EventTypes
<1>7. FinalEvents(t) = IF Erred(t) THEN <<ErrorEvent, d>> ELSE <<d>>
  <2>1. CASE Erred(t)
    <3>1. <<ErrorEvent>> \o <<d>> = <<ErrorEvent, d>> BY <1>6, TwoElements
    <3> QED BY <1>5, <2>1, <3>1 DEF FinalEvents
  <2>2. CASE ~ Erred(t) BY <1>5, <2>2, ConcatEmptySeq DEF FinalEvents
  <2> QED BY <2>1, <2>2
<1> QED BY <1>2, <1>3, <1>4, <1>5, <1>6, <1>7

\* Both ways of closing end in _finalize_generation.
LEMMA ClosingFinalizes ==
    ASSUME TypeOK, NEW t \in Tasks, CloseDone(t) \/ CloseCancelled(t)
    PROVE  /\ task[t].pc = "closing" /\ up /\ up' = up /\ switch' = switch
           /\ record' \in {record, [record EXCEPT ![t] = "failed"]}
           /\ task[t].ending # "error" => record' = record
           /\ PublishTo(t, Ended(t), FinalEvents(t))
           /\ Text(t) = 0 =>
                /\ reply' = [reply EXCEPT ![task[t].msg].st = "deleted"]
                /\ last' = [c \in Convs |-> IF last[c] = task[t].msg THEN 0 ELSE last[c]]
                /\ registry' = [registry EXCEPT ![task[t].msg] = NoTask]
           /\ Text(t) # 0 =>
                /\ reply' = [reply EXCEPT ![task[t].msg].st =
                               IF Answered(t) THEN "completed" ELSE "incomplete",
                             ![task[t].msg].text = Text(t)]
                /\ last' = last /\ registry' = registry
<1>1. task[t].cancel \in BOOLEAN BY DEF TypeOK, TaskSet
<1>2. CASE CloseDone(t)
  <2>1. ~ task[t].cancel BY <1>2 DEF CloseDone
  <2>2. Ending(t) = IF task[t].ending \in {"cancelled", "raised"} THEN "none" ELSE task[t].ending
    BY <2>1 DEF Ending
  <2>3. Erred(t) <=> task[t].ending \in {"error", "raised"} BY <2>1 DEF Erred
  <2>4. record' = [record EXCEPT ![t] = IF task[t].ending = "error" THEN "failed" ELSE @]
    BY <1>2 DEF CloseDone
  <2>5. (task[t].ending # "error" => record' = record)
        /\ record' \in {record, [record EXCEPT ![t] = "failed"]}
    BY <2>4 DEF TypeOK
  <2>6. PublishTo(t, Ended(t), FinalEvents(t))
    BY <1>2, <2>2, <2>3
    DEF CloseDone, Finalize, Ended, FinalEvents, FinalStatus, Answered, Text
  <2> QED BY <1>2, <2>2, <2>5, <2>6 DEF CloseDone, Finalize, Answered, Text
<1>3. CASE CloseCancelled(t)
  <2>1. task[t].cancel = TRUE BY <1>1, <1>3 DEF CloseCancelled
  <2>2. Ending(t) = IF task[t].ending \in {"completed", "max_rounds"} THEN task[t].ending ELSE "none"
    BY <2>1 DEF Ending
  <2>3. Erred(t) <=> task[t].ending = "error" BY <2>1 DEF Erred
  <2>4. PublishTo(t, Ended(t), FinalEvents(t))
    BY <1>3, <2>2, <2>3
    DEF CloseCancelled, Finalize, Ended, FinalEvents, FinalStatus, Answered, Text
  <2> QED BY <1>3, <2>2, <2>4 DEF CloseCancelled, Finalize, Answered, Text
<1> QED BY <1>2, <1>3

LEMMA ClosingPublishes ==
    ASSUME TypeOK, NEW t \in Tasks, CloseDone(t) \/ CloseCancelled(t)
    PROVE  /\ task' \in [Tasks -> TaskSet] /\ sub' \in [Subs -> SubSet]
           /\ \A u \in Tasks \ {t} : task'[u] = task[u]
           /\ task'[t].buffer = task[t].buffer \o FinalEvents(t)
           /\ task'[t].pc = "ended" /\ task'[t].msg = task[t].msg
           /\ \A s \in Subs : /\ sub'[s].pc = sub[s].pc /\ sub'[s].msg = sub[s].msg
                              /\ sub'[s].task = sub[s].task /\ sub'[s].got = sub[s].got
                              /\ IF sub[s].pc = "following" /\ sub[s].task = t
                                 THEN sub'[s].queue = sub[s].queue \o FinalEvents(t)
                                 ELSE sub'[s] = sub[s]
<1> PICK tk \in TaskSet : tk = Ended(t) BY FinalTypes
<1> PICK ev \in Seq(EventSet) : ev = FinalEvents(t) BY FinalTypes
<1>1. PublishTo(t, tk, ev) BY ClosingFinalizes, ZenonT(30) DEF PublishTo
<1>2. tk.pc = "ended" /\ tk.msg = task[t].msg /\ tk.buffer = task[t].buffer
  BY DEF Ended, TypeOK, TaskSet
<1>3. task' \in [Tasks -> TaskSet] /\ sub' \in [Subs -> SubSet] BY <1>1, Published
<1>4. \A u \in Tasks \ {t} : task'[u] = task[u] BY <1>1, Published
<1>5. task'[t].buffer = tk.buffer \o ev BY <1>1, Published, ZenonT(30)
<1>6. task'[t].pc = tk.pc /\ task'[t].msg = tk.msg BY <1>1, Published
<1>7. \A s \in Subs : /\ sub'[s].pc = sub[s].pc /\ sub'[s].msg = sub[s].msg
                       /\ sub'[s].task = sub[s].task /\ sub'[s].got = sub[s].got
                       /\ IF sub[s].pc = "following" /\ sub[s].task = t
                          THEN sub'[s].queue = sub[s].queue \o ev
                          ELSE sub'[s] = sub[s]
  BY <1>1, Published
<1> QED BY <1>2, <1>3, <1>4, <1>5, <1>6, <1>7

-----------------------------------------------------------------------------
(* Types                                                                    *)

LEMMA OrphanType ==
    ASSUME TypeOK, NEW c
    PROVE  /\ OrphanMarked(c) \in [Msgs -> ReplySet]
           /\ \A m \in Msgs : /\ OrphanMarked(c)[m].conv = reply[m].conv
                              /\ \/ OrphanMarked(c)[m] = reply[m]
                                 \/ /\ reply[m].st = "generating"
                                    /\ OrphanMarked(c)[m].st = "incomplete"
           /\ Generating(c) # {} =>
                \E m \in Generating(c) : OrphanMarked(c)[m].st = "incomplete"
<1>1. CASE Generating(c) = {} BY <1>1 DEF OrphanMarked, TypeOK
<1>2. CASE Generating(c) # {}
  <2>1. PICK m \in Generating(c) : OrphanMarked(c) = [reply EXCEPT ![m].st = "incomplete"]
    BY <1>2 DEF OrphanMarked
  <2>2. m \in Msgs /\ reply[m].st = "generating" /\ reply[m] \in ReplySet
    BY <2>1 DEF Generating, TypeOK
  <2>3. [reply[m] EXCEPT !.st = "incomplete"] \in ReplySet BY <2>2 DEF ReplySet
  <2>4. OrphanMarked(c)[m].st = "incomplete" /\ OrphanMarked(c)[m].conv = reply[m].conv
    BY <2>1, <2>2 DEF TypeOK, ReplySet
  <2>5. \A k \in Msgs \ {m} : OrphanMarked(c)[k] = reply[k] BY <2>1 DEF TypeOK
  <2>6. OrphanMarked(c) \in [Msgs -> ReplySet] BY <2>1, <2>3 DEF TypeOK
  <2> QED BY <2>1, <2>2, <2>4, <2>5, <2>6
<1> QED BY <1>1, <1>2

LEMMA RequestType ==
    ASSUME TypeOK, Requests PROVE TypeOK'
<1> USE DEF TypeOK
<1>1. ASSUME NEW m \in Msgs, NEW t \in Tasks, StartTask(m, t)
      PROVE  task' \in [Tasks -> TaskSet] /\ registry' \in [Msgs -> Tasks \cup {NoTask}]
  <2>1. [FreshTask EXCEPT !.pc = "created", !.msg = m] \in TaskSet
    BY EventTypes DEF FreshTask, TaskSet
  <2> QED BY <1>1, <2>1 DEF StartTask
<1>2. ASSUME NEW c \in Convs, NEW t \in Tasks, NEW m \in Msgs, SendMessage(c, m, t) PROVE TypeOK'
  <2>1. [conv |-> c, st |-> "generating", text |-> 0] \in ReplySet BY DEF ReplySet
  <2>2. reply' \in [Msgs -> ReplySet] BY <1>2, <2>1, OrphanType DEF SendMessage
  <2> QED BY <1>1, <1>2, <2>2 DEF SendMessage, streams, bounds, Opened
<1>3. ASSUME NEW c \in Convs, NEW t \in Tasks, Regenerate(c, t) PROVE TypeOK'
  <2>1. last[c] \in Msgs BY <1>3 DEF Regenerate
  <2>2. OrphanMarked(c)[last[c]] \in ReplySet /\ OrphanMarked(c) \in [Msgs -> ReplySet]
    BY <2>1, OrphanType
  <2>3. reply' \in [Msgs -> ReplySet] BY <1>3, <2>1, <2>2 DEF Regenerate, ReplySet
  <2> QED BY <1>1, <1>3, <2>1, <2>3 DEF Regenerate, streams, bounds, Opened
<1>4. ASSUME NEW c \in Convs, Refused(c) PROVE TypeOK'
  BY <1>4, OrphanType DEF Refused, streams, bounds, Opened
<1>5. ASSUME NEW m \in Msgs, Stop(m) PROVE TypeOK'
  <2>1. registry[m] \in Tasks BY <1>5 DEF Stop, Registered
  <2>2. task' = [task EXCEPT ![registry[m]].cancel = TRUE] BY <1>5 DEF Stop
  <2>3. [task[registry[m]] EXCEPT !.cancel = TRUE] \in TaskSet
    <3> PICK tk \in TaskSet : tk = task[registry[m]] BY <2>1
    <3>1. [tk EXCEPT !.cancel = TRUE] \in TaskSet BY DEF TaskSet
    <3> QED BY <3>1
  <2>4. task' \in [Tasks -> TaskSet] BY <2>1, <2>2, <2>3
  <2> QED BY <1>5, <2>4 DEF Stop, tables, streams, bounds, Opened
<1>6. ASSUME NEW s \in Subs, Disconnect(s) PROVE TypeOK'
  <2>1. [sub[s] EXCEPT !.pc = "gone", !.queue = <<>>] \in SubSet BY EventTypes DEF SubSet
  <2>2. sub' = [sub EXCEPT ![s] = [sub[s] EXCEPT !.pc = "gone", !.queue = <<>>]]
    BY <1>6 DEF Disconnect
  <2>3. sub' \in [Subs -> SubSet] /\ Opened'
    BY <2>1, <2>2 DEF Opened, SubSet
  <2> QED BY <1>6, <2>3 DEF Disconnect, tables, bounds
<1>7. ASSUME NEW s \in Subs, NEW m \in Msgs, OpenStream(s, m) PROVE TypeOK'
  <2>1. [sub[s] EXCEPT !.pc = "opening", !.msg = m] \in SubSet BY DEF SubSet
  <2>2. sub' = [sub EXCEPT ![s] = [sub[s] EXCEPT !.pc = "opening", !.msg = m]]
    BY <1>7 DEF OpenStream
  <2>3. sub' \in [Subs -> SubSet] /\ Opened'
    BY <2>1, <2>2 DEF Opened, SubSet
  <2> QED BY <1>7, <2>3 DEF OpenStream, tables, bounds
<1> QED BY <1>2, <1>3, <1>4, <1>5, <1>6, <1>7 DEF Requests

LEMMA StreamType ==
    ASSUME TypeOK, (\E s \in Subs : StreamStep(s)) \/ (\E w \in Switchers : SwitchStep(w))
    PROVE  TypeOK'
<1> USE DEF TypeOK
<1>1. ASSUME NEW s \in Subs, NEW x \in SubSet, x.pc # "opening", sub' = [sub EXCEPT ![s] = x],
             reply' \in [Msgs -> ReplySet],
             UNCHANGED <<last, record, registry, task, switch, up>>
      PROVE  TypeOK'
  <2>1. sub' \in [Subs -> SubSet] BY <1>1
  <2>2. Opened' BY <1>1 DEF Opened
  <2> QED BY <1>1, <2>1, <2>2
<1>2. ASSUME NEW s \in Subs, Follow(s) PROVE TypeOK'
  <2>1. sub[s].msg \in Msgs BY <1>2 DEF Follow, Opened
  <2>2. PICK t \in Tasks : t = registry[sub[s].msg]
    BY <1>2, <2>1 DEF Follow, Registered
  <2>3. task[t].buffer \in Seq(EventSet) BY DEF TaskSet
  <2>4. sub' = [sub EXCEPT ![s] = [sub[s] EXCEPT !.pc = "following", !.task = t, !.queue = task[t].buffer]]
    BY <1>2, <2>2 DEF Follow
  <2>5. [sub[s] EXCEPT !.pc = "following", !.task = t, !.queue = task[t].buffer] \in SubSet
    BY <2>3 DEF SubSet
  <2>6. [sub[s] EXCEPT !.pc = "following", !.task = t, !.queue = task[t].buffer].pc # "opening"
    BY DEF SubSet
  <2> QED BY <1>1, <1>2, <2>4, <2>5, <2>6 DEF Follow, tables, bounds
<1>3. ASSUME NEW s \in Subs, NoTaskStream(s) PROVE TypeOK'
  <2>1. PICK m \in Msgs : m = sub[s].msg BY <1>3 DEF NoTaskStream, Opened
  <2>2. reply[m] \in ReplySet OBVIOUS
  <2>3. Done("cancelled", reply[m].text) \in EventSet BY <2>2, EventTypes DEF ReplySet
  <2> DEFINE got == IF reply[m].st = "deleted" THEN <<>> ELSE <<Done("cancelled", reply[m].text)>>
  <2>4. got \in Seq(EventSet) BY <2>3, EventTypes
  <2> DEFINE x == [sub[s] EXCEPT !.pc = "closed", !.got = got]
  <2>5. x \in SubSet /\ x.pc # "opening" BY <2>4 DEF SubSet
  <2>6. sub' = [sub EXCEPT ![s] = x] BY <1>3, <2>1 DEF NoTaskStream
  <2>8. [reply[m] EXCEPT !.st = IF @ = "generating" THEN "incomplete" ELSE @] \in ReplySet
    BY <2>2 DEF ReplySet
  <2>9. reply' = [reply EXCEPT ![m] = [reply[m] EXCEPT !.st = IF @ = "generating" THEN "incomplete" ELSE @]]
    BY <1>3, <2>1 DEF NoTaskStream
  <2>10. reply' \in [Msgs -> ReplySet] BY <2>8, <2>9
  <2> HIDE DEF x
  <2> QED BY <1>1, <1>3, <2>5, <2>6, <2>10 DEF NoTaskStream, bounds
<1>4. ASSUME NEW s \in Subs, Deliver(s) PROVE TypeOK'
  <2>1. sub[s].queue \in Seq(EventSet) /\ sub[s].got \in Seq(EventSet) /\ sub[s].queue # <<>>
    BY <1>4 DEF Deliver, SubSet
  <2> DEFINE e == Head(sub[s].queue)
             x == [sub[s] EXCEPT !.queue = Tail(@), !.got = Append(@, e),
                                 !.pc = IF e.kind = "done" THEN "closed" ELSE @]
  <2>2. Tail(sub[s].queue) \in Seq(EventSet) /\ Append(sub[s].got, e) \in Seq(EventSet)
    BY <2>1, HeadTailProperties, AppendProperties
  <2>3. sub[s].pc = "following" BY <1>4 DEF Deliver
  <2>4. x \in SubSet /\ x.pc # "opening" BY <2>2, <2>3 DEF SubSet
  <2>5. sub' = [sub EXCEPT ![s] = x] BY <1>4 DEF Deliver
  <2> HIDE DEF x
  <2> QED BY <1>1, <1>4, <2>4, <2>5 DEF Deliver, tables, bounds
<1>5. ASSUME NEW w \in Switchers, SwitchStep(w) PROVE TypeOK'
  <2>1. switch' \in [Switchers -> SwitchSet]
    <3>1. switch[w] \in SwitchSet OBVIOUS
    <3>2. ASSUME NEW c \in Convs, SwitchCheck(w, c) PROVE switch' \in [Switchers -> SwitchSet]
      BY <3>2 DEF SwitchCheck, SwitchSet
    <3>3. \A m \in Msgs : [switch[w] EXCEPT !.pc = "found", !.msg = m] \in SwitchSet
      BY <3>1 DEF SwitchSet
    <3>4. [switch[w] EXCEPT !.pc = "done"] \in SwitchSet BY <3>1 DEF SwitchSet
    <3>5. CASE SwitchFind(w)
      <4>1. CASE switch' = [switch EXCEPT ![w].pc = "done"] BY <3>4, <4>1
      <4>2. ASSUME NEW m \in Generating(switch[w].conv),
                   switch' = [switch EXCEPT ![w].pc = "found", ![w].msg = m]
            PROVE  switch' \in [Switchers -> SwitchSet]
        <5>1. m \in Msgs BY DEF Generating
        <5>2. switch' = [switch EXCEPT ![w] = [switch[w] EXCEPT !.pc = "found", !.msg = m]]
          BY <4>2
        <5> QED BY <3>3, <5>1, <5>2
      <4> QED BY <3>5, <4>1, <4>2 DEF SwitchFind
    <3>6. CASE SwitchMark(w) BY <3>4, <3>6 DEF SwitchMark
    <3> QED BY <1>5, <3>2, <3>5, <3>6 DEF SwitchStep
  <2>2. reply' \in [Msgs -> ReplySet]
    <3>1. CASE reply' = reply BY <3>1
    <3>2. CASE SwitchMark(w)
      <4>1. \A m \in Msgs : [reply[m] EXCEPT !.st = IF @ = "deleted" THEN @ ELSE "incomplete"] \in ReplySet
        BY DEF ReplySet
      <4>2. reply' = [reply EXCEPT ![switch[w].msg] =
                       [reply[switch[w].msg] EXCEPT !.st = IF @ = "deleted" THEN @ ELSE "incomplete"]]
        BY <3>2 DEF SwitchMark
      <4> QED BY <4>1, <4>2
    <3> QED BY <1>5, <3>1, <3>2 DEF SwitchStep, SwitchCheck, SwitchFind, tables
  <2>3. UNCHANGED <<last, record, registry, task, sub, up>>
    BY <1>5 DEF SwitchStep, SwitchCheck, SwitchFind, SwitchMark, tables
  <2> QED BY <2>1, <2>2, <2>3 DEF Opened
<1> QED BY <1>2, <1>3, <1>4, <1>5 DEF StreamStep

LEMMA TaskType ==
    ASSUME TypeOK, NEW t \in Tasks, TaskStep(t) \/ TaskFault(t)
    PROVE  TypeOK'
<1> USE DEF TypeOK
<1>1. task[t] \in TaskSet OBVIOUS
<1>2. ASSUME NEW x \in TaskSet, task' = [task EXCEPT ![t] = x],
             record' = record \/ \E v \in {"running", "succeeded", "partial", "failed", "cancelled"} :
                                    record' = [record EXCEPT ![t] = v],
             UNCHANGED <<reply, last, registry, sub, switch, up>>
      PROVE  TypeOK'
  BY <1>2 DEF Opened
<1>3. ASSUME NEW tk \in TaskSet, NEW events \in Seq(EventSet), PublishTo(t, tk, events),
             record' = record \/ \E v \in {"running", "succeeded", "partial", "failed", "cancelled"} :
                                    record' = [record EXCEPT ![t] = v],
             UNCHANGED <<reply, last, registry, switch, up>>
      PROVE  TypeOK'
  <2>1. task' \in [Tasks -> TaskSet] /\ sub' \in [Subs -> SubSet] BY <1>3, Published
  <2>2. Opened' BY <1>3, Published, ZenonT(30) DEF Opened
  <2> QED BY <1>3, <2>1, <2>2
<1>4. CASE Begin(t)
  <2> DEFINE x == [task[t] EXCEPT !.pc = IF task[t].cancel THEN "ended" ELSE "running"]
  <2>1. x \in TaskSet BY DEF TaskSet
  <2>2. task' = [task EXCEPT ![t] = x] BY <1>4 DEF Begin
  <2> HIDE DEF x
  <2> QED BY <1>2, <1>4, <2>1, <2>2 DEF Begin, tables, streams
<1>5. CASE RunStarted(t)
  <2>1. <<Started>> \in Seq(EventSet) BY EventTypes
  <2> QED BY <1>1, <1>3, <1>5, <2>1 DEF RunStarted
<1>6. CASE Increment(t)
  <2>1. TextOf(task[t].buffer) + 1 \in Nat BY TextNat DEF TaskSet
  <2>2. <<Delta(TextOf(task[t].buffer) + 1)>> \in Seq(EventSet) BY <2>1, EventTypes
  <2> QED BY <1>1, <1>3, <1>6, <2>2 DEF Increment, tables
<1>7. CASE RunCompletes(t)
  <2>1. PICK k \in {"completed", "max_rounds"} :
          /\ record' = [record EXCEPT ![t] = IF k = "completed" THEN "succeeded" ELSE "partial"]
          /\ task' = [task EXCEPT ![t].ending = k, ![t].pc = "closing"]
    BY <1>7 DEF RunCompletes
  <2> DEFINE x == [task[t] EXCEPT !.ending = k, !.pc = "closing"]
  <2>2. x \in TaskSet BY DEF TaskSet
  <2>3. task' = [task EXCEPT ![t] = x] BY <2>1
  <2> HIDE DEF x
  <2> QED BY <1>2, <1>7, <2>1, <2>2, <2>3 DEF RunCompletes, streams
<1>8. CASE RunErrs(t) \/ RunRaises(t) \/ RunCancelled(t)
  <2>1. PICK k \in {"error", "raised", "cancelled"}, c \in BOOLEAN :
          task' = [task EXCEPT ![t] = [task[t] EXCEPT !.ending = k, !.pc = "closing", !.cancel = c]]
    <3>1. CASE RunErrs(t)
      <4>1. task' = [task EXCEPT ![t] = [task[t] EXCEPT !.ending = "error", !.pc = "closing", !.cancel = task[t].cancel]]
        BY <3>1 DEF RunErrs, TaskSet
      <4> QED BY <4>1 DEF TaskSet
    <3>2. CASE RunRaises(t)
      <4>1. task' = [task EXCEPT ![t] = [task[t] EXCEPT !.ending = "raised", !.pc = "closing", !.cancel = task[t].cancel]]
        BY <3>2 DEF RunRaises, TaskSet
      <4> QED BY <4>1 DEF TaskSet
    <3>3. CASE RunCancelled(t) BY <3>3 DEF RunCancelled
    <3> QED BY <1>8, <3>1, <3>2, <3>3
  <2> DEFINE x == [task[t] EXCEPT !.ending = k, !.pc = "closing", !.cancel = c]
  <2>2. x \in TaskSet BY ZenonT(30) DEF TaskSet
  <2>3. task' = [task EXCEPT ![t] = x] BY <2>1
  <2> HIDE DEF x
  <2> QED BY <1>2, <1>8, <2>2, <2>3 DEF RunErrs, RunRaises, RunCancelled, streams, tables
<1>9. CASE CloseDone(t) \/ CloseCancelled(t)
  <2>2. task' \in [Tasks -> TaskSet] /\ sub' \in [Subs -> SubSet] BY <1>9, ClosingPublishes
  <2>3. Opened' BY <1>9, ClosingPublishes DEF Opened
  <2>4. reply' \in [Msgs -> ReplySet]
    <3> PICK m : m = task[t].msg OBVIOUS
    <3> PICK n \in Nat : n = Text(t) BY FinalTypes
    <3>1. \A v \in {"deleted", "completed", "incomplete"} : \A y \in ReplySet :
             [y EXCEPT !.st = v] \in ReplySet /\ [y EXCEPT !.st = v, !.text = n] \in ReplySet
      BY DEF ReplySet
    <3>2. CASE n = 0
      <4>1. reply' = [reply EXCEPT ![m] = [reply[m] EXCEPT !.st = "deleted"]]
        BY <1>9, <3>2, ClosingFinalizes
      <4> QED BY <3>1, <4>1
    <3>3. CASE n # 0
      <4>1. PICK v \in {"completed", "incomplete"} :
              reply' = [reply EXCEPT ![m].st = v, ![m].text = n]
        BY <1>9, <3>3, ClosingFinalizes
      <4>2. reply' = [reply EXCEPT ![m] = [reply[m] EXCEPT !.st = v, !.text = n]] BY <4>1
      <4> QED BY <3>1, <4>2
    <3> QED BY <3>2, <3>3
  <2>5. last' \in [Convs -> Msgs \cup {0}]
    <3>1. last' = last \/ last' = [c \in Convs |-> IF last[c] = task[t].msg THEN 0 ELSE last[c]]
      BY <1>9, ClosingFinalizes
    <3> QED BY <3>1
  <2>6. registry' \in [Msgs -> Tasks \cup {NoTask}] BY <1>9, ClosingFinalizes
  <2>7. record' \in [Tasks -> {"none", "running", "succeeded", "partial", "failed", "cancelled"}]
    BY <1>9, ClosingFinalizes
  <2> QED BY <1>9, <2>2, <2>3, <2>4, <2>5, <2>6, <2>7, ClosingFinalizes
<1>10. CASE StorageFault(t)
  <2> DEFINE x == [task[t] EXCEPT !.pc = "ended"]
  <2>1. x \in TaskSet BY DEF TaskSet
  <2>2. task' = [task EXCEPT ![t] = x] BY <1>10 DEF StorageFault
  <2>3. record' = record \/ record' = [record EXCEPT ![t] = "failed"]
    BY <1>10 DEF StorageFault
  <2> HIDE DEF x
  <2> QED BY <1>2, <1>10, <2>1, <2>2, <2>3 DEF StorageFault, streams
<1> QED
  BY <1>4, <1>5, <1>6, <1>7, <1>8, <1>9, <1>10 DEF TaskStep, TaskFault

LEMMA ProcessType ==
    ASSUME TypeOK, Kill \/ Recover PROVE TypeOK'
<1> USE DEF TypeOK
<1>1. CASE Kill
  <2>1. [FreshTask EXCEPT !.pc = "dead"] \in TaskSet BY EventTypes DEF FreshTask, TaskSet
  <2>2. [FreshSub EXCEPT !.pc = "gone"] \in SubSet
        /\ [FreshSub EXCEPT !.pc = "gone"].pc = "gone" BY EventTypes DEF FreshSub, SubSet
  <2>3. [IdleSwitch EXCEPT !.pc = "done"] \in SwitchSet BY DEF IdleSwitch, SwitchSet
  <2>4. task' \in [Tasks -> TaskSet] BY <1>1, <2>1 DEF Kill
  <2>5. sub' \in [Subs -> SubSet] BY <1>1, <2>2 DEF Kill
  <2>6. switch' \in [Switchers -> SwitchSet] BY <1>1, <2>3 DEF Kill
  <2>7. Opened' BY <1>1, <2>2 DEF Kill, Opened
  <2> QED BY <1>1, <2>4, <2>5, <2>6, <2>7 DEF Kill, tables
<1>2. CASE Recover BY <1>2 DEF Recover, streams, Opened
<1> QED BY <1>1, <1>2

LEMMA InitType == Init => TypeOK
<1> SUFFICES ASSUME Init PROVE TypeOK OBVIOUS
<1>1. FreshTask \in TaskSet BY EventTypes DEF FreshTask, TaskSet
<1>2. FreshSub \in SubSet /\ FreshSub.pc = "none" BY EventTypes DEF FreshSub, SubSet
<1>3. FreshReply \in ReplySet BY DEF FreshReply, ReplySet
<1>4. IdleSwitch \in SwitchSet BY DEF IdleSwitch, SwitchSet
<1> QED BY <1>1, <1>2, <1>3, <1>4 DEF Init, TypeOK, Opened

LEMMA NextType == TypeOK /\ [Next]_vars => TypeOK'
<1> SUFFICES ASSUME TypeOK, [Next]_vars PROVE TypeOK' OBVIOUS
<1>1. CASE UNCHANGED vars BY <1>1 DEF TypeOK, vars, tables, streams, Opened
<1> QED BY <1>1, RequestType, StreamType, TaskType, ProcessType DEF Next

-----------------------------------------------------------------------------
(* One generation per conversation                                          *)

Owned ==
    \A t \in Tasks : task[t].pc \in Live =>
        /\ task[t].msg \in Msgs /\ registry[task[t].msg] = t /\ ~ IsTerminal(t)
        /\ reply[task[t].msg].st \notin {"absent", "deleted"}

OneTask ==
    \A t, u \in Tasks :
        task[t].pc \in Live /\ task[u].pc \in Live /\ ConvOf(t) = ConvOf(u) => t = u

OneRow ==
    \A m, n \in Msgs :
        reply[m].st = "generating" /\ reply[n].st = "generating" /\ reply[m].conv = reply[n].conv => m = n

LastStored ==
    \A c \in Convs : last[c] # 0 =>
        reply[last[c]].conv = c /\ reply[last[c]].st \notin {"absent", "deleted"}

WorkInv == Owned /\ OneTask /\ OneRow /\ LastStored

\* The busy check sees every task that is not done.
LEMMA NotBusyMeansIdle ==
    ASSUME TypeOK, Owned, NEW c, NotBusy(c), NEW t \in Tasks, task[t].pc \in Live
    PROVE  ConvOf(t) # c
<1>1. task[t].msg \in Msgs /\ registry[task[t].msg] = t /\ ~ IsTerminal(t) BY DEF Owned
<1> QED BY <1>1, GenerationAssumption DEF NotBusy, RunningIn, Registered, ConvOf

\* A task that is started is the only one of its conversation, and so is its row.
LEMMA StartWork ==
    ASSUME TypeOK, WorkInv, NEW c \in Convs, NEW t \in Tasks, NEW m \in Msgs,
           NotBusy(c), StartTask(m, t),
           reply'[m].conv = c, reply'[m].st = "generating",
           \A k \in Msgs \ {m} : reply'[k] = OrphanMarked(c)[k],
           reply[m].st = "absent" \/ reply[m].conv = c,
           \A d \in Convs : last'[d] = last[d] \/ (d = c /\ last'[d] = m)
    PROVE  WorkInv'
<1> USE DEF WorkInv
<1>1. /\ \A u \in Tasks \ {t} : task'[u] = task[u]
      /\ task'[t].pc = "created" /\ task'[t].msg = m /\ task'[t].buffer = <<>>
      /\ registry'[m] = t /\ \A k \in Msgs \ {m} : registry'[k] = registry[k]
  BY DEF StartTask, FreshTask, TypeOK
<1>2. ASSUME NEW u \in Tasks \ {t}, task'[u].pc \in Live
      PROVE  /\ task[u].pc \in Live /\ task[u].msg \in Msgs \ {m} /\ ConvOf(u) # c
             /\ reply[task[u].msg].st \notin {"absent", "deleted"}
             /\ ConvOf(u)' = ConvOf(u)
  <2>1. task[u].pc \in Live /\ task'[u].msg = task[u].msg BY <1>1, <1>2
  <2>2. ConvOf(u) # c BY <2>1, NotBusyMeansIdle
  <2>3. task[u].msg \in Msgs /\ reply[task[u].msg].st \notin {"absent", "deleted"}
    BY <2>1 DEF Owned
  <2>4. task[u].msg # m BY <2>2, <2>3 DEF ConvOf
  <2> QED BY <2>1, <2>2, <2>3, <2>4, OrphanType DEF ConvOf
<1>3. Owned'
  <2> SUFFICES ASSUME NEW u \in Tasks, task'[u].pc \in Live
               PROVE  /\ task'[u].msg \in Msgs /\ registry'[task'[u].msg] = u /\ ~ IsTerminal(u)'
                      /\ reply'[task'[u].msg].st \notin {"absent", "deleted"}
    BY DEF Owned
  <2>1. CASE u = t BY <1>1, <2>1 DEF IsTerminal
  <2>2. CASE u # t
    <3>1. task'[u] = task[u] /\ task[u].msg \in Msgs \ {m} BY <1>1, <1>2, <2>2
    <3>2. registry[task[u].msg] = u /\ ~ IsTerminal(u) BY <1>2, <2>2 DEF Owned
    <3>3. reply'[task[u].msg].st \notin {"absent", "deleted"}
      BY <1>2, <2>2, <3>1, OrphanType
    <3> QED BY <1>1, <3>1, <3>2, <3>3 DEF IsTerminal
  <2> QED BY <2>1, <2>2
<1>4. OneTask'
  <2>1. ConvOf(t)' = c BY <1>1 DEF ConvOf
  <2> QED BY <1>2, <2>1 DEF OneTask
<1>5. OneRow'
  <2>1. \A k \in Msgs \ {m} : reply'[k].conv = reply[k].conv
                              /\ (reply'[k].st = "generating" => reply[k].st = "generating")
    BY OrphanType
  <2>2. ASSUME NEW k \in Msgs \ {m}, reply'[k].st = "generating", reply'[k].conv = c PROVE FALSE
    <3>1. k \in Generating(c) BY <2>1, <2>2 DEF Generating
    <3>2. PICK n \in Generating(c) : OrphanMarked(c)[n].st = "incomplete" BY <3>1, OrphanType
    <3>3. n = k BY <3>1 DEF Generating, OneRow
    <3> QED BY <2>2, <3>2, <3>3
  <2> QED BY <2>1, <2>2 DEF OneRow
<1>6. LastStored'
  <2> SUFFICES ASSUME NEW d \in Convs, last'[d] # 0
               PROVE  reply'[last'[d]].conv = d /\ reply'[last'[d]].st \notin {"absent", "deleted"}
    BY DEF LastStored
  <2>1. CASE d = c /\ last'[d] = m BY <2>1
  <2>2. CASE last'[d] = last[d]
    <3>1. last[d] \in Msgs /\ reply[last[d]].conv = d /\ reply[last[d]].st \notin {"absent", "deleted"}
      BY <2>2 DEF LastStored, TypeOK
    <3> QED BY <2>2, <3>1, OrphanType
  <2> QED BY <2>1, <2>2
<1> QED BY <1>3, <1>4, <1>5, <1>6

\* A step that starts nothing: replies may be marked incomplete, tasks may end.
LEMMA QuietWork ==
    ASSUME TypeOK, WorkInv,
           \A k \in Msgs : /\ reply'[k].conv = reply[k].conv
                           /\ \/ reply'[k].st = reply[k].st
                              \/ reply'[k].st = "incomplete" /\ reply[k].st # "deleted",
           last' = last,
           \A t \in Tasks : task'[t].pc \in Live =>
              /\ task[t].pc \in Live /\ task'[t].msg = task[t].msg
              /\ registry'[task[t].msg] = registry[task[t].msg]
              /\ IsTerminal(t)' => IsTerminal(t)
    PROVE  WorkInv'
<1> USE DEF WorkInv
<1>1. Owned' BY DEF Owned
<1>2. OneTask'
  <2>1. \A t \in Tasks : task'[t].pc \in Live => ConvOf(t)' = ConvOf(t)
    BY DEF Owned, ConvOf
  <2> QED BY <2>1 DEF OneTask
<1>3. OneRow' BY DEF OneRow
<1>4. LastStored' BY DEF LastStored, TypeOK
<1> QED BY <1>1, <1>2, <1>3, <1>4

LEMMA FinalWork ==
    ASSUME TypeOK, WorkInv, NEW t \in Tasks, CloseDone(t) \/ CloseCancelled(t)
    PROVE  WorkInv'
<1> USE DEF WorkInv
<1>1. task[t].pc \in Live BY ClosingFinalizes DEF Live
<1> PICK m \in Msgs : m = task[t].msg BY <1>1 DEF Owned
<1>2. /\ task'[t].pc = "ended" /\ \A u \in Tasks \ {t} : task'[u] = task[u]
  BY ClosingPublishes
<1>3. /\ \A k \in Msgs \ {m} : reply'[k] = reply[k] /\ registry'[k] = registry[k]
      /\ reply'[m].conv = reply[m].conv /\ reply'[m].st \in {"completed", "incomplete", "deleted"}
      /\ \A c \in Convs : last'[c] = last[c] \/ last'[c] = 0
      /\ reply'[m].st = "deleted" => \A c \in Convs : last'[c] # m
  <2>1. reply[m] \in ReplySet BY DEF TypeOK
  <2>2. CASE Text(t) = 0
    <3>1. /\ reply' = [reply EXCEPT ![m].st = "deleted"]
          /\ last' = [c \in Convs |-> IF last[c] = m THEN 0 ELSE last[c]]
          /\ registry' = [registry EXCEPT ![m] = NoTask]
      BY <2>2, ClosingFinalizes
    <3> QED BY <2>1, <3>1, MsgsFacts DEF TypeOK, ReplySet
  <2>3. CASE Text(t) # 0
    <3>1. /\ reply' = [reply EXCEPT ![m].st = IF Answered(t) THEN "completed" ELSE "incomplete",
                                    ![m].text = Text(t)]
          /\ last' = last /\ registry' = registry
      BY <2>3, ClosingFinalizes
    <3> QED BY <2>1, <3>1 DEF TypeOK, ReplySet
  <2> QED BY <2>2, <2>3
<1>4. ASSUME NEW u \in Tasks, task'[u].pc \in Live
      PROVE  /\ u # t /\ task'[u] = task[u] /\ task[u].pc \in Live
             /\ task[u].msg \in Msgs \ {m}
  <2>1. u # t BY <1>2, <1>4 DEF Live
  <2>2. task'[u] = task[u] /\ task[u].pc \in Live /\ task[u].msg \in Msgs
    BY <1>2, <1>4, <2>1 DEF Owned
  <2>3. task[u].msg # m BY <1>1, <2>1, <2>2 DEF OneTask, ConvOf
  <2> QED BY <2>1, <2>2, <2>3
<1>5. Owned' BY <1>3, <1>4 DEF Owned, IsTerminal
<1>6. OneTask' BY <1>3, <1>4 DEF OneTask, ConvOf
<1>7. OneRow' BY <1>3 DEF OneRow
<1>8. LastStored' BY <1>3 DEF LastStored, TypeOK
<1> QED BY <1>5, <1>6, <1>7, <1>8

LEMMA RequestWork ==
    ASSUME TypeOK, WorkInv, Requests PROVE WorkInv'
<1>1. ASSUME NEW c \in Convs, NEW t \in Tasks, NEW m \in Msgs, SendMessage(c, m, t) PROVE WorkInv'
  <2>1. /\ NotBusy(c) /\ StartTask(m, t) /\ reply[m].st = "absent"
        /\ reply' = [OrphanMarked(c) EXCEPT ![m] = [conv |-> c, st |-> "generating", text |-> 0]]
        /\ last' = [last EXCEPT ![c] = m]
    BY <1>1 DEF SendMessage
  <2>2. OrphanMarked(c) \in [Msgs -> ReplySet] BY OrphanType
  <2>3. /\ reply'[m].conv = c /\ reply'[m].st = "generating"
        /\ \A k \in Msgs \ {m} : reply'[k] = OrphanMarked(c)[k]
    BY <2>1, <2>2
  <2>4. \A d \in Convs : last'[d] = last[d] \/ (d = c /\ last'[d] = m) BY <2>1 DEF TypeOK
  <2> QED BY <2>1, <2>3, <2>4, StartWork
<1>2. ASSUME NEW c \in Convs, NEW t \in Tasks, Regenerate(c, t) PROVE WorkInv'
  <2>1. PICK m \in Msgs : m = last[c] BY <1>2 DEF Regenerate, TypeOK
  <2>2. /\ NotBusy(c) /\ StartTask(m, t) /\ reply[m].conv = c /\ last' = last
        /\ reply' = [OrphanMarked(c) EXCEPT ![m].st = "generating", ![m].text = 0]
    BY <1>2, <2>1, MsgsFacts DEF Regenerate, WorkInv, LastStored
  <2>3. OrphanMarked(c) \in [Msgs -> ReplySet] /\ OrphanMarked(c)[m] \in ReplySet
        /\ OrphanMarked(c)[m].conv = c
    BY <2>2, OrphanType
  <2>4. /\ reply'[m].conv = c /\ reply'[m].st = "generating"
        /\ \A k \in Msgs \ {m} : reply'[k] = OrphanMarked(c)[k]
    BY <2>2, <2>3 DEF ReplySet
  <2> QED BY <2>2, <2>4, StartWork
<1>3. ASSUME NEW c \in Convs, Refused(c) PROVE WorkInv'
  <2>1. UNCHANGED <<task, registry, last>> /\ reply' = OrphanMarked(c) BY <1>3 DEF Refused
  <2> QED BY <2>1, QuietWork, OrphanType DEF IsTerminal
<1>4. ASSUME NEW m \in Msgs, Stop(m) PROVE WorkInv'
  <2>1. UNCHANGED <<reply, registry, last>> /\ registry[m] \in Tasks
        /\ task' = [task EXCEPT ![registry[m]].cancel = TRUE]
    BY <1>4 DEF Stop, Registered, TypeOK, tables
  <2>2. \A t \in Tasks : /\ task'[t].pc = task[t].pc /\ task'[t].msg = task[t].msg
                         /\ task'[t].buffer = task[t].buffer
    BY <2>1 DEF TypeOK, TaskSet
  <2> QED BY <2>1, <2>2, QuietWork DEF IsTerminal
<1>5. CASE UNCHANGED <<reply, last, registry, task>>
  BY <1>5, QuietWork DEF IsTerminal
<1> QED
  BY <1>1, <1>2, <1>3, <1>4, <1>5 DEF Requests, Disconnect, OpenStream, tables

LEMMA StreamWork ==
    ASSUME TypeOK, WorkInv, (\E s \in Subs : StreamStep(s)) \/ (\E w \in Switchers : SwitchStep(w))
    PROVE  WorkInv'
<1>1. UNCHANGED <<last, registry, task>>
  BY DEF StreamStep, Follow, NoTaskStream, Deliver, SwitchStep, SwitchCheck, SwitchFind, SwitchMark, tables
<1>2. ASSUME NEW k \in Msgs
      PROVE  /\ reply'[k].conv = reply[k].conv
             /\ \/ reply'[k].st = reply[k].st
                \/ reply'[k].st = "incomplete" /\ reply[k].st # "deleted"
  <2>1. reply[k] \in ReplySet BY DEF TypeOK
  <2>2. CASE reply' = reply BY <2>2
  <2>3. ASSUME NEW s \in Subs, NoTaskStream(s)
        PROVE  /\ reply'[k].conv = reply[k].conv
               /\ \/ reply'[k].st = reply[k].st
                  \/ reply'[k].st = "incomplete" /\ reply[k].st # "deleted"
    <3>1. reply' = [reply EXCEPT ![sub[s].msg].st = IF @ = "generating" THEN "incomplete" ELSE @]
      BY <2>3 DEF NoTaskStream
    <3> QED BY <2>1, <3>1 DEF TypeOK, ReplySet
  <2>4. ASSUME NEW w \in Switchers, SwitchMark(w)
        PROVE  /\ reply'[k].conv = reply[k].conv
               /\ \/ reply'[k].st = reply[k].st
                  \/ reply'[k].st = "incomplete" /\ reply[k].st # "deleted"
    <3>1. reply' = [reply EXCEPT ![switch[w].msg].st = IF @ = "deleted" THEN @ ELSE "incomplete"]
      BY <2>4 DEF SwitchMark
    <3> QED BY <2>1, <3>1 DEF TypeOK, ReplySet
  <2> QED
    BY <2>2, <2>3, <2>4
    DEF StreamStep, Follow, Deliver, SwitchStep, SwitchCheck, SwitchFind, tables
<1> QED BY <1>1, <1>2, QuietWork DEF IsTerminal

\* What a task does before its end, as far as the exclusion is concerned.
LEMMA TaskMoves ==
    ASSUME TypeOK, NEW t \in Tasks, TaskStep(t) \/ TaskFault(t), ~ CloseDone(t), ~ CloseCancelled(t)
    PROVE  /\ task[t].pc \in Live /\ up
           /\ reply' = reply /\ last' = last /\ registry' = registry /\ switch' = switch
           /\ task' \in [Tasks -> TaskSet]
           /\ \A u \in Tasks \ {t} : task'[u] = task[u]
           /\ task'[t].pc \in {"running", "closing", "ended"} /\ task'[t].msg = task[t].msg
           /\ \/ task'[t].buffer = task[t].buffer /\ sub' = sub
              \/ \E e \in {Started} \cup {Delta(n) : n \in Nat} :
                    PublishTo(t, task[t], <<e>>) /\ task'[t].buffer = task[t].buffer \o <<e>>
<1>1. task' \in [Tasks -> TaskSet] BY TaskType DEF TypeOK
<1>2. task[t] \in TaskSet BY DEF TypeOK
<1> PICK tk \in TaskSet : tk = task[t] BY <1>2
<1>3. CASE RunStarted(t)
  <2>1. PublishTo(t, tk, <<Started>>) /\ <<Started>> \in Seq(EventSet)
    BY <1>3, EventTypes DEF RunStarted, PublishTo
  <2>2. /\ \A u \in Tasks \ {t} : task'[u] = task[u]
        /\ task'[t].buffer = task[t].buffer \o <<Started>>
        /\ task'[t].pc = task[t].pc /\ task'[t].msg = task[t].msg
    <3>1. \A u \in Tasks \ {t} : task'[u] = task[u] BY <2>1, Published
    <3>2. task'[t].buffer = tk.buffer \o <<Started>> BY <2>1, Published, ZenonT(30)
    <3>3. task'[t].pc = tk.pc /\ task'[t].msg = tk.msg BY <2>1, Published
    <3> QED BY <3>1, <3>2, <3>3
  <2> QED BY <1>1, <1>3, <2>1, <2>2 DEF RunStarted, Running, Live
<1>4. CASE Increment(t)
  <2>1. PICK n \in Nat : n = TextOf(task[t].buffer) + 1 BY <1>2, TextNat DEF TaskSet
  <2>2. PublishTo(t, tk, <<Delta(n)>>) /\ <<Delta(n)>> \in Seq(EventSet)
    BY <1>4, <2>1, EventTypes DEF Increment, PublishTo
  <2>3. /\ \A u \in Tasks \ {t} : task'[u] = task[u]
        /\ task'[t].buffer = task[t].buffer \o <<Delta(n)>>
        /\ task'[t].pc = task[t].pc /\ task'[t].msg = task[t].msg
    <3>1. \A u \in Tasks \ {t} : task'[u] = task[u] BY <2>2, Published
    <3>2. task'[t].buffer = tk.buffer \o <<Delta(n)>> BY <2>2, Published, ZenonT(30)
    <3>3. task'[t].pc = tk.pc /\ task'[t].msg = tk.msg BY <2>2, Published
    <3> QED BY <3>1, <3>2, <3>3
  <2> QED BY <1>1, <1>4, <2>2, <2>3 DEF Increment, Running, Live, tables
<1>5. CASE Begin(t)
  BY <1>1, <1>2, <1>5 DEF Begin, Live, tables, streams, TaskSet
<1>6. CASE RunCompletes(t) \/ RunErrs(t) \/ RunRaises(t) \/ RunCancelled(t)
  BY <1>1, <1>2, <1>6 DEF RunCompletes, RunErrs, RunRaises, RunCancelled, Running, Live, tables, streams, TaskSet
<1>7. CASE StorageFault(t)
  BY <1>1, <1>2, <1>7 DEF StorageFault, Live, streams, TaskSet
<1> QED BY <1>3, <1>4, <1>5, <1>6, <1>7 DEF TaskStep, TaskFault

\* No event of a generation but the last is terminal.
LEMMA MoveEvents ==
    ASSUME NEW e \in {Started} \cup {Delta(n) : n \in Nat}
    PROVE  e \in EventSet /\ e.kind # "done"
<1>1. CASE e = Started BY <1>1, EventTypes DEF Started, Event
<1>2. ASSUME NEW n \in Nat, e = Delta(n) PROVE e \in EventSet /\ e.kind # "done"
  BY <1>2, EventTypes DEF Delta, Event
<1> QED BY <1>1, <1>2

LEMMA AppendedEvent ==
    ASSUME NEW b \in Seq(EventSet), NEW e \in EventSet
    PROVE  /\ Len(b \o <<e>>) = Len(b) + 1 /\ b \o <<e>> \in Seq(EventSet)
           /\ \A i \in DOMAIN (b \o <<e>>) :
                 \/ i \in DOMAIN b /\ (b \o <<e>>)[i] = b[i]
                 \/ i = Len(b) + 1 /\ (b \o <<e>>)[i] = e
<1>1. <<e>> \in Seq(EventSet) /\ Len(<<e>>) = 1 /\ <<e>>[1] = e OBVIOUS
<1>2. /\ b \o <<e>> \in Seq(EventSet) /\ Len(b \o <<e>>) = Len(b) + 1 /\ Len(b) \in Nat
      /\ \A i \in 1 .. Len(b) + 1 : (b \o <<e>>)[i] = IF i <= Len(b) THEN b[i] ELSE <<e>>[i - Len(b)]
  BY <1>1, ConcatProperties, LenProperties
<1>3. DOMAIN b = 1 .. Len(b) /\ DOMAIN (b \o <<e>>) = 1 .. Len(b) + 1
  BY <1>2, LenProperties
<1>4. ASSUME NEW i \in 1 .. Len(b) + 1
      PROVE  \/ i \in 1 .. Len(b) /\ (b \o <<e>>)[i] = b[i]
             \/ i = Len(b) + 1 /\ (b \o <<e>>)[i] = e
  <2>1. CASE i <= Len(b) BY <1>2, <2>1
  <2>2. CASE ~ (i <= Len(b))
    <3>1. i = Len(b) + 1 /\ i - Len(b) = 1 BY <1>2, <2>2
    <3> QED BY <1>1, <1>2, <3>1
  <2> QED BY <2>1, <2>2
<1> QED BY <1>2, <1>3, <1>4

LEMMA NextWork == TypeOK /\ WorkInv /\ [Next]_vars => WorkInv'
<1> SUFFICES ASSUME TypeOK, WorkInv, [Next]_vars PROVE WorkInv' OBVIOUS
<1>1. ASSUME NEW t \in Tasks, TaskStep(t) \/ TaskFault(t) PROVE WorkInv'
  <2>1. CASE CloseDone(t) \/ CloseCancelled(t) BY <2>1, FinalWork
  <2>2. CASE ~ CloseDone(t) /\ ~ CloseCancelled(t)
    <3>1. /\ task[t].pc \in Live /\ reply' = reply /\ last' = last /\ registry' = registry
          /\ \A u \in Tasks \ {t} : task'[u] = task[u]
          /\ task'[t].msg = task[t].msg
      BY <1>1, <2>2, TaskMoves
    <3>2. IsTerminal(t)' => IsTerminal(t)
      <4>1. CASE task'[t].buffer = task[t].buffer BY <4>1 DEF IsTerminal
      <4>2. ASSUME NEW e \in {Started} \cup {Delta(n) : n \in Nat},
                   task'[t].buffer = task[t].buffer \o <<e>>
            PROVE  IsTerminal(t)' => IsTerminal(t)
        <5>1. task[t].buffer \in Seq(EventSet) BY DEF TypeOK, TaskSet
        <5>2. e \in EventSet /\ e.kind # "done" BY MoveEvents
        <5> QED BY <4>2, <5>1, <5>2, AppendedEvent DEF IsTerminal
      <4> QED BY <1>1, <2>2, <4>1, <4>2, TaskMoves
    <3>3. \A u \in Tasks \ {t} : IsTerminal(u)' => IsTerminal(u) BY <3>1 DEF IsTerminal
    <3> QED BY <3>1, <3>2, <3>3, QuietWork
  <2> QED BY <2>1, <2>2
<1>2. CASE Kill
  <2>1. /\ UNCHANGED <<reply, last>>
        /\ \A t \in Tasks : task'[t].pc \notin Live
    BY <1>2 DEF Kill, tables, FreshTask, Live
  <2> QED BY <2>1, QuietWork
<1>3. CASE Recover \/ UNCHANGED vars
  <2>1. UNCHANGED <<reply, last, registry, task>> BY <1>3 DEF Recover, vars, tables
  <2> QED BY <2>1, QuietWork DEF IsTerminal
<1> QED BY <1>1, <1>2, <1>3, RequestWork, StreamWork DEF Next

LEMMA InitWork == Init => WorkInv
BY DEF Init, WorkInv, Owned, OneTask, OneRow, LastStored, FreshTask, FreshReply, Live

LEMMA Exclusion == TypeOK /\ WorkInv => OneGeneration
<1> SUFFICES ASSUME TypeOK, WorkInv PROVE OneGeneration OBVIOUS
<1>1. ASSUME NEW c \in Convs PROVE Cardinality(Generating(c)) <= 1
  <2>1. CASE Generating(c) = {} BY <2>1, FS_EmptySet
  <2>2. CASE Generating(c) # {}
    <3>1. PICK m : m \in Generating(c) BY <2>2
    <3>2. Generating(c) = {m} BY <3>1 DEF Generating, WorkInv, OneRow
    <3>3. Cardinality({m}) = 1 BY FS_Singleton
    <3> QED BY <3>2, <3>3
  <2> QED BY <2>1, <2>2
<1> QED BY <1>1 DEF OneGeneration, WorkInv, OneTask

\* FR-020: a conversation generates at most one reply at a time and never has
\* two rows waiting for one (_assert_not_busy, the registry and the marking of
\* orphans), for any number of requests, streams, switches, crashes and faults.
THEOREM NeverTwoGenerations == Spec => []OneGeneration
<1>1. Init => TypeOK /\ WorkInv BY InitType, InitWork
<1>2. TypeOK /\ WorkInv /\ [Next]_vars => (TypeOK /\ WorkInv)' BY NextType, NextWork
<1> QED BY <1>1, <1>2, Exclusion, PTL DEF Spec

-----------------------------------------------------------------------------
(* Streams                                                                  *)

\* A task is used once: what refers to one never sees it start anew.
Used ==
    /\ \A m \in Msgs : registry[m] # NoTask => task[registry[m]].pc # "free"
    /\ \A s \in Subs : sub[s].task # NoTask => task[sub[s].task].pc # "free"

\* The terminal event is the last one.
LastOnly(b) == \A i \in DOMAIN b : b[i].kind = "done" => i = Len(b)
Sealed == \A t \in Tasks : LastOnly(task[t].buffer)

Followed(s) ==
    /\ sub[s].pc \in {"none", "opening"} => sub[s].got = <<>> /\ sub[s].task = NoTask
    /\ sub[s].pc = "following" =>
          sub[s].task \in Tasks /\ sub[s].got \o sub[s].queue = task[sub[s].task].buffer
    /\ sub[s].pc = "closed" /\ sub[s].task # NoTask =>
          sub[s].got = task[sub[s].task].buffer /\ IsTerminal(sub[s].task)

StreamInv == Used /\ Sealed /\ \A s \in Subs : Followed(s)

\* Steps that publish nothing and move no stream.
LEMMA QuietStream ==
    ASSUME TypeOK, StreamInv, sub' = sub,
           \A t \in Tasks : /\ \/ task'[t].buffer = task[t].buffer
                               \/ task[t].pc = "free" /\ task'[t].buffer = <<>>
                            /\ task[t].pc # "free" => task'[t].pc # "free",
           \A m \in Msgs : \/ registry'[m] \in {registry[m], NoTask}
                           \/ registry'[m] \in Tasks /\ task'[registry'[m]].pc # "free"
    PROVE  StreamInv'
<1> USE DEF StreamInv
<1>1. Used'
  <2>1. \A m \in Msgs : registry[m] \in Tasks \cup {NoTask} BY DEF TypeOK
  <2>2. \A s \in Subs : sub[s].task \in Tasks \cup {NoTask} BY DEF TypeOK, SubSet
  <2> QED BY <2>1, <2>2 DEF Used
<1>2. Sealed' BY DEF Sealed, LastOnly
<1>3. ASSUME NEW s \in Subs PROVE Followed(s)'
  <2>1. sub[s].task \in Tasks \cup {NoTask} BY DEF TypeOK, SubSet
  <2>2. CASE sub[s].task = NoTask BY <2>2, GenerationAssumption DEF Followed
  <2>3. CASE sub[s].task # NoTask
    <3>1. sub[s].task \in Tasks /\ task[sub[s].task].pc # "free" BY <2>1, <2>3 DEF Used
    <3>2. task'[sub[s].task].buffer = task[sub[s].task].buffer BY <3>1
    <3> QED BY <3>2 DEF Followed, IsTerminal
  <2> QED BY <2>2, <2>3
<1> QED BY <1>1, <1>2, <1>3

\* A live task publishes: every stream that follows it has the events to deliver,
\* and no stream has ended with it.
LEMMA PublishStream ==
    ASSUME TypeOK, WorkInv, StreamInv, NEW t \in Tasks, NEW tk \in TaskSet, NEW ev \in Seq(EventSet),
           PublishTo(t, tk, ev), task[t].pc \in Live, tk.buffer = task[t].buffer, tk.pc # "free",
           LastOnly(tk.buffer \o ev),
           \A m \in Msgs : registry'[m] \in {registry[m], NoTask}
    PROVE  StreamInv'
<1> USE DEF StreamInv
<1>1. \A u \in Tasks \ {t} : task'[u] = task[u] BY Published
<1>2. task'[t].buffer = tk.buffer \o ev
  <2>1. PICK b : b = tk.buffer OBVIOUS
  <2>2. task'[t].buffer = b \o ev BY <2>1, Published, ZenonT(30)
  <2> QED BY <2>1, <2>2
<1>3. task'[t].pc = tk.pc BY Published
<1>4. \A s \in Subs : /\ sub'[s].pc = sub[s].pc /\ sub'[s].msg = sub[s].msg
                       /\ sub'[s].task = sub[s].task /\ sub'[s].got = sub[s].got
                       /\ IF sub[s].pc = "following" /\ sub[s].task = t
                          THEN sub'[s].queue = sub[s].queue \o ev
                          ELSE sub'[s] = sub[s]
  BY Published
<1>5. ~ IsTerminal(t) BY DEF WorkInv, Owned
<1>6. Used'
  <2>1. \A m \in Msgs : registry[m] \in Tasks \cup {NoTask} BY DEF TypeOK
  <2>2. \A s \in Subs : sub[s].task \in Tasks \cup {NoTask} BY DEF TypeOK, SubSet
  <2>3. \A u \in Tasks : task[u].pc # "free" => task'[u].pc # "free" BY <1>1, <1>3
  <2> QED BY <1>4, <2>1, <2>2, <2>3 DEF Used
<1>7. Sealed' BY <1>1, <1>2 DEF Sealed
<1>8. ASSUME NEW s \in Subs PROVE Followed(s)'
  <2>1. CASE sub[s].pc = "following" /\ sub[s].task = t
    <3>1. sub'[s].queue = sub[s].queue \o ev /\ sub'[s].got = sub[s].got
          /\ sub'[s].pc = "following" /\ sub'[s].task = t
      BY <1>4, <2>1
    <3>2. sub[s].got \in Seq(EventSet) /\ sub[s].queue \in Seq(EventSet) BY DEF TypeOK, SubSet
    <3>3. \A g, q \in Seq(EventSet) : g \o (q \o ev) = (g \o q) \o ev
      BY ConcatAssociative, SMTT(30)
    <3>4. sub[s].got \o sub[s].queue = tk.buffer BY <2>1 DEF Followed
    <3> QED BY <1>2, <3>1, <3>2, <3>3, <3>4 DEF Followed
  <2>2. CASE ~ (sub[s].pc = "following" /\ sub[s].task = t)
    <3>1. sub'[s] = sub[s] BY <1>4, <2>2
    <3>2. CASE sub[s].pc \in {"following", "closed"} /\ sub[s].task # NoTask
      <4>1. sub[s].task \in Tasks \cup {NoTask} BY DEF TypeOK, SubSet
      <4>2. sub[s].task # t BY <1>5, <2>2, <3>2 DEF Followed
      <4>3. task'[sub[s].task] = task[sub[s].task] BY <1>1, <3>2, <4>1, <4>2
      <4> QED BY <3>1, <4>3 DEF Followed, IsTerminal
    <3>3. CASE sub[s].pc \notin {"following", "closed"} \/ sub[s].task = NoTask
      BY <3>1, <3>3, GenerationAssumption DEF Followed
    <3> QED BY <3>2, <3>3
  <2> QED BY <2>1, <2>2
<1> QED BY <1>6, <1>7, <1>8

\* One stream moves.
LEMMA OneStream ==
    ASSUME TypeOK, StreamInv, NEW s \in Subs, NEW x \in SubSet, sub' = [sub EXCEPT ![s] = x],
           UNCHANGED <<task, registry>>,
           x.task = sub[s].task \/ \E m \in Msgs : registry[m] # NoTask /\ x.task = registry[m],
           Followed(s)'
    PROVE  StreamInv'
<1> USE DEF StreamInv
<1>1. sub'[s] = x /\ \A r \in Subs \ {s} : sub'[r] = sub[r] BY DEF TypeOK
<1>2. Used' BY <1>1 DEF Used
<1>3. Sealed' BY DEF Sealed
<1>4. ASSUME NEW r \in Subs \ {s} PROVE Followed(r)'
  <2>1. sub'[r] = sub[r] /\ Followed(r) BY <1>1
  <2> QED BY <2>1 DEF Followed, IsTerminal
<1> QED BY <1>2, <1>3, <1>4

LEMMA RequestStream ==
    ASSUME TypeOK, StreamInv, Requests PROVE StreamInv'
<1>1. ASSUME NEW m \in Msgs, NEW t \in Tasks, StartTask(m, t), sub' = sub PROVE StreamInv'
  <2>1. /\ task[t].pc = "free" /\ task'[t].pc = "created" /\ task'[t].buffer = <<>>
        /\ \A u \in Tasks \ {t} : task'[u] = task[u]
        /\ registry'[m] = t /\ \A k \in Msgs \ {m} : registry'[k] = registry[k]
    BY <1>1 DEF StartTask, FreshTask, TypeOK
  <2> QED BY <1>1, <2>1, QuietStream
<1>2. ASSUME NEW m \in Msgs, Stop(m) PROVE StreamInv'
  <2>1. UNCHANGED <<registry, sub>> /\ registry[m] \in Tasks
        /\ task' = [task EXCEPT ![registry[m]].cancel = TRUE]
    BY <1>2 DEF Stop, Registered, TypeOK, streams
  <2>2. \A t \in Tasks : task'[t].pc = task[t].pc /\ task'[t].buffer = task[t].buffer
    BY <2>1 DEF TypeOK, TaskSet
  <2> QED BY <2>1, <2>2, QuietStream
<1>3. ASSUME NEW s \in Subs, Disconnect(s) PROVE StreamInv'
  <2> DEFINE x == [sub[s] EXCEPT !.pc = "gone", !.queue = <<>>]
  <2>1. x \in SubSet /\ x.pc = "gone" /\ x.task = sub[s].task BY EventTypes DEF TypeOK, SubSet
  <2>2. sub' = [sub EXCEPT ![s] = x] /\ UNCHANGED <<task, registry>> BY <1>3 DEF Disconnect
  <2> HIDE DEF x
  <2>3. sub'[s] = x BY <2>2 DEF TypeOK
  <2>4. Followed(s)' BY <2>1, <2>3 DEF Followed
  <2> QED BY <2>1, <2>2, <2>4, OneStream
<1>4. ASSUME NEW s \in Subs, NEW m \in Msgs, OpenStream(s, m) PROVE StreamInv'
  <2> DEFINE x == [sub[s] EXCEPT !.pc = "opening", !.msg = m]
  <2>1. x \in SubSet /\ x.pc = "opening" /\ x.task = sub[s].task /\ x.got = sub[s].got
    BY DEF TypeOK, SubSet
  <2>2. sub' = [sub EXCEPT ![s] = x] /\ sub[s].pc = "none" /\ UNCHANGED <<task, registry>>
    BY <1>4 DEF OpenStream
  <2> HIDE DEF x
  <2>3. sub'[s] = x BY <2>2 DEF TypeOK
  <2>4. Followed(s)' BY <2>1, <2>2, <2>3 DEF Followed, StreamInv
  <2> QED BY <2>1, <2>2, <2>4, OneStream
<1>5. ASSUME NEW c \in Convs, Refused(c) PROVE StreamInv'
  BY <1>5, QuietStream DEF Refused, streams
<1> QED BY <1>1, <1>2, <1>3, <1>4, <1>5 DEF Requests, SendMessage, Regenerate, streams, TypeOK

\* Moving the head of the queue to what the client has got.
LEMMA Delivered ==
    ASSUME NEW g \in Seq(EventSet), NEW q \in Seq(EventSet), q # <<>>, LastOnly(g \o q),
           NEW e \in EventSet, e = Head(q)
    PROVE  /\ Tail(q) \in Seq(EventSet) /\ Append(g, e) \in Seq(EventSet)
           /\ Append(g, e) \o Tail(q) = g \o q
           /\ e.kind = "done" => /\ Append(g, e) = g \o q
                                 /\ \E i \in DOMAIN (g \o q) : (g \o q)[i].kind = "done"
<1>1. /\ Tail(q) \in Seq(EventSet) /\ Len(q) \in Nat \ {0} /\ Len(Tail(q)) = Len(q) - 1
      /\ \A i \in 1 .. Len(Tail(q)) : Tail(q)[i] = q[i + 1]
  BY HeadTailProperties, EmptySeq, LenProperties
<1>2. e = q[1] BY <1>1
<1>3. /\ Append(g, e) \in Seq(EventSet) /\ Len(Append(g, e)) = Len(g) + 1 /\ Len(g) \in Nat
      /\ \A i \in 1 .. Len(g) : Append(g, e)[i] = g[i]
      /\ Append(g, e)[Len(g) + 1] = e
  BY AppendProperties, LenProperties
<1>4. /\ g \o q \in Seq(EventSet) /\ Len(g \o q) = Len(g) + Len(q)
      /\ DOMAIN (g \o q) = 1 .. Len(g) + Len(q)
      /\ \A i \in 1 .. Len(g) + Len(q) : (g \o q)[i] = IF i <= Len(g) THEN g[i] ELSE q[i - Len(g)]
  BY ConcatProperties, LenProperties
<1>5. (g \o q)[Len(g) + 1] = e /\ Len(g) + 1 \in DOMAIN (g \o q)
  <2>1. Len(g) + 1 \in 1 .. Len(g) + Len(q) /\ ~ (Len(g) + 1 <= Len(g)) /\ Len(g) + 1 - Len(g) = 1
    BY <1>1, <1>3
  <2> QED BY <1>2, <1>4, <2>1
<1>6. Append(g, e) \o Tail(q) = g \o q
  <2> PICK a \in Seq(EventSet) : a = Append(g, e) BY <1>3
  <2> PICK r \in Seq(EventSet) : r = Tail(q) BY <1>1
  <2>1. /\ a \o r \in Seq(EventSet) /\ Len(a \o r) = Len(g) + Len(q)
        /\ \A i \in 1 .. Len(g) + Len(q) :
              (a \o r)[i] = IF i <= Len(g) + 1 THEN a[i] ELSE r[i - (Len(g) + 1)]
    <3>1. Len(a) = Len(g) + 1 /\ Len(r) = Len(q) - 1 BY <1>1, <1>3
    <3>2. /\ a \o r \in Seq(EventSet) /\ Len(a \o r) = Len(a) + Len(r)
          /\ \A i \in 1 .. Len(a) + Len(r) : (a \o r)[i] = IF i <= Len(a) THEN a[i] ELSE r[i - Len(a)]
      BY ConcatProperties
    <3>3. Len(a) + Len(r) = Len(g) + Len(q) BY <1>1, <1>3, <3>1
    <3> QED BY <3>1, <3>2, <3>3
  <2>2. ASSUME NEW i \in 1 .. Len(g) + Len(q) PROVE (a \o r)[i] = (g \o q)[i]
    <3>1. CASE i <= Len(g) BY <1>3, <1>4, <2>1, <3>1
    <3>2. CASE i = Len(g) + 1 BY <1>3, <1>5, <2>1, <3>2
    <3>3. CASE i > Len(g) + 1
      <4> DEFINE j == i - (Len(g) + 1)
      <4>1. j \in 1 .. Len(Tail(q)) /\ j + 1 = i - Len(g) BY <1>1, <1>3, <3>3
      <4>2. ~ (i <= Len(g) + 1) /\ ~ (i <= Len(g)) BY <1>3, <3>3
      <4>3. (a \o r)[i] = r[j] /\ (g \o q)[i] = q[j + 1] BY <1>4, <2>1, <4>1, <4>2
      <4> QED BY <1>1, <4>1, <4>3
    <3> QED BY <1>3, <3>1, <3>2, <3>3
  <2> QED BY <1>4, <2>1, <2>2, SeqEqual
<1>7. ASSUME e.kind = "done" PROVE Append(g, e) = g \o q
  <2>1. Len(g) + 1 = Len(g \o q) BY <1>5, <1>7 DEF LastOnly
  <2>2. \A i \in 1 .. Len(g) + 1 : Append(g, e)[i] = (g \o q)[i]
    <3> SUFFICES ASSUME NEW i \in 1 .. Len(g) + 1 PROVE Append(g, e)[i] = (g \o q)[i] OBVIOUS
    <3>1. CASE i <= Len(g) BY <1>1, <1>3, <1>4, <3>1
    <3>2. CASE i = Len(g) + 1 BY <1>3, <1>5, <3>2
    <3> QED BY <1>3, <3>1, <3>2
  <2> QED BY <1>3, <1>4, <2>1, <2>2, SeqEqual
<1> QED BY <1>1, <1>3, <1>5, <1>6, <1>7

LEMMA SubscriberStream ==
    ASSUME TypeOK, StreamInv, NEW s \in Subs, StreamStep(s) PROVE StreamInv'
<1> USE DEF StreamInv
<1>1. CASE Follow(s)
  <2> PICK m \in Msgs : m = sub[s].msg BY <1>1 DEF Follow, TypeOK, Opened
  <2> PICK t \in Tasks : t = registry[m] BY <1>1 DEF Follow, Registered, TypeOK
  <2> PICK b \in Seq(EventSet) : b = task[t].buffer BY DEF TypeOK, TaskSet
  <2> DEFINE x == [sub[s] EXCEPT !.pc = "following", !.task = t, !.queue = b]
  <2>1. x \in SubSet /\ x.pc = "following" /\ x.task = t /\ x.queue = b /\ x.got = sub[s].got
    BY DEF TypeOK, SubSet
  <2>2. sub' = [sub EXCEPT ![s] = x] /\ sub[s].pc = "opening" /\ UNCHANGED <<task, registry>>
    BY <1>1 DEF Follow
  <2> HIDE DEF x
  <2>3. sub'[s] = x BY <2>2 DEF TypeOK
  <2>4. x.got \o b = b BY <2>1, <2>2, ConcatEmptySeq DEF Followed
  <2>5. Followed(s)' BY <2>1, <2>2, <2>3, <2>4 DEF Followed
  <2>6. registry[m] # NoTask BY GenerationAssumption
  <2> QED BY <2>1, <2>2, <2>5, <2>6, OneStream
<1>2. CASE NoTaskStream(s)
  <2>1. PICK m \in Msgs : m = sub[s].msg BY <1>2 DEF NoTaskStream, TypeOK, Opened
  <2> PICK n \in Nat : n = reply[m].text BY <2>1 DEF TypeOK, ReplySet
  <2>2. Done("cancelled", reply[m].text) \in EventSet BY EventTypes
  <2>3. PICK got \in Seq(EventSet) :
          got = IF reply[m].st = "deleted" THEN <<>> ELSE <<Done("cancelled", reply[m].text)>>
    <3>1. PICK d \in EventSet : d = Done("cancelled", reply[m].text) BY <2>2
    <3>2. <<d>> \in Seq(EventSet) /\ <<>> \in Seq(EventSet) OBVIOUS
    <3> QED BY <3>1, <3>2
  <2> DEFINE x == [sub[s] EXCEPT !.pc = "closed", !.got = got]
  <2>4. x \in SubSet /\ x.pc = "closed" /\ x.task = sub[s].task BY <2>3 DEF TypeOK, SubSet
  <2>5. sub' = [sub EXCEPT ![s] = x] /\ sub[s].pc = "opening" /\ UNCHANGED <<task, registry>>
    BY <1>2, <2>1, <2>3 DEF NoTaskStream
  <2> HIDE DEF x
  <2>6. sub'[s] = x BY <2>5 DEF TypeOK
  <2>7. Followed(s)' BY <2>4, <2>5, <2>6 DEF Followed
  <2> QED BY <2>4, <2>5, <2>7, OneStream
<1>3. CASE Deliver(s)
  <2> PICK t \in Tasks : t = sub[s].task BY <1>3 DEF Deliver, Followed
  <2> PICK q \in Seq(EventSet) : q = sub[s].queue BY DEF TypeOK, SubSet
  <2> PICK g \in Seq(EventSet) : g = sub[s].got BY DEF TypeOK, SubSet
  <2>1. q # <<>> /\ sub[s].pc = "following" /\ g \o q = task[t].buffer /\ LastOnly(g \o q)
    BY <1>3 DEF Deliver, Followed, Sealed
  <2>2. PICK e \in EventSet : e = Head(q) BY <2>1, HeadTailProperties
  <2>3. /\ Tail(q) \in Seq(EventSet) /\ Append(g, e) \in Seq(EventSet)
        /\ Append(g, e) \o Tail(q) = g \o q
        /\ e.kind = "done" => Append(g, e) = g \o q /\ \E i \in DOMAIN (g \o q) : (g \o q)[i].kind = "done"
    BY <2>1, <2>2, Delivered, ZenonT(30)
  <2> DEFINE pc == IF e.kind = "done" THEN "closed" ELSE "following"
             x == [sub[s] EXCEPT !.queue = Tail(q), !.got = Append(g, e), !.pc = pc]
  <2>4. x \in SubSet /\ x.pc = pc /\ x.task = t /\ x.queue = Tail(q) /\ x.got = Append(g, e)
    BY <2>3, ZenonT(30) DEF TypeOK, SubSet
  <2>5. sub' = [sub EXCEPT ![s] = x] /\ UNCHANGED <<task, registry>>
    BY <1>3, <2>1, <2>2 DEF Deliver
  <2> HIDE DEF x
  <2>6. sub'[s] = x BY <2>5 DEF TypeOK
  <2>7. CASE e.kind = "done"
    <3>1. x.pc = "closed" /\ x.got = g \o q BY <2>3, <2>4, <2>7
    <3>2. \E i \in DOMAIN task[t].buffer : task[t].buffer[i].kind = "done" BY <2>1, <2>3, <2>7
    <3> HIDE DEF pc
    <3>3. Followed(s)' BY <2>1, <2>4, <2>5, <2>6, <3>1, <3>2 DEF Followed, IsTerminal
    <3> QED BY <2>4, <2>5, <3>3, OneStream
  <2>8. CASE e.kind # "done"
    <3>1. x.pc = "following" /\ x.got \o x.queue = g \o q BY <2>3, <2>4, <2>8
    <3> HIDE DEF pc
    <3>2. Followed(s)' BY <2>1, <2>4, <2>5, <2>6, <3>1 DEF Followed
    <3> QED BY <2>4, <2>5, <3>2, OneStream
  <2> QED BY <2>7, <2>8
<1> QED BY <1>1, <1>2, <1>3 DEF StreamStep

\* What a generation publishes at its end is sealed by one terminal event.
LEMMA FinalSealed ==
    ASSUME TypeOK, NEW t \in Tasks, ~ IsTerminal(t)
    PROVE  LastOnly(task[t].buffer \o FinalEvents(t))
<1> PICK b \in Seq(EventSet) : b = task[t].buffer BY DEF TypeOK, TaskSet
<1> PICK d \in EventSet : d = Done(FinalStatus(t), Text(t)) BY FinalTypes
<1>1. \A i \in DOMAIN b : b[i].kind # "done" BY DEF IsTerminal
<1>2. CASE ~ Erred(t)
  <2>1. FinalEvents(t) = <<d>> BY <1>2, FinalTypes
  <2> QED BY <1>1, <2>1, AppendedEvent DEF LastOnly
<1>3. CASE Erred(t)
  <2> PICK e \in EventSet : e = ErrorEvent /\ e.kind # "done" BY EventTypes DEF ErrorEvent, Event
  <2>1. FinalEvents(t) = <<e, d>> BY <1>3, FinalTypes
  <2>2. b \o <<e, d>> = (b \o <<e>>) \o <<d>>
    <3>0. <<e>> \in Seq(EventSet) /\ <<d>> \in Seq(EventSet) OBVIOUS
    <3> PICK x \in Seq(EventSet) : x = <<e>> BY <3>0, Zenon
    <3> PICK y \in Seq(EventSet) : y = <<d>> BY <3>0, Zenon
    <3>1. <<e, d>> = x \o y BY TwoElements
    <3>2. (b \o x) \o y = b \o (x \o y) BY ConcatAssociative
    <3> QED BY <3>1, <3>2
  <2> PICK f \in Seq(EventSet) : f = b \o <<e>> BY AppendedEvent
  <2>3. \A i \in DOMAIN f : f[i].kind # "done" BY <1>1, AppendedEvent
  <2>4. LastOnly(f \o <<d>>)
    <3>1. /\ Len(f \o <<d>>) = Len(f) + 1
          /\ \A i \in DOMAIN (f \o <<d>>) :
                i = Len(f) + 1 \/ (i \in DOMAIN f /\ (f \o <<d>>)[i] = f[i])
      BY AppendedEvent
    <3> QED BY <2>3, <3>1 DEF LastOnly
  <2> QED BY <2>1, <2>2, <2>4
<1> QED BY <1>2, <1>3

LEMMA TaskStream ==
    ASSUME TypeOK, WorkInv, StreamInv, NEW t \in Tasks, TaskStep(t) \/ TaskFault(t)
    PROVE  StreamInv'
<1>1. CASE CloseDone(t) \/ CloseCancelled(t)
  <2> PICK tk \in TaskSet : tk = Ended(t) BY FinalTypes
  <2> PICK ev \in Seq(EventSet) : ev = FinalEvents(t) BY FinalTypes
  <2>1. PublishTo(t, tk, ev) BY <1>1, ClosingFinalizes, ZenonT(30) DEF PublishTo
  <2>2. task[t].pc \in Live BY <1>1, ClosingFinalizes DEF Live
  <2>3. tk.pc # "free" /\ tk.buffer = task[t].buffer BY DEF Ended, TypeOK, TaskSet
  <2>4. \A m \in Msgs : registry'[m] \in {registry[m], NoTask}
    BY <1>1, ClosingFinalizes DEF TypeOK
  <2>5. LastOnly(tk.buffer \o ev) BY <2>2, <2>3, FinalSealed DEF WorkInv, Owned
  <2> QED BY <2>1, <2>2, <2>3, <2>4, <2>5, PublishStream
<1>2. CASE ~ CloseDone(t) /\ ~ CloseCancelled(t)
  <2>1. /\ task[t].pc \in Live /\ registry' = registry
        /\ \A u \in Tasks \ {t} : task'[u] = task[u]
        /\ task'[t].pc \in {"running", "closing", "ended"}
        /\ \/ task'[t].buffer = task[t].buffer /\ sub' = sub
           \/ \E e \in {Started} \cup {Delta(n) : n \in Nat} : PublishTo(t, task[t], <<e>>)
    BY <1>2, TaskMoves
  <2>2. CASE task'[t].buffer = task[t].buffer /\ sub' = sub BY <2>1, <2>2, QuietStream
  <2>3. ASSUME NEW e \in {Started} \cup {Delta(n) : n \in Nat}, PublishTo(t, task[t], <<e>>)
        PROVE  StreamInv'
    <3> PICK tk \in TaskSet : tk = task[t] BY DEF TypeOK
    <3>1. e \in EventSet /\ e.kind # "done" BY MoveEvents
    <3> PICK x \in EventSet : x = e BY <3>1
    <3>0. <<x>> \in Seq(EventSet) OBVIOUS
    <3> PICK ev \in Seq(EventSet) : ev = <<x>> BY <3>0, Zenon
    <3>2. PublishTo(t, tk, ev) BY <2>3 DEF PublishTo
    <3>3. \A i \in DOMAIN tk.buffer : tk.buffer[i].kind # "done"
      BY <2>1 DEF WorkInv, Owned, IsTerminal
    <3>4. LastOnly(tk.buffer \o ev)
      <4> PICK b \in Seq(EventSet) : b = tk.buffer BY DEF TaskSet
      <4> QED BY <3>1, <3>3, AppendedEvent DEF LastOnly
    <3>5. tk.pc # "free" /\ tk.buffer = task[t].buffer BY <2>1 DEF Live
    <3> QED BY <2>1, <3>2, <3>4, <3>5, PublishStream
  <2> QED BY <2>1, <2>2, <2>3
<1> QED BY <1>1, <1>2

LEMMA NextStream == TypeOK /\ WorkInv /\ StreamInv /\ [Next]_vars => StreamInv'
<1> SUFFICES ASSUME TypeOK, WorkInv, StreamInv, [Next]_vars PROVE StreamInv' OBVIOUS
<1>1. CASE Kill
  <2>1. \A m \in Msgs : registry'[m] = NoTask BY <1>1 DEF Kill
  <2>2. \A s \in Subs : sub'[s].task = NoTask /\ sub'[s].pc \in {"none", "gone"}
                        /\ (sub'[s].pc = "none" => sub'[s].got = <<>>)
    <3> SUFFICES ASSUME NEW s \in Subs
                 PROVE  /\ sub'[s].task = NoTask /\ sub'[s].pc \in {"none", "gone"}
                        /\ (sub'[s].pc = "none" => sub'[s].got = <<>>)
      OBVIOUS
    <3>1. sub'[s] = IF sub[s].pc = "none" THEN sub[s] ELSE [FreshSub EXCEPT !.pc = "gone"]
      BY <1>1 DEF Kill
    <3>2. CASE sub[s].pc = "none" BY <3>1, <3>2 DEF StreamInv, Followed
    <3>3. CASE sub[s].pc # "none" BY <3>1, <3>3 DEF FreshSub
    <3> QED BY <3>2, <3>3
  <2>3. ASSUME NEW t \in Tasks PROVE LastOnly(task'[t].buffer)
    <3>1. task'[t].buffer = task[t].buffer \/ task'[t].buffer = <<>>
      BY <1>1 DEF Kill, FreshTask
    <3> QED BY <3>1 DEF StreamInv, Sealed, LastOnly
  <2> QED BY <2>1, <2>2, <2>3 DEF StreamInv, Used, Sealed, Followed
<1>2. CASE Recover \/ UNCHANGED vars
  BY <1>2, QuietStream DEF Recover, vars, tables, streams
<1>3. ASSUME NEW w \in Switchers, SwitchStep(w) PROVE StreamInv'
  BY <1>3, QuietStream DEF SwitchStep, SwitchCheck, SwitchFind, SwitchMark, tables
<1> QED BY <1>1, <1>2, <1>3, RequestStream, SubscriberStream, TaskStream DEF Next

LEMMA InitStream == Init => StreamInv
BY DEF Init, StreamInv, Used, Sealed, Followed, LastOnly, FreshTask, FreshSub

\* Contract of build_message_stream: whenever a client joins, the replayed and
\* the live events together are those of the generation, each once and in order,
\* and a stream that has ended has delivered them all.
THEOREM StreamsAreExact == Spec => []StreamExact
<1>1. Init => TypeOK /\ WorkInv /\ StreamInv BY InitType, InitWork, InitStream
<1>2. TypeOK /\ WorkInv /\ StreamInv /\ [Next]_vars => (TypeOK /\ WorkInv /\ StreamInv)'
  BY NextType, NextWork, NextStream
<1>3. StreamInv => StreamExact BY DEF StreamInv, StreamExact, Followed
<1> QED BY <1>1, <1>2, <1>3, PTL DEF Spec

=============================================================================
