------------------------- MODULE RecordedRunProofs -------------------------
(***************************************************************************)
(* Proofs about the record of a run and the case judged from it, for       *)
(* streams of any length, any number of failed commits and restarts, and   *)
(* any usages and scores.                                                  *)
(*                                                                         *)
(* The recorder tries several commits for an event and stops at the first  *)
(* that fails, so which of them were done depends on their order (Written).*)
(* The invariant relates three things: where execute_run is, what the      *)
(* recorder object remembers, and what the row shows.                      *)
(***************************************************************************)
EXTENDS RecordedRun, SequenceTheorems, FiniteSetTheorems, TLAPS

\* The fields of the object and of the row; numbers are not looked at.
RecorderShape ==
    /\ DOMAIN recorder = {"created", "finished", "requests", "tools", "usage", "error"}
    /\ recorder.created \in BOOLEAN

Statuses == {"none", "running"} \cup Terminal

RunShape ==
    /\ DOMAIN run = {"st", "reason", "requests", "tools", "usage", "error"}
    /\ run.st \in Statuses

StreamShape == \E S : stream \in Seq(S)

Shape ==
    /\ RecorderShape /\ RunShape /\ StreamShape
    /\ pc \in {"idle", "dead"} \cup Working \cup Left
    /\ faults \in Nat

-----------------------------------------------------------------------------
(* The commits of an event                                                  *)

\* w is a (of length k) followed by b (of length l).
Joined(S, w, a, k, b, l) ==
    /\ w \in Seq(S) /\ Len(w) = k + l
    /\ \A i \in 1 .. k : w[i] = a[i]
    /\ \A i \in 1 .. l : w[k + i] = b[i]

\* The elements of a concatenation.
LEMMA TwoParts ==
    ASSUME NEW S, NEW a \in Seq(S), NEW b \in Seq(S), NEW w, w = a \o b,
           NEW k \in Nat, NEW l \in Nat, k = Len(a), l = Len(b)
    PROVE  Joined(S, w, a, k, b, l)
<1>2. /\ w \in Seq(S) /\ Len(w) = k + l
      /\ \A i \in 1 .. k + l : w[i] = IF i <= k THEN a[i] ELSE b[i - k]
  BY ConcatProperties
<1>3. ASSUME NEW i \in 1 .. k PROVE w[i] = a[i]
  <2>1. i \in 1 .. k + l /\ i <= k OBVIOUS
  <2> QED BY <1>2, <2>1
<1>4. ASSUME NEW i \in 1 .. l PROVE w[k + i] = b[i]
  <2>1. k + i \in 1 .. k + l /\ ~ (k + i <= k) /\ (k + i) - k = i OBVIOUS
  <2> QED BY <1>2, <2>1
<1> QED BY <1>2, <1>3, <1>4, Zenon DEF Joined

JoinedAt(w, a, k, b, l, c, d, m) ==
    /\ Len(w) = k + l + 1 + m
    /\ \A i \in 1 .. k : w[i] = a[i]
    /\ \A i \in 1 .. l : w[k + i] = b[i]
    /\ w[k + l + 1] = c[1]
    /\ \A i \in 1 .. m : w[k + l + 1 + i] = d[i]

\* The elements of a concatenation of four, the third of length one.
LEMMA FourParts ==
    ASSUME NEW S, NEW a \in Seq(S), NEW b \in Seq(S), NEW c \in Seq(S), NEW d \in Seq(S),
           NEW k \in Nat, NEW l \in Nat, NEW m \in Nat, NEW w,
           k = Len(a), l = Len(b), Len(c) = 1, m = Len(d), w = a \o b \o c \o d
    PROVE  JoinedAt(w, a, k, b, l, c, d, m)
<1>1. PICK ab, abc : ab = a \o b /\ abc = ab \o c /\ w = abc \o d OBVIOUS
<1>2. PICK g \in Nat, h \in Nat, one \in Nat : g = k + l /\ one = 1 /\ h = g + one
  OBVIOUS
<1>3. Joined(S, ab, a, k, b, l) BY <1>1, TwoParts
<1>4. Joined(S, abc, ab, g, c, one)
  <2>1. ab \in Seq(S) /\ Len(ab) = g BY <1>2, <1>3 DEF Joined
  <2> QED BY <1>1, <1>2, <2>1, TwoParts
<1>5. Joined(S, w, abc, h, d, m)
  <2>1. abc \in Seq(S) /\ Len(abc) = h BY <1>2, <1>4 DEF Joined
  <2> QED BY <1>1, <2>1, TwoParts
<1>6. ASSUME NEW i \in 1 .. k PROVE w[i] = a[i]
  <2>1. i \in 1 .. g /\ i \in 1 .. h BY <1>2
  <2> QED BY <1>3, <1>4, <1>5, <2>1 DEF Joined
<1>7. ASSUME NEW i \in 1 .. l PROVE w[k + i] = b[i]
  <2>1. k + i \in 1 .. g /\ k + i \in 1 .. h BY <1>2
  <2> QED BY <1>3, <1>4, <1>5, <2>1 DEF Joined
<1>8. w[k + l + 1] = c[1]
  <2>1. h \in 1 .. h /\ 1 \in 1 .. one /\ g + 1 = h /\ h = k + l + 1 BY <1>2
  <2>2. w[h] = abc[h] BY <1>5, <2>1 DEF Joined
  <2>3. abc[g + 1] = c[1] BY <1>4, <2>1 DEF Joined
  <2> QED BY <2>1, <2>2, <2>3
<1>9. Len(w) = k + l + 1 + m BY <1>2, <1>5 DEF Joined
<1>10. ASSUME NEW i \in 1 .. m PROVE w[k + l + 1 + i] = d[i]
  <2>1. w[h + i] = d[i] BY <1>5 DEF Joined
  <2> QED BY <1>2, <2>1
<1> QED BY <1>6, <1>7, <1>8, <1>9, <1>10, Zenon DEF JoinedAt

PayloadTypes ==
    {"model_input", "model_output", "tool_params", "tool_result",
     "compression_input", "compression_output"}

\* The payloads of an event are a sequence of payload types.
LEMMA PayloadsTyped ==
    ASSUME NEW e
    PROVE  PayloadsOf(e) \in Seq(PayloadTypes) /\ Len(PayloadsOf(e)) \in Nat
<1>1. /\ <<"model_input", "model_output">> \in Seq(PayloadTypes)
      /\ <<"model_input">> \in Seq(PayloadTypes)
      /\ <<"tool_params">> \in Seq(PayloadTypes) /\ <<"tool_result">> \in Seq(PayloadTypes)
      /\ <<"compression_input">> \in Seq(PayloadTypes)
      /\ <<"compression_output">> \in Seq(PayloadTypes)
      /\ <<>> \in Seq(PayloadTypes)
  BY DEF PayloadTypes
<1>2. PayloadsOf(e) \in
          {<<"model_input", "model_output">>, <<"model_input">>, <<"tool_params">>,
           <<"tool_result">>, <<"compression_input">>, <<"compression_output">>, <<>>}
  BY Zenon DEF PayloadsOf
<1>3. PayloadsOf(e) \in Seq(PayloadTypes) BY <1>1, <1>2, Zenon
<1> QED BY <1>3, LenProperties

\* The commits of an event in their order: k for the row, l payloads, the event,
\* m for the final state.
CommitsAre(w, k, l, m) ==
    /\ k \in {0, 1} /\ m \in {0, 1}
    /\ k = 1 => w[1] = "row"
    /\ \A i \in 1 .. l : w[k + i] \in PayloadTypes
    /\ w[k + l + 1] = "event"
    /\ m = 1 => w[k + l + 2] = "final"

\* What is done after n of them.
DoneAfter(n, done, w, k, l, m) ==
    /\ "row" \in done <=> k = 1 /\ n > 0
    /\ "final" \in done <=> m = 1 /\ n = k + l + 1 + m
    /\ "event" \in done <=> n >= k + l + 1
    /\ n >= k + l + 1 => \A i \in 1 .. l : w[k + i] \in done

\* A prefix of the commits holds the row if it is not empty, the final state only
\* if it is all of them, and the event only behind its payloads.
LEMMA WrittenPrefix ==
    ASSUME NEW k \in Nat, NEW l \in Nat, NEW m \in Nat, NEW w, CommitsAre(w, k, l, m),
           NEW n \in 0 .. k + l + 1 + m, NEW done, done = {w[i] : i \in 1 .. n}
    PROVE  DoneAfter(n, done, w, k, l, m)
<1> USE DEF CommitsAre
<1> n \in Nat OBVIOUS
<1>21. ASSUME NEW i \in 1 .. n
       PROVE  \/ i = 1 /\ k = 1 /\ w[i] = "row"
              \/ i <= k + l /\ i > k /\ w[i] \in PayloadTypes
              \/ i = k + l + 1 /\ w[i] = "event"
              \/ i = k + l + 2 /\ m = 1 /\ w[i] = "final"
  <2>1. CASE i <= k BY <2>1
  <2>2. CASE i > k /\ i <= k + l
    <3>1. PICK j \in 1 .. l : i = k + j
      <4>1. i - k \in 1 .. l /\ i = k + (i - k) BY <2>2
      <4> QED BY <4>1
    <3> QED BY <2>2, <3>1
  <2>3. CASE i = k + l + 1 BY <2>3
  <2>4. CASE i > k + l + 1
    <3>1. i = k + l + 2 /\ m = 1 BY <2>4
    <3> QED BY <3>1
  <2> QED BY <2>1, <2>2, <2>3, <2>4
<1>22. "row" \notin PayloadTypes /\ "event" \notin PayloadTypes /\ "final" \notin PayloadTypes
  BY DEF PayloadTypes
<1>23. "row" \in done <=> k = 1 /\ n > 0
  <2>1. ASSUME k = 1, n > 0 PROVE "row" \in done
    <3>1. 1 \in 1 .. n BY <2>1
    <3> QED BY <2>1, <3>1
  <2>2. ASSUME NEW i \in 1 .. n, w[i] = "row" PROVE k = 1 /\ n > 0
    BY <1>21, <1>22, <2>2
  <2> QED BY <2>1, <2>2, Zenon
<1>24. "final" \in done <=> m = 1 /\ n = k + l + 1 + m
  <2>1. ASSUME m = 1, n = k + l + 1 + m PROVE "final" \in done
    <3>1. k + l + 2 \in 1 .. n BY <2>1
    <3> QED BY <2>1, <3>1
  <2>2. ASSUME NEW i \in 1 .. n, w[i] = "final" PROVE m = 1 /\ n = k + l + 1 + m
    BY <1>21, <1>22, <2>2
  <2> QED BY <2>1, <2>2, Zenon
<1>25. "event" \in done <=> n >= k + l + 1
  <2>1. ASSUME n >= k + l + 1 PROVE "event" \in done
    <3>1. k + l + 1 \in 1 .. n BY <2>1
    <3> QED BY <3>1
  <2>2. ASSUME NEW i \in 1 .. n, w[i] = "event" PROVE n >= k + l + 1
    BY <1>21, <1>22, <2>2
  <2> QED BY <2>1, <2>2, Zenon
<1>26. ASSUME n >= k + l + 1, NEW i \in 1 .. l PROVE w[k + i] \in done
  <2>1. k + i \in 1 .. n BY <1>26
  <2> QED BY <2>1
<1> QED BY <1>23, <1>24, <1>25, <1>26 DEF DoneAfter

\* Which commits are done when n of them succeed: the row if it is not there,
\* the payloads, the event, the final state.
LEMMA Written ==
    ASSUME NEW e, NEW n \in 0 .. Len(Writes(e)),
           NEW done, done = {Writes(e)[i] : i \in 1 .. n}, recorder.created \in BOOLEAN
    PROVE  /\ Len(Writes(e)) \in Nat
           /\ "row" \in done <=> ~ recorder.created /\ n > 0
           /\ "final" \in done <=> FinalWrites(e) # <<>> /\ n = Len(Writes(e))
           /\ n = Len(Writes(e)) => "event" \in done
           /\ "final" \in done => "event" \in done
           /\ "event" \in done => \A i \in 1 .. Len(PayloadsOf(e)) : PayloadsOf(e)[i] \in done
           /\ n = Len(Writes(e)) => n > 0
<1> PICK S : S = PayloadTypes \cup {"row", "event", "final"} OBVIOUS
<1>0. <<"row">> \in Seq(S) /\ <<"event">> \in Seq(S) /\ <<"final">> \in Seq(S) /\ <<>> \in Seq(S)
  OBVIOUS
<1>1. PICK a \in Seq(S) : a = (IF recorder.created THEN <<>> ELSE <<"row">>)
  BY <1>0, Zenon
<1>2. PICK b \in Seq(S) : b = PayloadsOf(e) BY PayloadsTyped, SeqMonotonic
<1>3. PICK c \in Seq(S) : c = <<"event">> BY <1>0
<1>4. PICK d \in Seq(S) : d = FinalWrites(e)
  <2>1. FinalWrites(e) \in {<<"final">>, <<>>} BY Zenon DEF FinalWrites
  <2> QED BY <1>0, <2>1, Zenon
<1>5. Writes(e) = a \o b \o c \o d BY <1>1, <1>2, <1>3, <1>4, Zenon DEF Writes
<1> PICK k \in Nat : k = Len(a) BY LenProperties
<1> PICK l \in Nat : l = Len(b) BY LenProperties
<1> PICK m \in Nat : m = Len(d) BY LenProperties
<1> PICK w : w = Writes(e) OBVIOUS
<1>6. /\ k = Len(a) /\ l = Len(b) /\ m = Len(d) /\ w = Writes(e)
      /\ Len(w) = k + l + 1 + m
      /\ \A i \in 1 .. k : w[i] = a[i]
      /\ \A i \in 1 .. l : w[k + i] = b[i]
      /\ w[k + l + 1] = c[1]
      /\ \A i \in 1 .. m : w[k + l + 1 + i] = d[i]
  <2>1. Len(c) = 1 BY <1>3
  <2>2. w = a \o b \o c \o d BY <1>5
  <2>3. JoinedAt(w, a, k, b, l, c, d, m) BY <2>1, <2>2, FourParts
  <2> QED BY <2>3, Zenon DEF JoinedAt
<1>7. k \in {0, 1} /\ (k = 1 => a[1] = "row") /\ (k = 1 <=> ~ recorder.created)
  BY <1>1, <1>6
<1>8. \A i \in 1 .. l : b[i] \in PayloadTypes
  BY <1>2, <1>6, PayloadsTyped, ElementOfSeq
<1>9. m \in {0, 1} /\ (m = 1 => d[1] = "final") /\ (m = 1 <=> FinalWrites(e) # <<>>)
  <2>1. FinalWrites(e) = <<>> \/ FinalWrites(e) = <<"final">> BY Zenon DEF FinalWrites
  <2>2. CASE FinalWrites(e) = <<>> BY <1>4, <1>6, <2>2
  <2>3. CASE FinalWrites(e) = <<"final">>
    <3>1. Len(d) = 1 /\ d[1] = "final" /\ d # <<>> BY <1>4, <2>3
    <3> QED BY <1>4, <1>6, <3>1
  <2> QED BY <2>1, <2>2, <2>3
<1>10. /\ k = 1 => w[1] = "row"
       /\ w[k + l + 1] = "event"
       /\ m = 1 => w[k + l + 2] = "final"
  <2>1. k = 1 => w[1] = "row" BY <1>6, <1>7
  <2>2. w[k + l + 1] = "event" BY <1>3, <1>6
  <2>3. m = 1 => w[k + l + 1 + 1] = d[1] BY <1>6
  <2>4. k + l + 1 + 1 = k + l + 2 OBVIOUS
  <2> QED BY <1>9, <2>1, <2>2, <2>3, <2>4
<1>11. \A i \in 1 .. l : w[k + i] = b[i] BY <1>6
<1>12. n \in 0 .. k + l + 1 + m /\ done = {w[i] : i \in 1 .. n} BY <1>6
<1>20. /\ "row" \in done <=> k = 1 /\ n > 0
       /\ "final" \in done <=> m = 1 /\ n = k + l + 1 + m
       /\ "event" \in done <=> n >= k + l + 1
       /\ n >= k + l + 1 => \A i \in 1 .. l : w[k + i] \in done
  <2>1. CommitsAre(w, k, l, m) BY <1>7, <1>8, <1>9, <1>10, <1>11 DEF CommitsAre
  <2>2. DoneAfter(n, done, w, k, l, m) BY <1>12, <2>1, WrittenPrefix
  <2> QED BY <2>2, Zenon DEF DoneAfter
<1>26. n >= k + l + 1 => \A i \in 1 .. l : b[i] \in done BY <1>11, <1>20
<1>27. Len(Writes(e)) = k + l + 1 + m BY <1>6
<1>28. n = k + l + 1 + m => "event" \in done /\ n > 0
  <2>1. n = k + l + 1 + m => n >= k + l + 1 /\ n > 0 OBVIOUS
  <2> QED BY <1>20, <2>1
<1>29. "final" \in done => "event" \in done BY <1>20, <1>28
<1>30. "event" \in done => \A i \in 1 .. Len(PayloadsOf(e)) : PayloadsOf(e)[i] \in done
  BY <1>2, <1>6, <1>20, <1>26
<1>31. Len(Writes(e)) \in Nat BY <1>27
<1> QED BY <1>7, <1>9, <1>20, <1>27, <1>28, <1>29, <1>30, <1>31

-----------------------------------------------------------------------------
(* What the handlers of the recorder do to the object and the row           *)

\* The final state is written with the end of a run that is not finished yet.
LEMMA FinalWritesDone ==
    ASSUME NEW e
    PROVE  FinalWrites(e) # <<>> <=> e.event = "run_completed" /\ ~ recorder.finished
<1>1. <<"final">> # <<>> OBVIOUS
<1> QED BY <1>1, Zenon DEF FinalWrites

\* StatusOf is injective where the pages depend on it.
LEMMA StatusOfEnding ==
    ASSUME NEW ending
    PROVE  /\ StatusOf(ending) \in Terminal
           /\ StatusOf(ending) = "succeeded" <=> ending = "completed"
           /\ StatusOf(ending) = "partial" <=> ending = "max_rounds"
           /\ StatusOf(ending) = "cancelled" <=> ending = "cancelled"
BY DEF StatusOf, Terminal

\* The row behind the commits of done.
LEMMA RunAfterIs ==
    ASSUME RunShape, NEW done, NEW rec, NEW status \in Statuses,
           NEW row, row = RunAfter(done, rec, status)
    PROVE  /\ DOMAIN row = DOMAIN run
           /\ row.st \in Statuses
           /\ "final" \notin done => row = IF "row" \in done THEN NewRow ELSE run
           /\ "final" \in done /\ ("row" \in done \/ run.st # "none") =>
                  row.st = status /\ row.error = rec.error
           /\ "row" \notin done /\ run.st = "none" => row = run
<1> PICK blank : blank = NoRow OBVIOUS
<1>1. /\ DOMAIN blank = {"st", "reason", "requests", "tools", "usage", "error"}
      /\ NewRow = [blank EXCEPT !.st = "running"]
  BY DEF NoRow, NewRow
<1>2. DOMAIN NewRow = DOMAIN run /\ NewRow.st = "running" BY <1>1 DEF RunShape
<1> PICK old : old = IF "row" \in done THEN NewRow ELSE run OBVIOUS
<1> PICK ending : ending = [st |-> status, reason |-> "own", requests |-> rec.requests,
                            tools |-> rec.tools, usage |-> rec.usage, error |-> rec.error]
  OBVIOUS
<1>3. row = IF "final" \in done /\ old.st # "none" THEN ending ELSE old
  BY Zenon DEF RunAfter
<1>4. ending.st = status /\ ending.error = rec.error /\ DOMAIN ending = DOMAIN run
  BY DEF RunShape
<1>5. DOMAIN old = DOMAIN run /\ old.st \in Statuses BY <1>2 DEF RunShape, Statuses
<1>6. "row" \in done => old.st = "running" BY <1>2
<1> QED BY <1>3, <1>4, <1>5, <1>6

\* What observe does to the object: created is set, an error is remembered, and
\* it is finished if the last event was stored.
LEMMA ObservedObject ==
    ASSUME RecorderShape, NEW e, NEW n \in 0 .. Len(Writes(e)), Observe(e, n)
    PROVE  /\ RecorderShape'
           /\ recorder'.created
           /\ recorder'.error <=> recorder.error \/ e.event = "error"
           /\ recorder'.finished <=>
                  \/ recorder.finished
                  \/ "event" \in {Writes(e)[i] : i \in 1 .. n} /\ FinalWrites(e) # <<>>
<1> DEFINE finishes == "event" \in {Writes(e)[i] : i \in 1 .. n} /\ FinalWrites(e) # <<>>
<1>1. recorder' = [Counted(e, n) EXCEPT
                      !.finished = @ \/ finishes,
                      !.usage = @ + (IF finishes THEN e.usage ELSE 0)]
  BY Zenon DEF Observe
<1> PICK q, t, u, x : /\ Counted(e, n) = [recorder EXCEPT !.created = TRUE, !.requests = q,
                                           !.tools = t, !.usage = u, !.error = x]
                      /\ x = (recorder.error \/ e.event = "error")
  BY Zenon DEF Counted
<1> PICK counted : counted = Counted(e, n) OBVIOUS
<1>2. /\ DOMAIN counted = DOMAIN recorder /\ counted.created = TRUE
      /\ counted.finished = recorder.finished /\ counted.error = x
  BY DEF RecorderShape
<1> PICK f, v : recorder' = [counted EXCEPT !.finished = f, !.usage = v]
                /\ f = (counted.finished \/ finishes)
  BY <1>1, Zenon
<1>3. /\ DOMAIN recorder' = DOMAIN recorder /\ recorder'.created = TRUE
      /\ recorder'.finished = f /\ recorder'.error = x
  BY <1>2 DEF RecorderShape
<1>4. recorder'.error <=> recorder.error \/ e.event = "error" BY <1>3, Zenon
<1>5. recorder'.finished <=> recorder.finished \/ finishes BY <1>2, <1>3, Zenon
<1>6. RecorderShape' BY <1>3 DEF RecorderShape
<1> QED BY <1>3, <1>4, <1>5, <1>6, Zenon

\* The row is left alone, inserted, or given the end that the event reports, the
\* last only by the event that finishes the object.
Observed(e, all) ==
    /\ RecorderShape' /\ RunShape'
    /\ recorder'.created
    /\ recorder'.error <=> recorder.error \/ e.event = "error"
    /\ recorder.finished => recorder'.finished
    /\ recorder'.finished /\ ~ recorder.finished => e.event = "run_completed"
    /\ \/ run' = run
       \/ ~ recorder.created /\ run'.st = "running"
       \/ /\ e.event = "run_completed" /\ recorder'.finished /\ ~ recorder.finished
          /\ run'.st = StatusOf(e.status)
          /\ run'.error <=> recorder'.error
    /\ all =>
           /\ ~ recorder.created => run'.st # "none"
           /\ e.event = "run_completed" => recorder'.finished
           /\ e.event = "run_completed" /\ ~ recorder.finished =>
                  run'.st = IF recorder.created /\ run.st = "none" THEN "none"
                            ELSE StatusOf(e.status)

\* observe does to the object and the row what Observed says (recorder.py).
LEMMA ObserveEffect ==
    ASSUME RecorderShape, RunShape, NEW e, NEW n \in 0 .. Len(Writes(e)), Observe(e, n)
    PROVE  Observed(e, n = Len(Writes(e)))
<1> PICK done : done = {Writes(e)[i] : i \in 1 .. n} OBVIOUS
<1> PICK all \in BOOLEAN : all <=> n = Len(Writes(e)) OBVIOUS
<1>1. /\ RecorderShape' /\ recorder'.created
      /\ recorder'.error <=> recorder.error \/ e.event = "error"
      /\ recorder'.finished <=> recorder.finished \/ ("event" \in done /\ FinalWrites(e) # <<>>)
  <2>1. /\ RecorderShape' /\ recorder'.created
        /\ recorder'.error <=> recorder.error \/ e.event = "error"
        /\ recorder'.finished <=>
               \/ recorder.finished
               \/ "event" \in {Writes(e)[i] : i \in 1 .. n} /\ FinalWrites(e) # <<>>
    BY ObservedObject
  <2>2. {Writes(e)[i] : i \in 1 .. n} = done OBVIOUS
  <2> QED BY <2>1, <2>2
<1>2. FinalWrites(e) # <<>> <=> e.event = "run_completed" /\ ~ recorder.finished
  BY FinalWritesDone
<1>3. /\ "row" \in done => ~ recorder.created
      /\ all => ("row" \in done <=> ~ recorder.created)
      /\ "final" \in done <=> FinalWrites(e) # <<>> /\ all
      /\ all => "event" \in done
  <2>1. recorder.created \in BOOLEAN BY DEF RecorderShape
  <2>2. /\ "row" \in done <=> ~ recorder.created /\ n > 0
        /\ "final" \in done <=> FinalWrites(e) # <<>> /\ n = Len(Writes(e))
        /\ n = Len(Writes(e)) => "event" \in done
        /\ n = Len(Writes(e)) => n > 0
    BY <2>1, Written, Zenon
  <2> QED BY <2>2, Zenon
<1> PICK status : status = StatusOf(e.status) OBVIOUS
<1> status \in Statuses BY StatusOfEnding DEF Statuses
<1> PICK rec : run' = RunAfter(done, rec, status) /\ rec = recorder' BY Zenon DEF Observe
<1>4. /\ DOMAIN run' = DOMAIN run /\ run'.st \in Statuses
      /\ "final" \notin done => run' = IF "row" \in done THEN NewRow ELSE run
      /\ "final" \in done /\ ("row" \in done \/ run.st # "none") =>
             run'.st = status /\ run'.error = recorder'.error
      /\ "row" \notin done /\ run.st = "none" => run' = run
  BY RunAfterIs
<1>5. NewRow.st = "running"
  <2> PICK blank : blank = NoRow OBVIOUS
  <2>1. "st" \in DOMAIN blank /\ NewRow = [blank EXCEPT !.st = "running"] BY DEF NoRow, NewRow
  <2> QED BY <2>1
<1>6. RunShape' BY <1>4 DEF RunShape
<1>7. "running" # "none" /\ status # "none" BY StatusOfEnding DEF Terminal
<1>8. CASE "final" \notin done
  <2>1. run' = run \/ (~ recorder.created /\ run'.st = "running") BY <1>3, <1>4, <1>5, <1>8
  <2>2. all => (~ recorder.created => run'.st # "none")
    BY <1>3, <1>4, <1>5, <1>7, <1>8, Zenon
  <2>3. ASSUME all, e.event = "run_completed" PROVE recorder'.finished
    <3>1. "event" \in done BY <1>3, <2>3, Zenon
    <3>2. FinalWrites(e) # <<>> \/ recorder.finished BY <1>2, <2>3, Zenon
    <3> QED BY <1>1, <3>1, <3>2, Zenon
  <2>4. ~ (all /\ e.event = "run_completed" /\ ~ recorder.finished)
    BY <1>2, <1>3, <1>8, Zenon
  <2>5. recorder.finished => recorder'.finished BY <1>1, Zenon
  <2>6. recorder'.finished /\ ~ recorder.finished => e.event = "run_completed"
    BY <1>1, <1>2, Zenon
  <2> QED BY <1>1, <1>6, <2>1, <2>2, <2>3, <2>4, <2>5, <2>6, Zenon DEF Observed
<1>9. CASE "final" \in done
  <2>1. all /\ e.event = "run_completed" /\ ~ recorder.finished BY <1>2, <1>3, <1>9, Zenon
  <2>2. recorder'.finished BY <1>1, <1>2, <1>3, <2>1, Zenon
  <2>3. "row" \in done <=> ~ recorder.created BY <1>3, <2>1, Zenon
  <2>4. CASE recorder.created /\ run.st = "none"
    <3>1. run' = run BY <1>4, <2>3, <2>4, Zenon
    <3>2. run'.st = "none" BY <2>4, <3>1
    <3> QED BY <1>1, <1>6, <2>1, <2>2, <2>4, <3>1, <3>2, Zenon DEF Observed
  <2>5. CASE ~ (recorder.created /\ run.st = "none")
    <3>1. run'.st = status /\ (run'.error <=> recorder'.error) BY <1>4, <1>9, <2>3, <2>5, Zenon
    <3>2. run'.st # "none" BY <1>7, <3>1
    <3> QED BY <1>1, <1>6, <2>1, <2>2, <2>5, <3>1, <3>2, Zenon DEF Observed
  <2> QED BY <2>4, <2>5, Zenon
<1> QED BY <1>8, <1>9, Zenon

\* finish and close of an object that is not finished.
Finished(status, all) ==
    /\ RecorderShape' /\ RunShape'
    /\ recorder'.created /\ recorder'.finished
    /\ recorder'.error <=> recorder.error
    /\ \/ run' = run
       \/ ~ recorder.created /\ run'.st = "running"
       \/ run'.st = status /\ (run'.error <=> status = "failed")
    /\ all => run'.st = IF recorder.created /\ run.st = "none" THEN "none" ELSE status

\* finish and close do what Finished says (recorder.py).
LEMMA FinishEffect ==
    ASSUME RecorderShape, RunShape, ~ recorder.finished,
           NEW status \in {"failed", "cancelled"},
           NEW n \in 0 .. Len(FinishWrites), Finish(status, n)
    PROVE  Finished(status, n = Len(FinishWrites)) /\ Len(FinishWrites) \in Nat
<1> PICK w : w = FinishWrites OBVIOUS
<1> PICK done : done = {w[i] : i \in 1 .. n} OBVIOUS
<1> PICK all \in BOOLEAN : all <=> n = Len(w) OBVIOUS
<1>1. w = IF recorder.created THEN <<"final">> ELSE <<"row", "final">>
  BY Zenon DEF FinishWrites
<1> PICK rec : /\ run' = RunAfter(done, rec, status) /\ rec.error = (status = "failed")
               /\ recorder' = [recorder EXCEPT !.created = TRUE, !.finished = TRUE]
  <2> PICK failed : failed = (status = "failed") OBVIOUS
  <2>1. /\ run' = RunAfter({FinishWrites[i] : i \in 1 .. n},
                           [recorder EXCEPT !.error = failed], status)
        /\ recorder' = [recorder EXCEPT !.created = TRUE, !.finished = TRUE]
    BY Zenon DEF Finish
  <2>3. {FinishWrites[i] : i \in 1 .. n} = done OBVIOUS
  <2>2. [recorder EXCEPT !.error = failed].error = failed BY DEF RecorderShape
  <2> QED BY <2>1, <2>2, <2>3, Zenon
<1>2. /\ DOMAIN recorder' = DOMAIN recorder
      /\ recorder'.created = TRUE /\ recorder'.finished = TRUE
      /\ recorder'.error = recorder.error
  BY DEF RecorderShape
<1>3. RecorderShape' /\ recorder'.created /\ recorder'.finished
      /\ (recorder'.error <=> recorder.error)
  BY <1>2 DEF RecorderShape
<1>4. status \in Statuses BY DEF Statuses, Terminal
<1>5. /\ DOMAIN run' = DOMAIN run /\ run'.st \in Statuses
      /\ "final" \notin done => run' = IF "row" \in done THEN NewRow ELSE run
      /\ "final" \in done /\ ("row" \in done \/ run.st # "none") =>
             run'.st = status /\ run'.error = rec.error
      /\ "row" \notin done /\ run.st = "none" => run' = run
  BY <1>4, RunAfterIs
<1>6. RunShape' BY <1>5 DEF RunShape
<1>7. /\ Len(w) \in Nat
      /\ all => "final" \in done
      /\ "row" \in done => ~ recorder.created
      /\ "final" \in done => ("row" \in done <=> ~ recorder.created)
  <2>1. CASE recorder.created
    <3>1. w = <<"final">> BY <1>1, <2>1, Zenon
    <3>2. Len(w) = 1 /\ w[1] = "final" BY <3>1
    <3> QED BY <2>1, <3>2
  <2>2. CASE ~ recorder.created
    <3>1. w = <<"row", "final">> BY <1>1, <2>2, Zenon
    <3>2. Len(w) = 2 /\ w[1] = "row" /\ w[2] = "final" BY <3>1
    <3>3. "final" \in done => 1 \in 1 .. n BY <3>2
    <3>4. all => 2 \in 1 .. n BY <3>2
    <3> QED BY <2>2, <3>2, <3>3, <3>4
  <2> QED BY <2>1, <2>2, Zenon
<1>8. NewRow.st = "running"
  <2> PICK blank : blank = NoRow OBVIOUS
  <2>1. "st" \in DOMAIN blank /\ NewRow = [blank EXCEPT !.st = "running"] BY DEF NoRow, NewRow
  <2> QED BY <2>1
<1>9. CASE "final" \notin done
  <2>1. run' = run \/ (~ recorder.created /\ run'.st = "running") BY <1>5, <1>7, <1>8, <1>9
  <2>2. ~ all BY <1>7, <1>9, Zenon
  <2> QED BY <1>3, <1>6, <1>7, <2>1, <2>2, Zenon DEF Finished
<1>10. CASE "final" \in done
  <2>1. CASE recorder.created /\ run.st = "none"
    <3>1. run' = run /\ run'.st = "none" BY <1>5, <1>7, <1>10, <2>1, Zenon
    <3> QED BY <1>3, <1>6, <1>7, <2>1, <3>1, Zenon DEF Finished
  <2>2. CASE ~ (recorder.created /\ run.st = "none")
    <3>1. run'.st = status /\ (run'.error <=> status = "failed")
      BY <1>5, <1>7, <1>10, <2>2, Zenon
    <3> QED BY <1>3, <1>6, <1>7, <2>2, <3>1, Zenon DEF Finished
  <2> QED BY <2>1, <2>2, Zenon
<1> QED BY <1>9, <1>10, Zenon

-----------------------------------------------------------------------------
(* The inductive invariant                                                  *)

\* Before the run there is nothing; inside the loop no error was seen, and the
\* ways behind it are only taken with the events that lead there.
PlaceOfRun ==
    /\ pc = "idle" => recorder = NewRecorder /\ run = NoRow /\ stream = <<>>
    /\ pc = "loop" => ~ recorder.error /\ LastKind \notin {"error", "run_completed"}
    /\ pc = "closing" => LastKind \in {"error", "run_completed"}
    /\ pc \in {"final", "ended"} => LastKind = "run_completed"

\* What the recorder remembers of a run that goes on.
RecorderRemembers ==
    pc \in Working =>
        /\ LastKind = "error" => recorder.error
        /\ recorder.finished => LastKind = "run_completed"
        /\ LastKind = "run_completed" /\ faults = 0 => recorder.finished
        /\ ~ recorder.created => run.st = "none"
        /\ run.st \in Terminal => recorder.finished

\* What it says was written, was written, unless a commit failed.
RecorderWrote ==
    /\ recorder.finished => recorder.created
    /\ recorder.finished /\ run.st = "running" => faults > 0
    /\ recorder.created /\ faults = 0 => run.st # "none"

RowIsHonest ==
    /\ run.st = "succeeded" => Completed("completed")
    /\ run.st = "partial" => Completed("max_rounds")
    /\ run.st = "cancelled" => Completed("cancelled") \/ pc = "cancelled"
    /\ run.st \in Terminal => (run.error <=> run.st = "failed")
    /\ pc \in Working \cup {"ended"} /\ LastKind = "run_completed" /\ faults = 0 =>
           run.st = StatusOf(Last(stream).status)

RecordInv ==
    /\ Shape
    /\ PlaceOfRun
    /\ RecorderRemembers
    /\ RecorderWrote
    /\ RowIsHonest
    /\ RunningRowIsExplained


\* Nothing of it depends on the other variables.
LEMMA RecordInvStutters ==
    ASSUME RecordInv, UNCHANGED <<recorder, run, pc, stream, faults>>
    PROVE  RecordInv'
<1>1. Shape' BY Zenon DEF RecordInv, Shape, RecorderShape, RunShape, StreamShape
<1>2. LastKind' = LastKind /\ (\A status : Completed(status)' <=> Completed(status))
  BY Zenon DEF LastKind, Completed
<1>3. PlaceOfRun' BY <1>2 DEF RecordInv, PlaceOfRun
<1>4. RecorderRemembers' BY <1>2 DEF RecordInv, RecorderRemembers
<1>5. RecorderWrote' BY DEF RecordInv, RecorderWrote
<1>6. Last(stream') = Last(stream) BY Zenon
<1>7. RowIsHonest' BY <1>2, <1>6 DEF RecordInv, RowIsHonest
<1>8. RunningRowIsExplained' BY DEF RecordInv, RunningRowIsExplained
<1> QED BY <1>1, <1>3, <1>4, <1>5, <1>7, <1>8 DEF RecordInv

\* The commits of one handler: all of them, or one has failed.
LEMMA CommitsCounted ==
    ASSUME faults \in Nat, NEW all \in Nat, NEW n, Commits(n, all)
    PROVE  /\ n \in 0 .. all
           /\ faults' \in Nat
           /\ n = all => faults' = faults
           /\ n # all => faults' > 0
           /\ faults' = 0 => faults = 0
           /\ faults > 0 => faults' > 0
BY DEF Commits

\* An event is yielded: it is behind the others, and the recorder has seen it.
LEMMA YieldEffect ==
    ASSUME Shape, NEW e, Yield(e)
    PROVE  /\ StreamShape' /\ Last(stream') = e /\ LastKind' = e.event
           /\ faults' \in Nat
           /\ \E all \in BOOLEAN :
                 /\ Observed(e, all)
                 /\ all => faults' = faults
                 /\ ~ all => faults' > 0
                 /\ faults > 0 => faults' > 0
<1>1. StreamShape' /\ Last(stream') = e /\ LastKind' = e.event
  <2>1. PICK S : stream \in Seq(S) BY DEF Shape, StreamShape
  <2>2. stream' = Append(stream, e) BY DEF Yield
  <2>3. stream' \in Seq(S \cup {e}) /\ stream' # <<>> /\ stream'[Len(stream')] = e
    BY <2>1, <2>2
  <2> QED BY <2>3, Zenon DEF StreamShape, Last, LastKind
<1>2. recorder.created \in BOOLEAN /\ faults \in Nat BY DEF Shape, RecorderShape
<1>3. PICK n \in 0 .. Len(Writes(e)) : Commits(n, Len(Writes(e))) /\ Observe(e, n)
  BY Zenon DEF Yield
<1>4. Len(Writes(e)) \in Nat
  <2> PICK done : done = {Writes(e)[i] : i \in 1 .. n} OBVIOUS
  <2> QED BY <1>2, Written
<1>5. Observed(e, n = Len(Writes(e))) BY <1>3, ObserveEffect DEF Shape
<1>6. /\ faults' \in Nat
      /\ n = Len(Writes(e)) => faults' = faults
      /\ n # Len(Writes(e)) => faults' > 0
      /\ faults > 0 => faults' > 0
  BY <1>2, <1>3, <1>4, CommitsCounted
<1> PICK all \in BOOLEAN : all = (n = Len(Writes(e))) OBVIOUS
<1>7. Observed(e, all) BY <1>5, Zenon
<1> QED BY <1>1, <1>6, <1>7, Zenon

\* The same for the end of the record.
LEMMA FinishRecorderEffect ==
    ASSUME Shape, NEW status \in {"failed", "cancelled"}, FinishRecorder(status)
    PROVE  /\ faults' \in Nat
           /\ faults > 0 => faults' > 0
           /\ recorder.finished => UNCHANGED <<recorder, run, faults>>
           /\ ~ recorder.finished =>
                  \E all \in BOOLEAN :
                      /\ Finished(status, all)
                      /\ all => faults' = faults
                      /\ ~ all => faults' > 0
<1>1. PICK n \in 0 .. Len(FinishWrites) : Commits(n, Len(FinishWrites)) /\ Finish(status, n)
  BY Zenon DEF FinishRecorder
<1>2. faults \in Nat BY DEF Shape
<1>3. CASE recorder.finished
  <2>1. FinishWrites = <<>> BY <1>3, Zenon DEF FinishWrites
  <2>2. Len(FinishWrites) = 0 BY <2>1
  <2>3. UNCHANGED <<recorder, run>> BY <1>1, <1>3, Zenon DEF Finish, recordVars
  <2>4. faults' \in Nat /\ faults' = faults BY <1>1, <1>2, <2>2, CommitsCounted
  <2> QED BY <1>3, <2>3, <2>4
<1>4. CASE ~ recorder.finished
  <2>1. Finished(status, n = Len(FinishWrites)) /\ Len(FinishWrites) \in Nat
    BY <1>1, <1>4, FinishEffect DEF Shape
  <2>2. /\ faults' \in Nat
        /\ n = Len(FinishWrites) => faults' = faults
        /\ n # Len(FinishWrites) => faults' > 0
        /\ faults > 0 => faults' > 0
    BY <1>1, <1>2, <2>1, CommitsCounted
  <2> PICK all \in BOOLEAN : all = (n = Len(FinishWrites)) OBVIOUS
  <2>3. Finished(status, all) BY <2>1, Zenon
  <2> QED BY <1>4, <2>2, <2>3, Zenon
<1> QED BY <1>3, <1>4

\* An event before the end is reported, of the loop or by execute_run.
LEMMA YieldKeepsRecordInv ==
    ASSUME RecordInv, pc \in {"loop", "closing"}, LastKind # "run_completed",
           NEW e, Yield(e), pc' \in {"loop", "closing", "final"},
           pc' = "loop" => pc = "loop" /\ e.event \notin {"error", "run_completed"},
           pc' = "closing" => e.event \in {"error", "run_completed"},
           pc' = "final" => e.event = "run_completed",
           e.event = "run_completed" => (StatusOf(e.status) = "failed" <=> recorder.error)
    PROVE  RecordInv' /\ run.st \notin Terminal
<1>1. /\ StreamShape' /\ Last(stream') = e /\ LastKind' = e.event
      /\ faults \in Nat /\ faults' \in Nat
  BY YieldEffect DEF RecordInv, Shape
<1>2. PICK all \in BOOLEAN :
          /\ Observed(e, all)
          /\ all => faults' = faults
          /\ ~ all => faults' > 0
          /\ faults > 0 => faults' > 0
  BY YieldEffect DEF RecordInv
<1>3. faults' = 0 => all /\ faults = 0 BY <1>1, <1>2
<1>4. pc \in Working /\ pc' \in Working BY DEF Working
<1>5. ~ recorder.finished /\ run.st \in {"none", "running"}
  BY <1>4 DEF RecordInv, RecorderRemembers, Shape, RunShape, Statuses
<1>6. /\ RecorderShape' /\ RunShape'
      /\ recorder'.created
      /\ recorder'.error <=> recorder.error \/ e.event = "error"
      /\ recorder'.finished => e.event = "run_completed"
      /\ \/ run'.st = run.st
         \/ run'.st = "running"
         \/ /\ e.event = "run_completed" /\ recorder'.finished
            /\ run'.st = StatusOf(e.status)
            /\ run'.error <=> recorder'.error
      /\ all =>
             /\ ~ recorder.created => run'.st # "none"
             /\ e.event = "run_completed" => recorder'.finished
             /\ e.event = "run_completed" =>
                    run'.st = IF recorder.created /\ run.st = "none" THEN "none"
                              ELSE StatusOf(e.status)
  BY <1>2, <1>5 DEF Observed
<1>7. /\ StatusOf(e.status) \in Terminal
      /\ StatusOf(e.status) = "succeeded" => e.status = "completed"
      /\ StatusOf(e.status) = "partial" => e.status = "max_rounds"
      /\ StatusOf(e.status) = "cancelled" => e.status = "cancelled"
      /\ "none" \notin Terminal /\ "running" \notin Terminal
  BY StatusOfEnding DEF Terminal
<1>8. Shape' BY <1>1, <1>4, <1>6 DEF Shape
<1>9. PlaceOfRun'
  <2>1. pc' = "loop" => ~ recorder.error BY DEF RecordInv, PlaceOfRun
  <2>2. pc' \notin {"idle", "ended"} OBVIOUS
  <2> QED BY <1>1, <1>6, <2>1, <2>2 DEF PlaceOfRun
<1>10. recorder'.created /\ faults' = 0 => run'.st # "none"
  <2> SUFFICES ASSUME faults' = 0 PROVE run'.st # "none" OBVIOUS
  <2>1. all /\ faults = 0 BY <1>3
  <2>2. recorder.created => run.st # "none" BY <2>1 DEF RecordInv, RecorderWrote
  <2> QED BY <1>6, <1>7, <2>1, <2>2
<1>11. e.event = "run_completed" /\ faults' = 0 =>
           recorder'.finished /\ run'.st = StatusOf(e.status)
  BY <1>3, <1>6, <1>10
<1>12. recorder'.finished /\ run'.st = "running" => faults' > 0
  BY <1>2, <1>6, <1>7
<1>13. run'.st \in Terminal =>
           /\ e.event = "run_completed" /\ recorder'.finished
           /\ run'.st = StatusOf(e.status) /\ (run'.error <=> recorder.error)
  BY <1>5, <1>6, <1>7
<1>14. RecorderRemembers' BY <1>1, <1>6, <1>11, <1>13 DEF RecorderRemembers
<1>15. RecorderWrote' BY <1>6, <1>10, <1>12 DEF RecorderWrote
<1>16. RowIsHonest'
  <2>1. run'.st \in Terminal => (run'.error <=> run'.st = "failed") BY <1>13
  <2>2. "succeeded" \in Terminal /\ "partial" \in Terminal /\ "cancelled" \in Terminal
    BY DEF Terminal
  <2>3. /\ run'.st = "succeeded" => Completed("completed")'
        /\ run'.st = "partial" => Completed("max_rounds")'
        /\ run'.st = "cancelled" => Completed("cancelled")'
    BY <1>1, <1>7, <1>13, <2>2 DEF Completed
  <2>4. LastKind' = "run_completed" /\ faults' = 0 => run'.st = StatusOf(Last(stream').status)
    BY <1>1, <1>11
  <2> QED BY <2>1, <2>3, <2>4 DEF RowIsHonest
<1>17. RunningRowIsExplained' BY <1>4 DEF RunningRowIsExplained
<1> QED BY <1>5, <1>7, <1>8, <1>9, <1>14, <1>15, <1>16, <1>17 DEF RecordInv

\* finish when the run is left behind (cancelled, or returned).
LEMMA FinishKeepsRecordInv ==
    ASSUME RecordInv, pc \in Working, NEW status \in {"failed", "cancelled"},
           FinishRecorder(status), UNCHANGED stream,
           \/ pc = "final" /\ status = "failed" /\ pc' = "ended"
           \/ status = "cancelled" /\ pc' = "cancelled"
    PROVE  RecordInv' /\ (run.st \in Terminal => run' = run)
<1>1. /\ Shape /\ faults \in Nat
      /\ faults' \in Nat
      /\ faults > 0 => faults' > 0
      /\ recorder.finished => UNCHANGED <<recorder, run, faults>>
  BY FinishRecorderEffect DEF RecordInv, Shape
<1>2. LastKind' = LastKind BY DEF LastKind
<1>3. /\ pc' \in Left /\ pc' \notin Working /\ pc' \notin {"idle", "loop", "closing", "final"}
      /\ pc' \in {"idle", "dead"} \cup Working \cup Left
  BY DEF Left, Working
<1>4. /\ pc' = "ended" => pc = "final" /\ LastKind = "run_completed"
      /\ pc # "cancelled"
  BY DEF RecordInv, PlaceOfRun, Working
<1>5. /\ "running" \notin Terminal /\ "none" \notin Terminal
      /\ "failed" \in Terminal /\ "cancelled" \in Terminal
  BY DEF Terminal
<1>6. PlaceOfRun' /\ RecorderRemembers'
  BY <1>2, <1>3, <1>4 DEF PlaceOfRun, RecorderRemembers
<1>7. pc' = "ended" /\ faults = 0 => recorder.finished
  BY <1>4 DEF RecordInv, RecorderRemembers
<1>8. CASE recorder.finished
  <2>1. UNCHANGED <<recorder, run, faults>> BY <1>1, <1>8
  <2>2. Shape' BY <1>1, <1>3, <2>1, Zenon DEF Shape, RecorderShape, RunShape, StreamShape
  <2>3. RecorderWrote' BY <2>1 DEF RecordInv, RecorderWrote
  <2>4. RowIsHonest'
    <3>1. /\ run.st = "succeeded" => Completed("completed")
          /\ run.st = "partial" => Completed("max_rounds")
          /\ run.st = "cancelled" => Completed("cancelled")
          /\ run.st \in Terminal => (run.error <=> run.st = "failed")
          /\ LastKind = "run_completed" /\ faults = 0 => run.st = StatusOf(Last(stream).status)
      BY <1>4 DEF RecordInv, RowIsHonest
    <3> QED BY <1>2, <2>1, <3>1, Zenon DEF RowIsHonest, Completed
  <2>5. RunningRowIsExplained'
    <3>1. run.st = "running" => faults > 0 BY <1>8 DEF RecordInv, RecorderWrote
    <3> QED BY <1>3, <2>1, <3>1 DEF RunningRowIsExplained
  <2> QED BY <1>6, <2>1, <2>2, <2>3, <2>4, <2>5 DEF RecordInv
<1>9. CASE ~ recorder.finished
  <2>1. run.st \in {"none", "running"}
    BY <1>9 DEF RecordInv, RecorderRemembers, Shape, RunShape, Statuses
  <2>2. PICK all \in BOOLEAN :
            /\ Finished(status, all)
            /\ all => faults' = faults
            /\ ~ all => faults' > 0
    BY <1>1, <1>9, FinishRecorderEffect
  <2>3. /\ RecorderShape' /\ RunShape'
        /\ recorder'.created /\ recorder'.finished
        /\ \/ run'.st = run.st
           \/ run'.st = "running"
           \/ run'.st = status /\ (run'.error <=> status = "failed")
        /\ all => run'.st = IF recorder.created /\ run.st = "none" THEN "none" ELSE status
    BY <2>2 DEF Finished
  <2>4. faults' = 0 => all /\ faults = 0 BY <1>1, <2>2
  <2>5. Shape' BY <1>1, <1>3, <2>3, Zenon DEF Shape, StreamShape
  <2>6. RecorderWrote'
    <3>1. run'.st = "running" => faults' > 0 BY <1>1, <1>5, <2>2, <2>3
    <3>2. faults' = 0 => run'.st # "none"
      <4>1. faults' = 0 => (recorder.created => run.st # "none")
        BY <2>4 DEF RecordInv, RecorderWrote
      <4> QED BY <1>5, <2>3, <2>4, <4>1
    <3> QED BY <2>3, <3>1, <3>2 DEF RecorderWrote
  <2>7. RowIsHonest'
    <3>1. run'.st \notin {"succeeded", "partial"} BY <2>1, <2>3
    <3>2. run'.st = "cancelled" => pc' = "cancelled" BY <2>1, <2>3
    <3>3. run'.st \in Terminal => (run'.error <=> run'.st = "failed")
      BY <1>5, <2>1, <2>3
    <3>4. ~ (pc' = "ended" /\ faults' = 0) BY <1>7, <1>9, <2>4
    <3> QED BY <1>3, <3>1, <3>2, <3>3, <3>4 DEF RowIsHonest
  <2>8. RunningRowIsExplained'
    <3>1. run'.st = "running" => faults' > 0 BY <1>1, <1>5, <2>2, <2>3
    <3> QED BY <1>3, <3>1 DEF RunningRowIsExplained
  <2>9. run.st \notin Terminal BY <1>5, <2>1
  <2> QED BY <1>6, <2>5, <2>6, <2>7, <2>8, <2>9 DEF RecordInv
<1> QED BY <1>8, <1>9

\* The row of a run whose place alone changes.
LEMMA MoveKeepsRecordInv ==
    ASSUME RecordInv, UNCHANGED <<recorder, run, stream, faults>>,
           \/ pc = "idle" /\ pc' = "loop"
           \/ pc = "closing" /\ LastKind = "run_completed" /\ pc' = "final"
           \/ pc \in Working /\ pc' \in {"cut", "raised"}
    PROVE  RecordInv'
<1>1. LastKind' = LastKind /\ (\A status : Completed(status)' <=> Completed(status))
  BY Zenon DEF LastKind, Completed
<1>2. pc' \in {"idle", "dead"} \cup Working \cup Left /\ pc' \notin {"idle", "closing", "ended"}
      /\ (pc' \in Working => pc' \in {"loop", "final"})
      /\ (pc' \in Working \/ pc' \in {"raised", "cut"})
  BY DEF Working, Left
<1>3. Shape' BY <1>2, Zenon DEF RecordInv, Shape, RecorderShape, RunShape, StreamShape
<1>4. CASE pc = "idle"
  <2>1. /\ recorder = NewRecorder /\ run = NoRow /\ stream = <<>> BY <1>4 DEF RecordInv, PlaceOfRun
  <2>2. /\ ~ recorder.created /\ ~ recorder.finished /\ ~ recorder.error /\ run.st = "none"
    BY <2>1 DEF NewRecorder, NoRow
  <2>3. LastKind = "none" BY <2>1 DEF LastKind
  <2>4. pc' = "loop" /\ pc' \in Working BY <1>4 DEF Working
  <2>5. PlaceOfRun' BY <1>1, <2>2, <2>3, <2>4 DEF PlaceOfRun
  <2>6. RecorderRemembers' BY <1>1, <2>2, <2>3 DEF RecorderRemembers, Terminal
  <2>7. RecorderWrote' BY <2>2 DEF RecorderWrote
  <2>8. RowIsHonest' BY <1>1, <2>2, <2>3 DEF RowIsHonest, Terminal
  <2>9. RunningRowIsExplained' BY <2>2 DEF RunningRowIsExplained
  <2> QED BY <1>3, <2>5, <2>6, <2>7, <2>8, <2>9 DEF RecordInv
<1>5. CASE pc # "idle"
  <2>1. pc \in Working BY <1>5 DEF Working
  <2>2. PlaceOfRun' BY <1>1, <1>2, <1>5 DEF PlaceOfRun
  <2>3. RecorderRemembers' BY <1>1, <2>1 DEF RecordInv, RecorderRemembers
  <2>4. RecorderWrote' BY DEF RecordInv, RecorderWrote
  <2>5. RowIsHonest'
    <3>1. /\ run.st = "succeeded" => Completed("completed")
          /\ run.st = "partial" => Completed("max_rounds")
          /\ run.st = "cancelled" => Completed("cancelled")
          /\ run.st \in Terminal => (run.error <=> run.st = "failed")
          /\ LastKind = "run_completed" /\ faults = 0 => run.st = StatusOf(Last(stream).status)
      <4>1. pc # "cancelled" BY <2>1 DEF Working
      <4> QED BY <2>1, <4>1 DEF RecordInv, RowIsHonest
    <3> QED BY <1>1, <3>1, Zenon DEF RowIsHonest
  <2>6. RunningRowIsExplained' BY <1>2 DEF RunningRowIsExplained
  <2> QED BY <1>3, <2>2, <2>3, <2>4, <2>5, <2>6 DEF RecordInv
<1> QED BY <1>4, <1>5

\* An event of the loop.
LEMMA LoopKeepsRecordInv ==
    ASSUME RecordInv, NEW kind, LoopYields(kind)
    PROVE  RecordInv' /\ (run.st \in Terminal => run' = run)
<1>1. PICK e : /\ e.event = kind /\ Yield(e)
               /\ kind = "run_completed" => e.status \in {"max_rounds", "cancelled", "completed"}
  <2>1. PICK number \in Numbers(kind), v \in Variants(kind) :
            Yield(Event(kind, number, v.status, v.usage, v.output))
    BY Zenon DEF LoopYields
  <2> PICK e : e = Event(kind, number, v.status, v.usage, v.output) OBVIOUS
  <2>2. e.event = kind /\ e.status = v.status BY DEF Event
  <2>3. ASSUME kind = "run_completed" PROVE v.status \in {"max_rounds", "cancelled", "completed"}
    <3> PICK S : /\ S \subseteq {"max_rounds", "cancelled", "completed"}
                 /\ Variants("run_completed") = [status : S, usage : {UsageTotal}, output : {FALSE}]
      BY Zenon DEF Variants
    <3>1. v \in [status : S, usage : {UsageTotal}, output : {FALSE}] BY <2>3, Zenon
    <3>2. v.status \in S BY <3>1
    <3> QED BY <3>2
  <2> QED BY <2>1, <2>2, <2>3
<1>2. /\ pc = "loop" /\ LastKind # "run_completed"
      /\ pc' = IF kind \in {"error", "run_completed"} THEN "closing" ELSE "loop"
      /\ ~ recorder.error
  BY DEF LoopYields, RecordInv, PlaceOfRun
<1>3. kind = "run_completed" => StatusOf(e.status) # "failed"
  BY <1>1 DEF StatusOf
<1>4. RecordInv' /\ run.st \notin Terminal
  <2>1. /\ pc \in {"loop", "closing"} /\ pc' \in {"loop", "closing", "final"}
        /\ pc' = "loop" => pc = "loop" /\ e.event \notin {"error", "run_completed"}
        /\ pc' = "closing" => e.event \in {"error", "run_completed"}
        /\ pc' = "final" => e.event = "run_completed"
        /\ e.event = "run_completed" => (StatusOf(e.status) = "failed" <=> recorder.error)
    BY <1>1, <1>2, <1>3
  <2> QED BY <1>1, <1>2, <2>1, YieldKeepsRecordInv
<1> QED BY <1>4

\* The end of the clean-up; a failed run gets its run_completed there.
LEMMA CloseKeepsRecordInv ==
    ASSUME RecordInv, Close
    PROVE  RecordInv' /\ (run.st \in Terminal => run' = run)
<1>1. pc = "closing" /\ pc' = "final" BY DEF Close
<1>2. CASE LastKind = "run_completed"
  <2>1. UNCHANGED <<recorder, run, stream, faults>> BY <1>2, Zenon DEF Close, recordVars
  <2> QED BY <1>1, <1>2, <2>1, MoveKeepsRecordInv
<1>3. CASE LastKind # "run_completed"
  <2>1. PICK e : Yield(e) /\ e = Event("run_completed", seq + 1, "error", UsageTotal, FALSE)
    BY <1>3, Zenon DEF Close
  <2>2. e.event = "run_completed" /\ e.status = "error" BY <2>1 DEF Event
  <2>3. StatusOf(e.status) = "failed" BY <2>2 DEF StatusOf
  <2>4. recorder.error
    BY <1>1, <1>3 DEF RecordInv, PlaceOfRun, RecorderRemembers, Working
  <2> QED BY <1>1, <1>3, <2>1, <2>2, <2>3, <2>4, YieldKeepsRecordInv
<1> QED BY <1>2, <1>3

\* The next process: the object is gone, an open row is closed.
LEMMA RestartKeepsRecordInv ==
    ASSUME RecordInv, Restart
    PROVE  RecordInv' /\ (run.st \in Terminal => run' = run)
<1>1. /\ recorder' = NewRecorder
      /\ run' = IF run.st = "running"
                THEN [run EXCEPT !.st = "failed", !.reason = "interrupted", !.error = TRUE]
                ELSE run
      /\ pc' = IF pc \in Working THEN "dead" ELSE pc
      /\ UNCHANGED <<stream, faults>>
  BY DEF Restart, MarkInterrupted, Interrupted
<1>2. /\ DOMAIN recorder' = {"created", "finished", "requests", "tools", "usage", "error"}
      /\ recorder'.created = FALSE /\ ~ recorder'.finished
  BY <1>1 DEF NewRecorder
<1>3. /\ DOMAIN run' = DOMAIN run
      /\ run.st = "running" => run'.st = "failed" /\ run'.error = TRUE
      /\ run.st # "running" => run' = run
  BY <1>1 DEF RecordInv, Shape, RunShape
<1>4. "failed" \in Terminal /\ "running" \notin Terminal BY DEF Terminal
<1>5. Shape'
  <2>1. RecorderShape' BY <1>2 DEF RecorderShape
  <2>2. RunShape' BY <1>3, <1>4 DEF RecordInv, Shape, RunShape, Statuses
  <2>3. StreamShape' BY <1>1, Zenon DEF RecordInv, Shape, StreamShape
  <2> QED BY <1>1, <2>1, <2>2, <2>3 DEF RecordInv, Shape
<1>6. LastKind' = LastKind /\ (\A status : Completed(status)' <=> Completed(status))
  BY <1>1, Zenon DEF LastKind, Completed
<1>7. pc' \notin Working BY <1>1 DEF Working
<1>8. PlaceOfRun'
  <2>1. pc' = "idle" => pc = "idle" /\ run.st # "running"
    <3>1. pc' = "idle" => pc = "idle" BY <1>1
    <3>2. pc = "idle" => run.st # "running"
      <4>1. pc = "idle" => run = NoRow BY DEF RecordInv, PlaceOfRun
      <4>2. NoRow.st = "none" BY DEF NoRow
      <4> QED BY <4>1, <4>2
    <3> QED BY <3>1, <3>2
  <2>2. pc' = "idle" => recorder' = NewRecorder /\ run' = NoRow /\ stream' = <<>>
    BY <1>1, <1>3, <2>1 DEF RecordInv, PlaceOfRun
  <2>3. pc' = "ended" => LastKind = "run_completed" BY <1>1 DEF RecordInv, PlaceOfRun
  <2>4. pc' \notin {"loop", "closing", "final"} BY <1>7 DEF Working
  <2> QED BY <1>6, <2>2, <2>3, <2>4 DEF PlaceOfRun
<1>9. RecorderRemembers' BY <1>7 DEF RecorderRemembers
<1>10. RecorderWrote' BY <1>2 DEF RecorderWrote
<1>11. run'.st # "running" BY <1>3
<1>12. RowIsHonest'
  <2>1. CASE run.st = "running"
    <3>1. ~ (pc = "ended" /\ LastKind = "run_completed" /\ faults = 0)
      <4>1. StatusOf(Last(stream).status) # "running" BY <1>4, StatusOfEnding
      <4> QED BY <2>1, <4>1 DEF RecordInv, RowIsHonest
    <3>2. pc' = "ended" => pc = "ended" BY <1>1
    <3> QED BY <1>1, <1>3, <1>6, <1>7, <2>1, <3>1, <3>2 DEF RowIsHonest
  <2>2. CASE run.st # "running"
    <3>1. /\ run.st = "succeeded" => Completed("completed")
          /\ run.st = "partial" => Completed("max_rounds")
          /\ run.st = "cancelled" => Completed("cancelled") \/ pc = "cancelled"
          /\ run.st \in Terminal => (run.error <=> run.st = "failed")
          /\ pc = "ended" /\ LastKind = "run_completed" /\ faults = 0 =>
                 run.st = StatusOf(Last(stream).status)
      BY DEF RecordInv, RowIsHonest
    <3>2. run' = run BY <1>3, <2>2
    <3>3. (pc' = "ended" => pc = "ended") /\ (pc = "cancelled" => pc' = "cancelled")
      BY <1>1 DEF Working
    <3>4. Last(stream') = Last(stream) BY <1>1, Zenon
    <3> QED BY <1>1, <1>6, <1>7, <3>1, <3>2, <3>3, <3>4, Zenon DEF RowIsHonest
  <2> QED BY <2>1, <2>2
<1>13. RunningRowIsExplained' BY <1>11 DEF RunningRowIsExplained
<1>14. run.st \in Terminal => run' = run BY <1>3, <1>4
<1> QED BY <1>5, <1>8, <1>9, <1>10, <1>12, <1>13, <1>14 DEF RecordInv

\* Nothing is recorded before the run.
LEMMA RecordInvInit == Init => RecordInv
<1> SUFFICES ASSUME Init PROVE RecordInv OBVIOUS
<1>1. /\ pc = "idle" /\ stream = <<>> /\ faults = 0 /\ recorder = NewRecorder /\ run = NoRow
  BY DEF Init, RecorderInit
<1>2. /\ DOMAIN recorder = {"created", "finished", "requests", "tools", "usage", "error"}
      /\ recorder.created = FALSE /\ ~ recorder.finished
      /\ DOMAIN run = {"st", "reason", "requests", "tools", "usage", "error"}
      /\ run.st = "none"
  BY <1>1 DEF NewRecorder, NoRow
<1>3. StreamShape
  <2>1. stream \in Seq({}) BY <1>1
  <2> QED BY <2>1, Zenon DEF StreamShape
<1>4. pc \notin Working /\ LastKind = "none" BY <1>1 DEF Working, LastKind
<1>5. Shape BY <1>1, <1>2, <1>3 DEF Shape, RecorderShape, RunShape, Statuses
<1> QED BY <1>1, <1>2, <1>4, <1>5
     DEF RecordInv, PlaceOfRun, RecorderRemembers, RecorderWrote, RowIsHonest,
         RunningRowIsExplained, Terminal

\* Every step keeps the invariant, and the row once it shows an end.
LEMMA RecordInvStep ==
    RecordInv /\ [Next]_vars => RecordInv' /\ (run.st \in Terminal => run' = run)
<1> SUFFICES ASSUME RecordInv, [Next]_vars
             PROVE  RecordInv' /\ (run.st \in Terminal => run' = run)
  OBVIOUS
<1>1. CASE UNCHANGED <<recorder, run, pc, stream, faults>> BY <1>1, RecordInvStutters
<1>2. CASE Begin
  <2>1. pc = "idle" /\ pc' = "loop" /\ UNCHANGED <<recorder, run, stream, faults>>
    BY <1>2, Zenon DEF Begin, recordVars, bounds
  <2> QED BY <2>1, MoveKeepsRecordInv
<1>3. ASSUME NEW kind, LoopYields(kind) PROVE RecordInv' /\ (run.st \in Terminal => run' = run)
  BY <1>3, LoopKeepsRecordInv
<1>4. CASE Close BY <1>4, CloseKeepsRecordInv
<1>5. CASE CloseRecorder
  <2>1. /\ pc = "final" /\ pc' = "ended" /\ FinishRecorder("failed") /\ UNCHANGED stream
        /\ pc \in Working
    BY <1>5 DEF CloseRecorder, Working
  <2> QED BY <2>1, FinishKeepsRecordInv
<1>6. CASE Cancel
  <2>1. /\ pc \in Working /\ pc' = "cancelled" /\ FinishRecorder("cancelled") /\ UNCHANGED stream
    BY <1>6 DEF Cancel, Working
  <2> QED BY <2>1, FinishKeepsRecordInv
<1>7. CASE CancelCleanup \/ Raise
  <2>1. /\ pc \in Working /\ pc' \in {"cut", "raised"}
        /\ UNCHANGED <<recorder, run, stream, faults>>
    BY <1>7 DEF CancelCleanup, Raise, Working, recordVars, bounds
  <2> QED BY <2>1, MoveKeepsRecordInv
<1>8. CASE Restart BY <1>8, RestartKeepsRecordInv
<1>9. ReadStream \/ Judge \/ UNCHANGED vars => UNCHANGED <<recorder, run, pc, stream, faults>>
  BY Zenon DEF ReadStream, Judge, vars, recordVars, producer, bounds
<1> QED BY <1>1, <1>2, <1>3, <1>4, <1>5, <1>6, <1>7, <1>8, <1>9, Zenon DEF Next, RunStep

\* Object, row and stream fit each other and the place of execute_run, for any
\* stream and any number of failed commits and restarts.
THEOREM RecordInvHolds == Spec => []RecordInv
<1>1. RecordInv /\ [Next]_vars => RecordInv' BY RecordInvStep
<1> QED BY RecordInvInit, <1>1, PTL DEF Spec

-----------------------------------------------------------------------------
(* What the run page shows                                                  *)

\* A run is shown with the end it had: as succeeded, partial or cancelled only if
\* it ended or was cancelled so, with an error exactly if it failed, and as long
\* as every commit succeeds with exactly the end of its stream (recorder.py).
THEOREM RunPageIsHonest == Spec => []RecordIsHonest
<1>1. RecordInv => RecordIsHonest
  <2>1. RecordInv /\ pc = "ended" => LastKind = "run_completed" BY DEF RecordInv, PlaceOfRun
  <2> QED BY <2>1 DEF RecordInv, RowIsHonest, RecordIsHonest
<1> QED BY <1>1, RecordInvHolds, PTL

\* A row shown as running behind its run has lost a commit, or an exception or a
\* cancellation of the clean-up passed the recorder by.
THEOREM RunningRowExplained == Spec => []RunningRowIsExplained
<1>1. RecordInv => RunningRowIsExplained BY DEF RecordInv
<1> QED BY <1>1, RecordInvHolds, PTL

\* Nothing rewrites the end of a record: not recorder.close, not a reader that
\* leaves behind the last event, not the next start of the process.
THEOREM EndedRecordFinal == Spec => EndedRecordIsFinal
<1>1. RecordInv /\ [Next]_vars => [run.st \in Terminal => run' = run]_vars
  BY RecordInvStep
<1> QED BY <1>1, RecordInvHolds, PTL DEF Spec, EndedRecordIsFinal

-----------------------------------------------------------------------------
(* The time line and its texts                                              *)

PayloadsInv == RecorderShape /\ EventHasItsPayloads

\* An event is stored only behind its payloads.
LEMMA ObserveKeepsPayloads ==
    ASSUME PayloadsInv, NEW e, NEW n \in 0 .. Len(Writes(e)), Observe(e, n)
    PROVE  PayloadsInv'
<1> PICK done : done = {Writes(e)[i] : i \in 1 .. n} OBVIOUS
<1>1. RecorderShape' BY ObservedObject DEF PayloadsInv
<1>2. "event" \in done => \A i \in 1 .. Len(PayloadsOf(e)) : PayloadsOf(e)[i] \in done
  BY Written DEF PayloadsInv, RecorderShape
<1>3. /\ events' \in {events, events \cup {e}}
      /\ events' # events => "event" \in done
      /\ payloads' = payloads \cup
             {[call |-> e.call, type |-> t] : t \in done \cap Range(PayloadsOf(e))}
  <2>1. {Writes(e)[i] : i \in 1 .. n} = done OBVIOUS
  <2>2. payloads' = payloads \cup {[call |-> e.call, type |-> t] :
                        t \in {Writes(e)[i] : i \in 1 .. n} \cap Range(PayloadsOf(e))}
    BY Zenon DEF Observe
  <2>3. events' = IF /\ "event" \in {Writes(e)[i] : i \in 1 .. n}
                     /\ \A x \in events : x.seq # e.seq
                  THEN events \cup {e} ELSE events
    BY Zenon DEF Observe
  <2> QED BY <2>1, <2>2, <2>3
<1>4. ASSUME NEW x \in events', NEW i \in DOMAIN PayloadsOf(x)
      PROVE  [call |-> x.call, type |-> PayloadsOf(x)[i]] \in payloads'
  <2>1. CASE x \in events
    <3>1. [call |-> x.call, type |-> PayloadsOf(x)[i]] \in payloads
      BY <2>1, Zenon DEF PayloadsInv, EventHasItsPayloads
    <3> QED BY <1>3, <3>1
  <2>2. CASE x \notin events
    <3>1. x = e /\ "event" \in done BY <1>3, <2>2
    <3>2. DOMAIN PayloadsOf(e) = 1 .. Len(PayloadsOf(e)) BY PayloadsTyped
    <3>3. PayloadsOf(e)[i] \in done /\ PayloadsOf(e)[i] \in Range(PayloadsOf(e))
      BY <1>2, <3>1, <3>2 DEF Range
    <3> QED BY <1>3, <3>1, <3>3
  <2> QED BY <2>1, <2>2
<1> QED BY <1>1, <1>4, Zenon DEF PayloadsInv, EventHasItsPayloads

\* A stored event has the texts the run page offers for it: they are committed
\* before it, so that a commit that fails costs the event (recorder.py).
THEOREM EventsHavePayloads == Spec => []EventHasItsPayloads
<1>1. Init => PayloadsInv
  <2> SUFFICES ASSUME Init PROVE PayloadsInv OBVIOUS
  <2>1. events = {} /\ recorder = NewRecorder BY DEF Init, RecorderInit
  <2> QED BY <2>1 DEF NewRecorder, PayloadsInv, RecorderShape, EventHasItsPayloads
<1>2. PayloadsInv /\ [Next]_vars => PayloadsInv'
  <2> SUFFICES ASSUME PayloadsInv, [Next]_vars PROVE PayloadsInv' OBVIOUS
  <2>1. ASSUME NEW e, Yield(e) PROVE PayloadsInv'
    <3>1. PICK n \in 0 .. Len(Writes(e)) : Observe(e, n) BY <2>1, Zenon DEF Yield
    <3> QED BY <3>1, ObserveKeepsPayloads
  <2>2. ASSUME UNCHANGED <<recorder, events, payloads>> PROVE PayloadsInv'
    BY <2>2, Zenon DEF PayloadsInv, RecorderShape, EventHasItsPayloads
  <2>3. ASSUME NEW status, FinishRecorder(status) PROVE PayloadsInv'
    <3>1. UNCHANGED <<events, payloads>>
      BY <2>3, Zenon DEF FinishRecorder, Finish, recordVars
    <3>2. recorder' = recorder
          \/ recorder' = [recorder EXCEPT !.created = TRUE, !.finished = TRUE]
      BY <2>3, Zenon DEF FinishRecorder, Finish, recordVars
    <3>3. RecorderShape' BY <3>2 DEF PayloadsInv, RecorderShape
    <3> QED BY <3>1, <3>3, Zenon DEF PayloadsInv, EventHasItsPayloads
  <2>4. ASSUME Restart PROVE PayloadsInv'
    <3>1. UNCHANGED <<events, payloads>> /\ recorder' = NewRecorder
      BY <2>4, Zenon DEF Restart, MarkInterrupted
    <3>2. RecorderShape' BY <3>1 DEF NewRecorder, RecorderShape
    <3> QED BY <3>1, <3>2, Zenon DEF PayloadsInv, EventHasItsPayloads
  <2>5. CASE \E kind \in Promise!EventKinds : LoopYields(kind)
    BY <2>1, <2>5, Zenon DEF LoopYields
  <2>6. CASE Close BY <2>1, <2>2, <2>6, Zenon DEF Close, recordVars
  <2>7. CASE CloseRecorder \/ Cancel BY <2>3, <2>7, Zenon DEF CloseRecorder, Cancel
  <2>8. CASE Begin \/ CancelCleanup \/ Raise \/ ReadStream \/ Judge \/ UNCHANGED vars
    BY <2>2, <2>8, Zenon
       DEF Begin, CancelCleanup, Raise, ReadStream, Judge, vars, recordVars
  <2> QED BY <2>4, <2>5, <2>6, <2>7, <2>8, Zenon DEF Next, RunStep
<1>3. PayloadsInv => EventHasItsPayloads BY DEF PayloadsInv
<1> QED BY <1>1, <1>2, <1>3, PTL DEF Spec

-----------------------------------------------------------------------------
(* The score of a case                                                      *)

CaseShape ==
    DOMAIN case = {"pc", "evaluator", "asked", "st", "score", "requests", "tools"}

\* A score is given by the last step, and only with a verdict.
ScoresInv ==
    /\ CaseShape
    /\ case.pc # "done" => case.score = NoScore /\ case.st \notin {"passed", "failed"}
    /\ ScoresAreEarned

\* The row and its end, by the fields it changes.
LEMMA SettledIs ==
    ASSUME CaseShape, NEW st, NEW score, NEW requests, NEW tools,
           case' = Settled(st, score, requests, tools)
    PROVE  /\ CaseShape' /\ case'.pc = "done" /\ case'.st = st /\ case'.score = score
           /\ case'.evaluator = case.evaluator
BY DEF CaseShape, Settled

\* A row without a verdict and without a score.
LEMMA UnscoredIsEarned ==
    ASSUME CaseShape', case'.score = NoScore, case'.st \notin {"passed", "failed"}
    PROVE  ScoresInv'
BY DEF ScoresInv, ScoresAreEarned

\* A step that ends without a verdict, or does not end yet.
LEMMA UnscoredStep ==
    ASSUME ScoresInv, case.pc # "done",
           \/ \E st, requests, tools : /\ st \notin {"passed", "failed"}
                                        /\ case' = Settled(st, NoScore, requests, tools)
           \/ \E evaluator, requests, tools :
                  case' = [case EXCEPT !.pc = "judging", !.evaluator = evaluator,
                                       !.requests = requests, !.tools = tools]
           \/ case' = [case EXCEPT !.pc = "running", !.st = "running"]
           \/ case' = [case EXCEPT !.asked = 1]
    PROVE  ScoresInv'
<1>1. CaseShape /\ case.score = NoScore /\ case.st \notin {"passed", "failed"}
  BY DEF ScoresInv
<1>2. ASSUME NEW st, NEW requests, NEW tools, st \notin {"passed", "failed"},
             case' = Settled(st, NoScore, requests, tools)
      PROVE  ScoresInv'
  <2>1. CaseShape' /\ case'.score = NoScore /\ case'.st = st BY <1>1, <1>2, SettledIs
  <2> QED BY <1>2, <2>1, UnscoredIsEarned
<1>3. ASSUME NEW evaluator, NEW requests, NEW tools,
             case' = [case EXCEPT !.pc = "judging", !.evaluator = evaluator,
                                  !.requests = requests, !.tools = tools]
      PROVE  ScoresInv'
  <2>1. CaseShape' /\ case'.score = case.score /\ case'.st = case.st
    BY <1>1, <1>3 DEF CaseShape
  <2> QED BY <1>1, <2>1, UnscoredIsEarned
<1>4. CASE case' = [case EXCEPT !.pc = "running", !.st = "running"]
  <2>1. CaseShape' /\ case'.score = case.score /\ case'.st = "running"
    BY <1>1, <1>4 DEF CaseShape
  <2> QED BY <1>1, <2>1, UnscoredIsEarned
<1>5. CASE case' = [case EXCEPT !.asked = 1]
  <2>1. CaseShape' /\ case'.score = case.score /\ case'.st = case.st
    BY <1>1, <1>5 DEF CaseShape
  <2> QED BY <1>1, <2>1, UnscoredIsEarned
<1> QED BY <1>2, <1>3, <1>4, <1>5, Zenon

\* A verdict comes with a score of its side of the threshold.
LEMMA JudgeKeepsScores ==
    ASSUME ScoresInv, Evaluate
    PROVE  ScoresInv'
<1>1. case.pc = "judging" /\ CaseShape
  BY Zenon DEF Evaluate, ExactMatch, JudgeAnswers, JudgeUnavailable, ScoresInv
<1>2. CASE JudgeUnavailable
  <2>1. case' = Settled("judge_failed", NoScore, case.requests, case.tools)
    BY <1>2, Zenon DEF JudgeUnavailable, Judged
  <2> QED BY <1>1, <2>1, UnscoredStep
<1>3. CASE ExactMatch
  <2>1. PICK st, score : /\ case' = Settled(st, score, case.requests, case.tools)
                        /\ \/ st = "judge_failed" /\ score = NoScore
                           \/ st = "passed" /\ score = 100
                           \/ st = "failed" /\ score = 0
    BY <1>3, Zenon DEF ExactMatch, Judged
  <2>2. /\ CaseShape' /\ case'.st = st /\ case'.score = score /\ case'.pc = "done"
        /\ case'.evaluator = case.evaluator
    BY <1>1, <2>1, SettledIs
  <2>3. case.evaluator = "exact_match" BY <1>3 DEF ExactMatch
  <2>4. ScoresAreEarned'
    BY <2>1, <2>2, <2>3 DEF ScoresAreEarned, NoScore
  <2> QED BY <2>2, <2>4 DEF ScoresInv
<1>4. ASSUME NEW p \in JudgeReplies, JudgeAnswers(p) PROVE ScoresInv'
  <2>1. CASE ~ Valid(p)
    <3>1. \/ case' = [case EXCEPT !.asked = 1]
          \/ case' = Settled("judge_failed", NoScore, case.requests, case.tools)
      BY <1>4, <2>1, Zenon DEF JudgeAnswers, Judged
    <3> QED BY <1>1, <3>1, UnscoredStep
  <2>2. CASE Valid(p)
    <3>1. p.score \in 0 .. 100 BY <2>2 DEF Valid
    <3>2. PICK st : /\ case' = Settled(st, p.score, case.requests, case.tools)
                    /\ st = IF p.score >= Threshold THEN "passed" ELSE "failed"
      BY <1>4, <2>2, Zenon DEF JudgeAnswers, Judged
    <3>3. /\ CaseShape' /\ case'.st = st /\ case'.score = p.score /\ case'.pc = "done"
      BY <1>1, <3>2, SettledIs
    <3>4. ScoresAreEarned'
      BY <3>1, <3>2, <3>3 DEF ScoresAreEarned, NoScore
    <3> QED BY <3>3, <3>4 DEF ScoresInv
  <2> QED BY <2>1, <2>2
<1> QED BY <1>2, <1>3, <1>4, Zenon DEF Evaluate

\* A case has a score exactly if it was judged; a judge's is on the right side of
\* the threshold, and nothing that failed is given a zero (evaluators.py).
THEOREM ScoresEarned == Spec => []ScoresAreEarned
<1>1. Init => ScoresInv
  <2> SUFFICES ASSUME Init PROVE ScoresInv OBVIOUS
  <2>1. /\ DOMAIN case = {"pc", "evaluator", "asked", "st", "score", "requests", "tools"}
        /\ case.score = NoScore /\ case.st = "pending"
    BY DEF Init, CaseInit
  <2> QED BY <2>1 DEF ScoresInv, CaseShape, ScoresAreEarned
<1>2. ScoresInv /\ [Next]_vars => ScoresInv'
  <2> SUFFICES ASSUME ScoresInv, [Next]_vars PROVE ScoresInv' OBVIOUS
  <2>1. ASSUME UNCHANGED case PROVE ScoresInv'
    BY <2>1, Zenon DEF ScoresInv, CaseShape, ScoresAreEarned
  <2>2. ASSUME CaseStarts PROVE ScoresInv'
    <3>1. case.pc = "waiting" /\ case' = [case EXCEPT !.pc = "running", !.st = "running"]
      BY <2>2 DEF CaseStarts
    <3> QED BY <3>1, UnscoredStep
  <2>3. CASE Begin BY <2>1, <2>2, <2>3, Zenon DEF Begin
  <2>4. CASE ReadStream
    <3>1. CASE RunRaised
      <4>1. /\ case.pc = "running"
            /\ case' = Settled("execution_failed", NoScore, NoCount, NoCount)
        BY <3>1, Zenon DEF RunRaised
      <4> QED BY <4>1, UnscoredStep
    <3>2. ASSUME NEW cancelled \in BOOLEAN, NEW blank \in BOOLEAN, NEW evaluator,
                 Answer(stream, cancelled, blank, evaluator)
          PROVE  ScoresInv'
      <4>1. /\ case.pc = "running"
            /\ \/ case' = Settled("cancelled", NoScore, ModelCalls(stream), ToolCallsDone(stream))
               \/ case' = Settled("execution_failed", NoScore, ModelCalls(stream),
                                  ToolCallsDone(stream))
               \/ case' = [case EXCEPT !.pc = "judging", !.evaluator = evaluator,
                                       !.requests = ModelCalls(stream),
                                       !.tools = ToolCallsDone(stream)]
        BY <3>2, Zenon DEF Answer
      <4> QED BY <4>1, UnscoredStep
    <3> QED BY <2>4, <3>1, <3>2, Zenon DEF ReadStream
  <2>5. CASE Judge BY <2>5, JudgeKeepsScores DEF Judge
  <2>6. CASE Restart
    <3>1. CASE CaseInterrupted /\ case.st \in {"pending", "running"}
      <4>1. case' = [case EXCEPT !.pc = "done", !.st = "cancelled", !.score = NoScore,
                                !.requests = NoCount, !.tools = NoCount]
        BY <3>1 DEF CaseInterrupted
      <4>2. CaseShape' /\ case'.score = NoScore /\ case'.st = "cancelled"
        BY <4>1 DEF ScoresInv, CaseShape
      <4> QED BY <4>2, UnscoredIsEarned
    <3>2. CASE UNCHANGED case BY <2>1, <3>2
    <3> QED BY <2>6, <3>1, <3>2, Zenon DEF Restart, CaseInterrupted
  <2>7. ASSUME NEW kind, LoopYields(kind) PROVE ScoresInv' BY <2>1, <2>7, Zenon DEF LoopYields
  <2>8. CASE Close \/ CloseRecorder \/ Cancel \/ CancelCleanup \/ Raise \/ UNCHANGED vars
    BY <2>1, <2>8, Zenon DEF Close, CloseRecorder, Cancel, CancelCleanup, Raise, vars
  <2> QED BY <2>3, <2>4, <2>5, <2>6, <2>7, <2>8, Zenon DEF Next, RunStep
<1>3. ScoresInv => ScoresAreEarned BY DEF ScoresInv
<1> QED BY <1>1, <1>2, <1>3, PTL DEF Spec

-----------------------------------------------------------------------------
(* The counts                                                               *)

\* While the run goes on the object counts with the stream; the row takes the
\* counts when it is given its end.
CountsInv ==
    /\ pc \in Working =>
          /\ recorder.requests = ModelCalls(stream)
          /\ recorder.tools = ToolCallsDone(stream)
          /\ stream # <<>> => recorder.created
    /\ run.reason = "own" => run.st \in Terminal
    /\ CountsAreOfTheStream

\* One index more, or none.
LEMMA OneIndexMore ==
    ASSUME NEW n \in Nat, NEW A, A \subseteq 1 .. n, NEW B, B \subseteq 1 .. n + 1,
           \A i \in 1 .. n : i \in B <=> i \in A,
           NEW more \in BOOLEAN, n + 1 \in B <=> more
    PROVE  /\ Cardinality(A) \in Nat
           /\ Cardinality(B) = Cardinality(A) + (IF more THEN 1 ELSE 0)
<1>1. IsFiniteSet(1 .. n) BY FS_Interval
<1>2. IsFiniteSet(A) BY <1>1, FS_Subset
<1>3. Cardinality(A) \in Nat BY <1>2, FS_CardinalityType
<1>4. PICK m : m = n + 1 OBVIOUS
<1>5. m \notin A /\ B \subseteq 1 .. n \cup {m}
  <2>1. \A i \in 1 .. n + 1 : i \in 1 .. n \/ i = n + 1 OBVIOUS
  <2>2. n + 1 \notin 1 .. n OBVIOUS
  <2> QED BY <1>4, <2>1, <2>2
<1>6. CASE more
  <2>1. m \in B BY <1>4, <1>6
  <2>2. B = A \cup {m} BY <1>5, <2>1
  <2>3. Cardinality(B) = Cardinality(A) + 1 BY <1>2, <1>5, <2>2, FS_AddElement
  <2> QED BY <1>3, <1>6, <2>3
<1>7. CASE ~ more
  <2>1. m \notin B BY <1>4, <1>7
  <2>2. B = A BY <1>5, <2>1
  <2> QED BY <1>3, <1>7, <2>2
<1> QED BY <1>6, <1>7

\* The counts of a stream with one event more.
CountsGrow(s, t, e) ==
    /\ ModelCalls(t) = ModelCalls(s) + (IF e.event \in RequestStarts THEN 1 ELSE 0)
    /\ ToolCallsDone(t) = ToolCallsDone(s) + (IF IsCounted(e) THEN 1 ELSE 0)

LEMMA CountsOfAppend ==
    ASSUME NEW S, NEW s \in Seq(S), NEW e, NEW t, t = Append(s, e)
    PROVE  CountsGrow(s, t, e)
<1>1. PICK n \in Nat : n = Len(s) BY LenProperties
<1>2. /\ DOMAIN s = 1 .. n /\ DOMAIN t = 1 .. n + 1 /\ t[n + 1] = e
      /\ \A i \in 1 .. n : t[i] = s[i]
  <2>1. s \in Seq(S \cup {e}) BY SeqMonotonic
  <2> QED BY <1>1, <2>1, AppendProperties, LenProperties
<1>3. PICK A, B : /\ A = {i \in DOMAIN s : s[i].event \in RequestStarts}
                  /\ B = {i \in DOMAIN t : t[i].event \in RequestStarts}
  OBVIOUS
<1>4. PICK more \in BOOLEAN : more <=> e.event \in RequestStarts OBVIOUS
<1>5. Cardinality(B) = Cardinality(A) + (IF more THEN 1 ELSE 0)
  <2>1. ASSUME NEW i \in 1 .. n PROVE i \in B <=> i \in A BY <1>2, <1>3
  <2>2. n + 1 \in DOMAIN t /\ (t[n + 1].event \in RequestStarts <=> more) BY <1>2, <1>4
  <2>3. A \subseteq 1 .. n /\ B \subseteq 1 .. n + 1 BY <1>2, <1>3
  <2>4. n + 1 \in B <=> more BY <1>3, <2>2
  <2> QED BY <2>1, <2>3, <2>4, OneIndexMore
<1>6. ModelCalls(s) = Cardinality(A) /\ ModelCalls(t) = Cardinality(B)
  BY <1>3, Zenon DEF ModelCalls, CountIn, RequestStarts
<1>7. PICK C, D : C = {i \in DOMAIN s : IsCounted(s[i])} /\ D = {i \in DOMAIN t : IsCounted(t[i])}
  OBVIOUS
<1>8. PICK one \in BOOLEAN : one = IsCounted(e) BY DEF IsCounted
<1>9. Cardinality(D) = Cardinality(C) + (IF one THEN 1 ELSE 0)
  <2>1. ASSUME NEW i \in 1 .. n PROVE i \in D <=> i \in C BY <1>2, <1>7
  <2>2. n + 1 \in D <=> one BY <1>2, <1>7, <1>8
  <2>3. C \subseteq 1 .. n /\ D \subseteq 1 .. n + 1 BY <1>2, <1>7
  <2> QED BY <2>1, <2>2, <2>3, OneIndexMore
<1>10. ToolCallsDone(s) = Cardinality(C) /\ ToolCallsDone(t) = Cardinality(D)
  BY <1>7, Zenon DEF ToolCallsDone, CountIn, IsCounted
<1> QED BY <1>4, <1>5, <1>6, <1>8, <1>9, <1>10 DEF CountsGrow

LEMMA CountsOfNothing == ModelCalls(<<>>) = 0 /\ ToolCallsDone(<<>>) = 0
<1>1. DOMAIN <<>> = {} OBVIOUS
<1>2. ModelCalls(<<>>) = Cardinality({}) /\ ToolCallsDone(<<>>) = Cardinality({})
  BY <1>1 DEF ModelCalls, ToolCallsDone, CountIn
<1> QED BY <1>2, FS_EmptySet

\* The row with the counts of the object, or one that has none yet.
RowCounted ==
    \/ run' = run
    \/ run'.reason # "own"
    \/ /\ run'.requests = recorder'.requests /\ run'.tools = recorder'.tools
       /\ run'.st \in Terminal

LEMMA RowAfterCounts ==
    ASSUME NEW done, NEW rec, NEW status \in Terminal, run' = RunAfter(done, rec, status),
           rec.requests = recorder'.requests, rec.tools = recorder'.tools
    PROVE  RowCounted
<1>1. NewRow.reason # "own" BY DEF NewRow, NoRow
<1>2. PICK ending : ending = [st |-> status, reason |-> "own", requests |-> rec.requests,
                              tools |-> rec.tools, usage |-> rec.usage, error |-> rec.error]
  OBVIOUS
<1>3. run' \in {run, NewRow, ending} BY <1>2, Zenon DEF RunAfter
<1>4. ending.st = status /\ ending.requests = rec.requests /\ ending.tools = rec.tools
  BY <1>2
<1> QED BY <1>1, <1>3, <1>4 DEF RowCounted

\* What observe does to the counters.
LEMMA ObserveCounts ==
    ASSUME RecorderShape, NEW e, NEW n, Observe(e, n)
    PROVE  /\ recorder'.created
           /\ recorder'.requests = recorder.requests +
                  (IF e.event \in RequestStarts /\ (recorder.created \/ n > 0) THEN 1 ELSE 0)
           /\ recorder'.tools = recorder.tools + (IF IsCounted(e) THEN 1 ELSE 0)
           /\ RowCounted
<1> DEFINE finishes == "event" \in {Writes(e)[i] : i \in 1 .. n} /\ FinalWrites(e) # <<>>
<1>1. recorder' = [Counted(e, n) EXCEPT
                      !.finished = @ \/ finishes,
                      !.usage = @ + (IF finishes THEN e.usage ELSE 0)]
  BY Zenon DEF Observe
<1> PICK q, t, u, x :
        /\ Counted(e, n) = [recorder EXCEPT !.created = TRUE, !.requests = q,
                                            !.tools = t, !.usage = u, !.error = x]
        /\ q = recorder.requests +
                  (IF e.event \in RequestStarts /\ (recorder.created \/ n > 0) THEN 1 ELSE 0)
        /\ t = recorder.tools + (IF IsCounted(e) THEN 1 ELSE 0)
  BY Zenon DEF Counted
<1> PICK counted : counted = Counted(e, n) OBVIOUS
<1>2. /\ DOMAIN counted = DOMAIN recorder /\ counted.created = TRUE
      /\ counted.requests = q /\ counted.tools = t
  BY DEF RecorderShape
<1> PICK f, v : recorder' = [counted EXCEPT !.finished = f, !.usage = v] BY <1>1, Zenon
<1>3. recorder'.created = TRUE /\ recorder'.requests = q /\ recorder'.tools = t
  BY <1>2 DEF RecorderShape
<1>4. PICK done : run' = RunAfter(done, recorder', StatusOf(e.status))
  BY Zenon DEF Observe
<1>5. RowCounted BY <1>4, RowAfterCounts, StatusOfEnding
<1> QED BY <1>3, <1>5

\* finish leaves the counters and gives them to the row.
LEMMA FinishCounts ==
    ASSUME RecorderShape, NEW status \in Terminal, FinishRecorder(status)
    PROVE  /\ recorder'.requests = recorder.requests /\ recorder'.tools = recorder.tools
           /\ RowCounted
<1>1. CASE recorder.finished
  <2>1. UNCHANGED <<recorder, run>> BY <1>1, Zenon DEF FinishRecorder, Finish, recordVars
  <2> QED BY <2>1 DEF RowCounted
<1>2. CASE ~ recorder.finished
  <2>1. PICK done :
            /\ recorder' = [recorder EXCEPT !.created = TRUE, !.finished = TRUE]
            /\ run' = RunAfter(done, [recorder EXCEPT !.error = status = "failed"], status)
    BY <1>2, Zenon DEF FinishRecorder, Finish
  <2>2. PICK x : x = (status = "failed") OBVIOUS
  <2>3. PICK rec : rec = [recorder EXCEPT !.error = x] OBVIOUS
  <2>4. rec.requests = recorder.requests /\ rec.tools = recorder.tools
    BY <2>3 DEF RecorderShape
  <2>5. recorder'.requests = recorder.requests /\ recorder'.tools = recorder.tools
    BY <2>1 DEF RecorderShape
  <2>6. run' = RunAfter(done, rec, status) BY <2>1, <2>2, <2>3, Zenon
  <2> QED BY <2>4, <2>5, <2>6, RowAfterCounts
<1> QED BY <1>1, <1>2

\* An event of the stream is counted in both; the first one is no request, so
\* that the row is there before anything is counted.
LEMMA YieldKeepsCounts ==
    ASSUME RecordInv, CountsInv, pc \in {"loop", "closing"}, LastKind # "run_completed",
           NEW e, Yield(e), stream = <<>> => e.event \notin RequestStarts
    PROVE  CountsInv'
<1>1. PICK S : stream \in Seq(S) BY DEF RecordInv, Shape, StreamShape
<1>2. stream' = Append(stream, e) BY DEF Yield
<1>3. PICK n : Observe(e, n) BY Zenon DEF Yield
<1>4. pc \in Working /\ run.st \notin Terminal
  BY DEF Working, RecordInv, RecorderRemembers
<1>5. /\ recorder.requests = ModelCalls(stream) /\ recorder.tools = ToolCallsDone(stream)
      /\ stream # <<>> => recorder.created
      /\ run.reason # "own"
  BY <1>4 DEF CountsInv
<1>6. CountsGrow(stream, stream', e) BY <1>1, <1>2, CountsOfAppend
<1>7. /\ recorder'.created
      /\ recorder'.requests = recorder.requests +
             (IF e.event \in RequestStarts /\ (recorder.created \/ n > 0) THEN 1 ELSE 0)
      /\ recorder'.tools = recorder.tools + (IF IsCounted(e) THEN 1 ELSE 0)
      /\ RowCounted
  BY <1>3, ObserveCounts DEF RecordInv, Shape
<1>8. e.event \in RequestStarts => recorder.created BY <1>5
<1>9. recorder'.requests = recorder.requests + (IF e.event \in RequestStarts THEN 1 ELSE 0)
  BY <1>7, <1>8
<1>10. recorder'.requests = ModelCalls(stream') /\ recorder'.tools = ToolCallsDone(stream')
  BY <1>5, <1>6, <1>7, <1>9 DEF CountsGrow
<1>11. run'.reason = "own" => run'.st \in Terminal BY <1>5, <1>7 DEF RowCounted
<1>12. CountsAreOfTheStream' BY <1>5, <1>7, <1>10 DEF RowCounted, CountsAreOfTheStream
<1> QED BY <1>7, <1>10, <1>11, <1>12 DEF CountsInv

LEMMA FinishKeepsCounts ==
    ASSUME RecordInv, CountsInv, pc \in Working, NEW status \in Terminal,
           FinishRecorder(status), UNCHANGED stream, pc' \notin Working
    PROVE  CountsInv'
<1>1. recorder.requests = ModelCalls(stream) /\ recorder.tools = ToolCallsDone(stream)
  BY DEF CountsInv
<1>2. /\ recorder'.requests = recorder.requests /\ recorder'.tools = recorder.tools
      /\ RowCounted
  BY FinishCounts DEF RecordInv, Shape
<1>3. ModelCalls(stream') = ModelCalls(stream) /\ ToolCallsDone(stream') = ToolCallsDone(stream)
  BY Zenon
<1>4. run'.reason = "own" => run'.st \in Terminal BY <1>2 DEF RowCounted, CountsInv
<1>5. CountsAreOfTheStream'
  BY <1>1, <1>2, <1>3 DEF RowCounted, CountsInv, CountsAreOfTheStream
<1> QED BY <1>4, <1>5 DEF CountsInv

LEMMA MoveKeepsCounts ==
    ASSUME CountsInv, UNCHANGED <<recorder, run, stream>>, pc' \in Working => pc \in Working
    PROVE  CountsInv'
<1>1. ModelCalls(stream') = ModelCalls(stream) /\ ToolCallsDone(stream') = ToolCallsDone(stream)
  BY Zenon
<1> QED BY <1>1 DEF CountsInv, CountsAreOfTheStream

LEMMA CountsInvInit == Init => CountsInv
<1> SUFFICES ASSUME Init PROVE CountsInv OBVIOUS
<1>1. pc \notin Working BY DEF Init, Working
<1>2. run.reason # "own" BY DEF Init, RecorderInit, NoRow
<1> QED BY <1>1, <1>2 DEF CountsInv, CountsAreOfTheStream

LEMMA CountsInvStep == RecordInv /\ CountsInv /\ [Next]_vars => CountsInv'
<1> SUFFICES ASSUME RecordInv, CountsInv, [Next]_vars PROVE CountsInv' OBVIOUS
<1>1. CASE Begin
  <2>1. /\ pc = "idle" /\ UNCHANGED <<recorder, run, stream>>
    BY <1>1, Zenon DEF Begin, recordVars
  <2>2. recorder = NewRecorder /\ run = NoRow /\ stream = <<>>
    BY <2>1 DEF RecordInv, PlaceOfRun
  <2>3. recorder.requests = 0 /\ recorder.tools = 0 /\ run.reason # "own"
    BY <2>2 DEF NewRecorder, NoRow
  <2>4. recorder'.requests = ModelCalls(stream') /\ recorder'.tools = ToolCallsDone(stream')
    BY <2>1, <2>2, <2>3, CountsOfNothing
  <2> QED BY <2>1, <2>2, <2>3, <2>4 DEF CountsInv, CountsAreOfTheStream
<1>2. ASSUME NEW kind, LoopYields(kind) PROVE CountsInv'
  <2>1. PICK e : e.event = kind /\ Yield(e)
    <3>1. PICK number, v : Yield(Event(kind, number, v.status, v.usage, v.output))
      BY <1>2, Zenon DEF LoopYields
    <3> PICK e : e = Event(kind, number, v.status, v.usage, v.output) OBVIOUS
    <3>2. e.event = kind BY DEF Event
    <3> QED BY <3>1, <3>2
  <2>2. pc = "loop" /\ LastKind # "run_completed" BY <1>2 DEF LoopYields, RecordInv, PlaceOfRun
  <2>3. stream = <<>> => kind \in Promise!Openings BY <1>2, Zenon DEF LoopYields
  <2>4. stream = <<>> => e.event \notin RequestStarts
    BY <2>1, <2>3 DEF Promise!Openings, RequestStarts
  <2> QED BY <2>1, <2>2, <2>4, YieldKeepsCounts
<1>3. CASE Close
  <2>1. CASE LastKind = "run_completed"
    <3>1. UNCHANGED <<recorder, run, stream>> /\ pc \in Working
      BY <1>3, <2>1 DEF Close, recordVars, Working
    <3> QED BY <3>1, MoveKeepsCounts
  <2>2. CASE LastKind # "run_completed"
    <3>1. PICK e : Yield(e) /\ e = Event("run_completed", seq + 1, "error", UsageTotal, FALSE)
      BY <1>3, <2>2, Zenon DEF Close
    <3>2. e.event \notin RequestStarts /\ pc = "closing"
      BY <1>3, <3>1 DEF Event, RequestStarts, Close
    <3> QED BY <2>2, <3>1, <3>2, YieldKeepsCounts
  <2> QED BY <2>1, <2>2
<1>4. CASE CloseRecorder \/ Cancel
  <2>1. /\ pc \in Working /\ pc' \notin Working /\ UNCHANGED stream
        /\ \E status \in Terminal : FinishRecorder(status)
    BY <1>4 DEF CloseRecorder, Cancel, Working, Terminal
  <2> QED BY <2>1, FinishKeepsCounts
<1>5. CASE CancelCleanup \/ Raise
  <2>1. UNCHANGED <<recorder, run, stream>> /\ pc' \notin Working
    BY <1>5 DEF CancelCleanup, Raise, recordVars, Working
  <2> QED BY <2>1, MoveKeepsCounts
<1>6. CASE Restart
  <2>1. /\ run' = IF run.st = "running"
                  THEN [run EXCEPT !.st = "failed", !.reason = "interrupted", !.error = TRUE]
                  ELSE run
        /\ pc' \notin Working /\ UNCHANGED stream
    BY <1>6 DEF Restart, MarkInterrupted, Interrupted, Working
  <2>2. ModelCalls(stream') = ModelCalls(stream)
        /\ ToolCallsDone(stream') = ToolCallsDone(stream)
    BY <2>1, Zenon
  <2>3. run' = run \/ run'.reason # "own" BY <2>1 DEF RecordInv, Shape, RunShape
  <2> QED BY <2>1, <2>2, <2>3 DEF CountsInv, CountsAreOfTheStream
<1>7. CASE ReadStream \/ Judge \/ UNCHANGED vars
  <2>1. UNCHANGED <<recorder, run, stream, pc>>
    BY <1>7, Zenon DEF ReadStream, Judge, vars, recordVars, producer
  <2> QED BY <2>1, MoveKeepsCounts
<1> QED BY <1>1, <1>2, <1>3, <1>4, <1>5, <1>6, <1>7 DEF Next, RunStep

\* The numbers of requests and tool calls on the run page are those of the stream
\* the reader got, whichever events could not be stored (recorder.py).
THEOREM CountsOfTheStream == Spec => []CountsAreOfTheStream
<1>1. CountsInv => CountsAreOfTheStream BY DEF CountsInv
<1> QED BY <1>1, CountsInvInit, CountsInvStep, RecordInvHolds, PTL DEF Spec

-----------------------------------------------------------------------------
(* The numbers of the events, and what is lost                              *)

\* No two events share a number, seq is the last one given, and nobody has the
\* numbers kept for the checks that are still to come behind their call.
NumbersInv ==
    /\ seq \in Nat /\ early \in 0 .. seq
    /\ early > 0 => LastKind \in {"tool_call_started", "permission_checked"}
    /\ \A i \in DOMAIN stream :
          stream[i].seq \in 0 .. seq /\ stream[i].seq \notin seq - early .. seq - 1
    /\ \A i, j \in DOMAIN stream : stream[i].seq = stream[j].seq => i = j

Missing == {i \in DOMAIN stream : stream[i] \notin events}

\* What the table has was yielded, and every event it lacks cost a commit.
LossInv ==
    /\ faults \in Nat
    /\ \A e \in events : \E i \in DOMAIN stream : e = stream[i]
    /\ Cardinality(Missing) \in 0 .. faults

LEMMA NumbersStutter ==
    ASSUME NumbersInv, LossInv, UNCHANGED <<stream, seq, early, events>>, faults' \in Nat,
           faults <= faults'
    PROVE  NumbersInv' /\ LossInv'
<1>1. LastKind' = LastKind BY Zenon DEF LastKind
<1>2. NumbersInv' BY <1>1 DEF NumbersInv
<1>3. Missing' = Missing BY DEF Missing
<1>4. PICK c : c = Cardinality(Missing) OBVIOUS
<1>5. Cardinality(Missing') = c BY <1>3, <1>4, Zenon
<1>6. c \in 0 .. faults' BY <1>4 DEF LossInv
<1>7. LossInv' BY <1>5, <1>6 DEF LossInv
<1> QED BY <1>2, <1>7

\* t is s, of length n, with e behind it.
Appended(s, t, e, n) ==
    /\ n \in Nat /\ Len(s) = n /\ Len(t) = n + 1
    /\ DOMAIN s = 1 .. n /\ DOMAIN t = 1 .. n + 1
    /\ t[n + 1] = e /\ \A i \in 1 .. n : t[i] = s[i]

LEMMA AppendIs ==
    ASSUME NEW S, NEW s \in Seq(S), NEW e, NEW t, t = Append(s, e)
    PROVE  \E n : Appended(s, t, e, n)
<1>1. PICK n \in Nat : n = Len(s) BY LenProperties
<1>2. s \in Seq(S \cup {e}) BY SeqMonotonic
<1>3. Appended(s, t, e, n) BY <1>1, <1>2, AppendProperties, LenProperties DEF Appended
<1> QED BY <1>3

\* A commit that fails costs at most the event it belongs to; the number of the
\* event is its own.
LEMMA YieldKeepsLoss ==
    ASSUME RecordInv, LossInv, NEW e, Yield(e),
           \A i \in DOMAIN stream : stream[i].seq # e.seq
    PROVE  LossInv'
<1>1. PICK S : stream \in Seq(S) BY DEF RecordInv, Shape, StreamShape
<1>2. stream' = Append(stream, e) BY DEF Yield
<1>3. PICK n : Appended(stream, stream', e, n) BY <1>1, <1>2, AppendIs
<1>4. PICK m \in 0 .. Len(Writes(e)) : Commits(m, Len(Writes(e))) /\ Observe(e, m)
  BY Zenon DEF Yield
<1>5. PICK done : done = {Writes(e)[i] : i \in 1 .. m} OBVIOUS
<1>6. recorder.created \in BOOLEAN BY DEF RecordInv, Shape, RecorderShape
<1>7. Len(Writes(e)) \in Nat /\ (m = Len(Writes(e)) => "event" \in done)
  BY <1>5, <1>6, Written
<1>8. faults' = faults + (IF m < Len(Writes(e)) THEN 1 ELSE 0) BY <1>4 DEF Commits
<1>9. \A x \in events : x.seq # e.seq BY DEF LossInv
<1>10. events' = IF "event" \in done THEN events \cup {e} ELSE events
  <2>1. events' = IF "event" \in done /\ (\A x \in events : x.seq # e.seq)
                  THEN events \cup {e} ELSE events
    BY <1>4, <1>5, Zenon DEF Observe
  <2> QED BY <1>9, <2>1
<1>11. \A x \in events' : \E i \in DOMAIN stream' : x = stream'[i]
  <2>1. ASSUME NEW x \in events PROVE \E i \in DOMAIN stream' : x = stream'[i]
    <3>1. PICK i \in DOMAIN stream : x = stream[i] BY DEF LossInv
    <3>2. i \in 1 .. n + 1 /\ stream'[i] = stream[i] BY <1>3 DEF Appended
    <3> QED BY <1>3, <3>1, <3>2 DEF Appended
  <2>2. \E i \in DOMAIN stream' : e = stream'[i]
    <3>1. n + 1 \in 1 .. n + 1 BY <1>3 DEF Appended
    <3> QED BY <1>3, <3>1, Zenon DEF Appended
  <2> QED BY <1>10, <2>1, <2>2
<1>12. PICK A, B : A = Missing /\ B = Missing' OBVIOUS
<1>13. PICK more \in BOOLEAN : more <=> "event" \notin done OBVIOUS
<1>14. e \notin events BY <1>9
<1>15. ASSUME NEW i \in 1 .. n PROVE i \in B <=> i \in A
  <2>1. i \in DOMAIN stream /\ i \in DOMAIN stream' /\ stream'[i] = stream[i]
    BY <1>3 DEF Appended
  <2>2. stream[i] # e BY <2>1
  <2>3. stream[i] \in events' <=> stream[i] \in events BY <1>10, <2>2
  <2> QED BY <1>12, <2>1, <2>3 DEF Missing
<1>16. n + 1 \in B <=> more
  <2>1. n + 1 \in DOMAIN stream' /\ stream'[n + 1] = e BY <1>3 DEF Appended
  <2>2. e \in events' <=> "event" \in done BY <1>10, <1>14
  <2> QED BY <1>12, <1>13, <2>1, <2>2 DEF Missing
<1>17. n \in Nat /\ A \subseteq 1 .. n /\ B \subseteq 1 .. n + 1
  BY <1>3, <1>12 DEF Missing, Appended
<1>19. Cardinality(B) = Cardinality(A) + (IF more THEN 1 ELSE 0)
  BY <1>15, <1>16, <1>17, OneIndexMore
<1>20. more => m < Len(Writes(e)) BY <1>7, <1>13
<1>21. PICK a, b : a = Cardinality(A) /\ b = Cardinality(B) OBVIOUS
<1>22. a \in 0 .. faults /\ faults \in Nat BY <1>12, <1>21, Zenon DEF LossInv
<1>23. b \in 0 .. faults' /\ faults' \in Nat BY <1>8, <1>19, <1>20, <1>21, <1>22
<1>24. Cardinality(Missing') \in 0 .. faults' BY <1>12, <1>21, <1>23, Zenon
<1> QED BY <1>11, <1>23, <1>24 DEF LossInv

\* A new event under a number of its own.
LEMMA NewNumber ==
    ASSUME RecordInv, NumbersInv, NEW e, stream' = Append(stream, e),
           NEW m \in Nat, NEW k \in 0 .. m, seq' = m, early' = k, seq <= m,
           k > 0 => e.event \in {"tool_call_started", "permission_checked"},
           e.seq \in 0 .. m, e.seq \notin m - k .. m - 1,
           \A i \in DOMAIN stream :
               stream[i].seq # e.seq /\ stream[i].seq \notin m - k .. m - 1
    PROVE  NumbersInv' /\ \A i \in DOMAIN stream : stream[i].seq # e.seq
<1>1. PICK S : stream \in Seq(S) BY DEF RecordInv, Shape, StreamShape
<1>2. PICK n : Appended(stream, stream', e, n) BY <1>1, AppendIs
<1>3. PICK s, t : s = stream /\ t = stream' OBVIOUS
<1>4. /\ n \in Nat /\ Len(t) = n + 1 /\ DOMAIN s = 1 .. n /\ DOMAIN t = 1 .. n + 1
      /\ t[n + 1] = e /\ \A i \in 1 .. n : t[i] = s[i]
  BY <1>2, <1>3 DEF Appended
<1>5. /\ seq \in Nat /\ \A i \in 1 .. n : s[i].seq \in 0 .. seq
      /\ \A i, j \in 1 .. n : s[i].seq = s[j].seq => i = j
  BY <1>3, <1>4 DEF NumbersInv
<1>6. \A i \in 1 .. n : s[i].seq # e.seq /\ s[i].seq \notin m - k .. m - 1
  BY <1>3, <1>4
<1>7. LastKind' = e.event
  <2>1. t # <<>> BY <1>4
  <2>2. stream' # <<>> /\ stream'[Len(stream')] = e BY <1>3, <1>4, <2>1
  <2> QED BY <2>2, Zenon DEF LastKind, Last
<1>8. \A i \in 1 .. n + 1 : i \in 1 .. n \/ i = n + 1 BY <1>4
<1>9. ASSUME NEW i \in 1 .. n + 1 PROVE t[i].seq \in 0 .. m /\ t[i].seq \notin m - k .. m - 1
  <2>1. CASE i = n + 1 BY <1>4, <2>1
  <2>2. CASE i \in 1 .. n
    <3>1. t[i] = s[i] /\ s[i].seq \in 0 .. seq BY <1>4, <1>5, <2>2
    <3>2. s[i].seq \in 0 .. m BY <1>5, <3>1
    <3> QED BY <1>6, <2>2, <3>1, <3>2, Zenon
  <2> QED BY <1>8, <2>1, <2>2
<1>10. ASSUME NEW i \in 1 .. n + 1, NEW j \in 1 .. n + 1, t[i].seq = t[j].seq PROVE i = j
  <2>1. CASE i \in 1 .. n /\ j \in 1 .. n BY <1>4, <1>5, <1>10, <2>1
  <2>2. CASE i \in 1 .. n /\ j = n + 1 BY <1>4, <1>6, <1>10, <2>2
  <2>3. CASE i = n + 1 /\ j \in 1 .. n BY <1>4, <1>6, <1>10, <2>3
  <2>4. CASE i = n + 1 /\ j = n + 1 BY <2>4
  <2> QED BY <1>8, <2>1, <2>2, <2>3, <2>4
<1>11. NumbersInv' BY <1>3, <1>4, <1>7, <1>9, <1>10 DEF NumbersInv
<1> QED BY <1>3, <1>4, <1>6, <1>11

\* Behind all the others; the numbers left out are kept for the checks of a call.
LEMMA NextNumber ==
    ASSUME RecordInv, NumbersInv, early = 0, NEW e, stream' = Append(stream, e),
           NEW m \in Nat, m > seq, e.seq = m, seq' = m,
           NEW k \in 0 .. m - (seq + 1), early' = k, k > 0 => e.event = "tool_call_started"
    PROVE  NumbersInv' /\ \A i \in DOMAIN stream : stream[i].seq # e.seq
<1>1. seq \in Nat /\ \A i \in DOMAIN stream : stream[i].seq \in 0 .. seq BY DEF NumbersInv
<1>2. k \in 0 .. m /\ seq <= m /\ m \in 0 .. m /\ m \notin m - k .. m - 1 BY <1>1
<1>3. \A x \in 0 .. seq : x # m /\ x \notin m - k .. m - 1 BY <1>1
<1>4. \A i \in DOMAIN stream : stream[i].seq # e.seq /\ stream[i].seq \notin m - k .. m - 1
  BY <1>1, <1>3
<1> QED BY <1>2, <1>4, NewNumber

\* A check gets the first of the numbers kept for it.
LEMMA KeptNumber ==
    ASSUME RecordInv, NumbersInv, early > 0, NEW e, stream' = Append(stream, e),
           e.seq = seq - early, UNCHANGED seq, early' = early - 1,
           e.event = "permission_checked"
    PROVE  NumbersInv' /\ \A i \in DOMAIN stream : stream[i].seq # e.seq
<1>0. PICK m \in Nat : m = seq BY DEF NumbersInv
<1>1. PICK old \in 0 .. m : m = seq /\ old = early BY <1>0 DEF NumbersInv
<1>2. PICK k \in 0 .. m : k = old - 1 BY <1>1
<1>3. \A i \in DOMAIN stream : stream[i].seq \in 0 .. m /\ stream[i].seq \notin m - old .. m - 1
  BY <1>1 DEF NumbersInv
<1>4. PICK p \in 0 .. m : p = m - old BY <1>1
<1>5. p \notin m - k .. m - 1 BY <1>1, <1>2, <1>4
<1>6. \A x \in 0 .. m : x \notin m - old .. m - 1 => x # p /\ x \notin m - k .. m - 1
  BY <1>1, <1>2, <1>4
<1>7. e.seq = p BY <1>1, <1>4
<1>8. \A i \in DOMAIN stream : stream[i].seq # e.seq /\ stream[i].seq \notin m - k .. m - 1
  BY <1>3, <1>6, <1>7
<1>9. seq' = m /\ early' = k /\ seq <= m BY <1>1, <1>2
<1> QED BY <1>5, <1>7, <1>8, <1>9, NewNumber

LEMMA LossStep ==
    RecordInv /\ NumbersInv /\ LossInv /\ [Next]_vars => NumbersInv' /\ LossInv'
<1> SUFFICES ASSUME RecordInv, NumbersInv, LossInv, [Next]_vars
             PROVE  NumbersInv' /\ LossInv'
  OBVIOUS
<1>0. faults \in Nat BY DEF LossInv
<1>1. ASSUME UNCHANGED <<stream, seq, early, events, faults>> PROVE NumbersInv' /\ LossInv'
  BY <1>0, <1>1, NumbersStutter
<1>2. ASSUME NEW kind \in Promise!EventKinds, LoopYields(kind) PROVE NumbersInv' /\ LossInv'
  <2>1. PICK number, v :
            /\ number \in Numbers(kind)
            /\ Yield(Event(kind, number, v.status, v.usage, v.output))
            /\ seq' = MaxOf(seq, number) /\ early' = ChecksToCome(kind, number)
    BY <1>2, Zenon DEF LoopYields
  <2>2. PICK e : e = Event(kind, number, v.status, v.usage, v.output) OBVIOUS
  <2>3. e.event = kind /\ e.seq = number BY <2>2 DEF Event
  <2>4. stream' = Append(stream, e) /\ Yield(e) BY <2>1, <2>2 DEF Yield
  <2>5. kind = "permission_checked" <=> early > 0 BY <1>2, Zenon DEF LoopYields
  <2>6. seq \in Nat /\ early \in 0 .. seq BY DEF NumbersInv
  <2>7. NumbersInv' /\ \A i \in DOMAIN stream : stream[i].seq # e.seq
    <3>1. CASE kind = "permission_checked"
      <4>1. number = seq - early BY <2>1, <3>1 DEF Numbers
      <4>2. seq' = seq BY <2>1, <2>6, <4>1 DEF MaxOf
      <4>3. early' = early - 1 BY <2>1, <3>1 DEF ChecksToCome
      <4> QED BY <2>3, <2>4, <2>5, <3>1, <4>1, <4>2, <4>3, KeptNumber
    <3>2. CASE kind # "permission_checked"
      <4>1. early = 0 BY <2>5, <2>6, <3>2
      <4>2. number \in Nat /\ number > seq
        <5>1. kind = "tool_call_started" => number \in {seq + 1 + checks : checks \in 0 .. MaxChecks}
          BY <2>1 DEF Numbers
        <5>2. kind # "tool_call_started" => number \in {seq + 1, seq + 2}
          BY <2>1, <3>2 DEF Numbers
        <5> QED BY <2>6, <5>1, <5>2, RecordedRunAssumption
      <4>3. seq' = number BY <2>1, <2>6, <4>2 DEF MaxOf
      <4>4. PICK k \in 0 .. number - (seq + 1) :
                k = early' /\ (k > 0 => kind = "tool_call_started")
        <5>1. CASE kind = "tool_call_started"
          <6>1. early' = number - (seq + 1) BY <2>1, <5>1 DEF ChecksToCome
          <6> QED BY <2>6, <4>2, <5>1, <6>1
        <5>2. CASE kind # "tool_call_started"
          <6>1. early' = 0 BY <2>1, <3>2, <4>1, <5>2 DEF ChecksToCome
          <6> QED BY <2>6, <4>2, <6>1
        <5> QED BY <5>1, <5>2
      <4> QED BY <2>3, <2>4, <4>1, <4>2, <4>3, <4>4, NextNumber
    <3> QED BY <3>1, <3>2
  <2> QED BY <2>4, <2>7, YieldKeepsLoss
<1>3. CASE Close
  <2>1. CASE LastKind = "run_completed"
    <3>1. UNCHANGED <<stream, seq, early, events, faults>>
      BY <1>3, <2>1, Zenon DEF Close, recordVars
    <3> QED BY <1>1, <3>1
  <2>2. CASE LastKind # "run_completed"
    <3>1. PICK e : Yield(e) /\ e = Event("run_completed", seq + 1, "error", UsageTotal, FALSE)
      BY <1>3, <2>2, Zenon DEF Close
    <3>2. seq' = seq + 1 /\ early' = early BY <1>3, <2>2 DEF Close
    <3>3. e.seq = seq + 1 BY <3>1 DEF Event
    <3>4. stream' = Append(stream, e) BY <3>1 DEF Yield
    <3>5. early = 0 /\ seq \in Nat
      <4>1. LastKind \in {"error", "run_completed"}
        BY <1>3 DEF Close, RecordInv, PlaceOfRun
      <4> QED BY <4>1 DEF NumbersInv
    <3>6. PICK m \in Nat : m = seq + 1 BY <3>5
    <3>7. 0 \in 0 .. m - (seq + 1) /\ m > seq BY <3>5, <3>6
    <3>8. NumbersInv' /\ \A i \in DOMAIN stream : stream[i].seq # e.seq
      BY <3>2, <3>3, <3>4, <3>5, <3>6, <3>7, NextNumber
    <3> QED BY <3>1, <3>8, YieldKeepsLoss
  <2> QED BY <2>1, <2>2
<1>4. CASE CloseRecorder \/ Cancel
  <2>1. PICK status \in {"failed", "cancelled"} : FinishRecorder(status)
    BY <1>4 DEF CloseRecorder, Cancel
  <2>2. UNCHANGED <<stream, seq, early>> BY <1>4 DEF CloseRecorder, Cancel
  <2>3. UNCHANGED events BY <2>1, Zenon DEF FinishRecorder, Finish, recordVars
  <2>4. \E n \in 0 .. Len(FinishWrites) : Commits(n, Len(FinishWrites))
    BY <2>1, Zenon DEF FinishRecorder
  <2>5. faults' \in Nat /\ faults <= faults' BY <1>0, <2>4 DEF Commits
  <2> QED BY <2>2, <2>3, <2>5, NumbersStutter
<1>5. CASE \/ Begin \/ CancelCleanup \/ Raise \/ ReadStream \/ Judge \/ Restart
           \/ UNCHANGED vars
  <2>1. UNCHANGED <<stream, seq, early, events, faults>>
    BY <1>5, Zenon
    DEF Begin, CancelCleanup, Raise, ReadStream, Judge, Restart, MarkInterrupted, vars,
        recordVars, producer, bounds
  <2> QED BY <1>1, <2>1
<1> QED BY <1>2, <1>3, <1>4, <1>5, Zenon DEF Next, RunStep

LEMMA LossInit == Init => NumbersInv /\ LossInv
<1> SUFFICES ASSUME Init PROVE NumbersInv /\ LossInv OBVIOUS
<1>1. stream = <<>> /\ seq = 0 /\ early = 0 /\ events = {} /\ faults = 0 BY DEF Init, RecorderInit
<1>2. DOMAIN stream = {} /\ LastKind = "none" BY <1>1 DEF LastKind
<1>3. Missing = {} BY <1>2 DEF Missing
<1>4. Cardinality(Missing) = 0 BY <1>3, FS_EmptySet
<1>5. NumbersInv BY <1>1, <1>2 DEF NumbersInv
<1>6. LossInv BY <1>1, <1>4 DEF LossInv
<1> QED BY <1>5, <1>6

\* What the time line shows was yielded, and it lacks at most one event for every
\* commit that failed: no event is dropped because another one took its number,
\* although the checks of its permissions are numbered before a call and yielded
\* behind it (recorder.py, run_tool).
THEOREM LossesAreBounded == Spec => []LossIsBounded
<1>1. LossInv => LossIsBounded
  <2> SUFFICES ASSUME LossInv PROVE LossIsBounded OBVIOUS
  <2>1. events \subseteq Range(stream) BY DEF LossInv, Range
  <2>2. PICK c : c = Cardinality(Missing) OBVIOUS
  <2>3. c <= faults BY <2>2 DEF LossInv
  <2>4. Cardinality({i \in DOMAIN stream : stream[i] \notin events}) <= faults
    BY <2>2, <2>3, Zenon DEF Missing
  <2> QED BY <2>1, <2>4 DEF LossIsBounded
<1> QED BY <1>1, LossInit, LossStep, RecordInvHolds, PTL DEF Spec

-----------------------------------------------------------------------------
(* The two accounts of one run                                              *)

Verdicts == {"passed", "failed", "judge_failed"}

\* A case is judged behind a stream that ended with an answer, and what it has
\* counted is the stream it has read to its end.
CaseInv ==
    /\ CaseShape
    /\ case.pc = "judging" \/ case.st \in Verdicts =>
           pc = "ended" /\ FinalStatus(stream) \in {"completed", "max_rounds"}
    /\ case.requests # NoCount \/ case.tools # NoCount =>
           /\ pc = "ended"
           /\ case.requests = ModelCalls(stream) /\ case.tools = ToolCallsDone(stream)

\* A case with the counts of a stream at its end, or with none.
CaseCounted ==
    \/ case'.requests = NoCount /\ case'.tools = NoCount
    \/ /\ pc = "ended"
       /\ case'.requests = ModelCalls(stream) /\ case'.tools = ToolCallsDone(stream)

\* A step of the reader, who leaves the stream alone.
LEMMA ReaderKeepsCase ==
    ASSUME CaseInv, UNCHANGED <<pc, stream>>, CaseShape', CaseCounted,
           case'.pc = "judging" \/ case'.st \in Verdicts =>
               pc = "ended" /\ FinalStatus(stream) \in {"completed", "max_rounds"}
    PROVE  CaseInv'
<1>1. /\ ModelCalls(stream') = ModelCalls(stream)
      /\ ToolCallsDone(stream') = ToolCallsDone(stream)
      /\ FinalStatus(stream') = FinalStatus(stream)
  BY Zenon
<1> QED BY <1>1 DEF CaseInv, CaseCounted

\* A run that has returned goes on no more.
LEMMA EndedStays ==
    ASSUME UNCHANGED case, CaseInv,
           pc = "ended" => pc' = "ended" /\ stream' = stream
    PROVE  CaseInv'
<1>1. pc = "ended" => /\ ModelCalls(stream') = ModelCalls(stream)
                      /\ ToolCallsDone(stream') = ToolCallsDone(stream)
                      /\ FinalStatus(stream') = FinalStatus(stream)
  BY Zenon
<1> QED BY <1>1 DEF CaseInv, CaseShape

LEMMA SettledCounts ==
    ASSUME CaseShape, NEW st, NEW score, NEW requests, NEW tools,
           case' = Settled(st, score, requests, tools)
    PROVE  /\ CaseShape' /\ case'.pc = "done" /\ case'.st = st
           /\ case'.requests = requests /\ case'.tools = tools
BY DEF CaseShape, Settled

LEMMA ReadKeepsCase ==
    ASSUME CaseInv, ReadStream PROVE CaseInv'
<1>1. CaseShape /\ UNCHANGED <<pc, stream>> BY DEF ReadStream, producer, CaseInv
<1>2. "cancelled" \notin Verdicts /\ "execution_failed" \notin Verdicts BY DEF Verdicts
<1>3. CASE RunRaised
  <2>1. case' = Settled("execution_failed", NoScore, NoCount, NoCount)
    BY <1>3, Zenon DEF RunRaised
  <2>2. /\ CaseShape' /\ case'.pc = "done" /\ case'.st = "execution_failed"
        /\ case'.requests = NoCount /\ case'.tools = NoCount
    BY <1>1, <2>1, SettledCounts
  <2> QED BY <1>1, <1>2, <2>2, ReaderKeepsCase DEF CaseCounted
<1>4. ASSUME NEW cancelled \in BOOLEAN, NEW blank \in BOOLEAN, NEW evaluator, pc = "ended",
             Answer(stream, cancelled, blank, evaluator)
      PROVE  CaseInv'
  <2>1. case.pc = "running" BY <1>4, Zenon DEF Answer
  <2>2. PICK q, t : q = ModelCalls(stream) /\ t = ToolCallsDone(stream) OBVIOUS
  <2>3. ASSUME NEW st \in {"cancelled", "execution_failed"},
               case' = Settled(st, NoScore, q, t)
        PROVE  CaseInv'
    <3>1. /\ CaseShape' /\ case'.pc = "done" /\ case'.st = st
          /\ case'.requests = q /\ case'.tools = t
      BY <1>1, <2>3, SettledCounts
    <3> QED BY <1>1, <1>2, <1>4, <2>2, <3>1, ReaderKeepsCase DEF CaseCounted
  <2>4. ASSUME FinalStatus(stream) \in {"completed", "max_rounds"},
               case' = [case EXCEPT !.pc = "judging", !.evaluator = evaluator,
                                    !.requests = q, !.tools = t]
        PROVE  CaseInv'
    <3>1. CaseShape' /\ case'.requests = q /\ case'.tools = t
      BY <1>1, <2>4 DEF CaseShape
    <3> QED BY <1>1, <1>4, <2>2, <2>4, <3>1, ReaderKeepsCase DEF CaseCounted
  <2>5. \/ case' = Settled("cancelled", NoScore, q, t)
        \/ case' = Settled("execution_failed", NoScore, q, t)
        \/ /\ FinalStatus(stream) \in {"completed", "max_rounds"}
           /\ case' = [case EXCEPT !.pc = "judging", !.evaluator = evaluator,
                                   !.requests = q, !.tools = t]
    BY <1>4, <2>2, Zenon DEF Answer
  <2> QED BY <2>3, <2>4, <2>5
<1> QED BY <1>3, <1>4, Zenon DEF ReadStream

LEMMA JudgeKeepsCase ==
    ASSUME CaseInv, Judge PROVE CaseInv'
<1>1. CaseShape /\ UNCHANGED <<pc, stream>> BY DEF Judge, producer, CaseInv
<1>2. case.pc = "judging"
  BY Zenon DEF Judge, Evaluate, ExactMatch, JudgeAnswers, JudgeUnavailable
<1>3. pc = "ended" /\ FinalStatus(stream) \in {"completed", "max_rounds"}
  BY <1>2 DEF CaseInv
<1>4. \/ \E st, score : case' = Settled(st, score, case.requests, case.tools)
      \/ case' = [case EXCEPT !.asked = 1]
  BY Zenon DEF Judge, Evaluate, ExactMatch, JudgeAnswers, JudgeUnavailable, Judged
<1>5. CaseShape' /\ case'.requests = case.requests /\ case'.tools = case.tools
  <2>1. ASSUME NEW st, NEW score, case' = Settled(st, score, case.requests, case.tools)
        PROVE  CaseShape' /\ case'.requests = case.requests /\ case'.tools = case.tools
    BY <1>1, <2>1, SettledCounts
  <2>2. CASE case' = [case EXCEPT !.asked = 1] BY <1>1, <2>2 DEF CaseShape
  <2> QED BY <1>4, <2>1, <2>2
<1>6. CaseCounted BY <1>5 DEF CaseInv, CaseCounted
<1> QED BY <1>1, <1>3, <1>5, <1>6, ReaderKeepsCase

LEMMA CaseInvStep == CaseInv /\ [Next]_vars => CaseInv'
<1> SUFFICES ASSUME CaseInv, [Next]_vars PROVE CaseInv' OBVIOUS
<1>1. CASE Begin
  <2>1. pc = "idle" /\ CaseShape BY <1>1 DEF Begin, CaseInv
  <2>2. CASE UNCHANGED case BY <2>1, <2>2, EndedStays
  <2>3. CASE CaseStarts
    <3>1. case' = [case EXCEPT !.pc = "running", !.st = "running"] BY <2>3 DEF CaseStarts
    <3>2. /\ CaseShape' /\ case'.pc = "running" /\ case'.st = "running"
          /\ case'.requests = case.requests /\ case'.tools = case.tools
      BY <2>1, <3>1 DEF CaseShape
    <3>3. case.requests = NoCount /\ case.tools = NoCount BY <2>1 DEF CaseInv
    <3>4. "running" \notin Verdicts BY DEF Verdicts
    <3> QED BY <3>2, <3>3, <3>4 DEF CaseInv
  <2> QED BY <1>1, <2>2, <2>3 DEF Begin
<1>2. CASE ReadStream BY <1>2, ReadKeepsCase
<1>3. CASE Judge BY <1>3, JudgeKeepsCase
<1>4. CASE Restart
  <2>1. (pc = "ended" => pc' = "ended" /\ stream' = stream) /\ CaseShape
    BY <1>4 DEF Restart, Working, CaseInv
  <2>2. CASE UNCHANGED case BY <2>1, <2>2, EndedStays
  <2>3. CASE case' = [case EXCEPT !.pc = "done", !.st = "cancelled", !.score = NoScore,
                                  !.requests = NoCount, !.tools = NoCount]
    <3>1. /\ CaseShape' /\ case'.pc = "done" /\ case'.st = "cancelled"
          /\ case'.requests = NoCount /\ case'.tools = NoCount
      BY <2>1, <2>3 DEF CaseShape
    <3>2. "cancelled" \notin Verdicts BY DEF Verdicts
    <3> QED BY <3>1, <3>2 DEF CaseInv
  <2> QED BY <1>4, <2>2, <2>3, Zenon DEF Restart, CaseInterrupted
<1>5. ASSUME NEW kind, LoopYields(kind) PROVE CaseInv'
  <2>1. pc = "loop" /\ UNCHANGED case BY <1>5, Zenon DEF LoopYields
  <2> QED BY <2>1, EndedStays
<1>6. CASE Close \/ CloseRecorder \/ Cancel \/ CancelCleanup \/ Raise
  <2>1. pc # "ended" /\ UNCHANGED case
    BY <1>6 DEF Close, CloseRecorder, Cancel, CancelCleanup, Raise
  <2> QED BY <2>1, EndedStays
<1>7. CASE UNCHANGED vars
  <2>1. UNCHANGED <<case, pc, stream>> BY <1>7, Zenon DEF vars, producer
  <2> QED BY <2>1, EndedStays
<1> QED BY <1>1, <1>2, <1>3, <1>4, <1>5, <1>6, <1>7, Zenon DEF Next, RunStep

\* The page of a run and the row of its case agree: a case is only judged if the
\* page shows an answer, and where both have counts they are the same, although
\* the recorder counts event by event and the case at the end (runner.py).
THEOREM AccountsAgree == Spec => []CaseAgreesWithRecord
<1>1. Init => CaseInv
  <2> SUFFICES ASSUME Init PROVE CaseInv OBVIOUS
  <2>1. /\ DOMAIN case = {"pc", "evaluator", "asked", "st", "score", "requests", "tools"}
        /\ case.pc = "waiting" /\ case.st = "pending"
        /\ case.requests = NoCount /\ case.tools = NoCount
    BY DEF Init, CaseInit
  <2> QED BY <2>1 DEF CaseInv, CaseShape, Verdicts
<1>2. RecordInv /\ CountsInv /\ CaseInv => CaseAgreesWithRecord
  <2> SUFFICES ASSUME RecordInv, CountsInv, CaseInv PROVE CaseAgreesWithRecord OBVIOUS
  <2>1. ASSUME case.st \in Verdicts, faults = 0 PROVE run.st \in {"succeeded", "partial"}
    <3>1. pc = "ended" /\ FinalStatus(stream) \in {"completed", "max_rounds"}
      BY <2>1 DEF CaseInv
    <3>2. LastKind = "run_completed" /\ run.st = StatusOf(Last(stream).status)
      BY <2>1, <3>1 DEF RecordInv, PlaceOfRun, RowIsHonest
    <3>3. FinalStatus(stream) = Last(stream).status
      BY <3>2, Zenon DEF FinalStatus, LastKind
    <3>4. Last(stream).status \in {"completed", "max_rounds"} BY <3>1, <3>3, Zenon
    <3> QED BY <3>2, <3>4, StatusOfEnding
  <2>2. ASSUME case.requests # NoCount, run.reason = "own"
        PROVE  case.requests = run.requests /\ case.tools = run.tools
    BY <2>2 DEF CaseInv, CountsInv, CountsAreOfTheStream
  <2> QED BY <2>1, <2>2 DEF CaseAgreesWithRecord, Verdicts
<1> QED BY <1>1, <1>2, CaseInvStep, CountsInvInit, CountsInvStep, RecordInvHolds, PTL DEF Spec

-----------------------------------------------------------------------------
(* Choosing the members of a sequence                                       *)

Rank(I, i) == Cardinality({j \in I : j <= i})
Kth(I, k) == CHOOSE i \in I : Rank(I, i) = k

Ranked(I) ==
    /\ Cardinality(I) \in Nat
    /\ \A i \in I : Rank(I, i) \in 1 .. Cardinality(I)
    /\ \A i, j \in I : i < j => Rank(I, i) < Rank(I, j)

\* Among finitely many numbers a later one has a higher rank, and every rank up
\* to their number is taken, because different numbers have different ranks.
LEMMA RanksRise ==
    ASSUME NEW I, I \subseteq Nat, IsFiniteSet(I) PROVE Ranked(I)
<1> DEFINE upTo(i) == {j \in I : j <= i}
<1>1. \A i \in I : IsFiniteSet(upTo(i)) /\ upTo(i) \subseteq I BY FS_Subset
<1>2. PICK c \in Nat : c = Cardinality(I) BY FS_CardinalityType
<1>3. ASSUME NEW i \in I PROVE Rank(I, i) \in 1 .. c
  <2>1. PICK A : A = upTo(i) OBVIOUS
  <2>2. IsFiniteSet(A) /\ A \subseteq I /\ i \in A BY <1>1, <2>1
  <2>3. PICK r \in Nat : r = Cardinality(A) BY <2>2, FS_CardinalityType
  <2>4. r <= c BY <1>2, <2>2, <2>3, FS_Subset
  <2>5. r # 0 BY <2>2, <2>3, FS_EmptySet
  <2> QED BY <2>1, <2>3, <2>4, <2>5 DEF Rank
<1>4. ASSUME NEW i \in I, NEW j \in I, i < j PROVE Rank(I, i) < Rank(I, j)
  <2>1. PICK A, B : A = upTo(i) /\ B = upTo(j) OBVIOUS
  <2>2. A \subseteq B /\ j \in B /\ j \notin A
    <3>1. \A x \in A : x \in B BY <1>4, <2>1
    <3>2. j \in B /\ j \notin A BY <1>4, <2>1
    <3> QED BY <3>1, <3>2
  <2>3. IsFiniteSet(B) /\ IsFiniteSet(A) BY <1>1, <2>1
  <2>4. PICK a \in Nat, b \in Nat : a = Cardinality(A) /\ b = Cardinality(B)
    BY <2>3, FS_CardinalityType
  <2>5. a <= b /\ a # b
    <3>1. A # B BY <2>2
    <3> QED BY <2>2, <2>3, <2>4, <3>1, FS_Subset
  <2> QED BY <2>1, <2>4, <2>5 DEF Rank
<1> QED BY <1>2, <1>3, <1>4 DEF Ranked

LEMMA KthIs ==
    ASSUME NEW I, I \subseteq Nat, IsFiniteSet(I), NEW k \in 1 .. Cardinality(I)
    PROVE  Kth(I, k) \in I /\ Rank(I, Kth(I, k)) = k
<1>0. Ranked(I) BY RanksRise
<1>1. PICK c \in Nat : c = Cardinality(I) BY FS_CardinalityType
<1> DEFINE rank == [i \in I |-> Rank(I, i)]
<1>2. rank \in Injection(I, 1 .. c)
  <2>1. rank \in [I -> 1 .. c] BY <1>0, <1>1 DEF Ranked
  <2>2. ASSUME NEW i \in I, NEW j \in I, rank[i] = rank[j] PROVE i = j
    <3>1. Rank(I, i) = Rank(I, j) BY <2>2
    <3>2. Rank(I, i) \in Nat /\ Rank(I, j) \in Nat BY <1>0, <1>1 DEF Ranked
    <3>3. ~ (i < j) /\ ~ (j < i) BY <1>0, <3>1, <3>2 DEF Ranked
    <3> QED BY <3>3
  <2> HIDE DEF rank
  <2> QED BY <2>1, <2>2 DEF Injection, IsInjective
<1>3. IsFiniteSet(1 .. c) /\ Cardinality(1 .. c) = c BY <1>1, FS_Interval
<1>4. rank \in Surjection(I, 1 .. c)
  <2> HIDE DEF rank
  <2> QED BY <1>1, <1>2, <1>3, FS_Injection
<1>5. PICK i \in I : rank[i] = k
  <2> HIDE DEF rank
  <2> QED BY <1>1, <1>4 DEF Surjection
<1>6. Rank(I, i) = k BY <1>5
<1> QED BY <1>6 DEF Kth

\* Two ways through the same members: f takes the places of one to the places
\* of the other, all of them and in their order.
Aligned(f, I, J) ==
    /\ f \in [I -> J]
    /\ \A j \in J : \E i \in I : f[i] = j
    /\ \A x, y \in I : x < y => f[x] < f[y]

RanksAlike(f, I, J) ==
    /\ IsFiniteSet(J) /\ Cardinality(J) = Cardinality(I)
    /\ \A i \in I : Rank(J, f[i]) = Rank(I, i)

LEMMA AlignedRanks ==
    ASSUME NEW I, I \subseteq Nat, IsFiniteSet(I), NEW J, J \subseteq Nat, NEW f, Aligned(f, I, J)
    PROVE  RanksAlike(f, I, J)
<1>1. f \in [I -> J] /\ \A j \in J : \E i \in I : f[i] = j BY DEF Aligned
<1>2. ASSUME NEW x \in I, NEW y \in I PROVE x <= y <=> f[x] <= f[y]
  <2>1. f[x] \in Nat /\ f[y] \in Nat /\ x \in Nat /\ y \in Nat BY <1>1
  <2>2. (x < y => f[x] < f[y]) /\ (y < x => f[y] < f[x]) BY DEF Aligned
  <2> QED BY <2>1, <2>2
<1>3. \A x, y \in I : f[x] = f[y] => x = y
  <2> SUFFICES ASSUME NEW x \in I, NEW y \in I, f[x] = f[y] PROVE x = y OBVIOUS
  <2>1. x \in Nat /\ y \in Nat /\ f[x] \in Nat BY <1>1
  <2>2. (x < y => f[x] < f[y]) /\ (y < x => f[y] < f[x]) BY DEF Aligned
  <2> QED BY <2>1, <2>2
<1>4. ASSUME NEW A, A \subseteq I, NEW B, B \subseteq J,
             \A x \in I : x \in A <=> f[x] \in B
      PROVE  IsFiniteSet(B) /\ Cardinality(B) = Cardinality(A)
  <2>1. IsFiniteSet(A) BY <1>4, FS_Subset
  <2> DEFINE g == [x \in A |-> f[x]]
  <2>2. g \in Bijection(A, B)
    <3>1. g \in [A -> B] BY <1>4
    <3>2. \A x, y \in A : g[x] = g[y] => x = y BY <1>3, <1>4
    <3>3. \A z \in B : \E x \in A : g[x] = z BY <1>1, <1>4
    <3> HIDE DEF g
    <3> QED BY <3>1, <3>2, <3>3 DEF Bijection, Injection, IsInjective, Surjection
  <2>3. ExistsBijection(A, B) BY <2>2 DEF ExistsBijection
  <2> QED BY <2>1, <2>3, FS_Bijection
<1>5. IsFiniteSet(J) /\ Cardinality(J) = Cardinality(I)
  <2>1. \A x \in I : x \in I <=> f[x] \in J BY <1>1
  <2> QED BY <1>4, <2>1
<1>6. ASSUME NEW i \in I PROVE Rank(J, f[i]) = Rank(I, i)
  <2>1. PICK A, B : A = {x \in I : x <= i} /\ B = {y \in J : y <= f[i]} OBVIOUS
  <2>2. A \subseteq I /\ B \subseteq J BY <2>1
  <2>3. \A x \in I : x \in A <=> f[x] \in B BY <1>1, <1>2, <2>1
  <2>4. Cardinality(B) = Cardinality(A) BY <1>4, <2>2, <2>3
  <2> QED BY <2>1, <2>4, Zenon DEF Rank
<1> QED BY <1>5, <1>6 DEF RanksAlike

MembersAlike(f, I, J) ==
    /\ Cardinality(J) = Cardinality(I)
    /\ \A k \in 1 .. Cardinality(I) : Kth(I, k) \in I /\ Kth(J, k) = f[Kth(I, k)]

\* Then the k-th member is the same both ways.
LEMMA AlignedMembers ==
    ASSUME NEW I, I \subseteq Nat, IsFiniteSet(I), NEW J, J \subseteq Nat, NEW f, Aligned(f, I, J)
    PROVE  MembersAlike(f, I, J)
<1>0. RanksAlike(f, I, J) BY AlignedRanks
<1>1. IsFiniteSet(J) /\ Cardinality(J) = Cardinality(I) BY <1>0 DEF RanksAlike
<1>2. ASSUME NEW k \in 1 .. Cardinality(I) PROVE Kth(I, k) \in I /\ Kth(J, k) = f[Kth(I, k)]
  <2>1. PICK i : i = Kth(I, k) OBVIOUS
  <2>2. i \in I /\ Rank(I, i) = k BY <2>1, KthIs
  <2>3. PICK x \in J : x = f[i] BY <2>2 DEF Aligned
  <2>4. Rank(J, x) = k BY <1>0, <2>2, <2>3 DEF RanksAlike
  <2>5. PICK j : j = Kth(J, k) OBVIOUS
  <2>6. j \in J /\ Rank(J, j) = k
    <3>1. k \in 1 .. Cardinality(J) BY <1>1
    <3> QED BY <1>1, <2>5, <3>1, KthIs
  <2>7. k \in Int
    <3>1. Cardinality(I) \in Nat BY FS_CardinalityType
    <3> QED BY <3>1
  <2>8. ~ (j < x) /\ ~ (x < j)
    <3>1. Ranked(J) BY <1>1, RanksRise
    <3> QED BY <2>3, <2>4, <2>6, <2>7, <3>1 DEF Ranked
  <2>9. j = x BY <2>6, <2>8
  <2> QED BY <2>1, <2>2, <2>3, <2>5, <2>9
<1> QED BY <1>1, <1>2 DEF MembersAlike

-----------------------------------------------------------------------------
(* The replay                                                               *)

HasOutputText(e) ==
    e.event = "summary_completed" \/ (e.event = "model_request_completed" /\ e.output)

\* Only a permission check is numbered before what was yielded before it.  The
\* end of a request has a number of a request of its own, and an output that was
\* saved belongs to the end of a request that has one.
OrderInv ==
    /\ stream # <<>> => LastKind \in Promise!EventKinds
    /\ \A i, j \in DOMAIN stream :
           i < j /\ stream[j].event # "permission_checked" => stream[i].seq < stream[j].seq
    /\ \A i \in DOMAIN stream : stream[i].event \in RequestEnds =>
           /\ stream[i].call \in 0 .. ModelCalls(stream)
           /\ LastKind \in RequestStarts => stream[i].call < ModelCalls(stream)
    /\ \A i, j \in DOMAIN stream :
           /\ stream[i].event \in RequestEnds /\ stream[j].event \in RequestEnds
           /\ stream[i].call = stream[j].call
           => i = j

OutputsInv ==
    \A x \in payloads : x.type = "model_output" =>
        \E i \in DOMAIN stream : HasOutputText(stream[i]) /\ stream[i].call = x.call

\* The end of a request follows its start, and has its number.
LEMMA EndFollowsStart ==
    ASSUME NEW k \in Promise!EventKinds, NEW l \in RequestEnds, l \in Promise!Successors[k]
    PROVE  k \in RequestStarts
BY DEF Promise!EventKinds, Promise!Successors, Promise!RoundHead, Promise!InsideCall,
       RequestStarts, RequestEnds

LEMMA CallOfEnd ==
    ASSUME NEW kind \in RequestEnds PROVE CallOf(kind) = ModelCalls(stream)
<1>1. kind \in {"model_request_completed", "summary_completed"} BY DEF RequestEnds
<1>2. /\ kind \notin RequestStarts /\ kind \notin Promise!InsideCall
      /\ kind \notin {"compression_completed", "compression_failed", "compression_fallback"}
      /\ kind # "compression_started" /\ kind # "tool_call_started"
  BY <1>1 DEF RequestStarts, Promise!InsideCall
<1>3. CallOf(kind) = CountOf(RequestStarts)
  BY <1>2, Zenon DEF CallOf
<1>4. CountOf(RequestStarts) = ModelCalls(stream)
  BY Zenon DEF CountOf, ModelCalls, CountIn, RequestStarts
<1> QED BY <1>3, <1>4

\* What is yielded: the next number, or the one a permission check waited for.
Follower(e) ==
    /\ e.event \in Promise!EventKinds
    /\ e.event # "permission_checked" => e.seq \in Nat /\ e.seq > seq
    /\ e.event \in RequestEnds => e.call = ModelCalls(stream) /\ LastKind \in RequestStarts

LEMMA YieldKeepsOrder ==
    ASSUME RecordInv, NumbersInv, OrderInv, NEW e, stream' = Append(stream, e), Follower(e)
    PROVE  OrderInv'
<1>1. PICK S : stream \in Seq(S) BY DEF RecordInv, Shape, StreamShape
<1>2. PICK n : Appended(stream, stream', e, n) BY <1>1, AppendIs
<1>3. PICK s, t : s = stream /\ t = stream' OBVIOUS
<1>4. /\ n \in Nat /\ Len(t) = n + 1 /\ DOMAIN s = 1 .. n /\ DOMAIN t = 1 .. n + 1
      /\ t[n + 1] = e /\ \A i \in 1 .. n : t[i] = s[i]
  BY <1>2, <1>3 DEF Appended
<1>5. \A i \in 1 .. n + 1 : i \in 1 .. n \/ i = n + 1 BY <1>4
<1>6. LastKind' = e.event
  <2>1. t # <<>> BY <1>4
  <2>2. stream' # <<>> /\ stream'[Len(stream')] = e BY <1>3, <1>4, <2>1
  <2> QED BY <2>2, Zenon DEF LastKind, Last
<1>7. PICK c \in Nat : c = ModelCalls(stream)
  <2>1. IsFiniteSet(1 .. n) BY <1>4, FS_Interval
  <2>2. PICK A : A = {i \in DOMAIN s : s[i].event \in RequestStarts} OBVIOUS
  <2>3. A \subseteq 1 .. n BY <1>4, <2>2
  <2>4. Cardinality(A) \in Nat BY <2>1, <2>3, FS_Subset, FS_CardinalityType
  <2>5. ModelCalls(stream) = Cardinality(A)
    BY <1>3, <2>2, Zenon DEF ModelCalls, CountIn, RequestStarts
  <2> QED BY <2>4, <2>5
<1>8. PICK d : d = ModelCalls(stream') OBVIOUS
<1>9. d = c + (IF e.event \in RequestStarts THEN 1 ELSE 0)
  BY <1>1, <1>7, <1>8, CountsOfAppend DEF CountsGrow
<1>10. \A i \in 1 .. n : s[i].event \in RequestEnds =>
           s[i].call \in 0 .. c /\ (LastKind \in RequestStarts => s[i].call < c)
  BY <1>3, <1>4, <1>7 DEF OrderInv
<1>11. RequestStarts \cap RequestEnds = {} BY DEF RequestStarts, RequestEnds
<1>12. e.event \in RequestEnds => e.call = c /\ LastKind \in RequestStarts
  BY <1>7 DEF Follower
<1>13. ASSUME NEW i \in 1 .. n + 1, NEW j \in 1 .. n + 1, i < j,
              t[j].event # "permission_checked"
       PROVE  t[i].seq < t[j].seq
  <2>1. CASE j \in 1 .. n
    <3>1. i \in 1 .. n BY <1>4, <1>13, <2>1
    <3>2. t[i] = s[i] /\ t[j] = s[j] BY <1>4, <2>1, <3>1
    <3>3. s[i].seq < s[j].seq BY <1>3, <1>4, <1>13, <2>1, <3>1, <3>2 DEF OrderInv
    <3> QED BY <3>2, <3>3
  <2>2. CASE j = n + 1
    <3>1. i \in 1 .. n BY <1>4, <1>13, <2>2
    <3>2. t[i] = s[i] /\ t[j] = e BY <1>4, <2>2, <3>1
    <3>3. s[i].seq \in 0 .. seq /\ seq \in Nat BY <1>3, <1>4, <3>1 DEF NumbersInv
    <3>4. e.seq \in Nat /\ e.seq > seq BY <1>13, <3>2 DEF Follower
    <3>5. s[i].seq < e.seq
      <4>1. PICK a \in Nat, b \in Nat : a = s[i].seq /\ b = e.seq BY <3>3, <3>4
      <4> QED BY <3>3, <3>4, <4>1
    <3> QED BY <3>2, <3>5
  <2> QED BY <1>5, <2>1, <2>2
<1>14. ASSUME NEW i \in 1 .. n + 1, t[i].event \in RequestEnds
       PROVE  t[i].call \in 0 .. d /\ (e.event \in RequestStarts => t[i].call < d)
  <2>1. CASE i \in 1 .. n
    <3>1. t[i] = s[i] BY <1>4, <2>1
    <3>2. s[i].call \in 0 .. c BY <1>10, <1>14, <2>1, <3>1
    <3>3. s[i].call \in 0 .. d /\ (e.event \in RequestStarts => s[i].call < d)
      BY <1>9, <3>2
    <3> QED BY <3>1, <3>3
  <2>2. CASE i = n + 1
    <3>1. t[i] = e BY <1>4, <2>2
    <3>2. e.call = c /\ e.event \notin RequestStarts BY <1>11, <1>12, <1>14, <3>1
    <3> QED BY <1>9, <3>1, <3>2
  <2> QED BY <1>5, <2>1, <2>2
<1>15. ASSUME NEW i \in 1 .. n, t[i].event \in RequestEnds, e.event \in RequestEnds
       PROVE  t[i].call # e.call
  <2>1. t[i] = s[i] BY <1>4
  <2>2. s[i].call < c /\ s[i].call \in 0 .. c BY <1>10, <1>12, <1>15, <2>1
  <2> QED BY <1>12, <1>15, <2>1, <2>2
<1>16. ASSUME NEW i \in 1 .. n + 1, NEW j \in 1 .. n + 1,
              t[i].event \in RequestEnds, t[j].event \in RequestEnds, t[i].call = t[j].call
       PROVE  i = j
  <2>1. CASE i \in 1 .. n /\ j \in 1 .. n
    <3>1. t[i] = s[i] /\ t[j] = s[j] BY <1>4, <2>1
    <3> QED BY <1>3, <1>4, <1>16, <2>1, <3>1 DEF OrderInv
  <2>2. CASE i \in 1 .. n /\ j = n + 1 BY <1>4, <1>15, <1>16, <2>2
  <2>3. CASE i = n + 1 /\ j \in 1 .. n BY <1>4, <1>15, <1>16, <2>3
  <2>4. CASE i = n + 1 /\ j = n + 1 BY <2>4
  <2> QED BY <1>5, <2>1, <2>2, <2>3, <2>4
<1>17. LastKind' \in Promise!EventKinds BY <1>6 DEF Follower
<1> QED BY <1>3, <1>4, <1>6, <1>8, <1>13, <1>14, <1>16, <1>17 DEF OrderInv

\* An output is only saved for the end of a request that has one.
LEMMA OutputOf ==
    ASSUME NEW e, "model_output" \in Range(PayloadsOf(e)) PROVE HasOutputText(e)
<1>1. PICK i \in DOMAIN PayloadsOf(e) : PayloadsOf(e)[i] = "model_output" BY DEF Range
<1>2. CASE e.event = "model_request_completed"
  <2>1. CASE e.output BY <1>2, <2>1 DEF HasOutputText
  <2>2. CASE ~ e.output
    <3>1. PayloadsOf(e) = <<"model_input">> BY <1>2, <2>2 DEF PayloadsOf
    <3> QED BY <1>1, <3>1
  <2> QED BY <2>1, <2>2
<1>3. CASE e.event = "summary_completed" BY <1>3 DEF HasOutputText
<1>4. CASE e.event \notin {"model_request_completed", "summary_completed"}
  <2>1. PayloadsOf(e) \in {<<"tool_params">>, <<"tool_result">>, <<"compression_input">>,
                           <<"compression_output">>, <<>>}
    BY <1>4 DEF PayloadsOf
  <2>2. CASE PayloadsOf(e) = <<>> BY <1>1, <2>2
  <2>3. CASE PayloadsOf(e) # <<>>
    <3>1. PICK t : t # "model_output" /\ PayloadsOf(e) = <<t>> BY <2>1, <2>3
    <3> QED BY <1>1, <3>1
  <2> QED BY <2>2, <2>3
<1> QED BY <1>2, <1>3, <1>4

LEMMA YieldKeepsOutputs ==
    ASSUME RecordInv, OutputsInv, NEW e, Yield(e)
    PROVE  OutputsInv'
<1>1. PICK S : stream \in Seq(S) BY DEF RecordInv, Shape, StreamShape
<1>2. stream' = Append(stream, e) BY DEF Yield
<1>3. PICK n : Appended(stream, stream', e, n) BY <1>1, <1>2, AppendIs
<1>4. PICK m : Observe(e, m) BY Zenon DEF Yield
<1>5. PICK done : payloads' = payloads \cup
                      {[call |-> e.call, type |-> y] : y \in done \cap Range(PayloadsOf(e))}
  BY <1>4, Zenon DEF Observe
<1>6. PICK t : t = stream' OBVIOUS
<1>7. /\ n \in Nat /\ DOMAIN stream = 1 .. n /\ DOMAIN t = 1 .. n + 1
      /\ t[n + 1] = e /\ \A i \in 1 .. n : t[i] = stream[i]
  BY <1>3, <1>6 DEF Appended
<1>8. ASSUME NEW x \in payloads', x.type = "model_output"
      PROVE  \E i \in 1 .. n + 1 : HasOutputText(t[i]) /\ t[i].call = x.call
  <2>1. CASE x \in payloads
    <3>1. PICK i \in 1 .. n : HasOutputText(stream[i]) /\ stream[i].call = x.call
      BY <1>7, <1>8, <2>1 DEF OutputsInv
    <3>2. i \in 1 .. n + 1 /\ t[i] = stream[i] BY <1>7
    <3>3. HasOutputText(t[i]) /\ t[i].call = x.call BY <3>1, <3>2, Zenon
    <3> QED BY <3>2, <3>3
  <2>2. CASE x \notin payloads
    <3>1. PICK y \in Range(PayloadsOf(e)) : x = [call |-> e.call, type |-> y]
      BY <1>5, <2>2
    <3>2. y = "model_output" /\ x.call = e.call BY <1>8, <3>1
    <3>3. HasOutputText(e) BY <3>1, <3>2, OutputOf
    <3>4. n + 1 \in 1 .. n + 1 BY <1>7
    <3>5. HasOutputText(t[n + 1]) /\ t[n + 1].call = x.call BY <1>7, <3>2, <3>3, Zenon
    <3> QED BY <3>4, <3>5
  <2> QED BY <2>1, <2>2
<1> QED BY <1>6, <1>7, <1>8 DEF OutputsInv

LEMMA ReplayInvStutters ==
    ASSUME OrderInv, OutputsInv, UNCHANGED <<stream, payloads>>
    PROVE  OrderInv' /\ OutputsInv'
<1>1. LastKind' = LastKind BY Zenon DEF LastKind
<1>2. ModelCalls(stream') = ModelCalls(stream) BY Zenon
<1> QED BY <1>1, <1>2 DEF OrderInv, OutputsInv

LEMMA ReplayStep ==
    RecordInv /\ NumbersInv /\ OrderInv /\ OutputsInv /\ [Next]_vars => OrderInv' /\ OutputsInv'
<1> SUFFICES ASSUME RecordInv, NumbersInv, OrderInv, OutputsInv, [Next]_vars
             PROVE  OrderInv' /\ OutputsInv'
  OBVIOUS
<1>1. ASSUME NEW kind \in Promise!EventKinds, LoopYields(kind) PROVE OrderInv' /\ OutputsInv'
  <2>1. PICK number, v :
            /\ number \in Numbers(kind)
            /\ Yield(Event(kind, number, v.status, v.usage, v.output))
    BY <1>1, Zenon DEF LoopYields
  <2>2. PICK e : e = Event(kind, number, v.status, v.usage, v.output) OBVIOUS
  <2>3. e.event = kind /\ e.seq = number /\ e.call = CallOf(kind) BY <2>2 DEF Event
  <2>4. stream' = Append(stream, e) /\ Yield(e) BY <2>1, <2>2 DEF Yield
  <2>5. kind \in (IF stream = <<>> THEN Promise!Openings ELSE Promise!Successors[LastKind])
    BY <1>1, Zenon DEF LoopYields
  <2>6. seq \in Nat BY DEF NumbersInv
  <2>7. kind # "permission_checked" => number \in Nat /\ number > seq
    <3>1. kind = "tool_call_started" => number \in {seq + 1 + checks : checks \in 0 .. MaxChecks}
      BY <2>1 DEF Numbers
    <3>2. kind \notin {"tool_call_started", "permission_checked"} => number \in {seq + 1, seq + 2}
      BY <2>1 DEF Numbers
    <3> QED BY <2>6, <3>1, <3>2, RecordedRunAssumption
  <2>8. kind \in RequestEnds => LastKind \in RequestStarts
    <3> SUFFICES ASSUME kind \in RequestEnds PROVE LastKind \in RequestStarts OBVIOUS
    <3>1. stream # <<>> BY <2>5 DEF Promise!Openings, RequestEnds
    <3>2. kind \in Promise!Successors[LastKind] BY <2>5, <3>1
    <3>3. LastKind \in Promise!EventKinds BY <3>1 DEF OrderInv
    <3> QED BY <3>2, <3>3, EndFollowsStart
  <2>9. kind \in RequestEnds => e.call = ModelCalls(stream) BY <2>3, CallOfEnd
  <2>10. Follower(e) BY <2>3, <2>7, <2>8, <2>9 DEF Follower
  <2> QED BY <2>4, <2>10, YieldKeepsOrder, YieldKeepsOutputs
<1>2. CASE Close
  <2>1. CASE LastKind = "run_completed"
    <3>1. UNCHANGED <<stream, payloads>> BY <1>2, <2>1, Zenon DEF Close, recordVars
    <3> QED BY <3>1, ReplayInvStutters
  <2>2. CASE LastKind # "run_completed"
    <3>1. PICK e : Yield(e) /\ e = Event("run_completed", seq + 1, "error", UsageTotal, FALSE)
      BY <1>2, <2>2, Zenon DEF Close
    <3>2. e.event = "run_completed" /\ e.seq = seq + 1 BY <3>1 DEF Event
    <3>3. stream' = Append(stream, e) BY <3>1 DEF Yield
    <3>4. Follower(e) BY <3>2 DEF Follower, NumbersInv, RequestEnds, Promise!EventKinds
    <3> QED BY <3>1, <3>3, <3>4, YieldKeepsOrder, YieldKeepsOutputs
  <2> QED BY <2>1, <2>2
<1>3. CASE CloseRecorder \/ Cancel
  <2>1. PICK status : FinishRecorder(status) BY <1>3, Zenon DEF CloseRecorder, Cancel
  <2>2. UNCHANGED stream BY <1>3 DEF CloseRecorder, Cancel
  <2>3. UNCHANGED payloads BY <2>1, Zenon DEF FinishRecorder, Finish, recordVars
  <2> QED BY <2>2, <2>3, ReplayInvStutters
<1>4. CASE \/ Begin \/ CancelCleanup \/ Raise \/ ReadStream \/ Judge \/ Restart
           \/ UNCHANGED vars
  <2>1. UNCHANGED <<stream, payloads>>
    BY <1>4, Zenon
    DEF Begin, CancelCleanup, Raise, ReadStream, Judge, Restart, MarkInterrupted, vars,
        recordVars, producer, bounds
  <2> QED BY <2>1, ReplayInvStutters
<1> QED BY <1>1, <1>2, <1>3, <1>4, Zenon DEF Next, RunStep

\* The events of the table, found by their numbers.
LEMMA FoundByNumber ==
    ASSUME NumbersInv, LossInv
    PROVE  /\ \A i \in DOMAIN stream : stream[i] \in events =>
                  stream[i].seq \in DOMAIN ByNumber /\ ByNumber[stream[i].seq] = stream[i]
           /\ \A m \in DOMAIN ByNumber :
                  \E i \in DOMAIN stream :
                      stream[i] \in events /\ m = stream[i].seq /\ ByNumber[m] = stream[i]
<1>1. \A x, y \in events : x.seq = y.seq => x = y BY DEF NumbersInv, LossInv
<1>2. ASSUME NEW x \in events
      PROVE  x.seq \in DOMAIN ByNumber /\ ByNumber[x.seq] = x
  <2>1. x.seq \in DOMAIN ByNumber BY DEF ByNumber
  <2>2. ByNumber[x.seq] = CHOOSE y \in events : y.seq = x.seq BY <2>1 DEF ByNumber
  <2> QED BY <1>1, <2>1, <2>2
<1>3. ASSUME NEW m \in DOMAIN ByNumber
      PROVE  \E i \in DOMAIN stream :
                 stream[i] \in events /\ m = stream[i].seq /\ ByNumber[m] = stream[i]
  <2>1. PICK x \in events : m = x.seq BY DEF ByNumber
  <2>2. PICK i \in DOMAIN stream : x = stream[i] BY DEF LossInv
  <2> QED BY <1>2, <2>1, <2>2
<1> QED BY <1>2, <1>3

\* What the table offers to show is what was shown.
LEMMA ShownIsShown ==
    ASSUME OrderInv, OutputsInv, EventHasItsPayloads,
           NEW i \in DOMAIN stream, stream[i] \in events
    PROVE  IsShown(stream[i]) <=> ShownLive(stream[i])
<1> PICK e : e = stream[i] OBVIOUS
<1> SUFFICES ASSUME e.event = "model_request_completed"
             PROVE  [call |-> e.call, type |-> "model_output"] \in payloads <=> e.output
  BY DEF IsShown, ShownLive
<1>1. ASSUME e.output PROVE [call |-> e.call, type |-> "model_output"] \in payloads
  <2>1. PayloadsOf(e) = <<"model_input", "model_output">> BY <1>1 DEF PayloadsOf
  <2>2. 2 \in DOMAIN PayloadsOf(e) /\ PayloadsOf(e)[2] = "model_output" BY <2>1
  <2> QED BY <2>2 DEF EventHasItsPayloads
<1>2. ASSUME [call |-> e.call, type |-> "model_output"] \in payloads PROVE e.output
  <2>1. PICK x \in payloads : x.type = "model_output" /\ x.call = e.call BY <1>2
  <2>2. PICK j \in DOMAIN stream : HasOutputText(stream[j]) /\ stream[j].call = e.call
    BY <2>1 DEF OutputsInv
  <2>3. stream[j].event \in RequestEnds /\ stream[i].event \in RequestEnds
    BY <2>2 DEF HasOutputText, RequestEnds
  <2>4. j = i BY <2>2, <2>3 DEF OrderInv
  <2> QED BY <2>2, <2>4 DEF HasOutputText
<1> QED BY <1>1, <1>2

\* Where the two find what is shown.
LivePlaces == {i \in DOMAIN stream : stream[i] \in events /\ ShownLive(stream[i])}
TablePlaces == {n \in DOMAIN ByNumber : IsShown(ByNumber[n])}
NumberAt == [i \in LivePlaces |-> stream[i].seq]

\* The numbers lead through the table in the order of the stream.
LEMMA NumbersAlign ==
    ASSUME RecordInv, NumbersInv, LossInv, OrderInv, OutputsInv, EventHasItsPayloads
    PROVE  /\ LivePlaces \subseteq Nat /\ IsFiniteSet(LivePlaces) /\ TablePlaces \subseteq Nat
           /\ Aligned(NumberAt, LivePlaces, TablePlaces)
           /\ \A i \in LivePlaces : ByNumber[NumberAt[i]] = stream[i]
<1> DEFINE I == LivePlaces  J == TablePlaces  f == NumberAt
<1> USE DEF LivePlaces, TablePlaces, NumberAt
<1>1. I \subseteq Nat /\ IsFiniteSet(I)
  <2>1. PICK S : stream \in Seq(S) BY DEF RecordInv, Shape, StreamShape
  <2>2. PICK n \in Nat : DOMAIN stream = 1 .. n BY <2>1, LenProperties
  <2>3. IsFiniteSet(1 .. n) BY <2>2, FS_Interval
  <2> QED BY <2>2, <2>3, FS_Subset
<1>2. ASSUME NEW i \in I
      PROVE  f[i] = stream[i].seq /\ f[i] \in J /\ ByNumber[f[i]] = stream[i]
  <2>1. f[i] \in DOMAIN ByNumber /\ ByNumber[f[i]] = stream[i] BY FoundByNumber
  <2>2. IsShown(stream[i]) BY ShownIsShown
  <2>3. IsShown(ByNumber[f[i]]) BY <2>1, <2>2, Zenon
  <2> QED BY <2>1, <2>3
<1>3. ASSUME NEW j \in J PROVE j \in Nat /\ \E i \in I : f[i] = j
  <2>1. PICK i \in DOMAIN stream :
            stream[i] \in events /\ j = stream[i].seq /\ ByNumber[j] = stream[i]
    BY FoundByNumber
  <2>2. IsShown(stream[i]) BY <2>1
  <2>3. i \in I BY <2>1, <2>2, ShownIsShown
  <2>4. stream[i].seq \in 0 .. seq /\ seq \in Nat BY DEF NumbersInv
  <2> QED BY <1>2, <2>1, <2>3, <2>4
<1>4. ASSUME NEW x \in I, NEW y \in I, x < y PROVE f[x] < f[y]
  <2>1. stream[y].event # "permission_checked" BY DEF ShownLive
  <2>2. stream[x].seq < stream[y].seq BY <1>4, <2>1 DEF OrderInv
  <2> QED BY <1>2, <2>2
<1> QED BY <1>1, <1>2, <1>3, <1>4 DEF Aligned

LEMMA ReplayFollows ==
    ASSUME RecordInv, NumbersInv, LossInv, OrderInv, OutputsInv, EventHasItsPayloads
    PROVE  ReplayIsTheStream
<1> DEFINE c == Cardinality(LivePlaces)
<1>1. /\ LivePlaces \subseteq Nat /\ IsFiniteSet(LivePlaces) /\ TablePlaces \subseteq Nat
      /\ Aligned(NumberAt, LivePlaces, TablePlaces)
      /\ \A i \in LivePlaces : ByNumber[NumberAt[i]] = stream[i]
  BY NumbersAlign
<1>2. MembersAlike(NumberAt, LivePlaces, TablePlaces) BY <1>1, AlignedMembers
<1>3. Cardinality(TablePlaces) = c BY <1>2 DEF MembersAlike
<1>4. Replay = [k \in 1 .. Cardinality(TablePlaces) |-> ByNumber[Kth(TablePlaces, k)]]
  BY Zenon DEF Replay, Chosen, Kth, Rank, TablePlaces
<1>5. Chosen(stream, LAMBDA e : e \in events /\ ShownLive(e))
          = [k \in 1 .. c |-> stream[Kth(LivePlaces, k)]]
  BY Zenon DEF Chosen, Kth, Rank, LivePlaces
<1>6. \A k \in 1 .. c : ByNumber[Kth(TablePlaces, k)] = stream[Kth(LivePlaces, k)]
  BY <1>1, <1>2 DEF MembersAlike
<1> HIDE DEF c
<1>7. Replay = [k \in 1 .. c |-> stream[Kth(LivePlaces, k)]] BY <1>3, <1>4, <1>6
<1> QED BY <1>5, <1>7, Zenon DEF ReplayIsTheStream

\* After a reload the chat shows what it showed live, in the order it came: the
\* table is read by number, and the events that are shown have rising numbers,
\* although permission checks have not; and an output that was saved is one of a
\* request that had it, since no two requests share a number (build_run_replay).
THEOREM ReplayFaithful == Spec => []ReplayIsTheStream
<1> DEFINE Inv == NumbersInv /\ LossInv /\ OrderInv /\ OutputsInv
<1>1. Init => Inv
  <2> SUFFICES ASSUME Init PROVE Inv OBVIOUS
  <2>1. NumbersInv /\ LossInv BY LossInit
  <2>2. stream = <<>> /\ payloads = {} BY DEF Init, RecorderInit
  <2>3. DOMAIN stream = {} BY <2>2
  <2>4. OrderInv /\ OutputsInv BY <2>2, <2>3 DEF OrderInv, OutputsInv
  <2> QED BY <2>1, <2>4
<1>2. RecordInv /\ Inv /\ [Next]_vars => Inv' BY LossStep, ReplayStep
<1>3. RecordInv /\ Inv /\ EventHasItsPayloads => ReplayIsTheStream BY ReplayFollows
<1> HIDE DEF Inv
<1> QED BY <1>1, <1>2, <1>3, RecordInvHolds, EventsHavePayloads, PTL DEF Spec
=============================================================================
