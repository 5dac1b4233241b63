--------------------------- MODULE AgentRunProofs ---------------------------
(***************************************************************************)
(* Proofs about runs of the agent loop, for any number of runs, rounds,    *)
(* replies and answers, and for any tree of paths, roots and protected     *)
(* paths.                                                                  *)
(*                                                                         *)
(* Everything rests on one fact about the calls of a run: only the last    *)
(* one can be open, and only while the run waits for it or was killed      *)
(* while it waited (LastOpen).  So the registry holds at most one question *)
(* of a run, an accepted answer belongs to that call, and what the user    *)
(* allowed is found in the answers of earlier calls (Granted).             *)
(***************************************************************************)
EXTENDS AgentRun, SequenceTheorems, FiniteSetTheorems, TLAPS

Results ==
    {"open", "executed", "answered", "denied", "unavailable", "timeout", "cancelled"}

\* Where the names of a set lead.
Placings == UNION {[S -> Paths] : S \in SUBSET Names}

CallRecords ==
    [want : ToolRequests, judged : Placings, touched : {Untouched} \cup Placings,
     answer : Answers \cup {NoAnswer}, result : Results]

CallSet == {c \in CallRecords : c.judged \in [c.want.targets -> Paths]}

TypeOK ==
    /\ pc \in [Runs -> {"idle", "connecting", "round", "request", "calls", "mcp", "asked",
                        "closing", "ended", "killed"}]
    /\ todo \in [Runs -> Seq(ToolRequests)]
    /\ calls \in [Runs -> Seq(CallSet)]
    /\ cancel \in [Runs -> BOOLEAN]
    /\ late \in [Runs -> BOOLEAN]
    /\ grants \in [Runs -> SUBSET Paths]
    /\ link \in [Names -> Paths]

\* Only the last call is open; a run that waits, waits for it.
LastOpen(r) ==
    /\ \A i \in 1 .. Len(calls[r]) :
          calls[r][i].result = Open =>
              i = Len(calls[r]) /\ pc[r] \in {"mcp", "asked", "killed"}
    /\ pc[r] \in {"mcp", "asked"} =>
          Len(calls[r]) \in 1 .. Len(calls[r]) /\ CurrentCall(r).result = Open
    /\ pc[r] = "mcp" => CurrentCall(r).want.tool = "mcp" /\ CurrentCall(r).answer = NoAnswer

\* Every grant was allowed by an answer.
Granted(r) ==
    \A p \in grants[r] :
        \E j \in 1 .. Len(calls[r]) : /\ calls[r][j].answer = Allow
                                      /\ calls[r][j].want.tool = "guarded"
                                      /\ p \in Places(calls[r][j])

\* Nobody is asked for what is protected.
Askable(r) ==
    pc[r] = "asked" =>
        /\ CurrentCall(r).want.tool \in {"ask", "guarded"}
        /\ CurrentCall(r).want.tool = "guarded" =>
              \A p \in Places(CurrentCall(r)) : ~ IsWithin(p, Protected)

\* AcceptedAnswerCounts and OutsideNeedsConsent, call by call.
Accepted(r, i) ==
    LET call == calls[r][i] IN
    /\ call.result = "timeout" => call.answer = NoAnswer
    /\ call.result = "answered" => call.answer # NoAnswer
    /\ call.answer = Allow =>
           \/ call.result \in {"executed", "answered"}
           \/ cancel[r]
           \/ call.result = Open /\ i = Len(calls[r]) /\ pc[r] \in {"asked", "killed"}

Consented(r, i) ==
    LET call == calls[r][i] IN
    call.want.tool = "guarded" /\ call.result = "executed" =>
        /\ \A p \in Places(call) : Consent(r, i, p)
        /\ \A n \in call.want.targets :
              \/ call.touched[n] = call.judged[n]
              \/ UsedAs[r][n] # n
              \/ call.answer # NoAnswer

RunOK(r) ==
    /\ LastOpen(r) /\ Granted(r) /\ Askable(r)
    /\ \A i \in 1 .. Len(calls[r]) : Accepted(r, i) /\ Consented(r, i)

RunInv == TypeOK /\ RegistryIsExact /\ \A r \in Runs : RunOK(r)

-----------------------------------------------------------------------------
(* The three ways a step can touch the calls of a run                       *)

\* A call is added.
Adds(r, call) == calls' = [calls EXCEPT ![r] = Append(@, call)]

LEMMA Added ==
    ASSUME TypeOK, NEW r \in Runs, NEW call \in CallSet, Adds(r, call)
    PROVE  /\ calls' \in [Runs -> Seq(CallSet)]
           /\ \A x \in Runs \ {r} : calls'[x] = calls[x]
           /\ Len(calls'[r]) = Len(calls[r]) + 1 /\ Len(calls[r]) \in Nat
           /\ calls'[r][Len(calls[r]) + 1] = call
           /\ \A i \in 1 .. Len(calls[r]) : calls'[r][i] = calls[r][i]
<1>1. calls[r] \in Seq(CallSet) BY DEF TypeOK
<1>2. calls' = [calls EXCEPT ![r] = Append(calls[r], call)] BY DEF Adds
<1>3. calls'[r] = Append(calls[r], call) /\ \A x \in Runs \ {r} : calls'[x] = calls[x]
  BY <1>2 DEF TypeOK
<1>4. /\ Append(calls[r], call) \in Seq(CallSet)
      /\ Len(Append(calls[r], call)) = Len(calls[r]) + 1
      /\ \A i \in 1 .. Len(calls[r]) : Append(calls[r], call)[i] = calls[r][i]
      /\ Append(calls[r], call)[Len(calls[r]) + 1] = call
  BY <1>1, AppendProperties
<1>5. calls' \in [Runs -> Seq(CallSet)] BY <1>2, <1>4 DEF TypeOK
<1>6. Len(calls[r]) \in Nat BY <1>1, LenProperties
<1> QED BY <1>3, <1>4, <1>5, <1>6

\* A call gets its result, or its answer.
Changes(r, i, call) == calls' = [calls EXCEPT ![r] = [calls[r] EXCEPT ![i] = call]]

LEMMA Changed ==
    ASSUME TypeOK, NEW r \in Runs, NEW i \in 1 .. Len(calls[r]), NEW call \in CallSet,
           Changes(r, i, call)
    PROVE  /\ calls' \in [Runs -> Seq(CallSet)]
           /\ \A x \in Runs \ {r} : calls'[x] = calls[x]
           /\ Len(calls'[r]) = Len(calls[r]) /\ Len(calls[r]) \in Nat
           /\ calls'[r][i] = call
           /\ \A j \in 1 .. Len(calls[r]) : j # i => calls'[r][j] = calls[r][j]
<1>1. calls[r] \in Seq(CallSet) /\ Len(calls[r]) \in Nat /\ DOMAIN calls[r] = 1 .. Len(calls[r])
  BY LenProperties DEF TypeOK
<1>2. [calls[r] EXCEPT ![i] = call] \in Seq(CallSet)
      /\ Len([calls[r] EXCEPT ![i] = call]) = Len(calls[r])
  BY <1>1, ExceptSeq
<1>3. calls' = [calls EXCEPT ![r] = [calls[r] EXCEPT ![i] = call]] BY DEF Changes
<1>4. calls' \in [Runs -> Seq(CallSet)] BY <1>2, <1>3 DEF TypeOK
<1>5. calls'[r] = [calls[r] EXCEPT ![i] = call] /\ \A x \in Runs \ {r} : calls'[x] = calls[x]
  BY <1>3 DEF TypeOK
<1> QED BY <1>1, <1>2, <1>4, <1>5

-----------------------------------------------------------------------------
(* What a step leaves alone                                                 *)

LEMMA SameRun ==
    ASSUME NEW r \in Runs, RunOK(r), calls'[r] = calls[r], grants'[r] = grants[r],
           cancel[r] => cancel'[r],
           \/ pc'[r] = pc[r]
           \/ pc'[r] = "killed"
           \/ pc[r] \notin {"mcp", "asked", "killed"} /\ pc'[r] \notin {"mcp", "asked"}
    PROVE  RunOK(r)'
<1> USE DEF RunOK
<1>1. LastOpen(r)' BY DEF LastOpen, CurrentCall, Current
<1>2. Granted(r)' BY DEF Granted
<1>3. Askable(r)' BY DEF Askable, CurrentCall, Current
<1>4. ASSUME NEW i \in 1 .. Len(calls[r]) PROVE Accepted(r, i)' /\ Consented(r, i)'
  <2>1. Accepted(r, i) /\ Consented(r, i) OBVIOUS
  <2>2. Accepted(r, i)' BY <2>1 DEF Accepted, LastOpen
  <2>3. Consented(r, i)' BY <2>1 DEF Consented, Consent
  <2> QED BY <2>2, <2>3
<1> QED BY <1>1, <1>2, <1>3, <1>4

LEMMA SameRegistry ==
    ASSUME RegistryIsExact, registry' = registry,
           \A r \in Runs : /\ pc'[r] = "asked" <=> pc[r] = "asked"
                           /\ pc[r] = "asked" => Len(calls'[r]) = Len(calls[r])
    PROVE  RegistryIsExact'
BY DEF RegistryIsExact, CallId, Current

\* A step of one run that adds and changes no call.
LEMMA TaskMoves ==
    ASSUME RunInv, NEW r \in Runs,
           UNCHANGED <<calls, grants, registry>>,
           cancel' = cancel \/ cancel' = [cancel EXCEPT ![r] = TRUE],
           late' \in [Runs -> BOOLEAN], link' \in [Names -> Paths],
           todo' \in [Runs -> Seq(ToolRequests)],
           NEW q \in {"connecting", "round", "request", "calls", "closing", "ended", "killed"},
           \/ pc' = pc
           \/ pc[r] \notin {"mcp", "asked", "killed"} /\ pc' = [pc EXCEPT ![r] = q]
    PROVE  RunInv'
<1> USE DEF RunInv
<1>1. TypeOK'
  <2>1. pc' \in [Runs -> {"idle", "connecting", "round", "request", "calls", "mcp", "asked",
                         "closing", "ended", "killed"}]
    BY DEF TypeOK
  <2>2. cancel' \in [Runs -> BOOLEAN] BY DEF TypeOK
  <2>3. calls' \in [Runs -> Seq(CallSet)] /\ grants' \in [Runs -> SUBSET Paths] BY DEF TypeOK
  <2> QED BY <2>1, <2>2, <2>3 DEF TypeOK
<1>2. \A x \in Runs : cancel[x] => cancel'[x] BY DEF TypeOK
<1>3. RegistryIsExact' BY SameRegistry DEF TypeOK
<1>4. ASSUME NEW x \in Runs PROVE RunOK(x)'
  <2>1. \/ pc'[x] = pc[x]
        \/ pc[x] \notin {"mcp", "asked", "killed"} /\ pc'[x] \notin {"mcp", "asked"}
    BY DEF TypeOK
  <2> QED BY <1>2, <2>1, SameRun
<1> QED BY <1>1, <1>3, <1>4

LEMMA KillKeeps ==
    ASSUME RunInv, NEW r \in Runs, Kill(r) PROVE RunInv'
<1> USE DEF RunInv
<1>1. /\ UNCHANGED <<todo, calls, cancel, late, grants, link>>
      /\ pc' = [pc EXCEPT ![r] = "killed"] /\ registry' = registry \ {CallId(r)}
  BY DEF Kill, Goto
<1>2. TypeOK' BY <1>1 DEF TypeOK
<1>3. ASSUME NEW x \in Runs PROVE RunOK(x)'
  <2>1. pc'[x] = pc[x] \/ pc'[x] = "killed" BY <1>1 DEF TypeOK
  <2> QED BY <1>1, <2>1, SameRun
<1>4. RegistryIsExact'
  <2>1. \A x \in Runs : pc'[x] = "asked" <=> x # r /\ pc[x] = "asked" BY <1>1 DEF TypeOK
  <2>2. \A x \in Runs : CallId(x)' = CallId(x) BY <1>1 DEF CallId, Current
  <2>3. \A x \in Runs : CallId(x) = CallId(r) => x = r BY DEF CallId
  <2> QED BY <1>1, <2>1, <2>2, <2>3 DEF RegistryIsExact
<1> QED BY <1>2, <1>3, <1>4

\* Links move around the runs.
LEMMA RelinkKeeps == ASSUME RunInv, Relink PROVE RunInv'
<1> USE DEF RunInv
<1>1. UNCHANGED <<pc, todo, calls, cancel, late, grants, registry>> BY DEF Relink, runVars
<1>2. link' \in [Names -> Paths]
  <2>1. PICK m \in Moves : link' = [link EXCEPT ![m[1]] = m[2]] BY DEF Relink
  <2>2. m[2] \in Paths BY AgentRunAssumption
  <2> QED BY <2>1, <2>2 DEF TypeOK
<1>3. TypeOK' BY <1>1, <1>2 DEF TypeOK
<1>4. \A r \in Runs : RunOK(r)' BY <1>1, SameRun
<1>5. RegistryIsExact' BY <1>1, SameRegistry
<1> QED BY <1>3, <1>4, <1>5

LEMMA LoopMoves ==
    ASSUME RunInv, NEW r \in Runs,
           \/ Load(r) \/ Connected(r) \/ BeginRequest(r) \/ ReplyFails(r) \/ ReplyEnds(r)
           \/ (\E reply \in Replies : ReplyCallsTools(r, reply))
           \/ CallsDone(r) \/ CloseRun(r) \/ TimerFires(r) \/ SetCancel(r)
    PROVE  RunInv'
<1>1. todo' \in [Runs -> Seq(ToolRequests)]
  <2>1. \A reply \in Replies : reply \in Seq(ToolRequests) BY AgentRunAssumption
  <2> QED
    BY <2>1
    DEF RunInv, TypeOK, Load, Connected, BeginRequest, ReplyFails, ReplyEnds, ReplyCallsTools,
        CallsDone, CloseRun, TimerFires, SetCancel
<1>2. late' \in [Runs -> BOOLEAN] /\ link' \in [Names -> Paths]
  BY DEF RunInv, TypeOK, Load, Connected, BeginRequest, ReplyFails, ReplyEnds, ReplyCallsTools,
         CallsDone, CloseRun, TimerFires, SetCancel
<1>3. UNCHANGED <<calls, grants, registry>>
      /\ (cancel' = cancel \/ cancel' = [cancel EXCEPT ![r] = TRUE])
  BY DEF Load, Connected, BeginRequest, ReplyFails, ReplyEnds, ReplyCallsTools,
         CallsDone, CloseRun, TimerFires, SetCancel
<1>4. \/ pc' = pc
      \/ /\ pc[r] \notin {"mcp", "asked", "killed"}
         /\ \E q \in {"connecting", "round", "request", "calls", "closing", "ended", "killed"} :
               pc' = [pc EXCEPT ![r] = q]
  BY DEF Load, Connected, BeginRequest, ReplyFails, ReplyEnds, ReplyCallsTools,
         CallsDone, CloseRun, TimerFires, SetCancel, End, Goto
<1> QED BY <1>1, <1>2, <1>3, <1>4, TaskMoves

-----------------------------------------------------------------------------
(* Calls added                                                              *)

LEMMA Requested ==
    ASSUME TypeOK, NEW r \in Runs, todo[r] # <<>>
    PROVE  Head(todo[r]) \in ToolRequests /\ [todo EXCEPT ![r] = Tail(@)] \in [Runs -> Seq(ToolRequests)]
<1>1. todo[r] \in Seq(ToolRequests) BY DEF TypeOK
<1>2. Head(todo[r]) \in ToolRequests /\ Tail(todo[r]) \in Seq(ToolRequests)
  BY <1>1, HeadTailProperties
<1> QED BY <1>2 DEF TypeOK

\* A new call remembers where its targets led.
LEMMA NewCallIs ==
    ASSUME TypeOK, NEW want \in ToolRequests, NEW touched \in {Untouched} \cup Placings,
           NEW res \in Results
    PROVE  LET call == NewCall(want, touched, res) IN
           /\ call \in CallSet /\ call.want = want /\ call.result = res
           /\ call.touched = touched /\ call.answer = NoAnswer
           /\ call.judged = Judged(want)
           /\ \A p \in Places(call) : \E n \in want.targets : p = link[n]
<1>1. want.targets \in SUBSET Names BY DEF ToolRequests
<1>2. Judged(want) \in [want.targets -> Paths] BY <1>1 DEF Judged, TypeOK
<1>3. Judged(want) \in Placings BY <1>1, <1>2 DEF Placings
<1>4. PICK judged \in Placings : judged = Judged(want) /\ judged \in [want.targets -> Paths]
  BY <1>2, <1>3
<1>5. NewCall(want, touched, res) =
        [want |-> want, judged |-> judged, touched |-> touched, answer |-> NoAnswer, result |-> res]
  BY <1>4 DEF NewCall
<1>6. \A n \in want.targets : judged[n] = link[n] BY <1>4 DEF Judged
<1> QED BY <1>4, <1>5, <1>6 DEF CallSet, CallRecords, Places

LEMMA TouchingType ==
    ASSUME TypeOK, NEW r \in Runs, NEW want \in ToolRequests, NEW res
    PROVE  /\ Touching(r, want, res) \in {Untouched} \cup Placings
           /\ res = "executed" =>
                \A n \in want.targets : Touching(r, want, res)[n] = link[UsedAs[r][n]]
<1>1. want.targets \in SUBSET Names BY DEF ToolRequests
<1>2. \A n \in want.targets : UsedAs[r][n] \in Names BY <1>1, AgentRunAssumption
<1>3. Touched(r, want) \in [want.targets -> Paths] BY <1>1, <1>2 DEF Touched, TypeOK
<1>4. Touched(r, want) \in Placings BY <1>1, <1>3 DEF Placings
<1>5. \A n \in want.targets : Touched(r, want)[n] = link[UsedAs[r][n]] BY DEF Touched
<1> QED BY <1>4, <1>5 DEF Touching

LEMMA Grows ==
    ASSUME RunInv, NEW r \in Runs, pc[r] = "calls",
           NEW call \in CallSet, Adds(r, call), call.answer = NoAnswer,
           call.result \in {"open", "executed", "denied", "unavailable", "cancelled"},
           UNCHANGED <<cancel, grants, link>>,
           todo' \in [Runs -> Seq(ToolRequests)], late' \in [Runs -> BOOLEAN],
           NEW q \in {"calls", "mcp", "asked"}, pc' = [pc EXCEPT ![r] = q],
           q = "calls" <=> call.result # Open,
           q = "mcp" => call.want.tool = "mcp",
           q = "asked" => /\ call.want.tool \in {"ask", "guarded"}
                          /\ call.want.tool = "guarded" =>
                                \A p \in Places(call) : ~ IsWithin(p, Protected),
           call.want.tool = "guarded" /\ call.result = "executed" =>
               /\ \A p \in Places(call) :
                      ~ IsWithin(p, Protected) /\ IsWithin(p, Roots[r] \cup grants[r])
               /\ \A n \in call.want.targets :
                      call.touched[n] = call.judged[n] \/ UsedAs[r][n] # n,
           q = "asked" => registry' = registry \cup {<<r, Len(calls[r]) + 1>>},
           q # "asked" => registry' = registry
    PROVE  RunInv'
<1> USE DEF RunInv
<1>0. PICK n \in Nat : n = Len(calls[r]) BY LenProperties DEF TypeOK
<1>1. /\ calls' \in [Runs -> Seq(CallSet)]
      /\ \A x \in Runs \ {r} : calls'[x] = calls[x]
      /\ Len(calls'[r]) = n + 1 /\ n \in Nat
      /\ calls'[r][n + 1] = call
      /\ \A i \in 1 .. n : calls'[r][i] = calls[r][i]
  BY <1>0, Added
<1>2. pc'[r] = q /\ \A x \in Runs \ {r} : pc'[x] = pc[x] BY DEF TypeOK
<1>3. TypeOK'
  <2>1. pc' \in [Runs -> {"idle", "connecting", "round", "request", "calls", "mcp", "asked",
                         "closing", "ended", "killed"}]
    BY DEF TypeOK
  <2> QED BY <1>1, <2>1 DEF TypeOK
<1>4. ASSUME NEW x \in Runs \ {r} PROVE RunOK(x)'
  BY <1>1, <1>2, SameRun
<1>5. RunOK(r)'
  <2>0. LastOpen(r) /\ Granted(r) BY <1>0 DEF RunOK
  <2>1. \A i \in 1 .. n : calls[r][i].result # Open BY <1>0, <2>0 DEF LastOpen
  <2>2. \A i \in 1 .. n + 1 : i \in 1 .. n \/ i = n + 1 BY <1>1
  <2>3. n + 1 \in 1 .. n + 1 BY <1>1
  <2>4. LastOpen(r)'
    BY <1>1, <1>2, <2>1, <2>2, <2>3 DEF LastOpen, CurrentCall, Current, Open
  <2>5. Granted(r)'
    <3> SUFFICES ASSUME NEW p \in grants[r]
                 PROVE  \E j \in 1 .. n + 1 : /\ calls'[r][j].answer = Allow
                                              /\ calls'[r][j].want.tool = "guarded"
                                              /\ p \in Places(calls'[r][j])
      BY <1>1 DEF Granted
    <3>1. PICK j \in 1 .. n : /\ calls[r][j].answer = Allow
                              /\ calls[r][j].want.tool = "guarded"
                              /\ p \in Places(calls[r][j])
      BY <1>0, <2>0 DEF Granted
    <3>2. j \in 1 .. n + 1 /\ calls'[r][j] = calls[r][j] BY <1>1
    <3> QED BY <3>1, <3>2
  <2>6. Askable(r)' BY <1>1, <1>2 DEF Askable, CurrentCall, Current
  <2>7. ASSUME NEW i \in 1 .. n PROVE Accepted(r, i)' /\ Consented(r, i)'
    <3>1. Accepted(r, i) /\ Consented(r, i) BY <1>0 DEF RunOK
    <3>2. calls'[r][i] = calls[r][i] BY <1>1
    <3>3. Accepted(r, i)' BY <2>1, <3>1, <3>2 DEF Accepted
    <3>4. \A j \in 1 .. i : calls'[r][j] = calls[r][j] BY <1>1
    <3>5. Consented(r, i)' BY <3>1, <3>2, <3>4 DEF Consented, Consent
    <3> QED BY <3>3, <3>5
  <2>8. Accepted(r, n + 1)'
    <3>1. NoAnswer # Allow BY AgentRunAssumption
    <3>2. calls'[r][n + 1] = call BY <1>1
    <3> QED BY <3>1, <3>2 DEF Accepted
  <2>9. Consented(r, n + 1)'
    <3> SUFFICES ASSUME call.want.tool = "guarded", call.result = "executed",
                        NEW p \in Places(call), ~ IsWithin(p, Roots[r])
                 PROVE  \E j \in 1 .. n + 1 : /\ calls'[r][j].answer = Allow
                                              /\ calls'[r][j].want.tool = "guarded"
                                              /\ IsWithin(p, Places(calls'[r][j]))
      <4>1. calls'[r][n + 1] = call BY <1>1
      <4> QED BY <4>1 DEF Consented, Consent
    <3>1. PICK a \in Ancestors[p] : a \in grants[r] BY DEF IsWithin
    <3>2. PICK j \in 1 .. n : /\ calls[r][j].answer = Allow
                              /\ calls[r][j].want.tool = "guarded"
                              /\ a \in Places(calls[r][j])
      BY <1>0, <2>0, <3>1 DEF Granted
    <3>3. IsWithin(p, Places(calls[r][j])) BY <3>1, <3>2 DEF IsWithin
    <3>4. j \in 1 .. n + 1 /\ calls'[r][j] = calls[r][j] BY <1>1
    <3> QED BY <3>2, <3>3, <3>4
  <2>10. \A i \in 1 .. n + 1 : Accepted(r, i)' /\ Consented(r, i)'
    BY <2>2, <2>7, <2>8, <2>9
  <2>11. Len(calls'[r]) = n + 1 BY <1>1
  <2> QED BY <2>4, <2>5, <2>6, <2>10, <2>11 DEF RunOK
<1>6. RegistryIsExact'
  <2>1. \A x \in Runs \ {r} : CallId(x)' = CallId(x) /\ (pc'[x] = "asked" <=> pc[x] = "asked")
    BY <1>1, <1>2 DEF CallId, Current
  <2>2. CallId(r)' = <<r, n + 1>> BY <1>1 DEF CallId, Current
  <2>3. CASE q = "asked"
    <3>1. registry' = registry \cup {<<r, n + 1>>} BY <1>0, <2>3
    <3>2. \A x \in Runs : pc'[x] = "asked" <=> x = r \/ pc[x] = "asked" BY <1>2, <2>3
    <3>3. CallId(r)' \in registry' /\ pc[r] # "asked" BY <2>2, <3>1
    <3> QED BY <2>1, <2>2, <3>1, <3>2, <3>3 DEF RegistryIsExact
  <2>4. CASE q # "asked"
    <3>1. registry' = registry BY <2>4
    <3>2. \A x \in Runs : pc'[x] = "asked" <=> pc[x] = "asked" BY <1>2, <2>4
    <3>3. \A x \in Runs : pc[x] = "asked" => CallId(x)' = CallId(x) BY <2>1
    <3> QED BY <3>1, <3>2, <3>3 DEF RegistryIsExact
  <2> QED BY <2>3, <2>4
<1> QED BY <1>3, <1>4, <1>5, <1>6

LEMMA CallSettlesKeeps ==
    ASSUME RunInv, NEW r \in Runs, CallSettles(r) PROVE RunInv'
<1> USE DEF RunInv
<1>1. PICK want \in ToolRequests : want = Head(todo[r]) BY Requested DEF CallSettles
<1>2. PICK res \in {"executed", "denied", "unavailable", "cancelled"} :
          /\ res = Immediate(r, want)
          /\ res = "executed" /\ want.tool = "guarded" => Verdict(r, want.targets) # "deny" /\ ~ cancel[r]
  BY DEF Immediate, ToolRequests, Tools
<1>3. PICK touched \in {Untouched} \cup Placings :
          /\ touched = Touching(r, want, res)
          /\ res = "executed" => \A n \in want.targets : touched[n] = link[UsedAs[r][n]]
  BY TouchingType
<1>4. PICK call \in CallSet :
          /\ call = NewCall(want, touched, res)
          /\ call.answer = NoAnswer /\ call.result = res /\ call.want = want
          /\ call.touched = touched /\ call.judged = Judged(want)
          /\ \A p \in Places(call) : \E n \in want.targets : p = link[n]
  BY NewCallIs DEF Results
<1>5. Adds(r, call) BY <1>1, <1>2, <1>3, <1>4 DEF CallSettles, Adds
<1>6. pc' = [pc EXCEPT ![r] = "calls"] /\ pc[r] = "calls" BY DEF CallSettles, TypeOK
<1>7. todo' \in [Runs -> Seq(ToolRequests)] BY Requested DEF CallSettles
<1>8. UNCHANGED <<cancel, grants, registry, late, link>> BY DEF CallSettles
<1>9. ASSUME want.tool = "guarded", res = "executed"
      PROVE  /\ \A p \in Places(call) :
                    ~ IsWithin(p, Protected) /\ IsWithin(p, Roots[r] \cup grants[r])
             /\ \A n \in want.targets : touched[n] = call.judged[n] \/ UsedAs[r][n] # n
  <2>1. ~ MustAsk(r, want) BY <1>1 DEF CallSettles
  <2>2. Verdict(r, want.targets) = "allow" BY <1>2, <1>9, <2>1 DEF MustAsk, Verdict
  <2>3. \A n \in want.targets :
           ~ IsWithin(link[n], Protected) /\ IsWithin(link[n], Roots[r] \cup grants[r])
    BY <2>2 DEF Verdict, Check
  <2>4. \A n \in want.targets : call.judged[n] = link[n] BY <1>4 DEF Judged
  <2>5. \A n \in want.targets : touched[n] = link[UsedAs[r][n]] BY <1>3, <1>9
  <2>6. \A n \in want.targets : touched[n] = call.judged[n] \/ UsedAs[r][n] # n
    BY <2>4, <2>5
  <2>7. \A p \in Places(call) : \E n \in want.targets : p = link[n] BY <1>4
  <2> QED BY <2>3, <2>6, <2>7
<1>10. late' \in [Runs -> BOOLEAN] BY <1>8 DEF TypeOK
<1>11. /\ call.answer = NoAnswer /\ call.result # Open
       /\ call.result \in {"open", "executed", "denied", "unavailable", "cancelled"}
  BY <1>2, <1>4 DEF Open
<1>12. call.want.tool = "guarded" /\ call.result = "executed" =>
           /\ \A p \in Places(call) :
                  ~ IsWithin(p, Protected) /\ IsWithin(p, Roots[r] \cup grants[r])
           /\ \A n \in call.want.targets :
                  call.touched[n] = call.judged[n] \/ UsedAs[r][n] # n
  BY <1>4, <1>9
<1> QED BY <1>5, <1>6, <1>7, <1>8, <1>10, <1>11, <1>12, Grows

LEMMA CallAsksKeeps ==
    ASSUME RunInv, NEW r \in Runs, CallAsks(r) PROVE RunInv'
<1> USE DEF RunInv
<1>1. PICK want \in ToolRequests : want = Head(todo[r]) BY Requested DEF CallAsks
<1>2. PICK call \in CallSet :
          /\ call = NewCall(want, Untouched, Open)
          /\ call.answer = NoAnswer /\ call.result = Open /\ call.want = want
          /\ \A p \in Places(call) : \E n \in want.targets : p = link[n]
  BY NewCallIs DEF Results, Open
<1>4. Adds(r, call) BY <1>1, <1>2 DEF CallAsks, Adds
<1>5. pc' = [pc EXCEPT ![r] = "asked"] /\ pc[r] = "calls" BY DEF CallAsks, Goto
<1>6. todo' \in [Runs -> Seq(ToolRequests)] BY Requested DEF CallAsks
<1>7. /\ UNCHANGED <<cancel, grants, link>> /\ late' \in [Runs -> BOOLEAN]
      /\ registry' = registry \cup {<<r, Len(calls[r]) + 1>>}
  BY DEF CallAsks, TypeOK, Current
<1>8. /\ want.tool \in {"ask", "guarded"}
      /\ want.tool = "guarded" => \A p \in Places(call) : ~ IsWithin(p, Protected)
  <2>1. MustAsk(r, want) BY <1>1 DEF CallAsks
  <2>2. want.tool = "guarded" => \A n \in want.targets : ~ IsWithin(link[n], Protected)
    BY <2>1 DEF MustAsk, Verdict, Check
  <2> QED BY <1>2, <2>1, <2>2 DEF MustAsk
<1> QED BY <1>2, <1>4, <1>5, <1>6, <1>7, <1>8, Grows DEF Open

LEMMA CallMcpKeeps ==
    ASSUME RunInv, NEW r \in Runs, CallMcp(r) PROVE RunInv'
<1> USE DEF RunInv
<1>1. PICK want \in ToolRequests : want = Head(todo[r]) BY Requested DEF CallMcp
<1>3. PICK call \in CallSet :
          /\ call = NewCall(want, Untouched, Open)
          /\ call.answer = NoAnswer /\ call.result = Open /\ call.want = want
  BY NewCallIs DEF Results, Open
<1>4. Adds(r, call) BY <1>1, <1>3 DEF CallMcp, Adds
<1>5. pc' = [pc EXCEPT ![r] = "mcp"] /\ pc[r] = "calls" BY DEF CallMcp, Goto
<1>6. todo' \in [Runs -> Seq(ToolRequests)] BY Requested DEF CallMcp
<1>7. UNCHANGED <<cancel, grants, registry, late, link>> BY DEF CallMcp
<1>8. want.tool = "mcp" BY <1>1 DEF CallMcp, MustWaitMcp
<1>9. late' \in [Runs -> BOOLEAN] BY <1>7 DEF TypeOK
<1> QED BY <1>3, <1>4, <1>5, <1>6, <1>7, <1>8, <1>9, Grows DEF Open

-----------------------------------------------------------------------------
(* Calls settled and answered                                               *)

LEMMA Settles ==
    ASSUME RunInv, NEW r \in Runs, pc[r] \in {"mcp", "asked"},
           NEW res \in Results \ {"open"}, NEW touched \in {Untouched} \cup Placings,
           Settle(r, res, touched),
           UNCHANGED <<todo, cancel, late, link>>,
           registry' = registry \ {CallId(r)},
           \/ grants' = grants
           \/ /\ grants' = [grants EXCEPT ![r] = @ \cup Places(CurrentCall(r))]
              /\ CurrentCall(r).answer = Allow /\ CurrentCall(r).want.tool = "guarded",
           CurrentCall(r).want.tool = "guarded" /\ res = "executed" =>
               /\ CurrentCall(r).answer = Allow
               /\ \A p \in Places(CurrentCall(r)) : ~ IsWithin(p, Protected),
           res = "timeout" => CurrentCall(r).answer = NoAnswer,
           res = "answered" => CurrentCall(r).answer # NoAnswer,
           CurrentCall(r).answer = Allow => res \in {"executed", "answered"} \/ cancel[r]
    PROVE  RunInv'
<1> USE DEF RunInv
<1>0. PICK n \in Nat : n = Len(calls[r]) BY LenProperties DEF TypeOK
<1>1. n \in 1 .. n /\ LastOpen(r) /\ Granted(r) /\ calls[r][n].result = "open"
  BY <1>0 DEF RunOK, LastOpen, CurrentCall, Current, Open
<1>2. PICK old \in CallSet : old = CurrentCall(r) /\ old = calls[r][n]
  <2>1. calls[r] \in Seq(CallSet) /\ n \in DOMAIN calls[r] BY <1>0, <1>1, LenProperties DEF TypeOK
  <2>2. calls[r][n] \in CallSet BY <2>1, ElementOfSeq, <1>0, <1>1
  <2> QED BY <1>0, <2>2 DEF CurrentCall, Current
<1>3. PICK call \in CallSet :
         /\ call = [old EXCEPT !.result = res, !.touched = touched]
         /\ call.want = old.want /\ call.answer = old.answer /\ call.result = res
         /\ call.judged = old.judged
  <2>1. old \in CallRecords /\ old.judged \in [old.want.targets -> Paths] BY DEF CallSet
  <2>2. PICK call : call = [old EXCEPT !.result = res, !.touched = touched] OBVIOUS
  <2>3. /\ call.want = old.want /\ call.answer = old.answer /\ call.result = res
        /\ call.judged = old.judged
    BY <2>1, <2>2 DEF CallRecords
  <2>4. call \in CallRecords BY <2>1, <2>2 DEF CallRecords
  <2> QED BY <2>1, <2>2, <2>3, <2>4 DEF CallSet
<1>4. /\ call.want = old.want /\ call.answer = old.answer /\ call.result = res
      /\ Places(call) = Places(old)
  BY <1>3 DEF Places
<1>5. Changes(r, n, call)
  BY <1>0, <1>2, <1>3 DEF Settle, Changes, Current, TypeOK
<1>6. /\ calls' \in [Runs -> Seq(CallSet)]
      /\ \A x \in Runs \ {r} : calls'[x] = calls[x]
      /\ Len(calls'[r]) = n
      /\ calls'[r][n] = call
      /\ \A j \in 1 .. n : j # n => calls'[r][j] = calls[r][j]
  BY <1>0, <1>1, <1>5, Changed
<1>7. pc' = [pc EXCEPT ![r] = "calls"] BY DEF Settle, Goto
<1>8. pc'[r] = "calls" /\ \A x \in Runs \ {r} : pc'[x] = pc[x] BY <1>7 DEF TypeOK
<1>9. \A j \in 1 .. n : /\ calls'[r][j].want = calls[r][j].want
                        /\ calls'[r][j].answer = calls[r][j].answer
                        /\ Places(calls'[r][j]) = Places(calls[r][j])
  BY <1>2, <1>4, <1>6
<1>10. /\ \A x \in Runs \ {r} : grants'[x] = grants[x]
       /\ \A p \in grants'[r] :
             p \in grants[r] \/ (p \in Places(old) /\ old.answer = Allow /\ old.want.tool = "guarded")
  BY <1>2 DEF TypeOK
<1>11. TypeOK'
  <2>1. grants' \in [Runs -> SUBSET Paths]
    <3>1. Places(old) \subseteq Paths BY DEF CallSet, Places
    <3> QED BY <1>2, <3>1 DEF TypeOK
  <2>2. pc' \in [Runs -> {"idle", "connecting", "round", "request", "calls", "mcp", "asked",
                         "closing", "ended", "killed"}]
    BY <1>7 DEF TypeOK
  <2> QED BY <1>6, <2>1, <2>2 DEF TypeOK
<1>12. ASSUME NEW x \in Runs \ {r} PROVE RunOK(x)'
  BY <1>6, <1>8, <1>10, SameRun
<1>13. RunOK(r)'
  <2>1. LastOpen(r)'
    <3>1. \A i \in 1 .. n : i # n => calls[r][i].result # "open"
      BY <1>0, <1>1 DEF LastOpen, Open
    <3>2. \A i \in 1 .. n : calls'[r][i].result # "open" BY <1>4, <1>6, <3>1
    <3> QED BY <1>6, <1>8, <3>2 DEF LastOpen, Open
  <2>2. Askable(r)' BY <1>8 DEF Askable
  <2>3. Granted(r)'
    <3> SUFFICES ASSUME NEW p \in grants'[r]
                 PROVE  \E j \in 1 .. n : /\ calls[r][j].answer = Allow
                                          /\ calls[r][j].want.tool = "guarded"
                                          /\ p \in Places(calls[r][j])
      BY <1>6, <1>9 DEF Granted
    <3> QED BY <1>0, <1>1, <1>2, <1>10 DEF Granted
  <2>4. ASSUME NEW i \in 1 .. n, i # n PROVE Accepted(r, i)' /\ Consented(r, i)'
    <3>1. Accepted(r, i) /\ Consented(r, i) BY <1>0 DEF RunOK
    <3>2. calls'[r][i] = calls[r][i] BY <1>6, <2>4
    <3>3. Accepted(r, i)' BY <1>0, <2>4, <3>1, <3>2 DEF Accepted
    <3>4. \A j \in 1 .. i : j \in 1 .. n BY <1>1
    <3>5. Consented(r, i)' BY <1>9, <3>1, <3>2, <3>4 DEF Consented, Consent
    <3> QED BY <3>3, <3>5
  <2>5. Accepted(r, n)' BY <1>2, <1>4, <1>6 DEF Accepted, Results
  <2>6. Consented(r, n)'
    <3> SUFFICES ASSUME call.want.tool = "guarded", call.result = "executed"
                 PROVE  /\ \A p \in Places(call) : Consent(r, n, p)'
                        /\ call.answer # NoAnswer
      <4>1. calls'[r][n] = call BY <1>6
      <4> QED BY <4>1 DEF Consented
    <3>1. call.answer = Allow /\ call.answer # NoAnswer
      BY <1>2, <1>4, AgentRunAssumption
    <3>2. ASSUME NEW p \in Places(call) PROVE Consent(r, n, p)'
      <4>1. ~ IsWithin(p, Protected) BY <1>2, <1>4, <3>2
      <4>2. p \in Paths BY <3>2 DEF CallSet, Places
      <4>3. IsWithin(p, Places(call)) BY <3>2, <4>2, AgentRunAssumption DEF IsWithin
      <4>4. /\ calls'[r][n].answer = Allow /\ calls'[r][n].want.tool = "guarded"
            /\ IsWithin(p, Places(calls'[r][n]))
        BY <1>6, <3>1, <4>3
      <4> QED BY <1>1, <4>1, <4>4 DEF Consent
    <3> QED BY <3>1, <3>2
  <2>7. \A i \in 1 .. n : Accepted(r, i)' /\ Consented(r, i)' BY <2>4, <2>5, <2>6
  <2> QED BY <1>6, <2>1, <2>2, <2>3, <2>7 DEF RunOK
<1>14. RegistryIsExact'
  <2>1. \A x \in Runs : CallId(x)' = CallId(x) BY <1>0, <1>6 DEF CallId, Current
  <2>2. \A x \in Runs : CallId(x) = CallId(r) => x = r BY DEF CallId
  <2>3. \A x \in Runs : pc'[x] = "asked" <=> x # r /\ pc[x] = "asked" BY <1>8
  <2> QED BY <2>1, <2>2, <2>3 DEF RegistryIsExact
<1> QED BY <1>11, <1>12, <1>13, <1>14

LEMMA McpReturnsKeeps ==
    ASSUME RunInv, NEW r \in Runs, McpReturns(r) PROVE RunInv'
<1> USE DEF RunInv
<1>1. /\ pc[r] = "mcp" /\ Settle(r, "executed", Untouched)
      /\ UNCHANGED <<todo, cancel, late, grants, registry, link>>
  BY DEF McpReturns
<1>2. CurrentCall(r).want.tool = "mcp" /\ CurrentCall(r).answer = NoAnswer
  BY <1>1 DEF RunOK, LastOpen
<1>3. registry' = registry \ {CallId(r)}
  <2>1. \A x \in Runs : CallId(x) = CallId(r) => x = r BY DEF CallId
  <2> QED BY <1>1, <2>1 DEF RegistryIsExact
<1>4. NoAnswer # Allow BY AgentRunAssumption
<1> QED BY <1>1, <1>2, <1>3, <1>4, Settles DEF Results

LEMMA AskResumesKeeps ==
    ASSUME RunInv, NEW r \in Runs, AskResumes(r) PROVE RunInv'
<1> USE DEF RunInv
<1> DEFINE res == Resumed(CurrentCall(r).want, WaitOutcome(r), CurrentCall(r).answer)
<1> DEFINE touched == Touching(r, CurrentCall(r).want, res)
<1>1. /\ pc[r] = "asked" /\ Settle(r, res, touched)
      /\ UNCHANGED <<todo, cancel, late, link>> /\ registry' = registry \ {CallId(r)}
      /\ grants' = [grants EXCEPT ![r] =
                        IF res = "executed" THEN @ \cup Places(CurrentCall(r)) ELSE @]
  BY DEF AskResumes
<1>2. /\ CurrentCall(r).want.tool \in {"ask", "guarded"}
      /\ CurrentCall(r).want.tool = "guarded" =>
            \A p \in Places(CurrentCall(r)) : ~ IsWithin(p, Protected)
  BY <1>1 DEF RunOK, Askable
<1>3. /\ res \in Results \ {"open"}
      /\ res = "timeout" => CurrentCall(r).answer = NoAnswer
      /\ res = "answered" => CurrentCall(r).answer # NoAnswer
      /\ res = "executed" => CurrentCall(r).answer = Allow /\ CurrentCall(r).want.tool = "guarded"
      /\ CurrentCall(r).answer = Allow => res \in {"executed", "answered"} \/ cancel[r]
  BY <1>2, AgentRunAssumption DEF Resumed, WaitOutcome, Results
<1> HIDE DEF res
<1>5. touched \in {Untouched} \cup Placings
  <2>1. CurrentCall(r).want \in ToolRequests
    <3>1. PICK n \in Nat : n = Len(calls[r]) BY LenProperties DEF TypeOK
    <3>2. n \in 1 .. n BY <1>1, <3>1 DEF RunOK, LastOpen
    <3>3. calls[r] \in Seq(CallSet) BY DEF TypeOK
    <3>4. calls[r][n] \in CallSet BY <3>1, <3>2, <3>3, ElementOfSeq
    <3> QED BY <3>1, <3>4 DEF CurrentCall, Current, CallSet, CallRecords
  <2> QED BY <2>1, TouchingType
<1> HIDE DEF touched
<1>4. \/ grants' = grants
      \/ /\ grants' = [grants EXCEPT ![r] = @ \cup Places(CurrentCall(r))]
         /\ CurrentCall(r).answer = Allow /\ CurrentCall(r).want.tool = "guarded"
  <2>1. CASE res = "executed" BY <1>1, <1>3, <2>1
  <2>2. CASE res # "executed" BY <1>1, <2>2 DEF TypeOK
  <2> QED BY <2>1, <2>2
<1> QED BY <1>1, <1>2, <1>3, <1>4, <1>5, Settles

LEMMA SubmitAnswerKeeps ==
    ASSUME RunInv, NEW m \in Runs, NEW r \in Runs, NEW i \in 1 .. Current(r), NEW a \in Answers,
           SubmitAnswer(m, r, i, a)
    PROVE  RunInv'
<1> USE DEF RunInv
<1>0. PICK n \in Nat : n = Len(calls[r]) BY LenProperties DEF TypeOK
<1>1. i = n /\ n \in 1 .. n /\ pc[r] = "asked"
  <2>1. \A x \in Runs : <<r, i>> = CallId(x) => x = r /\ i = Len(calls[r]) BY DEF CallId, Current
  <2> QED BY <1>0, <2>1 DEF SubmitAnswer, RegistryIsExact, Current
<1>2. LastOpen(r) /\ Granted(r) /\ Askable(r) /\ calls[r][n].result = "open"
  BY <1>0, <1>1 DEF RunOK, LastOpen, CurrentCall, Current, Open
<1>3. PICK old \in CallSet : old = CurrentCall(r) /\ old = calls[r][n] /\ old.answer = NoAnswer
  <2>1. calls[r] \in Seq(CallSet) BY DEF TypeOK
  <2>2. calls[r][n] \in CallSet BY <1>0, <1>1, <2>1, ElementOfSeq
  <2> QED BY <1>0, <1>1, <2>2 DEF CurrentCall, Current, SubmitAnswer
<1>4. PICK call \in CallSet :
         /\ call = [old EXCEPT !.answer = a]
         /\ call.want = old.want /\ call.answer = a /\ call.result = old.result
         /\ call.judged = old.judged
  <2>1. old \in CallRecords /\ old.judged \in [old.want.targets -> Paths] BY DEF CallSet
  <2>2. PICK call : call = [old EXCEPT !.answer = a] OBVIOUS
  <2>3. /\ call.want = old.want /\ call.answer = a /\ call.result = old.result
        /\ call.judged = old.judged
    BY <2>1, <2>2 DEF CallRecords
  <2>4. call \in CallRecords BY <2>1, <2>2 DEF CallRecords
  <2> QED BY <2>1, <2>2, <2>3, <2>4 DEF CallSet
<1>5. /\ call.want = old.want /\ call.answer = a /\ call.result = "open" /\ a # NoAnswer
      /\ Places(call) = Places(old)
  BY <1>2, <1>3, <1>4, AgentRunAssumption DEF Places
<1>6. Changes(r, n, call)
  BY <1>0, <1>1, <1>3, <1>4 DEF SubmitAnswer, Changes, TypeOK
<1>7. /\ calls' \in [Runs -> Seq(CallSet)]
      /\ \A x \in Runs \ {r} : calls'[x] = calls[x]
      /\ Len(calls'[r]) = n
      /\ calls'[r][n] = call
      /\ \A j \in 1 .. n : j # n => calls'[r][j] = calls[r][j]
  BY <1>0, <1>1, <1>6, Changed
<1>8. UNCHANGED <<pc, todo, cancel, late, grants, registry, link>> BY DEF SubmitAnswer
<1>9. \A j \in 1 .. n : /\ calls'[r][j].want = calls[r][j].want
                        /\ calls'[r][j].result = calls[r][j].result
                        /\ calls[r][j].answer = Allow => calls'[r][j].answer = Allow
                        /\ Places(calls'[r][j]) = Places(calls[r][j])
  BY <1>2, <1>3, <1>5, <1>7, AgentRunAssumption
<1>10. TypeOK' BY <1>7, <1>8 DEF TypeOK
<1>11. ASSUME NEW x \in Runs \ {r} PROVE RunOK(x)' BY <1>7, <1>8, SameRun
<1>12. RunOK(r)'
  <2>1. LastOpen(r)' BY <1>0, <1>1, <1>2, <1>5, <1>7, <1>8, <1>9 DEF LastOpen, CurrentCall, Current, Open
  <2>2. Askable(r)' BY <1>0, <1>1, <1>2, <1>7, <1>8, <1>9 DEF Askable, CurrentCall, Current
  <2>3. Granted(r)'
    <3> SUFFICES ASSUME NEW p \in grants[r]
                 PROVE  \E j \in 1 .. n : /\ calls[r][j].answer = Allow
                                          /\ calls[r][j].want.tool = "guarded"
                                          /\ p \in Places(calls[r][j])
      BY <1>7, <1>8, <1>9 DEF Granted
    <3> QED BY <1>0, <1>2 DEF Granted
  <2>4. ASSUME NEW j \in 1 .. n PROVE Accepted(r, j)'
    <3>1. Accepted(r, j) BY <1>0 DEF RunOK
    <3>2. CASE j = n BY <1>1, <1>5, <1>7, <1>8, <3>2 DEF Accepted, Open
    <3>3. CASE j # n BY <1>0, <1>7, <1>8, <3>1, <3>3 DEF Accepted
    <3> QED BY <3>2, <3>3
  <2>5. ASSUME NEW j \in 1 .. n PROVE Consented(r, j)'
    <3>1. Consented(r, j) BY <1>0 DEF RunOK
    <3>2. \A k \in 1 .. j : k \in 1 .. n BY <1>1
    <3>3. calls'[r][j] = calls[r][j] \/ calls'[r][j].result = "open"
      BY <1>5, <1>7
    <3> QED BY <1>9, <3>1, <3>2, <3>3 DEF Consented, Consent
  <2> QED BY <1>7, <2>1, <2>2, <2>3, <2>4, <2>5 DEF RunOK
<1>13. RegistryIsExact'
  <2>1. \A x \in Runs : Len(calls'[x]) = Len(calls[x]) BY <1>0, <1>7
  <2> QED BY <1>8, <2>1, SameRegistry
<1> QED BY <1>10, <1>11, <1>12, <1>13

-----------------------------------------------------------------------------
(* The invariant                                                            *)

LEMMA InitRunInv == Init => RunInv
<1> SUFFICES ASSUME Init PROVE RunInv OBVIOUS
<1>1. TypeOK
  <2>1. <<>> \in Seq(ToolRequests) /\ <<>> \in Seq(CallSet) BY EmptySeq
  <2> QED BY <2>1, AgentRunAssumption DEF Init, TypeOK
<1>2. RegistryIsExact BY DEF Init, RegistryIsExact
<1>3. ASSUME NEW r \in Runs PROVE RunOK(r)
  <2>1. Len(calls[r]) = 0 BY EmptySeq DEF Init
  <2> QED BY <2>1 DEF Init, RunOK, LastOpen, Granted, Askable
<1> QED BY <1>1, <1>2, <1>3 DEF RunInv

LEMMA NextRunInv == RunInv /\ [Next]_vars => RunInv'
<1> SUFFICES ASSUME RunInv, [Next]_vars PROVE RunInv' OBVIOUS
<1>1. CASE UNCHANGED vars
  <2>1. UNCHANGED <<pc, todo, calls, cancel, late, grants, registry, link>>
    BY <1>1 DEF vars, runVars
  <2>2. TypeOK' BY <2>1 DEF RunInv, TypeOK
  <2>3. \A r \in Runs : RunOK(r)' BY <2>1, SameRun DEF RunInv
  <2>4. RegistryIsExact' BY <2>1, SameRegistry DEF RunInv
  <2> QED BY <2>2, <2>3, <2>4 DEF RunInv
<1>2. ASSUME NEW r \in Runs, LoopStep(r) PROVE RunInv'
  BY <1>2, LoopMoves, CallSettlesKeeps, CallAsksKeeps, CallMcpKeeps, AskResumesKeeps DEF LoopStep
<1>3. ASSUME NEW r \in Runs, McpReturns(r) PROVE RunInv' BY <1>3, McpReturnsKeeps
<1>4. ASSUME NEW r \in Runs, TimerFires(r) \/ SetCancel(r) PROVE RunInv' BY <1>4, LoopMoves
<1>5. ASSUME NEW r \in Runs, Kill(r) PROVE RunInv' BY <1>5, KillKeeps
<1>6. CASE User BY <1>6, SubmitAnswerKeeps DEF User
<1>7. CASE Relink BY <1>7, RelinkKeeps
<1> QED BY <1>1, <1>2, <1>3, <1>4, <1>5, <1>6, <1>7 DEF Next

THEOREM RunInvariant == Spec => []RunInv
BY InitRunInv, NextRunInv, PTL DEF Spec

\* The registry of waiting questions is exact in every reachable state: no way
\* out of a wait (an answer, the cancel signal, the timer, the death of the
\* task) leaves an entry behind, and none takes the entry of another run.
THEOREM RegistryExact == Spec => []RegistryIsExact
<1>1. RunInv => RegistryIsExact BY DEF RunInv
<1> QED BY <1>1, RunInvariant, PTL

\* An answer the route accepted is what its call ends with, whatever woke the
\* wait, unless the run is cancelled or its task dies.
THEOREM AnswersCount == Spec => []AcceptedAnswerCounts
<1>1. RunInv => AcceptedAnswerCounts
  BY DEF RunInv, RunOK, Accepted, AcceptedAnswerCounts
<1> QED BY <1>1, RunInvariant, PTL

\* For every tree of paths, roots and protected paths, every consent given and
\* every move of a link: a file or shell call is executed only with consent to
\* every target as it was judged, and it touches another path only where it
\* starts from another base or waited for its answer.
THEOREM ConsentNeeded == Spec => []OutsideNeedsConsent
<1>1. ASSUME RunInv PROVE OutsideNeedsConsent
  <2> SUFFICES ASSUME NEW r \in Runs, NEW i \in 1 .. Len(calls[r]),
                      calls[r][i].want.tool = "guarded", calls[r][i].result = "executed",
                      NEW n \in calls[r][i].want.targets
               PROVE  /\ Consent(r, i, calls[r][i].judged[n])
                      /\ \/ calls[r][i].touched[n] = calls[r][i].judged[n]
                         \/ UsedAs[r][n] # n
                         \/ calls[r][i].answer # NoAnswer
    BY DEF OutsideNeedsConsent
  <2>1. Consented(r, i) BY <1>1 DEF RunInv, RunOK
  <2>2. calls[r][i].judged[n] \in Places(calls[r][i]) BY DEF Places
  <2> QED BY <2>1, <2>2 DEF Consented
<1> QED BY <1>1, RunInvariant, PTL

-----------------------------------------------------------------------------
(* The cancel signal                                                        *)

\* What a step of NothingRunsAfterCancel may do to one run.
StillRuns(r) ==
    cancel[r] =>
        \A i \in 1 .. Len(calls'[r]) :
            calls'[r][i].result = "executed" =>
                \/ i <= Len(calls[r]) /\ calls[r][i].result = "executed"
                \/ pc[r] = "mcp"

LEMMA SameCalls ==
    ASSUME RunInv, NEW r \in Runs, calls'[r] = calls[r] PROVE StillRuns(r)
<1>1. calls[r] \in Seq(CallSet) BY DEF RunInv, TypeOK
<1>2. Len(calls[r]) \in Nat BY <1>1, LenProperties
<1> QED BY <1>2 DEF StillRuns

LEMMA SettledAfterCancel ==
    ASSUME RunInv, NEW r \in Runs, CallSettles(r) PROVE \A x \in Runs : StillRuns(x)
<1> USE DEF RunInv
<1>1. PICK want \in ToolRequests : want = Head(todo[r]) BY Requested DEF CallSettles
<1>2. PICK res \in {"executed", "denied", "unavailable", "cancelled"} :
          res = Immediate(r, want) /\ (cancel[r] => res = "cancelled")
  BY DEF Immediate, ToolRequests, Tools
<1>3. PICK call \in CallSet :
         call = NewCall(want, Touching(r, want, res), res) /\ call.result = res
  BY NewCallIs, TouchingType DEF Results
<1>4. Adds(r, call) BY <1>1, <1>2, <1>3 DEF CallSettles, Adds
<1>5. PICK n \in Nat : n = Len(calls[r]) BY LenProperties DEF TypeOK
<1>6. /\ \A x \in Runs \ {r} : calls'[x] = calls[x]
      /\ Len(calls'[r]) = n + 1 /\ calls'[r][n + 1] = call
      /\ \A i \in 1 .. n : calls'[r][i] = calls[r][i]
  BY <1>3, <1>4, <1>5, Added
<1>7. \A i \in 1 .. n + 1 : i \in 1 .. n \/ i = n + 1 OBVIOUS
<1>8. StillRuns(r) BY <1>2, <1>3, <1>5, <1>6, <1>7 DEF StillRuns
<1> QED BY <1>6, <1>8, SameCalls

LEMMA ResumedAfterCancel ==
    ASSUME RunInv, NEW r \in Runs, AskResumes(r) PROVE \A x \in Runs : StillRuns(x)
<1> USE DEF RunInv
<1>1. PICK n \in Nat : n = Len(calls[r]) BY LenProperties DEF TypeOK
<1>2. PICK res \in {"executed", "answered", "denied", "timeout", "cancelled"} :
          /\ \E touched : calls' = [calls EXCEPT ![r][n] =
                                       [@ EXCEPT !.result = res, !.touched = touched]]
          /\ cancel[r] => res # "executed"
  <2> DEFINE out == Resumed(CurrentCall(r).want, WaitOutcome(r), CurrentCall(r).answer)
  <2>1. \E touched : calls' = [calls EXCEPT ![r][n] =
                                 [@ EXCEPT !.result = out, !.touched = touched]]
    BY <1>1 DEF AskResumes, Settle, Current
  <2>2. out \in {"executed", "answered", "denied", "timeout", "cancelled"}
        /\ (cancel[r] => out # "executed")
    BY DEF Resumed, WaitOutcome
  <2> QED BY <2>1, <2>2
<1>3. calls[r] \in Seq(CallSet) /\ DOMAIN calls[r] = 1 .. n BY <1>1, LenProperties DEF TypeOK
<1>4. /\ \E touched : calls'[r] = [calls[r] EXCEPT ![n] =
                                     [@ EXCEPT !.result = res, !.touched = touched]]
      /\ \A x \in Runs \ {r} : calls'[x] = calls[x]
  BY <1>2 DEF TypeOK
<1>5. n \in 1 .. n BY <1>1 DEF AskResumes, RunOK, LastOpen
<1>6. \A i \in 1 .. n : calls[r][i] \in CallSet BY <1>1, <1>3, ElementOfSeq
<1>7. Len(calls'[r]) = n
  <2>1. DOMAIN calls'[r] = 1 .. n BY <1>3, <1>4
  <2>2. calls'[r] \in Seq(CallSet)
    <3>1. TypeOK' BY AskResumesKeeps
    <3> QED BY <3>1 DEF TypeOK
  <2> QED BY <2>1, <2>2, LenProperties
<1>8. /\ calls'[r][n].result = res
      /\ \A i \in 1 .. n : i # n => calls'[r][i] = calls[r][i]
  BY <1>3, <1>4, <1>5, <1>6 DEF CallSet, CallRecords
<1>9. StillRuns(r) BY <1>1, <1>2, <1>7, <1>8 DEF StillRuns
<1> QED BY <1>4, <1>9, SameCalls

LEMMA AnsweredAfterCancel ==
    ASSUME RunInv, NEW m \in Runs, NEW r \in Runs, NEW i \in 1 .. Current(r), NEW a \in Answers,
           SubmitAnswer(m, r, i, a)
    PROVE  \A x \in Runs : StillRuns(x)
<1> USE DEF RunInv
<1>1. PICK n \in Nat : n = Len(calls[r]) BY LenProperties DEF TypeOK
<1>2. calls[r] \in Seq(CallSet) /\ DOMAIN calls[r] = 1 .. n BY <1>1, LenProperties DEF TypeOK
<1>3. calls'[r] = [calls[r] EXCEPT ![i].answer = a] /\ \A x \in Runs \ {r} : calls'[x] = calls[x]
  BY DEF SubmitAnswer, TypeOK
<1>4. \A j \in 1 .. n : calls[r][j] \in CallSet BY <1>1, <1>2, ElementOfSeq
<1>5. Len(calls'[r]) = n
  <2>1. DOMAIN calls'[r] = 1 .. n BY <1>2, <1>3
  <2>2. calls'[r] \in Seq(CallSet)
    <3>1. TypeOK' BY SubmitAnswerKeeps
    <3> QED BY <3>1 DEF TypeOK
  <2> QED BY <2>1, <2>2, LenProperties
<1>6. \A j \in 1 .. n : calls'[r][j].result = calls[r][j].result
  BY <1>2, <1>3, <1>4 DEF CallSet
<1>7. StillRuns(r) BY <1>1, <1>5, <1>6 DEF StillRuns
<1> QED BY <1>3, <1>7, SameCalls

\* After the cancel signal nothing is started any more: only the MCP call under
\* way can still turn out executed.
THEOREM CancelStopsTools == Spec => NothingRunsAfterCancel
<1>1. RunInv /\ [Next]_vars => [\A r \in Runs : StillRuns(r)]_vars
  <2> SUFFICES ASSUME RunInv, Next PROVE \A r \in Runs : StillRuns(r) OBVIOUS
  <2>1. ASSUME NEW r \in Runs, CallSettles(r) PROVE \A x \in Runs : StillRuns(x)
    BY <2>1, SettledAfterCancel
  <2>2. ASSUME NEW r \in Runs, AskResumes(r) PROVE \A x \in Runs : StillRuns(x)
    BY <2>2, ResumedAfterCancel
  <2>3. ASSUME NEW r \in Runs, CallAsks(r) \/ CallMcp(r) PROVE \A x \in Runs : StillRuns(x)
    <3>1. ~ cancel[r] BY <2>3 DEF CallAsks, CallMcp, MustAsk, MustWaitMcp
    <3>2. \A x \in Runs \ {r} : calls'[x] = calls[x] BY <2>3 DEF CallAsks, CallMcp, RunInv, TypeOK
    <3> QED BY <3>1, <3>2, SameCalls DEF StillRuns
  <2>4. ASSUME NEW r \in Runs, McpReturns(r) PROVE \A x \in Runs : StillRuns(x)
    <3>1. pc[r] = "mcp" BY <2>4 DEF McpReturns
    <3>2. \A x \in Runs \ {r} : calls'[x] = calls[x]
      BY <2>4 DEF McpReturns, Settle, RunInv, TypeOK
    <3> QED BY <3>1, <3>2, SameCalls DEF StillRuns
  <2>5. ASSUME UNCHANGED calls PROVE \A x \in Runs : StillRuns(x) BY <2>5, SameCalls
  <2>6. ASSUME NEW r \in Runs,
               \/ Load(r) \/ Connected(r) \/ BeginRequest(r) \/ ReplyFails(r) \/ ReplyEnds(r)
               \/ (\E reply \in Replies : ReplyCallsTools(r, reply))
               \/ CallsDone(r) \/ CloseRun(r) \/ TimerFires(r) \/ SetCancel(r) \/ Kill(r)
        PROVE  UNCHANGED calls
    BY <2>6
    DEF Load, Connected, BeginRequest, ReplyFails, ReplyEnds, ReplyCallsTools, CallsDone,
        CloseRun, TimerFires, SetCancel, Kill
  <2>7. CASE User BY <2>7, AnsweredAfterCancel DEF User
  <2>8. CASE Relink
    <3>1. UNCHANGED calls BY <2>8 DEF Relink, runVars
    <3> QED BY <2>5, <3>1
  <2> QED BY <2>1, <2>2, <2>3, <2>4, <2>5, <2>6, <2>7, <2>8 DEF Next, LoopStep
<1>2. [\A r \in Runs : StillRuns(r)]_vars =>
          [\A r \in Runs : cancel[r] =>
              \A i \in 1 .. Len(calls'[r]) :
                  calls'[r][i].result = "executed" =>
                      \/ i <= Len(calls[r]) /\ calls[r][i].result = "executed"
                      \/ pc[r] = "mcp"]_vars
  BY DEF StillRuns
<1> QED BY <1>1, <1>2, RunInvariant, PTL DEF Spec, NothingRunsAfterCancel

-----------------------------------------------------------------------------
(* The stream of events                                                     *)

StreamEvent == [event : Promise!EventKinds, call : Nat]

LastIs(r, kinds) ==
    /\ Len(stream[r]) > 0
    /\ LastEvent(r) \in kinds

\* The events of the first c calls of this reply are out: the last one belongs
\* to call c, or there was none since the request.
CallsTold(r, c) ==
    \/ LastIs(r, {"model_request_completed"})
    \/ LastIs(r, {"tool_call_completed"}) /\ stream[r][Len(stream[r])].call = c

\* The last event of a run fits the place where its task is.
Placed(r) ==
    /\ pc[r] \in {"idle", "connecting"} => stream[r] = <<>>
    /\ pc[r] = "round" => LastIs(r, {"run_started", "tool_call_completed"})
    /\ pc[r] = "request" => LastIs(r, {"model_request_started"})
    /\ pc[r] = "calls" =>
          CallsTold(r, Current(r)) /\ (todo[r] = <<>> => LastIs(r, {"tool_call_completed"}))
    /\ pc[r] = "mcp" => CallsTold(r, Current(r) - 1)
    /\ pc[r] = "asked" => LastIs(r, {"ask_user"}) /\ stream[r][Len(stream[r])].call = Current(r)
    /\ pc[r] = "closing" => LastIs(r, {"error", "run_completed"})
    /\ pc[r] = "ended" => LastIs(r, {"run_completed"})

StreamInv ==
    /\ stream \in [Runs -> Seq(StreamEvent)]
    /\ \A r \in Runs : Promise!WellFormed(stream[r]) /\ Placed(r)

\* A piece of a stream, from its first event to its last.
Block(es, e, f) ==
    /\ es \in Seq(StreamEvent) /\ Len(es) \in Nat \ {0}
    /\ es[1] = e /\ es[Len(es)] = f
    /\ \A i \in 1 .. Len(es) - 1 : Promise!Follows(es[i], es[i + 1])

LEMMA SuccessorFacts ==
    /\ \A k \in {"model_request_started", "error", "run_completed"} :
          /\ k \in Promise!Successors["run_started"]
          /\ k \in Promise!Successors["tool_call_completed"]
    /\ Promise!Successors["model_request_started"] = {"model_request_completed"}
    /\ Promise!Successors["model_request_completed"] =
          {"tool_call_started", "error", "run_completed"}
    /\ Promise!Successors["tool_call_started"] = Promise!InsideCall
    /\ Promise!Successors["permission_checked"] = Promise!InsideCall
    /\ Promise!Successors["ask_user"] = {"tool_call_completed"}
    /\ "tool_call_started" \in Promise!Successors["tool_call_completed"]
    /\ Promise!Successors["error"] = {"run_completed"}
BY DEF Promise!Successors, Promise!RoundHead, Promise!InsideCall

LEMMA EventIs ==
    ASSUME NEW k \in Promise!EventKinds, NEW c \in Nat
    PROVE  Event(k, c) \in StreamEvent /\ Event(k, c).event = k /\ Event(k, c).call = c
BY DEF Event, StreamEvent

LEMMA OneEvent ==
    ASSUME NEW e \in StreamEvent PROVE Block(<<e>>, e, e)
<1>1. <<e>> \in Seq(StreamEvent) /\ Len(<<e>>) = 1 /\ <<e>>[1] = e OBVIOUS
<1> QED BY <1>1 DEF Block

LEMMA Joined ==
    ASSUME NEW a, NEW b, NEW e, NEW f, NEW g, NEW h,
           Block(a, e, f), Block(b, g, h), Promise!Follows(f, g)
    PROVE  Block(a \o b, e, h)
<1>1. /\ a \in Seq(StreamEvent) /\ Len(a) \in Nat \ {0} /\ a[1] = e /\ a[Len(a)] = f
      /\ b \in Seq(StreamEvent) /\ Len(b) \in Nat \ {0} /\ b[1] = g /\ b[Len(b)] = h
  BY DEF Block
<1>2. PICK m \in Nat \ {0} : m = Len(a) BY <1>1
<1>3. PICK n \in Nat \ {0} : n = Len(b) BY <1>1
<1>4. PICK t : t = a \o b OBVIOUS
<1>5. /\ t \in Seq(StreamEvent) /\ Len(t) = m + n
      /\ \A i \in 1 .. m + n : t[i] = IF i <= m THEN a[i] ELSE b[i - m]
  BY <1>1, <1>2, <1>3, <1>4, ConcatProperties
<1>6. t[1] = e /\ t[m + n] = h BY <1>1, <1>2, <1>3, <1>5
<1>7. ASSUME NEW i \in 1 .. m + n - 1 PROVE Promise!Follows(t[i], t[i + 1])
  <2>1. CASE i < m
    <3>1. t[i] = a[i] /\ t[i + 1] = a[i + 1] BY <1>5, <2>1
    <3>2. i \in 1 .. Len(a) - 1 BY <1>2, <2>1
    <3> QED BY <3>1, <3>2 DEF Block
  <2>2. CASE i = m
    <3>1. m \in 1 .. m + n /\ m + 1 \in 1 .. m + n /\ ~ (m + 1 <= m) /\ (m + 1) - m = 1
      OBVIOUS
    <3>2. t[m] = a[m] /\ t[m + 1] = b[1] BY <1>5, <3>1
    <3> QED BY <1>1, <1>2, <2>2, <3>2
  <2>3. CASE i > m
    <3>1. t[i] = b[i - m] /\ t[i + 1] = b[(i - m) + 1] BY <1>5, <2>3
    <3>2. i - m \in 1 .. Len(b) - 1 BY <1>3, <2>3
    <3> QED BY <3>1, <3>2 DEF Block
  <2> QED BY <2>1, <2>2, <2>3
<1> QED BY <1>2, <1>3, <1>4, <1>5, <1>6, <1>7 DEF Block

\* t is the stream s with something behind it that ends in f.
Longer(s, t, f) ==
    /\ t \in Seq(StreamEvent) /\ Len(t) > 0 /\ t[Len(t)] = f
    /\ Promise!WellFormed(t) /\ Promise!Extends(s, t)

LEMMA Extended ==
    ASSUME NEW s \in Seq(StreamEvent), Promise!WellFormed(s),
           NEW es, NEW e, NEW f, Block(es, e, f), Promise!MayCome(s, e)
    PROVE  Longer(s, s \o es, f)
<1>1. /\ es \in Seq(StreamEvent) /\ Len(es) \in Nat \ {0} /\ es[1] = e /\ es[Len(es)] = f
  BY DEF Block
<1>2. PICK m \in Nat : m = Len(s) BY LenProperties
<1>3. PICK n \in Nat \ {0} : n = Len(es) BY <1>1
<1>4. PICK t : t = s \o es OBVIOUS
<1>5. /\ t \in Seq(StreamEvent) /\ Len(t) = m + n
      /\ \A i \in 1 .. m + n : t[i] = IF i <= m THEN s[i] ELSE es[i - m]
  BY <1>1, <1>2, <1>3, <1>4, ConcatProperties
<1>6. t[m + n] = f BY <1>1, <1>3, <1>5
<1>7. Promise!Extends(s, t)
  <2>1. SubSeq(t, 1, m) \in Seq(StreamEvent) /\ Len(SubSeq(t, 1, m)) = m
        /\ \A i \in 1 .. m : SubSeq(t, 1, m)[i] = t[i]
    <3>1. \A i \in 1 .. m : t[i] \in StreamEvent BY <1>5, ElementOfSeq
    <3>2. /\ SubSeq(t, 1, m) \in Seq(StreamEvent)
          /\ Len(SubSeq(t, 1, m)) = IF 1 <= m THEN m - 1 + 1 ELSE 0
          /\ \A i \in 1 .. m - 1 + 1 : SubSeq(t, 1, m)[i] = t[1 + i - 1]
      BY <3>1, SubSeqProperties
    <3> QED BY <3>2
  <2>2. \A i \in 1 .. m : SubSeq(t, 1, m)[i] = s[i] BY <1>5, <2>1
  <2>3. SubSeq(t, 1, m) = s BY <1>2, <2>1, <2>2, SeqEqual
  <2>4. m < m + n BY <1>2, <1>3
  <2> QED BY <1>2, <1>5, <2>3, <2>4 DEF Promise!Extends
<1>8. Promise!WellFormed(t)
  <2>1. ASSUME NEW i \in 1 .. m + n PROVE t[i].event \in Promise!EventKinds
    <3>1. t[i] \in StreamEvent BY <1>5, ElementOfSeq
    <3> QED BY <3>1 DEF StreamEvent
  <2>2. t[1].event \in Promise!Openings
    <3>1. CASE m = 0
      <4>1. t[1] = e BY <1>1, <1>3, <1>5, <3>1
      <4>2. s = <<>> BY <1>2, <3>1, EmptySeq
      <4> QED BY <4>1, <4>2 DEF Promise!MayCome
    <3>2. CASE m > 0
      <4>1. t[1] = s[1] BY <1>5, <3>2, <1>3
      <4>2. s # <<>> BY <1>2, <3>2, EmptySeq
      <4> QED BY <4>1, <4>2 DEF Promise!WellFormed
    <3> QED BY <3>1, <3>2
  <2>3. ASSUME NEW i \in 1 .. m + n - 1 PROVE Promise!Follows(t[i], t[i + 1])
    <3>1. CASE i < m
      <4>1. t[i] = s[i] /\ t[i + 1] = s[i + 1] BY <1>5, <3>1
      <4>2. i \in 1 .. Len(s) - 1 BY <1>2, <3>1
      <4> QED BY <4>1, <4>2 DEF Promise!WellFormed
    <3>2. CASE i = m
      <4>1. t[m] = s[m] /\ t[m + 1] = es[1]
        <5>1. m \in 1 .. m + n /\ m + 1 \in 1 .. m + n BY <3>2
        <5>2. ~ (m + 1 <= m) /\ (m + 1) - m = 1 OBVIOUS
        <5> QED BY <1>5, <5>1, <5>2
      <4>2. t[i] = s[Len(s)] /\ t[i + 1] = e BY <1>1, <1>2, <3>2, <4>1
      <4>3. s # <<>> BY <1>2, <3>2, EmptySeq
      <4> QED BY <4>2, <4>3 DEF Promise!MayCome
    <3>3. CASE i > m
      <4>1. t[i] = es[i - m] /\ t[i + 1] = es[(i - m) + 1] BY <1>5, <3>3
      <4>2. i - m \in 1 .. Len(es) - 1 BY <1>3, <3>3
      <4> QED BY <4>1, <4>2 DEF Block
    <3> QED BY <3>1, <3>2, <3>3
  <2> QED BY <1>5, <2>1, <2>2, <2>3 DEF Promise!WellFormed
<1>9. Len(t) > 0 BY <1>2, <1>3, <1>5
<1> QED BY <1>4, <1>5, <1>6, <1>7, <1>8, <1>9 DEF Longer

\* The events of one call follow each other.
LEMMA InsideOneCall ==
    ASSUME NEW c \in Nat, NEW a \in {"tool_call_started", "permission_checked"},
           NEW b \in Promise!InsideCall
    PROVE  Promise!Follows(Event(a, c), Event(b, c))
BY SuccessorFacts, EventIs DEF Promise!Follows, Promise!InsideCall, Promise!EventKinds

LEMMA CheckedBlock ==
    ASSUME NEW n \in Nat \ {0}, NEW c \in Nat, NEW e \in StreamEvent, Promise!Follows(e, e)
    PROVE  Block([i \in 1 .. n |-> e], e, e)
<1>1. PICK s : s = [i \in 1 .. n |-> e] OBVIOUS
<1>2. s \in Seq(StreamEvent) /\ Len(s) = n BY <1>1
<1> QED BY <1>1, <1>2 DEF Block

LEMMA CallBlock ==
    ASSUME NEW r, NEW want \in ToolRequests, NEW c \in Nat,
           NEW k \in {"ask_user", "tool_call_completed"}
    PROVE  Block(StartEvents(r, want, c) \o <<Event(k, c)>>,
                 Event("tool_call_started", c), Event(k, c))
<1>1. PICK first \in StreamEvent : first = Event("tool_call_started", c)
  BY EventIs DEF Promise!EventKinds
<1>2. PICK checked \in StreamEvent : checked = Event("permission_checked", c)
  BY EventIs DEF Promise!EventKinds
<1>3. PICK last \in StreamEvent : last = Event(k, c) BY EventIs DEF Promise!EventKinds
<1>4. /\ Promise!Follows(first, checked) /\ Promise!Follows(checked, checked)
      /\ Promise!Follows(first, last) /\ Promise!Follows(checked, last)
  BY <1>1, <1>2, <1>3, InsideOneCall DEF Promise!InsideCall
<1>5. Block(<<first>>, first, first) /\ Block(<<last>>, last, last) BY OneEvent
<1>6. PICK es : es = CheckedEvents(r, want, c) OBVIOUS
<1>7. es = <<>> \/ Block(es, checked, checked)
  <2>1. PICK n \in Nat : n = Cardinality(want.targets)
    BY FS_CardinalityType DEF ToolRequests
  <2>2. es = <<>> \/ es = [i \in 1 .. n |-> checked]
    BY <1>2, <1>6, <2>1 DEF CheckedEvents
  <2>3. CASE n = 0 /\ es = [i \in 1 .. n |-> checked]
    <3>1. es \in Seq(StreamEvent) /\ Len(es) = 0 BY <2>3
    <3> QED BY <3>1, EmptySeq
  <2>4. CASE n # 0 /\ es = [i \in 1 .. n |-> checked]
    <3>1. Block([i \in 1 .. n |-> checked], checked, checked) BY <1>4, <2>4, CheckedBlock
    <3> QED BY <2>4, <3>1
  <2> QED BY <2>2, <2>3, <2>4
<1>8. Block((<<first>> \o es) \o <<last>>, first, last)
  <2>1. CASE es = <<>>
    <3>1. <<first>> \o es = <<first>> BY <2>1
    <3> QED BY <1>4, <1>5, <3>1, Joined
  <2>2. CASE Block(es, checked, checked)
    <3>1. Block(<<first>> \o es, first, checked) BY <1>4, <1>5, <2>2, Joined
    <3> QED BY <1>4, <1>5, <3>1, Joined
  <2> QED BY <1>7, <2>1, <2>2
<1> QED BY <1>1, <1>3, <1>6, <1>8 DEF StartEvents

\* What may come behind the events that end in e, in the places of a run.
LEMMA ComesAfter ==
    ASSUME StreamInv, NEW r \in Runs, NEW k \in Promise!EventKinds, NEW c \in Nat,
           NEW kinds, LastIs(r, kinds),
           \A j \in kinds : k \in Promise!Successors[j],
           k \notin Promise!InsideCall, k # "tool_call_started"
    PROVE  Promise!MayCome(stream[r], Event(k, c))
<1>1. stream[r] # <<>> BY EmptySeq DEF LastIs, StreamInv
<1>2. Promise!Follows(stream[r][Len(stream[r])], Event(k, c))
  BY EventIs DEF LastIs, LastEvent, Promise!Follows
<1> QED BY <1>1, <1>2, EventIs DEF Promise!MayCome

LEMMA Opens ==
    ASSUME NEW r \in Runs, stream[r] = <<>>, NEW k \in {"run_started", "error"}, NEW c \in Nat
    PROVE  Promise!MayCome(stream[r], Event(k, c))
BY EventIs DEF Promise!MayCome, Promise!Openings, Promise!EventKinds

\* The first event of the next call.
LEMMA NextCallComes ==
    ASSUME StreamInv, NEW r \in Runs, NEW c \in Nat, CallsTold(r, c)
    PROVE  Promise!MayCome(stream[r], Event("tool_call_started", c + 1))
<1>1. stream[r] # <<>> BY EmptySeq DEF CallsTold, LastIs, StreamInv
<1>2. PICK e : e = Event("tool_call_started", c + 1) OBVIOUS
<1>3. e.event = "tool_call_started" /\ e.call = c + 1
  BY <1>2, EventIs DEF Promise!EventKinds
<1>4. "tool_call_started" \notin Promise!InsideCall BY DEF Promise!InsideCall
<1>5. Promise!Follows(stream[r][Len(stream[r])], e)
  <2>1. CASE LastIs(r, {"model_request_completed"})
    BY <1>3, <1>4, <2>1, SuccessorFacts DEF LastIs, LastEvent, Promise!Follows
  <2>2. CASE LastIs(r, {"tool_call_completed"}) /\ stream[r][Len(stream[r])].call = c
    BY <1>3, <1>4, <2>2, SuccessorFacts DEF LastIs, LastEvent, Promise!Follows
  <2> QED BY <2>1, <2>2 DEF CallsTold
<1> QED BY <1>1, <1>2, <1>3, <1>5 DEF Promise!MayCome, Promise!EventKinds

-----------------------------------------------------------------------------
(* What a step of one run does with its stream                              *)

\* The stream of r, and of no other run, goes on and ends in f.
Grew(r, f) ==
    /\ stream' \in [Runs -> Seq(StreamEvent)]
    /\ stream' = [stream EXCEPT ![r] = stream'[r]]
    /\ Longer(stream[r], stream'[r], f)

LEMMA Emitted ==
    ASSUME StreamInv, NEW r \in Runs, NEW es, NEW e, NEW f, Block(es, e, f),
           Promise!MayCome(stream[r], e), Emit(r, es)
    PROVE  Grew(r, f)
<1>1. PICK t : t = stream[r] \o es OBVIOUS
<1>2. Longer(stream[r], t, f) BY <1>1, Extended DEF StreamInv
<1>3. stream' = [stream EXCEPT ![r] = t] BY <1>1 DEF Emit
<1>4. stream'[r] = t BY <1>3 DEF StreamInv
<1>5. stream' \in [Runs -> Seq(StreamEvent)] BY <1>2, <1>3 DEF StreamInv, Longer
<1> QED BY <1>2, <1>3, <1>4, <1>5 DEF Grew

LEMMA GrewEndsIn ==
    ASSUME NEW r, NEW f, Grew(r, f)
    PROVE  /\ Len(stream'[r]) > 0 /\ stream'[r][Len(stream'[r])] = f
           /\ \A kinds : f.event \in kinds => LastIs(r, kinds)'
BY DEF Grew, Longer, LastIs, LastEvent

\* One run moves: it goes on with its stream or leaves it, and is placed again.
Carries(r) ==
    /\ pc[r] # "ended"
    /\ \A x \in Runs \ {r} :
          pc'[x] = pc[x] /\ todo'[x] = todo[x] /\ Len(calls'[x]) = Len(calls[x])
    /\ stream' = stream \/ \E f : Grew(r, f)
    /\ Placed(r)'

Returned == {r \in Runs : pc[r] = "ended"}

LEMMA CarriesOn ==
    ASSUME StreamInv, NEW r \in Runs, Carries(r)
    PROVE  StreamInv' /\ Promise!Next
<1>1. \A x \in Runs \ {r} : stream'[x] = stream[x] BY DEF Carries, Grew, StreamInv
<1>2. stream' \in [Runs -> Seq(StreamEvent)] BY DEF Carries, Grew, StreamInv
<1>3. Promise!WellFormed(stream'[r])
  BY DEF Carries, Grew, Longer, StreamInv
<1>4. ASSUME NEW x \in Runs PROVE Promise!WellFormed(stream'[x]) /\ Placed(x)'
  <2>1. CASE x = r BY <1>3, <2>1 DEF Carries
  <2>2. CASE x # r
    <3>1. /\ stream'[x] = stream[x] /\ pc'[x] = pc[x] /\ todo'[x] = todo[x]
          /\ Len(calls'[x]) = Len(calls[x])
      BY <1>1, <2>2 DEF Carries
    <3>2. Promise!WellFormed(stream[x]) /\ Placed(x) BY DEF StreamInv
    <3> QED BY <3>1, <3>2 DEF Placed, CallsTold, LastIs, LastEvent, Current
  <2> QED BY <2>1, <2>2
<1>5. StreamInv' BY <1>2, <1>4 DEF StreamInv
<1>6. Promise!GoOn(r) \/ UNCHANGED stream
  BY DEF Carries, Grew, Longer, Promise!GoOn
<1>7. Promise!Return(r) \/ UNCHANGED Returned
  <2>1. CASE pc'[r] = "ended"
    <3>1. Returned' = Returned \cup {r} BY <2>1 DEF Carries, Returned
    <3>2. Len(stream'[r]) > 0 /\ stream'[r][Len(stream'[r])].event = "run_completed"
      BY <2>1 DEF Carries, Placed, LastIs, LastEvent
    <3>3. stream'[r] # <<>> BY <1>2, <3>2, EmptySeq
    <3> QED BY <3>1, <3>2, <3>3 DEF Promise!Return, Promise!Last, Returned
  <2>2. CASE pc'[r] # "ended" BY <2>2 DEF Carries, Returned
  <2> QED BY <2>1, <2>2
<1>8. r \in Runs \ Returned BY DEF Carries, Returned
<1> QED BY <1>5, <1>6, <1>7, <1>8 DEF Promise!Next, Returned

-----------------------------------------------------------------------------
(* The steps of a run, one by one                                           *)

\* The other runs stay where they are.
LEMMA OthersStay ==
    ASSUME RunInv, NEW r \in Runs, NEW label,
           pc' = [pc EXCEPT ![r] = label] \/ pc' = pc,
           todo' = todo \/ (\E s : todo' = [todo EXCEPT ![r] = s]),
           calls' = calls \/ (\E s : calls' = [calls EXCEPT ![r] = s])
    PROVE  \A x \in Runs \ {r} :
              pc'[x] = pc[x] /\ todo'[x] = todo[x] /\ Len(calls'[x]) = Len(calls[x])
BY DEF RunInv, TypeOK

\* A step that emits nothing or one event, and changes no call.
LEMMA Steps ==
    ASSUME RunInv, StreamInv, NEW r \in Runs, NEW label, Goto(r, label),
           pc[r] # "ended", UNCHANGED calls,
           todo' = todo \/ (\E s : todo' = [todo EXCEPT ![r] = s]),
           stream' = stream \/ \E f : Grew(r, f), Placed(r)'
    PROVE  Carries(r)
BY OthersStay DEF Carries, Goto

LEMMA At ==
    ASSUME RunInv, NEW r \in Runs, NEW label, Goto(r, label) PROVE pc'[r] = label
BY DEF RunInv, TypeOK, Goto

\* The loop ends: with an error or with the last event of a run.
LEMMA EndsCarry ==
    ASSUME RunInv, StreamInv, NEW r \in Runs, pc[r] # "ended", UNCHANGED <<calls, todo>>,
           NEW es, NEW e, NEW k \in {"error", "run_completed"},
           Block(es, e, Plain(k)), Promise!MayCome(stream[r], e), End(r, es)
    PROVE  Carries(r)
<1>1. Grew(r, Plain(k)) BY Emitted DEF End
<1>2. Plain(k).event = k BY EventIs DEF Plain, Promise!EventKinds
<1>3. LastIs(r, {"error", "run_completed"})' BY <1>1, <1>2, GrewEndsIn
<1>4. Goto(r, "closing") /\ pc'[r] = "closing" BY At DEF End
<1>5. Placed(r)' BY <1>3, <1>4 DEF Placed
<1> QED BY <1>1, <1>4, <1>5, Steps

LEMMA PlainBlock ==
    ASSUME NEW k \in Promise!EventKinds
    PROVE  /\ Plain(k) \in StreamEvent /\ Plain(k).event = k
           /\ Block(<<Plain(k)>>, Plain(k), Plain(k))
BY EventIs, OneEvent DEF Plain

LEMMA LoadCarries ==
    ASSUME RunInv, StreamInv, NEW r \in Runs, Load(r) PROVE Carries(r)
<1>1. pc[r] = "idle" /\ stream[r] = <<>> /\ UNCHANGED <<calls, todo>>
  BY DEF Load, StreamInv, Placed
<1>2. ASSUME NEW label \in {"connecting", "killed"}, Goto(r, label), UNCHANGED stream
      PROVE  Carries(r)
  <2>1. pc'[r] = label BY <1>2, At
  <2>2. Placed(r)' BY <1>1, <1>2, <2>1 DEF Placed
  <2> QED BY <1>1, <1>2, <2>2, Steps
<1>3. ASSUME End(r, ErrorOut) PROVE Carries(r)
  <2>1. Block(ErrorOut, Plain("error"), Plain("error"))
    BY PlainBlock DEF ErrorOut, Promise!EventKinds
  <2>2. Promise!MayCome(stream[r], Plain("error")) BY <1>1, Opens DEF Plain
  <2> QED BY <1>1, <1>3, <2>1, <2>2, EndsCarry
<1> QED BY <1>2, <1>3 DEF Load

LEMMA ConnectedCarries ==
    ASSUME RunInv, StreamInv, NEW r \in Runs, Connected(r) PROVE Carries(r)
<1>1. pc[r] = "connecting" /\ stream[r] = <<>> /\ UNCHANGED <<calls, todo>>
  BY DEF Connected, StreamInv, Placed
<1>2. Promise!MayCome(stream[r], Plain("run_started")) BY <1>1, Opens DEF Plain
<1>3. Plain("run_started").event = "run_started"
      /\ Block(<<Plain("run_started")>>, Plain("run_started"), Plain("run_started"))
  BY PlainBlock DEF Promise!EventKinds
<1>4. ASSUME Emit(r, <<Plain("run_started")>>), Goto(r, "round") PROVE Carries(r)
  <2>1. Grew(r, Plain("run_started")) BY <1>2, <1>3, <1>4, Emitted
  <2>2. pc'[r] = "round" BY <1>4, At
  <2>3. LastIs(r, {"run_started", "tool_call_completed"})' BY <1>3, <2>1, GrewEndsIn
  <2>4. Placed(r)' BY <2>2, <2>3 DEF Placed
  <2> QED BY <1>1, <1>4, <2>1, <2>4, Steps
<1>5. ASSUME End(r, <<Plain("run_started")>> \o ErrorOut) PROVE Carries(r)
  <2>1. /\ Plain("error").event = "error"
        /\ Block(ErrorOut, Plain("error"), Plain("error"))
    BY PlainBlock DEF ErrorOut, Promise!EventKinds
  <2>2. Promise!Follows(Plain("run_started"), Plain("error"))
    BY <1>3, <2>1, SuccessorFacts DEF Promise!Follows, Promise!InsideCall
  <2>3. Block(<<Plain("run_started")>> \o ErrorOut, Plain("run_started"), Plain("error"))
    BY <1>3, <2>1, <2>2, Joined
  <2> QED BY <1>1, <1>2, <1>5, <2>3, EndsCarry
<1> QED BY <1>4, <1>5 DEF Connected

LEMMA BeginRequestCarries ==
    ASSUME RunInv, StreamInv, NEW r \in Runs, BeginRequest(r) PROVE Carries(r)
<1>1. /\ pc[r] = "round" /\ UNCHANGED <<calls, todo>>
      /\ LastIs(r, {"run_started", "tool_call_completed"})
  BY DEF BeginRequest, StreamInv, Placed
<1>2. ASSUME NEW k \in {"model_request_started", "error", "run_completed"}
      PROVE  /\ Promise!MayCome(stream[r], Plain(k)) /\ Plain(k).event = k
             /\ Block(<<Plain(k)>>, Plain(k), Plain(k))
  <2>1. k \in Promise!EventKinds /\ k \notin Promise!InsideCall /\ k # "tool_call_started"
    BY DEF Promise!EventKinds, Promise!InsideCall
  <2>2. Promise!MayCome(stream[r], Event(k, 0))
    <3>1. \A j \in {"run_started", "tool_call_completed"} : k \in Promise!Successors[j]
      BY SuccessorFacts
    <3> QED BY <1>1, <2>1, <3>1, ComesAfter
  <2> QED BY <2>1, <2>2, PlainBlock DEF Plain
<1>3. ASSUME NEW k \in {"error", "run_completed"}, End(r, <<Plain(k)>>) PROVE Carries(r)
  BY <1>1, <1>2, <1>3, EndsCarry
<1>4. ASSUME Emit(r, <<Plain("model_request_started")>>), Goto(r, "request") PROVE Carries(r)
  <2>1. Grew(r, Plain("model_request_started")) BY <1>2, <1>4, Emitted
  <2>2. pc'[r] = "request" BY <1>4, At
  <2>3. LastIs(r, {"model_request_started"})' BY <1>2, <2>1, GrewEndsIn
  <2>4. Placed(r)' BY <2>2, <2>3 DEF Placed
  <2> QED BY <1>1, <1>4, <2>1, <2>4, Steps
<1> QED BY <1>3, <1>4 DEF BeginRequest, Completed, ErrorOut

\* A request has ended; its end may be followed by the end of the loop.
LEMMA RequestOver ==
    ASSUME StreamInv, NEW r \in Runs, pc[r] = "request"
    PROVE  /\ Promise!MayCome(stream[r], Plain("model_request_completed"))
           /\ Plain("model_request_completed").event = "model_request_completed"
           /\ Block(RequestDone, Plain("model_request_completed"),
                    Plain("model_request_completed"))
           /\ \A k \in {"error", "run_completed"} :
                 Block(RequestDone \o <<Plain(k)>>, Plain("model_request_completed"), Plain(k))
<1>1. LastIs(r, {"model_request_started"}) BY DEF StreamInv, Placed
<1>2. Promise!MayCome(stream[r], Event("model_request_completed", 0))
  <2>1. /\ "model_request_completed" \in Promise!EventKinds
        /\ "model_request_completed" \notin Promise!InsideCall
    BY DEF Promise!EventKinds, Promise!InsideCall
  <2>2. \A j \in {"model_request_started"} :
           "model_request_completed" \in Promise!Successors[j]
    BY SuccessorFacts
  <2> QED BY <1>1, <2>1, <2>2, ComesAfter
<1>3. Plain("model_request_completed").event = "model_request_completed"
      /\ Block(RequestDone, Plain("model_request_completed"), Plain("model_request_completed"))
  BY PlainBlock DEF RequestDone, Promise!EventKinds
<1>4. ASSUME NEW k \in {"error", "run_completed"}
      PROVE  Block(RequestDone \o <<Plain(k)>>, Plain("model_request_completed"), Plain(k))
  <2>1. Plain(k).event = k /\ Block(<<Plain(k)>>, Plain(k), Plain(k))
    BY PlainBlock DEF Promise!EventKinds
  <2>2. Promise!Follows(Plain("model_request_completed"), Plain(k))
    BY <1>3, <2>1, SuccessorFacts DEF Promise!Follows, Promise!InsideCall
  <2> QED BY <1>3, <2>1, <2>2, Joined
<1> QED BY <1>2, <1>3, <1>4 DEF Plain

LEMMA ReplyEndsCarries ==
    ASSUME RunInv, StreamInv, NEW r \in Runs, ReplyFails(r) \/ ReplyEnds(r)
    PROVE  Carries(r)
<1>1. pc[r] = "request" /\ UNCHANGED <<calls, todo>> BY DEF ReplyFails, ReplyEnds
<1>2. \E k \in {"error", "run_completed"} : End(r, RequestDone \o <<Plain(k)>>)
  BY DEF ReplyFails, ReplyEnds, Completed, ErrorOut
<1> QED BY <1>1, <1>2, RequestOver, EndsCarry

LEMMA ReplyCallsToolsCarries ==
    ASSUME RunInv, StreamInv, NEW r \in Runs, NEW reply \in Replies, ReplyCallsTools(r, reply)
    PROVE  Carries(r)
<1>1. pc[r] = "request" /\ UNCHANGED calls /\ todo' = [todo EXCEPT ![r] = reply]
      /\ Emit(r, RequestDone) /\ Goto(r, "calls")
  BY DEF ReplyCallsTools
<1>2. Grew(r, Plain("model_request_completed")) BY <1>1, RequestOver, Emitted
<1>3. LastIs(r, {"model_request_completed"})' BY <1>1, <1>2, RequestOver, GrewEndsIn
<1>4. pc'[r] = "calls" BY <1>1, At
<1>5. todo'[r] # <<>>
  <2>1. todo'[r] = reply BY <1>1 DEF RunInv, TypeOK
  <2>2. Len(reply) # 0 BY AgentRunAssumption
  <2> QED BY <2>1, <2>2, EmptySeq
<1>6. CallsTold(r, Current(r))' BY <1>3 DEF CallsTold
<1>7. Placed(r)' BY <1>4, <1>5, <1>6 DEF Placed
<1> QED BY <1>1, <1>2, <1>7, Steps

\* Where the calls are made the number of the current one is its place.
LEMMA CallCount ==
    ASSUME RunInv, NEW r \in Runs
    PROVE  Len(calls[r]) \in Nat /\ Current(r) \in Nat
           /\ (pc[r] \in {"mcp", "asked"} => Current(r) \in Nat \ {0})
<1>1. Len(calls[r]) \in Nat BY LenProperties DEF RunInv, TypeOK
<1>2. pc[r] \in {"mcp", "asked"} => Len(calls[r]) \in 1 .. Len(calls[r])
  BY DEF RunInv, RunOK, LastOpen
<1> QED BY <1>1, <1>2 DEF Current

\* A step that emits the last event of the current call, or of its question.
LEMMA CallStep ==
    ASSUME RunInv, StreamInv, NEW r \in Runs, NEW c \in Nat,
           pc[r] \in {"calls", "mcp", "asked"}, Current(r)' = c,
           NEW es, NEW e, NEW k \in {"ask_user", "tool_call_completed"},
           Block(es, e, Event(k, c)), Promise!MayCome(stream[r], e), Emit(r, es),
           pc' = pc \/ (\E label : pc' = [pc EXCEPT ![r] = label]),
           pc'[r] = IF k = "ask_user" THEN "asked" ELSE "calls",
           todo' = todo \/ (\E s : todo' = [todo EXCEPT ![r] = s]),
           \E s : calls' = [calls EXCEPT ![r] = s]
    PROVE  Carries(r)
<1>1. Grew(r, Event(k, c)) BY Emitted
<1>2. Event(k, c).event = k /\ Event(k, c).call = c BY EventIs DEF Promise!EventKinds
<1>3. LastIs(r, {k})' /\ stream'[r][Len(stream'[r])].call = Current(r)'
  BY <1>1, <1>2, GrewEndsIn
<1>4. Placed(r)'
  <2>1. CASE k = "ask_user" BY <1>3, <2>1 DEF Placed
  <2>2. CASE k = "tool_call_completed" BY <1>3, <2>2 DEF Placed, CallsTold
  <2> QED BY <2>1, <2>2
<1>5. \A x \in Runs \ {r} :
         pc'[x] = pc[x] /\ todo'[x] = todo[x] /\ Len(calls'[x]) = Len(calls[x])
  BY OthersStay
<1> QED BY <1>1, <1>4, <1>5 DEF Carries

LEMMA CountUp ==
    ASSUME RunInv, NEW r \in Runs, NEW call, calls' = [calls EXCEPT ![r] = Append(@, call)],
           call \in CallSet
    PROVE  Current(r)' = Current(r) + 1
<1>1. Adds(r, call) BY DEF Adds
<1> QED BY <1>1, Added DEF RunInv, Current

LEMMA CallSettlesCarries ==
    ASSUME RunInv, StreamInv, NEW r \in Runs, CallSettles(r) PROVE Carries(r)
<1>1. PICK want \in ToolRequests : want = Head(todo[r])
  BY Requested DEF CallSettles, RunInv
<1>2. PICK c \in Nat : c = Current(r) + 1 BY CallCount
<1>3. /\ pc[r] = "calls" /\ UNCHANGED pc /\ todo' = [todo EXCEPT ![r] = Tail(@)]
      /\ Emit(r, StartEvents(r, want, c) \o DoneEvent(c))
  BY <1>1, <1>2 DEF CallSettles
<1>4. Current(r)' = c /\ \E s : calls' = [calls EXCEPT ![r] = s]
  <2>1. PICK res \in Results : res = Immediate(r, want)
    BY DEF Immediate, ToolRequests, Tools, Results
  <2>2. PICK call \in CallSet : call = NewCall(want, Touching(r, want, res), res)
    BY NewCallIs, TouchingType DEF RunInv
  <2>3. calls' = [calls EXCEPT ![r] = Append(@, call)] BY <1>1, <2>1, <2>2 DEF CallSettles
  <2> QED BY <1>2, <2>3, CountUp
<1>5. Promise!MayCome(stream[r], Event("tool_call_started", c))
  <2>1. CallsTold(r, Current(r)) BY <1>3 DEF StreamInv, Placed
  <2> QED BY <1>2, <2>1, CallCount, NextCallComes
<1>6. Block(StartEvents(r, want, c) \o DoneEvent(c), Event("tool_call_started", c),
            Event("tool_call_completed", c))
  BY CallBlock DEF DoneEvent
<1> QED BY <1>3, <1>4, <1>5, <1>6, CallStep

LEMMA CallAsksCarries ==
    ASSUME RunInv, StreamInv, NEW r \in Runs, CallAsks(r) PROVE Carries(r)
<1>1. PICK want \in ToolRequests : want = Head(todo[r])
  BY Requested DEF CallAsks, RunInv
<1>2. PICK c \in Nat : c = Current(r) + 1 BY CallCount
<1>3. /\ pc[r] = "calls" /\ Goto(r, "asked") /\ todo' = [todo EXCEPT ![r] = Tail(@)]
      /\ calls' = [calls EXCEPT ![r] = Append(@, NewCall(want, Untouched, Open))]
      /\ Emit(r, StartEvents(r, want, c) \o <<Event("ask_user", c)>>)
  BY <1>1, <1>2 DEF CallAsks
<1>4. Current(r)' = c
  <2>1. NewCall(want, Untouched, Open) \in CallSet BY NewCallIs DEF RunInv, Open, Results
  <2> QED BY <1>2, <1>3, <2>1, CountUp
<1>5. Promise!MayCome(stream[r], Event("tool_call_started", c))
  <2>1. CallsTold(r, Current(r)) BY <1>3 DEF StreamInv, Placed
  <2> QED BY <1>2, <2>1, CallCount, NextCallComes
<1>6. Block(StartEvents(r, want, c) \o <<Event("ask_user", c)>>,
            Event("tool_call_started", c), Event("ask_user", c))
  BY CallBlock
<1>7. pc'[r] = "asked" BY <1>3, At
<1> QED BY <1>3, <1>4, <1>5, <1>6, <1>7, CallStep DEF Goto

LEMMA CallMcpCarries ==
    ASSUME RunInv, StreamInv, NEW r \in Runs, CallMcp(r) PROVE Carries(r)
<1>1. PICK want \in ToolRequests : want = Head(todo[r])
  BY Requested DEF CallMcp, RunInv
<1>2. /\ pc[r] = "calls" /\ Goto(r, "mcp") /\ todo' = [todo EXCEPT ![r] = Tail(@)]
      /\ calls' = [calls EXCEPT ![r] = Append(@, NewCall(want, Untouched, Open))] /\ UNCHANGED stream
  BY <1>1 DEF CallMcp
<1>3. Current(r)' = Current(r) + 1
  <2>1. NewCall(want, Untouched, Open) \in CallSet BY NewCallIs DEF RunInv, Open, Results
  <2> QED BY <1>2, <2>1, CountUp
<1>4. CallsTold(r, Current(r)) BY <1>2 DEF StreamInv, Placed
<1>5. PICK c \in Nat : c = Current(r) BY CallCount
<1>6. Current(r)' - 1 = c BY <1>3, <1>5
<1>7. CallsTold(r, Current(r) - 1)'
  BY <1>2, <1>4, <1>5, <1>6 DEF CallsTold, LastIs, LastEvent
<1>8. pc'[r] = "mcp" BY <1>2, At
<1>9. Placed(r)' BY <1>7, <1>8 DEF Placed
<1>10. \A x \in Runs \ {r} :
          pc'[x] = pc[x] /\ todo'[x] = todo[x] /\ Len(calls'[x]) = Len(calls[x])
  BY <1>2, OthersStay DEF Goto
<1> QED BY <1>2, <1>9, <1>10 DEF Carries

\* Settling a call leaves the number of calls.
LEMMA SettleCounts ==
    ASSUME RunInv, NEW r \in Runs, NEW result, NEW touched, Settle(r, result, touched), pc[r] \in {"mcp", "asked"}
    PROVE  /\ Current(r)' = Current(r) /\ pc'[r] = "calls"
           /\ \E s : calls' = [calls EXCEPT ![r] = s]
<1>1. calls' = [calls EXCEPT ![r] = [calls[r] EXCEPT ![Current(r)] =
                     [@ EXCEPT !.result = result, !.touched = touched]]]
  BY DEF Settle
<1>2. PICK s : s = [calls[r] EXCEPT ![Current(r)] =
                       [@ EXCEPT !.result = result, !.touched = touched]]
  OBVIOUS
<1>3. calls'[r] = s BY <1>1, <1>2 DEF RunInv, TypeOK
<1>4. Len(s) = Len(calls[r])
  <2>1. calls[r] \in Seq(CallSet) BY DEF RunInv, TypeOK
  <2> QED BY <1>2, <2>1
<1>5. Goto(r, "calls") BY DEF Settle
<1> QED BY <1>1, <1>3, <1>4, <1>5, At DEF Current

LEMMA McpReturnsCarries ==
    ASSUME RunInv, StreamInv, NEW r \in Runs, McpReturns(r) PROVE Carries(r)
<1>1. PICK c \in Nat \ {0} : c = Current(r) BY CallCount DEF McpReturns
<1>2. /\ pc[r] = "mcp" /\ Settle(r, "executed", Untouched) /\ UNCHANGED todo
      /\ Emit(r, <<Event("tool_call_started", c)>> \o DoneEvent(c))
  BY <1>1 DEF McpReturns
<1>3. /\ Current(r)' = c /\ pc'[r] = "calls"
      /\ \E s : calls' = [calls EXCEPT ![r] = s]
  BY <1>1, <1>2, SettleCounts
<1>4. Promise!MayCome(stream[r], Event("tool_call_started", c))
  <2>1. CallsTold(r, c - 1) BY <1>1, <1>2 DEF StreamInv, Placed
  <2>2. c - 1 \in Nat /\ (c - 1) + 1 = c OBVIOUS
  <2> QED BY <2>1, <2>2, NextCallComes
<1>5. Block(<<Event("tool_call_started", c)>> \o DoneEvent(c), Event("tool_call_started", c),
            Event("tool_call_completed", c))
  <2>1. Event("tool_call_started", c) \in StreamEvent
        /\ Event("tool_call_completed", c) \in StreamEvent
    BY EventIs DEF Promise!EventKinds
  <2>2. Promise!Follows(Event("tool_call_started", c), Event("tool_call_completed", c))
    BY InsideOneCall DEF Promise!InsideCall
  <2> QED BY <2>1, <2>2, OneEvent, Joined DEF DoneEvent
<1> QED BY <1>2, <1>3, <1>4, <1>5, CallStep DEF Settle, Goto

LEMMA AskResumesCarries ==
    ASSUME RunInv, StreamInv, NEW r \in Runs, AskResumes(r) PROVE Carries(r)
<1>1. PICK c \in Nat \ {0} : c = Current(r) BY CallCount DEF AskResumes
<1>2. /\ pc[r] = "asked" /\ (\E result, touched : Settle(r, result, touched)) /\ UNCHANGED todo
      /\ Emit(r, DoneEvent(c))
  BY <1>1 DEF AskResumes
<1>3. /\ Current(r)' = c /\ pc'[r] = "calls"
      /\ \E s : calls' = [calls EXCEPT ![r] = s]
  BY <1>1, <1>2, SettleCounts
<1>4. PICK e : e = Event("tool_call_completed", c) OBVIOUS
<1>5. e \in StreamEvent /\ e.event = "tool_call_completed" /\ e.call = c
  BY <1>4, EventIs DEF Promise!EventKinds
<1>6. Promise!MayCome(stream[r], e)
  <2>1. LastIs(r, {"ask_user"}) /\ stream[r][Len(stream[r])].call = c
    BY <1>1, <1>2 DEF StreamInv, Placed
  <2>2. Promise!Follows(stream[r][Len(stream[r])], e)
    BY <1>5, <2>1, SuccessorFacts DEF LastIs, LastEvent, Promise!Follows
  <2>3. stream[r] # <<>> BY <2>1, EmptySeq DEF LastIs, StreamInv
  <2> QED BY <1>5, <2>2, <2>3 DEF Promise!MayCome, Promise!EventKinds
<1>7. Block(DoneEvent(c), e, Event("tool_call_completed", c))
  BY <1>4, <1>5, OneEvent DEF DoneEvent
<1>8. pc' = [pc EXCEPT ![r] = "calls"] BY <1>2 DEF Settle, Goto
<1> QED BY <1>2, <1>3, <1>6, <1>7, <1>8, CallStep

LEMMA CallsDoneCarries ==
    ASSUME RunInv, StreamInv, NEW r \in Runs, CallsDone(r) PROVE Carries(r)
<1>1. /\ pc[r] = "calls" /\ UNCHANGED <<calls, todo>> /\ LastIs(r, {"tool_call_completed"})
  BY DEF CallsDone, StreamInv, Placed
<1>2. ASSUME End(r, Completed) PROVE Carries(r)
  <2>1. Promise!MayCome(stream[r], Event("run_completed", 0))
    <3>1. /\ "run_completed" \in Promise!EventKinds
          /\ "run_completed" \notin Promise!InsideCall
      BY DEF Promise!EventKinds, Promise!InsideCall
    <3>2. \A j \in {"tool_call_completed"} : "run_completed" \in Promise!Successors[j]
      BY SuccessorFacts
    <3> QED BY <1>1, <3>1, <3>2, ComesAfter
  <2>2. Block(Completed, Plain("run_completed"), Plain("run_completed"))
    BY PlainBlock DEF Completed, Promise!EventKinds
  <2> QED BY <1>1, <1>2, <2>1, <2>2, EndsCarry DEF Plain
<1>3. ASSUME Goto(r, "round"), UNCHANGED stream PROVE Carries(r)
  <2>1. pc'[r] = "round" BY <1>3, At
  <2>2. LastIs(r, {"run_started", "tool_call_completed"})'
    BY <1>1, <1>3 DEF LastIs, LastEvent
  <2>3. Placed(r)' BY <2>1, <2>2 DEF Placed
  <2> QED BY <1>1, <1>3, <2>3, Steps
<1> QED BY <1>2, <1>3 DEF CallsDone

LEMMA CloseRunCarries ==
    ASSUME RunInv, StreamInv, NEW r \in Runs, CloseRun(r) PROVE Carries(r)
<1>1. /\ pc[r] = "closing" /\ UNCHANGED <<calls, todo>> /\ Goto(r, "ended")
      /\ LastIs(r, {"error", "run_completed"})
  BY DEF CloseRun, StreamInv, Placed
<1>2. pc'[r] = "ended" BY <1>1, At
<1>3. CASE LastEvent(r) = "run_completed"
  <2>1. Emit(r, <<>>) BY <1>3 DEF CloseRun
  <2>2. stream[r] \o <<>> = stream[r] BY ConcatEmptySeq DEF StreamInv
  <2>3. stream' = stream BY <2>1, <2>2 DEF Emit, StreamInv
  <2>4. LastIs(r, {"run_completed"})' BY <1>1, <1>3, <2>3 DEF LastIs, LastEvent
  <2>5. Placed(r)' BY <1>2, <2>4 DEF Placed
  <2> QED BY <1>1, <2>3, <2>5, Steps
<1>4. CASE LastEvent(r) # "run_completed"
  <2>1. Emit(r, Completed) BY <1>4 DEF CloseRun
  <2>2. Promise!MayCome(stream[r], Event("run_completed", 0))
    <3>1. /\ "run_completed" \in Promise!EventKinds
          /\ "run_completed" \notin Promise!InsideCall
      BY DEF Promise!EventKinds, Promise!InsideCall
    <3>2. \A j \in {"error"} : "run_completed" \in Promise!Successors[j] BY SuccessorFacts
    <3>3. LastIs(r, {"error"}) BY <1>1, <1>4 DEF LastIs
    <3> QED BY <3>1, <3>2, <3>3, ComesAfter
  <2>3. /\ Plain("run_completed").event = "run_completed"
        /\ Block(Completed, Plain("run_completed"), Plain("run_completed"))
    BY PlainBlock DEF Completed, Promise!EventKinds
  <2>4. Grew(r, Plain("run_completed"))
    <3>1. Promise!MayCome(stream[r], Plain("run_completed")) BY <2>2 DEF Plain
    <3> QED BY <2>1, <2>3, <3>1, Emitted
  <2>5. LastIs(r, {"run_completed"})' BY <2>3, <2>4, GrewEndsIn
  <2>6. Placed(r)' BY <1>2, <2>5 DEF Placed
  <2> QED BY <1>1, <2>4, <2>6, Steps
<1> QED BY <1>3, <1>4

\* Around the run: no event, and no task but a killed one moves.
LEMMA StaysTold ==
    ASSUME StreamInv, UNCHANGED <<stream, todo>>,
           \A r \in Runs : /\ Len(calls'[r]) = Len(calls[r])
                           /\ pc'[r] = pc[r] \/ (pc[r] # "ended" /\ pc'[r] = "killed")
    PROVE  StreamInv' /\ UNCHANGED Returned
<1>1. ASSUME NEW r \in Runs PROVE Placed(r)'
  <2>1. Placed(r) BY DEF StreamInv
  <2>2. CASE pc'[r] = pc[r]
    BY <2>1, <2>2 DEF Placed, CallsTold, LastIs, LastEvent, Current
  <2>3. CASE pc'[r] = "killed" BY <2>3 DEF Placed
  <2> QED BY <2>2, <2>3
<1>2. StreamInv' BY <1>1 DEF StreamInv
<1> QED BY <1>2 DEF Returned

LEMMA WorldTold ==
    ASSUME RunInv, StreamInv, NEW r \in Runs, TimerFires(r) \/ SetCancel(r) \/ Kill(r)
    PROVE  StreamInv' /\ UNCHANGED <<stream, Returned>>
<1>1. /\ UNCHANGED <<stream, todo, calls>>
      /\ pc' = pc \/ (pc[r] \in Suspended /\ pc' = [pc EXCEPT ![r] = "killed"])
  BY DEF TimerFires, SetCancel, Kill, Goto
<1>2. \A x \in Runs : pc'[x] = pc[x] \/ (pc[x] # "ended" /\ pc'[x] = "killed")
  BY <1>1 DEF RunInv, TypeOK, Suspended
<1> QED BY <1>1, <1>2, StaysTold

LEMMA UserTold ==
    ASSUME RunInv, StreamInv, User PROVE StreamInv' /\ UNCHANGED <<stream, Returned>>
<1>0. PICK m \in Runs, r \in Runs :
         \E i \in 1 .. Current(r) : \E a \in Answers : SubmitAnswer(m, r, i, a)
  BY DEF User
<1>1. PICK i \in 1 .. Current(r), a \in Answers : SubmitAnswer(m, r, i, a) BY <1>0
<1>2. /\ UNCHANGED <<stream, todo, pc>>
      /\ calls' = [calls EXCEPT ![r] = [calls[r] EXCEPT ![i].answer = a]]
  BY <1>1 DEF SubmitAnswer
<1>3. Len([calls[r] EXCEPT ![i].answer = a]) = Len(calls[r])
  <2>1. calls[r] \in Seq(CallSet) BY DEF RunInv, TypeOK
  <2> QED BY <2>1
<1>4. \A x \in Runs : Len(calls'[x]) = Len(calls[x]) BY <1>2, <1>3 DEF RunInv, TypeOK
<1> QED BY <1>2, <1>4, StaysTold

LEMMA InitStream == Init => StreamInv /\ Promise!Init
<1> SUFFICES ASSUME Init PROVE StreamInv /\ Promise!Init OBVIOUS
<1>1. \A r \in Runs : stream[r] = <<>> /\ pc[r] = "idle" BY DEF Init
<1>2. <<>> \in Seq(StreamEvent) /\ Len(<<>>) = 0 BY EmptySeq
<1>3. Promise!WellFormed(<<>>) BY <1>2 DEF Promise!WellFormed
<1>4. \A r \in Runs : Placed(r) BY <1>1 DEF Placed
<1>5. StreamInv BY <1>1, <1>2, <1>3, <1>4 DEF StreamInv, Init
<1>6. Promise!Init BY <1>1 DEF Init, Promise!Init
<1> QED BY <1>5, <1>6

LEMMA NextStream ==
    RunInv /\ StreamInv /\ [Next]_vars =>
        StreamInv' /\ (Promise!Next \/ UNCHANGED <<stream, Returned>>)
<1> SUFFICES ASSUME RunInv, StreamInv, [Next]_vars
             PROVE  StreamInv' /\ (Promise!Next \/ UNCHANGED <<stream, Returned>>)
  OBVIOUS
<1>1. CASE UNCHANGED vars
  <2>1. UNCHANGED <<pc, todo, calls, stream>> BY <1>1 DEF vars, runVars
  <2> QED BY <2>1, StaysTold
<1>2. ASSUME NEW r \in Runs, LoopStep(r) PROVE Carries(r)
  BY <1>2, LoadCarries, ConnectedCarries, BeginRequestCarries, ReplyEndsCarries,
     ReplyCallsToolsCarries, CallSettlesCarries, CallAsksCarries, CallMcpCarries,
     AskResumesCarries, CallsDoneCarries, CloseRunCarries
  DEF LoopStep
<1>3. ASSUME NEW r \in Runs, McpReturns(r) PROVE Carries(r) BY <1>3, McpReturnsCarries
<1>4. ASSUME NEW r \in Runs, TimerFires(r) \/ SetCancel(r) \/ Kill(r)
      PROVE  StreamInv' /\ UNCHANGED <<stream, Returned>>
  BY <1>4, WorldTold
<1>5. CASE User BY <1>5, UserTold
<1>6. CASE Relink
  <2>1. UNCHANGED <<pc, todo, calls, stream>> BY <1>6 DEF Relink, runVars
  <2> QED BY <2>1, StaysTold
<1> QED BY <1>1, <1>2, <1>3, <1>4, <1>5, <1>6, CarriesOn DEF Next

\* Every run of the loop, in the chat and in an evaluation, keeps the promise
\* its readers rely on: its stream only grows, by events that may follow what
\* is there, and execute_run returns only behind run_completed, for any model
\* replies, answers, cancel signals, timeouts and deaths of tasks.
THEOREM RunsKeepThePromise == Spec => ImplementsRunStream
<1>1. RunInv /\ StreamInv /\ [Next]_vars =>
          StreamInv' /\ [Promise!Next]_<<stream, {r \in Runs : pc[r] = "ended"}>>
  BY NextStream DEF Returned
<1>2. Init => StreamInv /\ Promise!Init BY InitStream
<1> QED BY <1>1, <1>2, RunInvariant, PTL DEF Spec, ImplementsRunStream, Promise!Spec

=============================================================================
