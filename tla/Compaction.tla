----------------------------- MODULE Compaction -----------------------------
(***************************************************************************)
(* Context compression of one conversation over many runs:                 *)
(* agent_runtime/compression.py, the capacity checks of run_agent_loop and *)
(* the row of conversation_compactions (summary and boundary, one commit). *)
(*                                                                         *)
(* A group is a user message with the reply and tool exchanges after it    *)
(* (build_context_groups); groups are numbered in the order of messages.seq*)
(* and a boundary is the number of the last compressed group.  A summary   *)
(* is the set of the groups that went into it.  Sizes are token estimates  *)
(* scaled down.  The runs of a conversation exclude each other             *)
(* (Generation!OneGeneration), so one run at a time is modelled.           *)
(***************************************************************************)
EXTENDS Naturals, Sequences, FiniteSets, FiniteSetsExt, SequencesExt

CONSTANTS MaxGroups,     \* bound: user messages of the conversation
          MaxRegenerations, \* bound
          Sizes,         \* of a user message, a reply, a tool exchange
          Fixed,         \* system prompt and tools
          SummarySize,   \* of a summary
          Available,     \* available_input_tokens
          Trigger,       \* compact_trigger_ratio * available
          Keeps,         \* compact_keep_recent_rounds an agent may have
          BatchBudget,   \* max(available // 2, 500)
          MaxBatches,    \* settings.compact_max_batches
          MaxAttempts,   \* settings.compact_max_attempts_per_run
          MaxRounds      \* agents.max_rounds

ASSUME CompactionAssumption ==
    /\ {MaxGroups, MaxRegenerations, Fixed, SummarySize, Available, Trigger, BatchBudget,
        MaxBatches, MaxAttempts, MaxRounds} \subseteq Nat
    /\ Sizes \subseteq Nat /\ Keeps \subseteq Nat \ {0}
    /\ Trigger <= Available /\ MaxBatches > 0

VARIABLES
    size,       \* messages: the tokens of each group, [user, reply]
    saved,      \* the compaction row: [digest, boundary]
    pc,         \* "idle", "precheck", "check", "summarize", "request"
    auto,       \* ctx.compact_enabled
    keep,       \* ctx.compact_keep_recent_rounds
    groups,     \* the groups in ctx.messages
    extra,      \* tokens of this run's tool exchanges, part of the last group
    digest,     \* the summary in ctx.messages
    round,      \* ctx.round_no
    attempts,   \* ctx.compact_attempts
    doneRound,  \* ctx.compact_done_round
    batches,    \* the batches not yet summarised
    draft,      \* summary_text of the running attempt
    regenerations

context == <<groups, extra, digest>>
counters == <<round, attempts, doneRound>>
attempt == <<batches, draft>>
\* What no step of a run but its end changes.
config == <<auto, keep, regenerations>>
vars == <<size, saved, pc, config, context, counters, attempt>>

Newest == Len(size)
NoRound == MaxRounds + 3
Tokens(g) == size[g].user + size[g].reply
TokensOf(gs) ==
    LET upTo[g \in 0 .. Newest] ==
            IF g = 0 THEN 0 ELSE upTo[g - 1] + (IF g \in gs THEN Tokens(g) ELSE 0)
    IN  upTo[Newest]

-----------------------------------------------------------------------------
(* Estimates, batches and cutting                                          *)

\* estimate_messages_tokens of a prompt made of a summary and groups.
Estimate(summary, gs, more) ==
    Fixed + (IF summary = {} THEN 0 ELSE SummarySize) + more
          + TokensOf(gs)
Estimated == Estimate(digest, groups, extra)

\* The groups before the cut: all but the last "keep".
Compressed == {g \in groups : Cardinality({h \in groups : h >= g}) > keep}
Kept == groups \ Compressed

\* _split_batches before it cuts the list to MaxBatches.
AddToBatch(bs, g) ==
    IF bs # <<>> /\ TokensOf(Last(bs)) + Tokens(g) <= BatchBudget
    THEN [bs EXCEPT ![Len(bs)] = @ \cup {g}]
    ELSE Append(bs, {g})
AllBatches ==
    LET upTo[g \in 0 .. Newest] ==
            IF g = 0 THEN <<>>
            ELSE IF g \in Compressed THEN AddToBatch(upTo[g - 1], g) ELSE upTo[g - 1]
    IN  upTo[Newest]
SplitBatches == SubSeq(AllBatches, 1, Min({MaxBatches, Len(AllBatches)}))

\* The oldest groups are dropped until the rest fits, but never the newest.
Fitting(summary, gs) ==
    LET from(g) == {h \in gs : h >= g}
        fits == {g \in gs : Estimate(summary, from(g), extra) <= Available}
    IN  from(IF fits = {} THEN Max(gs) ELSE Min(fits))

-----------------------------------------------------------------------------
\* A RunContext that does not exist: between two runs.
NoRun(k, g, e, d, r, a, dr, bs, t) ==
    /\ k = Min(Keeps) /\ g = {} /\ e = 0 /\ d = {}
    /\ r = 0 /\ a = 0 /\ dr = NoRound /\ bs = <<>> /\ t = {}

Init ==
    /\ size = <<>>
    /\ saved = [digest |-> {}, boundary |-> 0]
    /\ pc = "idle" /\ auto = TRUE /\ regenerations = 0
    /\ NoRun(keep, groups, extra, digest, round, attempts, doneRound, batches, draft)

\* The run is over, whatever its result, and its RunContext is gone.
EndRun ==
    /\ pc' = "idle" /\ auto' = TRUE
    /\ NoRun(keep', groups', extra', digest', round', attempts', doneRound', batches', draft')
    /\ UNCHANGED <<saved, regenerations>>

EffectiveHistoryOfAll(n) == 1 .. n               \* mutant: the boundary is ignored

\* The history a run starts with: what lies behind the boundary.
EffectiveHistory(n) == saved.boundary + 1 .. n

\* run_agent_loop up to the precheck, with the settings the agent has now.
StartRun(n) ==
    /\ keep' \in Keeps
    /\ groups' = EffectiveHistory(n)
    /\ digest' = saved.digest
    /\ extra' = 0 /\ round' = 0 /\ attempts' = 0 /\ doneRound' = NoRound
    /\ pc' = "precheck"
    /\ UNCHANGED <<saved, attempt>>

\* _assert_context_fits: without compression the whole history has to fit.
Admitted(s) ==
    /\ Fixed + s <= Available
    /\ auto' \/ Fixed + s + TokensOf(1 .. Newest) <= Available

\* A message is sent, or the newest reply is thrown away and made again.
SendMessage(s) ==
    /\ pc = "idle" /\ Newest < MaxGroups
    /\ auto' \in BOOLEAN /\ Admitted(s)
    /\ size' = Append(size, [user |-> s, reply |-> 0])
    /\ StartRun(Newest + 1)
    /\ UNCHANGED regenerations

Regenerate ==
    /\ pc = "idle" /\ size # <<>> /\ regenerations < MaxRegenerations
    /\ auto' \in BOOLEAN /\ Admitted(0)
    /\ size' = [size EXCEPT ![Newest].reply = 0]
    /\ regenerations' = regenerations + 1
    /\ StartRun(Newest)

\* What follows a check or compression that does not end the run: before the
\* first round (round 0) the first round's own check, then the request.
Proceed ==
    IF round = 0
    THEN round' = 1 /\ pc' = (IF auto THEN "check" ELSE "request")
    ELSE round' = round /\ pc' = "request"

Checking == pc \in {"precheck", "check"}
AlreadyDone == pc = "check" /\ doneRound = round
Threshold == IF pc = "precheck" THEN Available ELSE Trigger
MustCompact == Checking /\ auto /\ ~ AlreadyDone /\ Estimated >= Threshold

\* _maybe_compact without a compression: compression is off, this round is
\* marked as compressed, or the estimate is below the threshold.
CheckPasses ==
    /\ Checking /\ ~ MustCompact
    /\ auto \/ Estimated <= Available
    /\ Proceed
    /\ UNCHANGED <<size, saved, config, context, attempts, doneRound, attempt>>

CheckOverflows ==
    /\ Checking /\ ~ auto /\ Estimated > Available
    /\ EndRun
    /\ UNCHANGED size

\* No attempt is left, or there is nothing older than the rounds to keep
\* (which still counts as an attempt).
CannotCompact == MustCompact /\ (attempts >= MaxAttempts \/ Compressed = {})
CountAttempt == attempts' = Min({attempts + 1, MaxAttempts})

GoOnSilently ==                                  \* mutant: sends it anyway
    /\ CannotCompact
    /\ CountAttempt /\ Proceed
    /\ UNCHANGED <<size, saved, config, context, doneRound, attempt>>

GoOnUncompacted ==
    /\ CannotCompact /\ Estimated <= Available
    /\ CountAttempt /\ Proceed
    /\ UNCHANGED <<size, saved, config, context, doneRound, attempt>>

GiveUpUncompacted ==
    /\ CannotCompact /\ Estimated > Available
    /\ EndRun
    /\ UNCHANGED size

\* run_compaction up to its first summary request.
BeginCompaction ==
    /\ MustCompact /\ ~ CannotCompact
    /\ CountAttempt
    /\ batches' = SplitBatches
    /\ draft' = digest
    /\ pc' = "summarize"
    /\ UNCHANGED <<size, saved, config, context, round, doneRound>>

\* A batch is summarised together with the summary so far.
BatchSummarised ==
    /\ pc = "summarize" /\ Len(batches) > 1
    /\ draft' = draft \cup Head(batches)
    /\ batches' = Tail(batches)
    /\ UNCHANGED <<size, saved, pc, config, context, counters>>

NewestBoundary == Newest                         \* mutant: covers the kept groups

\* The highest seq of the compressed groups.
NewBoundary == Max(Compressed)

\* The last batch: the row is stored, the context rewritten, and kept groups
\* are left out of it if it is still too large.
CompactionSucceeds ==
    /\ pc = "summarize" /\ Len(batches) = 1
    /\ LET summary == draft \cup Head(batches) IN
       /\ saved' = [digest |-> summary, boundary |-> NewBoundary]
       /\ digest' = summary
       /\ groups' = Fitting(summary, Kept)
    /\ batches' = <<>> /\ draft' = {}
    /\ doneRound' = round + 1
    /\ Proceed
    /\ UNCHANGED <<size, config, extra, attempts>>

\* A summary request or the commit failed: this request only sees the kept
\* groups that fit beside the old summary; the row stays as it is.
CompactionFails ==
    /\ pc = "summarize"
    /\ LET rest == Fitting(digest, Kept) IN
       \/ /\ Estimate(digest, rest, extra) <= Available
          /\ groups' = rest
          /\ batches' = <<>> /\ draft' = {}
          /\ Proceed
          /\ UNCHANGED <<saved, config, extra, digest, attempts, doneRound>>
       \/ Estimate(digest, rest, extra) > Available /\ EndRun
    /\ UNCHANGED size

\* The reply asks for tools: their results join the last group.  After the
\* last round one more request is made without tools.
ToolExchange(s) ==
    /\ pc = "request" /\ round <= MaxRounds
    /\ extra' = extra + s
    /\ round' = round + 1
    /\ pc' = IF auto THEN "check" ELSE "request"
    /\ UNCHANGED <<size, saved, config, groups, digest, attempts, doneRound, attempt>>

\* The run ends with a stored reply, which becomes part of the history; the
\* tool exchanges of a run do not.
RunCompletes(s) ==
    /\ pc = "request"
    /\ size' = [size EXCEPT ![Newest].reply = s]
    /\ EndRun

\* The run fails, is stopped, or the process dies: no reply joins the history.
RunAborts ==
    /\ pc \in {"summarize", "request"}
    /\ EndRun
    /\ UNCHANGED size

Step ==
    \/ CheckPasses \/ CheckOverflows \/ GoOnUncompacted \/ GiveUpUncompacted
    \/ BeginCompaction
    \/ BatchSummarised \/ CompactionSucceeds \/ CompactionFails
    \/ \E s \in Sizes : ToolExchange(s) \/ RunCompletes(s)
    \/ RunAborts

Next == Step \/ Regenerate \/ \E s \in Sizes : SendMessage(s)

Spec == Init /\ [][Next]_vars

-----------------------------------------------------------------------------
(* Properties                                                              *)

\* Whatever was compressed and trimmed, in this run and in earlier ones, the
\* context of a run is a gapless end of the conversation with the message the
\* run answers (apply_compaction, the trimming of run_compaction), and shows
\* no group both in full and through the summary.
ContextIsRecentPart ==
    pc # "idle" =>
        /\ Newest \in groups
        /\ groups = Min(groups) .. Newest
        /\ groups \cap digest = {}

\* The stored row changes only forwards: a new summary builds on the old one,
\* the boundary grows and stays behind the newest message, and all groups it
\* newly covers went into the summary, except those that _split_batches cuts
\* off behind MaxBatches batches, which are lost for the following runs.
CompactionMovesForward ==
    [][saved' # saved =>
          /\ saved.digest \subseteq saved'.digest
          /\ saved.boundary < saved'.boundary /\ saved'.boundary < Newest
          /\ Len(AllBatches) <= MaxBatches =>
                 saved.boundary + 1 .. saved'.boundary \subseteq saved'.digest]_vars

\* A request larger than the available input leaves only where the code does
\* not look (_maybe_compact): without auto compression after a tool exchange,
\* and with it right after a successful compression, in that round (its result
\* is not measured) and in the next one (its check is skipped).
OnlyUncheckedRequestsOverflow ==
    pc = "request" /\ Estimated > Available =>
        IF auto THEN doneRound \in {round, round + 1} ELSE extra > 0

-----------------------------------------------------------------------------
(* What the documents say and the code does not do                         *)

\* With auto compression no request is sent that cannot fit: it is compressed,
\* trimmed or refused before every request.
SentRequestFits == auto /\ pc = "request" => Estimated <= Available

=============================================================================
