--------------------------- MODULE CaseExecution ---------------------------
(***************************************************************************)
(* One row of an evaluation while its case is executed: execute_case_run   *)
(* (runner.py), which reads the stream of an agent run, and the two        *)
(* evaluators (evaluators.py).  The caller says which events it read.      *)
(***************************************************************************)
EXTENDS Naturals, Integers, Sequences, FiniteSets, SequencesExt

CONSTANTS Threshold,      \* pass_threshold of the evaluator
          Scores          \* the numbers a judge may put into its reply

ASSUME CaseAssumption ==
    /\ Threshold \in 0 .. 100
    /\ Scores \subseteq Int

VARIABLE case   \* the row, and where its execution is: [pc, evaluator, ...]

NoScore == -1
\* A count of -1 is a column that was not written.
NoCount == -1
Evaluators == {"llm_judge", "exact_match"}

CaseInit ==
    case = [pc |-> "waiting", evaluator |-> "", asked |-> 0,
            st |-> "pending", score |-> NoScore, requests |-> NoCount, tools |-> NoCount]

CountIn(s, Test(_)) == Cardinality({i \in DOMAIN s : Test(s[i])})

\* _consume_agent_run
ModelCalls(s) ==
    CountIn(s, LAMBDA e : e.event \in {"model_request_started", "summary_started"})
ToolCallsDone(s) ==
    CountIn(s, LAMBDA e : e.event = "tool_call_completed" /\ e.status # "denied")
FinalStatus(s) ==
    IF s # <<>> /\ Last(s).event = "run_completed" THEN Last(s).status ELSE "error"
HasOutput(s) ==
    \E i \in DOMAIN s : s[i].event = "model_request_completed" /\ s[i].output

CaseStarts ==
    /\ case.pc = "waiting"
    /\ case' = [case EXCEPT !.pc = "running", !.st = "running"]

\* _persist_case_run_terminal writes all columns at once.
Settled(st, score, requests, tools) ==
    [case EXCEPT !.pc = "done", !.st = st, !.score = score,
                 !.requests = requests, !.tools = tools]

\* execute_run raised: no counts are known.
RunRaised ==
    /\ case.pc = "running"
    /\ case' = Settled("execution_failed", NoScore, NoCount, NoCount)

AnswerWithoutStatus(s, cancelled, blank, evaluator) ==   \* mutant: the final status not looked at
    /\ case.pc = "running"
    /\ FinalStatus(s) = "cancelled" => cancelled
    /\ ~ HasOutput(s) => blank
    /\ case' = IF cancelled
                 THEN Settled("cancelled", NoScore, ModelCalls(s), ToolCallsDone(s))
               ELSE IF blank
                 THEN Settled("execution_failed", NoScore, ModelCalls(s), ToolCallsDone(s))
               ELSE [case EXCEPT !.pc = "judging", !.evaluator = evaluator,
                                 !.requests = ModelCalls(s), !.tools = ToolCallsDone(s)]

\* The stream is over.  cancelled: the handle's event is set; blank: nothing
\* but white space was said, which an output that is reasoning may be, too.  The
\* evaluator of the task is looked up when there is something to judge.
Answer(s, cancelled, blank, evaluator) ==
    /\ case.pc = "running"
    /\ FinalStatus(s) = "cancelled" => cancelled
    /\ ~ HasOutput(s) => blank
    /\ case' = IF cancelled
                 THEN Settled("cancelled", NoScore, ModelCalls(s), ToolCallsDone(s))
               ELSE IF blank \/ FinalStatus(s) \notin {"completed", "max_rounds"}
                 THEN Settled("execution_failed", NoScore, ModelCalls(s), ToolCallsDone(s))
               ELSE [case EXCEPT !.pc = "judging", !.evaluator = evaluator,
                                 !.requests = ModelCalls(s), !.tools = ToolCallsDone(s)]

-----------------------------------------------------------------------------
(* The evaluators                                                          *)

Judged(st, score) == Settled(st, score, case.requests, case.tools)

\* ExactMatchEvaluator: the case has no expected answer, or it is compared.
ExactMatch ==
    /\ case.pc = "judging" /\ case.evaluator = "exact_match"
    /\ \/ case' = Judged("judge_failed", NoScore)
       \/ case' = Judged("passed", 100)
       \/ case' = Judged("failed", 0)

\* What _extract_json makes of a reply; int: the score is an integer and not a
\* truth value; reason: a text that is not blank.
JudgeReplies == [object : BOOLEAN, int : BOOLEAN, score : Scores, reason : BOOLEAN]

ValidUnbounded(p) == p.object /\ p.int /\ p.reason   \* mutant: no range check

\* _validate_judge_payload
Valid(p) == p.object /\ p.int /\ p.score \in 0 .. 100 /\ p.reason

\* LLMJudgeEvaluator: an invalid reply is asked for again, once.
JudgeAnswers(p) ==
    /\ case.pc = "judging" /\ case.evaluator = "llm_judge"
    /\ case' = IF Valid(p)
                 THEN Judged(IF p.score >= Threshold THEN "passed" ELSE "failed", p.score)
               ELSE IF case.asked = 0 THEN [case EXCEPT !.asked = 1]
               ELSE Judged("judge_failed", NoScore)

\* _call_judge_model: the model is gone or its call fails, at any attempt.
JudgeUnavailable ==
    /\ case.pc = "judging" /\ case.evaluator = "llm_judge"
    /\ case' = Judged("judge_failed", NoScore)

Evaluate ==
    \/ ExactMatch
    \/ \E p \in JudgeReplies : JudgeAnswers(p)
    \/ JudgeUnavailable

\* The process dies; the next one cancels what is open (mark_interrupted_runs).
CaseInterrupted ==
    case' = IF case.st \in {"pending", "running"}
            THEN [case EXCEPT !.pc = "done", !.st = "cancelled", !.score = NoScore,
                              !.requests = NoCount, !.tools = NoCount]
            ELSE case

=============================================================================
