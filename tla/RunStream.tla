----------------------------- MODULE RunStream -----------------------------
(***************************************************************************)
(* What execute_run promises to everyone who reads its stream of events:   *)
(* the bridge of the chat, the evaluation and the recorder.  The stream is *)
(* only ever extended, by events that may follow what is already there,    *)
(* and a run that returns has completed it.                                *)
(*                                                                         *)
(* The text and reasoning increments are left out.  summary_started and    *)
(* summary_completed stand for the model_request events of a compression   *)
(* (purpose context_compression); they lie inside it.                      *)
(***************************************************************************)
EXTENDS Naturals, Sequences, SequencesExt

CONSTANT Runs

VARIABLES
    stream,   \* per run the events so far: records with fields event and call
    over      \* the runs whose execute_run has returned

EventKinds == {"run_started", "model_request_started", "model_request_completed",
               "compression_started", "summary_started", "summary_completed",
               "compression_completed", "compression_failed", "compression_fallback",
               "tool_call_started", "permission_checked", "ask_user",
               "tool_call_completed", "error", "run_completed"}

\* An agent or model that is gone is the only reason to start with an error.
Openings == {"run_started", "error"}

\* The head of a round: the cancel signal, a compression, a request or the
\* report that the context does not fit.
RoundHead == {"compression_started", "model_request_started", "error", "run_completed"}

\* What may come next, where the kind alone decides.
Successors ==
    [run_started             |-> RoundHead,
     compression_started     |-> {"summary_started", "compression_failed"},
     summary_started         |-> {"summary_completed"},
     summary_completed       |-> {"summary_started", "compression_completed",
                                  "compression_failed"},
     compression_completed   |-> {"model_request_started", "run_completed"},
     compression_failed      |-> RoundHead \cup {"compression_fallback"},
     compression_fallback    |-> RoundHead,
     model_request_started   |-> {"model_request_completed"},
     model_request_completed |-> {"tool_call_started", "error", "run_completed"},
     tool_call_started       |-> {"permission_checked", "ask_user", "tool_call_completed"},
     permission_checked      |-> {"permission_checked", "ask_user", "tool_call_completed"},
     ask_user                |-> {"tool_call_completed"},
     tool_call_completed     |-> RoundHead \cup {"tool_call_started"},
     error                   |-> {"run_completed"},
     run_completed           |-> {}]

InsideCall == {"permission_checked", "ask_user", "tool_call_completed"}

Follows(e, f) ==
    /\ f.event \in Successors[e.event]
    /\ f.event \in InsideCall => f.call = e.call
    /\ f.event = "tool_call_started" /\ e.event = "tool_call_completed" =>
           f.call = e.call + 1

\* The event e may come behind the stream s.
MayCome(s, e) ==
    /\ e.event \in EventKinds
    /\ IF s = <<>> THEN e.event \in Openings ELSE Follows(s[Len(s)], e)

WellFormed(s) ==
    /\ \A i \in 1 .. Len(s) : s[i].event \in EventKinds
    /\ s # <<>> => s[1].event \in Openings
    /\ \A i \in 1 .. Len(s) - 1 : Follows(s[i], s[i + 1])

Extends(s, t) == Len(s) < Len(t) /\ SubSeq(t, 1, Len(s)) = s

Init ==
    /\ stream = [r \in Runs |-> <<>>]
    /\ over = {}

\* Any of the runs goes on, by one event or by several at once.
GoOn(r) ==
    /\ Extends(stream[r], stream'[r])
    /\ WellFormed(stream'[r])
    /\ stream' = [stream EXCEPT ![r] = stream'[r]]

\* It returns to its caller, behind its last event.
Return(r) ==
    /\ stream'[r] # <<>> /\ Last(stream'[r]).event = "run_completed"
    /\ over' = over \cup {r}

Next ==
    \E r \in Runs \ over :
        /\ GoOn(r) \/ UNCHANGED stream
        /\ Return(r) \/ UNCHANGED over

Spec == Init /\ [][Next]_<<stream, over>>

=============================================================================
