---------------------------- MODULE MCEvaluation ----------------------------
(* Small instances of the evaluation engine for TLC: the configurations give  *)
(* all constants their values.                                               *)
EXTENDS Evaluation

=============================================================================
