--------------------------- MODULE MCRecordedRun ---------------------------
(* A recorded run whose judge answers at the edges of the scale and of the *)
(* threshold.  The longer runs are those of a chat, which may compress; for *)
(* a result of an evaluation two answers and a call are enough.            *)
EXTENDS RecordedRun

EdgeScores == {-1, 0, Threshold - 1, Threshold, 100, 101}
BothStarts == [chat |-> 4, evaluation |-> 3]
ShortStarts == [chat |-> 1]
=============================================================================
