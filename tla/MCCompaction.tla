---------------------------- MODULE MCCompaction ----------------------------
(* Compaction on a small scale: a prompt of 8 units, compressed from 6 on; a  *)
(* batch holds 4 units, so that three groups may already need more batches    *)
(* than the two there are.                                                    *)
EXTENDS Compaction

=============================================================================
