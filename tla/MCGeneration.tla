---------------------------- MODULE MCGeneration ----------------------------
(* Small instances of the chat generation for TLC. *)
EXTENDS Generation, TLC

\* Generation tasks are interchangeable, and so are subscriptions; sound for the
\* runs that check safety only.
Symmetry == Permutations(Tasks) \cup Permutations(Subs)

=============================================================================
