---------------------------- MODULE MCManagement ----------------------------
(* Small instances of the management pages for TLC. *)
EXTENDS Management

\* What is looked at one after the other: the defaults, the references to each
\* kind of resource, the tests, and the skills with their directories.
Scene(models, as, servers_, skills_, tests, disk_) ==
    [model |-> models, agent |-> as, server |-> servers_, skill |-> skills_,
     test |-> tests, disk |-> disk_]

Overlaps ==
    {Scene(2, 1, 0, 0, 0, 0), Scene(1, 2, 0, 0, 0, 0),
     Scene(1, 1, 1, 0, 0, 0), Scene(1, 1, 0, 1, 0, 0),
     Scene(0, 0, 1, 0, 1, 0), Scene(0, 0, 0, 2, 0, 1)}

OneAgent == {Scene(1, 1, 0, 2, 0, 1)}

\* Threads, directory names and configurations are interchangeable.
Symmetry == Permutations(Workers) \cup Permutations(Dirs) \cup Permutations(Configs)

=============================================================================
