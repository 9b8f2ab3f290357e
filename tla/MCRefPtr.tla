------------------------------ MODULE MCRefPtr ------------------------------
(* Instances of RefPtr for TLC. *)
EXTENDS RefPtr
CONSTANTS t1, t2, o1, o2, v1, v2
MCThreads == {t1, t2}
MCObjects == {o1, o2}
MCSlots == {v1, v2}

\* Threads, objects and variables are interchangeable.
Alike == Permutations(MCThreads) \cup Permutations(MCObjects) \cup Permutations(MCSlots)
=============================================================================
