-------------------------- MODULE MCIntrusiveList --------------------------
(* Instances of IntrusiveList for TLC. *)
EXTENDS IntrusiveList
CONSTANTS n1, n2, n3, n4
=============================================================================
