------------------------------- MODULE MCPmm -------------------------------
(* Instances of Pmm for TLC. *)
EXTENDS Pmm
CONSTANTS p1, p2, p3
MCPages == {p1, p2, p3}
MCInitFree == <<p1, p2, p3>>
=============================================================================
