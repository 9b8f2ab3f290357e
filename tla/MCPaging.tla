------------------------------ MODULE MCPaging ------------------------------
(* The loader's page tables and the kernel's are checked one at a time, and *)
(* stage says which of them a behaviour is about.                           *)
EXTENDS MCPageTables, MCBoot

VARIABLE stage

pagingVars == <<stage, vars, bootVars>>

\* The stage starts in each of its initial states, the other one in one.
PagingInit ==
  /\ stage \in {"boot", "kernel"}
  /\ BootInit /\ Init
  /\ IF stage = "boot" THEN DOMAIN tab = {<<Root, Self>>} ELSE machine = CHOOSE m \in Machines : TRUE

PagingNext ==
  /\ UNCHANGED stage
  /\ \/ stage = "boot" /\ BootNext /\ UNCHANGED vars
     \/ stage = "kernel" /\ Next /\ UNCHANGED bootVars

\* Booting goes on, with the fairness of BootSpec.
PagingSpec == PagingInit /\ [][PagingNext]_pagingVars /\ WF_pagingVars(stage = "boot" /\ PagingNext)

\* A boot comes to an end, whatever the machine lacks (main.cc:92-236,
\* core/main.cc:15-47).
EveryBootEnds == stage = "boot" => BootEnds
=============================================================================
