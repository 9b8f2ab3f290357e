---------------------------- MODULE MCSequential ----------------------------
(* The parts that run without interleaving share no state: each is checked  *)
(* on its own, and subject, of MCLibrary, says which one a behaviour is     *)
(* about.                                                                   *)
EXTENDS MCIntrusiveList, MCPmm, VmRegion, MCLibrary

sequentialVars == <<libraryVars, vars, pmmVars, vmrVars>>

\* Only the subject starts in each of its initial states.
SequentialInit ==
  /\ Init /\ PmmInit /\ VmrInit
  /\ \/ LibraryInit
     \/ /\ subject \in {"list", "pmm", "vmr"}
        /\ StringInit /\ StdioInit /\ ElfInit
        /\ store = [a \in Addresses |-> 0]
  /\ subject = "pmm" \/ caller = CHOOSE o \in Owners : TRUE

SequentialNext ==
  \/ LibraryNext /\ UNCHANGED <<vars, pmmVars, vmrVars>>
  \/ subject = "list" /\ Next /\ UNCHANGED <<libraryVars, pmmVars, vmrVars>>
  \/ subject = "pmm" /\ PmmNext /\ UNCHANGED <<libraryVars, vars, vmrVars>>
  \/ subject = "vmr" /\ VmrNext /\ UNCHANGED <<libraryVars, vars, pmmVars>>

\* States apart from what the last allocate_vmr_compact returned, which no step
\* reads: the view in which the states are told apart.
Lasting == <<libraryVars, vars, pmmVars, base, size, capability, parent, children, made,
             destroyed, broken, null_read>>

SequentialSpec == SequentialInit /\ [][SequentialNext]_sequentialVars
=============================================================================
