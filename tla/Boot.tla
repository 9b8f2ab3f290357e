-------------------------------- MODULE Boot --------------------------------
(***************************************************************************)
(* From the loader to the end of kernel_entry: the kernel walks the PFNDB  *)
(* it was given, sets up its per-CPU data and interrupt gates, masks the   *)
(* interrupt controller, enables interrupts and breaks into the exception  *)
(* handler, where it halts (core/main.cc, arch/x86-64/init.cc,             *)
(* interrupts.cc, entry.asm, platform/pc/init.cc).                         *)
(***************************************************************************)
EXTENDS Loader

VARIABLE cpu  \* [thread: curthread is set; gates: the interrupt gates are
              \* loaded; masked: so is the controller's mask; irq: interrupts
              \* are on; vector: the one being handled]

bootVars == <<loaderVars, cpu>>

NoVector == 256

BootInit ==
  /\ LoaderInit
  /\ cpu = [thread |-> FALSE, gates |-> FALSE, masked |-> FALSE, irq |-> FALSE, vector |-> NoVector]

RunLoader == LoaderNext /\ UNCHANGED cpu

-----------------------------------------------------------------------------
\* Where the kernel finds a node of the PFNDB, and the frame it reads there.
NodeAddress(f) == base + f * SizeofPage
NodeFrame(f) == Translate(mem.tab, pml4, DownFrame(NodeAddress(f)))

\* kernel_entry counts both lists.  An unmapped node faults, with no gate to
\* take the fault.
CheckPfndb ==
  /\ pc = "kernel"
  /\ IF \A f \in ToSet(mem.free \o mem.rsrv) : NodeFrame(f) # NoFrame
     THEN Asserted(Len(mem.free) + Len(mem.rsrv) = total_phys_pgs, "init")
     ELSE pc' = "lost"
  /\ UNCHANGED <<machine, pos, seg, reserved, pfndb, base, pml4, mem, cpu>>

\* arch::init up to init_idt: per-CPU data, address space and boot thread.
ArchInit ==
  /\ pc = "init"
  /\ cpu' = [cpu EXCEPT !.thread = TRUE]
  /\ pc' = "idt"
  /\ UNCHANGED <<machine, pos, seg, reserved, pfndb, base, pml4, mem>>

InitIdt ==
  /\ pc = "idt"
  /\ cpu' = [cpu EXCEPT !.gates = TRUE]
  /\ pc' = "platform"
  /\ UNCHANGED <<machine, pos, seg, reserved, pfndb, base, pml4, mem>>

PlatformInit ==
  /\ pc = "platform"
  /\ cpu' = [cpu EXCEPT !.masked = TRUE]
  /\ pc' = "enable"
  /\ UNCHANGED <<machine, pos, seg, reserved, pfndb, base, pml4, mem>>

EnableInterrupts ==
  /\ pc = "enable"
  /\ cpu' = [cpu EXCEPT !.irq = TRUE]
  /\ pc' = "break"
  /\ UNCHANGED <<machine, pos, seg, reserved, pfndb, base, pml4, mem>>

\* int 3: the gate turns interrupts off and the stub pushes the vector.
Breakpoint ==
  /\ pc = "break"
  /\ cpu' = [cpu EXCEPT !.irq = FALSE, !.vector = 3]
  /\ pc' = IF cpu.gates THEN "isr" ELSE "lost"
  /\ UNCHANGED <<machine, pos, seg, reserved, pfndb, base, pml4, mem>>

\* No handler is installed: an exception is reported, and so is any other
\* vector, and the kernel halts.
IsrHandler ==
  /\ pc = "isr"
  /\ pc' = IF cpu.vector < 32 THEN "exception" ELSE "halted"
  /\ UNCHANGED <<machine, pos, seg, reserved, pfndb, base, pml4, mem, cpu>>

\* The registers are written to the console, which has no state here.
ExceptionHandler ==
  /\ pc = "exception" /\ pc' = "halted"
  /\ UNCHANGED <<machine, pos, seg, reserved, pfndb, base, pml4, mem, cpu>>

\* The machine has come to rest.
Rest ==
  /\ pc \in {"halted", "stopped", "lost"}
  /\ UNCHANGED bootVars

BootNext ==
  \/ RunLoader \/ CheckPfndb \/ ArchInit \/ InitIdt \/ PlatformInit
  \/ EnableInterrupts \/ Breakpoint \/ IsrHandler \/ ExceptionHandler \/ Rest

BootSpec == BootInit /\ [][BootNext]_bootVars /\ WF_bootVars(BootNext)

-----------------------------------------------------------------------------
ListsBuilt == pc # "fill" /\ mem.rsrv # <<>>  \* frame 0 is reserved
Entered == pc \in {"kernel", "init", "idt", "platform", "enable", "break", "isr", "exception", "halted"}

ModuleFrames == FramesOf(machine.mod.begin, machine.mod.end - 1)
LoaderFrames == FramesOf(LoaderImage.begin, LoaderImage.end - 1)

\* Every frame is on one of the two lists, once, and the frames that the
\* loader gives out are on the reserved one (mem.cc:123-129, 148-151).
FramesPartitioned ==
  ListsBuilt => /\ ToSet(mem.free \o mem.rsrv) = 0..total_phys_pgs - 1
                /\ Len(mem.free) + Len(mem.rsrv) = total_phys_pgs

\* Whatever the loader allocates and clears, its own image, the module and the
\* PFNDB are untouched, up to a page that holds only the last byte of an image:
\* is_in takes the last byte for the first one past the end (mem.cc:36-47).
ImagesIntact ==
  ListsBuilt => /\ \A f \in ModuleFrames \cup LoaderFrames : mem.held[f] = f
                /\ \A f \in PfndbFrames : mem.held[f] = Nodes

\* The PFNDB lies within one range of available memory, over whichever of them
\* the search has run, as the comment on the search has it (mem.cc:49-83).  The
\* code refutes it where a range ends below the number of its pages.
PfndbInMemory ==
  ListsBuilt => \E k \in Available : PfndbFrames \subseteq UpFrame(machine.mmap[k].addr)..DownFrame(End(k)) - 1

\* The tables are private: reserved, cleared when they were made and never
\* written as anything else, apart from the images and the PFNDB, and no
\* address from the end of the identity map to the recursive entry leads to a
\* table, or to a frame that is free and may become one (mem.cc:161-190).
BootTablesPrivate ==
  ListsBuilt /\ pml4 # 0 /\ mem.ok =>
    LET tables == TableFrames(mem.tab, pml4)
    IN /\ tables \subseteq ToSet(mem.rsrv)
       /\ \A f \in tables : mem.held[f] = Zeroed
       /\ tables \cap (ModuleFrames \cup LoaderFrames \cup PfndbFrames) = {}
       /\ \A v \in LowPages..virt_from_index(Self, 0, 0, 0) - 1 :
            Translate(mem.tab, pml4, v) \notin tables \cup ToSet(mem.free)

\* The kernel starts with what it needs: every page of a segment leads to that
\* page of the file, the stack has a page of its own, and every node of both
\* lists is found at the address that its links give, in the PFNDB
\* (main.cc:161-210).
KernelLoaded ==
  Entered =>
    /\ \A k \in DOMAIN machine.segs :
         machine.segs[k].load =>
           \A i \in 0..UpFrame(machine.segs[k].filesz) - 1 :
             LET f == Translate(mem.tab, pml4, machine.segs[k].vaddr + i)
             IN f # NoFrame /\ mem.held[Ptr(f)] = DownFrame(machine.mod.begin) + machine.segs[k].offset + i
    /\ mem.held[Ptr(Translate(mem.tab, pml4, kernel_stack_limit))] = Zeroed
    /\ \A f \in ToSet(mem.free \o mem.rsrv) : NodeFrame(f) = pfndb + DownFrame(f * SizeofPage)

\* Booting comes to an end, on a machine that lacks what it needs too: in the
\* kernel's exception handler, at an assert, or lost (main.cc:92-236,
\* core/main.cc:15-47).
BootEnds == <>(pc \in {"halted", "stopped", "lost"})

\* It never ends lost: a machine without a kernel module or without a memory map
\* stops at the assert that is there for it (main.cc:122, 130).  The code
\* refutes it: the search itself reads through null.
BootNotLost == <>(pc \in {"halted", "stopped"})
=============================================================================
