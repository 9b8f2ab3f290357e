------------------------------- MODULE Loader -------------------------------
(***************************************************************************)
(* The multiboot2 loader (loader/x86-64-multiboot2): it finds the kernel   *)
(* module and the memory map, places the page frame database (PFNDB),      *)
(* builds the free and the reserved list, maps the kernel, its stack and   *)
(* the PFNDB and enters long mode.  One machine runs it from start to end; *)
(* the machines it may find are the initial states.                        *)
(*                                                                         *)
(* Ranges are in bytes, tables and lists in frames.  A frame holds its own *)
(* number as long as nobody has written to it, and the number of another   *)
(* frame when that one was copied.  A loader pointer has 32 bits: it       *)
(* reaches the first AddrFrames frames, and longer addresses lose their    *)
(* high part.                                                              *)
(***************************************************************************)
EXTENDS Paging, SequencesExt

CONSTANTS PageSize, SizeofPage,
          AddrFrames,   \* frames a 32-bit address reaches
          SpaceFrames,  \* where an unsigned subtraction below 0 wraps to
          LowPages,     \* pages of the identity map
          KernelIdx,    \* kernel_pml4_idx
          LoaderImage,  \* [begin, end]: loader_begin_ and loader_end_
          MaxTries,     \* memory map entries that early_pmm_alloc_cts tries
          Machines

ASSUME LoaderAssumption ==
  /\ {SizeofPage, AddrFrames, SpaceFrames, LowPages, KernelIdx} \subseteq Nat \ {0}
  /\ PageSize \in Nat \ {0, 1}
  /\ SizeofPage <= PageSize /\ LowPages <= Entries /\ AddrFrames <= Entries * Entries * Entries
  /\ KernelIdx + 3 < Self

\* The loader and its module lie where a 32-bit address reaches.
ASSUME MachinesAssumption ==
  LET Image == [begin : 0..AddrFrames * PageSize, end : 0..AddrFrames * PageSize]
  IN /\ LoaderImage \in Image
     /\ \A m \in Machines :
          /\ m.mod \in Image
          /\ m.mmap \in Seq([addr : Nat, len : Nat, available : BOOLEAN])
          /\ m.segs \in Seq([load : BOOLEAN, aligned : BOOLEAN, vaddr : Nat, offset : Nat,
                             filesz : Nat, memsz : Nat])

VARIABLES machine,   \* what the boot loader left in memory
          pc,        \* where the loader is
          pos, seg,  \* how far its loops have come
          reserved,  \* reserved_memory
          pfndb,     \* the frame at which the PFNDB begins
          base,      \* what the pointers to PFNDB nodes count from
          pml4,
          mem        \* [free, rsrv: the lists; tab: the tables; held: what
                     \* frames hold; page: the page to fill; ok]

loaderVars == <<machine, pc, pos, seg, reserved, pfndb, base, pml4, mem>>

Zeroed == -2
Nodes == -3

-----------------------------------------------------------------------------
kernel_base == virt_from_index(KernelIdx, 0, 0, 0)
kernel_limit == virt_from_index(KernelIdx + 1, 0, 0, 0)
kernel_stack_limit == kernel_limit - 1
kernel_pfndb_base == virt_from_index(KernelIdx + 2, 0, 0, 0)

UpFrame(addr) == (addr + PageSize - 1) \div PageSize    \* page_align_up
DownFrame(addr) == addr \div PageSize                   \* page_align_down
Ptr(f) == f % AddrFrames
FramesOf(begin, end) == DownFrame(begin)..DownFrame(end - 1)

Available == {k \in DOMAIN machine.mmap : machine.mmap[k].available}
End(k) == machine.mmap[k].addr + machine.mmap[k].len

total_phys_pgs == DownFrame(Max({0} \cup {End(k) : k \in Available}))
pfndb_sz_bytes == total_phys_pgs * SizeofPage
pfndb_sz_pgs == UpFrame(pfndb_sz_bytes)

LoaderInit ==
  /\ machine \in Machines
  /\ pc = "module" /\ pos = 1 /\ seg = 1
  /\ reserved = <<[begin |-> 0, end |-> PageSize - 1],
                  [begin |-> LoaderImage.begin, end |-> LoaderImage.end - 1],
                  [begin |-> 0, end |-> 0], [begin |-> 0, end |-> 0]>>
  /\ pfndb = 0 /\ base = 0 /\ pml4 = 0
  /\ mem = [free |-> <<>>, rsrv |-> <<>>, tab |-> <<>>, held |-> [f \in 0..AddrFrames - 1 |-> f],
            page |-> 0, ok |-> TRUE]

\* A failed assert prints a message and halts.
Asserted(cond, next) == pc' = IF cond THEN next ELSE "stopped"

-----------------------------------------------------------------------------
\* The next tag of this type, from tag t on.  Past the last tag the iterator
\* becomes null and is then read through: the loader is lost.
NextTag(t, type) ==
  LET found == {k \in t..Len(machine.tags) : machine.tags[k].type = type}
  IN IF found = {} THEN 0 ELSE Min(found)

\* Mutant: the loop does not go on to the next tag.
FindModuleStuck ==
  /\ pc = "module"
  /\ LET k == NextTag(pos, "module")
     IN IF k = 0 THEN pc' = "lost" /\ UNCHANGED pos
        ELSE IF machine.tags[k].cmdline = "cxkernel" THEN pc' = "mmap" /\ pos' = 1
        ELSE pos' = k /\ Asserted(k < Len(machine.tags), "module")
  /\ UNCHANGED <<machine, seg, reserved, pfndb, base, pml4, mem>>

\* The loop over module tags looks at one of them.
FindModule ==
  /\ pc = "module"
  /\ LET k == NextTag(pos, "module")
     IN IF k = 0 THEN pc' = "lost" /\ UNCHANGED pos
        ELSE IF machine.tags[k].cmdline = "cxkernel" THEN pc' = "mmap" /\ pos' = 1
        ELSE pos' = k + 1 /\ Asserted(k < Len(machine.tags), "module")
  /\ UNCHANGED <<machine, seg, reserved, pfndb, base, pml4, mem>>

FindMmap ==
  /\ pc = "mmap"
  /\ pc' = IF NextTag(1, "mmap") = 0 THEN "lost" ELSE "search"
  /\ reserved' = [reserved EXCEPT
                    ![3] = [begin |-> machine.tag.begin, end |-> machine.tag.begin + machine.tag.size - 1],
                    ![4] = [begin |-> machine.mod.begin, end |-> machine.mod.end - 1]]
  /\ UNCHANGED <<machine, seg, pos, pfndb, base, pml4, mem>>

-----------------------------------------------------------------------------
\* Mutant: one range too few.
is_page_reserved_three(page) ==
  \E r \in 1..3, addr \in {Ptr(page) * PageSize, Ptr(page + 1) * PageSize} :
    reserved[r].begin <= addr /\ addr < reserved[r].end

\* is_in counts the last byte of a range as outside.
is_page_reserved(page) ==
  \E r \in 1..4, addr \in {Ptr(page) * PageSize, Ptr(page + 1) * PageSize} :
    reserved[r].begin <= addr /\ addr < reserved[r].end

\* The runs of free pages that the search finds; it takes the first one.
\* limit - pages wraps around when the range ends below the number of pages.
search_run(pages, from, limit) ==
  {ptr \in from..(IF limit < pages THEN SpaceFrames - 1 ELSE limit - pages - 1) :
     \A i \in ptr..ptr + pages - 1 : ~is_page_reserved(i)}

\* One attempt of early_pmm_alloc_cts: the next entry of available memory.
EarlyAlloc ==
  LET left == {k \in Available : k >= pos}
      k == Min(left)
      runs == search_run(pfndb_sz_pgs, UpFrame(machine.mmap[k].addr), DownFrame(End(k)))
  IN /\ pc = "search"
     /\ IF left = {} \/ Cardinality(Available) - Cardinality(left) = MaxTries
        THEN pc' = "stopped" /\ UNCHANGED <<pos, pfndb>>
        ELSE IF runs = {} THEN pos' = k + 1 /\ UNCHANGED <<pc, pfndb>>
        ELSE pfndb' = Ptr(Min(runs)) /\ pc' = "lists" /\ UNCHANGED pos
     /\ UNCHANGED <<machine, seg, reserved, base, pml4, mem>>

PfndbFrames == {Ptr(pfndb + i) : i \in 0..pfndb_sz_pgs - 1}

\* The PFNDB is cleared, and it replaces the memory map as a reserved range.
ReservePfndb ==
  /\ pc = "lists" /\ pc' = "fill"
  /\ reserved' = [reserved EXCEPT ![3] = [begin |-> pfndb * PageSize,
                                          end |-> pfndb * PageSize + pfndb_sz_bytes]]
  /\ mem' = [mem EXCEPT !.held = [f \in DOMAIN @ |-> IF f \in PfndbFrames THEN Nodes ELSE @[f]]]
  /\ base' = pfndb * PageSize /\ pos' = 0
  /\ UNCHANGED <<machine, seg, pfndb, pml4>>

\* The next node goes to the end of its list; after the last one the lengths of
\* the lists are checked.
BuildLists ==
  /\ pc = "fill"
  /\ IF pos < total_phys_pgs
     THEN /\ mem' = IF is_page_reserved(pos) THEN [mem EXCEPT !.rsrv = Append(@, pos)]
                    ELSE [mem EXCEPT !.free = Append(@, pos)]
          /\ pos' = pos + 1 /\ UNCHANGED pc
     ELSE /\ Asserted(Len(mem.free) + Len(mem.rsrv) = total_phys_pgs, "paging")
          /\ UNCHANGED <<pos, mem>>
  /\ UNCHANGED <<machine, seg, reserved, pfndb, base, pml4>>

-----------------------------------------------------------------------------
\* Mutant: the page stays on the free list.
pmm_alloc_page_kept(m) ==
  IF m.free = <<>> \/ ~m.ok THEN [m EXCEPT !.ok = FALSE]
  ELSE [m EXCEPT !.rsrv = Append(@, Head(m.free)), !.held[Ptr(Head(m.free))] = Zeroed]

\* Mutant: the page is not cleared.
pmm_alloc_page_dirty(m) ==
  IF m.free = <<>> \/ ~m.ok THEN [m EXCEPT !.ok = FALSE]
  ELSE [m EXCEPT !.free = Tail(@), !.rsrv = Append(@, Head(m.free))]

\* Memory m after a page is allocated: it moves to the end of the reserved list
\* and is cleared, tables in it included.  With none left the assert fails.
pmm_alloc_page(m) ==
  IF m.free = <<>> \/ ~m.ok THEN [m EXCEPT !.ok = FALSE]
  ELSE LET f == Head(m.free)
       IN [m EXCEPT !.free = Tail(@), !.rsrv = Append(@, f), !.held[Ptr(f)] = Zeroed,
                    !.tab = [slot \in {s \in DOMAIN @ : s[1] # Ptr(f)} |-> @[slot]]]

\* Memory once the entry i of the table in frame f is there.
WithEntry(m, f, i) ==
  IF <<f, i>> \in DOMAIN m.tab THEN m
  ELSE LET a == pmm_alloc_page(m)
       IN IF a.ok THEN [a EXCEPT !.tab = Written(@, f, i, [frame |-> Last(a.rsrv), rights |-> {"writable"}])]
          ELSE a

\* A step that leaves memory as m, or stops for want of a page.
Go(m, next) == mem' = m /\ Asserted(m.ok, next)

\* The step that maps a page: an entry that is there is kept, the last one
\* included.  (\E over a set of one gives a value its name.)
map_page(m, phys, virt, next) ==
  \E m1 \in {WithEntry(m, pml4, pml4e_index(virt))} :
  \E pdpt \in {Ptr(Named(m1.tab, pml4, pml4e_index(virt)))} :
  \E m2 \in {WithEntry(m1, pdpt, pdpte_index(virt))} :
  \E pd \in {Ptr(Named(m2.tab, pdpt, pdpte_index(virt)))} :
  \E m3 \in {WithEntry(m2, pd, pde_index(virt))} :
  \E pt \in {Ptr(Named(m3.tab, pd, pde_index(virt)))} :
    Go(IF ~m3.ok \/ <<pt, pte_index(virt)>> \in DOMAIN m3.tab THEN m3
       ELSE [m3 EXCEPT !.tab = Written(@, pt, pte_index(virt), [frame |-> phys, rights |-> {"writable"}])],
       next)

SetupPaging ==
  /\ pc = "paging"
  /\ \E m \in {pmm_alloc_page(mem)} :
       /\ pml4' = Ptr(Last(m.rsrv))
       /\ Go([m EXCEPT !.tab = Written(@, Ptr(Last(m.rsrv)), Self,
                                       [frame |-> Last(m.rsrv), rights |-> {"writable"}])], "low")
  /\ pos' = 0
  /\ UNCHANGED <<machine, seg, reserved, pfndb, base>>

MapLow ==
  /\ pc = "low"
  /\ map_page(mem, pos, pos, IF pos + 1 = LowPages THEN "segment" ELSE "low")
  /\ pos' = IF pos + 1 = LowPages THEN 0 ELSE pos + 1
  /\ UNCHANGED <<machine, seg, reserved, pfndb, base, pml4>>

-----------------------------------------------------------------------------
\* The program header the loop is at, and the page of the file it has come to.
Segment == machine.segs[seg]
SegmentPages == UpFrame(Segment.memsz)
FilePage == DownFrame(machine.mod.begin) + Segment.offset + pos

\* elf::Context::load reads the header again through the module's tag, which
\* must not have been overwritten since.
LoadElf ==
  /\ pc = "segment"
  /\ pc' = IF mem.held[DownFrame(machine.modtag)] # DownFrame(machine.modtag) THEN "lost"
           ELSE IF machine.elf = "ELFCLASS64" THEN "load" ELSE "stopped"
  /\ UNCHANGED <<machine, pos, seg, reserved, pfndb, base, pml4, mem>>

\* The next program header is looked at.
NextSegment ==
  /\ pc = "load"
  /\ IF seg > Len(machine.segs) THEN pc' = "stack" /\ UNCHANGED seg
     ELSE IF ~Segment.load THEN seg' = seg + 1 /\ UNCHANGED pc
     ELSE /\ Asserted(/\ Segment.aligned /\ Segment.vaddr >= kernel_base
                      /\ Segment.vaddr * PageSize + Segment.memsz < kernel_limit * PageSize,
                      "pages")
          /\ UNCHANGED seg
  /\ UNCHANGED <<machine, pos, reserved, pfndb, base, pml4, mem>>

\* One page of a segment.  When its sizes in file and memory differ it gets a
\* page of its own; else it is mapped where the module is.
MapSegment ==
  /\ pc = "pages" /\ pos < SegmentPages
  /\ IF Segment.filesz = Segment.memsz
     THEN map_page(mem, FilePage, Segment.vaddr + pos, "pages") /\ pos' = pos + 1
     ELSE /\ \E m \in {pmm_alloc_page(mem)} :
               map_page([m EXCEPT !.page = Last(m.rsrv)], Last(m.rsrv), Segment.vaddr + pos, "copy")
          /\ UNCHANGED pos
  /\ UNCHANGED <<machine, seg, reserved, pfndb, base, pml4>>

\* Mutant: the copy is always of the first page.
CopyPageFirst ==
  /\ pc = "copy"
  /\ mem' = [mem EXCEPT !.held[Ptr(mem.page)] = mem.held[Ptr(FilePage - pos)]]
  /\ pc' = "pages" /\ pos' = pos + 1
  /\ UNCHANGED <<machine, seg, reserved, pfndb, base, pml4>>

\* It is filled from the file, past the end of the segment's data too.
CopyPage ==
  /\ pc = "copy"
  /\ mem' = [mem EXCEPT !.held[Ptr(mem.page)] = mem.held[Ptr(FilePage)]]
  /\ pc' = "pages" /\ pos' = pos + 1
  /\ UNCHANGED <<machine, seg, reserved, pfndb, base, pml4>>

SegmentDone ==
  /\ pc = "pages" /\ pos = SegmentPages
  /\ pc' = "load" /\ seg' = seg + 1 /\ pos' = 0
  /\ UNCHANGED <<machine, reserved, pfndb, base, pml4, mem>>

MapStack ==
  /\ pc = "stack"
  /\ \E m \in {pmm_alloc_page(mem)} : map_page(m, Last(m.rsrv), kernel_stack_limit, "pfndb")
  /\ UNCHANGED <<machine, pos, seg, reserved, pfndb, base, pml4>>

MapPfndb ==
  /\ pc = "pfndb"
  /\ map_page(mem, pfndb + pos, kernel_pfndb_base + pos,
              IF pos + 1 = pfndb_sz_pgs THEN "shift" ELSE "pfndb")
  /\ pos' = pos + 1
  /\ UNCHANGED <<machine, seg, reserved, pfndb, base, pml4>>

\* The links of the nodes and the roots of the lists move to the addresses at
\* which the kernel sees them.
Shift ==
  /\ pc = "shift"
  /\ base' = base + (kernel_pfndb_base - pfndb) * PageSize
  /\ pc' = "jump"
  /\ UNCHANGED <<machine, pos, seg, reserved, pfndb, pml4, mem>>

\* enter_longmode goes on at the loader's addresses with the new tables, and
\* calls the kernel on its own stack.
EnterLongmode ==
  /\ pc = "jump"
  /\ pc' = IF \A f \in FramesOf(LoaderImage.begin, LoaderImage.end) : Translate(mem.tab, pml4, f) = f
           THEN "kernel" ELSE "lost"
  /\ UNCHANGED <<machine, pos, seg, reserved, pfndb, base, pml4, mem>>

LoaderNext ==
  \/ FindModule \/ FindMmap \/ EarlyAlloc \/ ReservePfndb \/ BuildLists
  \/ SetupPaging \/ MapLow \/ LoadElf \/ NextSegment \/ MapSegment \/ CopyPage \/ SegmentDone
  \/ MapStack \/ MapPfndb \/ Shift \/ EnterLongmode

=============================================================================
