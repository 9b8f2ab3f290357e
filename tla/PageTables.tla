----------------------------- MODULE PageTables -----------------------------
(***************************************************************************)
(* The kernel's page tables (arch/x86-64/mmu.cc): clients take pages from  *)
(* the physical memory manager and map them with map_pages, which reaches  *)
(* the tables through the recursive entry of the PML4 and takes the tables *)
(* it misses from the same manager.  The manager's calls are the atomic    *)
(* ones of PmmSpec, which Pmm is shown to implement.  A page is its place  *)
(* in the PFNDB.  New tables are not cleared: they show what their frame   *)
(* held, be it left from before, written by a client or of an old table.   *)
(***************************************************************************)
EXTENDS PmmSpec, Paging

CONSTANTS Root,      \* the frame of the PML4, made by the loader
          Shifted,   \* by how much paddr() is off: pages in front of the
                     \* kernel's view of the PFNDB, from where pfndb_arr points
          Leftovers, \* what frames may hold before anybody wrote to them, read
                     \* as entries
          Data,      \* what clients write, read as entries
          Virts,     \* the pages at which clients ask for mappings
          FlagSets,  \* the rights they ask for
          MaxCalls   \* bound: calls that clients make

\* The free list has no page twice, and the PML4 is not on it.
ASSUME PageTablesAssumption ==
  /\ MaxCount \in Nat /\ MaxCalls \in Nat /\ Shifted \in Nat
  /\ InitFree \in Seq(Nat)
  /\ \A i, j \in 1..Len(InitFree) : InitFree[i] = InitFree[j] => i = j
  /\ Root \in Nat \ ToSet(InitFree)

VARIABLES tab,       \* the page tables in memory
          at,        \* where map_pages is: a level of map_single_page, or
                     \* idle, mapped, failed, panic or fault
          call,      \* the pages still to map, the address and the rights
          pt_pages,  \* the tables this call has allocated
          mappings,  \* history: what the clients had mapped, and how
          calls,     \* how many calls clients have made
          kept       \* history: the tables of the calls that returned OK

pmm == <<free, lists, single, result>>
vars == <<tab, at, call, calls, pt_pages, mappings, kept, free, lists, single, result>>

Pages == ToSet(InitFree)
paddr(page) == page + Shifted
NoCall == [pages |-> <<>>, virt |-> 0, flags |-> {}]
Levels == <<"pml4e", "pdpte", "pde", "pte">>

-----------------------------------------------------------------------------
Init ==
  /\ \E held \in Leftovers :
       tab = [slot \in {<<Root, Self>>} \cup DOMAIN held |->
                IF slot \in DOMAIN held THEN held[slot] ELSE [frame |-> Root, rights |-> {"writable"}]]
  /\ at = "idle" /\ call = NoCall
  /\ pt_pages = <<>> /\ mappings = <<>> /\ calls = 0 /\ kept = {}
  /\ free = InitFree /\ lists = [o \in Owners |-> <<>>] /\ single = {} /\ result = "OK"

\* The address at which map_single_page looks for the table of each level.
TableAddress(v) ==
  <<virt_from_index(Self, Self, Self, Self),
    virt_from_index(Self, Self, Self, pml4e_index(v)),
    virt_from_index(Self, Self, pdpte_index(v), pml4e_index(v)),
    virt_from_index(Self, pde_index(v), pdpte_index(v), pml4e_index(v))>>

EntryIndex(v) == <<pml4e_index(v), pdpte_index(v), pde_index(v), pte_index(v)>>

\* The entry it reads or writes there.
Slot(level) ==
  <<Translate(tab, Root, TableAddress(call.virt)[level]), EntryIndex(call.virt)[level]>>

Reachable(level) == Slot(level)[1] # NoFrame
IsPresent(level) == Slot(level) \in DOMAIN tab

-----------------------------------------------------------------------------
\* A client calls; it does so after a failed call too.
Called == at = "idle" /\ calls < MaxCalls /\ calls' = calls + 1

\* The clients.  Nothing unmaps a page, so they only give back lists of which
\* no page is mapped.
Allocate(o, count) ==
  /\ Called /\ lists[o] = <<>>
  /\ Take(o, count)
  /\ UNCHANGED <<tab, at, call, pt_pages, mappings, kept>>

Release(o) ==
  /\ Called /\ lists[o] # <<>>
  /\ \A v \in DOMAIN mappings : mappings[v].frame \notin ToSet(lists[o])
  /\ Give(o)
  /\ UNCHANGED <<tab, at, call, pt_pages, mappings, kept>>

\* A client writes to a page of its own, through an address that is mapped.
WriteData(v, i, data) ==
  /\ Called /\ v \in DOMAIN mappings
  /\ LET f == Translate(tab, Root, v)
     IN tab' = IF f = NoFrame THEN tab ELSE Written(tab, f, i, data)
  /\ UNCHANGED <<at, call, pt_pages, mappings, kept, pmm>>

\* With no page to map the loop never tests ec, and its destructor panics.
MapPages(o, v, flags) ==
  /\ Called
  /\ call' = [pages |-> lists[o], virt |-> v, flags |-> flags]
  /\ at' = IF lists[o] = <<>> THEN "panic" ELSE "pml4e"
  /\ UNCHANGED <<tab, pt_pages, mappings, kept, pmm>>

\* The entry of this level is there; reading it faults where its table is not.
Descend(level) ==
  /\ at = Levels[level]
  /\ Reachable(level) => IsPresent(level)
  /\ at' = IF Reachable(level) THEN Levels[level + 1] ELSE "fault"
  /\ UNCHANGED <<tab, call, calls, pt_pages, mappings, kept, pmm>>

\* It is not, and a page is allocated for it.
AddTable(level) ==
  /\ at = Levels[level] /\ Reachable(level) /\ ~IsPresent(level)
  /\ TakeSingle
  /\ pt_pages' = Append(pt_pages, Head(free))
  /\ tab' = Written(tab, Slot(level)[1], Slot(level)[2], [frame |-> paddr(Head(free)), rights |-> call.flags])
  /\ at' = Levels[level + 1]
  /\ UNCHANGED <<call, calls, mappings, kept>>

NoTable(level) ==
  /\ at = Levels[level] /\ Reachable(level) /\ ~IsPresent(level)
  /\ Refuse(1)
  /\ at' = "failed"
  /\ UNCHANGED <<tab, call, calls, pt_pages, mappings, kept>>

\* The mappings once the page of this call is mapped.
Recorded(entry) ==
  [v \in DOMAIN mappings \cup {call.virt} |-> IF v = call.virt THEN entry ELSE mappings[v]]

\* The last entry is written, whatever it held.
WritePte ==
  /\ at = "pte"
  /\ IF Reachable(4)
     THEN /\ tab' = Written(tab, Slot(4)[1], Slot(4)[2], [frame |-> paddr(Head(call.pages)), rights |-> call.flags])
          /\ mappings' = Recorded([frame |-> Head(call.pages), rights |-> call.flags])
          /\ at' = "mapped"
     ELSE at' = "fault" /\ UNCHANGED <<tab, mappings>>
  /\ UNCHANGED <<call, calls, pt_pages, kept, pmm>>

\* "ec = map_single_page(...)" copies the result and destroys the original,
\* which nobody has tested: the destructor panics.
DestroyArmed ==
  /\ at \in {"mapped", "failed"}
  /\ at' = "panic"
  /\ UNCHANGED <<tab, call, calls, pt_pages, mappings, kept, pmm>>

\* What the loop goes on to do, were it not for that panic.
NextPage ==
  /\ at = "mapped"
  /\ IF Len(call.pages) = 1
     THEN /\ at' = "idle" /\ call' = NoCall /\ pt_pages' = <<>>
          /\ kept' = kept \cup ToSet(pt_pages)
     ELSE /\ at' = "pml4e" /\ call' = [call EXCEPT !.pages = Tail(@), !.virt = @ + 1]
          /\ UNCHANGED <<pt_pages, kept>>
  /\ UNCHANGED <<tab, calls, mappings, pmm>>

\* Mutant: the tables of earlier calls are freed as well.
FreeTablesAll ==
  /\ at = "failed"
  /\ free' = free \o SetToSeq(single) /\ single' = {} /\ result' = "OUT_OF_MEMORY"
  /\ at' = "idle" /\ call' = NoCall /\ pt_pages' = <<>>
  /\ UNCHANGED <<tab, calls, mappings, kept, lists>>

\* free_phys_pages(pt_pages): the entries that name these tables stay.
FreeTables ==
  /\ at = "failed"
  /\ free' = free \o pt_pages /\ single' = single \ ToSet(pt_pages) /\ result' = "OUT_OF_MEMORY"
  /\ at' = "idle" /\ call' = NoCall /\ pt_pages' = <<>>
  /\ UNCHANGED <<tab, calls, mappings, kept, lists>>

Next ==
  \/ \E o \in Owners : \/ Release(o)
                       \/ \E count \in 0..MaxCount : Allocate(o, count)
                       \/ \E v \in Virts, flags \in FlagSets : MapPages(o, v, flags)
  \/ \E v \in Virts, i \in 0..Self, data \in Data : WriteData(v, i, data)
  \/ \E level \in 1..3 : Descend(level) \/ AddTable(level) \/ NoTable(level)
  \/ WritePte \/ DestroyArmed \/ NextPage \/ FreeTables

Spec == Init /\ [][Next]_vars

-----------------------------------------------------------------------------
\* What clients have mapped, by this call and by all before it, is where they
\* put it: the walk of the processor through the tables ends at their page,
\* with no right they did not ask for.  map_single_page finds the tables at
\* recursive addresses of its own making, so an entry at any level that is
\* looked for where no table is, or written into the wrong one, shows here
\* (mmu.cc:26-61).
MappedRight ==
  /\ at # "fault"
  /\ \A v \in DOMAIN mappings :
       /\ Translate(tab, Root, v) = mappings[v].frame
       /\ Rights(tab, Root, v) \subseteq mappings[v].rights

\* No page is lost or given out twice, whatever the tables lead to: every page
\* is free, on one client's list, or a table, and it is a table for as long as
\* the call that took it has not failed.  A failed call gives back the tables
\* it took, all of them and no others, in whichever turn of map_pages and at
\* whichever level memory ran out, and calls go on after it (mmu.cc:36-79).
PagesAccounted ==
  LET owned == UNION {ToSet(lists[o]) : o \in Owners}
  IN /\ single = kept \cup ToSet(pt_pages) /\ kept \cap ToSet(pt_pages) = {}
     /\ Pages = owned \cup single \cup ToSet(free)
     /\ owned \cap single = {} /\ ToSet(free) \cap (owned \cup single) = {}
     /\ IsInjective(free \o pt_pages)
     /\ \A o, p \in Owners : o # p => ToSet(lists[o]) \cap ToSet(lists[p]) = {}
     /\ \A o \in Owners : IsInjective(lists[o])
=============================================================================
