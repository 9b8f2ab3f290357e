-------------------------------- MODULE Pmm --------------------------------
(***************************************************************************)
(* The physical memory manager of the core (core/pmm.cc): pages are taken  *)
(* from the front of pfndb_freelist and given back to its end.  The loops  *)
(* of alloc_phys_pages and free_phys_pages take one step per page.         *)
(*                                                                         *)
(* Callers give alloc_phys_pages an empty list, which it overwrites, and   *)
(* free what they were given, once.                                        *)
(***************************************************************************)
EXTENDS Integers, SequencesExt

CONSTANTS Pages,
          Owners,    \* callers with a list of pages
          InitFree,  \* pfndb_freelist as the loader leaves it
          MaxCount   \* bound on the pages of one request

ASSUME PmmAssumption ==
  /\ MaxCount \in Nat \ {0}
  /\ InitFree \in Seq(Pages)
  /\ \A p \in Pages : \E i \in 1..Len(InitFree) : InitFree[i] = p
  /\ \A i, j \in 1..Len(InitFree) : InitFree[i] = InitFree[j] => i = j

VARIABLES pfndb_freelist,
          pages,   \* pages[o]: the list of owner o
          single,  \* pages handed out by alloc_phys_page_single
          at,      \* where the running call is
          caller,  \* whose list it works on
          left,    \* pages it still has to take
          status,  \* what the last call returned
          before   \* history: free list and lists when the call began

pmmVars == <<pfndb_freelist, pages, single, at, caller, left, status, before>>

loop == <<at, caller, left>>

Snapshot == [free |-> pfndb_freelist, pages |-> pages]

PmmInit ==
  /\ pfndb_freelist = InitFree
  /\ pages = [o \in Owners |-> <<>>]
  /\ single = {}
  /\ at = "idle"
  /\ caller \in Owners
  /\ left = 0
  /\ status = "OK"
  /\ before = Snapshot

-----------------------------------------------------------------------------
AllocPhysPageSingle ==
  /\ at = "idle"
  /\ IF pfndb_freelist = <<>>
     THEN /\ status' = "OUT_OF_MEMORY"
          /\ UNCHANGED <<pfndb_freelist, single>>
     ELSE /\ single' = single \cup {Head(pfndb_freelist)}
          /\ pfndb_freelist' = Tail(pfndb_freelist)
          /\ status' = "OK"
  /\ UNCHANGED <<pages, loop, before>>

\* free_phys_page_single of a page that was handed out.
FreePhysPageSingle(p) ==
  /\ at = "idle"
  /\ single' = single \ {p}
  /\ pfndb_freelist' = Append(pfndb_freelist, p)
  /\ status' = "OK"
  /\ UNCHANGED <<pages, loop, before>>

\* alloc_phys_pages(count, pages) begins.
AllocPhysPages(o, count) ==
  /\ at = "idle" /\ pages[o] = <<>>
  /\ at' = "alloc" /\ caller' = o /\ left' = count
  /\ pages' = [pages EXCEPT ![o] = <<>>]
  /\ before' = Snapshot
  /\ UNCHANGED <<pfndb_freelist, single, status>>

\* One turn of its loop.
AllocTake ==
  /\ at = "alloc" /\ left > 0 /\ pfndb_freelist # <<>>
  /\ pages' = [pages EXCEPT ![caller] = <<Head(pfndb_freelist)>> \o @]
  /\ pfndb_freelist' = Tail(pfndb_freelist)
  /\ left' = left - 1
  /\ UNCHANGED <<single, at, caller, status, before>>

AllocDone ==
  /\ at = "alloc" /\ left = 0
  /\ at' = "idle" /\ status' = "OK"
  /\ UNCHANGED <<pfndb_freelist, pages, single, caller, left, before>>

\* The free list runs out: what was taken goes back.
AllocShort ==
  /\ at = "alloc" /\ left > 0 /\ pfndb_freelist = <<>>
  /\ at' = "rollback"
  /\ UNCHANGED <<pfndb_freelist, pages, single, caller, left, status, before>>

\* Mutant: the pages go back to the end of the free list.
RollbackTurnBack ==
  /\ at = "rollback" /\ pages[caller] # <<>>
  /\ pfndb_freelist' = Append(pfndb_freelist, Head(pages[caller]))
  /\ pages' = [pages EXCEPT ![caller] = Tail(@)]
  /\ UNCHANGED <<single, loop, status, before>>

RollbackTurn ==
  /\ at = "rollback" /\ pages[caller] # <<>>
  /\ pfndb_freelist' = <<Head(pages[caller])>> \o pfndb_freelist
  /\ pages' = [pages EXCEPT ![caller] = Tail(@)]
  /\ UNCHANGED <<single, loop, status, before>>

RollbackDone ==
  /\ at = "rollback" /\ pages[caller] = <<>>
  /\ at' = "idle" /\ left' = 0 /\ status' = "OUT_OF_MEMORY"
  /\ UNCHANGED <<pfndb_freelist, pages, single, caller, before>>

\* free_phys_pages(pages) begins.
FreePhysPages(o) ==
  /\ at = "idle"
  /\ at' = "free" /\ caller' = o
  /\ before' = Snapshot
  /\ UNCHANGED <<pfndb_freelist, pages, single, left, status>>

\* Mutant: the page stays on the caller's list.
FreeTurnKeep ==
  /\ at = "free" /\ pages[caller] # <<>>
  /\ pfndb_freelist' = Append(pfndb_freelist, Head(pages[caller]))
  /\ UNCHANGED <<pages, single, loop, status, before>>

FreeTurn ==
  /\ at = "free" /\ pages[caller] # <<>>
  /\ pfndb_freelist' = Append(pfndb_freelist, Head(pages[caller]))
  /\ pages' = [pages EXCEPT ![caller] = Tail(@)]
  /\ UNCHANGED <<single, loop, status, before>>

FreeDone ==
  /\ at = "free" /\ pages[caller] = <<>>
  /\ at' = "idle" /\ status' = "OK"
  /\ UNCHANGED <<pfndb_freelist, pages, single, caller, left, before>>

PmmNext ==
  \/ AllocPhysPageSingle
  \/ \E p \in single : FreePhysPageSingle(p)
  \/ \E o \in Owners :
       FreePhysPages(o) \/ \E count \in 0..MaxCount : AllocPhysPages(o, count)
  \/ AllocTake \/ AllocDone \/ AllocShort
  \/ RollbackTurn \/ RollbackDone
  \/ FreeTurn \/ FreeDone

PmmSystem == PmmInit /\ [][PmmNext]_pmmVars

-----------------------------------------------------------------------------
\* Type invariant.
PmmTypeOK ==
  /\ pfndb_freelist \in Seq(Pages)
  /\ pages \in [Owners -> Seq(Pages)]
  /\ single \subseteq Pages
  /\ at \in {"idle", "alloc", "rollback", "free"}
  /\ caller \in Owners
  /\ left \in 0..MaxCount
  /\ status \in {"OK", "OUT_OF_MEMORY"}
  /\ before \in [free : Seq(Pages), pages : [Owners -> Seq(Pages)]]

PositionsOf(p, s) == {i \in 1..Len(s) : s[i] = p}

\* Where page p is: positions on the free list and on the lists of owners, or
\* handed out alone.
Places(p) ==
  LET listed == UNION {{<<"list", o, i>> : i \in PositionsOf(p, pages[o])} : o \in Owners}
      alone == {<<"single", q>> : q \in single \cap {p}}
  IN {<<"free", i>> : i \in PositionsOf(p, pfndb_freelist)} \cup listed \cup alone

\* Every page is in one place, in the middle of every loop too: free, on the
\* list of one owner, or handed out alone.
Conserved == \A p \in Pages : Cardinality(Places(p)) = 1

\* The loops are atomic to their callers: alloc_phys_pages gives all of the
\* pages or none, and a failed call leaves the free list in its old order.
AbstractPmm == INSTANCE PmmSpec
              WITH free <- IF at = "idle" THEN pfndb_freelist ELSE before.free,
                   lists <- IF at = "idle" THEN pages ELSE before.pages,
                   result <- status
ImplementsPmm == AbstractPmm!PmmBehaviour
=============================================================================
