------------------------------ MODULE VmRegion ------------------------------
(***************************************************************************)
(* core::VmRegion (core/vmregion.cc, core/include/core/vmregion.h): the    *)
(* tree of virtual memory regions of an address space.  Addresses and      *)
(* sizes are counted in pages: every base and every size the code handles  *)
(* is a multiple of the page size, because allocate_vmr_compact asserts it *)
(* of the sizes and aligns the bases.  vaddr_t wraps at VaddrPages.        *)
(*                                                                         *)
(* The list of children is a sequence, which IntrusiveList shows it to be, *)
(* with one exception that is kept here: removing the only child leaves a  *)
(* list whose next use dereferences null.  Callers keep a RefPtr to every  *)
(* region they use, so no region is freed while the model looks at it.     *)
(***************************************************************************)
EXTENDS Integers, SequencesExt

CONSTANTS Regions,      \* addresses the heap has for regions, and the root's
          Root, NoRegion,
          RootSize,     \* whole pages of user_root_, whose base is 0
          VaddrPages,   \* pages until vaddr_t wraps
          Sizes,        \* sizes callers ask for
          Aligns,       \* max(1 << align_pow2, page_size)
          Caps          \* bits of VmRegionFlags::capability

ASSUME VmRegionAssumption ==
  /\ Regions \subseteq Nat /\ Root \in Regions /\ NoRegion \notin Regions
  /\ RootSize \in Nat /\ VaddrPages \in Nat /\ RootSize < VaddrPages
  /\ Sizes \subseteq 0..VaddrPages - 1
  /\ \A a \in Aligns : a \in Nat \ {0} /\ VaddrPages % a = 0

VARIABLES base, size, capability, parent, children,
          made,       \* regions constructed so far
          destroyed,  \* history: regions destroy() was called on, or reached
          broken,     \* regions whose list of children lost its links
          null_read,  \* a null pointer was dereferenced
          returned    \* what the last operation returned

vmrVars == <<base, size, capability, parent, children, made, destroyed, broken,
          null_read, returned>>

\* The AddressSpace constructor and init_aspace.
VmrInit ==
  /\ base = [r \in Regions |-> 0]
  /\ size = [r \in Regions |-> IF r = Root THEN RootSize ELSE 0]
  /\ capability = [r \in Regions |-> IF r = Root THEN Caps ELSE {}]
  /\ parent = [r \in Regions |-> NoRegion]
  /\ children = [r \in Regions |-> <<>>]
  /\ made = {Root}
  /\ destroyed = {}
  /\ broken = {}
  /\ null_read = FALSE
  /\ returned = "OK"

-----------------------------------------------------------------------------
\* Arithmetic of vaddr_t.
Add(a, b) == (a + b) % VaddrPages
Sub(a, b) == (a - b) % VaddrPages
AlignUp(a, align) == (Add(a, align - 1) \div align) * align

(* foreach_hole: position i stands before the i-th child, the last one      *)
(* after all of them.                                                      *)
Positions(r) == 1..Len(children[r]) + 1

Offset(r, i) ==
  IF i = 1 THEN 0
  ELSE LET child == children[r][i - 1] IN Add(base[child], size[child])

HoleEnd(r, i) ==
  IF i > Len(children[r]) THEN Add(base[r], size[r]) ELSE base[children[r][i]]

IsHole(r, i) == HoleEnd(r, i) > Add(base[r], Offset(r, i))

HoleSize(r, i) == Sub(Sub(HoleEnd(r, i), base[r]), Offset(r, i))

\* The callback of allocate_vmr_compact takes the hole.
Fits(r, i, sz, align) ==
  /\ IsHole(r, i)
  /\ Add(AlignUp(Offset(r, i), align), sz) <= Add(Offset(r, i), HoleSize(r, i))

Fail(e) ==
  /\ returned' = e
  /\ UNCHANGED <<base, size, capability, parent, children, made, destroyed,
                 broken, null_read>>

\* Mutant: the new region always goes to the end of the list.
InsertChildLast(r, i, new) ==
  children' = [children EXCEPT ![r] = Append(@, new)]

\* push_back, or insert_before the child that ends the hole.
InsertChild(r, i, new) ==
  children' = [children EXCEPT ![r] = InsertAt(@, i, new)]

\* new_hole_base.
Place(r, i, align) == AlignUp(Offset(r, i), align)

\* Mutant: a hole as large as the request is passed over.
FittingStrict(r, sz, align) ==
  {i \in Positions(r) : Fits(r, i, sz, align) /\ HoleSize(r, i) # sz}

Fitting(r, sz, align) == {i \in Positions(r) : Fits(r, i, sz, align)}

\* The first fitting hole, and a region allocated there by MakeRefPtr.
AllocateFirstFit(r, sz, align, caps) ==
  LET i == Min(Fitting(r, sz, align))
      new == Min(Regions \ made)
  IN   /\ made # Regions
       /\ base' = [base EXCEPT ![new] = Place(r, i, align)]
       /\ size' = [size EXCEPT ![new] = sz]
       /\ capability' = [capability EXCEPT ![new] = caps]
       /\ parent' = [parent EXCEPT ![new] = r]
       /\ InsertChild(r, i, new)
       /\ made' = made \cup {new}
       /\ returned' = "OK"
       /\ UNCHANGED <<destroyed, broken, null_read>>

\* Mutant: the capability check is missing.
PermittedAlways(r, caps) == TRUE

Permitted(r, caps) == caps \subseteq capability[r]

\* The walk over a broken list, or the insertion into it, follows null.
FollowNull ==
  /\ null_read' = TRUE
  /\ UNCHANGED <<base, size, capability, parent, children, made, destroyed,
                 broken, returned>>

\* allocate_vmr_compact(sz, align, flags) on region r.
AllocateVmrCompact(r, sz, align, caps, type) ==
  \/ /\ ~Permitted(r, caps)
     /\ Fail("PERMISSION_DENIED")
  \/ /\ Permitted(r, caps) /\ type # "REGION"
     /\ Fail("INVALID_ARGUMENT")
  \/ /\ Permitted(r, caps) /\ type = "REGION" /\ r \in broken
     /\ FollowNull
  \/ /\ Permitted(r, caps) /\ type = "REGION" /\ r \notin broken
     /\ Fitting(r, sz, align) = {}
     /\ Fail("ALLOCATION_FAILED")
  \/ /\ Permitted(r, caps) /\ type = "REGION" /\ r \notin broken
     /\ Fitting(r, sz, align) # {}
     /\ \/ Fail("OUT_OF_MEMORY")
        \/ AllocateFirstFit(r, sz, align, caps)

-----------------------------------------------------------------------------
\* The regions below r: destroy() calls itself on every child it pops.
Below(r) ==
  {x \in Regions : \A S \in SUBSET Regions :
     (\A y \in S \cup {r} : ToSet(children[y]) \subseteq S) => x \in S}

\* Popped children, and theirs, have no parent.
Detached(r) == [x \in Regions |-> IF x \in Below(r) THEN NoRegion ELSE parent[x]]

\* Mutant: the region stays on its parent's list.
UnlistedNot(r) ==
  [x \in Regions |-> IF x = r \/ x \in Below(r) THEN <<>> ELSE children[x]]

\* r is where its parent_ says it is.
Listed(r) == parent[r] # NoRegion /\ r \in ToSet(children[parent[r]])

\* The list of its parent without r.
Removed(r) ==
  LET list == children[parent[r]]
  IN RemoveAt(list, CHOOSE i \in 1..Len(list) : list[i] = r)

\* The lists of the regions that were destroyed are empty, and r is off the
\* list of its parent.
Unlisted(r) ==
  [x \in Regions |-> IF x = r \/ x \in Below(r) THEN <<>>
                     ELSE IF x = parent[r] /\ Listed(r) THEN Removed(r)
                     ELSE children[x]]

\* r is the only child of its parent.
Sole(r) == parent[r] # NoRegion /\ children[parent[r]] = <<r>>

\* Mutant: destroy() does not test parent_ against nullptr.
WreckedUntested(r) == IF Sole(r) \/ parent[r] = NoRegion THEN {parent[r]} ELSE {}

\* The list that remove() leaves without links.
Wrecked(r) == IF Sole(r) THEN {parent[r]} ELSE {}

\* r is off the list that its parent_ still names.
Stale(r) == parent[r] # NoRegion /\ ~Listed(r)

\* destroy() of region r; parent_ of r itself is left as it is.
Destroy(r) ==
  /\ parent' = Detached(r)
  /\ children' = Unlisted(r)
  /\ destroyed' = destroyed \cup {r} \cup Below(r)
  /\ broken' = broken \cup Wrecked(r)
  /\ null_read' = (Stale(r) \/ ({r} \cup Below(r)) \cap broken # {})
  /\ returned' = "OK"
  /\ UNCHANGED <<base, size, capability, made>>

VmrNext ==
  /\ ~null_read
  /\ \E r \in made :
       \/ \E sz \in Sizes, align \in Aligns, caps \in SUBSET Caps,
             type \in {"REGION", "MAPPING"} : AllocateVmrCompact(r, sz, align, caps, type)
       \/ Destroy(r)

VmrSpec == VmrInit /\ [][VmrNext]_vmrVars

-----------------------------------------------------------------------------
(* find_child_above and does_overlap_child, which no operation calls yet. *)

FindChildAbove(r, offset) ==
  LET above == {i \in 1..Len(children[r]) :
                  base[children[r][i]] >= Add(base[r], offset)}
  IN IF above = {} THEN NoRegion ELSE children[r][Min(above)]

DoesOverlapChild(r, offset, sz) ==
  LET child == FindChildAbove(r, offset)
  IN child # NoRegion /\ base[child] <= Add(Add(base[r], offset), sz)

-----------------------------------------------------------------------------
Statuses == {"OK", "PERMISSION_DENIED", "INVALID_ARGUMENT",
             "ALLOCATION_FAILED", "OUT_OF_MEMORY"}

\* Type invariant.
VmrTypeOK ==
  /\ base \in [Regions -> 0..VaddrPages - 1]
  /\ size \in [Regions -> 0..VaddrPages - 1]
  /\ capability \in [Regions -> SUBSET Caps]
  /\ parent \in [Regions -> made \cup {NoRegion}]
  /\ children \in [Regions -> Seq(made)]
  /\ made \subseteq Regions /\ destroyed \subseteq made /\ broken \subseteq made
  /\ null_read \in BOOLEAN
  /\ returned \in Statuses

End(r) == base[r] + size[r]

\* The children of a region are sorted by base and do not overlap, whatever
\* was allocated and destroyed in between.
ChildrenOrdered ==
  \A r \in made : \A i, j \in 1..Len(children[r]) :
    i < j => End(children[r][i]) <= base[children[r][j]]

\* [base, base + size) of region c lies in that of region r.
Inside(c, r) == base[r] <= base[c] /\ End(c) <= End(r)

\* vmregion.h calls base_ "The (absolute) base address of the region": a child
\* lies in the addresses of its parent, at any depth of the tree.
Confined ==
  \A r \in made : \A c \in ToSet(children[r]) : Inside(c, r)

\* A child of a region with base 0 lies in its addresses, and no child at any
\* depth has a capability its parent lacks, through any order of allocations
\* and destructions: so no region has a right that none of its ancestors was
\* given, and none at the top reaches past the root.
ConfinedAtZero ==
  \A r \in made : \A c \in ToSet(children[r]) :
    /\ base[r] = 0 => Inside(c, r)
    /\ capability[c] \subseteq capability[r]

\* parent_ and the lists of children describe the same forest: a region that
\* destroy() has not reached is on the list of its parent, once, and on no
\* other; one that it has reached is on none.
ForestLinked ==
  \A c \in made :
    IF c \in destroyed \/ parent[c] = NoRegion
    THEN \A r \in made : \A i \in 1..Len(children[r]) : children[r][i] # c
    ELSE \E k \in 1..Len(children[parent[c]]) :
           \A r \in made : \A i \in 1..Len(children[r]) :
             children[r][i] = c <=> r = parent[c] /\ i = k

\* [b, b + sz) is inside r and clear of its children.
Clear(r, b, sz) ==
  /\ b + sz <= size[r]
  /\ \A c \in ToSet(children[r]) : End(c) <= b \/ b + sz <= base[c]

\* In a region with base 0 the allocator places a request at the lowest
\* aligned address with room, and fails only if there is none.
FirstFit ==
  \A r \in made \ broken, sz \in Sizes \ {0}, align \in Aligns : base[r] = 0 =>
    LET bases == {b \in 0..size[r] : b % align = 0 /\ Clear(r, b, sz)}
        holes == Fitting(r, sz, align)
    IN /\ holes = {} <=> bases = {}
       /\ holes # {} => Place(r, Min(holes), align) = Min(bases)

\* In a region with base 0 find_child_above returns the nearest child at or
\* above the offset, so does_overlap_child reports every child that begins
\* inside the range it is given.
FindsNearest ==
  \A r \in made \ broken : base[r] = 0 =>
    \A offset \in 0..size[r] :
      LET above == {c \in ToSet(children[r]) : base[c] >= offset}
          found == FindChildAbove(r, offset)
      IN /\ IF above = {} THEN found = NoRegion
            ELSE found \in above /\ \A c \in above : base[found] <= base[c]
         /\ \A sz \in Sizes :
              (\E c \in above : base[c] < offset + sz) => DoesOverlapChild(r, offset, sz)
=============================================================================
