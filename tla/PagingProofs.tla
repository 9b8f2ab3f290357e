---------------------------- MODULE PagingProofs ----------------------------
(***************************************************************************)
(* What paging promises: first the pages of the kernel's clients and of    *)
(* its tables, then the tables, lists and images that the loader leaves to *)
(* the kernel, on any machine.                                             *)
(***************************************************************************)
EXTENDS PageTables, Boot, SequenceLemmas, SequenceTheorems, FiniteSetTheorems, TLAPS

-----------------------------------------------------------------------------
(* The pages of the kernel's clients and tables. *)

PagesTyped ==
  /\ free \in Seq(Pages) /\ lists \in [Owners -> Seq(Pages)] /\ pt_pages \in Seq(Pages)
  /\ single \subseteq Pages /\ kept \subseteq Pages

\* Page p is free, handed out alone, or on the list of one owner, and only one
\* of these.
InOnePlace(p) ==
  \/ IsOn(p, free) /\ p \notin single /\ \A o \in Owners : ~IsOn(p, lists[o])
  \/ ~IsOn(p, free) /\ p \in single /\ \A o \in Owners : ~IsOn(p, lists[o])
  \/ /\ ~IsOn(p, free) /\ p \notin single
     /\ \E o \in Owners : \A q \in Owners : IsOn(p, lists[q]) <=> q = o

\* No list has a page twice, and the pages handed out alone are the tables of
\* the calls that returned OK and those of the call underway.
PagesInv ==
  /\ PagesTyped
  /\ NoRepeats(free) /\ NoRepeats(pt_pages) /\ \A o \in Owners : NoRepeats(lists[o])
  /\ \A p \in Pages : InOnePlace(p)
  /\ \A p \in Pages : p \in single <=> p \in kept \/ IsOn(p, pt_pages)
  /\ \A p \in kept : ~IsOn(p, pt_pages)

LEMMA AllPagesFree ==
  InitFree \in Seq(Pages) /\ NoRepeats(InitFree) /\ \A p : IsOn(p, InitFree) <=> p \in Pages
<1>1. \A p : IsOn(p, InitFree) <=> p \in Pages
  BY PageTablesAssumption, ToSetMembers DEF IsOn, Pages
<1>2. \A i \in 1..Len(InitFree) : InitFree[i] \in Pages
  BY <1>1 DEF IsOn
<1> QED BY <1>1, <1>2, PageTablesAssumption, SeqDef DEF NoRepeats

LEMMA InitPagesInv == Init => PagesInv
<1> SUFFICES ASSUME Init PROVE PagesInv
  OBVIOUS
<1>1. free = InitFree /\ lists = [o \in Owners |-> <<>>] /\ single = {} /\ kept = {} /\ pt_pages = <<>>
  BY DEF Init
<1>2. PagesTyped
  BY <1>1, AllPagesFree, NothingOn DEF PagesTyped
<1>3. \A o \in Owners : lists[o] = <<>>
  BY <1>1
<1>4. \A p \in Pages : InOnePlace(p)
  BY <1>1, <1>3, AllPagesFree, NothingOn DEF InOnePlace
<1> QED BY <1>1, <1>2, <1>3, <1>4, AllPagesFree, NothingOn DEF PagesInv

\* A page of which nothing changes stays in its place.
LEMMA SamePlace ==
  ASSUME NEW p, InOnePlace(p), IsOn(p, free') <=> IsOn(p, free), p \in single' <=> p \in single,
         \A o \in Owners : IsOn(p, lists'[o]) <=> IsOn(p, lists[o])
  PROVE  InOnePlace(p)'
  BY DEF InOnePlace

LEMMA PagesKept ==
  ASSUME PagesInv, UNCHANGED <<free, lists, single, pt_pages, kept>>
  PROVE  PagesInv'
  BY DEF PagesInv, PagesTyped, InOnePlace

LEMMA AllocateStep ==
  ASSUME PagesInv, NEW o \in Owners, NEW count \in 0..MaxCount, Allocate(o, count)
  PROVE  PagesInv'
<1> DEFINE a == Reverse(SubSeq(free, 1, count))
           b == SubSeq(free, count + 1, Len(free))
<1>1. /\ lists[o] = <<>> /\ count <= Len(free)
      /\ lists' = [lists EXCEPT ![o] = a] /\ free' = b
      /\ UNCHANGED <<pt_pages, kept, single>>
  BY DEF Allocate, Take
<1>2. free \in Seq(Pages) /\ lists \in [Owners -> Seq(Pages)] /\ count \in 0..Len(free)
  BY <1>1, PageTablesAssumption DEF PagesInv, PagesTyped
<1>3. /\ a \in Seq(Pages) /\ NoRepeats(a) /\ b \in Seq(Pages) /\ NoRepeats(b)
      /\ \A p : IsOn(p, free) <=> IsOn(p, a) \/ IsOn(p, b)
      /\ \A p : ~(IsOn(p, a) /\ IsOn(p, b))
  BY <1>2, PartList DEF PagesInv
<1> HIDE DEF a, b
<1>4. lists'[o] = a /\ \A q \in Owners \ {o} : lists'[q] = lists[q]
  BY <1>1, <1>2
<1>5. \A p : ~IsOn(p, lists[o])
  BY <1>1, NothingOn
<1>6. PagesTyped'
  BY <1>1, <1>2, <1>3 DEF PagesInv, PagesTyped
<1>7. ASSUME NEW p \in Pages PROVE InOnePlace(p)'
  <2>1. InOnePlace(p)
    BY DEF PagesInv
  <2>2. CASE IsOn(p, a)
    <3>1. p \notin single' /\ ~IsOn(p, free')
      BY <1>1, <1>3, <2>1, <2>2 DEF InOnePlace
    <3>2. \A q \in Owners : IsOn(p, lists'[q]) <=> q = o
      BY <1>3, <1>4, <2>1, <2>2 DEF InOnePlace
    <3> QED BY <3>1, <3>2 DEF InOnePlace
  <2>3. CASE ~IsOn(p, a)
    <3>1. IsOn(p, free') <=> IsOn(p, free)
      BY <1>1, <1>3, <2>3
    <3>2. \A q \in Owners : IsOn(p, lists'[q]) <=> IsOn(p, lists[q])
      BY <1>4, <1>5, <2>3
    <3> QED BY <1>1, <2>1, <3>1, <3>2, SamePlace
  <2> QED BY <2>2, <2>3
<1>8. NoRepeats(free') /\ \A q \in Owners : NoRepeats(lists'[q])
  BY <1>1, <1>3, <1>4 DEF PagesInv
<1> QED BY <1>1, <1>6, <1>7, <1>8 DEF PagesInv

LEMMA ReleaseStep ==
  ASSUME PagesInv, NEW o \in Owners, Release(o)
  PROVE  PagesInv'
<1>1. /\ free' = free \o lists[o] /\ lists' = [lists EXCEPT ![o] = <<>>]
      /\ UNCHANGED <<pt_pages, kept, single>>
  BY DEF Release, Give
<1>2. free \in Seq(Pages) /\ lists \in [Owners -> Seq(Pages)] /\ lists[o] \in Seq(Pages)
  BY DEF PagesInv, PagesTyped
<1>3. lists'[o] = <<>> /\ \A q \in Owners \ {o} : lists'[q] = lists[q]
  BY <1>1, <1>2
<1>4. /\ \A p : ~IsOn(p, lists'[o])
      /\ lists' \in [Owners -> Seq(Pages)] /\ NoRepeats(lists'[o])
  BY <1>1, <1>2, <1>3, NothingOn
<1>5. \A p \in Pages : IsOn(p, lists[o]) =>
        ~IsOn(p, free) /\ p \notin single /\ \A q \in Owners : IsOn(p, lists[q]) <=> q = o
  BY DEF PagesInv, InOnePlace
<1>6. \A p : IsOn(p, free) => p \in Pages
  BY <1>2, ElementOfSeq DEF IsOn
<1>7. /\ free' \in Seq(Pages) /\ NoRepeats(free')
      /\ \A p : IsOn(p, free') <=> IsOn(p, free) \/ IsOn(p, lists[o])
  <2>1. \A p : ~(IsOn(p, free) /\ IsOn(p, lists[o]))
    BY <1>5, <1>6
  <2> QED BY <1>1, <1>2, <2>1, JoinLists DEF PagesInv
<1>8. PagesTyped'
  BY <1>1, <1>4, <1>7 DEF PagesInv, PagesTyped
<1>9. ASSUME NEW p \in Pages PROVE InOnePlace(p)'
  <2>1. InOnePlace(p)
    BY DEF PagesInv
  <2>2. CASE IsOn(p, lists[o])
    <3>1. \A q \in Owners : ~IsOn(p, lists'[q])
      BY <1>3, <1>4, <1>5, <2>2
    <3> QED BY <1>1, <1>5, <1>7, <2>2, <3>1 DEF InOnePlace
  <2>3. CASE ~IsOn(p, lists[o])
    <3>1. IsOn(p, free') <=> IsOn(p, free)
      BY <1>7, <2>3
    <3>2. \A q \in Owners : IsOn(p, lists'[q]) <=> IsOn(p, lists[q])
      BY <1>3, <1>4, <2>3
    <3> QED BY <1>1, <2>1, <3>1, <3>2, SamePlace
  <2> QED BY <2>2, <2>3
<1>10. \A q \in Owners : NoRepeats(lists'[q])
  BY <1>3, <1>4 DEF PagesInv
<1> QED BY <1>1, <1>7, <1>8, <1>9, <1>10 DEF PagesInv

LEMMA AddTableStep ==
  ASSUME PagesInv, NEW level \in 1..3, AddTable(level)
  PROVE  PagesInv'
<1> DEFINE h == Head(free)
<1>1. /\ free # <<>> /\ single' = single \cup {h} /\ free' = Tail(free)
      /\ pt_pages' = Append(pt_pages, h) /\ UNCHANGED <<lists, kept>>
  BY DEF AddTable, TakeSingle
<1>2. free \in Seq(Pages) /\ pt_pages \in Seq(Pages) /\ NoRepeats(free)
  BY DEF PagesInv, PagesTyped
<1>3. /\ h \in Pages /\ IsOn(h, free) /\ free' \in Seq(Pages) /\ NoRepeats(free')
      /\ \A p : IsOn(p, free') <=> IsOn(p, free) /\ p # h
  BY <1>1, <1>2, TakeFirst
<1> HIDE DEF h
<1>4. h \notin single /\ h \notin kept /\ ~IsOn(h, pt_pages) /\ \A o \in Owners : ~IsOn(h, lists[o])
  BY <1>3 DEF PagesInv, InOnePlace
<1>5. /\ pt_pages' \in Seq(Pages) /\ NoRepeats(pt_pages')
      /\ \A p : IsOn(p, pt_pages') <=> IsOn(p, pt_pages) \/ p = h
  BY <1>1, <1>2, <1>3, <1>4, AddLast DEF PagesInv
<1>6. PagesTyped'
  BY <1>1, <1>3, <1>5 DEF PagesInv, PagesTyped
<1>7. ASSUME NEW p \in Pages PROVE InOnePlace(p)'
  <2>1. CASE p = h
    BY <1>1, <1>3, <1>4, <2>1 DEF InOnePlace
  <2>2. CASE p # h
    <3>1. InOnePlace(p)
      BY DEF PagesInv
    <3>2. /\ IsOn(p, free') <=> IsOn(p, free)
          /\ p \in single' <=> p \in single
          /\ \A o \in Owners : IsOn(p, lists'[o]) <=> IsOn(p, lists[o])
      BY <1>1, <1>3, <2>2
    <3> QED BY <3>1, <3>2, SamePlace
  <2> QED BY <2>1, <2>2
<1> QED BY <1>1, <1>3, <1>4, <1>5, <1>6, <1>7 DEF PagesInv

LEMMA NextPageStep ==
  ASSUME PagesInv, NextPage
  PROVE  PagesInv'
<1>1. UNCHANGED <<free, lists, single>>
  BY DEF NextPage, pmm
<1>2. CASE Len(call.pages) # 1
  BY <1>1, <1>2, PagesKept DEF NextPage
<1>3. CASE Len(call.pages) = 1
  <2>1. pt_pages' = <<>> /\ kept' = kept \cup ToSet(pt_pages)
    BY <1>3 DEF NextPage
  <2>2. \A p : p \in ToSet(pt_pages) <=> IsOn(p, pt_pages)
    BY ToSetMembers DEF PagesInv, PagesTyped, IsOn
  <2>3. \A p : IsOn(p, pt_pages) => p \in Pages
    BY ElementOfSeq DEF PagesInv, PagesTyped, IsOn
  <2>4. PagesTyped'
    BY <1>1, <2>1, <2>2, <2>3, NothingOn DEF PagesInv, PagesTyped
  <2>5. \A p \in Pages : p \in single' <=> p \in kept' \/ IsOn(p, pt_pages')
    BY <1>1, <2>1, <2>2, NothingOn DEF PagesInv
  <2>6. \A p \in Pages : InOnePlace(p)'
    BY <1>1 DEF PagesInv, InOnePlace
  <2> QED BY <1>1, <2>1, <2>4, <2>5, <2>6, NothingOn DEF PagesInv
<1> QED BY <1>2, <1>3

LEMMA FreeTablesStep ==
  ASSUME PagesInv, FreeTables
  PROVE  PagesInv'
<1>1. /\ free' = free \o pt_pages /\ single' = single \ ToSet(pt_pages) /\ pt_pages' = <<>>
      /\ UNCHANGED <<kept, lists>>
  BY DEF FreeTables
<1>2. free \in Seq(Pages) /\ pt_pages \in Seq(Pages)
  BY DEF PagesInv, PagesTyped
<1>3. \A p : p \in ToSet(pt_pages) <=> IsOn(p, pt_pages)
  BY <1>2, ToSetMembers DEF IsOn
<1>4. \A p : IsOn(p, pt_pages) => p \in Pages
  BY <1>2, ElementOfSeq DEF IsOn
<1>5. \A p : IsOn(p, pt_pages) =>
        p \in single /\ p \notin kept /\ ~IsOn(p, free) /\ \A o \in Owners : ~IsOn(p, lists[o])
  BY <1>4 DEF PagesInv, InOnePlace
<1>6. /\ free' \in Seq(Pages) /\ NoRepeats(free')
      /\ \A p : IsOn(p, free') <=> IsOn(p, free) \/ IsOn(p, pt_pages)
  BY <1>1, <1>2, <1>5, JoinLists DEF PagesInv
<1>7. PagesTyped'
  BY <1>1, <1>6, NothingOn DEF PagesInv, PagesTyped
<1>8. ASSUME NEW p \in Pages PROVE InOnePlace(p)'
  <2>1. CASE IsOn(p, pt_pages)
    BY <1>1, <1>3, <1>5, <1>6, <2>1 DEF InOnePlace
  <2>2. CASE ~IsOn(p, pt_pages)
    <3>1. InOnePlace(p)
      BY DEF PagesInv
    <3>2. /\ IsOn(p, free') <=> IsOn(p, free)
          /\ p \in single' <=> p \in single
          /\ \A o \in Owners : IsOn(p, lists'[o]) <=> IsOn(p, lists[o])
      BY <1>1, <1>3, <1>6, <2>2
    <3> QED BY <3>1, <3>2, SamePlace
  <2> QED BY <2>1, <2>2
<1>9. \A p \in Pages : p \in single' <=> p \in kept' \/ IsOn(p, pt_pages')
  BY <1>1, <1>3, <1>5, NothingOn DEF PagesInv
<1> QED BY <1>1, <1>6, <1>7, <1>8, <1>9, NothingOn DEF PagesInv

LEMMA NextPagesInv == PagesInv /\ [Next]_vars => PagesInv'
<1> SUFFICES ASSUME PagesInv, [Next]_vars PROVE PagesInv'
  OBVIOUS
<1>1. CASE \E o \in Owners, v \in Virts, flags \in FlagSets : MapPages(o, v, flags)
  BY <1>1, PagesKept DEF MapPages, pmm
<1>2. CASE \E v \in Virts, i \in 0..Self, data \in Data : WriteData(v, i, data)
  BY <1>2, PagesKept DEF WriteData, pmm
<1>3. CASE \E level \in 1..3 : Descend(level) \/ NoTable(level)
  BY <1>3, PagesKept DEF Descend, NoTable, Refuse, pmm
<1>4. CASE WritePte \/ DestroyArmed
  BY <1>4, PagesKept DEF WritePte, DestroyArmed, pmm
<1>5. CASE UNCHANGED vars
  BY <1>5, PagesKept DEF vars
<1> QED BY <1>1, <1>2, <1>3, <1>4, <1>5, AllocateStep, ReleaseStep, AddTableStep, NextPageStep, FreeTablesStep
     DEF Next

LEMMA PagesAccountedOf == PagesInv => PagesAccounted
<1> SUFFICES ASSUME PagesInv PROVE PagesAccounted
  OBVIOUS
<1> DEFINE owned == UNION {ToSet(lists[o]) : o \in Owners}
<1>1. /\ free \in Seq(Pages) /\ pt_pages \in Seq(Pages) /\ \A o \in Owners : lists[o] \in Seq(Pages)
      /\ single \subseteq Pages /\ kept \subseteq Pages
  BY DEF PagesInv, PagesTyped
<1>2. /\ \A p : p \in ToSet(free) <=> IsOn(p, free)
      /\ \A p : p \in ToSet(pt_pages) <=> IsOn(p, pt_pages)
      /\ \A o \in Owners, p \in Pages : p \in ToSet(lists[o]) <=> IsOn(p, lists[o])
  BY <1>1, ToSetMembers DEF IsOn
<1>3. /\ ToSet(free) \subseteq Pages /\ ToSet(pt_pages) \subseteq Pages
      /\ \A o \in Owners : ToSet(lists[o]) \subseteq Pages
  BY <1>1, ToSetMembers, ElementOfSeq
<1>4. owned \subseteq Pages /\ \A p \in Pages : p \in owned <=> \E o \in Owners : IsOn(p, lists[o])
  BY <1>2, <1>3
<1> HIDE DEF owned
<1>5. single = kept \cup ToSet(pt_pages) /\ kept \cap ToSet(pt_pages) = {}
  BY <1>1, <1>2, <1>3 DEF PagesInv
<1>6. Pages = owned \cup single \cup ToSet(free)
  BY <1>1, <1>2, <1>3, <1>4 DEF PagesInv, InOnePlace
<1>7. owned \cap single = {} /\ ToSet(free) \cap (owned \cup single) = {}
  BY <1>1, <1>2, <1>3, <1>4 DEF PagesInv, InOnePlace
<1>8. \A o, p \in Owners : o # p => ToSet(lists[o]) \cap ToSet(lists[p]) = {}
  BY <1>2, <1>3 DEF PagesInv, InOnePlace
<1>9. \A S, s : s \in Seq(S) /\ NoRepeats(s) => IsInjective(s)
  <2> SUFFICES ASSUME NEW S, NEW s \in Seq(S), NoRepeats(s) PROVE IsInjective(s)
    OBVIOUS
  <2>1. DOMAIN s = 1..Len(s)
    OBVIOUS
  <2> QED BY <2>1 DEF NoRepeats, IsInjective
<1>10. IsInjective(free \o pt_pages)
  <2>1. \A p : ~(IsOn(p, free) /\ IsOn(p, pt_pages))
    BY <1>2, <1>5, <1>7
  <2>2. free \o pt_pages \in Seq(Pages) /\ NoRepeats(free \o pt_pages)
    BY <1>1, <2>1, JoinLists DEF PagesInv
  <2> QED BY <1>9, <2>2
<1>11. \A o \in Owners : IsInjective(lists[o])
  BY <1>1, <1>9 DEF PagesInv
<1> QED BY <1>5, <1>6, <1>7, <1>8, <1>10, <1>11 DEF PagesAccounted, owned

\* Whatever the clients ask for, write and find in their tables, and however
\* often memory runs out at whichever level, no page is lost or given out twice,
\* and a failed map_pages gives back the tables it took and no others
\* (mmu.cc:36-79).
THEOREM Accounted == Spec => []PagesAccounted
<1>1. Spec => []PagesInv
  BY InitPagesInv, NextPagesInv, PTL DEF Spec
<1> QED BY <1>1, PagesAccountedOf, PTL

-----------------------------------------------------------------------------
(* The four indices of an address. *)

LEMMA QuotientOf ==
  ASSUME NEW n \in Nat \ {0}, NEW q \in Nat, NEW r \in 0..n - 1
  PROVE  (n * q + r) \div n = q /\ (n * q + r) % n = r
  OBVIOUS

LEMMA Divided ==
  ASSUME NEW n \in Nat \ {0}, NEW v \in Nat
  PROVE  v \div n \in Nat /\ v % n \in 0..n - 1 /\ v = (v \div n) * n + (v % n)
<1>1. v = (v \div n) * n + (v % n)
  OBVIOUS
<1>2. v % n \in 0..n - 1 /\ v \div n \in Int
  OBVIOUS
<1> DEFINE q == v \div n
           r == v % n
<1>3. v = q * n + r /\ q \in Int /\ r \in 0..n - 1
  BY <1>1, <1>2
<1> HIDE DEF q, r
<1>4. ASSUME q < 0 PROVE FALSE
  <2>1. q <= -1
    BY <1>3, <1>4
  <2>2. q * n <= -n
    BY <1>3, <2>1
  <2> QED BY <1>3, <2>2
<1> QED BY <1>1, <1>2, <1>3, <1>4 DEF q

LEMMA DividedTwice ==
  ASSUME NEW n \in Nat \ {0}, NEW m \in Nat \ {0}, NEW v \in Nat
  PROVE  v \div (n * m) = (v \div n) \div m
  OBVIOUS

\* The indices in terms of the quotients by the size of a table.
LEMMA Indices ==
  ASSUME NEW v \in Nat
  PROVE  LET p1 == v \div Entries
             p2 == p1 \div Entries
             p3 == p2 \div Entries
         IN /\ p1 \in Nat /\ p2 \in Nat /\ p3 \in Nat
            /\ v = p1 * Entries + pte_index(v)
            /\ p1 = p2 * Entries + pde_index(v)
            /\ p2 = p3 * Entries + pdpte_index(v)
            /\ pml4e_index(v) = p3 % Entries
            /\ pte_index(v) \in 0..Self /\ pde_index(v) \in 0..Self
            /\ pdpte_index(v) \in 0..Self /\ pml4e_index(v) \in 0..Self
<1> DEFINE E == Entries
           p1 == v \div E
           p2 == p1 \div E
           p3 == p2 \div E
<1>1. E \in Nat \ {0} /\ E * E \in Nat \ {0}
  BY PagingAssumption
<1>2. p1 \in Nat /\ v % E \in 0..E - 1 /\ v = p1 * E + (v % E)
  BY <1>1, Divided
<1>3. v \div (E * E) = p2 /\ v \div ((E * E) * E) = (v \div (E * E)) \div E
  BY <1>1, DividedTwice
<1> HIDE DEF p1
<1>4. p2 \in Nat /\ p1 % E \in 0..E - 1 /\ p1 = p2 * E + (p1 % E)
  BY <1>1, <1>2, Divided
<1> HIDE DEF p2
<1>5. p3 \in Nat /\ p2 % E \in 0..E - 1 /\ p2 = p3 * E + (p2 % E)
  BY <1>1, <1>4, Divided
<1> HIDE DEF p3
<1>6. p3 % E \in 0..E - 1
  BY <1>1, <1>5, Divided
<1>7. /\ pte_index(v) = v % E /\ pde_index(v) = p1 % E
      /\ pdpte_index(v) = p2 % E
  BY <1>3 DEF pte_index, pde_index, pdpte_index, p1
<1>8. pml4e_index(v) = p3 % E
  BY <1>3 DEF pml4e_index, p3
<1>9. 0..Self = 0..E - 1
  BY DEF Self
<1> QED BY <1>2, <1>4, <1>5, <1>6, <1>7, <1>8, <1>9 DEF p1, p2, p3

\* An address with nothing above its first index is what its indices make it.
LEMMA VirtOfIndices ==
  ASSUME NEW v \in Nat, v < Entries * Entries * Entries * Entries
  PROVE  v = virt_from_index(pml4e_index(v), pdpte_index(v), pde_index(v), pte_index(v))
<1> DEFINE E == Entries
           p1 == v \div E
           p2 == p1 \div E
           p3 == p2 \div E
<1>1. /\ p1 \in Nat /\ p2 \in Nat /\ p3 \in Nat
      /\ v = p1 * E + pte_index(v)
      /\ p1 = p2 * E + pde_index(v)
      /\ p2 = p3 * E + pdpte_index(v)
      /\ pml4e_index(v) = p3 % E
      /\ pte_index(v) \in 0..Self /\ pde_index(v) \in 0..Self
      /\ pdpte_index(v) \in 0..Self /\ pml4e_index(v) \in 0..Self
  BY Indices
<1> HIDE DEF p1, p2, p3
<1>2. E \in Nat \ {0}
  BY PagingAssumption
<1>3. p3 < E
  <2> SUFFICES ASSUME p3 >= E PROVE FALSE
    BY <1>1, <1>2
  <2>0. \A x, y, z \in Nat : x >= y => x * z >= y * z
    OBVIOUS
  <2>1. /\ p1 * E \in Nat /\ p2 * E \in Nat /\ p3 * E \in Nat /\ E * E \in Nat
        /\ E * E * E \in Nat /\ E * E * E * E \in Nat
    BY <1>1, <1>2
  <2>2. p2 >= p3 * E /\ p1 >= p2 * E /\ v >= p1 * E
    BY <1>1, <2>1 DEF Self
  <2>3. p3 * E >= E * E
    BY <1>1, <1>2, <2>0
  <2>4. p2 >= E * E
    BY <1>1, <2>1, <2>2, <2>3
  <2>5. p2 * E >= (E * E) * E
    BY <1>1, <1>2, <2>0, <2>1, <2>4
  <2>6. p1 >= (E * E) * E
    BY <1>1, <2>1, <2>2, <2>5
  <2>7. p1 * E >= ((E * E) * E) * E
    BY <1>1, <1>2, <2>0, <2>1, <2>6
  <2> QED BY <2>1, <2>2, <2>7
<1>4. p3 % E = p3
  BY <1>1, <1>2, <1>3
<1>5. /\ p2 = pdpte_index(v) + E * pml4e_index(v)
      /\ p1 = pde_index(v) + E * p2
      /\ v = pte_index(v) + E * p1
  BY <1>1, <1>2, <1>4 DEF Self
<1> QED BY <1>5 DEF virt_from_index

-----------------------------------------------------------------------------
(* The greatest end of available memory. *)

LEMMA GreatestElement ==
  ASSUME NEW S, S \subseteq Nat, S # {}, NEW b \in Nat, \A y \in S : y <= b
  PROVE  Max(S) \in S /\ \A y \in S : y <= Max(S)
<1> DEFINE U == {u \in Nat : \A y \in S : y <= u}
<1>1. U \subseteq Nat /\ U # {}
  OBVIOUS
<1>2. Min(U) \in U /\ \A u \in U : Min(U) <= u
  BY <1>1, LeastElement
<1>3. PICK u \in U : \A w \in U : u <= w
  BY <1>2
<1>4. u \in Nat /\ \A y \in S : y <= u
  OBVIOUS
<1>5. u \in S
  <2> SUFFICES ASSUME u \notin S PROVE FALSE
    OBVIOUS
  <2>1. \A y \in S : y \in Nat /\ y <= u /\ y # u
    BY <1>4
  <2>2. PICK y \in S : TRUE
    OBVIOUS
  <2>3. y \in Nat /\ y < u
    BY <1>4, <2>1
  <2>4. u - 1 \in Nat
    BY <1>4, <2>3
  <2>5. \A z \in S : z <= u - 1
    BY <1>4, <2>1
  <2>6. u - 1 \in U
    BY <2>4, <2>5
  <2>7. u <= u - 1
    BY <1>3, <2>6
  <2> QED BY <1>4, <2>7
<1>6. \E x \in S : \A y \in S : x >= y
  BY <1>4, <1>5
<1>7. Max(S) \in S /\ \A y \in S : Max(S) >= y
  BY <1>6, Zenon DEF Max
<1> QED BY <1>7

\* The first n values of a function have an upper bound.
LEMMA UpperBound ==
  ASSUME NEW n \in Nat, NEW g, \A k \in 1..n : g[k] \in Nat
  PROVE  \E b \in Nat : \A k \in 1..n : g[k] <= b
<1> DEFINE Bounded(m) == \E b \in Nat : \A k \in 1..m : g[k] <= b
           D == {m \in 0..n : ~Bounded(m)}
<1>0. n \in 0..n
  OBVIOUS
<1> SUFFICES ASSUME D # {} PROVE FALSE
  BY <1>0
<1>1. PICK m \in D : \A y \in D : m <= y
  <2>1. D \subseteq Nat
    OBVIOUS
  <2> QED BY <2>1, LeastElement
<1>2. m # 0
  <2>1. 1..0 = {} /\ 0 \in Nat
    OBVIOUS
  <2>2. Bounded(0)
    BY <2>1
  <2> QED BY <2>2
<1>3. m - 1 \in 0..n /\ m \in 1..n
  BY <1>2
<1>4. Bounded(m - 1)
  <2>1. ~(m <= m - 1)
    BY <1>3
  <2>2. m - 1 \notin D
    BY <1>1, <2>1
  <2> QED BY <1>3, <2>2
<1>5. PICK b \in Nat : \A k \in 1..m - 1 : g[k] <= b
  BY <1>4
<1>6. PICK c \in Nat : c >= b /\ c >= g[m]
  <2>1. g[m] \in Nat
    BY <1>3
  <2>2. CASE b >= g[m]
    BY <2>1, <2>2
  <2>3. CASE ~(b >= g[m])
    BY <2>1, <2>3
  <2> QED BY <2>2, <2>3
<1>7. ASSUME NEW k \in 1..m PROVE g[k] <= c
  <2>1. CASE k = m
    BY <1>6, <2>1
  <2>2. CASE k # m
    <3>1. k \in 1..m - 1 /\ g[k] \in Nat
      BY <1>3, <2>2
    <3> QED BY <1>5, <1>6, <3>1
  <2> QED BY <2>1, <2>2
<1> QED BY <1>7

-----------------------------------------------------------------------------
(* Bytes and frames. *)

LEMMA QuotientGrows ==
  ASSUME NEW n \in Nat \ {0}, NEW x \in Nat, NEW y \in Nat, x <= y
  PROVE  x \div n <= y \div n
<1> DEFINE p == x \div n
           q == y \div n
<1>1. p \in Nat /\ x % n \in 0..n - 1 /\ x = p * n + (x % n)
  BY Divided
<1>2. q \in Nat /\ y % n \in 0..n - 1 /\ y = q * n + (y % n)
  BY Divided
<1> HIDE DEF p, q
<1> SUFFICES ASSUME q < p PROVE FALSE
  BY <1>1, <1>2
<1>3. q + 1 <= p
  BY <1>1, <1>2
<1>4. (q + 1) * n <= p * n
  BY <1>1, <1>2, <1>3
<1>5. (q + 1) * n = q * n + n
  BY <1>2
<1>6. q * n \in Nat /\ p * n \in Nat
  BY <1>1, <1>2
<1> QED BY <1>1, <1>2, <1>4, <1>5, <1>6

\* A frame below the frames needed for some bytes begins before their end.
LEMMA BelowUp ==
  ASSUME NEW bytes \in Nat, NEW i \in Nat
  PROVE  i < UpFrame(bytes) <=> i * PageSize < bytes
<1> DEFINE n == PageSize
           q == (bytes + n - 1) \div n
           r == (bytes + n - 1) % n
<1>1. n \in Nat \ {0} /\ bytes + n - 1 \in Nat
  BY LoaderAssumption
<1>2. q \in Nat /\ r \in 0..n - 1 /\ bytes + n - 1 = q * n + r
  BY <1>1, Divided
<1>3. UpFrame(bytes) = q
  BY DEF UpFrame
<1> HIDE DEF q, r
<1>4. i * n \in Nat /\ q * n \in Nat
  BY <1>1, <1>2
<1>5. ASSUME i < q PROVE i * n < bytes
  <2>1. i + 1 <= q
    BY <1>2, <1>5
  <2>2. (i + 1) * n <= q * n
    BY <1>1, <1>2, <2>1
  <2>3. (i + 1) * n = i * n + n
    BY <1>1
  <2> QED BY <1>1, <1>2, <1>4, <2>2, <2>3
<1>6. ASSUME ~(i < q) PROVE ~(i * n < bytes)
  <2>1. q * n <= i * n
    BY <1>1, <1>2, <1>6
  <2> QED BY <1>1, <1>2, <1>4, <2>1
<1> QED BY <1>2, <1>3, <1>5, <1>6

\* A frame is not above the frame of an address if it begins at or before it.
LEMMA BelowDown ==
  ASSUME NEW addr \in Int, NEW f \in Int
  PROVE  DownFrame(addr) \in Int /\ (f <= DownFrame(addr) <=> f * PageSize <= addr)
<1> DEFINE n == PageSize
           q == addr \div n
           r == addr % n
<1>1. n \in Nat \ {0}
  BY LoaderAssumption
<1>2. q \in Int /\ r \in 0..n - 1 /\ addr = q * n + r
  BY <1>1
<1>3. DownFrame(addr) = q
  BY DEF DownFrame
<1> HIDE DEF q, r
<1>4. f * n \in Int /\ q * n \in Int
  BY <1>1, <1>2
<1>5. ASSUME f <= q PROVE f * n <= addr
  <2>1. f * n <= q * n
    BY <1>1, <1>2, <1>5
  <2> QED BY <1>1, <1>2, <1>4, <2>1
<1>6. ASSUME ~(f <= q) PROVE ~(f * n <= addr)
  <2>1. q + 1 <= f
    BY <1>2, <1>6
  <2>2. (q + 1) * n <= f * n
    BY <1>1, <1>2, <2>1
  <2>3. (q + 1) * n = q * n + n
    BY <1>1, <1>2
  <2> QED BY <1>1, <1>2, <1>4, <2>2, <2>3
<1> QED BY <1>2, <1>3, <1>5, <1>6

LEMMA PtrRange ==
  /\ \A f \in Nat : Ptr(f) \in 0..AddrFrames - 1
  /\ \A f \in 0..AddrFrames - 1 : Ptr(f) = f
<1>1. AddrFrames \in Nat \ {0}
  BY LoaderAssumption
<1> QED BY <1>1 DEF Ptr

LEMMA MemoryNumbers ==
  ASSUME machine \in Machines
  PROVE  /\ total_phys_pgs \in Nat
         /\ \A k \in Available : DownFrame(End(k)) \in Nat /\ DownFrame(End(k)) <= total_phys_pgs
         /\ pfndb_sz_bytes \in Nat /\ pfndb_sz_pgs \in Nat
<1> DEFINE n == Len(machine.mmap)
           g == [k \in 1..n |-> End(k)]
           ends == {End(k) : k \in Available}
<1>1. PageSize \in Nat \ {0} /\ SizeofPage \in Nat \ {0}
  BY LoaderAssumption
<1>2. n \in Nat /\ DOMAIN machine.mmap = 1..n /\ \A k \in 1..n : End(k) \in Nat
  <2> DEFINE R == [addr : Nat, len : Nat, available : BOOLEAN]
  <2>1. machine.mmap \in Seq(R)
    BY MachinesAssumption
  <2>2. \A x \in R : x.addr + x.len \in Nat
    OBVIOUS
  <2> HIDE DEF R
  <2>3. n \in Nat /\ DOMAIN machine.mmap = 1..n /\ \A k \in 1..n : machine.mmap[k] \in R
    BY <2>1
  <2> HIDE DEF n
  <2> QED BY <2>2, <2>3 DEF End
<1>3. PICK b \in Nat : \A k \in 1..n : End(k) <= b
  <2>1. \A k \in 1..n : g[k] \in Nat /\ g[k] = End(k)
    BY <1>2
  <2> HIDE DEF n, g
  <2>2. \E b \in Nat : \A k \in 1..n : g[k] <= b
    BY <1>2, <2>1, UpperBound
  <2> QED BY <2>1, <2>2
<1>4. Available \subseteq 1..n
  BY <1>2 DEF Available
<1>5. {0} \cup ends \subseteq Nat /\ \A y \in {0} \cup ends : y <= b
  BY <1>2, <1>3, <1>4
<1> DEFINE top == Max({0} \cup ends)
<1>6. top \in Nat /\ \A k \in Available : End(k) <= top /\ End(k) \in Nat
  <2>1. top \in {0} \cup ends /\ \A y \in {0} \cup ends : y <= top
    BY <1>5, GreatestElement
  <2> HIDE DEF top
  <2> QED BY <1>2, <1>4, <1>5, <2>1
<1>7. total_phys_pgs = top \div PageSize
  BY DEF total_phys_pgs, DownFrame
<1> HIDE DEF top, ends, n
<1>8. total_phys_pgs \in Nat
  BY <1>1, <1>6, <1>7, Divided
<1>9. \A k \in Available : DownFrame(End(k)) \in Nat /\ DownFrame(End(k)) <= total_phys_pgs
  <2> SUFFICES ASSUME NEW k \in Available
               PROVE  DownFrame(End(k)) \in Nat /\ DownFrame(End(k)) <= total_phys_pgs
    OBVIOUS
  <2>1. PICK e \in Nat : e = End(k) /\ e <= top
    BY <1>6
  <2>2. e \div PageSize \in Nat
    BY <1>1, Divided
  <2>3. e \div PageSize <= top \div PageSize
    BY <1>1, <1>6, <2>1, QuotientGrows
  <2> QED BY <1>7, <2>1, <2>2, <2>3 DEF DownFrame
<1>10. pfndb_sz_bytes \in Nat
  BY <1>1, <1>8 DEF pfndb_sz_bytes
<1>11. pfndb_sz_pgs \in Nat
  <2>1. pfndb_sz_bytes + PageSize - 1 \in Nat
    BY <1>1, <1>10
  <2> QED BY <1>1, <2>1, Divided DEF pfndb_sz_pgs, UpFrame
<1> QED BY <1>8, <1>9, <1>10, <1>11

-----------------------------------------------------------------------------
(* What a step of the loader does to memory. *)

MemRecord(m) ==
  /\ m = [free |-> m.free, rsrv |-> m.rsrv, tab |-> m.tab, held |-> m.held, page |-> m.page, ok |-> m.ok]
  /\ DOMAIN m.held = 0..AddrFrames - 1 /\ m.ok \in BOOLEAN

\* The lists of m have every one of the first n frames once.
Listed(m, n) ==
  /\ m.free \in Seq(0..n - 1) /\ m.rsrv \in Seq(0..n - 1)
  /\ NoRepeats(m.free) /\ NoRepeats(m.rsrv)
  /\ \A f \in 0..n - 1 : IsOn(f, m.free) <=> ~IsOn(f, m.rsrv)
  /\ Len(m.free) + Len(m.rsrv) = n

\* The frames of the images and of the PFNDB hold what they should, and no free
\* frame is one of them.
Kept(m, images, nodes) ==
  /\ images \subseteq 0..AddrFrames - 1 /\ nodes \subseteq 0..AddrFrames - 1
  /\ \A f \in images : m.held[f] = f
  /\ \A f \in nodes : m.held[f] = Nodes
  /\ \A f : IsOn(f, m.free) => Ptr(f) \notin images \cup nodes

\* Memory m has become a: frames have only gone from the free list to the
\* reserved one, and only those have been written to.
Grown(m, a) ==
  /\ \A f : IsOn(f, m.rsrv) => IsOn(f, a.rsrv)
  /\ \A f : IsOn(f, a.free) => IsOn(f, m.free)
  /\ \A f \in 0..AddrFrames - 1 : (\A p : IsOn(p, m.free) => Ptr(p) # f) => a.held[f] = m.held[f]
  /\ a.ok => m.ok

LEMMA GrownTwice ==
  ASSUME NEW l, NEW m, NEW a, Grown(l, m), Grown(m, a)
  PROVE  Grown(l, a)
  BY DEF Grown

LEMMA GrownSame ==
  ASSUME NEW m PROVE Grown(m, m)
  BY DEF Grown

LEMMA KeptGrown ==
  ASSUME NEW m, NEW a, NEW images, NEW nodes, Kept(m, images, nodes), Grown(m, a)
  PROVE  Kept(a, images, nodes)
  BY DEF Grown, Kept

\* The frame an allocation takes, and what it leaves alone.
LEMMA AllocTakes ==
  ASSUME NEW m, MemRecord(m), NEW n \in Nat, Listed(m, n), pmm_alloc_page(m).ok
  PROVE  LET a == pmm_alloc_page(m)
             f == Head(m.free)
         IN /\ m.ok /\ m.free # <<>> /\ IsOn(f, m.free) /\ f \in 0..n - 1
            /\ MemRecord(a) /\ a.free = Tail(m.free) /\ a.rsrv = Append(m.rsrv, f) /\ a.page = m.page
            /\ a.held = [m.held EXCEPT ![Ptr(f)] = Zeroed]
            /\ a.tab = [slot \in {s \in DOMAIN m.tab : s[1] # Ptr(f)} |-> m.tab[slot]]
            /\ Last(a.rsrv) = f
<1> DEFINE a == pmm_alloc_page(m)
           f == Head(m.free)
<1>1. m = [free |-> m.free, rsrv |-> m.rsrv, tab |-> m.tab, held |-> m.held, page |-> m.page, ok |-> m.ok]
  BY DEF MemRecord
<1>2. m.ok /\ m.free # <<>>
  BY <1>1 DEF pmm_alloc_page
<1>3. a = [m EXCEPT !.free = Tail(@), !.rsrv = Append(@, f), !.held[Ptr(f)] = Zeroed,
                    !.tab = [slot \in {s \in DOMAIN @ : s[1] # Ptr(f)} |-> @[slot]]]
  BY <1>2 DEF pmm_alloc_page
<1>4. /\ a.free = Tail(m.free) /\ a.rsrv = Append(m.rsrv, f) /\ a.page = m.page /\ a.ok = m.ok
      /\ a.held = [m.held EXCEPT ![Ptr(f)] = Zeroed]
      /\ a.tab = [slot \in {s \in DOMAIN m.tab : s[1] # Ptr(f)} |-> m.tab[slot]]
  BY <1>1, <1>3
<1>5. a = [free |-> a.free, rsrv |-> a.rsrv, tab |-> a.tab, held |-> a.held, page |-> a.page, ok |-> a.ok]
  BY <1>1, <1>3
<1> HIDE DEF a
<1>6. m.free \in Seq(0..n - 1) /\ m.rsrv \in Seq(0..n - 1)
  BY DEF Listed
<1>7. IsOn(f, m.free) /\ f \in 0..n - 1
  BY <1>2, <1>6, TakeFirst
<1> HIDE DEF f
<1>8. Ptr(f) \in 0..AddrFrames - 1
  BY <1>7, PtrRange
<1>9. MemRecord(a)
  BY <1>4, <1>5, <1>8 DEF MemRecord, Zeroed
<1>10. Last(a.rsrv) = f
  <2>1. Append(m.rsrv, f)[Len(m.rsrv) + 1] = f /\ Len(Append(m.rsrv, f)) = Len(m.rsrv) + 1
    BY <1>6, <1>7
  <2> QED BY <1>4, <2>1 DEF Last
<1> QED BY <1>2, <1>4, <1>7, <1>9, <1>10 DEF a, f

LEMMA AllocFails ==
  ASSUME NEW m, MemRecord(m), ~pmm_alloc_page(m).ok
  PROVE  LET a == pmm_alloc_page(m)
         IN /\ MemRecord(a) /\ a.free = m.free /\ a.rsrv = m.rsrv /\ a.tab = m.tab
            /\ a.held = m.held /\ a.page = m.page
<1> DEFINE a == pmm_alloc_page(m)
<1>1. m = [free |-> m.free, rsrv |-> m.rsrv, tab |-> m.tab, held |-> m.held, page |-> m.page, ok |-> m.ok]
  BY DEF MemRecord
<1>2. m.free = <<>> \/ ~m.ok
  BY <1>1 DEF pmm_alloc_page
<1>3. a = [m EXCEPT !.ok = FALSE]
  BY <1>2 DEF pmm_alloc_page
<1> HIDE DEF a
<1>4. /\ a.free = m.free /\ a.rsrv = m.rsrv /\ a.tab = m.tab
      /\ a.held = m.held /\ a.page = m.page /\ a.ok = FALSE
      /\ a = [free |-> a.free, rsrv |-> a.rsrv, tab |-> a.tab, held |-> a.held, page |-> a.page, ok |-> a.ok]
  BY <1>1, <1>3
<1> QED BY <1>4 DEF MemRecord, a

LEMMA AllocPage ==
  ASSUME NEW m, MemRecord(m), NEW n \in Nat, Listed(m, n)
  PROVE  LET a == pmm_alloc_page(m) IN MemRecord(a) /\ Listed(a, n) /\ Grown(m, a) /\ a.page = m.page
<1> DEFINE a == pmm_alloc_page(m)
           f == Head(m.free)
<1>1. CASE ~a.ok
  <2>1. /\ MemRecord(a) /\ a.free = m.free /\ a.rsrv = m.rsrv /\ a.tab = m.tab
        /\ a.held = m.held /\ a.page = m.page
    BY <1>1, AllocFails
  <2> HIDE DEF a
  <2> QED BY <1>1, <2>1 DEF Listed, Grown, a
<1>2. CASE a.ok
  <2>1. /\ m.ok /\ m.free # <<>> /\ IsOn(f, m.free) /\ f \in 0..n - 1
        /\ MemRecord(a) /\ a.free = Tail(m.free) /\ a.rsrv = Append(m.rsrv, f) /\ a.page = m.page
        /\ a.held = [m.held EXCEPT ![Ptr(f)] = Zeroed]
    BY <1>2, AllocTakes
  <2>2. /\ m.free \in Seq(0..n - 1) /\ m.rsrv \in Seq(0..n - 1)
        /\ NoRepeats(m.free) /\ NoRepeats(m.rsrv)
        /\ \A g \in 0..n - 1 : IsOn(g, m.free) <=> ~IsOn(g, m.rsrv)
        /\ Len(m.free) + Len(m.rsrv) = n
    BY DEF Listed
  <2> HIDE DEF a
  <2> DEFINE q == m.free
             r == m.rsrv
  <2>3. q \in Seq(0..n - 1) /\ q # <<>> /\ NoRepeats(q) /\ a.free = Tail(q) /\ f = Head(q)
    BY <2>1, <2>2
  <2>4. /\ a.free \in Seq(0..n - 1) /\ Len(a.free) = Len(q) - 1 /\ Len(q) \in Nat
        /\ NoRepeats(a.free) /\ \A p : IsOn(p, a.free) <=> IsOn(p, q) /\ p # f
    <3> HIDE DEF q, f
    <3>1. Len(q) \in Nat /\ Len(Tail(q)) = Len(q) - 1
      BY <2>3, TakeFirst
    <3> QED BY <2>3, <3>1, TakeFirst
  <2>5. ~IsOn(f, m.rsrv)
    BY <2>1, <2>2
  <2> HIDE DEF f
  <2>6. r \in Seq(0..n - 1) /\ a.rsrv = Append(r, f) /\ f \in 0..n - 1 /\ NoRepeats(r) /\ ~IsOn(f, r)
    BY <2>1, <2>2, <2>5
  <2>7. /\ a.rsrv \in Seq(0..n - 1) /\ Len(a.rsrv) = Len(r) + 1 /\ Len(r) \in Nat
        /\ NoRepeats(a.rsrv) /\ \A p : IsOn(p, a.rsrv) <=> IsOn(p, r) \/ p = f
    <3> HIDE DEF r
    <3>1. Len(r) \in Nat
      BY <2>6
    <3> QED BY <2>6, <3>1, AddLast
  <2>8. \A g \in 0..n - 1 : IsOn(g, a.free) <=> ~IsOn(g, a.rsrv)
    BY <2>2, <2>4, <2>7
  <2>9. Len(a.free) + Len(a.rsrv) = n
    <3>1. Len(q) + Len(r) = n
      BY <2>2
    <3>2. Len(a.free) = Len(q) - 1 /\ Len(q) \in Nat /\ Len(a.rsrv) = Len(r) + 1 /\ Len(r) \in Nat
      BY <2>4, <2>7
    <3> HIDE DEF q, r
    <3> QED BY <3>1, <3>2
  <2>10. Listed(a, n)
    BY <2>4, <2>7, <2>8, <2>9 DEF Listed
  <2>11. \A g \in 0..AddrFrames - 1 : g # Ptr(f) => a.held[g] = m.held[g]
    BY <2>1 DEF MemRecord
  <2>12. Grown(m, a)
    BY <2>1, <2>4, <2>7, <2>11 DEF Grown
  <2> QED BY <2>1, <2>10, <2>12 DEF a
<1> QED BY <1>1, <1>2

LEMMA WithEntryGrows ==
  ASSUME NEW m, MemRecord(m), NEW n \in Nat, Listed(m, n), NEW f, NEW i
  PROVE  LET a == WithEntry(m, f, i) IN MemRecord(a) /\ Listed(a, n) /\ Grown(m, a) /\ a.page = m.page
<1> DEFINE b == pmm_alloc_page(m)
           a == WithEntry(m, f, i)
<1>1. CASE <<f, i>> \in DOMAIN m.tab
  BY <1>1, GrownSame DEF WithEntry
<1>2. CASE <<f, i>> \notin DOMAIN m.tab
  <2>1. MemRecord(b) /\ Listed(b, n) /\ Grown(m, b) /\ b.page = m.page
    BY AllocPage
  <2>2. CASE ~b.ok
    BY <1>2, <2>1, <2>2 DEF WithEntry
  <2>3. CASE b.ok
    <3> DEFINE e == Written(b.tab, f, i, [frame |-> Last(b.rsrv), rights |-> {"writable"}])
    <3>1. a = [b EXCEPT !.tab = e]
      BY <1>2, <2>3 DEF WithEntry
    <3> HIDE DEF a, b, e
    <3>2. /\ a.free = b.free /\ a.rsrv = b.rsrv /\ a.held = b.held /\ a.page = b.page /\ a.ok = b.ok
          /\ a = [free |-> a.free, rsrv |-> a.rsrv, tab |-> a.tab, held |-> a.held, page |-> a.page, ok |-> a.ok]
      BY <2>1, <3>1 DEF MemRecord
    <3> QED BY <2>1, <3>2 DEF MemRecord, Listed, Grown, a
  <2> QED BY <2>2, <2>3
<1> QED BY <1>1, <1>2

\* Memory to which only an entry of a table is written.
LEMMA EntryGrows ==
  ASSUME NEW m, MemRecord(m), NEW n \in Nat, Listed(m, n), NEW t
  PROVE  LET a == [m EXCEPT !.tab = t]
         IN MemRecord(a) /\ Listed(a, n) /\ Grown(m, a) /\ a.page = m.page /\ a.tab = t /\ a.ok = m.ok /\ a.held = m.held
              /\ a.free = m.free /\ a.rsrv = m.rsrv
<1> DEFINE a == [m EXCEPT !.tab = t]
<1>1. /\ a.free = m.free /\ a.rsrv = m.rsrv /\ a.held = m.held /\ a.page = m.page /\ a.ok = m.ok /\ a.tab = t
      /\ a = [free |-> a.free, rsrv |-> a.rsrv, tab |-> a.tab, held |-> a.held, page |-> a.page, ok |-> a.ok]
  BY DEF MemRecord
<1> HIDE DEF a
<1> QED BY <1>1 DEF MemRecord, Listed, Grown, a

LEMMA PageGrows ==
  ASSUME NEW m, MemRecord(m), NEW n \in Nat, Listed(m, n), NEW p
  PROVE  LET a == [m EXCEPT !.page = p]
         IN MemRecord(a) /\ Listed(a, n) /\ Grown(m, a) /\ a.page = p /\ a.tab = m.tab /\ a.ok = m.ok /\ a.held = m.held
              /\ a.free = m.free /\ a.rsrv = m.rsrv
<1> DEFINE a == [m EXCEPT !.page = p]
<1>1. /\ a.free = m.free /\ a.rsrv = m.rsrv /\ a.held = m.held /\ a.page = p /\ a.ok = m.ok /\ a.tab = m.tab
      /\ a = [free |-> a.free, rsrv |-> a.rsrv, tab |-> a.tab, held |-> a.held, page |-> a.page, ok |-> a.ok]
  BY DEF MemRecord
<1> HIDE DEF a
<1> QED BY <1>1 DEF MemRecord, Listed, Grown, a

\* The stages of map_page.
LEMMA MapPageStages ==
  ASSUME NEW m, NEW phys, NEW virt, NEW next, map_page(m, phys, virt, next)
  PROVE  LET m1 == WithEntry(m, pml4, pml4e_index(virt))
             pdpt == Ptr(Named(m1.tab, pml4, pml4e_index(virt)))
             m2 == WithEntry(m1, pdpt, pdpte_index(virt))
             pd == Ptr(Named(m2.tab, pdpt, pdpte_index(virt)))
             m3 == WithEntry(m2, pd, pde_index(virt))
             pt == Ptr(Named(m3.tab, pd, pde_index(virt)))
         IN /\ mem' = IF ~m3.ok \/ <<pt, pte_index(virt)>> \in DOMAIN m3.tab THEN m3
                      ELSE [m3 EXCEPT !.tab = Written(@, pt, pte_index(virt),
                                                      [frame |-> phys, rights |-> {"writable"}])]
            /\ pc' = IF mem'.ok THEN next ELSE "stopped"
  BY DEF map_page, Go, Asserted

LEMMA MapPageGrows ==
  ASSUME NEW m, MemRecord(m), NEW n \in Nat, Listed(m, n), NEW phys, NEW virt, NEW next,
         map_page(m, phys, virt, next)
  PROVE  /\ MemRecord(mem') /\ Listed(mem', n) /\ Grown(m, mem') /\ mem'.page = m.page
         /\ pc' = IF mem'.ok THEN next ELSE "stopped"
<1> DEFINE m1 == WithEntry(m, pml4, pml4e_index(virt))
           pdpt == Ptr(Named(m1.tab, pml4, pml4e_index(virt)))
           m2 == WithEntry(m1, pdpt, pdpte_index(virt))
           pd == Ptr(Named(m2.tab, pdpt, pdpte_index(virt)))
           m3 == WithEntry(m2, pd, pde_index(virt))
           pt == Ptr(Named(m3.tab, pd, pde_index(virt)))
           t == Written(m3.tab, pt, pte_index(virt), [frame |-> phys, rights |-> {"writable"}])
<1>1. MemRecord(m1) /\ Listed(m1, n) /\ Grown(m, m1) /\ m1.page = m.page
  BY WithEntryGrows
<1> HIDE DEF m1
<1>2. MemRecord(m2) /\ Listed(m2, n) /\ Grown(m1, m2) /\ m2.page = m1.page
  BY <1>1, WithEntryGrows
<1> HIDE DEF m2
<1>3. MemRecord(m3) /\ Listed(m3, n) /\ Grown(m2, m3) /\ m3.page = m2.page
  BY <1>2, WithEntryGrows
<1> HIDE DEF m3
<1>4. Grown(m, m3)
  BY <1>1, <1>2, <1>3, GrownTwice
<1>5. mem' = m3 \/ mem' = [m3 EXCEPT !.tab = t]
  BY MapPageStages DEF m1, m2, m3
<1>6. pc' = IF mem'.ok THEN next ELSE "stopped"
  BY MapPageStages
<1>7. CASE mem' = m3
  BY <1>1, <1>2, <1>3, <1>4, <1>6, <1>7
<1>8. CASE mem' = [m3 EXCEPT !.tab = t]
  <2> HIDE DEF t
  <2>1. MemRecord(mem') /\ Listed(mem', n) /\ Grown(m3, mem') /\ mem'.page = m3.page
    BY <1>3, <1>8, EntryGrows
  <2> QED BY <1>1, <1>2, <1>3, <1>4, <1>6, <2>1, GrownTwice
<1> QED BY <1>5, <1>7, <1>8

-----------------------------------------------------------------------------
(* The lists of frames. *)

Early == {"module", "mmap", "search", "lists"}
Work == {"paging", "low", "segment", "load", "pages", "copy", "stack", "pfndb", "shift", "jump",
         "kernel", "init", "idt", "platform", "enable", "break", "isr", "exception", "halted"}
Ends == {"stopped", "lost"}

\* The loader is filling the lists, or has done so.
ListsBegun == pc \in {"fill"} \cup Work \/ (pc \in Ends /\ mem.rsrv # <<>>)

ListsInv ==
  /\ machine \in Machines /\ MemRecord(mem)
  /\ pc \in Early \cup {"fill"} \cup Work \cup Ends
  /\ pc \in Early => mem.free = <<>> /\ mem.rsrv = <<>>
  /\ pc = "fill" => pos \in 0..total_phys_pgs
  /\ ListsBegun => Listed(mem, IF pc = "fill" THEN pos ELSE total_phys_pgs)

\* A step before the lists that looks for something.
Searches ==
  /\ pc \in {"module", "mmap", "search"} /\ pc' \in Early \cup Ends
  /\ UNCHANGED <<machine, mem>>

\* A step after them that leaves memory alone.
Quiet ==
  /\ pc \in Work /\ pc' \in (Work \ {"copy"}) \cup Ends
  /\ UNCHANGED <<machine, reserved, pfndb, pml4, mem>>

LEMMA StepKinds ==
  ASSUME [BootNext]_bootVars
  PROVE  \/ FindModule \/ FindMmap \/ EarlyAlloc \/ ReservePfndb \/ BuildLists
         \/ SetupPaging \/ MapLow \/ MapSegment \/ CopyPage \/ MapStack \/ MapPfndb
         \/ Quiet
         \/ UNCHANGED loaderVars
<1>1. CASE UNCHANGED bootVars
  BY <1>1 DEF bootVars
<1>2. CASE RunLoader
  <2>1. LoaderNext
    BY <1>2 DEF RunLoader
  <2>2. CASE LoadElf
    BY <2>2 DEF LoadElf, Quiet, Work, Ends
  <2>3. CASE NextSegment
    BY <2>3 DEF NextSegment, Asserted, Quiet, Work, Ends
  <2>4. CASE SegmentDone
    BY <2>4 DEF SegmentDone, Quiet, Work, Ends
  <2>5. CASE Shift
    BY <2>5 DEF Shift, Quiet, Work, Ends
  <2>6. CASE EnterLongmode
    BY <2>6 DEF EnterLongmode, Quiet, Work, Ends
  <2> QED BY <2>1, <2>2, <2>3, <2>4, <2>5, <2>6 DEF LoaderNext
<1>3. CASE CheckPfndb
  BY <1>3 DEF CheckPfndb, Asserted, Quiet, Work, Ends
<1>4. CASE ArchInit \/ InitIdt \/ PlatformInit \/ EnableInterrupts
  BY <1>4 DEF ArchInit, InitIdt, PlatformInit, EnableInterrupts, Quiet, Work, Ends
<1>5. CASE Breakpoint \/ IsrHandler \/ ExceptionHandler
  BY <1>5 DEF Breakpoint, IsrHandler, ExceptionHandler, Quiet, Work, Ends
<1>6. CASE Rest
  BY <1>6 DEF Rest, bootVars
<1> QED BY <1>1, <1>2, <1>3, <1>4, <1>5, <1>6 DEF BootNext

LEMMA SearchKinds ==
  ASSUME FindModule \/ FindMmap \/ EarlyAlloc
  PROVE  Searches
<1>1. CASE FindModule
  BY <1>1 DEF FindModule, Asserted, Searches, Early, Ends
<1>2. CASE FindMmap
  BY <1>2 DEF FindMmap, Searches, Early, Ends
<1>3. CASE EarlyAlloc
  BY <1>3 DEF EarlyAlloc, Searches, Early, Ends
<1> QED BY <1>1, <1>2, <1>3

\* A step that allocates or maps.
LEMMA MemoryStep ==
  ASSUME MemRecord(mem), NEW n \in Nat, Listed(mem, n),
         SetupPaging \/ MapLow \/ MapSegment \/ MapStack \/ MapPfndb
  PROVE  /\ MemRecord(mem') /\ Listed(mem', n) /\ Grown(mem, mem')
         /\ pc \in Work /\ pc' \in Work \cup {"stopped"}
         /\ pc' \in Work => mem'.ok
         /\ UNCHANGED <<machine, reserved, pfndb>>
<1> DEFINE a == pmm_alloc_page(mem)
<1>1. MemRecord(a) /\ Listed(a, n) /\ Grown(mem, a)
  BY AllocPage
<1> HIDE DEF a
<1>2. CASE SetupPaging
  <2> DEFINE t == Written(a.tab, Ptr(Last(a.rsrv)), Self, [frame |-> Last(a.rsrv), rights |-> {"writable"}])
             b == [a EXCEPT !.tab = t]
  <2>1. mem' = b /\ pc' = (IF b.ok THEN "low" ELSE "stopped") /\ pc = "paging"
    BY <1>2 DEF SetupPaging, Go, Asserted, a
  <2>2. MemRecord(b) /\ Listed(b, n) /\ Grown(a, b)
    <3> HIDE DEF t
    <3> QED BY <1>1, EntryGrows
  <2> HIDE DEF b
  <2>3. Grown(mem, b)
    BY <1>1, <2>2, GrownTwice
  <2> QED BY <1>2, <2>1, <2>2, <2>3 DEF SetupPaging, Work
<1>3. CASE MapLow
  <2>1. PICK next \in {"segment", "low"} : map_page(mem, pos, pos, next)
    BY <1>3 DEF MapLow
  <2>2. /\ MemRecord(mem') /\ Listed(mem', n) /\ Grown(mem, mem')
        /\ pc' = IF mem'.ok THEN next ELSE "stopped"
    BY <2>1, MapPageGrows
  <2> QED BY <1>3, <2>2 DEF MapLow, Work
<1>4. CASE MapSegment
  <2>0. pc = "pages" /\ UNCHANGED <<machine, reserved, pfndb>>
    BY <1>4 DEF MapSegment
  <2>1. CASE Segment.filesz = Segment.memsz
    <3>1. map_page(mem, FilePage, Segment.vaddr + pos, "pages")
      BY <1>4, <2>1 DEF MapSegment
    <3>2. /\ MemRecord(mem') /\ Listed(mem', n) /\ Grown(mem, mem')
          /\ pc' = IF mem'.ok THEN "pages" ELSE "stopped"
      BY <3>1, MapPageGrows
    <3> QED BY <2>0, <3>2 DEF Work
  <2>2. CASE Segment.filesz # Segment.memsz
    <3> DEFINE b == [a EXCEPT !.page = Last(a.rsrv)]
    <3>1. map_page(b, Last(a.rsrv), Segment.vaddr + pos, "copy")
      BY <1>4, <2>2 DEF MapSegment, a
    <3>2. MemRecord(b) /\ Listed(b, n) /\ Grown(a, b)
      BY <1>1, PageGrows
    <3> HIDE DEF b
    <3>3. /\ MemRecord(mem') /\ Listed(mem', n) /\ Grown(b, mem')
          /\ pc' = IF mem'.ok THEN "copy" ELSE "stopped"
      BY <3>1, <3>2, MapPageGrows
    <3>4. Grown(mem, mem')
      BY <1>1, <3>2, <3>3, GrownTwice
    <3> QED BY <2>0, <3>3, <3>4 DEF Work
  <2> QED BY <2>1, <2>2
<1>5. CASE MapStack
  <2>1. map_page(a, Last(a.rsrv), kernel_stack_limit, "pfndb")
    BY <1>5 DEF MapStack, a
  <2>2. /\ MemRecord(mem') /\ Listed(mem', n) /\ Grown(a, mem')
        /\ pc' = IF mem'.ok THEN "pfndb" ELSE "stopped"
    BY <1>1, <2>1, MapPageGrows
  <2>3. Grown(mem, mem')
    BY <1>1, <2>2, GrownTwice
  <2> QED BY <1>5, <2>2, <2>3 DEF MapStack, Work
<1>6. CASE MapPfndb
  <2>1. PICK next \in {"shift", "pfndb"} : map_page(mem, pfndb + pos, kernel_pfndb_base + pos, next)
    BY <1>6 DEF MapPfndb
  <2>2. /\ MemRecord(mem') /\ Listed(mem', n) /\ Grown(mem, mem')
        /\ pc' = IF mem'.ok THEN next ELSE "stopped"
    BY <2>1, MapPageGrows
  <2> QED BY <1>6, <2>2 DEF MapPfndb, Work
<1> QED BY <1>2, <1>3, <1>4, <1>5, <1>6

LEMMA PointsApart ==
  /\ Early \cap Work = {} /\ Early \cap Ends = {} /\ Work \cap Ends = {}
  /\ "fill" \notin Early \cup Work \cup Ends
  BY DEF Early, Work, Ends

LEMMA SameMachine ==
  ASSUME UNCHANGED machine
  PROVE  /\ total_phys_pgs' = total_phys_pgs /\ pfndb_sz_bytes' = pfndb_sz_bytes /\ pfndb_sz_pgs' = pfndb_sz_pgs
         /\ Available' = Available /\ \A k : End(k)' = End(k)
         /\ ModuleFrames' = ModuleFrames
  BY DEF total_phys_pgs, pfndb_sz_bytes, pfndb_sz_pgs, Available, End, ModuleFrames, FramesOf, DownFrame, UpFrame

LEMMA NothingListed ==
  ASSUME NEW m, m.free = <<>>, m.rsrv = <<>>
  PROVE  Listed(m, 0)
  BY NothingOn DEF Listed

\* One more frame on one of the lists.
LEMMA OneMore ==
  ASSUME NEW m, NEW n \in Nat, Listed(m, n), NEW a,
         \/ a.free = m.free /\ a.rsrv = Append(m.rsrv, n)
         \/ a.rsrv = m.rsrv /\ a.free = Append(m.free, n)
  PROVE  /\ Listed(a, n + 1)
         /\ \A f : IsOn(f, a.free) => IsOn(f, m.free) \/ (f = n /\ a.rsrv = m.rsrv)
<1> DEFINE S == 0..n - 1
           T == 0..(n + 1) - 1
<1>1. T = S \cup {n} /\ n \notin S /\ S \subseteq T /\ n \in T
  OBVIOUS
<1>2. /\ m.free \in Seq(S) /\ m.rsrv \in Seq(S) /\ NoRepeats(m.free) /\ NoRepeats(m.rsrv)
      /\ \A f \in S : IsOn(f, m.free) <=> ~IsOn(f, m.rsrv)
      /\ Len(m.free) + Len(m.rsrv) = n
  BY DEF Listed
<1> DEFINE p == m.free
           q == m.rsrv
<1>3. p \in Seq(T) /\ q \in Seq(T) /\ ~IsOn(n, p) /\ ~IsOn(n, q)
  <2>1. \A s \in Seq(S) : s \in Seq(T) /\ ~IsOn(n, s)
    <3> SUFFICES ASSUME NEW s \in Seq(S) PROVE s \in Seq(T) /\ ~IsOn(n, s)
      OBVIOUS
    <3>1. \A i \in 1..Len(s) : s[i] \in S
      OBVIOUS
    <3>2. ~IsOn(n, s)
      BY <1>1, <3>1 DEF IsOn
    <3>3. s \in Seq(T)
      BY <1>1
    <3> QED BY <3>2, <3>3
  <2> QED BY <1>2, <2>1
<1>4. \A f : IsOn(f, p) \/ IsOn(f, q) => f \in T
  BY <1>3 DEF IsOn
<1> HIDE DEF S, T
<1>5. Len(p) \in Nat /\ Len(q) \in Nat /\ Len(p) + Len(q) = n
  <2>1. Len(p) + Len(q) = n
    BY <1>2
  <2> HIDE DEF p, q
  <2>2. Len(p) \in Nat /\ Len(q) \in Nat
    BY <1>3
  <2> QED BY <2>1, <2>2
<1>6. CASE a.free = m.free /\ a.rsrv = Append(m.rsrv, n)
  <2>1. /\ a.rsrv \in Seq(T) /\ Len(a.rsrv) = Len(q) + 1
        /\ NoRepeats(a.rsrv) /\ \A f : IsOn(f, a.rsrv) <=> IsOn(f, q) \/ f = n
    <3>0. n \in T /\ a.rsrv = Append(q, n) /\ NoRepeats(q)
      BY <1>1, <1>2, <1>6
    <3> HIDE DEF q
    <3> QED BY <1>3, <3>0, AddLast
  <2>2. a.free = p
    BY <1>6
  <2>3. \A f \in T : IsOn(f, a.free) <=> ~IsOn(f, a.rsrv)
    BY <1>1, <1>2, <1>3, <2>1, <2>2
  <2>4. Len(a.free) + Len(a.rsrv) = n + 1
    <3> HIDE DEF p, q
    <3> QED BY <1>5, <2>1, <2>2
  <2> QED BY <1>2, <1>3, <2>1, <2>2, <2>3, <2>4 DEF Listed, T
<1>7. CASE a.rsrv = m.rsrv /\ a.free = Append(m.free, n)
  <2>1. /\ a.free \in Seq(T) /\ Len(a.free) = Len(p) + 1
        /\ NoRepeats(a.free) /\ \A f : IsOn(f, a.free) <=> IsOn(f, p) \/ f = n
    <3>0. n \in T /\ a.free = Append(p, n) /\ NoRepeats(p)
      BY <1>1, <1>2, <1>7
    <3> HIDE DEF p
    <3> QED BY <1>3, <3>0, AddLast
  <2>2. a.rsrv = q
    BY <1>7
  <2>3. \A f \in T : IsOn(f, a.free) <=> ~IsOn(f, a.rsrv)
    BY <1>1, <1>2, <1>3, <2>1, <2>2
  <2>4. Len(a.free) + Len(a.rsrv) = n + 1
    <3> HIDE DEF p, q
    <3> QED BY <1>5, <2>1, <2>2
  <2> QED BY <1>2, <1>3, <2>1, <2>2, <2>3, <2>4 DEF Listed, T
<1> QED BY <1>6, <1>7

\* A step of the loop over the PFNDB.
LEMMA BuildListsStep ==
  ASSUME ListsInv, BuildLists
  PROVE  /\ UNCHANGED <<machine, reserved, pfndb, pml4>> /\ pc = "fill"
         /\ MemRecord(mem') /\ mem'.held = mem.held /\ mem'.tab = mem.tab
         /\ \/ /\ pc' = "fill" /\ pos' \in 0..total_phys_pgs /\ Listed(mem', pos')
               /\ \A f : IsOn(f, mem'.free) => IsOn(f, mem.free) \/ (f = pos /\ ~is_page_reserved(pos))
            \/ pc' \in {"paging", "stopped"} /\ mem' = mem /\ Listed(mem', total_phys_pgs)
<1>1. pc = "fill" /\ UNCHANGED <<machine, reserved, pfndb, pml4>>
  BY DEF BuildLists
<1>2. total_phys_pgs \in Nat /\ pos \in 0..total_phys_pgs /\ Listed(mem, pos) /\ MemRecord(mem)
  BY <1>1, MemoryNumbers DEF ListsInv, ListsBegun
<1>3. CASE pos < total_phys_pgs
  <2>1. pc' = "fill" /\ pos' = pos + 1
    BY <1>1, <1>3 DEF BuildLists
  <2>2. PICK n \in Nat : n = pos
    BY <1>2
  <2>3. pos' \in 0..total_phys_pgs /\ pos' = n + 1
    BY <1>2, <1>3, <2>1, <2>2
  <2>4. mem' = IF is_page_reserved(n) THEN [mem EXCEPT !.rsrv = Append(@, n)]
               ELSE [mem EXCEPT !.free = Append(@, n)]
    BY <1>3, <2>2 DEF BuildLists
  <2>5. /\ MemRecord(mem') /\ mem'.held = mem.held /\ mem'.tab = mem.tab
        /\ \/ is_page_reserved(n) /\ mem'.free = mem.free /\ mem'.rsrv = Append(mem.rsrv, n)
           \/ ~is_page_reserved(n) /\ mem'.rsrv = mem.rsrv /\ mem'.free = Append(mem.free, n)
    <3> DEFINE R == is_page_reserved(n)
    <3>1. mem' = IF R THEN [mem EXCEPT !.rsrv = Append(@, n)] ELSE [mem EXCEPT !.free = Append(@, n)]
      BY <2>4
    <3> HIDE DEF R
    <3>2. CASE R
      <4>1. mem' = [mem EXCEPT !.rsrv = Append(@, n)]
        BY <3>1, <3>2
      <4> QED BY <1>2, <3>2, <4>1 DEF MemRecord, R
    <3>3. CASE ~R
      <4>1. mem' = [mem EXCEPT !.free = Append(@, n)]
        BY <3>1, <3>3
      <4> QED BY <1>2, <3>3, <4>1 DEF MemRecord, R
    <3> QED BY <3>2, <3>3
  <2>6. /\ Listed(mem', n + 1)
        /\ \A f : IsOn(f, mem'.free) => IsOn(f, mem.free) \/ (f = n /\ ~is_page_reserved(n))
    <3>1. Listed(mem, n)
      BY <1>2, <2>2
    <3>2. CASE is_page_reserved(n)
      <4>1. mem'.free = mem.free /\ mem'.rsrv = Append(mem.rsrv, n)
        BY <2>5, <3>2
      <4>2. Listed(mem', n + 1)
        BY <3>1, <4>1, OneMore
      <4> QED BY <4>1, <4>2
    <3>3. CASE ~is_page_reserved(n)
      <4>1. mem'.rsrv = mem.rsrv /\ mem'.free = Append(mem.free, n)
        BY <2>5, <3>3
      <4>2. /\ Listed(mem', n + 1)
            /\ \A f : IsOn(f, mem'.free) => IsOn(f, mem.free) \/ (f = n /\ mem'.rsrv = mem.rsrv)
        BY <3>1, <4>1, OneMore
      <4> QED BY <3>3, <4>2
    <3> QED BY <3>2, <3>3
  <2> QED BY <1>1, <2>1, <2>2, <2>3, <2>5, <2>6
<1>4. CASE ~(pos < total_phys_pgs)
  <2>1. mem' = mem /\ pc' \in {"paging", "stopped"}
    BY <1>4 DEF BuildLists, Asserted
  <2>2. pos = total_phys_pgs
    BY <1>2, <1>4
  <2> QED BY <1>1, <1>2, <2>1, <2>2
<1> QED BY <1>3, <1>4

LEMMA ReservePfndbStep ==
  ASSUME ListsInv, ReservePfndb
  PROVE  /\ pc = "lists" /\ pc' = "fill" /\ pos' = 0 /\ UNCHANGED <<machine, pfndb, pml4>>
         /\ MemRecord(mem') /\ Listed(mem', 0) /\ mem'.free = <<>> /\ mem'.tab = mem.tab
         /\ mem'.held = [f \in DOMAIN mem.held |-> IF f \in PfndbFrames THEN Nodes ELSE mem.held[f]]
<1>1. /\ pc = "lists" /\ pc' = "fill" /\ pos' = 0 /\ UNCHANGED <<machine, pfndb, pml4>>
      /\ mem' = [mem EXCEPT !.held = [f \in DOMAIN @ |-> IF f \in PfndbFrames THEN Nodes ELSE @[f]]]
  BY DEF ReservePfndb
<1>2. MemRecord(mem) /\ mem.free = <<>> /\ mem.rsrv = <<>>
  BY <1>1 DEF ListsInv, Early
<1> DEFINE P == PfndbFrames
           h == [f \in DOMAIN mem.held |-> IF f \in P THEN Nodes ELSE mem.held[f]]
<1>3. mem' = [mem EXCEPT !.held = h]
  BY <1>1, <1>2 DEF MemRecord
<1>4. DOMAIN h = 0..AddrFrames - 1
  BY <1>2 DEF MemRecord
<1> HIDE DEF h
<1>5. /\ MemRecord(mem') /\ mem'.free = <<>> /\ mem'.rsrv = <<>> /\ mem'.held = h /\ mem'.tab = mem.tab
  BY <1>2, <1>3, <1>4 DEF MemRecord
<1> QED BY <1>1, <1>5, NothingListed DEF h

LEMMA CopyPageStep ==
  ASSUME MemRecord(mem), CopyPage
  PROVE  /\ pc = "copy" /\ pc' = "pages" /\ UNCHANGED <<machine, reserved, pfndb, pml4>>
         /\ MemRecord(mem') /\ mem'.free = mem.free /\ mem'.rsrv = mem.rsrv /\ mem'.ok = mem.ok
         /\ mem'.tab = mem.tab
         /\ mem'.held = [mem.held EXCEPT ![Ptr(mem.page)] = mem.held[Ptr(FilePage)]]
<1> DEFINE p == Ptr(mem.page)
           g == mem.held[Ptr(FilePage)]
           h == [mem.held EXCEPT ![p] = g]
<1>1. /\ pc = "copy" /\ pc' = "pages" /\ UNCHANGED <<machine, reserved, pfndb, pml4>>
      /\ mem' = [mem EXCEPT !.held[p] = g]
  BY DEF CopyPage
<1> HIDE DEF g, p
<1>2. mem' = [mem EXCEPT !.held = h]
  BY <1>1 DEF MemRecord
<1>3. DOMAIN h = 0..AddrFrames - 1
  BY DEF MemRecord
<1> HIDE DEF h
<1>4. /\ MemRecord(mem') /\ mem'.free = mem.free /\ mem'.rsrv = mem.rsrv /\ mem'.ok = mem.ok
      /\ mem'.tab = mem.tab /\ mem'.held = h
  BY <1>2, <1>3 DEF MemRecord
<1> QED BY <1>1, <1>4 DEF h, g, p

LEMMA InitListsInv == BootInit => ListsInv
<1> SUFFICES ASSUME BootInit PROVE ListsInv
  OBVIOUS
<1>1. /\ machine \in Machines /\ pc = "module"
      /\ mem = [free |-> <<>>, rsrv |-> <<>>, tab |-> <<>>, held |-> [f \in 0..AddrFrames - 1 |-> f],
                page |-> 0, ok |-> TRUE]
  BY DEF BootInit, LoaderInit
<1>2. MemRecord(mem) /\ mem.free = <<>> /\ mem.rsrv = <<>>
  BY <1>1 DEF MemRecord
<1>3. pc \in Early /\ ~ListsBegun
  BY <1>1 DEF Early, Work, Ends, ListsBegun
<1> QED BY <1>1, <1>2, <1>3 DEF ListsInv

LEMMA NextListsInv == ListsInv /\ [BootNext]_bootVars => ListsInv'
<1> SUFFICES ASSUME ListsInv, [BootNext]_bootVars PROVE ListsInv'
  OBVIOUS
<1>0. PICK n \in Nat : n = total_phys_pgs
  BY MemoryNumbers DEF ListsInv
<1>1. CASE FindModule \/ FindMmap \/ EarlyAlloc
  <2>1. pc \in Early /\ pc' \in Early \cup Ends /\ UNCHANGED <<machine, mem>>
    BY <1>1, SearchKinds DEF Searches, Early
  <2>2. mem.free = <<>> /\ mem.rsrv = <<>>
    BY <2>1 DEF ListsInv
  <2>3. ~ListsBegun'
    BY <2>1, <2>2, PointsApart DEF ListsBegun
  <2> QED BY <2>1, <2>2, <2>3, PointsApart DEF ListsInv
<1>2. CASE ReservePfndb
  <2>1. /\ pc' = "fill" /\ pos' = 0 /\ UNCHANGED machine /\ MemRecord(mem') /\ Listed(mem', 0)
    BY <1>2, ReservePfndbStep
  <2>2. pos' \in 0..total_phys_pgs'
    BY <1>0, <2>1, SameMachine
  <2> QED BY <2>1, <2>2, PointsApart DEF ListsInv, ListsBegun
<1>3. CASE BuildLists
  <2>1. /\ UNCHANGED machine /\ MemRecord(mem')
        /\ \/ pc' = "fill" /\ pos' \in 0..total_phys_pgs /\ Listed(mem', pos')
           \/ pc' \in {"paging", "stopped"} /\ Listed(mem', total_phys_pgs)
    BY <1>3, BuildListsStep
  <2>2. total_phys_pgs' = total_phys_pgs
    BY <2>1, SameMachine
  <2>3. CASE pc' = "fill" /\ pos' \in 0..total_phys_pgs /\ Listed(mem', pos')
    BY <2>1, <2>2, <2>3, PointsApart DEF ListsInv, ListsBegun
  <2>4. CASE pc' \in {"paging", "stopped"} /\ Listed(mem', total_phys_pgs)
    <3>1. pc' \in Work \cup Ends
      BY <2>4 DEF Work, Ends
    <3> QED BY <2>1, <2>2, <2>4, <3>1, PointsApart DEF ListsInv
  <2> QED BY <2>1, <2>3, <2>4
<1>4. CASE SetupPaging \/ MapLow \/ MapSegment \/ MapStack \/ MapPfndb
  <2>1. pc \in Work
    BY <1>4 DEF SetupPaging, MapLow, MapSegment, MapStack, MapPfndb, Work
  <2>2. MemRecord(mem) /\ Listed(mem, n)
    BY <1>0, <2>1, PointsApart DEF ListsInv, ListsBegun
  <2>3. MemRecord(mem') /\ Listed(mem', n) /\ pc' \in Work \cup {"stopped"} /\ UNCHANGED machine
    BY <1>4, <2>2, MemoryStep
  <2>4. n = total_phys_pgs' /\ pc' \in Work \cup Ends
    BY <1>0, <2>3, SameMachine DEF Ends
  <2> QED BY <2>3, <2>4, PointsApart DEF ListsInv
<1>5. CASE CopyPage
  <2>1. pc \in Work
    BY <1>5 DEF CopyPage, Work
  <2>2. MemRecord(mem) /\ Listed(mem, n)
    BY <1>0, <2>1, PointsApart DEF ListsInv, ListsBegun
  <2>3. MemRecord(mem') /\ mem'.free = mem.free /\ mem'.rsrv = mem.rsrv /\ pc' = "pages" /\ UNCHANGED machine
    BY <1>5, <2>2, CopyPageStep
  <2>4. Listed(mem', n)
    BY <2>2, <2>3 DEF Listed
  <2>5. n = total_phys_pgs' /\ pc' \in Work
    BY <1>0, <2>3, SameMachine DEF Work
  <2> QED BY <2>3, <2>4, <2>5, PointsApart DEF ListsInv
<1>6. CASE Quiet
  <2>1. pc \in Work /\ pc' \in Work \cup Ends /\ UNCHANGED <<machine, mem>>
    BY <1>6 DEF Quiet
  <2>2. Listed(mem, total_phys_pgs) /\ total_phys_pgs' = total_phys_pgs
    BY <2>1, PointsApart, SameMachine DEF ListsInv, ListsBegun
  <2> QED BY <2>1, <2>2, PointsApart DEF ListsInv
<1>7. CASE UNCHANGED loaderVars
  <2>1. UNCHANGED <<machine, pc, pos, mem>>
    BY <1>7 DEF loaderVars
  <2> QED BY <2>1, SameMachine DEF ListsInv, ListsBegun
<1> QED BY <1>1, <1>2, <1>3, <1>4, <1>5, <1>6, <1>7, StepKinds

LEMMA ListsInvariance == BootSpec => []ListsInv
  BY InitListsInv, NextListsInv, PTL DEF BootSpec

LEMMA FramesPartitionedOf == ListsInv => FramesPartitioned
<1> SUFFICES ASSUME ListsInv, ListsBuilt
             PROVE  /\ ToSet(mem.free \o mem.rsrv) = 0..total_phys_pgs - 1
                    /\ Len(mem.free) + Len(mem.rsrv) = total_phys_pgs
  BY DEF FramesPartitioned
<1> DEFINE S == 0..total_phys_pgs - 1
           p == mem.free
           q == mem.rsrv
<1>1. Listed(mem, total_phys_pgs)
  <2>1. pc # "fill" /\ mem.rsrv # <<>>
    BY DEF ListsBuilt
  <2> QED BY <2>1 DEF ListsInv, ListsBegun
<1>2. /\ p \in Seq(S) /\ q \in Seq(S) /\ Len(p) + Len(q) = total_phys_pgs
      /\ \A f \in S : IsOn(f, p) \/ IsOn(f, q)
  BY <1>1 DEF Listed
<1> HIDE DEF p, q, S
<1>3. p \o q \in Seq(S) /\ \A f : IsOn(f, p \o q) <=> IsOn(f, p) \/ IsOn(f, q)
  BY <1>2, JoinLists
<1>4. \A f : f \in ToSet(p \o q) <=> IsOn(f, p \o q)
  BY <1>3, ToSetMembers DEF IsOn
<1>5. \A f : IsOn(f, p \o q) => f \in S
  BY <1>3 DEF IsOn
<1>6. ToSet(p \o q) = S
  BY <1>2, <1>3, <1>4, <1>5
<1> QED BY <1>2, <1>6 DEF p, q, S

\* The loader puts every frame on one of its two lists, once, and allocations
\* only move frames from one to the other (mem.cc:122-129, 148-151).
THEOREM Partition == BootSpec => []FramesPartitioned
  BY ListsInvariance, FramesPartitionedOf, PTL

LEMMA EntryTyped ==
  ASSUME machine \in Machines, NEW k \in Available
  PROVE  /\ machine.mmap[k].addr \in Nat /\ machine.mmap[k].len \in Nat
         /\ k \in 1..Len(machine.mmap) /\ Len(machine.mmap) \in Nat
<1> DEFINE R == [addr : Nat, len : Nat, available : BOOLEAN]
           s == machine.mmap
<1>1. s \in Seq(R) /\ k \in DOMAIN s
  BY MachinesAssumption DEF Available
<1>2. \A x \in R : x.addr \in Nat /\ x.len \in Nat
  OBVIOUS
<1> HIDE DEF R, s
<1>3. s[k] \in R /\ k \in 1..Len(s) /\ Len(s) \in Nat
  BY <1>1
<1> QED BY <1>2, <1>3 DEF s

-----------------------------------------------------------------------------
(* The images. *)

\* The images begin at a page: the linker script and the boot loader see to it.
Aligned == LoaderImage.begin % PageSize = 0 /\ machine.mod.begin % PageSize = 0

Images == ModuleFrames \cup LoaderFrames

\* The PFNDB has been placed.
PfndbPlaced ==
  /\ pfndb \in Nat
  /\ \A i \in 0..pfndb_sz_pgs - 1 : pfndb + i < AddrFrames /\ pfndb + i \notin Images

ImagesInv ==
  /\ Aligned
  /\ DOMAIN reserved = 1..4
  /\ reserved[1] = [begin |-> 0, end |-> PageSize - 1]
  /\ reserved[2] = [begin |-> LoaderImage.begin, end |-> LoaderImage.end - 1]
  /\ pc \in {"search", "lists", "fill"} =>
       reserved[4] = [begin |-> machine.mod.begin, end |-> machine.mod.end - 1]
  /\ pc = "fill" => reserved[3] = [begin |-> pfndb * PageSize, end |-> pfndb * PageSize + pfndb_sz_bytes]
  /\ pc \in Early => \A f \in 0..AddrFrames - 1 : mem.held[f] = f
  /\ pc = "lists" \/ ListsBegun => PfndbPlaced
  /\ ListsBegun => Kept(mem, Images, PfndbFrames)
  /\ pc = "copy" => Ptr(mem.page) \notin Images \cup PfndbFrames

LEMMA SameImages ==
  ASSUME UNCHANGED <<machine, pfndb>>
  PROVE  /\ Images' = Images /\ PfndbFrames' = PfndbFrames /\ PfndbPlaced' = PfndbPlaced
         /\ Aligned' = Aligned
<1>1. ModuleFrames' = ModuleFrames /\ pfndb_sz_pgs' = pfndb_sz_pgs
  BY SameMachine
<1>2. Images' = Images
  BY <1>1 DEF Images, LoaderFrames, FramesOf, DownFrame
<1> QED BY <1>1, <1>2 DEF PfndbFrames, PfndbPlaced, Aligned, Ptr

\* The frames of an image, up to one that holds only its last byte.
LEMMA ImageRange ==
  ASSUME NEW begin \in 0..AddrFrames * PageSize, NEW end \in 0..AddrFrames * PageSize,
         begin % PageSize = 0, NEW f \in FramesOf(begin, end - 1)
  PROVE  f \in 0..AddrFrames - 1 /\ begin <= f * PageSize /\ f * PageSize < end - 1
<1> DEFINE n == PageSize
           b == DownFrame(begin)
           A == AddrFrames
<1>1. n \in Nat \ {0} /\ A \in Nat \ {0} /\ A * n \in Nat
  BY LoaderAssumption
<1>2. begin \in Nat /\ end \in Nat /\ end <= A * n
  BY <1>1
<1>3. b \in Nat /\ begin = b * n
  <2>1. begin \div n \in Nat /\ begin = (begin \div n) * n + (begin % n) /\ begin % n = 0
    BY <1>1, <1>2, Divided
  <2>2. (begin \div n) * n \in Nat
    BY <1>1, <2>1
  <2> QED BY <2>1, <2>2 DEF DownFrame
<1>4. b <= f /\ f <= DownFrame(end - 1 - 1) /\ f \in Int
  BY <1>2, <1>3, BelowDown DEF FramesOf
<1> HIDE DEF b
<1>5. f * n <= end - 1 - 1
  BY <1>2, <1>4, BelowDown
<1>6. b * n <= f * n /\ f * n \in Int
  BY <1>1, <1>3, <1>4
<1>7. f * n < A * n
  BY <1>1, <1>2, <1>5, <1>6
<1>8. f < A
  <2> SUFFICES ASSUME A <= f PROVE FALSE
    BY <1>1, <1>4
  <2>1. A * n <= f * n
    BY <1>1, <1>4
  <2> QED BY <1>1, <1>6, <1>7, <2>1
<1> QED BY <1>1, <1>2, <1>3, <1>4, <1>5, <1>6, <1>8

LEMMA ImagesRange ==
  ASSUME machine \in Machines, Aligned
  PROVE  /\ Images \subseteq 0..AddrFrames - 1
         /\ \A f \in LoaderFrames : LoaderImage.begin <= f * PageSize /\ f * PageSize < LoaderImage.end - 1
         /\ \A f \in ModuleFrames : machine.mod.begin <= f * PageSize /\ f * PageSize < machine.mod.end - 1
<1> DEFINE R == 0..AddrFrames * PageSize
<1>1. /\ LoaderImage.begin \in R /\ LoaderImage.end \in R
      /\ machine.mod.begin \in R /\ machine.mod.end \in R
  BY MachinesAssumption
<1>2. LoaderImage.begin % PageSize = 0 /\ machine.mod.begin % PageSize = 0
  BY DEF Aligned
<1>3. \A f \in LoaderFrames : /\ f \in 0..AddrFrames - 1
                              /\ LoaderImage.begin <= f * PageSize /\ f * PageSize < LoaderImage.end - 1
  BY <1>1, <1>2, ImageRange DEF LoaderFrames
<1>4. \A f \in ModuleFrames : /\ f \in 0..AddrFrames - 1
                              /\ machine.mod.begin <= f * PageSize /\ f * PageSize < machine.mod.end - 1
  BY <1>1, <1>2, ImageRange DEF ModuleFrames
<1> QED BY <1>3, <1>4 DEF Images

\* A page that is not reserved is neither the first page nor one of an image.
LEMMA NotReserved ==
  ASSUME machine \in Machines, ImagesInv, pc \in {"search", "lists", "fill"},
         NEW f \in Nat, ~is_page_reserved(f)
  PROVE  Ptr(f) # 0 /\ Ptr(f) \notin Images
<1> DEFINE g == Ptr(f)
<1>1. \A r \in 1..4 : ~(reserved[r].begin <= g * PageSize /\ g * PageSize < reserved[r].end)
  BY DEF is_page_reserved
<1>2. g \in Nat
  BY PtrRange
<1> HIDE DEF g
<1>3. /\ reserved[1].begin = 0 /\ reserved[1].end = PageSize - 1
      /\ reserved[2].begin = LoaderImage.begin /\ reserved[2].end = LoaderImage.end - 1
      /\ reserved[4].begin = machine.mod.begin /\ reserved[4].end = machine.mod.end - 1
  BY DEF ImagesInv
<1>4. g # 0
  <2> SUFFICES ASSUME g = 0 PROVE FALSE
    OBVIOUS
  <2>1. PageSize \in Nat \ {0, 1} /\ 0 * PageSize = 0
    BY LoaderAssumption
  <2>2. 1 \in 1..4 /\ 0 <= 0 /\ 0 < PageSize - 1
    BY <2>1
  <2> QED BY <1>1, <1>3, <2>1, <2>2
<1>5. g \notin LoaderFrames
  <2>1. 2 \in 1..4
    OBVIOUS
  <2> QED BY <1>1, <1>3, <2>1, ImagesRange DEF ImagesInv
<1>6. g \notin ModuleFrames
  <2>1. 4 \in 1..4
    OBVIOUS
  <2> QED BY <1>1, <1>3, <2>1, ImagesRange DEF ImagesInv
<1> QED BY <1>4, <1>5, <1>6 DEF Images, g

\* What the search finds does not wrap around at the end of 32 bits: the first
\* page is reserved.
LEMMA EarlyAllocPlaces ==
  ASSUME ListsInv, ImagesInv, EarlyAlloc, pc' = "lists"
  PROVE  PfndbPlaced'
<1> DEFINE n == pfndb_sz_pgs
           A == AddrFrames
           k == Min({j \in Available : j >= pos})
           runs == search_run(n, UpFrame(machine.mmap[k].addr), DownFrame(End(k)))
<1>1. pc = "search" /\ runs # {} /\ pfndb' = Ptr(Min(runs)) /\ UNCHANGED machine
  BY DEF EarlyAlloc
<1>2. {j \in Available : j >= pos} # {} /\ k \in Available
  <2>1. {j \in Available : j >= pos} # {}
    BY <1>1 DEF EarlyAlloc
  <2>2. {j \in Available : j >= pos} \subseteq Nat
    BY MachinesAssumption DEF ListsInv, Available
  <2> QED BY <2>1, <2>2, LeastElement
<1> HIDE DEF k
<1>3. n \in Nat /\ A \in Nat \ {0}
  BY LoaderAssumption, MemoryNumbers DEF ListsInv
<1>4. UpFrame(machine.mmap[k].addr) \in Nat
  <2>1. machine.mmap[k].addr \in Nat /\ PageSize \in Nat \ {0}
    BY <1>2, LoaderAssumption, EntryTyped DEF ListsInv
  <2>2. machine.mmap[k].addr + PageSize - 1 \in Nat
    BY <2>1
  <2> QED BY <2>1, <2>2, Divided DEF UpFrame
<1>5. \A ptr \in runs : ptr \in Nat /\ \A i \in ptr..ptr + n - 1 : ~is_page_reserved(i)
  BY <1>4 DEF search_run
<1>6. Min(runs) \in runs
  BY <1>1, <1>5, LeastElement
<1>7. PICK ptr \in Nat : ptr = Min(runs) /\ \A i \in ptr..ptr + n - 1 : ~is_page_reserved(i)
  BY <1>5, <1>6
<1> HIDE DEF runs, n, A
<1>8. PICK q \in Nat, r \in 0..A - 1 : ptr = A * q + r /\ r = Ptr(ptr)
  <2>1. ptr \div A \in Nat /\ ptr % A \in 0..A - 1 /\ ptr = (ptr \div A) * A + (ptr % A)
    BY <1>3, Divided
  <2>2. PICK q \in Nat : q = ptr \div A
    BY <2>1
  <2>3. q * A = A * q
    BY <1>3
  <2>4. ptr = A * q + (ptr % A)
    BY <2>1, <2>2, <2>3
  <2> QED BY <2>1, <2>4 DEF Ptr, A
<1>9. \A j \in 0..n - 1 : Ptr(ptr + j) # 0 /\ Ptr(ptr + j) \notin Images
  <2> SUFFICES ASSUME NEW j \in 0..n - 1 PROVE Ptr(ptr + j) # 0 /\ Ptr(ptr + j) \notin Images
    OBVIOUS
  <2>1. ptr + j \in ptr..ptr + n - 1 /\ ptr + j \in Nat
    BY <1>3
  <2>2. ~is_page_reserved(ptr + j)
    BY <1>7, <2>1
  <2> QED BY <1>1, <2>1, <2>2, NotReserved DEF ListsInv
<1>10. \A j \in 0..n - 1 : r + j < A
  <2> SUFFICES ASSUME NEW j \in 0..n - 1, r + j >= A PROVE FALSE
    BY <1>3
  <2>1. A - r \in 0..n - 1
    BY <1>3
  <2>2. ptr + (A - r) = A * (q + 1) + 0
    BY <1>3, <1>8
  <2>3. (A * (q + 1) + 0) % A = 0
    <3>1. q + 1 \in Nat /\ 0 \in 0..A - 1
      BY <1>3
    <3> QED BY <1>3, <3>1, QuotientOf
  <2>4. Ptr(ptr + (A - r)) = 0
    BY <2>2, <2>3 DEF Ptr, A
  <2> QED BY <1>9, <2>1, <2>4
<1>11. \A j \in 0..n - 1 : Ptr(ptr + j) = r + j
  <2> SUFFICES ASSUME NEW j \in 0..n - 1 PROVE Ptr(ptr + j) = r + j
    OBVIOUS
  <2>1. r + j \in 0..A - 1
    BY <1>3, <1>10
  <2>2. A * q \in Nat
    BY <1>3
  <2>3. ptr + j = A * q + (r + j)
    BY <1>3, <1>8, <2>2
  <2>4. (A * q + (r + j)) % A = r + j
    BY <1>3, <2>1, QuotientOf
  <2> QED BY <2>3, <2>4 DEF Ptr, A
<1>12. pfndb' = r
  BY <1>1, <1>7, <1>8
<1>13. Images' = Images /\ pfndb_sz_pgs' = n
  BY <1>1, SameMachine DEF Images, LoaderFrames, FramesOf, DownFrame, n
<1> QED BY <1>9, <1>10, <1>11, <1>12, <1>13 DEF PfndbPlaced, A

\* The frames of the PFNDB.
LEMMA PfndbRange ==
  ASSUME machine \in Machines, PfndbPlaced
  PROVE  /\ PfndbFrames = {pfndb + i : i \in 0..pfndb_sz_pgs - 1}
         /\ PfndbFrames \subseteq 0..AddrFrames - 1 /\ PfndbFrames \cap Images = {}
<1>1. pfndb_sz_pgs \in Nat /\ pfndb \in Nat /\ AddrFrames \in Nat
  BY LoaderAssumption, MemoryNumbers DEF PfndbPlaced
<1>2. \A i \in 0..pfndb_sz_pgs - 1 : pfndb + i \in 0..AddrFrames - 1 /\ pfndb + i \notin Images
  BY <1>1 DEF PfndbPlaced
<1>3. \A i \in 0..pfndb_sz_pgs - 1 : Ptr(pfndb + i) = pfndb + i
  BY <1>2, PtrRange
<1> QED BY <1>2, <1>3 DEF PfndbFrames

\* A page that goes to the free list is none of the PFNDB.
LEMMA NotNodes ==
  ASSUME ListsInv, ImagesInv, pc = "fill", NEW f \in Nat, ~is_page_reserved(f)
  PROVE  Ptr(f) \notin PfndbFrames
<1> SUFFICES ASSUME Ptr(f) \in PfndbFrames PROVE FALSE
  OBVIOUS
<1>1. PfndbPlaced /\ machine \in Machines
  BY DEF ListsInv, ImagesInv, ListsBegun
<1>2. PICK i \in 0..pfndb_sz_pgs - 1 : Ptr(f) = pfndb + i
  BY <1>1, PfndbRange
<1>3. /\ reserved[3].begin = pfndb * PageSize
      /\ reserved[3].end = pfndb * PageSize + pfndb_sz_bytes
  BY DEF ImagesInv
<1>4. /\ pfndb \in Nat /\ pfndb_sz_bytes \in Nat /\ pfndb_sz_pgs = UpFrame(pfndb_sz_bytes)
      /\ pfndb_sz_pgs \in Nat /\ PageSize \in Nat
  BY <1>1, LoaderAssumption, MemoryNumbers DEF PfndbPlaced, pfndb_sz_pgs
<1>5. i \in Nat /\ i < UpFrame(pfndb_sz_bytes)
  BY <1>4
<1>6. i * PageSize < pfndb_sz_bytes
  BY <1>4, <1>5, BelowUp
<1>7. /\ pfndb * PageSize \in Nat /\ i * PageSize \in Nat
      /\ (pfndb + i) * PageSize = pfndb * PageSize + i * PageSize
  BY <1>4, <1>5
<1>8. /\ pfndb * PageSize <= (pfndb + i) * PageSize
      /\ (pfndb + i) * PageSize < pfndb * PageSize + pfndb_sz_bytes
  BY <1>4, <1>6, <1>7
<1>9. 3 \in 1..4
  OBVIOUS
<1> QED BY <1>2, <1>3, <1>8, <1>9 DEF is_page_reserved

LEMMA InitImagesInv == BootInit /\ Aligned => ImagesInv
<1> SUFFICES ASSUME BootInit, Aligned PROVE ImagesInv
  OBVIOUS
<1>1. /\ pc = "module"
      /\ reserved = <<[begin |-> 0, end |-> PageSize - 1],
                      [begin |-> LoaderImage.begin, end |-> LoaderImage.end - 1],
                      [begin |-> 0, end |-> 0], [begin |-> 0, end |-> 0]>>
      /\ mem.held = [f \in 0..AddrFrames - 1 |-> f]
  BY DEF BootInit, LoaderInit
<1>2. /\ DOMAIN reserved = 1..4
      /\ reserved[1] = [begin |-> 0, end |-> PageSize - 1]
      /\ reserved[2] = [begin |-> LoaderImage.begin, end |-> LoaderImage.end - 1]
  BY <1>1
<1>3. ~ListsBegun
  BY <1>1 DEF ListsBegun, Work, Ends
<1> QED BY <1>1, <1>2, <1>3 DEF ImagesInv

\* A step in which only the point, the memory and the counters change.
LEMMA ImagesKept ==
  ASSUME ListsInv, ImagesInv, UNCHANGED <<machine, reserved, pfndb>>,
         pc \in Work, pc' \in Work \cup Ends,
         Kept(mem', Images, PfndbFrames),
         pc' = "copy" => Ptr(mem'.page) \notin Images \cup PfndbFrames
  PROVE  ImagesInv'
<1>1. PfndbPlaced
  BY DEF ImagesInv, ListsBegun
<1>2. Images' = Images /\ PfndbFrames' = PfndbFrames /\ PfndbPlaced' /\ Aligned'
  BY <1>1, SameImages DEF ImagesInv
<1>3. pc' \notin Early /\ pc' \notin {"search", "lists", "fill"}
  BY PointsApart DEF Early
<1> QED BY <1>2, <1>3 DEF ImagesInv

LEMMA MapSegmentCopies ==
  ASSUME MemRecord(mem), NEW n \in Nat, Listed(mem, n), MapSegment, pc' = "copy"
  PROVE  mem'.page = Head(mem.free) /\ IsOn(mem'.page, mem.free) /\ mem'.page \in 0..n - 1
<1> DEFINE a == pmm_alloc_page(mem)
           b == [a EXCEPT !.page = Last(a.rsrv)]
<1>1. MemRecord(a) /\ Listed(a, n) /\ Grown(mem, a)
  BY AllocPage
<1>2. Segment.filesz # Segment.memsz
  <2> SUFFICES ASSUME Segment.filesz = Segment.memsz PROVE FALSE
    OBVIOUS
  <2>1. map_page(mem, FilePage, Segment.vaddr + pos, "pages")
    BY DEF MapSegment
  <2>2. pc' \in {"pages", "stopped"}
    BY <2>1, MapPageStages
  <2> QED BY <2>2
<1>3. map_page(b, Last(a.rsrv), Segment.vaddr + pos, "copy")
  BY <1>2 DEF MapSegment
<1> HIDE DEF a
<1>4. MemRecord(b) /\ Listed(b, n) /\ b.page = Last(a.rsrv) /\ b.ok = a.ok
  BY <1>1, PageGrows
<1> HIDE DEF b
<1>5. Grown(b, mem') /\ mem'.page = b.page /\ pc' = IF mem'.ok THEN "copy" ELSE "stopped"
  BY <1>3, <1>4, MapPageGrows
<1>6. a.ok
  BY <1>4, <1>5 DEF Grown
<1>7. IsOn(Head(mem.free), mem.free) /\ Last(a.rsrv) = Head(mem.free) /\ Head(mem.free) \in 0..n - 1
  BY <1>6, AllocTakes DEF a
<1> QED BY <1>4, <1>5, <1>7

LEMMA NextImagesInv == ListsInv /\ ImagesInv /\ [BootNext]_bootVars => ImagesInv'
<1> SUFFICES ASSUME ListsInv, ImagesInv, [BootNext]_bootVars PROVE ImagesInv'
  OBVIOUS
<1>0. PICK n \in Nat : n = total_phys_pgs
  BY MemoryNumbers DEF ListsInv
<1>1. CASE FindModule \/ FindMmap \/ EarlyAlloc
  <2>1. pc \in Early /\ pc' \in Early \cup Ends /\ UNCHANGED <<machine, mem>>
    BY <1>1, SearchKinds DEF Searches, Early
  <2>2. ~ListsBegun'
    BY <2>1, PointsApart DEF ListsInv, ListsBegun
  <2>3. Aligned' /\ pc' # "copy" /\ pc' # "fill"
    BY <2>1, PointsApart DEF ImagesInv, Aligned, Early, Work, Ends
  <2>4. pc' \in Early => \A f \in 0..AddrFrames - 1 : mem'.held[f] = f
    BY <2>1 DEF ImagesInv
  <2>5. CASE FindModule
    <3>1. reserved' = reserved /\ pc' \in {"module", "mmap", "lost", "stopped"}
      BY <2>5 DEF FindModule, Asserted
    <3> QED BY <2>2, <2>3, <2>4, <3>1 DEF ImagesInv
  <2>6. CASE FindMmap
    <3>1. pc' \in {"lost", "search"}
      BY <2>6 DEF FindMmap
    <3> DEFINE e == [begin |-> machine.tag.begin, end |-> machine.tag.begin + machine.tag.size - 1]
               d == [begin |-> machine.mod.begin, end |-> machine.mod.end - 1]
    <3>2. reserved' = [reserved EXCEPT ![3] = e, ![4] = d]
      BY <2>6 DEF FindMmap
    <3> HIDE DEF e, d
    <3>3. /\ DOMAIN reserved' = 1..4 /\ reserved'[1] = reserved[1] /\ reserved'[2] = reserved[2]
          /\ reserved'[4] = d
      BY <3>2 DEF ImagesInv
    <3> QED BY <2>1, <2>2, <2>3, <2>4, <3>1, <3>3 DEF ImagesInv, d
  <2>7. CASE EarlyAlloc
    <3>1. reserved' = reserved /\ pc = "search" /\ pc' \in {"stopped", "search", "lists"}
      BY <2>7 DEF EarlyAlloc
    <3>2. pc' = "lists" => PfndbPlaced'
      BY <2>7, EarlyAllocPlaces
    <3> QED BY <2>1, <2>2, <2>3, <2>4, <3>1, <3>2 DEF ImagesInv
  <2> QED BY <1>1, <2>5, <2>6, <2>7
<1>2. CASE ReservePfndb
  <2>1. /\ pc = "lists" /\ pc' = "fill" /\ UNCHANGED <<machine, pfndb>> /\ mem'.free = <<>>
        /\ mem'.held = [f \in DOMAIN mem.held |-> IF f \in PfndbFrames THEN Nodes ELSE mem.held[f]]
    BY <1>2, ReservePfndbStep
  <2>2. PfndbPlaced /\ machine \in Machines /\ Aligned
    BY <2>1 DEF ImagesInv, ListsInv
  <2>3. /\ Images' = Images /\ PfndbFrames' = PfndbFrames /\ PfndbPlaced' /\ Aligned'
        /\ pfndb_sz_bytes' = pfndb_sz_bytes
    BY <2>1, <2>2, SameImages, SameMachine
  <2>4. Kept(mem', Images, PfndbFrames)
    <3>1. /\ Images \subseteq 0..AddrFrames - 1 /\ PfndbFrames \subseteq 0..AddrFrames - 1
          /\ PfndbFrames \cap Images = {}
      BY <2>2, ImagesRange, PfndbRange
    <3>2. DOMAIN mem.held = 0..AddrFrames - 1 /\ \A f \in 0..AddrFrames - 1 : mem.held[f] = f
      BY <2>1 DEF ImagesInv, ListsInv, MemRecord, Early
    <3> QED BY <2>1, <3>1, <3>2, NothingOn DEF Kept
  <2> DEFINE e == [begin |-> pfndb * PageSize, end |-> pfndb * PageSize + pfndb_sz_bytes]
  <2>5. reserved' = [reserved EXCEPT ![3] = e]
    BY <1>2 DEF ReservePfndb
  <2> HIDE DEF e
  <2>6. /\ DOMAIN reserved' = 1..4 /\ reserved'[1] = reserved[1] /\ reserved'[2] = reserved[2]
        /\ reserved'[4] = reserved[4] /\ reserved'[3] = e
    BY <2>5 DEF ImagesInv
  <2> QED BY <2>1, <2>3, <2>4, <2>6, PointsApart DEF ImagesInv, e
<1>3. CASE BuildLists
  <2>1. /\ UNCHANGED <<machine, reserved, pfndb>> /\ pc = "fill" /\ mem'.held = mem.held
        /\ pc' \in {"fill", "paging", "stopped"}
        /\ \A f : IsOn(f, mem'.free) => IsOn(f, mem.free) \/ (f = pos /\ ~is_page_reserved(pos))
    BY <1>3, BuildListsStep
  <2>2. /\ Images' = Images /\ PfndbFrames' = PfndbFrames /\ PfndbPlaced' /\ Aligned'
        /\ pfndb_sz_bytes' = pfndb_sz_bytes /\ Kept(mem, Images, PfndbFrames)
    BY <2>1, SameImages, SameMachine DEF ImagesInv, ListsBegun
  <2>3. ~is_page_reserved(pos) => Ptr(pos) \notin Images \cup PfndbFrames
    <3>1. pos \in Nat
      BY <2>1, MemoryNumbers DEF ListsInv
    <3> QED BY <2>1, <3>1, NotReserved, NotNodes DEF ListsInv
  <2>4. Kept(mem', Images, PfndbFrames)
    BY <2>1, <2>2, <2>3 DEF Kept
  <2>5. pc' \notin Early /\ pc' # "copy" /\ pc' \notin {"search", "lists"}
    BY <2>1 DEF Early
  <2> QED BY <2>1, <2>2, <2>4, <2>5 DEF ImagesInv
<1>4. CASE SetupPaging \/ MapLow \/ MapSegment \/ MapStack \/ MapPfndb
  <2>1. pc \in Work
    BY <1>4 DEF SetupPaging, MapLow, MapSegment, MapStack, MapPfndb, Work
  <2>2. MemRecord(mem) /\ Listed(mem, n) /\ Kept(mem, Images, PfndbFrames)
    BY <1>0, <2>1, PointsApart DEF ListsInv, ImagesInv, ListsBegun
  <2>3. Grown(mem, mem') /\ pc' \in Work \cup Ends /\ UNCHANGED <<machine, reserved, pfndb>>
    BY <1>4, <2>2, MemoryStep DEF Ends
  <2>4. Kept(mem', Images, PfndbFrames)
    BY <2>2, <2>3, KeptGrown
  <2>5. ASSUME pc' = "copy" PROVE Ptr(mem'.page) \notin Images \cup PfndbFrames
    <3>1. MapSegment
      <4>1. CASE SetupPaging
        BY <2>5, <4>1 DEF SetupPaging, Go, Asserted
      <4>2. CASE MapLow
        <5>1. PICK next \in {"segment", "low"} : map_page(mem, pos, pos, next)
          BY <4>2 DEF MapLow
        <5> QED BY <2>5, <5>1, MapPageStages
      <4>3. CASE MapStack
        <5>1. PICK m : map_page(m, Last(m.rsrv), kernel_stack_limit, "pfndb")
          BY <4>3 DEF MapStack
        <5>2. PICK p, v : map_page(m, p, v, "pfndb")
          BY <5>1
        <5>3. pc' \in {"pfndb", "stopped"}
          BY <5>2, MapPageStages
        <5> QED BY <2>5, <5>3
      <4>4. CASE MapPfndb
        <5>1. PICK next \in {"shift", "pfndb"} : map_page(mem, pfndb + pos, kernel_pfndb_base + pos, next)
          BY <4>4 DEF MapPfndb
        <5> QED BY <2>5, <5>1, MapPageStages
      <4> QED BY <1>4, <4>1, <4>2, <4>3, <4>4
    <3>2. IsOn(mem'.page, mem.free)
      BY <2>2, <2>5, <3>1, MapSegmentCopies
    <3> QED BY <2>2, <3>2 DEF Kept
  <2> QED BY <2>1, <2>3, <2>4, <2>5, ImagesKept
<1>5. CASE CopyPage
  <2>1. /\ pc = "copy" /\ pc' = "pages" /\ UNCHANGED <<machine, reserved, pfndb>>
        /\ mem'.free = mem.free
        /\ mem'.held = [mem.held EXCEPT ![Ptr(mem.page)] = mem.held[Ptr(FilePage)]]
    BY <1>5, CopyPageStep DEF ListsInv
  <2>2. pc \in Work /\ pc' \in Work
    BY <2>1 DEF Work
  <2>3. Kept(mem, Images, PfndbFrames) /\ Ptr(mem.page) \notin Images \cup PfndbFrames
    BY <2>1, <2>2 DEF ImagesInv, ListsBegun
  <2>4. \A f \in 0..AddrFrames - 1 : f # Ptr(mem.page) => mem'.held[f] = mem.held[f]
    BY <2>1 DEF ListsInv, MemRecord
  <2>5. Kept(mem', Images, PfndbFrames)
    BY <2>1, <2>3, <2>4 DEF Kept
  <2> QED BY <2>1, <2>2, <2>5, ImagesKept
<1>6. CASE Quiet
  <2>1. /\ pc \in Work /\ pc' \in Work \cup Ends /\ pc' # "copy"
        /\ UNCHANGED <<machine, reserved, pfndb, mem>>
    BY <1>6 DEF Quiet, Ends
  <2>2. Kept(mem', Images, PfndbFrames)
    BY <2>1 DEF ImagesInv, ListsBegun
  <2> QED BY <2>1, <2>2, ImagesKept
<1>7. CASE UNCHANGED loaderVars
  <2>1. UNCHANGED <<machine, pc, reserved, pfndb, mem>>
    BY <1>7 DEF loaderVars
  <2>2. /\ Images' = Images /\ PfndbFrames' = PfndbFrames /\ PfndbPlaced' = PfndbPlaced /\ Aligned' = Aligned
        /\ pfndb_sz_bytes' = pfndb_sz_bytes /\ ListsBegun' = ListsBegun
    BY <2>1, SameImages, SameMachine DEF ListsBegun
  <2> QED BY <2>1, <2>2 DEF ImagesInv, Ptr
<1> QED BY <1>1, <1>2, <1>3, <1>4, <1>5, <1>6, <1>7, StepKinds

LEMMA ImagesInvariance == BootSpec /\ Aligned => []ImagesInv
<1>1. BootInit /\ Aligned => ImagesInv
  BY InitImagesInv
<1>2. ListsInv /\ ImagesInv /\ [BootNext]_bootVars => ImagesInv'
  BY NextImagesInv
<1> QED BY <1>1, <1>2, ListsInvariance, PTL DEF BootSpec

LEMMA ImagesIntactOf == ListsInv /\ ImagesInv => ImagesIntact
<1> SUFFICES ASSUME ListsInv, ImagesInv, ListsBuilt
             PROVE  /\ \A f \in ModuleFrames \cup LoaderFrames : mem.held[f] = f
                    /\ \A f \in PfndbFrames : mem.held[f] = Nodes
  BY DEF ImagesIntact
<1>1. ListsBegun
  BY DEF ListsBuilt, ListsInv, ListsBegun
<1> QED BY <1>1 DEF ImagesInv, Kept, Images

\* Nothing the loader allocates, clears or copies touches its own image, the
\* kernel's module or the page frame database, whatever the memory map, even
\* beyond 32 bits (mem.cc:36-47, 116-129, 148-159), if the images begin at a page.
THEOREM ImagesSafe == BootSpec /\ Aligned => []ImagesIntact
<1>1. ListsInv /\ ImagesInv => ImagesIntact
  BY ImagesIntactOf
<1> QED BY <1>1, ListsInvariance, ImagesInvariance, PTL

-----------------------------------------------------------------------------
(* The loader's page tables. *)

\* The tables t are a tree below r: lv gives the level of each table and vp what
\* the indices on the way to it come to.
TreeShape(t, r, lv, vp) ==
  /\ DOMAIN lv \subseteq 0..AddrFrames - 1
  /\ r \in DOMAIN lv /\ lv[r] = 0 /\ vp[r] = 0
  /\ \A f \in DOMAIN lv : lv[f] \in 0..3 /\ vp[f] \in Nat
  /\ t = [s \in DOMAIN t |-> t[s]]
  /\ \A s \in DOMAIN t : \E f \in DOMAIN lv, i \in 0..Self : s = <<f, i>>
  /\ <<r, Self>> \in DOMAIN t /\ t[<<r, Self>>].frame = r
  /\ \A f \in DOMAIN lv, i \in 0..Self :
       <<f, i>> \in DOMAIN t /\ ~(f = r /\ i = Self) /\ lv[f] < 3 =>
         /\ t[<<f, i>>].frame \in DOMAIN lv /\ lv[t[<<f, i>>].frame] = lv[f] + 1
         /\ vp[t[<<f, i>>].frame] = vp[f] * Entries + i

\* The tables of memory m are such a tree, in frames that are reserved and were
\* cleared for it.
Shape(m, r, lv, vp) ==
  /\ TreeShape(m.tab, r, lv, vp)
  /\ \A f \in DOMAIN lv : IsOn(f, m.rsrv) /\ m.held[f] = Zeroed

\* Frame f, to which page v leads, is neither free nor a table, unless it is one
\* of the identity map.
Apart(m, lv, v, f) == v \in 0..LowPages - 1 \/ (~IsOn(f, m.free) /\ f \notin DOMAIN lv)

\* The entries of the last level are for the pages in D, and name frames apart.
Leaves(m, lv, vp, D) ==
  \A f \in DOMAIN lv, i \in 0..Self :
    lv[f] = 3 /\ <<f, i>> \in DOMAIN m.tab =>
      /\ vp[f] * Entries + i \in D
      /\ Apart(m, lv, vp[f] * Entries + i, m.tab[<<f, i>>].frame)

\* From memory m to a, tables have been added in frames that were free, and no
\* entry at the last level.
Extended(m, lv, vp, a, lw, vq) ==
  /\ \A f \in DOMAIN lv : f \in DOMAIN lw /\ lw[f] = lv[f] /\ vq[f] = vp[f]
  /\ \A f \in DOMAIN lw : f \in DOMAIN lv \/ IsOn(f, m.free)
  /\ \A s \in DOMAIN m.tab : s \in DOMAIN a.tab /\ a.tab[s] = m.tab[s]
  /\ \A f \in DOMAIN lw, i \in 0..Self :
       lw[f] = 3 /\ <<f, i>> \in DOMAIN a.tab => f \in DOMAIN lv /\ <<f, i>> \in DOMAIN m.tab

LEMMA ExtendedSame ==
  ASSUME NEW m, NEW lv, NEW vp
  PROVE  Extended(m, lv, vp, m, lv, vp)
  BY DEF Extended

LEMMA ExtendedTwice ==
  ASSUME NEW m, NEW lv, NEW vp, NEW a, NEW lw, NEW vq, NEW b, NEW lx, NEW vr,
         Grown(m, a), Extended(m, lv, vp, a, lw, vq), Extended(a, lw, vq, b, lx, vr)
  PROVE  Extended(m, lv, vp, b, lx, vr)
  BY DEF Extended, Grown

\* New tables come from the free frames, so what is apart stays apart.
LEMMA ApartKept ==
  ASSUME NEW m, NEW lv, NEW a, NEW lw, Grown(m, a), NEW v, NEW f, Apart(m, lv, v, f),
         \A g \in DOMAIN lw : g \in DOMAIN lv \/ IsOn(g, m.free)
  PROVE  Apart(a, lw, v, f)
  BY DEF Apart, Grown

LEMMA ExtendedLeaves ==
  ASSUME NEW m, NEW lv, NEW vp, NEW a, NEW lw, NEW vq, NEW D,
         Grown(m, a), Extended(m, lv, vp, a, lw, vq), Leaves(m, lv, vp, D)
  PROVE  Leaves(a, lw, vq, D)
<1> SUFFICES ASSUME NEW f \in DOMAIN lw, NEW i \in 0..Self, lw[f] = 3, <<f, i>> \in DOMAIN a.tab
             PROVE  /\ vq[f] * Entries + i \in D
                    /\ Apart(a, lw, vq[f] * Entries + i, a.tab[<<f, i>>].frame)
  BY DEF Leaves
<1>1. f \in DOMAIN lv /\ <<f, i>> \in DOMAIN m.tab
  BY DEF Extended
<1>2. lw[f] = lv[f] /\ vq[f] = vp[f] /\ a.tab[<<f, i>>] = m.tab[<<f, i>>]
  BY <1>1 DEF Extended
<1>3. vp[f] * Entries + i \in D /\ Apart(m, lv, vp[f] * Entries + i, m.tab[<<f, i>>].frame)
  BY <1>1, <1>2 DEF Leaves
<1>4. \A g \in DOMAIN lw : g \in DOMAIN lv \/ IsOn(g, m.free)
  BY DEF Extended
<1>5. Apart(a, lw, vp[f] * Entries + i, m.tab[<<f, i>>].frame)
  BY <1>3, <1>4, ApartKept
<1> QED BY <1>2, <1>3, <1>5

LEMMA ShapeKept ==
  ASSUME NEW m, NEW a, NEW r, NEW lv, NEW vp, Shape(m, r, lv, vp), a.tab = m.tab,
         \A f \in DOMAIN lv : IsOn(f, a.rsrv) /\ a.held[f] = Zeroed
  PROVE  Shape(a, r, lv, vp)
  BY Zenon DEF Shape

\* The frame that an allocation takes is no table and has no entries.
LEMMA AllocShape ==
  ASSUME NEW m, MemRecord(m), NEW n \in Nat, Listed(m, n), n <= AddrFrames,
         NEW r, NEW lv, NEW vp, Shape(m, r, lv, vp), pmm_alloc_page(m).ok
  PROVE  LET a == pmm_alloc_page(m)
             f == Head(m.free)
         IN /\ f \in 0..AddrFrames - 1 /\ Ptr(f) = f /\ f \notin DOMAIN lv /\ a.tab = m.tab
            /\ IsOn(f, m.free) /\ IsOn(f, a.rsrv) /\ ~IsOn(f, a.free)
            /\ Last(a.rsrv) = f /\ a.held[f] = Zeroed /\ Shape(a, r, lv, vp)
<1> DEFINE a == pmm_alloc_page(m)
           f == Head(m.free)
<1>1. /\ m.free # <<>> /\ IsOn(f, m.free) /\ f \in 0..n - 1
      /\ MemRecord(a) /\ a.free = Tail(m.free) /\ a.rsrv = Append(m.rsrv, f)
      /\ a.held = [m.held EXCEPT ![Ptr(f)] = Zeroed]
      /\ a.tab = [slot \in {s \in DOMAIN m.tab : s[1] # Ptr(f)} |-> m.tab[slot]]
      /\ Last(a.rsrv) = f
  BY AllocTakes
<1>2. /\ m.free \in Seq(0..n - 1) /\ m.rsrv \in Seq(0..n - 1) /\ NoRepeats(m.free) /\ NoRepeats(m.rsrv)
      /\ \A g \in 0..n - 1 : IsOn(g, m.free) <=> ~IsOn(g, m.rsrv)
  BY DEF Listed
<1> HIDE DEF a
<1> DEFINE q == m.free
           R == m.rsrv
<1>3. ~IsOn(f, a.free)
  <2>1. q \in Seq(0..n - 1) /\ q # <<>> /\ NoRepeats(q) /\ a.free = Tail(q) /\ f = Head(q)
    BY <1>1, <1>2
  <2> HIDE DEF q, f
  <2> QED BY <2>1, TakeFirst
<1> HIDE DEF f
<1>4. \A g : IsOn(g, a.rsrv) <=> IsOn(g, R) \/ g = f
  <2>1. R \in Seq(0..n - 1) /\ a.rsrv = Append(R, f) /\ f \in 0..n - 1 /\ NoRepeats(R) /\ ~IsOn(f, R)
    BY <1>1, <1>2
  <2> HIDE DEF R
  <2> QED BY <2>1, AddLast
<1>5. f \in 0..AddrFrames - 1 /\ Ptr(f) = f
  <2>1. f \in 0..AddrFrames - 1
    BY <1>1, LoaderAssumption
  <2> QED BY <2>1, PtrRange
<1>6. f \notin DOMAIN lv
  BY <1>1, <1>2 DEF Shape, TreeShape
<1>7. a.tab = m.tab
  <2>1. \A s \in DOMAIN m.tab : s[1] # f
    BY <1>6 DEF Shape, TreeShape
  <2>2. {s \in DOMAIN m.tab : s[1] # f} = DOMAIN m.tab
    BY <2>1
  <2> DEFINE t == m.tab
             S == {s \in DOMAIN t : s[1] # f}
  <2>3. a.tab = [s \in S |-> t[s]]
    BY <1>1, <1>5
  <2>4. t = [s \in DOMAIN t |-> t[s]] /\ S = DOMAIN t
    BY <2>2 DEF Shape, TreeShape
  <2> HIDE DEF S, t
  <2> QED BY <2>3, <2>4 DEF t
<1>8. a.held[f] = Zeroed /\ \A g \in DOMAIN lv : a.held[g] = m.held[g]
  <2>1. DOMAIN m.held = 0..AddrFrames - 1 /\ DOMAIN lv \subseteq 0..AddrFrames - 1
    BY DEF MemRecord, Shape, TreeShape
  <2> DEFINE h == m.held
  <2>2. a.held = [h EXCEPT ![f] = Zeroed]
    BY <1>1, <1>5
  <2> HIDE DEF h
  <2> QED BY <1>5, <1>6, <2>1, <2>2 DEF h
<1>9. Shape(a, r, lv, vp)
  <2>1. \A g \in DOMAIN lv : IsOn(g, a.rsrv) /\ a.held[g] = Zeroed
    BY <1>4, <1>8 DEF Shape, TreeShape
  <2> QED BY <1>7, <2>1, ShapeKept
<1> QED BY <1>1, <1>3, <1>4, <1>5, <1>6, <1>7, <1>8, <1>9 DEF a, f

\* A new table is entered in one that is above the last level.
LEMMA EntryShape ==
  ASSUME NEW b, NEW r, NEW lv, NEW vp, Shape(b, r, lv, vp),
         NEW f \in DOMAIN lv, lv[f] < 3, NEW i \in 0..Self, ~(f = r /\ i = Self), <<f, i>> \notin DOMAIN b.tab,
         NEW g \in 0..AddrFrames - 1, g \notin DOMAIN lv, IsOn(g, b.rsrv), b.held[g] = Zeroed,
         NEW e, e.frame = g, NEW a, a.tab = Written(b.tab, f, i, e), a.rsrv = b.rsrv, a.held = b.held,
         NEW lw, NEW vq,
         DOMAIN lw = DOMAIN lv \cup {g}, lw[g] = lv[f] + 1, vq[g] = vp[f] * Entries + i,
         \A x \in DOMAIN lv : lw[x] = lv[x] /\ vq[x] = vp[x]
  PROVE  Shape(a, r, lw, vq)
<1> DEFINE t == b.tab
           u == a.tab
<1>1. /\ DOMAIN lv \subseteq 0..AddrFrames - 1
      /\ r \in DOMAIN lv /\ lv[r] = 0 /\ vp[r] = 0
      /\ \A x \in DOMAIN lv : lv[x] \in 0..3 /\ vp[x] \in Nat /\ IsOn(x, b.rsrv) /\ b.held[x] = Zeroed
  BY DEF Shape, TreeShape
<1>2. /\ \A s \in DOMAIN t : \E x \in DOMAIN lv, j \in 0..Self : s = <<x, j>>
      /\ <<r, Self>> \in DOMAIN t /\ t[<<r, Self>>].frame = r
      /\ \A x \in DOMAIN lv, j \in 0..Self :
           <<x, j>> \in DOMAIN t /\ ~(x = r /\ j = Self) /\ lv[x] < 3 =>
             /\ t[<<x, j>>].frame \in DOMAIN lv /\ lv[t[<<x, j>>].frame] = lv[x] + 1
             /\ vp[t[<<x, j>>].frame] = vp[x] * Entries + j
  BY Zenon DEF Shape, TreeShape
<1>3. /\ DOMAIN lw = DOMAIN lv \cup {g} /\ lw[g] = lv[f] + 1 /\ vq[g] = vp[f] * Entries + i
      /\ \A x \in DOMAIN lv : lw[x] = lv[x] /\ vq[x] = vp[x]
  OBVIOUS
<1>4. /\ DOMAIN u = DOMAIN t \cup {<<f, i>>} /\ u[<<f, i>>] = e
      /\ \A s \in DOMAIN t : s # <<f, i>> => u[s] = t[s]
  <2>1. u = Written(t, f, i, e)
    OBVIOUS
  <2> HIDE DEF t, u
  <2> QED BY <2>1 DEF Written
<1>5. u = [s \in DOMAIN u |-> u[s]]
  <2> HIDE DEF t
  <2>1. u = Written(t, f, i, e)
    BY DEF t
  <2> QED BY <2>1 DEF Written
<1>6. Entries \in Nat
  BY PagingAssumption
<1> HIDE DEF t, u
<1>7. /\ lw[g] \in 0..3 /\ vq[g] \in Nat
  BY <1>1, <1>3, <1>6 DEF Self
<1>8. \A x \in DOMAIN lw : lw[x] \in 0..3 /\ vq[x] \in Nat /\ IsOn(x, a.rsrv) /\ a.held[x] = Zeroed
  BY <1>1, <1>3, <1>7
<1>9. \A s \in DOMAIN u : \E x \in DOMAIN lw, j \in 0..Self : s = <<x, j>>
  BY <1>2, <1>3, <1>4
<1>10. <<r, Self>> \in DOMAIN u /\ u[<<r, Self>>].frame = r
  <2>1. <<r, Self>> # <<f, i>>
    BY <1>2 DEF t
  <2> QED BY <1>2, <1>4, <2>1
<1>11. ASSUME NEW x \in DOMAIN lw, NEW j \in 0..Self, <<x, j>> \in DOMAIN u, ~(x = r /\ j = Self), lw[x] < 3
       PROVE  /\ u[<<x, j>>].frame \in DOMAIN lw /\ lw[u[<<x, j>>].frame] = lw[x] + 1
              /\ vq[u[<<x, j>>].frame] = vq[x] * Entries + j
  <2>1. x \in DOMAIN lv
    BY <1>2, <1>3, <1>4, <1>11
  <2>2. CASE <<x, j>> = <<f, i>>
    <3>1. x = f /\ j = i
      BY <2>2
    <3>2. u[<<x, j>>].frame = g
      BY <1>4, <3>1
    <3> QED BY <1>3, <3>1, <3>2
  <2>3. CASE <<x, j>> # <<f, i>>
    <3>1. <<x, j>> \in DOMAIN t /\ u[<<x, j>>] = t[<<x, j>>]
      BY <1>4, <1>11, <2>3
    <3>2. lw[x] = lv[x] /\ vq[x] = vp[x]
      BY <1>3, <2>1
    <3>3. /\ t[<<x, j>>].frame \in DOMAIN lv /\ lv[t[<<x, j>>].frame] = lv[x] + 1
          /\ vp[t[<<x, j>>].frame] = vp[x] * Entries + j
      BY <1>2, <1>11, <2>1, <3>1, <3>2
    <3> QED BY <1>3, <3>1, <3>2, <3>3
  <2> QED BY <2>2, <2>3
<1>12. DOMAIN lw \subseteq 0..AddrFrames - 1 /\ r \in DOMAIN lw /\ lw[r] = 0 /\ vq[r] = 0
  BY <1>1, <1>3
<1>13. TreeShape(u, r, lw, vq)
  BY <1>5, <1>8, <1>9, <1>10, <1>11, <1>12 DEF TreeShape
<1> QED BY <1>8, <1>13 DEF Shape, u

LEMMA WithEntryShape ==
  ASSUME NEW m, MemRecord(m), NEW n \in Nat, Listed(m, n), n <= AddrFrames,
         NEW r, NEW lv, NEW vp, Shape(m, r, lv, vp),
         NEW f \in DOMAIN lv, lv[f] < 3, NEW i \in 0..Self, ~(f = r /\ i = Self), WithEntry(m, f, i).ok
  PROVE  LET a == WithEntry(m, f, i)
             g == Named(a.tab, f, i)
         IN /\ <<f, i>> \in DOMAIN a.tab
            /\ \E lw, vq : /\ Shape(a, r, lw, vq) /\ Extended(m, lv, vp, a, lw, vq)
                           /\ Ptr(g) = g /\ g \in DOMAIN lw /\ lw[g] = lv[f] + 1 /\ vq[g] = vp[f] * Entries + i
<1> DEFINE a == WithEntry(m, f, i)
           b == pmm_alloc_page(m)
           g == Named(a.tab, f, i)
<1>1. CASE <<f, i>> \in DOMAIN m.tab
  <2>1. a = m
    BY <1>1 DEF WithEntry
  <2>2. g = m.tab[<<f, i>>].frame
    BY <1>1, <2>1 DEF Named
  <2>3. g \in DOMAIN lv /\ lv[g] = lv[f] + 1 /\ vp[g] = vp[f] * Entries + i
    BY <1>1, <2>2 DEF Shape, TreeShape
  <2>4. Ptr(g) = g
    BY <2>3, PtrRange DEF Shape, TreeShape
  <2>5. Shape(a, r, lv, vp) /\ Extended(m, lv, vp, a, lv, vp) /\ <<f, i>> \in DOMAIN a.tab
    BY <1>1, <2>1, ExtendedSame
  <2> HIDE DEF a, g
  <2> QED BY <2>3, <2>4, <2>5 DEF a, g
<1>2. CASE <<f, i>> \notin DOMAIN m.tab
  <2> DEFINE p == Head(m.free)
             e == [frame |-> Last(b.rsrv), rights |-> {"writable"}]
             t == Written(b.tab, f, i, e)
             lw == [x \in DOMAIN lv \cup {p} |-> IF x = p THEN lv[f] + 1 ELSE lv[x]]
             vq == [x \in DOMAIN lv \cup {p} |-> IF x = p THEN vp[f] * Entries + i ELSE vp[x]]
  <2>1. b.ok
    BY <1>2 DEF WithEntry
  <2>2. a = [b EXCEPT !.tab = t]
    BY <1>2, <2>1 DEF WithEntry
  <2>3. MemRecord(b) /\ Listed(b, n)
    BY AllocPage
  <2>4. /\ p \in 0..AddrFrames - 1 /\ Ptr(p) = p /\ p \notin DOMAIN lv /\ b.tab = m.tab
        /\ IsOn(p, m.free) /\ IsOn(p, b.rsrv)
        /\ Last(b.rsrv) = p /\ b.held[p] = Zeroed /\ Shape(b, r, lv, vp)
    BY <2>1, AllocShape
  <2> HIDE DEF b, p
  <2>5. a.tab = t /\ a.held = b.held /\ a.rsrv = b.rsrv
    <3> HIDE DEF t, a
    <3> QED BY <2>2, <2>3, EntryGrows
  <2>6. e.frame = p
    BY <2>4
  <2> HIDE DEF a, e
  <2>7. <<f, i>> \notin DOMAIN b.tab /\ a.tab = Written(b.tab, f, i, e)
    BY <1>2, <2>4, <2>5
  <2>8. /\ DOMAIN lw = DOMAIN lv \cup {p} /\ lw[p] = lv[f] + 1 /\ vq[p] = vp[f] * Entries + i
        /\ \A x \in DOMAIN lv : lw[x] = lv[x] /\ vq[x] = vp[x]
    BY <2>4
  <2> HIDE DEF lw, vq
  <2>9. Shape(a, r, lw, vq)
    BY <2>4, <2>5, <2>6, <2>7, <2>8, EntryShape
  <2>10. /\ DOMAIN a.tab = DOMAIN m.tab \cup {<<f, i>>} /\ a.tab[<<f, i>>] = e
         /\ \A s \in DOMAIN m.tab : s # <<f, i>> => a.tab[s] = m.tab[s]
    <3> DEFINE u == m.tab
               w == a.tab
    <3>1. w = Written(u, f, i, e)
      BY <2>4, <2>7
    <3> HIDE DEF u, w
    <3>2. /\ DOMAIN w = DOMAIN u \cup {<<f, i>>} /\ w[<<f, i>>] = e
          /\ \A s \in DOMAIN u : s # <<f, i>> => w[s] = u[s]
      BY <3>1 DEF Written
    <3> QED BY <3>2 DEF u, w
  <2>11. g = p
    BY <2>6, <2>10 DEF Named
  <2>12. Extended(m, lv, vp, a, lw, vq)
    <3>1. \A x \in DOMAIN lv : x \in DOMAIN lw /\ lw[x] = lv[x] /\ vq[x] = vp[x]
      BY <2>8
    <3>2. \A x \in DOMAIN lw : x \in DOMAIN lv \/ IsOn(x, m.free)
      BY <2>4, <2>8
    <3>3. \A s \in DOMAIN m.tab : s \in DOMAIN a.tab /\ a.tab[s] = m.tab[s]
      BY <1>2, <2>10
    <3>4. ASSUME NEW x \in DOMAIN lw, NEW j \in 0..Self, lw[x] = 3, <<x, j>> \in DOMAIN a.tab
          PROVE  x \in DOMAIN lv /\ <<x, j>> \in DOMAIN m.tab
      <4>1. lw[f] = lv[f]
        BY <2>8
      <4>2. lv[f] \in 0..3
        BY DEF Shape, TreeShape
      <4>3. x # f
        BY <3>4, <4>1, <4>2
      <4>4. <<x, j>> \in DOMAIN m.tab
        BY <2>10, <3>4, <4>3
      <4>5. x \in DOMAIN lv
        BY <4>4 DEF Shape, TreeShape
      <4> QED BY <4>4, <4>5
    <3> QED BY <3>1, <3>2, <3>3, <3>4 DEF Extended
  <2>13. <<f, i>> \in DOMAIN a.tab
    BY <2>10
  <2> HIDE DEF g
  <2> QED BY <2>4, <2>8, <2>9, <2>11, <2>12, <2>13 DEF a, g
<1> QED BY <1>1, <1>2

Cube == Entries * Entries * Entries

LEMMA BelowSelf ==
  ASSUME NEW v \in Nat, v < Self * Cube
  PROVE  pml4e_index(v) # Self /\ v < Entries * Entries * Entries * Entries
<1> DEFINE E == Entries
           q == v \div Cube
<1>1. E \in Nat \ {0} /\ Cube \in Nat \ {0} /\ Self = E - 1 /\ Self \in Nat
  BY PagingAssumption DEF Cube, Self
<1>2. q \in Nat /\ v = q * Cube + (v % Cube) /\ v % Cube \in 0..Cube - 1
  BY <1>1, Divided
<1>3. pml4e_index(v) = q % E
  BY DEF pml4e_index, Cube
<1> HIDE DEF q
<1>4. q < Self
  <2> SUFFICES ASSUME Self <= q PROVE FALSE
    BY <1>1, <1>2
  <2>1. Self * Cube <= q * Cube
    BY <1>1, <1>2
  <2> QED BY <1>1, <1>2, <2>1
<1>5. q % E = q
  BY <1>1, <1>2, <1>4
<1>6. Self * Cube <= E * Cube
  BY <1>1
<1>7. E * Cube = E * E * E * E
  BY <1>1 DEF Cube
<1>8. v < E * Cube
  <2>1. Self * Cube \in Nat /\ E * Cube \in Nat
    BY <1>1
  <2> QED BY <1>6, <2>1
<1> QED BY <1>1, <1>2, <1>3, <1>4, <1>5, <1>7, <1>8

\* What the indices on the way to a page come to.
LEMMA WayTo ==
  ASSUME NEW v \in Nat, v < Self * Cube
  PROVE  LET i1 == pml4e_index(v)
             i2 == pdpte_index(v)
             i3 == pde_index(v)
             i4 == pte_index(v)
         IN /\ i1 \in 0..Self /\ i2 \in 0..Self /\ i3 \in 0..Self /\ i4 \in 0..Self /\ i1 # Self
            /\ (((0 * Entries + i1) * Entries + i2) * Entries + i3) * Entries + i4 = v
<1> DEFINE E == Entries
           i1 == pml4e_index(v)
           i2 == pdpte_index(v)
           i3 == pde_index(v)
           i4 == pte_index(v)
<1>1. v = virt_from_index(i1, i2, i3, i4) /\ i1 # Self
  BY BelowSelf, VirtOfIndices
<1>2. i1 \in 0..Self /\ i2 \in 0..Self /\ i3 \in 0..Self /\ i4 \in 0..Self
  BY Indices
<1>3. v = i4 + E * (i3 + E * (i2 + E * i1))
  BY <1>1 DEF virt_from_index
<1> HIDE DEF i1, i2, i3, i4
<1>4. E \in Nat /\ i1 \in Nat /\ i2 \in Nat /\ i3 \in Nat /\ i4 \in Nat
  BY <1>2, PagingAssumption DEF Self
<1>5. (((0 * E + i1) * E + i2) * E + i3) * E + i4 = i4 + E * (i3 + E * (i2 + E * i1))
  BY <1>4
<1> QED BY <1>1, <1>2, <1>3, <1>5 DEF i1, i2, i3, i4

\* map_page has come to the table pt of the last level, with memory a, and makes
\* its entry there unless there is one.
MapsAt(m, n, phys, virt, lv, vp, a, lw, vq, pdpt, pd, pt) ==
  /\ MemRecord(a) /\ Listed(a, n) /\ Grown(m, a)
  /\ Shape(a, pml4, lw, vq) /\ Extended(m, lv, vp, a, lw, vq)
  /\ pt \in DOMAIN lw /\ lw[pt] = 3 /\ vq[pt] * Entries + pte_index(virt) = virt
  /\ Named(a.tab, pml4, pml4e_index(virt)) = pdpt
  /\ Named(a.tab, pdpt, pdpte_index(virt)) = pd
  /\ Named(a.tab, pd, pde_index(virt)) = pt
  /\ mem' = IF <<pt, pte_index(virt)>> \in DOMAIN a.tab THEN a
            ELSE [a EXCEPT !.tab = Written(@, pt, pte_index(virt),
                                           [frame |-> phys, rights |-> {"writable"}])]

LEMMA MapPageWalk ==
  ASSUME NEW m, MemRecord(m), NEW n \in Nat, Listed(m, n), n <= AddrFrames,
         NEW lv, NEW vp, Shape(m, pml4, lv, vp),
         NEW phys, NEW virt \in Nat, virt < Self * Cube, NEW next, map_page(m, phys, virt, next), mem'.ok
  PROVE  \E a, lw, vq, pdpt, pd, pt : MapsAt(m, n, phys, virt, lv, vp, a, lw, vq, pdpt, pd, pt)
<1> DEFINE i1 == pml4e_index(virt)
           i2 == pdpte_index(virt)
           i3 == pde_index(virt)
           i4 == pte_index(virt)
           m1 == WithEntry(m, pml4, i1)
           pdpt == Named(m1.tab, pml4, i1)
           m2 == WithEntry(m1, Ptr(pdpt), i2)
           pd == Named(m2.tab, Ptr(pdpt), i2)
           m3 == WithEntry(m2, Ptr(pd), i3)
           pt == Named(m3.tab, Ptr(pd), i3)
           e == [frame |-> phys, rights |-> {"writable"}]
<1>1. mem' = IF ~m3.ok \/ <<Ptr(pt), i4>> \in DOMAIN m3.tab THEN m3
             ELSE [m3 EXCEPT !.tab = Written(@, Ptr(pt), i4, e)]
  BY MapPageStages
<1>2. /\ i1 \in 0..Self /\ i2 \in 0..Self /\ i3 \in 0..Self /\ i4 \in 0..Self /\ i1 # Self
      /\ (((0 * Entries + i1) * Entries + i2) * Entries + i3) * Entries + i4 = virt
  BY WayTo
<1> HIDE DEF i1, i2, i3, i4, e
<1>3. MemRecord(m1) /\ Listed(m1, n) /\ Grown(m, m1)
  BY WithEntryGrows
<1>4. MemRecord(m2) /\ Listed(m2, n) /\ Grown(m1, m2)
  <2> HIDE DEF m1, pdpt
  <2> QED BY <1>3, WithEntryGrows
<1>5. MemRecord(m3) /\ Listed(m3, n) /\ Grown(m2, m3)
  <2> HIDE DEF m2, pd
  <2> QED BY <1>4, WithEntryGrows
<1>6. m3.ok /\ m2.ok /\ m1.ok
  <2>1. ~m3.ok => mem' = m3
    BY <1>1
  <2> HIDE DEF m3
  <2>2. m3.ok
    BY <2>1
  <2> QED BY <1>4, <1>5, <2>2 DEF Grown, m3
<1> HIDE DEF m1, m2, m3, pdpt, pd, pt
<1>7. PICK l1, v1 :
         /\ <<pml4, i1>> \in DOMAIN m1.tab
         /\ Shape(m1, pml4, l1, v1) /\ Extended(m, lv, vp, m1, l1, v1)
         /\ Ptr(pdpt) = pdpt /\ pdpt \in DOMAIN l1 /\ l1[pdpt] = 0 + 1 /\ v1[pdpt] = 0 * Entries + i1
  <2>1. pml4 \in DOMAIN lv /\ lv[pml4] = 0 /\ vp[pml4] = 0 /\ lv[pml4] < 3 /\ ~(pml4 = pml4 /\ i1 = Self)
    BY <1>2 DEF Shape, TreeShape
  <2>2. /\ <<pml4, i1>> \in DOMAIN m1.tab
        /\ \E l1, v1 :
             /\ Shape(m1, pml4, l1, v1) /\ Extended(m, lv, vp, m1, l1, v1)
             /\ Ptr(pdpt) = pdpt /\ pdpt \in DOMAIN l1 /\ l1[pdpt] = lv[pml4] + 1
             /\ v1[pdpt] = vp[pml4] * Entries + i1
    <3>1. WithEntry(m, pml4, i1).ok
      BY <1>6 DEF m1
    <3> QED BY <1>2, <2>1, <3>1, WithEntryShape DEF m1, pdpt
  <2> QED BY <2>1, <2>2
<1>8. PICK l2, v2 :
         /\ <<pdpt, i2>> \in DOMAIN m2.tab
         /\ Shape(m2, pml4, l2, v2) /\ Extended(m1, l1, v1, m2, l2, v2)
         /\ Ptr(pd) = pd /\ pd \in DOMAIN l2 /\ l2[pd] = 2 /\ v2[pd] = (0 * Entries + i1) * Entries + i2
  <2>1. pdpt \in DOMAIN l1 /\ l1[pdpt] = 1 /\ l1[pdpt] < 3 /\ ~(pdpt = pml4 /\ i2 = Self)
    BY <1>7 DEF Shape, TreeShape
  <2>2. m2 = WithEntry(m1, pdpt, i2) /\ pd = Named(m2.tab, pdpt, i2)
    BY <1>7 DEF m2, pd
  <2>3. /\ <<pdpt, i2>> \in DOMAIN m2.tab
        /\ \E l2, v2 :
             /\ Shape(m2, pml4, l2, v2) /\ Extended(m1, l1, v1, m2, l2, v2)
             /\ Ptr(pd) = pd /\ pd \in DOMAIN l2 /\ l2[pd] = l1[pdpt] + 1
             /\ v2[pd] = v1[pdpt] * Entries + i2
    <3>1. WithEntry(m1, pdpt, i2).ok
      BY <1>6, <2>2
    <3> QED BY <1>2, <1>3, <1>7, <2>1, <2>2, <3>1, WithEntryShape
  <2> QED BY <1>7, <2>1, <2>3
<1>9. PICK l3, v3 :
         /\ <<pd, i3>> \in DOMAIN m3.tab
         /\ Shape(m3, pml4, l3, v3) /\ Extended(m2, l2, v2, m3, l3, v3)
         /\ Ptr(pt) = pt /\ pt \in DOMAIN l3 /\ l3[pt] = 3
         /\ v3[pt] = ((0 * Entries + i1) * Entries + i2) * Entries + i3
  <2>1. pd \in DOMAIN l2 /\ l2[pd] = 2 /\ l2[pd] < 3 /\ ~(pd = pml4 /\ i3 = Self)
    BY <1>8 DEF Shape, TreeShape
  <2>2. m3 = WithEntry(m2, pd, i3) /\ pt = Named(m3.tab, pd, i3)
    BY <1>8 DEF m3, pt
  <2>3. /\ <<pd, i3>> \in DOMAIN m3.tab
        /\ \E l3, v3 :
             /\ Shape(m3, pml4, l3, v3) /\ Extended(m2, l2, v2, m3, l3, v3)
             /\ Ptr(pt) = pt /\ pt \in DOMAIN l3 /\ l3[pt] = l2[pd] + 1
             /\ v3[pt] = v2[pd] * Entries + i3
    <3>1. WithEntry(m2, pd, i3).ok
      BY <1>6, <2>2
    <3> QED BY <1>2, <1>4, <1>8, <2>1, <2>2, <3>1, WithEntryShape
  <2> QED BY <1>8, <2>1, <2>3
<1>10. Grown(m, m2) /\ Grown(m, m3)
  BY <1>3, <1>4, <1>5, GrownTwice
<1>11. Extended(m, lv, vp, m3, l3, v3)
  <2>1. Extended(m, lv, vp, m2, l2, v2)
    BY <1>3, <1>7, <1>8, ExtendedTwice
  <2> QED BY <1>9, <1>10, <2>1, ExtendedTwice
<1>12. Named(m3.tab, pml4, i1) = pdpt
  <2>1. <<pml4, i1>> \in DOMAIN m2.tab /\ m2.tab[<<pml4, i1>>] = m1.tab[<<pml4, i1>>]
    BY <1>7, <1>8 DEF Extended
  <2>2. <<pml4, i1>> \in DOMAIN m3.tab /\ m3.tab[<<pml4, i1>>] = m1.tab[<<pml4, i1>>]
    BY <1>9, <2>1 DEF Extended
  <2> QED BY <1>7, <2>2 DEF Named, pdpt
<1>13. Named(m3.tab, pdpt, i2) = pd
  <2>1. <<pdpt, i2>> \in DOMAIN m3.tab /\ m3.tab[<<pdpt, i2>>] = m2.tab[<<pdpt, i2>>]
    BY <1>8, <1>9 DEF Extended
  <2>2. pd = Named(m2.tab, pdpt, i2)
    BY <1>7 DEF pd
  <2> QED BY <1>8, <2>1, <2>2 DEF Named
<1>14. Named(m3.tab, pd, i3) = pt
  BY <1>8 DEF pt
<1>15. v3[pt] * Entries + i4 = virt
  BY <1>2, <1>9
<1>16. mem' = IF <<pt, i4>> \in DOMAIN m3.tab THEN m3
              ELSE [m3 EXCEPT !.tab = Written(@, pt, i4, e)]
  BY <1>1, <1>6, <1>9
<1>17. /\ MemRecord(m3) /\ Listed(m3, n) /\ Grown(m, m3)
       /\ Shape(m3, pml4, l3, v3) /\ Extended(m, lv, vp, m3, l3, v3)
       /\ pt \in DOMAIN l3 /\ l3[pt] = 3 /\ v3[pt] * Entries + i4 = virt
       /\ Named(m3.tab, pml4, i1) = pdpt /\ Named(m3.tab, pdpt, i2) = pd /\ Named(m3.tab, pd, i3) = pt
  BY <1>5, <1>9, <1>10, <1>11, <1>12, <1>13, <1>14, <1>15
<1>18. MapsAt(m, n, phys, virt, lv, vp, m3, l3, v3, pdpt, pd, pt)
  BY <1>16, <1>17 DEF MapsAt, i1, i2, i3, i4, e
<1> QED BY <1>18

\* An entry at the last level is one more mapping.
LEMMA LeafShape ==
  ASSUME NEW b, NEW r, NEW lv, NEW vp, Shape(b, r, lv, vp), NEW D, Leaves(b, lv, vp, D),
         NEW f \in DOMAIN lv, lv[f] = 3, NEW i \in 0..Self, <<f, i>> \notin DOMAIN b.tab,
         NEW e, Apart(b, lv, vp[f] * Entries + i, e.frame),
         NEW a, a.tab = Written(b.tab, f, i, e), a.free = b.free, a.rsrv = b.rsrv, a.held = b.held
  PROVE  Shape(a, r, lv, vp) /\ Leaves(a, lv, vp, D \cup {vp[f] * Entries + i})
<1> DEFINE t == b.tab
           u == a.tab
<1>1. TreeShape(t, r, lv, vp) /\ \A x \in DOMAIN lv : IsOn(x, b.rsrv) /\ b.held[x] = Zeroed
  BY DEF Shape
<1>2. u = Written(t, f, i, e) /\ <<f, i>> \notin DOMAIN t
  OBVIOUS
<1>3. \A x \in DOMAIN lv, j \in 0..Self :
        lv[x] = 3 /\ <<x, j>> \in DOMAIN t =>
          /\ vp[x] * Entries + j \in D
          /\ Apart(b, lv, vp[x] * Entries + j, t[<<x, j>>].frame)
  BY DEF Leaves
<1> HIDE DEF t, u
<1>4. /\ DOMAIN u = DOMAIN t \cup {<<f, i>>} /\ u[<<f, i>>] = e
      /\ \A s \in DOMAIN t : s # <<f, i>> => u[s] = t[s]
      /\ u = [s \in DOMAIN u |-> u[s]]
  BY <1>2 DEF Written
<1>5. r # f
  BY <1>1 DEF TreeShape
<1>6. TreeShape(u, r, lv, vp)
  <2>1. /\ DOMAIN lv \subseteq 0..AddrFrames - 1
        /\ r \in DOMAIN lv /\ lv[r] = 0 /\ vp[r] = 0
        /\ \A x \in DOMAIN lv : lv[x] \in 0..3 /\ vp[x] \in Nat
    BY <1>1 DEF TreeShape
  <2>2. \A s \in DOMAIN u : \E x \in DOMAIN lv, j \in 0..Self : s = <<x, j>>
    BY <1>1, <1>4 DEF TreeShape
  <2>3. <<r, Self>> \in DOMAIN u /\ u[<<r, Self>>].frame = r
    BY <1>1, <1>4, <1>5 DEF TreeShape
  <2>4. ASSUME NEW x \in DOMAIN lv, NEW j \in 0..Self,
               <<x, j>> \in DOMAIN u, ~(x = r /\ j = Self), lv[x] < 3
        PROVE  /\ u[<<x, j>>].frame \in DOMAIN lv /\ lv[u[<<x, j>>].frame] = lv[x] + 1
               /\ vp[u[<<x, j>>].frame] = vp[x] * Entries + j
    <3>1. x # f
      BY <2>4
    <3>2. <<x, j>> \in DOMAIN t /\ u[<<x, j>>] = t[<<x, j>>]
      BY <1>4, <2>4, <3>1
    <3> QED BY <1>1, <2>4, <3>2 DEF TreeShape
  <2> QED BY <1>4, <2>1, <2>2, <2>3, <2>4 DEF TreeShape
<1>7. Shape(a, r, lv, vp)
  BY <1>1, <1>6 DEF Shape, u
<1> DEFINE G == D \cup {vp[f] * Entries + i}
<1>8. ASSUME NEW x \in DOMAIN lv, NEW j \in 0..Self, lv[x] = 3, <<x, j>> \in DOMAIN u
      PROVE  /\ vp[x] * Entries + j \in G
             /\ Apart(b, lv, vp[x] * Entries + j, u[<<x, j>>].frame)
  <2>1. CASE x = f /\ j = i
    BY <1>4, <2>1
  <2>2. CASE ~(x = f /\ j = i)
    <3>1. <<x, j>> \in DOMAIN t /\ u[<<x, j>>] = t[<<x, j>>]
      BY <1>4, <1>8, <2>2
    <3> QED BY <1>3, <1>8, <3>1
  <2> QED BY <2>1, <2>2
<1> HIDE DEF G
<1>9. Leaves(a, lv, vp, G)
  <2>1. \A v, g : Apart(b, lv, v, g) => Apart(a, lv, v, g)
    BY DEF Apart
  <2> QED BY <1>8, <2>1 DEF Leaves, u
<1> QED BY <1>7, <1>9 DEF G

\* A page that map_page maps: the tables are a tree again, with this page too.
LEMMA MapPageShape ==
  ASSUME NEW m, MemRecord(m), NEW n \in Nat, Listed(m, n), n <= AddrFrames,
         NEW lv, NEW vp, Shape(m, pml4, lv, vp), NEW D, Leaves(m, lv, vp, D),
         NEW phys, NEW virt \in Nat, Apart(m, lv, virt, phys), virt < Self * Cube, NEW next, map_page(m, phys, virt, next), mem'.ok
  PROVE  \E lw, vq : /\ Shape(mem', pml4, lw, vq) /\ Leaves(mem', lw, vq, D \cup {virt})
                     /\ \A f \in DOMAIN lw : f \in DOMAIN lv \/ IsOn(f, m.free)
<1> DEFINE i4 == pte_index(virt)
           e == [frame |-> phys, rights |-> {"writable"}]
<1>0. PICK a, lw, vq, pdpt, pd, pt : MapsAt(m, n, phys, virt, lv, vp, a, lw, vq, pdpt, pd, pt)
  BY MapPageWalk
<1>1. /\ MemRecord(a) /\ Listed(a, n) /\ Grown(m, a)
      /\ Shape(a, pml4, lw, vq) /\ Extended(m, lv, vp, a, lw, vq)
      /\ pt \in DOMAIN lw /\ lw[pt] = 3 /\ vq[pt] * Entries + i4 = virt
      /\ mem' = IF <<pt, i4>> \in DOMAIN a.tab THEN a
                ELSE [a EXCEPT !.tab = Written(@, pt, i4, e)]
  BY <1>0 DEF MapsAt
<1>2. e.frame = phys
  OBVIOUS
<1>3. i4 \in 0..Self
  BY WayTo
<1> HIDE DEF i4, e
<1>4. Leaves(a, lw, vq, D)
  BY <1>1, ExtendedLeaves
<1>5. \A f \in DOMAIN lw : f \in DOMAIN lv \/ IsOn(f, m.free)
  BY <1>1 DEF Extended
<1>6. CASE <<pt, i4>> \in DOMAIN a.tab
  <2>1. mem' = a
    BY <1>1, <1>6
  <2>2. Leaves(a, lw, vq, D \cup {virt})
    BY <1>4 DEF Leaves
  <2> QED BY <1>1, <1>5, <2>1, <2>2
<1>7. CASE <<pt, i4>> \notin DOMAIN a.tab
  <2> DEFINE t == Written(a.tab, pt, i4, e)
  <2>1. mem' = [a EXCEPT !.tab = t]
    BY <1>1, <1>7
  <2> HIDE DEF t
  <2>2. mem'.tab = t /\ mem'.free = a.free /\ mem'.rsrv = a.rsrv /\ mem'.held = a.held
    <3>1. a = [free |-> a.free, rsrv |-> a.rsrv, tab |-> a.tab, held |-> a.held, page |-> a.page, ok |-> a.ok]
      BY <1>1 DEF MemRecord
    <3> QED BY <2>1, <3>1
  <2>3. Apart(a, lw, vq[pt] * Entries + i4, e.frame)
    BY <1>1, <1>2, <1>5, ApartKept
  <2>4. Shape(mem', pml4, lw, vq) /\ Leaves(mem', lw, vq, D \cup {vq[pt] * Entries + i4})
    BY <1>1, <1>3, <1>4, <1>7, <2>2, <2>3, LeafShape DEF t
  <2> QED BY <1>1, <1>5, <2>4
<1> QED BY <1>6, <1>7

\* A walk that ends at a frame only looks at entries that are present.
LEMMA WalkKept ==
  ASSUME NEW t, NEW r, NEW lv, NEW vp, TreeShape(t, r, lv, vp),
         NEW u, \A s \in DOMAIN t : s \in DOMAIN u /\ u[s] = t[s],
         NEW v, Translate(t, r, v) # NoFrame
  PROVE  Translate(u, r, v) = Translate(t, r, v)
<1> DEFINE pdpt == Named(t, r, pml4e_index(v))
           pd == Named(t, pdpt, pdpte_index(v))
           pt == Named(t, pd, pde_index(v))
<1>1. Translate(t, r, v) = Named(t, pt, pte_index(v))
  BY DEF Translate, Slots
<1>2. \A i : <<NoFrame, i>> \notin DOMAIN t
  BY DEF TreeShape, NoFrame
<1>3. \A f, i : Named(t, f, i) # NoFrame => f # NoFrame /\ Named(u, f, i) = Named(t, f, i)
  BY <1>2 DEF Named
<1> HIDE DEF pdpt, pd, pt
<1>4. Named(u, pt, pte_index(v)) = Translate(t, r, v) /\ pt # NoFrame
  BY <1>1, <1>3
<1>5. Named(u, pd, pde_index(v)) = pt /\ pd # NoFrame
  BY <1>3, <1>4 DEF pt
<1>6. Named(u, pdpt, pdpte_index(v)) = pd /\ pdpt # NoFrame
  BY <1>3, <1>5 DEF pd
<1>7. Named(u, r, pml4e_index(v)) = pdpt
  BY <1>3, <1>6 DEF pdpt
<1> QED BY <1>4, <1>5, <1>6, <1>7 DEF Translate, Slots

\* The page leads where it should, if it is new, and all others where they did.
LEMMA MapPageTranslates ==
  ASSUME NEW m, MemRecord(m), NEW n \in Nat, Listed(m, n), n <= AddrFrames,
         NEW lv, NEW vp, Shape(m, pml4, lv, vp), NEW D, Leaves(m, lv, vp, D),
         NEW phys, NEW virt \in Nat, virt < Self * Cube, NEW next, map_page(m, phys, virt, next), mem'.ok
  PROVE  /\ virt \notin D => Translate(mem'.tab, pml4, virt) = phys
         /\ \A v : Translate(m.tab, pml4, v) # NoFrame =>
              Translate(mem'.tab, pml4, v) = Translate(m.tab, pml4, v)
<1> DEFINE i4 == pte_index(virt)
           e == [frame |-> phys, rights |-> {"writable"}]
<1>0. PICK a, lw, vq, pdpt, pd, pt : MapsAt(m, n, phys, virt, lv, vp, a, lw, vq, pdpt, pd, pt)
  BY MapPageWalk
<1>1. /\ MemRecord(a) /\ Listed(a, n) /\ Grown(m, a)
      /\ Shape(a, pml4, lw, vq) /\ Extended(m, lv, vp, a, lw, vq)
      /\ pt \in DOMAIN lw /\ lw[pt] = 3 /\ vq[pt] * Entries + i4 = virt
      /\ Named(a.tab, pml4, pml4e_index(virt)) = pdpt
      /\ Named(a.tab, pdpt, pdpte_index(virt)) = pd
      /\ Named(a.tab, pd, pde_index(virt)) = pt
      /\ mem' = IF <<pt, i4>> \in DOMAIN a.tab THEN a
                ELSE [a EXCEPT !.tab = Written(@, pt, i4, e)]
  BY <1>0 DEF MapsAt
<1>2. e.frame = phys
  OBVIOUS
<1>3. i4 \in 0..Self
  BY WayTo
<1>4. Translate(a.tab, pml4, virt) = Named(a.tab, pt, i4)
  BY <1>1 DEF Translate, Slots
<1> HIDE DEF i4, e
<1> DEFINE t == m.tab
           u == a.tab
           w == mem'.tab
<1>5. TreeShape(t, pml4, lv, vp) /\ \A s \in DOMAIN t : s \in DOMAIN u /\ u[s] = t[s]
  BY <1>1 DEF Shape, Extended
<1>6. \A s \in DOMAIN u : s \in DOMAIN w /\ w[s] = u[s]
  <2>1. CASE <<pt, i4>> \in DOMAIN u
    BY <1>1, <2>1
  <2>2. CASE <<pt, i4>> \notin DOMAIN u
    <3>1. w = Written(u, pt, i4, e)
      BY <1>1, <2>2, EntryGrows
    <3> HIDE DEF u, w
    <3> QED BY <2>2, <3>1 DEF Written
  <2> QED BY <2>1, <2>2
<1>7. \A v : Translate(t, pml4, v) # NoFrame => Translate(w, pml4, v) = Translate(t, pml4, v)
  <2>1. \A s \in DOMAIN t : s \in DOMAIN w /\ w[s] = t[s]
    BY <1>5, <1>6
  <2> HIDE DEF t, u, w
  <2> QED BY <1>5, <2>1, WalkKept
<1>8. ASSUME virt \notin D PROVE Translate(w, pml4, virt) = phys
  <2>1. <<pt, i4>> \notin DOMAIN u
    <3>1. Leaves(a, lw, vq, D)
      BY <1>1, ExtendedLeaves
    <3> QED BY <1>1, <1>3, <1>8, <3>1 DEF Leaves
  <2>2. w = Written(u, pt, i4, e)
    BY <1>1, <2>1, EntryGrows
  <2>3. w[<<pt, i4>>] = e /\ <<pt, i4>> \in DOMAIN w
    <3> HIDE DEF u, w
    <3> QED BY <2>2 DEF Written
  <2>4. Named(w, pt, i4) = phys
    BY <1>2, <2>3 DEF Named
  <2>5. TreeShape(u, pml4, lw, vq)
    BY <1>1 DEF Shape
  <2>6. pt # NoFrame /\ \A i : <<NoFrame, i>> \notin DOMAIN u
    BY <1>1, <2>5 DEF TreeShape, NoFrame
  <2>7. /\ Named(u, pml4, pml4e_index(virt)) = pdpt
        /\ Named(u, pdpt, pdpte_index(virt)) = pd
        /\ Named(u, pd, pde_index(virt)) = pt
    BY <1>1
  <2> HIDE DEF t, u, w
  <2>8. \A f, i : Named(u, f, i) # NoFrame => f # NoFrame /\ Named(w, f, i) = Named(u, f, i)
    BY <1>6, <2>6 DEF Named
  <2>9. pd # NoFrame /\ Named(w, pd, pde_index(virt)) = pt
    BY <2>6, <2>7, <2>8
  <2>10. pdpt # NoFrame /\ Named(w, pdpt, pdpte_index(virt)) = pd
    BY <2>7, <2>8, <2>9
  <2>11. Named(w, pml4, pml4e_index(virt)) = pdpt
    BY <2>7, <2>8, <2>10
  <2> QED BY <2>4, <2>9, <2>10, <2>11 DEF Translate, Slots, i4
<1> QED BY <1>7, <1>8

-----------------------------------------------------------------------------
(* The loops of the loader. *)

Late == {"pfndb", "shift", "jump"} \cup
        {"kernel", "init", "idt", "platform", "enable", "break", "isr", "exception", "halted"}
Mapping == {"low", "segment", "load", "pages", "copy", "stack"} \cup Late

\* A segment that has passed the asserts.
InKernel(k) ==
  /\ machine.segs[k].vaddr >= kernel_base
  /\ machine.segs[k].vaddr * PageSize + machine.segs[k].memsz < kernel_limit * PageSize

LoopInv ==
  /\ seg \in Nat \ {0}
  /\ pc \in Early \cup {"fill", "paging"} => pml4 = 0 /\ seg = 1 /\ DOMAIN mem.tab = {}
  /\ pc \in Mapping => mem.ok
  /\ pc = "low" => pos \in 0..LowPages - 1
  /\ pc \in {"segment", "load", "stack"} => pos = 0
  /\ pc \in {"pages", "copy"} => seg \in DOMAIN machine.segs /\ Segment.load /\ pos \in Nat
  /\ pc = "copy" => pos < SegmentPages
  /\ pc = "pfndb" => pos \in 0..pfndb_sz_pgs - 1
  /\ pc \in Late \cup {"stack"} => seg > Len(machine.segs)
  /\ pc \in Mapping => \A k \in DOMAIN machine.segs :
       machine.segs[k].load /\ (k < seg \/ (k = seg /\ pc \in {"pages", "copy"})) => InKernel(k)
  /\ pc \in {"fill", "paging"} \cup (Mapping \ Late) \cup {"pfndb", "shift"} => base = pfndb * PageSize
  /\ pc \in Late \ {"pfndb", "shift"} => base = pfndb * PageSize + (kernel_pfndb_base - pfndb) * PageSize

LEMMA AddressNumbers ==
  /\ Cube \in Nat \ {0} /\ Self * Cube \in Nat
  /\ kernel_base \in Nat /\ kernel_limit \in Nat /\ kernel_pfndb_base \in Nat
  /\ LowPages <= kernel_base /\ kernel_base < kernel_limit /\ kernel_limit <= kernel_pfndb_base
  /\ kernel_pfndb_base + AddrFrames < Self * Cube
  /\ LowPages \in Nat /\ AddrFrames \in Nat \ {0}
<1> DEFINE E == Entries
           K == KernelIdx
<1>1. /\ E \in Nat \ {0, 1} /\ K \in Nat \ {0} /\ LowPages \in Nat \ {0} /\ AddrFrames \in Nat \ {0}
      /\ LowPages <= E /\ AddrFrames <= Cube /\ K + 3 < Self /\ Self \in Nat
  BY PagingAssumption, LoaderAssumption DEF Self, Cube
<1>2. Cube \in Nat \ {0} /\ E <= Cube
  <2>1. E * E \in Nat /\ E <= E * E
    BY <1>1
  <2>2. E * E * E \in Nat /\ E * E <= (E * E) * E
    BY <1>1, <2>1
  <2> QED BY <1>1, <2>1, <2>2 DEF Cube
<1>3. /\ kernel_base = K * Cube /\ kernel_limit = (K + 1) * Cube
      /\ kernel_pfndb_base = (K + 2) * Cube
  BY <1>1 DEF kernel_base, kernel_limit, kernel_pfndb_base, virt_from_index, Cube
<1> HIDE DEF K, E
<1>4. /\ K * Cube \in Nat /\ (K + 1) * Cube = K * Cube + Cube /\ (K + 2) * Cube = K * Cube + Cube + Cube
      /\ (K + 3) * Cube = K * Cube + Cube + Cube + Cube
  BY <1>1, <1>2
<1>5. Cube <= K * Cube
  BY <1>1, <1>2
<1>6. (K + 4) * Cube <= Self * Cube /\ Self * Cube \in Nat
  BY <1>1, <1>2
<1>7. (K + 4) * Cube = (K + 3) * Cube + Cube
  BY <1>1, <1>2
<1> QED BY <1>1, <1>2, <1>3, <1>4, <1>5, <1>6, <1>7

LEMMA SegmentTyped ==
  ASSUME machine \in Machines, NEW k \in DOMAIN machine.segs
  PROVE  /\ machine.segs[k].vaddr \in Nat /\ machine.segs[k].offset \in Nat
         /\ machine.segs[k].filesz \in Nat /\ machine.segs[k].memsz \in Nat
         /\ UpFrame(machine.segs[k].memsz) \in Nat /\ UpFrame(machine.segs[k].filesz) \in Nat
         /\ k \in 1..Len(machine.segs) /\ Len(machine.segs) \in Nat
<1> DEFINE R == [load : BOOLEAN, aligned : BOOLEAN, vaddr : Nat, offset : Nat, filesz : Nat, memsz : Nat]
           s == machine.segs
<1>1. s \in Seq(R) /\ k \in DOMAIN s
  BY MachinesAssumption
<1>2. \A x \in R : x.vaddr \in Nat /\ x.offset \in Nat /\ x.filesz \in Nat /\ x.memsz \in Nat
  OBVIOUS
<1> HIDE DEF R, s
<1>3. s[k] \in R /\ k \in 1..Len(s) /\ Len(s) \in Nat
  BY <1>1
<1>4. \A b \in Nat : UpFrame(b) \in Nat
  <2> SUFFICES ASSUME NEW b \in Nat PROVE UpFrame(b) \in Nat
    OBVIOUS
  <2>1. PageSize \in Nat \ {0} /\ b + PageSize - 1 \in Nat
    BY LoaderAssumption
  <2> QED BY <2>1, Divided DEF UpFrame
<1> QED BY <1>2, <1>3, <1>4 DEF s

\* The pages of a segment lie between the kernel's base and its limit.
LEMMA SegmentInKernel ==
  ASSUME machine \in Machines, NEW k \in DOMAIN machine.segs, InKernel(k),
         NEW i \in Nat, i < UpFrame(machine.segs[k].memsz)
  PROVE  /\ machine.segs[k].vaddr + i \in Nat
         /\ kernel_base <= machine.segs[k].vaddr + i /\ machine.segs[k].vaddr + i < kernel_limit
<1> DEFINE n == PageSize
<1>1. PICK v \in Nat, b \in Nat : v = machine.segs[k].vaddr /\ b = machine.segs[k].memsz
  BY SegmentTyped
<1>2. n \in Nat \ {0} /\ kernel_base \in Nat /\ kernel_limit \in Nat
  BY LoaderAssumption, AddressNumbers
<1>3. v >= kernel_base /\ v * n + b < kernel_limit * n
  BY <1>1 DEF InKernel
<1>4. i * n < b
  BY <1>1, BelowUp
<1>5. v * n \in Nat /\ i * n \in Nat /\ kernel_limit * n \in Nat /\ (v + i) * n = v * n + i * n
  BY <1>2
<1>6. (v + i) * n < kernel_limit * n
  BY <1>3, <1>4, <1>5
<1>7. v + i < kernel_limit
  <2> SUFFICES ASSUME kernel_limit <= v + i PROVE FALSE
    BY <1>2
  <2>1. kernel_limit * n <= (v + i) * n
    BY <1>2
  <2> QED BY <1>5, <1>6, <2>1
<1> QED BY <1>1, <1>2, <1>3, <1>7

\* The steps from the loaded kernel on.
KernelStep ==
  /\ pc \in Late /\ pc # "pfndb" /\ pc # "shift" /\ pc' \in (Late \ {"pfndb", "shift"}) \cup Ends
  /\ UNCHANGED <<machine, pos, seg, reserved, pfndb, base, pml4, mem>>

LEMMA QuietKinds ==
  ASSUME [BootNext]_bootVars
  PROVE  \/ FindModule \/ FindMmap \/ EarlyAlloc \/ ReservePfndb \/ BuildLists
         \/ SetupPaging \/ MapLow \/ MapSegment \/ CopyPage \/ MapStack \/ MapPfndb
         \/ LoadElf \/ NextSegment \/ SegmentDone \/ Shift \/ KernelStep
         \/ UNCHANGED loaderVars
<1>1. CASE UNCHANGED bootVars
  BY <1>1 DEF bootVars
<1>2. CASE RunLoader
  <2>1. LoaderNext
    BY <1>2 DEF RunLoader
  <2>2. CASE EnterLongmode
    BY <2>2 DEF EnterLongmode, KernelStep, Late, Ends
  <2> QED BY <2>1, <2>2 DEF LoaderNext
<1>3. CASE CheckPfndb
  BY <1>3 DEF CheckPfndb, Asserted, KernelStep, Late, Ends
<1>4. CASE ArchInit \/ InitIdt \/ PlatformInit \/ EnableInterrupts
  BY <1>4 DEF ArchInit, InitIdt, PlatformInit, EnableInterrupts, KernelStep, Late, Ends
<1>5. CASE Breakpoint \/ IsrHandler \/ ExceptionHandler
  BY <1>5 DEF Breakpoint, IsrHandler, ExceptionHandler, KernelStep, Late, Ends
<1>6. CASE Rest
  BY <1>6 DEF Rest, bootVars
<1> QED BY <1>1, <1>2, <1>3, <1>4, <1>5, <1>6 DEF BootNext

LEMMA SameSegments ==
  ASSUME UNCHANGED machine
  PROVE  \A k : InKernel(k)' = InKernel(k)
  BY DEF InKernel, kernel_base, kernel_limit, virt_from_index

\* The points of the loader, one by one.
LEMMA MappingPoints ==
  /\ Mapping \subseteq Work /\ "paging" \notin Mapping /\ Late \subseteq Mapping
  /\ Mapping \cap Ends = {} /\ Mapping \cap Early = {} /\ "fill" \notin Mapping
  /\ "low" \notin Late /\ "segment" \notin Late /\ "load" \notin Late /\ "pages" \notin Late
  /\ "copy" \notin Late /\ "stack" \notin Late /\ Late \cap Ends = {} /\ Late \cap Early = {}
  /\ "fill" \notin Late /\ "paging" \notin Late
  /\ {"low", "segment", "load", "pages", "copy", "stack", "pfndb", "shift", "jump", "kernel"} \subseteq Mapping
  /\ {"pfndb", "shift", "jump", "kernel"} \subseteq Late
  /\ Work = Mapping \cup {"paging"}
  BY DEF Mapping, Late, Work, Ends, Early

LEMMA InitLoopInv == BootInit => LoopInv
<1> SUFFICES ASSUME BootInit PROVE LoopInv
  OBVIOUS
<1>1. pc = "module" /\ seg = 1 /\ pml4 = 0
  BY DEF BootInit, LoaderInit
<1>2. DOMAIN mem.tab = {}
  <2>1. mem.tab = <<>>
    BY DEF BootInit, LoaderInit
  <2> QED BY <2>1
<1> QED BY <1>1, <1>2 DEF LoopInv, Mapping, Late

\* Where a step that maps ends.
LEMMA MapPageEnds ==
  ASSUME NEW m, NEW phys, NEW virt, NEW next, map_page(m, phys, virt, next)
  PROVE  pc' = (IF mem'.ok THEN next ELSE "stopped")
  BY MapPageStages

LEMMA NextLoopInv == ListsInv /\ LoopInv /\ [BootNext]_bootVars => LoopInv'
<1> SUFFICES ASSUME ListsInv, LoopInv, [BootNext]_bootVars PROVE LoopInv'
  OBVIOUS
<1>0. machine \in Machines /\ seg \in Nat \ {0}
  BY DEF ListsInv, LoopInv
<1>1. CASE FindModule \/ FindMmap \/ EarlyAlloc
  <2>1. pc \in Early /\ pc' \in Early \cup Ends /\ UNCHANGED <<machine, mem>>
    BY <1>1, SearchKinds DEF Searches, Early
  <2>2. UNCHANGED <<seg, pml4>>
    BY <1>1 DEF FindModule, FindMmap, EarlyAlloc
  <2>3. pc' \notin Mapping /\ pc' \notin Late \cup {"fill", "paging"}
        /\ pc' \notin {"low", "segment", "load", "stack", "pages", "copy", "pfndb", "shift"}
    BY <2>1, MappingPoints, PointsApart DEF Mapping, Late, Early, Ends
  <2> QED BY <2>1, <2>2, <2>3 DEF LoopInv
<1>2. CASE ReservePfndb
  <2>1. /\ pc = "lists" /\ pc' = "fill" /\ UNCHANGED <<machine, seg, pml4, pfndb>> /\ mem'.tab = mem.tab
        /\ base' = pfndb * PageSize
    BY <1>2, ReservePfndbStep DEF ReservePfndb
  <2>2. pml4 = 0 /\ seg = 1 /\ DOMAIN mem.tab = {}
    BY <2>1 DEF LoopInv, Early
  <2> QED BY <1>0, <2>1, <2>2, MappingPoints DEF LoopInv
<1>3. CASE BuildLists
  <2>1. /\ UNCHANGED <<machine, pfndb, pml4>> /\ pc = "fill" /\ mem'.tab = mem.tab
        /\ pc' \in {"fill", "paging", "stopped"}
    BY <1>3, BuildListsStep
  <2>2. UNCHANGED <<seg, base>>
    BY <1>3 DEF BuildLists
  <2>3. pml4 = 0 /\ seg = 1 /\ DOMAIN mem.tab = {} /\ base = pfndb * PageSize
    BY <2>1 DEF LoopInv
  <2>4. pc' \notin Mapping /\ pc' \notin Late
    BY <2>1 DEF Mapping, Late
  <2> QED BY <1>0, <2>1, <2>2, <2>3, <2>4 DEF LoopInv
<1>4. CASE SetupPaging
  <2>1. /\ pc = "paging" /\ pos' = 0 /\ UNCHANGED <<machine, seg, pfndb, base>>
        /\ pc' = IF mem'.ok THEN "low" ELSE "stopped"
    BY <1>4 DEF SetupPaging, Go, Asserted
  <2>2. base = pfndb * PageSize /\ LowPages \in Nat \ {0} /\ seg = 1
    BY <2>1, LoaderAssumption DEF LoopInv
  <2>3. \A k \in DOMAIN machine.segs : ~(k < seg)
    BY <1>0, <2>2, SegmentTyped
  <2>4. CASE mem'.ok
    <3>1. pc' = "low" /\ pos' \in 0..LowPages - 1
      BY <2>1, <2>2, <2>4
    <3> QED BY <1>0, <2>1, <2>2, <2>3, <2>4, <3>1, MappingPoints, PointsApart DEF LoopInv, Early
  <2>5. CASE ~mem'.ok
    <3>1. pc' = "stopped"
      BY <2>1, <2>5
    <3> QED BY <1>0, <2>1, <3>1 DEF LoopInv, Early, Mapping, Late
  <2> QED BY <2>4, <2>5
<1> DEFINE Passed == \A k \in DOMAIN machine.segs :
             machine.segs[k].load /\ (k < seg \/ (k = seg /\ pc \in {"pages", "copy"})) => InKernel(k)
<1>5. ASSUME pc' = "stopped" \/ pc' = "lost", seg' = seg PROVE LoopInv'
  BY <1>0, <1>5 DEF LoopInv, Early, Mapping, Late
<1>6. CASE MapLow
  <2>1. /\ pc = "low" /\ UNCHANGED <<machine, seg, pfndb, base, pml4>>
        /\ pos' = IF pos + 1 = LowPages THEN 0 ELSE pos + 1
    BY <1>6 DEF MapLow
  <2>2. pc' = IF mem'.ok THEN IF pos + 1 = LowPages THEN "segment" ELSE "low" ELSE "stopped"
    BY <1>6, MapPageEnds DEF MapLow
  <2>3. base = pfndb * PageSize /\ pos \in 0..LowPages - 1 /\ Passed
    BY <2>1, MappingPoints DEF LoopInv
  <2>4. CASE mem'.ok
    <3>1. (pc' = "segment" /\ pos' = 0) \/ (pc' = "low" /\ pos' \in 0..LowPages - 1)
      BY <2>1, <2>2, <2>3, <2>4, AddressNumbers
    <3>2. \A k \in DOMAIN machine.segs : machine.segs[k].load /\ k < seg => InKernel(k)'
      BY <2>1, <2>3, SameSegments
    <3> QED BY <1>0, <2>1, <2>3, <2>4, <3>1, <3>2, MappingPoints DEF LoopInv, Early
  <2>5. CASE ~mem'.ok
    BY <1>5, <2>1, <2>2, <2>5
  <2> QED BY <2>4, <2>5
<1>7. CASE LoadElf
  <2>1. /\ pc = "segment" /\ pc' \in {"load", "stopped", "lost"}
        /\ UNCHANGED <<machine, pos, seg, pfndb, base, pml4, mem>>
    BY <1>7 DEF LoadElf
  <2>2. base = pfndb * PageSize /\ pos = 0 /\ mem.ok /\ Passed
    BY <2>1, MappingPoints DEF LoopInv
  <2>3. \A k \in DOMAIN machine.segs : machine.segs[k].load /\ k < seg => InKernel(k)'
    BY <2>1, <2>2, SameSegments
  <2>4. CASE pc' = "load"
    BY <1>0, <2>1, <2>2, <2>3, <2>4, MappingPoints DEF LoopInv, Early
  <2> QED BY <1>5, <2>1, <2>4
<1>8. CASE NextSegment
  <2>1. pc = "load" /\ UNCHANGED <<machine, pos, pfndb, base, pml4, mem>>
    BY <1>8 DEF NextSegment
  <2>2. base = pfndb * PageSize /\ pos = 0 /\ mem.ok /\ Passed
    BY <2>1, MappingPoints DEF LoopInv
  <2>3. Len(machine.segs) \in Nat /\ DOMAIN machine.segs = 1..Len(machine.segs)
    BY <1>0, MachinesAssumption
  <2>4. \A k \in DOMAIN machine.segs : machine.segs[k].load /\ k < seg => InKernel(k)'
    BY <2>1, <2>2, SameSegments
  <2>5. CASE seg > Len(machine.segs)
    <3>1. pc' = "stack" /\ seg' = seg
      BY <1>8, <2>5 DEF NextSegment
    <3> QED BY <1>0, <2>1, <2>2, <2>4, <2>5, <3>1, MappingPoints DEF LoopInv, Early
  <2>6. CASE ~(seg > Len(machine.segs)) /\ ~Segment.load
    <3>1. pc' = "load" /\ seg' = seg + 1
      BY <1>8, <2>1, <2>6 DEF NextSegment
    <3>2. \A k \in DOMAIN machine.segs : machine.segs[k].load /\ k < seg + 1 => InKernel(k)'
      <4> SUFFICES ASSUME NEW k \in DOMAIN machine.segs, machine.segs[k].load, k < seg + 1
                   PROVE  InKernel(k)'
        OBVIOUS
      <4>1. k # seg
        BY <2>6 DEF Segment
      <4>2. k < seg
        BY <1>0, <2>3, <4>1
      <4> QED BY <2>4, <4>2
    <3> QED BY <1>0, <2>1, <2>2, <3>1, <3>2, MappingPoints DEF LoopInv, Early
  <2>7. CASE ~(seg > Len(machine.segs)) /\ Segment.load
    <3>1. /\ seg' = seg
          /\ pc' = IF /\ Segment.aligned /\ Segment.vaddr >= kernel_base
                     /\ Segment.vaddr * PageSize + Segment.memsz < kernel_limit * PageSize
                  THEN "pages" ELSE "stopped"
      BY <1>8, <2>7 DEF NextSegment, Asserted
    <3>2. CASE pc' = "pages"
      <4>1. InKernel(seg) /\ seg \in DOMAIN machine.segs
        BY <1>0, <2>3, <2>7, <3>1, <3>2 DEF InKernel, Segment
      <4>2. InKernel(seg)'
        BY <2>1, <3>1, <4>1 DEF InKernel, kernel_base, kernel_limit, virt_from_index
      <4>3. \A k \in DOMAIN machine.segs : machine.segs[k].load /\ (k < seg \/ k = seg) => InKernel(k)'
        BY <2>1, <2>4, <4>1, SameSegments
      <4>4. Segment'.load
        BY <2>1, <2>7, <3>1 DEF Segment
      <4> QED BY <1>0, <2>1, <2>2, <3>1, <3>2, <4>1, <4>3, <4>4, MappingPoints DEF LoopInv, Early
    <3> QED BY <1>5, <3>1, <3>2
  <2> QED BY <2>5, <2>6, <2>7
<1>9. CASE MapSegment
  <2>1. pc = "pages" /\ pos < SegmentPages /\ UNCHANGED <<machine, seg, pfndb, base, pml4>>
    BY <1>9 DEF MapSegment
  <2>2. /\ base = pfndb * PageSize /\ pos \in Nat /\ Passed
        /\ seg \in DOMAIN machine.segs /\ Segment.load
    BY <2>1, MappingPoints DEF LoopInv
  <2>3. pc' = "stopped" \/ (mem'.ok /\ ((pc' = "pages" /\ pos' = pos + 1) \/ (pc' = "copy" /\ pos' = pos)))
    <3>1. CASE Segment.filesz = Segment.memsz
      BY <1>9, <3>1, MapPageEnds DEF MapSegment
    <3>2. CASE Segment.filesz # Segment.memsz
      <4>1. PICK m, p, v : map_page(m, p, v, "copy")
        BY <1>9, <3>2 DEF MapSegment
      <4>2. pos' = pos
        BY <1>9, <3>2 DEF MapSegment
      <4> QED BY <4>1, <4>2, MapPageEnds
    <3> QED BY <3>1, <3>2
  <2>4. CASE pc' # "stopped"
    <3>1. \A k \in DOMAIN machine.segs : machine.segs[k].load /\ (k < seg \/ k = seg) => InKernel(k)'
      BY <2>1, <2>2, SameSegments
    <3>2. Segment' = Segment /\ SegmentPages' = SegmentPages
      BY <2>1 DEF Segment, SegmentPages, UpFrame
    <3> QED BY <1>0, <2>1, <2>2, <2>3, <2>4, <3>1, <3>2, MappingPoints DEF LoopInv, Early
  <2> QED BY <1>5, <2>1, <2>4
<1>10. CASE CopyPage
  <2>1. /\ pc = "copy" /\ pc' = "pages" /\ pos' = pos + 1
        /\ UNCHANGED <<machine, seg, pfndb, base, pml4>> /\ mem'.ok = mem.ok
    BY <1>10, CopyPageStep DEF CopyPage, ListsInv
  <2>2. /\ base = pfndb * PageSize /\ pos \in Nat /\ Passed /\ mem.ok
        /\ seg \in DOMAIN machine.segs /\ Segment.load
    BY <2>1, MappingPoints DEF LoopInv
  <2>3. \A k \in DOMAIN machine.segs : machine.segs[k].load /\ (k < seg \/ k = seg) => InKernel(k)'
    BY <2>1, <2>2, SameSegments
  <2>4. Segment' = Segment
    BY <2>1 DEF Segment
  <2> QED BY <1>0, <2>1, <2>2, <2>3, <2>4, MappingPoints DEF LoopInv, Early
<1>11. CASE SegmentDone
  <2>1. /\ pc = "pages" /\ pc' = "load" /\ seg' = seg + 1 /\ pos' = 0
        /\ UNCHANGED <<machine, pfndb, base, pml4, mem>>
    BY <1>11 DEF SegmentDone
  <2>2. base = pfndb * PageSize /\ Passed /\ mem.ok
    BY <2>1, MappingPoints DEF LoopInv
  <2>3. \A k \in DOMAIN machine.segs : machine.segs[k].load /\ k < seg + 1 => InKernel(k)'
    <3> SUFFICES ASSUME NEW k \in DOMAIN machine.segs, machine.segs[k].load, k < seg + 1
                 PROVE  InKernel(k)'
      OBVIOUS
    <3>1. k < seg \/ k = seg
      BY <1>0, SegmentTyped
    <3> QED BY <2>1, <2>2, <3>1, SameSegments
  <2> QED BY <1>0, <2>1, <2>2, <2>3, MappingPoints DEF LoopInv, Early
<1>12. CASE MapStack
  <2>1. pc = "stack" /\ UNCHANGED <<machine, pos, seg, pfndb, base, pml4, reserved>>
    BY <1>12 DEF MapStack
  <2>2. pc' = IF mem'.ok THEN "pfndb" ELSE "stopped"
    <3>1. PICK m, p, v : map_page(m, p, v, "pfndb")
      BY <1>12 DEF MapStack
    <3> QED BY <3>1, MapPageEnds
  <2>3. base = pfndb * PageSize /\ Passed /\ pos = 0 /\ seg > Len(machine.segs) /\ mem.ok
    BY <2>1, MappingPoints DEF LoopInv
  <2>4. CASE mem'.ok
    <3>1. 0 < pfndb_sz_pgs
      <4>1. PICK n \in Nat : n = total_phys_pgs
        BY <1>0, MemoryNumbers
      <4>2. MemRecord(mem) /\ Listed(mem, n)
        BY <2>1, <4>1 DEF ListsInv, ListsBegun, Work
      <4>3. n # 0
        <5>1. pmm_alloc_page(mem).ok
          <6> DEFINE a == pmm_alloc_page(mem)
          <6>1. map_page(a, Last(a.rsrv), kernel_stack_limit, "pfndb")
            BY <1>12 DEF MapStack
          <6>2. MemRecord(a) /\ Listed(a, n)
            BY <4>2, AllocPage
          <6> HIDE DEF a
          <6>3. Grown(a, mem')
            BY <6>1, <6>2, MapPageGrows
          <6> QED BY <2>4, <6>3 DEF Grown, a
        <5>2. Head(mem.free) \in 0..n - 1
          BY <4>2, <5>1, AllocTakes
        <5> QED BY <5>2
      <4>4. pfndb_sz_bytes = n * SizeofPage
        BY <4>1 DEF pfndb_sz_bytes
      <4>5. n * SizeofPage \in Nat /\ 0 * PageSize < n * SizeofPage
        BY <4>3, LoaderAssumption
      <4> QED BY <4>4, <4>5, BelowUp DEF pfndb_sz_pgs
    <3>2. pfndb_sz_pgs' = pfndb_sz_pgs /\ pfndb_sz_pgs \in Nat
      BY <1>0, <2>1, SameMachine, MemoryNumbers
    <3>3. \A k \in DOMAIN machine.segs : machine.segs[k].load /\ k < seg => InKernel(k)'
      BY <2>1, <2>3, SameSegments
    <3> QED BY <1>0, <2>1, <2>2, <2>3, <2>4, <3>1, <3>2, <3>3, MappingPoints DEF LoopInv, Early
  <2> QED BY <1>5, <2>1, <2>2, <2>4
<1>13. CASE MapPfndb
  <2>1. pc = "pfndb" /\ pos' = pos + 1 /\ UNCHANGED <<machine, seg, pfndb, base, pml4>>
    BY <1>13 DEF MapPfndb
  <2>2. pc' = IF mem'.ok THEN IF pos + 1 = pfndb_sz_pgs THEN "shift" ELSE "pfndb" ELSE "stopped"
    BY <1>13, MapPageEnds DEF MapPfndb
  <2>3. base = pfndb * PageSize /\ Passed /\ pos \in 0..pfndb_sz_pgs - 1 /\ seg > Len(machine.segs)
    BY <2>1, MappingPoints DEF LoopInv
  <2>4. pfndb_sz_pgs' = pfndb_sz_pgs /\ pfndb_sz_pgs \in Nat
    BY <1>0, <2>1, SameMachine, MemoryNumbers
  <2>5. \A k \in DOMAIN machine.segs : machine.segs[k].load /\ k < seg => InKernel(k)'
    BY <2>1, <2>3, SameSegments
  <2>6. CASE mem'.ok
    <3>1. pc' = "shift" \/ (pc' = "pfndb" /\ pos' \in 0..pfndb_sz_pgs - 1)
      BY <2>1, <2>2, <2>3, <2>4, <2>6
    <3> QED BY <1>0, <2>1, <2>3, <2>4, <2>5, <2>6, <3>1, MappingPoints DEF LoopInv, Early
  <2> QED BY <1>5, <2>1, <2>2, <2>6
<1>14. CASE Shift
  <2>1. /\ pc = "shift" /\ pc' = "jump" /\ base' = base + (kernel_pfndb_base - pfndb) * PageSize
        /\ UNCHANGED <<machine, pos, seg, pfndb, pml4, mem>>
    BY <1>14 DEF Shift
  <2>2. base = pfndb * PageSize /\ Passed /\ seg > Len(machine.segs) /\ mem.ok
    BY <2>1, MappingPoints DEF LoopInv
  <2>3. \A k \in DOMAIN machine.segs : machine.segs[k].load /\ k < seg => InKernel(k)'
    BY <2>1, <2>2, SameSegments
  <2>4. kernel_pfndb_base' = kernel_pfndb_base
    BY DEF kernel_pfndb_base, virt_from_index
  <2> QED BY <1>0, <2>1, <2>2, <2>3, <2>4, MappingPoints DEF LoopInv, Early
<1>15. CASE KernelStep
  <2>1. /\ pc \in Late \ {"pfndb", "shift"} /\ pc' \in (Late \ {"pfndb", "shift"}) \cup Ends
        /\ UNCHANGED <<machine, pos, seg, pfndb, base, pml4, mem>>
    BY <1>15 DEF KernelStep
  <2>2. /\ base = pfndb * PageSize + (kernel_pfndb_base - pfndb) * PageSize
        /\ Passed /\ seg > Len(machine.segs) /\ mem.ok
    BY <2>1, MappingPoints DEF LoopInv
  <2>3. \A k \in DOMAIN machine.segs : machine.segs[k].load /\ k < seg => InKernel(k)'
    BY <2>1, <2>2, SameSegments
  <2>4. kernel_pfndb_base' = kernel_pfndb_base
    BY DEF kernel_pfndb_base, virt_from_index
  <2>5. CASE pc' \in Late \ {"pfndb", "shift"}
    <3>1. pc' \notin Early \cup {"fill", "paging", "low", "segment", "load", "stack", "pages", "copy", "pfndb", "shift"}
      BY <2>5, MappingPoints
    <3> QED BY <1>0, <2>1, <2>2, <2>3, <2>4, <2>5, <3>1, MappingPoints DEF LoopInv
  <2> QED BY <1>5, <2>1, <2>5 DEF Ends
<1>16. CASE UNCHANGED loaderVars
  <2>1. UNCHANGED <<machine, pc, pos, seg, pfndb, base, pml4, mem>>
    BY <1>16 DEF loaderVars
  <2>2. kernel_pfndb_base' = kernel_pfndb_base /\ Segment' = Segment /\ SegmentPages' = SegmentPages
    BY <2>1 DEF kernel_pfndb_base, virt_from_index, Segment, SegmentPages, UpFrame
  <2> QED BY <2>1, <2>2, SameMachine, SameSegments DEF LoopInv
<1> QED BY <1>1, <1>2, <1>3, <1>4, <1>6, <1>7, <1>8, <1>9, <1>10, <1>11, <1>12, <1>13, <1>14, <1>15, <1>16,
           QuietKinds

LEMMA LoopInvariance == BootSpec => []LoopInv
  BY InitLoopInv, NextLoopInv, ListsInvariance, PTL DEF BootSpec

-----------------------------------------------------------------------------
(* The tables stay private. *)

\* Memory has no frame that a 32-bit address does not reach.
Fits == total_phys_pgs <= AddrFrames

FileFrame(k, i) == DownFrame(machine.mod.begin) + machine.segs[k].offset + i

\* What the file has of its segments lies in the module.
SegmentsInModule ==
  \A k \in DOMAIN machine.segs :
    machine.segs[k].load => \A i \in 0..UpFrame(machine.segs[k].filesz) - 1 : FileFrame(k, i) \in ModuleFrames

\* The loop has mapped page i of segment k.
SegmentMapped(k, i) ==
  /\ machine.segs[k].load /\ i < UpFrame(machine.segs[k].memsz)
  /\ k < seg \/ (k = seg /\ ((pc = "pages" /\ i < pos) \/ (pc = "copy" /\ i <= pos)))

\* The pages the loader has mapped.
Done ==
  {v \in Nat : \/ v < LowPages /\ (pc = "low" => v < pos)
               \/ \E k \in DOMAIN machine.segs, i \in Nat : SegmentMapped(k, i) /\ v = machine.segs[k].vaddr + i
               \/ pc \in Late /\ v = kernel_stack_limit
               \/ pc \in Late /\ \E i \in 0..pfndb_sz_pgs - 1 : (pc = "pfndb" => i < pos) /\ v = kernel_pfndb_base + i}

\* There are tables, and no allocation has failed.
Tabled == pc \in Mapping \/ (pc \in Ends /\ pml4 # 0 /\ mem.ok)

TablesInv ==
  /\ Fits /\ SegmentsInModule
  /\ Tabled => \E lv, vp :
       /\ Shape(mem, pml4, lv, vp) /\ Leaves(mem, lv, vp, IF pc \in Mapping THEN Done ELSE Nat)
       /\ pc = "copy" => mem.page \notin DOMAIN lv /\ Ptr(mem.page) = mem.page /\ mem.page \in 0..AddrFrames - 1

LEMMA LeavesMore ==
  ASSUME NEW m, NEW lv, NEW vp, NEW D, NEW G, Leaves(m, lv, vp, D), D \subseteq G
  PROVE  Leaves(m, lv, vp, G)
  BY DEF Leaves

LEMMA SameModule ==
  ASSUME UNCHANGED machine
  PROVE  /\ Fits' = Fits /\ SegmentsInModule' = SegmentsInModule
         /\ \A k, i : FileFrame(k, i)' = FileFrame(k, i)
         /\ kernel_pfndb_base' = kernel_pfndb_base /\ kernel_stack_limit' = kernel_stack_limit
<1>1. total_phys_pgs' = total_phys_pgs /\ ModuleFrames' = ModuleFrames
  BY SameMachine
<1>2. \A k, i : FileFrame(k, i)' = FileFrame(k, i)
  BY DEF FileFrame, DownFrame
<1>3. kernel_pfndb_base' = kernel_pfndb_base /\ kernel_stack_limit' = kernel_stack_limit
  BY DEF kernel_pfndb_base, kernel_stack_limit, kernel_limit, virt_from_index
<1>4. SegmentsInModule' = SegmentsInModule
  BY <1>1, <1>2 DEF SegmentsInModule, UpFrame
<1> QED BY <1>1, <1>2, <1>3, <1>4 DEF Fits

\* A step that maps no page.
LEMMA DoneGrows ==
  ASSUME LoopInv, ListsInv, pc \in Mapping, pc' \in Mapping, UNCHANGED machine,
         \/ UNCHANGED <<pos, seg>> /\ pc = "segment" /\ pc' = "load"
         \/ NextSegment \/ SegmentDone \/ CopyPage \/ Shift \/ KernelStep
  PROVE  Done \subseteq Done'
<1>1. /\ kernel_pfndb_base' = kernel_pfndb_base /\ kernel_stack_limit' = kernel_stack_limit
      /\ pfndb_sz_pgs' = pfndb_sz_pgs /\ seg \in Nat
  BY SameModule, SameMachine DEF LoopInv
<1>2. /\ pc' # "low" /\ (pc' \in Late => pc' # "pfndb") /\ (pc \in Late => pc' \in Late)
      /\ (pc = "shift" \/ pc \in Late => pc # "pfndb")
  BY MappingPoints DEF NextSegment, SegmentDone, CopyPage, Shift, KernelStep, Asserted, Late, Ends
<1>3. ASSUME NEW k \in DOMAIN machine.segs, NEW i \in Nat, SegmentMapped(k, i) PROVE SegmentMapped(k, i)'
  <2>1. k \in Nat /\ UpFrame(machine.segs[k].memsz) \in Nat
    BY SegmentTyped DEF ListsInv
  <2>2. machine.segs[k].load' = machine.segs[k].load /\ UpFrame(machine.segs[k].memsz)' = UpFrame(machine.segs[k].memsz)
    BY DEF UpFrame
  <2>3. CASE k < seg
    <3>1. seg' = seg \/ seg' = seg + 1
      BY DEF NextSegment, SegmentDone, CopyPage, Shift, KernelStep
    <3>2. k < seg'
      BY <1>1, <2>1, <2>3, <3>1
    <3> QED BY <1>3, <2>2, <3>2 DEF SegmentMapped
  <2>4. CASE k = seg /\ pc = "pages" /\ i < pos
    <3>1. seg' = seg + 1
      BY <2>4, MappingPoints DEF NextSegment, SegmentDone, CopyPage, Shift, KernelStep
    <3> QED BY <1>1, <1>3, <2>2, <2>4, <3>1 DEF SegmentMapped
  <2>5. CASE k = seg /\ pc = "copy" /\ i <= pos
    <3>1. pc' = "pages" /\ pos' = pos + 1 /\ seg' = seg
      BY <2>5, MappingPoints DEF NextSegment, SegmentDone, CopyPage, Shift, KernelStep
    <3>2. i < pos + 1
      BY <2>5 DEF LoopInv
    <3> QED BY <1>3, <2>2, <2>5, <3>1, <3>2 DEF SegmentMapped
  <2> QED BY <1>3, <2>3, <2>4, <2>5 DEF SegmentMapped
<1> SUFFICES ASSUME NEW v \in Done PROVE v \in Done'
  OBVIOUS
<1>4. v \in Nat
  BY DEF Done
<1>5. CASE v < LowPages
  BY <1>2, <1>4, <1>5 DEF Done
<1>6. CASE \E k \in DOMAIN machine.segs, i \in Nat : SegmentMapped(k, i) /\ v = machine.segs[k].vaddr + i
  BY <1>3, <1>4, <1>6 DEF Done
<1>7. CASE pc \in Late /\ v = kernel_stack_limit
  BY <1>1, <1>2, <1>4, <1>7 DEF Done
<1>8. CASE pc \in Late /\ \E i \in 0..pfndb_sz_pgs - 1 : (pc = "pfndb" => i < pos) /\ v = kernel_pfndb_base + i
  BY <1>1, <1>2, <1>4, <1>8 DEF Done
<1> QED BY <1>5, <1>6, <1>7, <1>8 DEF Done

\* A step that maps a page.
MapsOne(virt) ==
  \/ /\ MapLow /\ virt = pos
  \/ /\ MapSegment /\ virt = machine.segs[seg].vaddr + pos
  \/ /\ MapStack /\ virt = kernel_stack_limit
  \/ /\ MapPfndb /\ virt = kernel_pfndb_base + pos

\* Where the loop over the pages of a segment goes on.
LEMMA MapSegmentGoes ==
  ASSUME LoopInv, MapSegment, pc' \in Mapping
  PROVE  /\ pc = "pages" /\ pos \in Nat /\ seg \in DOMAIN machine.segs /\ machine.segs[seg].load
         /\ pos < UpFrame(machine.segs[seg].memsz)
         /\ \/ machine.segs[seg].filesz = machine.segs[seg].memsz /\ pc' = "pages" /\ pos' = pos + 1
            \/ pc' = "copy" /\ pos' = pos
<1>1. pc = "pages" /\ pos < SegmentPages
  BY DEF MapSegment
<1>2. pos \in Nat /\ seg \in DOMAIN machine.segs /\ machine.segs[seg].load
  BY <1>1 DEF LoopInv, Segment
<1>3. pc' # "stopped"
  BY DEF Mapping, Late
<1>4. CASE Segment.filesz = Segment.memsz
  <2>1. map_page(mem, FilePage, Segment.vaddr + pos, "pages") /\ pos' = pos + 1
    BY <1>4 DEF MapSegment
  <2> QED BY <1>1, <1>2, <1>3, <1>4, <2>1, MapPageEnds DEF SegmentPages, Segment
<1>5. CASE Segment.filesz # Segment.memsz
  <2>1. PICK m, p, v : map_page(m, p, v, "copy")
    BY <1>5 DEF MapSegment
  <2>2. pos' = pos
    BY <1>5 DEF MapSegment
  <2> QED BY <1>1, <1>2, <1>3, <2>1, <2>2, MapPageEnds DEF SegmentPages, Segment
<1> QED BY <1>4, <1>5

\* The loop over the pages of the PFNDB.
LEMMA MapPfndbGoes ==
  ASSUME LoopInv, MapPfndb, pc' \in Mapping
  PROVE  /\ pc = "pfndb" /\ pos \in 0..pfndb_sz_pgs - 1 /\ pos' = pos + 1
         /\ pc' = IF pos + 1 = pfndb_sz_pgs THEN "shift" ELSE "pfndb"
<1>1. pc' # "stopped"
  BY DEF Mapping, Late
<1>2. map_page(mem, pfndb + pos, kernel_pfndb_base + pos, IF pos + 1 = pfndb_sz_pgs THEN "shift" ELSE "pfndb")
  BY DEF MapPfndb
<1> QED BY <1>1, <1>2, MapPageEnds DEF MapPfndb, LoopInv

LEMMA FreeFrames ==
  ASSUME NEW n \in Nat, n <= AddrFrames, NEW m, Listed(m, n), NEW p, IsOn(p, m.free)
  PROVE  p \in 0..AddrFrames - 1 /\ Ptr(p) = p
<1> DEFINE q == m.free
<1>1. q \in Seq(0..n - 1) /\ IsOn(p, q)
  BY DEF Listed
<1> HIDE DEF q
<1>2. p \in 0..n - 1
  BY <1>1 DEF IsOn
<1> QED BY <1>2, PtrRange, LoaderAssumption

LEMMA DoneAdds ==
  ASSUME LoopInv, ListsInv, NEW virt, MapsOne(virt), pc' \in Mapping
  PROVE  Done \cup {virt} \subseteq Done' /\ virt \in Nat
<1>0. UNCHANGED machine /\ machine \in Machines
  BY DEF MapsOne, MapLow, MapSegment, MapStack, MapPfndb, ListsInv
<1>1. /\ kernel_pfndb_base' = kernel_pfndb_base /\ kernel_stack_limit' = kernel_stack_limit
      /\ pfndb_sz_pgs' = pfndb_sz_pgs /\ seg \in Nat /\ seg' = seg /\ pfndb_sz_pgs \in Nat
      /\ kernel_pfndb_base \in Nat /\ kernel_stack_limit \in Nat /\ LowPages \in Nat
  <2>1. seg \in Nat /\ seg' = seg
    BY DEF MapsOne, MapLow, MapSegment, MapStack, MapPfndb, LoopInv
  <2>2. kernel_stack_limit \in Nat
    BY AddressNumbers DEF kernel_stack_limit
  <2> QED BY <1>0, <2>1, <2>2, SameModule, SameMachine, MemoryNumbers, AddressNumbers
<1>2. \A k \in DOMAIN machine.segs :
        /\ machine.segs[k].load' = machine.segs[k].load
        /\ UpFrame(machine.segs[k].memsz)' = UpFrame(machine.segs[k].memsz)
        /\ machine.segs[k].vaddr' = machine.segs[k].vaddr
  BY <1>0 DEF UpFrame
<1>3. CASE MapLow /\ virt = pos
  <2>1. /\ pc = "low" /\ pos \in 0..LowPages - 1
        /\ \/ pos + 1 = LowPages /\ pc' = "segment"
           \/ pc' = "low" /\ pos' = pos + 1
    BY <1>3, MapPageEnds, MappingPoints DEF MapLow, LoopInv, Mapping, Late
  <2>2. \A k \in DOMAIN machine.segs, i \in Nat : SegmentMapped(k, i) => SegmentMapped(k, i)'
    BY <1>1, <1>2, <2>1 DEF SegmentMapped
  <2>3. pc \notin Late
    BY <2>1, MappingPoints
  <2>4. \A v \in Nat : v < LowPages /\ (v < pos \/ v = pos) => v \in Done'
    BY <2>1 DEF Done
  <2>5. \A v \in Done : v \in Done'
    <3> SUFFICES ASSUME NEW v \in Done PROVE v \in Done'
      OBVIOUS
    <3>1. CASE v < LowPages /\ v < pos
      BY <2>4, <3>1 DEF Done
    <3>2. CASE \E k \in DOMAIN machine.segs, i \in Nat : SegmentMapped(k, i) /\ v = machine.segs[k].vaddr + i
      BY <1>0, <1>2, <2>2, <3>2 DEF Done
    <3> QED BY <2>1, <2>3, <3>1, <3>2 DEF Done
  <2> QED BY <1>1, <1>3, <2>1, <2>4, <2>5
<1>4. CASE MapSegment /\ virt = machine.segs[seg].vaddr + pos
  <2>1. /\ pc = "pages" /\ pos \in Nat /\ seg \in DOMAIN machine.segs /\ machine.segs[seg].load
        /\ pos < UpFrame(machine.segs[seg].memsz)
        /\ (pc' = "pages" /\ pos' = pos + 1) \/ (pc' = "copy" /\ pos' = pos)
    BY <1>4, MapSegmentGoes
  <2>2. \A k \in DOMAIN machine.segs, i \in Nat :
          SegmentMapped(k, i) \/ (k = seg /\ i = pos) => SegmentMapped(k, i)'
    BY <1>1, <1>2, <2>1 DEF SegmentMapped
  <2>3. pc \notin Late /\ pc' # "low"
    BY <2>1, MappingPoints
  <2>4. virt \in Nat
    BY <1>0, <1>4, <2>1, SegmentTyped
  <2>5. virt \in Done'
    BY <1>0, <1>4, <2>1, <2>2, <2>4 DEF Done
  <2>6. \A v \in Done : v \in Done'
    <3> SUFFICES ASSUME NEW v \in Done PROVE v \in Done'
      OBVIOUS
    <3>1. CASE v < LowPages
      BY <2>3, <3>1 DEF Done
    <3>2. CASE \E k \in DOMAIN machine.segs, i \in Nat : SegmentMapped(k, i) /\ v = machine.segs[k].vaddr + i
      BY <1>0, <1>2, <2>2, <3>2 DEF Done
    <3> QED BY <2>3, <3>1, <3>2 DEF Done
  <2> QED BY <2>4, <2>5, <2>6
<1>5. CASE MapStack /\ virt = kernel_stack_limit
  <2>1. pc = "stack" /\ pc' = "pfndb"
    <3>1. PICK m, p, v : map_page(m, p, v, "pfndb")
      BY <1>5 DEF MapStack
    <3>2. pc' # "stopped"
      BY DEF Mapping, Late
    <3> QED BY <1>5, <3>1, <3>2, MapPageEnds DEF MapStack
  <2>2. \A k \in DOMAIN machine.segs, i \in Nat : SegmentMapped(k, i) => SegmentMapped(k, i)'
    BY <1>1, <1>2, <2>1 DEF SegmentMapped
  <2>3. pc \notin Late /\ pc' \in Late
    BY <2>1, MappingPoints
  <2>4. virt \in Done'
    BY <1>1, <1>5, <2>3 DEF Done
  <2>5. \A v \in Done : v \in Done'
    <3> SUFFICES ASSUME NEW v \in Done PROVE v \in Done'
      OBVIOUS
    <3>1. CASE v < LowPages
      BY <2>1, <3>1 DEF Done
    <3>2. CASE \E k \in DOMAIN machine.segs, i \in Nat : SegmentMapped(k, i) /\ v = machine.segs[k].vaddr + i
      BY <1>0, <1>2, <2>2, <3>2 DEF Done
    <3> QED BY <2>3, <3>1, <3>2 DEF Done
  <2> QED BY <1>1, <1>5, <2>4, <2>5
<1>6. CASE MapPfndb /\ virt = kernel_pfndb_base + pos
  <2>1. /\ pc = "pfndb" /\ pos \in 0..pfndb_sz_pgs - 1 /\ pos' = pos + 1 /\ pc' \in {"pfndb", "shift"}
    BY <1>6, MapPfndbGoes
  <2>2. \A k \in DOMAIN machine.segs, i \in Nat : SegmentMapped(k, i) => SegmentMapped(k, i)'
    BY <1>1, <1>2, <2>1 DEF SegmentMapped
  <2>3. pc \in Late /\ pc' \in Late
    BY <2>1, MappingPoints
  <2>4. \A i \in 0..pfndb_sz_pgs - 1 : i < pos \/ i = pos => kernel_pfndb_base + i \in Done'
    BY <1>1, <2>1, <2>3 DEF Done
  <2>5. \A v \in Done : v \in Done'
    <3> SUFFICES ASSUME NEW v \in Done PROVE v \in Done'
      OBVIOUS
    <3>1. CASE v < LowPages
      BY <2>1, <3>1 DEF Done
    <3>2. CASE \E k \in DOMAIN machine.segs, i \in Nat : SegmentMapped(k, i) /\ v = machine.segs[k].vaddr + i
      BY <1>0, <1>2, <2>2, <3>2 DEF Done
    <3>3. CASE v = kernel_stack_limit
      BY <1>1, <2>3, <3>3 DEF Done
    <3>4. CASE \E i \in 0..pfndb_sz_pgs - 1 : i < pos /\ v = kernel_pfndb_base + i
      BY <2>4, <3>4
    <3> QED BY <2>1, <3>1, <3>2, <3>3, <3>4 DEF Done
  <2> QED BY <1>1, <1>6, <2>1, <2>4, <2>5
<1> QED BY <1>3, <1>4, <1>5, <1>6 DEF MapsOne

LEMMA MapsOneRange ==
  ASSUME LoopInv, ListsInv, ImagesInv, NEW virt, MapsOne(virt)
  PROVE  virt \in Nat /\ virt < Self * Cube
<1>0. machine \in Machines
  BY DEF ListsInv
<1>1. CASE MapLow /\ virt = pos
  <2>1. virt \in 0..LowPages - 1
    BY <1>1 DEF MapLow, LoopInv
  <2> QED BY <2>1, AddressNumbers
<1>2. CASE MapSegment /\ virt = machine.segs[seg].vaddr + pos
  <2>1. /\ pc = "pages" /\ pos < UpFrame(machine.segs[seg].memsz) /\ pos \in Nat
        /\ seg \in DOMAIN machine.segs /\ machine.segs[seg].load
    BY <1>2 DEF MapSegment, LoopInv, Segment, SegmentPages
  <2>2. InKernel(seg)
    BY <2>1, MappingPoints DEF LoopInv
  <2>3. virt \in Nat /\ virt < kernel_limit
    BY <1>0, <1>2, <2>1, <2>2, SegmentInKernel
  <2> QED BY <2>3, AddressNumbers
<1>3. CASE MapStack /\ virt = kernel_stack_limit
  BY <1>3, AddressNumbers DEF kernel_stack_limit
<1>4. CASE MapPfndb /\ virt = kernel_pfndb_base + pos
  <2>1. pc = "pfndb" /\ pos \in 0..pfndb_sz_pgs - 1
    BY <1>4 DEF MapPfndb, LoopInv
  <2>2. pfndb \in Nat /\ pfndb + pos < AddrFrames
    BY <2>1 DEF ImagesInv, PfndbPlaced, ListsBegun, Work
  <2>3. pfndb_sz_pgs \in Nat
    BY <1>0, MemoryNumbers
  <2> QED BY <1>4, <2>1, <2>2, <2>3, AddressNumbers
<1> QED BY <1>1, <1>2, <1>3, <1>4 DEF MapsOne

\* Memory m, the frame and the page with which such a step calls map_page.
MapsFrom(m, n, phys, virt, next, lv, vp, D) ==
  /\ MemRecord(m) /\ Listed(m, n) /\ Grown(mem, m) /\ m.tab = mem.tab
  /\ Shape(m, pml4, lv, vp) /\ Leaves(m, lv, vp, D)
  /\ map_page(m, phys, virt, next) /\ mem'.ok /\ mem'.page = m.page
  /\ Apart(m, lv, virt, phys)
  /\ pc = "pages" /\ pc' = "pages" =>
       phys = FileFrame(seg, pos) /\ phys \in Images /\ ~IsOn(phys, mem.free)
  /\ pc = "pfndb" => phys = pfndb + pos
  /\ pc' = "copy" \/ pc = "stack" =>
       /\ phys \in 0..AddrFrames - 1 /\ IsOn(phys, mem.free) /\ phys \notin DOMAIN lv
       /\ ~IsOn(phys, m.free) /\ m.held[phys] = Zeroed
  /\ pc' = "copy" => m.page = phys

LEMMA MapStarts ==
  ASSUME LoopInv, ListsInv, ImagesInv, Fits, SegmentsInModule, NEW n \in Nat, n = total_phys_pgs,
         NEW lv, NEW vp, Shape(mem, pml4, lv, vp), NEW D, Leaves(mem, lv, vp, D),
         NEW virt, MapsOne(virt), pc' \in Mapping
  PROVE  \E m, phys, next : MapsFrom(m, n, phys, virt, next, lv, vp, D)
<1>0. /\ machine \in Machines /\ MemRecord(mem) /\ Listed(mem, n) /\ n <= AddrFrames /\ pc \in Mapping
      /\ Kept(mem, Images, PfndbFrames) /\ PfndbPlaced
  <2>1. pc \in Mapping
    BY MappingPoints DEF MapsOne, MapLow, MapSegment, MapStack, MapPfndb
  <2>2. pc \in Work /\ pc # "fill"
    BY <2>1, MappingPoints
  <2> QED BY <2>1, <2>2 DEF ListsInv, ImagesInv, ListsBegun, Fits
<1>1. pc' # "stopped"
  BY DEF Mapping, Late
<1> DEFINE a == pmm_alloc_page(mem)
           p == Head(mem.free)
           b == [a EXCEPT !.page = Last(a.rsrv)]
<1>2. MemRecord(a) /\ Listed(a, n) /\ Grown(mem, a)
  BY <1>0, AllocPage
<1>3. ASSUME a.ok
      PROVE  /\ p \in 0..AddrFrames - 1 /\ p \notin DOMAIN lv /\ a.tab = mem.tab
             /\ IsOn(p, mem.free) /\ ~IsOn(p, a.free)
             /\ Last(a.rsrv) = p /\ a.held[p] = Zeroed /\ Shape(a, pml4, lv, vp) /\ Leaves(a, lv, vp, D)
  <2>1. /\ p \in 0..AddrFrames - 1 /\ p \notin DOMAIN lv /\ a.tab = mem.tab
        /\ IsOn(p, mem.free) /\ ~IsOn(p, a.free)
        /\ Last(a.rsrv) = p /\ a.held[p] = Zeroed /\ Shape(a, pml4, lv, vp)
    BY <1>0, <1>3, AllocShape
  <2> HIDE DEF a, p
  <2>2. Leaves(a, lv, vp, D)
    <3>1. \A v, g : Apart(mem, lv, v, g) => Apart(a, lv, v, g)
      BY <1>2 DEF Apart, Grown
    <3> QED BY <2>1, <3>1 DEF Leaves
  <2> QED BY <2>1, <2>2
<1>4. CASE MapLow /\ virt = pos
  <2>1. PICK next : map_page(mem, pos, virt, next)
    BY <1>4 DEF MapLow
  <2>2. pc = "low" /\ pos \in 0..LowPages - 1 /\ pc' \in {"low", "segment", "stopped"}
    BY <1>4, MapPageEnds DEF MapLow, LoopInv
  <2>3. mem'.ok /\ mem'.page = mem.page
    BY <1>0, <1>1, <2>1, MapPageGrows
  <2>4. Apart(mem, lv, virt, pos)
    BY <1>4, <2>2 DEF Apart
  <2>5. MapsFrom(mem, n, pos, virt, next, lv, vp, D)
    BY <1>0, <2>1, <2>2, <2>3, <2>4, GrownSame DEF MapsFrom
  <2> QED BY <2>5
<1>5. CASE MapSegment /\ virt = machine.segs[seg].vaddr + pos
  <2>1. /\ pc = "pages" /\ pos < SegmentPages /\ pos \in Nat
        /\ seg \in DOMAIN machine.segs /\ machine.segs[seg].load
    BY <1>5 DEF MapSegment, LoopInv, Segment
  <2>2. virt = Segment.vaddr + pos
    BY <1>5 DEF Segment
  <2>3. CASE Segment.filesz = Segment.memsz
    <3>1. map_page(mem, FileFrame(seg, pos), virt, "pages")
      BY <1>5, <2>2, <2>3 DEF MapSegment, FilePage, FileFrame, Segment
    <3>2. mem'.ok /\ mem'.page = mem.page /\ pc' = "pages"
      BY <1>0, <1>1, <3>1, MapPageGrows
    <3>3. FileFrame(seg, pos) \in Images /\ FileFrame(seg, pos) \in 0..AddrFrames - 1
      <4>1. pos \in 0..UpFrame(machine.segs[seg].filesz) - 1
        BY <1>0, <2>1, <2>3, SegmentTyped DEF SegmentPages, Segment
      <4>2. FileFrame(seg, pos) \in ModuleFrames
        BY <2>1, <4>1 DEF SegmentsInModule
      <4> QED BY <1>0, <4>2 DEF Images, Kept
    <3>4. ~IsOn(FileFrame(seg, pos), mem.free)
      BY <1>0, <3>3, PtrRange DEF Kept
    <3>5. FileFrame(seg, pos) \notin DOMAIN lv
      <4>1. mem.held[FileFrame(seg, pos)] = FileFrame(seg, pos)
        BY <1>0, <3>3 DEF Kept
      <4> QED BY <3>3, <4>1 DEF Shape, Zeroed
    <3>6. Apart(mem, lv, virt, FileFrame(seg, pos))
      BY <3>4, <3>5 DEF Apart
    <3>7. MapsFrom(mem, n, FileFrame(seg, pos), virt, "pages", lv, vp, D)
      BY <1>0, <2>1, <3>1, <3>2, <3>3, <3>4, <3>6, GrownSame DEF MapsFrom
    <3> QED BY <3>7
  <2>4. CASE Segment.filesz # Segment.memsz
    <3>1. map_page(b, Last(a.rsrv), virt, "copy")
      BY <1>5, <2>2, <2>4 DEF MapSegment
    <3>2. /\ MemRecord(b) /\ Listed(b, n) /\ Grown(a, b) /\ b.page = Last(a.rsrv) /\ b.ok = a.ok
          /\ b.tab = a.tab /\ b.free = a.free /\ b.rsrv = a.rsrv /\ b.held = a.held
      <4> HIDE DEF a
      <4> QED BY <1>2, PageGrows
    <3> HIDE DEF b
    <3>3. Grown(b, mem') /\ mem'.ok /\ mem'.page = b.page /\ pc' = "copy"
      BY <1>1, <3>1, <3>2, MapPageGrows
    <3>4. a.ok
      BY <3>2, <3>3 DEF Grown
    <3>5. /\ p \in 0..AddrFrames - 1 /\ p \notin DOMAIN lv /\ a.tab = mem.tab
          /\ IsOn(p, mem.free) /\ ~IsOn(p, a.free)
          /\ Last(a.rsrv) = p /\ a.held[p] = Zeroed /\ Shape(a, pml4, lv, vp) /\ Leaves(a, lv, vp, D)
      BY <1>3, <3>4
    <3> HIDE DEF a, p
    <3>6. Shape(b, pml4, lv, vp)
      BY <3>2, <3>5, ShapeKept DEF Shape
    <3>7. Leaves(b, lv, vp, D)
      BY <3>2, <3>5 DEF Leaves, Apart
    <3>8. Grown(mem, b)
      BY <1>2, <3>2, GrownTwice
    <3>9. map_page(b, p, virt, "copy") /\ b.page = p /\ b.tab = mem.tab /\ ~IsOn(p, b.free) /\ b.held[p] = Zeroed
      BY <3>1, <3>2, <3>5
    <3>10. Apart(b, lv, virt, p)
      BY <3>5, <3>9 DEF Apart
    <3>11. MapsFrom(b, n, p, virt, "copy", lv, vp, D)
      BY <2>1, <3>2, <3>3, <3>5, <3>6, <3>7, <3>8, <3>9, <3>10 DEF MapsFrom
    <3> QED BY <3>11
  <2> QED BY <2>3, <2>4
<1>6. CASE MapStack /\ virt = kernel_stack_limit
  <2>1. map_page(a, Last(a.rsrv), virt, "pfndb") /\ pc = "stack"
    BY <1>6 DEF MapStack
  <2> HIDE DEF a
  <2>2. Grown(a, mem') /\ mem'.ok /\ mem'.page = a.page /\ pc' = "pfndb"
    BY <1>1, <1>2, <2>1, MapPageGrows
  <2>3. a.ok
    BY <2>2 DEF Grown
  <2>4. /\ p \in 0..AddrFrames - 1 /\ p \notin DOMAIN lv /\ a.tab = mem.tab
        /\ IsOn(p, mem.free) /\ ~IsOn(p, a.free)
        /\ Last(a.rsrv) = p /\ a.held[p] = Zeroed /\ Shape(a, pml4, lv, vp) /\ Leaves(a, lv, vp, D)
    BY <1>3, <2>3
  <2> HIDE DEF p
  <2>5. map_page(a, p, virt, "pfndb")
    BY <2>1, <2>4
  <2>6. Apart(a, lv, virt, p)
    BY <2>4 DEF Apart
  <2>7. MapsFrom(a, n, p, virt, "pfndb", lv, vp, D)
    BY <1>2, <2>1, <2>2, <2>4, <2>5, <2>6 DEF MapsFrom
  <2> QED BY <2>7
<1>7. CASE MapPfndb /\ virt = kernel_pfndb_base + pos
  <2>1. PICK next : map_page(mem, pfndb + pos, virt, next)
    BY <1>7 DEF MapPfndb
  <2>2. pc = "pfndb" /\ pos \in 0..pfndb_sz_pgs - 1 /\ pc' \in {"pfndb", "shift", "stopped"}
    BY <1>7, MapPageEnds DEF MapPfndb, LoopInv
  <2>3. mem'.ok /\ mem'.page = mem.page
    BY <1>0, <1>1, <2>1, MapPageGrows
  <2>4. ~IsOn(pfndb + pos, mem.free) /\ pfndb + pos \notin DOMAIN lv
    <3>1. pfndb + pos \in 0..AddrFrames - 1
      BY <1>0, <2>2, LoaderAssumption, MemoryNumbers DEF PfndbPlaced
    <3>2. pfndb + pos \in PfndbFrames
      <4>1. Ptr(pfndb + pos) = pfndb + pos
        BY <3>1, PtrRange
      <4> QED BY <2>2, <4>1 DEF PfndbFrames
    <3>3. mem.held[pfndb + pos] = Nodes
      BY <1>0, <3>2 DEF Kept
    <3>4. pfndb + pos \notin DOMAIN lv
      BY <3>3 DEF Shape, Zeroed, Nodes
    <3> QED BY <1>0, <3>1, <3>2, <3>4, PtrRange DEF Kept
  <2>5. Apart(mem, lv, virt, pfndb + pos)
    BY <2>4 DEF Apart
  <2>6. MapsFrom(mem, n, pfndb + pos, virt, next, lv, vp, D)
    BY <1>0, <2>1, <2>2, <2>3, <2>4, <2>5, GrownSame DEF MapsFrom
  <2> QED BY <2>6
<1> QED BY <1>4, <1>5, <1>6, <1>7 DEF MapsOne

\* The first table, with the entry that names itself.
LEMMA SetupShape ==
  ASSUME ListsInv, LoopInv, Fits, SetupPaging, mem'.ok
  PROVE  \E lv, vp : Shape(mem', pml4', lv, vp) /\ \A D : Leaves(mem', lv, vp, D)
<1> DEFINE a == pmm_alloc_page(mem)
           p == Head(mem.free)
           e == [frame |-> Last(a.rsrv), rights |-> {"writable"}]
           t == Written(a.tab, Ptr(Last(a.rsrv)), Self, e)
<1>1. pc = "paging" /\ mem' = [a EXCEPT !.tab = t] /\ pml4' = Ptr(Last(a.rsrv))
  BY DEF SetupPaging, Go
<1>2. PICK n \in Nat : n = total_phys_pgs
  BY MemoryNumbers DEF ListsInv
<1>3. MemRecord(mem) /\ Listed(mem, n) /\ n <= AddrFrames /\ DOMAIN mem.tab = {}
  BY <1>1, <1>2 DEF ListsInv, ListsBegun, Work, Fits, LoopInv
<1>4. MemRecord(a) /\ Listed(a, n)
  BY <1>3, AllocPage
<1>5. mem'.ok = a.ok /\ mem'.tab = t /\ mem'.rsrv = a.rsrv /\ mem'.held = a.held
  <2> HIDE DEF a, t
  <2>1. a = [free |-> a.free, rsrv |-> a.rsrv, tab |-> a.tab, held |-> a.held, page |-> a.page, ok |-> a.ok]
    BY <1>4 DEF MemRecord
  <2> QED BY <1>1, <2>1
<1>6. /\ p \in 0..n - 1 /\ IsOn(p, mem.free) /\ a.rsrv = Append(mem.rsrv, p) /\ Last(a.rsrv) = p
      /\ a.held = [mem.held EXCEPT ![Ptr(p)] = Zeroed]
      /\ a.tab = [slot \in {s \in DOMAIN mem.tab : s[1] # Ptr(p)} |-> mem.tab[slot]]
  BY <1>3, <1>5, AllocTakes
<1>7. DOMAIN a.tab = {}
  BY <1>3, <1>6
<1> HIDE DEF a, p
<1>8. p \in 0..AddrFrames - 1 /\ Ptr(p) = p
  <2>1. p \in 0..AddrFrames - 1
    BY <1>3, <1>6, LoaderAssumption
  <2> QED BY <2>1, PtrRange
<1>9. a.held[p] = Zeroed
  <2> DEFINE h == mem.held
  <2>1. a.held = [h EXCEPT ![p] = Zeroed] /\ p \in DOMAIN h
    BY <1>3, <1>6, <1>8 DEF MemRecord
  <2> HIDE DEF h
  <2> QED BY <2>1
<1>10. IsOn(p, a.rsrv)
  <2> DEFINE R == mem.rsrv
  <2>1. /\ R \in Seq(0..n - 1) /\ a.rsrv = Append(R, p) /\ p \in 0..n - 1
        /\ NoRepeats(R) /\ ~IsOn(p, R)
    BY <1>3, <1>6 DEF Listed
  <2> HIDE DEF R
  <2> QED BY <2>1, AddLast
<1>11. t = Written(a.tab, p, Self, e) /\ e.frame = p /\ pml4' = p
  BY <1>1, <1>6, <1>8
<1>12. DOMAIN t = {<<p, Self>>} /\ t[<<p, Self>>].frame = p /\ t = [s \in DOMAIN t |-> t[s]]
  <2> DEFINE u == a.tab
  <2>1. t = Written(u, p, Self, e) /\ DOMAIN u = {}
    BY <1>7, <1>11
  <2> HIDE DEF u, t, e
  <2> QED BY <1>11, <2>1 DEF Written
<1> DEFINE lv == [f \in {p} |-> 0]
<1>13. DOMAIN lv = {p} /\ lv[p] = 0
  OBVIOUS
<1>14. Self \in 0..Self
  BY PagingAssumption DEF Self
<1> HIDE DEF lv, t
<1>15. TreeShape(t, p, lv, lv)
  BY <1>8, <1>12, <1>13, <1>14 DEF TreeShape
<1>16. Shape(mem', pml4', lv, lv)
  BY <1>5, <1>9, <1>10, <1>11, <1>13, <1>15 DEF Shape
<1>17. \A D : Leaves(mem', lv, lv, D)
  BY <1>13 DEF Leaves
<1> QED BY <1>16, <1>17

LEMMA MapStepEnds ==
  ASSUME MapLow \/ MapSegment \/ MapStack \/ MapPfndb
  PROVE  pc' # "paging" /\ (pc' = "stopped" => ~mem'.ok)
<1>1. CASE MapLow
  <2>1. map_page(mem, pos, pos, IF pos + 1 = LowPages THEN "segment" ELSE "low")
    BY <1>1 DEF MapLow
  <2> QED BY <2>1, MapPageEnds
<1>2. CASE MapSegment
  <2>1. CASE Segment.filesz = Segment.memsz
    <3>1. map_page(mem, FilePage, Segment.vaddr + pos, "pages")
      BY <1>2, <2>1 DEF MapSegment
    <3> QED BY <3>1, MapPageEnds
  <2>2. CASE Segment.filesz # Segment.memsz
    <3>1. PICK m, p, v : map_page(m, p, v, "copy")
      BY <1>2, <2>2 DEF MapSegment
    <3> QED BY <3>1, MapPageEnds
  <2> QED BY <2>1, <2>2
<1>3. CASE MapStack
  <2>1. PICK m, p, v : map_page(m, p, v, "pfndb")
    BY <1>3 DEF MapStack
  <2> QED BY <2>1, MapPageEnds
<1>4. CASE MapPfndb
  <2>1. map_page(mem, pfndb + pos, kernel_pfndb_base + pos, IF pos + 1 = pfndb_sz_pgs THEN "shift" ELSE "pfndb")
    BY <1>4 DEF MapPfndb
  <2> QED BY <2>1, MapPageEnds
<1> QED BY <1>1, <1>2, <1>3, <1>4

LEMMA NextTablesInv ==
  ListsInv /\ LoopInv /\ ImagesInv /\ TablesInv /\ [BootNext]_bootVars => TablesInv'
<1> SUFFICES ASSUME ListsInv, LoopInv, ImagesInv, TablesInv, [BootNext]_bootVars PROVE TablesInv'
  OBVIOUS
<1>0. PICK n \in Nat : n = total_phys_pgs
  BY MemoryNumbers DEF ListsInv
<1>1. UNCHANGED machine
  <2>1. CASE Searches
    BY <2>1 DEF Searches
  <2> QED BY <2>1, SearchKinds, QuietKinds
       DEF ReservePfndb, BuildLists, SetupPaging, MapLow, MapSegment, CopyPage, MapStack, MapPfndb,
           LoadElf, NextSegment, SegmentDone, Shift, KernelStep, loaderVars
<1>2. Fits' /\ SegmentsInModule' /\ Fits /\ SegmentsInModule
  BY <1>1, SameModule DEF TablesInv
<1>3. ASSUME ~Tabled' PROVE TablesInv'
  BY <1>2, <1>3 DEF TablesInv
<1>4. CASE FindModule \/ FindMmap \/ EarlyAlloc \/ ReservePfndb \/ BuildLists
  <2>1. pc \in Early \cup {"fill"} /\ pc' \notin Mapping /\ UNCHANGED pml4
    <3>1. CASE FindModule \/ FindMmap \/ EarlyAlloc
      <4>1. pc \in Early /\ pc' \in Early \cup Ends
        BY <3>1, SearchKinds DEF Searches, Early
      <4>2. UNCHANGED pml4
        BY <3>1 DEF FindModule, FindMmap, EarlyAlloc
      <4> QED BY <4>1, <4>2, MappingPoints
    <3>2. CASE ReservePfndb
      BY <3>2, MappingPoints DEF ReservePfndb, Early
    <3>3. CASE BuildLists
      BY <3>3, MappingPoints DEF BuildLists, Asserted, Mapping, Late
    <3> QED BY <1>4, <3>1, <3>2, <3>3
  <2>2. pml4 = 0
    BY <2>1 DEF LoopInv
  <2> QED BY <1>3, <2>1, <2>2 DEF Tabled
<1>5. CASE SetupPaging
  <2>1. pc' = IF mem'.ok THEN "low" ELSE "stopped"
    BY <1>5 DEF SetupPaging, Go, Asserted
  <2>2. CASE ~mem'.ok
    BY <1>3, <2>1, <2>2 DEF Tabled, Mapping, Late
  <2>3. CASE mem'.ok
    <3>1. PICK lv, vp : Shape(mem', pml4', lv, vp) /\ \A D : Leaves(mem', lv, vp, D)
      BY <1>2, <1>5, <2>3, SetupShape
    <3>2. pc' # "copy"
      BY <2>1
    <3> QED BY <1>2, <3>1, <3>2 DEF TablesInv
  <2> QED BY <2>2, <2>3
<1>6. CASE MapLow \/ MapSegment \/ MapStack \/ MapPfndb
  <2>1. pc \in Mapping /\ UNCHANGED pml4
    BY <1>6, MappingPoints DEF MapLow, MapSegment, MapStack, MapPfndb
  <2>2. MemRecord(mem) /\ Listed(mem, n)
    BY <1>0, <2>1, MappingPoints, PointsApart DEF ListsInv, ListsBegun
  <2>3. pc' \in Work \cup {"stopped"} /\ (pc' \in Work => mem'.ok) /\ pc' # "paging"
    <3>1. pc' \in Work \cup {"stopped"} /\ (pc' \in Work => mem'.ok)
      BY <1>6, <2>2, MemoryStep
    <3>2. pc' # "paging"
      BY <1>6, MapStepEnds
    <3> QED BY <3>1, <3>2
  <2>4. CASE pc' = "stopped"
    <3>1. ~mem'.ok
      BY <1>6, <2>4, MapStepEnds
    <3> QED BY <1>3, <2>4, <3>1 DEF Tabled, Mapping, Late
  <2>5. CASE pc' \in Mapping
    <3>1. PICK lv, vp : Shape(mem, pml4, lv, vp) /\ Leaves(mem, lv, vp, Done)
      BY <2>1 DEF TablesInv, Tabled
    <3>2. PICK virt : MapsOne(virt)
      BY <1>6 DEF MapsOne
    <3>3. PICK m, phys, next : MapsFrom(m, n, phys, virt, next, lv, vp, Done)
      BY <1>0, <1>2, <2>5, <3>1, <3>2, MapStarts
    <3>4. virt \in Nat /\ virt < Self * Cube
      BY <3>2, MapsOneRange
    <3>5. Done \cup {virt} \subseteq Done'
      BY <2>5, <3>2, DoneAdds
    <3>6. /\ MemRecord(m) /\ Listed(m, n) /\ Shape(m, pml4, lv, vp) /\ Leaves(m, lv, vp, Done)
          /\ map_page(m, phys, virt, next) /\ mem'.ok
          /\ Apart(m, lv, virt, phys)
      BY <3>3 DEF MapsFrom
    <3>7. PICK lw, vq : /\ Shape(mem', pml4, lw, vq) /\ Leaves(mem', lw, vq, Done \cup {virt})
                        /\ \A f \in DOMAIN lw : f \in DOMAIN lv \/ IsOn(f, m.free)
      <4>1. n <= AddrFrames
        BY <1>0, <1>2 DEF Fits
      <4> DEFINE D == Done
      <4>2. Leaves(m, lv, vp, D)
        BY <3>6
      <4> HIDE DEF D
      <4>3. \E lw, vq : /\ Shape(mem', pml4, lw, vq) /\ Leaves(mem', lw, vq, D \cup {virt})
                        /\ \A f \in DOMAIN lw : f \in DOMAIN lv \/ IsOn(f, m.free)
        BY <3>4, <3>6, <4>1, <4>2, MapPageShape
      <4> QED BY <4>3 DEF D
    <3>8. Leaves(mem', lw, vq, Done')
      BY <3>5, <3>7, LeavesMore
    <3>9. ASSUME pc' = "copy"
          PROVE  mem'.page \notin DOMAIN lw /\ Ptr(mem'.page) = mem'.page /\ mem'.page \in 0..AddrFrames - 1
      <4>1. /\ mem'.page = phys /\ phys \in 0..AddrFrames - 1 /\ phys \notin DOMAIN lv /\ ~IsOn(phys, m.free)
        BY <3>3, <3>9 DEF MapsFrom
      <4> QED BY <3>7, <4>1, PtrRange
    <3> QED BY <1>2, <2>1, <2>5, <3>7, <3>8, <3>9 DEF TablesInv
  <2> QED BY <2>3, <2>4, <2>5, MappingPoints
<1>7. CASE CopyPage
  <2>1. /\ pc = "copy" /\ pc' = "pages" /\ UNCHANGED pml4
        /\ mem'.free = mem.free /\ mem'.rsrv = mem.rsrv /\ mem'.tab = mem.tab
        /\ mem'.held = [mem.held EXCEPT ![Ptr(mem.page)] = mem.held[Ptr(FilePage)]]
    BY <1>7, CopyPageStep DEF ListsInv
  <2>2. PICK lv, vp : /\ Shape(mem, pml4, lv, vp) /\ Leaves(mem, lv, vp, Done)
                      /\ mem.page \notin DOMAIN lv /\ Ptr(mem.page) = mem.page
    BY <2>1, MappingPoints DEF TablesInv, Tabled
  <2>3. pc \in Mapping /\ pc' \in Mapping
    BY <2>1, MappingPoints
  <2>4. \A f \in DOMAIN lv : IsOn(f, mem'.rsrv) /\ mem'.held[f] = Zeroed
    <3>1. \A f \in DOMAIN lv : IsOn(f, mem.rsrv) /\ mem.held[f] = Zeroed /\ f \in 0..AddrFrames - 1
      BY <2>2 DEF Shape, TreeShape
    <3>2. DOMAIN mem.held = 0..AddrFrames - 1
      BY DEF ListsInv, MemRecord
    <3> QED BY <2>1, <2>2, <3>1, <3>2
  <2>5. Shape(mem', pml4, lv, vp)
    BY <2>1, <2>2, <2>4, ShapeKept
  <2>6. Leaves(mem', lv, vp, Done)
    BY <2>1, <2>2 DEF Leaves, Apart
  <2>7. Leaves(mem', lv, vp, Done')
    BY <1>1, <1>7, <2>3, <2>6, DoneGrows, LeavesMore
  <2> QED BY <1>2, <2>1, <2>3, <2>5, <2>7 DEF TablesInv
<1>8. CASE LoadElf \/ NextSegment \/ SegmentDone \/ Shift \/ KernelStep
  <2>1. /\ pc \in Mapping /\ pc' \in Mapping \cup Ends /\ UNCHANGED <<pml4, mem>> /\ pc' # "copy"
    <3>1. CASE LoadElf
      BY <3>1, MappingPoints DEF LoadElf, Ends
    <3>2. CASE NextSegment
      BY <3>2, MappingPoints DEF NextSegment, Asserted, Ends
    <3>3. CASE SegmentDone \/ Shift
      BY <3>3, MappingPoints DEF SegmentDone, Shift
    <3>4. CASE KernelStep
      BY <3>4, MappingPoints DEF KernelStep, Ends
    <3> QED BY <1>8, <3>1, <3>2, <3>3, <3>4
  <2>2. PICK lv, vp : Shape(mem, pml4, lv, vp) /\ Leaves(mem, lv, vp, Done)
    BY <2>1 DEF TablesInv, Tabled
  <2>3. CASE pc' \in Mapping
    <3>1. Done \subseteq Done'
      <4>1. LoadElf => UNCHANGED <<pos, seg>> /\ pc = "segment" /\ pc' = "load"
        BY <2>3 DEF LoadElf, Mapping, Late
      <4> QED BY <1>1, <1>8, <2>1, <2>3, <4>1, DoneGrows
    <3>2. Leaves(mem', lv, vp, Done')
      BY <2>1, <2>2, <3>1, LeavesMore
    <3> QED BY <1>2, <2>1, <2>2, <2>3, <3>2 DEF TablesInv
  <2>4. CASE pc' \in Ends
    <3>1. Done \subseteq Nat /\ pc' \notin Mapping
      BY <2>4, MappingPoints DEF Done
    <3>2. Leaves(mem', lv, vp, Nat)
      BY <2>1, <2>2, <3>1, LeavesMore
    <3> QED BY <1>2, <2>1, <2>2, <3>1, <3>2 DEF TablesInv
  <2> QED BY <2>1, <2>3, <2>4
<1>9. CASE UNCHANGED loaderVars
  <2>1. UNCHANGED <<machine, pc, pos, seg, pml4, mem>>
    BY <1>9 DEF loaderVars
  <2>2. Done' = Done
    <3>1. /\ kernel_pfndb_base' = kernel_pfndb_base /\ kernel_stack_limit' = kernel_stack_limit
          /\ pfndb_sz_pgs' = pfndb_sz_pgs
      BY <2>1, SameModule, SameMachine
    <3>2. \A k, i : SegmentMapped(k, i)' = SegmentMapped(k, i)
      BY <2>1 DEF SegmentMapped, UpFrame
    <3> QED BY <2>1, <3>1, <3>2 DEF Done
  <2>3. Tabled' = Tabled
    BY <2>1 DEF Tabled
  <2>4. CASE Tabled
    <3>1. PICK lv, vp :
            /\ Shape(mem, pml4, lv, vp) /\ Leaves(mem, lv, vp, IF pc \in Mapping THEN Done ELSE Nat)
            /\ pc = "copy" => mem.page \notin DOMAIN lv /\ Ptr(mem.page) = mem.page /\ mem.page \in 0..AddrFrames - 1
      BY <2>4 DEF TablesInv
    <3> QED BY <1>2, <2>1, <2>2, <3>1 DEF TablesInv
  <2> QED BY <1>3, <2>3, <2>4
<1> QED BY <1>4, <1>5, <1>6, <1>7, <1>8, <1>9, QuietKinds

LEMMA TablesInvariance == BootSpec /\ Aligned /\ Fits /\ SegmentsInModule => []TablesInv
<1>1. BootInit /\ Fits /\ SegmentsInModule => TablesInv
  <2> SUFFICES ASSUME BootInit, Fits, SegmentsInModule PROVE TablesInv
    OBVIOUS
  <2>1. pc = "module"
    BY DEF BootInit, LoaderInit
  <2> QED BY <2>1 DEF TablesInv, Tabled, Mapping, Late, Ends
<1>2. ListsInv /\ LoopInv /\ ImagesInv /\ TablesInv /\ [BootNext]_bootVars => TablesInv'
  BY NextTablesInv
<1> QED BY <1>1, <1>2, ListsInvariance, LoopInvariance, ImagesInvariance, PTL DEF BootSpec

\* The frames of the tables, by the levels of the tree.
LEMMA TableFramesShape ==
  ASSUME NEW t, NEW r, NEW lv, NEW vp, TreeShape(t, r, lv, vp)
  PROVE  TableFrames(t, r) \subseteq DOMAIN lv
<1> DEFINE below(S, last) == {t[slot].frame : slot \in {x \in DOMAIN t : x[1] \in S /\ x[2] <= last}}
           pdpts == below({r}, Self - 1)
           pds == below(pdpts, Self)
           pts == below(pds, Self)
<1>1. TableFrames(t, r) = {r} \cup pdpts \cup pds \cup pts
  BY DEF TableFrames
<1>2. /\ r \in DOMAIN lv /\ lv[r] = 0
      /\ \A s \in DOMAIN t : \E f \in DOMAIN lv, i \in 0..Self : s = <<f, i>>
      /\ \A f \in DOMAIN lv, i \in 0..Self :
           <<f, i>> \in DOMAIN t /\ ~(f = r /\ i = Self) /\ lv[f] < 3 =>
             t[<<f, i>>].frame \in DOMAIN lv /\ lv[t[<<f, i>>].frame] = lv[f] + 1
  BY DEF TreeShape
<1>3. Self \in Nat
  BY PagingAssumption DEF Self
<1>4. \A g \in pdpts : g \in DOMAIN lv /\ lv[g] = 1
  <2> SUFFICES ASSUME NEW s \in DOMAIN t, s[1] = r, s[2] <= Self - 1
               PROVE  t[s].frame \in DOMAIN lv /\ lv[t[s].frame] = 1
    OBVIOUS
  <2>1. PICK f \in DOMAIN lv, i \in 0..Self : s = <<f, i>>
    BY <1>2
  <2>2. f = r /\ i # Self
    BY <1>3, <2>1
  <2> QED BY <1>2, <2>1, <2>2
<1> HIDE DEF pdpts
<1>5. \A g \in pds : g \in DOMAIN lv /\ lv[g] = 2
  <2> SUFFICES ASSUME NEW s \in DOMAIN t, s[1] \in pdpts
               PROVE  t[s].frame \in DOMAIN lv /\ lv[t[s].frame] = 2
    OBVIOUS
  <2>1. PICK f \in DOMAIN lv, i \in 0..Self : s = <<f, i>>
    BY <1>2
  <2>2. lv[f] = 1 /\ f # r
    BY <1>2, <1>4, <2>1
  <2> QED BY <1>2, <2>1, <2>2
<1> HIDE DEF pds
<1>6. \A g \in pts : g \in DOMAIN lv
  <2> SUFFICES ASSUME NEW s \in DOMAIN t, s[1] \in pds PROVE t[s].frame \in DOMAIN lv
    OBVIOUS
  <2>1. PICK f \in DOMAIN lv, i \in 0..Self : s = <<f, i>>
    BY <1>2
  <2>2. lv[f] = 2 /\ f # r
    BY <1>2, <1>5, <2>1
  <2> QED BY <1>2, <2>1, <2>2
<1> QED BY <1>1, <1>2, <1>4, <1>5, <1>6

\* A page from the end of the identity map to the recursive entry leads nowhere,
\* or to a frame apart.
LEMMA LeafOf ==
  ASSUME NEW m, NEW r, NEW lv, NEW vp, Shape(m, r, lv, vp), NEW D, Leaves(m, lv, vp, D),
         NEW v \in Nat, LowPages <= v, v < Self * Cube
  PROVE  LET f == Translate(m.tab, r, v)
         IN f = NoFrame \/ (~IsOn(f, m.free) /\ f \notin DOMAIN lv)
<1> DEFINE t == m.tab
           i1 == pml4e_index(v)
           i2 == pdpte_index(v)
           i3 == pde_index(v)
           i4 == pte_index(v)
           pdpt == Named(t, r, i1)
           pd == Named(t, pdpt, i2)
           pt == Named(t, pd, i3)
           f == Named(t, pt, i4)
<1>1. Translate(t, r, v) = f
  BY DEF Translate, Slots
<1>2. /\ i1 \in 0..Self /\ i2 \in 0..Self /\ i3 \in 0..Self /\ i4 \in 0..Self /\ i1 # Self
      /\ (((0 * Entries + i1) * Entries + i2) * Entries + i3) * Entries + i4 = v
  BY WayTo
<1>3. TreeShape(t, r, lv, vp)
  BY DEF Shape
<1>4. \A x \in DOMAIN lv, i \in 0..Self :
        lv[x] = 3 /\ <<x, i>> \in DOMAIN t => Apart(m, lv, vp[x] * Entries + i, t[<<x, i>>].frame)
  BY DEF Leaves
<1> HIDE DEF t, i1, i2, i3, i4
<1> SUFFICES ASSUME f # NoFrame PROVE ~IsOn(f, m.free) /\ f \notin DOMAIN lv
  BY <1>1 DEF t
<1>5. \A x, i : Named(t, x, i) # NoFrame =>
        x # NoFrame /\ <<x, i>> \in DOMAIN t /\ Named(t, x, i) = t[<<x, i>>].frame
  <2>1. \A i : <<NoFrame, i>> \notin DOMAIN t
    BY <1>3 DEF TreeShape, NoFrame
  <2> QED BY <2>1 DEF Named
<1>6. \A x \in DOMAIN lv, i \in 0..Self :
        <<x, i>> \in DOMAIN t /\ ~(x = r /\ i = Self) /\ lv[x] < 3 =>
          /\ t[<<x, i>>].frame \in DOMAIN lv /\ lv[t[<<x, i>>].frame] = lv[x] + 1
          /\ vp[t[<<x, i>>].frame] = vp[x] * Entries + i
  BY <1>3 DEF TreeShape
<1>7. r \in DOMAIN lv /\ lv[r] = 0 /\ vp[r] = 0
  BY <1>3 DEF TreeShape
<1>8. <<pt, i4>> \in DOMAIN t /\ f = t[<<pt, i4>>].frame /\ pt # NoFrame
  BY <1>5
<1> HIDE DEF f
<1>9. <<pd, i3>> \in DOMAIN t /\ pt = t[<<pd, i3>>].frame /\ pd # NoFrame
  BY <1>5, <1>8
<1> HIDE DEF pt
<1>10. <<pdpt, i2>> \in DOMAIN t /\ pd = t[<<pdpt, i2>>].frame /\ pdpt # NoFrame
  BY <1>5, <1>9
<1> HIDE DEF pd
<1>11. <<r, i1>> \in DOMAIN t /\ pdpt = t[<<r, i1>>].frame
  BY <1>5, <1>10
<1> HIDE DEF pdpt
<1>12. pdpt \in DOMAIN lv /\ lv[pdpt] = 1 /\ vp[pdpt] = 0 * Entries + i1
  BY <1>2, <1>6, <1>7, <1>11
<1>13. pd \in DOMAIN lv /\ lv[pd] = 2 /\ vp[pd] = (0 * Entries + i1) * Entries + i2
  BY <1>2, <1>6, <1>7, <1>10, <1>12
<1>14. pt \in DOMAIN lv /\ lv[pt] = 3 /\ vp[pt] = ((0 * Entries + i1) * Entries + i2) * Entries + i3
  BY <1>2, <1>6, <1>7, <1>9, <1>13
<1>15. Apart(m, lv, v, f)
  <2>1. vp[pt] * Entries + i4 = v
    BY <1>2, <1>14
  <2> QED BY <1>2, <1>4, <1>8, <1>14, <2>1
<1>16. v \notin 0..LowPages - 1
  BY LoaderAssumption
<1> QED BY <1>15, <1>16 DEF Apart

LEMMA BootTablesPrivateOf == ListsInv /\ LoopInv /\ ImagesInv /\ TablesInv => BootTablesPrivate
<1> DEFINE tables == TableFrames(mem.tab, pml4)
           between == LowPages..virt_from_index(Self, 0, 0, 0) - 1
<1> SUFFICES ASSUME ListsInv, LoopInv, ImagesInv, TablesInv, ListsBuilt, pml4 # 0, mem.ok
             PROVE  /\ tables \subseteq ToSet(mem.rsrv)
                    /\ \A f \in tables : mem.held[f] = Zeroed
                    /\ tables \cap (ModuleFrames \cup LoaderFrames \cup PfndbFrames) = {}
                    /\ \A v \in between : Translate(mem.tab, pml4, v) \notin tables \cup ToSet(mem.free)
  BY DEF BootTablesPrivate
<1>1. Tabled /\ ListsBegun /\ pc # "fill"
  <2>1. pc # "fill" /\ mem.rsrv # <<>>
    BY DEF ListsBuilt
  <2>2. pc \notin Early \cup {"fill", "paging"}
    BY DEF LoopInv
  <2>3. pc \in Mapping \cup Ends
    BY <2>2, MappingPoints DEF ListsInv
  <2> QED BY <2>1, <2>3, MappingPoints DEF Tabled, ListsBegun
<1>2. PICK D, lv, vp : Shape(mem, pml4, lv, vp) /\ Leaves(mem, lv, vp, D)
  BY <1>1 DEF TablesInv
<1>3. tables \subseteq DOMAIN lv
  BY <1>2, TableFramesShape DEF Shape
<1>4. \A f \in DOMAIN lv : IsOn(f, mem.rsrv) /\ mem.held[f] = Zeroed /\ f \in 0..AddrFrames - 1
  BY <1>2 DEF Shape, TreeShape
<1>5. \A f : IsOn(f, mem.rsrv) <=> f \in ToSet(mem.rsrv)
  <2> DEFINE R == mem.rsrv
  <2>1. R \in Seq(0..total_phys_pgs - 1)
    BY <1>1 DEF ListsInv, Listed
  <2> HIDE DEF R
  <2>2. \A f : IsOn(f, R) <=> f \in ToSet(R)
    BY <2>1, ToSetMembers DEF IsOn
  <2> QED BY <2>2 DEF R
<1>6. \A f : IsOn(f, mem.free) <=> f \in ToSet(mem.free)
  <2> DEFINE R == mem.free
  <2>1. R \in Seq(0..total_phys_pgs - 1)
    BY <1>1 DEF ListsInv, Listed
  <2> HIDE DEF R
  <2>2. \A f : IsOn(f, R) <=> f \in ToSet(R)
    BY <2>1, ToSetMembers DEF IsOn
  <2> QED BY <2>2 DEF R
<1>7. tables \cap (Images \cup PfndbFrames) = {}
  <2>1. /\ \A f \in Images : mem.held[f] = f
        /\ \A f \in PfndbFrames : mem.held[f] = Nodes
    BY <1>1 DEF ImagesInv, Kept
  <2> QED BY <1>3, <1>4, <2>1 DEF Zeroed, Nodes
<1>8. ASSUME NEW v \in between
      PROVE  Translate(mem.tab, pml4, v) \notin tables \cup ToSet(mem.free)
  <2>1. virt_from_index(Self, 0, 0, 0) = Self * Cube
    BY PagingAssumption DEF virt_from_index, Cube, Self
  <2>2. v \in Nat /\ LowPages <= v /\ v < Self * Cube
    <3>1. Self * Cube \in Nat /\ LowPages \in Nat
      BY LoaderAssumption, PagingAssumption DEF Cube, Self
    <3> QED BY <2>1, <3>1
  <2> DEFINE f == Translate(mem.tab, pml4, v)
  <2>3. f = NoFrame \/ (~IsOn(f, mem.free) /\ f \notin DOMAIN lv)
    BY <1>2, <2>2, LeafOf
  <2>4. NoFrame \notin DOMAIN lv
    BY <1>4 DEF NoFrame
  <2>5. ~IsOn(NoFrame, mem.free)
    <3> DEFINE R == mem.free
               S == 0..total_phys_pgs - 1
    <3>1. R \in Seq(S) /\ NoFrame \notin S
      BY <1>1 DEF ListsInv, Listed, NoFrame
    <3> HIDE DEF R, S
    <3>2. ~IsOn(NoFrame, R)
      BY <3>1, ElementOfSeq DEF IsOn
    <3> QED BY <3>2 DEF R
  <2> HIDE DEF f
  <2>6. f \notin DOMAIN lv /\ ~IsOn(f, mem.free)
    BY <2>3, <2>4, <2>5
  <2> QED BY <1>3, <1>6, <2>6 DEF f
<1> HIDE DEF tables, between
<1> QED BY <1>3, <1>4, <1>5, <1>7, <1>8 DEF Images

\* The loader's tables stay apart from everything else in memory: they are
\* reserved, cleared when they were made and written as nothing else, and no
\* address between the identity map and the recursive entry leads to a table or
\* to a free frame (mem.cc:161-190; main.cc:161-210), if memory is within 32
\* bits and the file has its segments.
THEOREM TablesApart == BootSpec /\ Aligned /\ Fits /\ SegmentsInModule => []BootTablesPrivate
<1>1. ListsInv /\ LoopInv /\ ImagesInv /\ TablesInv => BootTablesPrivate
  BY BootTablesPrivateOf
<1> QED BY <1>1, ListsInvariance, LoopInvariance, ImagesInvariance, TablesInvariance, PTL

-----------------------------------------------------------------------------
(* What the kernel finds in its segments, its stack and the PFNDB. *)

\* The loader's tables are made for a kernel whose segments have their file's
\* data in memory, lie apart from each other and leave the stack's page alone.
KernelFits ==
  LET pages(k) == UpFrame(machine.segs[k].memsz)
      page(k, i) == machine.segs[k].vaddr + i
      loads == {k \in DOMAIN machine.segs : machine.segs[k].load}
  IN /\ \A k \in loads : machine.segs[k].filesz <= machine.segs[k].memsz
     /\ \A k \in loads, i \in Nat : i < pages(k) => page(k, i) # kernel_stack_limit
     /\ \A k \in loads, l \in loads, i \in Nat, j \in Nat :
          i < pages(k) /\ j < pages(l) /\ page(k, i) = page(l, j) => k = l

\* In memory m page v leads to frame f, which is not free.
Leads(m, v, f) == Translate(m.tab, pml4, v) = f /\ f \in 0..AddrFrames - 1 /\ ~IsOn(f, m.free)

\* Page i of segment k leads to a page of its own, which holds that page of the
\* file, or will once it has been copied.
SegmentRight(k, i) ==
  \E f : /\ Leads(mem, machine.segs[k].vaddr + i, f)
         /\ pc = "copy" => (f = mem.page <=> (k = seg /\ i = pos))
         /\ i < UpFrame(machine.segs[k].filesz) /\ ~(pc = "copy" /\ k = seg /\ i = pos) =>
              mem.held[f] = FileFrame(k, i)

StackRight == \E f : Leads(mem, kernel_stack_limit, f) /\ mem.held[f] = Zeroed

NodesRight ==
  \A i \in 0..pfndb_sz_pgs - 1 :
    (pc = "pfndb" => i < pos) => Translate(mem.tab, pml4, kernel_pfndb_base + i) = pfndb + i

ContentInv ==
  /\ KernelFits
  /\ pc \in Mapping =>
       \A k \in DOMAIN machine.segs, i \in Nat : SegmentMapped(k, i) => SegmentRight(k, i)
  /\ pc \in Late => StackRight /\ NodesRight

\* What a page leads to stays as it is while another page is mapped.
LEMMA LeadsKept ==
  ASSUME NEW n \in Nat, n <= AddrFrames, Listed(mem, n), UNCHANGED pml4,
         NEW m, NEW phys, NEW virt \in Nat, virt < Self * Cube, NEW next, NEW lv, NEW vp, NEW D,
         MapsFrom(m, n, phys, virt, next, lv, vp, D)
  PROVE  /\ virt \notin D => Translate(mem'.tab, pml4', virt) = phys
         /\ \A v : Translate(mem.tab, pml4, v) # NoFrame =>
              Translate(mem'.tab, pml4', v) = Translate(mem.tab, pml4, v)
         /\ \A v, f : Leads(mem, v, f) => Leads(mem, v, f)' /\ mem'.held[f] = mem.held[f]
         /\ Grown(m, mem') /\ mem'.page = m.page
<1>1. /\ MemRecord(m) /\ Listed(m, n) /\ Grown(mem, m) /\ m.tab = mem.tab
      /\ Shape(m, pml4, lv, vp) /\ Leaves(m, lv, vp, D)
      /\ map_page(m, phys, virt, next) /\ mem'.ok /\ mem'.page = m.page
  BY DEF MapsFrom
<1>2. /\ virt \notin D => Translate(mem'.tab, pml4, virt) = phys
      /\ \A v : Translate(m.tab, pml4, v) # NoFrame =>
           Translate(mem'.tab, pml4, v) = Translate(m.tab, pml4, v)
  BY <1>1, MapPageTranslates
<1>3. Grown(m, mem')
  BY <1>1, MapPageGrows
<1>4. Grown(mem, mem')
  BY <1>1, <1>3, GrownTwice
<1>5. ASSUME NEW v, NEW f, Leads(mem, v, f)
      PROVE  Leads(mem, v, f)' /\ mem'.held[f] = mem.held[f]
  <2>1. Translate(mem.tab, pml4, v) = f /\ f \in 0..AddrFrames - 1 /\ ~IsOn(f, mem.free)
    BY <1>5 DEF Leads
  <2>2. f # NoFrame
    BY <2>1 DEF NoFrame
  <2>3. Translate(mem'.tab, pml4', v) = f
    BY <1>1, <1>2, <2>1, <2>2
  <2>4. \A p : IsOn(p, mem.free) => Ptr(p) # f
    BY <2>1, FreeFrames
  <2>5. ~IsOn(f, mem'.free) /\ mem'.held[f] = mem.held[f]
    BY <1>4, <2>1, <2>4 DEF Grown
  <2> QED BY <2>1, <2>3, <2>5 DEF Leads
<1> QED BY <1>1, <1>2, <1>3, <1>5

\* A page is mapped once.
LEMMA MapsNew ==
  ASSUME LoopInv, ListsInv, KernelFits, NEW virt, MapsOne(virt)
  PROVE  virt \notin Done
<1>0. machine \in Machines /\ seg \in Nat
  BY DEF ListsInv, LoopInv
<1> SUFFICES ASSUME virt \in Done PROVE FALSE
  OBVIOUS
<1>1. /\ kernel_base \in Nat /\ kernel_limit \in Nat /\ kernel_pfndb_base \in Nat /\ LowPages \in Nat
      /\ LowPages <= kernel_base /\ kernel_base < kernel_limit /\ kernel_limit <= kernel_pfndb_base
      /\ kernel_stack_limit = kernel_limit - 1
  BY AddressNumbers DEF kernel_stack_limit
<1>2. pc \in Mapping
  BY MappingPoints DEF MapsOne, MapLow, MapSegment, MapStack, MapPfndb
<1>3. ASSUME NEW k \in DOMAIN machine.segs, NEW i \in Nat, SegmentMapped(k, i)
      PROVE  kernel_base <= machine.segs[k].vaddr + i /\ machine.segs[k].vaddr + i < kernel_limit
             /\ machine.segs[k].vaddr + i # kernel_stack_limit /\ machine.segs[k].vaddr + i \in Nat
  <2>1. /\ machine.segs[k].load /\ i < UpFrame(machine.segs[k].memsz)
        /\ k < seg \/ (k = seg /\ pc \in {"pages", "copy"})
    BY <1>3 DEF SegmentMapped
  <2>2. InKernel(k)
    BY <1>2, <2>1 DEF LoopInv
  <2>3. machine.segs[k].vaddr + i # kernel_stack_limit
    BY <2>1 DEF KernelFits
  <2> QED BY <1>0, <2>1, <2>2, <2>3, SegmentInKernel
<1>4. CASE MapLow /\ virt = pos
  <2>1. pc = "low" /\ pos \in Nat /\ pos < LowPages
    BY <1>1, <1>4 DEF MapLow, LoopInv
  <2>2. pc \notin Late
    BY <2>1, MappingPoints
  <2> QED BY <1>1, <1>3, <1>4, <2>1, <2>2 DEF Done
<1>5. CASE MapSegment /\ virt = machine.segs[seg].vaddr + pos
  <2>1. /\ pc = "pages" /\ pos < UpFrame(machine.segs[seg].memsz) /\ pos \in Nat
        /\ seg \in DOMAIN machine.segs /\ machine.segs[seg].load
    BY <1>5 DEF MapSegment, LoopInv, Segment, SegmentPages
  <2>2. InKernel(seg) /\ pc \notin Late
    BY <2>1, MappingPoints DEF LoopInv
  <2>3. kernel_base <= virt
    BY <1>0, <1>5, <2>1, <2>2, SegmentInKernel
  <2>4. PICK k \in DOMAIN machine.segs, i \in Nat : SegmentMapped(k, i) /\ virt = machine.segs[k].vaddr + i
    BY <1>1, <2>2, <2>3 DEF Done
  <2>5. /\ machine.segs[k].load /\ i < UpFrame(machine.segs[k].memsz)
        /\ k < seg \/ (k = seg /\ i < pos)
    BY <2>1, <2>4 DEF SegmentMapped
  <2>6. k = seg
    BY <1>5, <2>1, <2>4, <2>5 DEF KernelFits
  <2>7. machine.segs[seg].vaddr \in Nat
    BY <1>0, <2>1, SegmentTyped
  <2> QED BY <1>0, <1>5, <2>1, <2>4, <2>5, <2>6, <2>7
<1>6. CASE MapStack /\ virt = kernel_stack_limit
  <2>1. pc = "stack" /\ pc \notin Late
    BY <1>6, MappingPoints DEF MapStack
  <2> QED BY <1>1, <1>3, <1>6, <2>1 DEF Done
<1>7. CASE MapPfndb /\ virt = kernel_pfndb_base + pos
  <2>1. pc = "pfndb" /\ pos \in Nat
    <3>1. pc = "pfndb" /\ pos \in 0..pfndb_sz_pgs - 1
      BY <1>7 DEF MapPfndb, LoopInv
    <3> QED BY <3>1
  <2>2. \A i \in 0..pfndb_sz_pgs - 1 : i < pos => kernel_pfndb_base + i # virt
    BY <1>1, <1>7, <2>1
  <2> QED BY <1>1, <1>3, <1>7, <2>1, <2>2 DEF Done
<1> QED BY <1>4, <1>5, <1>6, <1>7 DEF MapsOne

LEMMA SameKernel ==
  ASSUME UNCHANGED machine PROVE KernelFits' = KernelFits
  BY SameModule DEF KernelFits, UpFrame

LEMMA MapsContent ==
  ASSUME ListsInv, LoopInv, ImagesInv, TablesInv, ContentInv,
         MapLow \/ MapSegment \/ MapStack \/ MapPfndb, pc' \in Mapping
  PROVE  ContentInv'
<1>0. PICK n \in Nat : n = total_phys_pgs
  BY MemoryNumbers DEF ListsInv
<1>1. /\ UNCHANGED <<machine, seg, pfndb, pml4>> /\ machine \in Machines /\ seg \in Nat
      /\ pc \in Mapping /\ pc # "copy"
  BY MappingPoints DEF MapLow, MapSegment, MapStack, MapPfndb, ListsInv, LoopInv
<1>2. MemRecord(mem) /\ Listed(mem, n) /\ Kept(mem, Images, PfndbFrames) /\ PfndbPlaced /\ n <= AddrFrames
  <2>1. pc \in Work /\ pc # "fill"
    BY <1>1, MappingPoints
  <2> QED BY <1>0, <2>1 DEF ListsInv, ImagesInv, ListsBegun, TablesInv, Fits
<1>3. PICK lv, vp : Shape(mem, pml4, lv, vp) /\ Leaves(mem, lv, vp, Done)
  BY <1>1 DEF TablesInv, Tabled
<1>4. PICK virt : MapsOne(virt)
  BY DEF MapsOne
<1>5. PICK m, phys, next : MapsFrom(m, n, phys, virt, next, lv, vp, Done)
  BY <1>0, <1>3, <1>4, MapStarts DEF TablesInv
<1>6. virt \in Nat /\ virt < Self * Cube /\ virt \notin Done
  BY <1>4, MapsOneRange, MapsNew DEF ContentInv
<1>7. /\ Translate(mem'.tab, pml4', virt) = phys
      /\ \A v : Translate(mem.tab, pml4, v) # NoFrame =>
           Translate(mem'.tab, pml4', v) = Translate(mem.tab, pml4, v)
      /\ \A v, f : Leads(mem, v, f) => Leads(mem, v, f)' /\ mem'.held[f] = mem.held[f]
      /\ Grown(m, mem') /\ mem'.page = m.page
  <2> DEFINE D == Done
  <2>1. MapsFrom(m, n, phys, virt, next, lv, vp, D) /\ virt \notin D
    BY <1>5, <1>6
  <2> HIDE DEF D
  <2>2. UNCHANGED pml4
    BY <1>1
  <2>3. /\ virt \notin D => Translate(mem'.tab, pml4', virt) = phys
        /\ \A v : Translate(mem.tab, pml4, v) # NoFrame =>
             Translate(mem'.tab, pml4', v) = Translate(mem.tab, pml4, v)
        /\ \A v, f : Leads(mem, v, f) => Leads(mem, v, f)' /\ mem'.held[f] = mem.held[f]
        /\ Grown(m, mem') /\ mem'.page = m.page
    BY <1>2, <1>6, <2>1, <2>2, LeadsKept
  <2> QED BY <2>1, <2>3
<1>8. Listed(m, n) /\ Grown(mem, m)
  BY <1>5 DEF MapsFrom
<1>9. Grown(mem, mem')
  BY <1>7, <1>8, GrownTwice
<1>10. \A f \in Images : mem'.held[f] = f /\ f \in 0..AddrFrames - 1
  BY <1>2, <1>9, KeptGrown DEF Kept
<1>11. /\ kernel_pfndb_base' = kernel_pfndb_base /\ kernel_stack_limit' = kernel_stack_limit
       /\ \A k, i : FileFrame(k, i)' = FileFrame(k, i)
       /\ pfndb_sz_pgs' = pfndb_sz_pgs /\ pfndb_sz_pgs \in Nat
  BY <1>1, SameModule, SameMachine, MemoryNumbers
<1>12. ASSUME NEW k \in DOMAIN machine.segs, NEW i \in Nat, SegmentMapped(k, i)'
       PROVE  SegmentRight(k, i)'
  <2> DEFINE v == machine.segs[k].vaddr + i
             F == UpFrame(machine.segs[k].filesz)
  <2>1. v' = v /\ F' = F /\ machine' = machine /\ seg' = seg
    BY <1>1 DEF UpFrame
  <2>2. UpFrame(machine.segs[k].memsz)' = UpFrame(machine.segs[k].memsz)
    BY <1>1 DEF UpFrame
  <2>3. CASE SegmentMapped(k, i)
    <3>1. PICK f : Leads(mem, v, f) /\ (i < F => mem.held[f] = FileFrame(k, i))
      BY <1>1, <2>3 DEF ContentInv, SegmentRight
    <3>2. Leads(mem, v, f)' /\ mem'.held[f] = mem.held[f]
      BY <1>7, <2>1, <3>1 DEF Leads
    <3>3. ASSUME pc' = "copy" PROVE f # mem'.page /\ ~(k = seg' /\ i = pos')
      <4>1. IsOn(phys, mem.free) /\ m.page = phys
        BY <1>5, <3>3 DEF MapsFrom
      <4>2. f # mem'.page
        BY <1>7, <3>1, <4>1 DEF Leads
      <4>3. MapSegment
        <5>1. MapLow => pc' # "copy"
          BY MapPageEnds DEF MapLow
        <5>2. MapPfndb => pc' # "copy"
          BY MapPfndbGoes
        <5>3. MapStack => pc' # "copy"
          BY MapPageEnds DEF MapStack
        <5> QED BY <3>3, <5>1, <5>2, <5>3
      <4>4. pc = "pages" /\ pos' = pos /\ pos \in Nat
        BY <3>3, <4>3, MapSegmentGoes
      <4>5. k = seg => i < pos
        BY <1>1, <2>3, <4>4 DEF SegmentMapped
      <4> QED BY <1>1, <4>2, <4>4, <4>5
    <3>4. i < F => mem'.held[f] = FileFrame(k, i)'
      BY <1>11, <3>1, <3>2
    <3> HIDE DEF v, F
    <3>5. \E g : /\ Leads(mem, v, g)'
                 /\ pc' = "copy" => (g = mem'.page <=> (k = seg' /\ i = pos'))
                 /\ i < F /\ ~(pc' = "copy" /\ k = seg' /\ i = pos') => mem'.held[g] = FileFrame(k, i)'
      BY <3>2, <3>3, <3>4
    <3> QED BY <2>1, <3>5 DEF SegmentRight, v, F
  <2>4. CASE ~SegmentMapped(k, i)
    <3>1. MapSegment /\ k = seg /\ i = pos
      <4>1. machine.segs[k].load /\ i < UpFrame(machine.segs[k].memsz)
        BY <1>12, <2>1, <2>2 DEF SegmentMapped
      <4>2. k = seg /\ ((pc' = "pages" /\ i < pos') \/ (pc' = "copy" /\ i <= pos'))
        BY <1>12, <2>1, <2>4, <4>1 DEF SegmentMapped
      <4>3. MapSegment
        <5>1. MapLow => pc' \notin {"copy", "pages"}
          BY MapPageEnds DEF MapLow
        <5>2. MapPfndb => pc' \notin {"copy", "pages"}
          BY MapPfndbGoes
        <5>3. MapStack => pc' \notin {"copy", "pages"}
          BY MapPageEnds DEF MapStack
        <5> QED BY <4>2, <5>1, <5>2, <5>3
      <4>4. /\ pc = "pages" /\ pos \in Nat
            /\ (pc' = "pages" /\ pos' = pos + 1) \/ (pc' = "copy" /\ pos' = pos)
        BY <4>3, MapSegmentGoes
      <4>5. ~(i < pos)
        BY <2>4, <4>1, <4>2, <4>4 DEF SegmentMapped
      <4> QED BY <4>2, <4>3, <4>4, <4>5
    <3>2. virt = v /\ pc = "pages"
      <4>1. pc = "pages"
        BY <3>1 DEF MapSegment
      <4> QED BY <1>4, <3>1, <4>1 DEF MapsOne, MapLow, MapStack, MapPfndb
    <3>3. CASE pc' = "pages"
      <4>1. phys = FileFrame(k, i) /\ phys \in Images /\ ~IsOn(phys, mem.free)
        BY <1>5, <3>1, <3>2, <3>3 DEF MapsFrom
      <4>2. Leads(mem, v, phys)' /\ mem'.held[phys] = FileFrame(k, i)'
        BY <1>7, <1>9, <1>10, <1>11, <2>1, <3>2, <4>1 DEF Leads, Grown
      <4> QED BY <3>3, <4>2 DEF SegmentRight
    <3>4. CASE pc' = "copy"
      <4>1. phys \in 0..AddrFrames - 1 /\ ~IsOn(phys, m.free) /\ m.page = phys
        BY <1>5, <3>4 DEF MapsFrom
      <4>2. Leads(mem, v, phys)' /\ mem'.page = phys
        BY <1>7, <2>1, <3>2, <4>1 DEF Leads, Grown
      <4>3. pos' = pos
        BY <3>1, <3>4, MapSegmentGoes
      <4> QED BY <1>1, <3>1, <3>4, <4>2, <4>3 DEF SegmentRight
    <3> QED BY <3>1, <3>3, <3>4, MapSegmentGoes
  <2> QED BY <2>3, <2>4
<1>13. ASSUME pc' \in Late PROVE StackRight' /\ NodesRight'
  <2>1. CASE MapStack
    <3>1. pc = "stack" /\ pos' = pos /\ pos = 0 /\ pc' = "pfndb"
      <4>1. pc = "stack" /\ pos' = pos
        BY <2>1 DEF MapStack
      <4>2. PICK a, p, v : map_page(a, p, v, "pfndb")
        BY <2>1 DEF MapStack
      <4>3. pc' # "stopped"
        BY DEF Mapping, Late
      <4> QED BY <4>1, <4>2, <4>3, MapPageEnds DEF LoopInv
    <3>2. phys \in 0..AddrFrames - 1 /\ ~IsOn(phys, m.free) /\ m.held[phys] = Zeroed
      BY <1>5, <3>1 DEF MapsFrom
    <3>3. virt = kernel_stack_limit
      BY <1>4, <3>1 DEF MapsOne, MapLow, MapSegment, MapPfndb
    <3>4. \A p : IsOn(p, m.free) => Ptr(p) # phys
      BY <1>2, <1>8, <3>2, FreeFrames
    <3>5. mem'.held[phys] = Zeroed /\ ~IsOn(phys, mem'.free)
      BY <1>7, <3>2, <3>4 DEF Grown
    <3>6. Translate(mem'.tab, pml4', kernel_stack_limit') = phys
      BY <1>7, <1>11, <3>3
    <3>7. StackRight'
      BY <3>2, <3>5, <3>6 DEF StackRight, Leads
    <3>8. NodesRight'
      BY <1>11, <3>1 DEF NodesRight
    <3> QED BY <3>7, <3>8
  <2>2. CASE MapPfndb
    <3>1. /\ pc = "pfndb" /\ pos \in 0..pfndb_sz_pgs - 1 /\ pos' = pos + 1
          /\ pc' = IF pos + 1 = pfndb_sz_pgs THEN "shift" ELSE "pfndb"
      BY <2>2, MapPfndbGoes
    <3>2. StackRight /\ NodesRight
      BY <3>1, MappingPoints DEF ContentInv
    <3>3. StackRight'
      <4>1. PICK f : Leads(mem, kernel_stack_limit, f) /\ mem.held[f] = Zeroed
        BY <3>2 DEF StackRight
      <4>2. Leads(mem, kernel_stack_limit, f)' /\ mem'.held[f] = Zeroed
        BY <1>7, <1>11, <4>1 DEF Leads
      <4> QED BY <4>2 DEF StackRight
    <3>4. virt = kernel_pfndb_base + pos /\ phys = pfndb + pos
      <4>1. virt = kernel_pfndb_base + pos
        BY <1>4, <3>1 DEF MapsOne, MapLow, MapSegment, MapStack
      <4> QED BY <1>5, <3>1, <4>1 DEF MapsFrom
    <3>5. ASSUME NEW i \in 0..pfndb_sz_pgs - 1, i < pos \/ i = pos
          PROVE  Translate(mem'.tab, pml4', kernel_pfndb_base + i) = pfndb + i
      <4>1. CASE i = pos
        BY <1>7, <3>4, <4>1
      <4>2. CASE i < pos
        <5>1. Translate(mem.tab, pml4, kernel_pfndb_base + i) = pfndb + i
          BY <3>1, <3>2, <4>2 DEF NodesRight
        <5>2. pfndb + i # NoFrame
          BY <1>2 DEF PfndbPlaced, NoFrame
        <5> QED BY <1>7, <5>1, <5>2
      <4> QED BY <3>5, <4>1, <4>2
    <3>6. \A i \in 0..pfndb_sz_pgs - 1 : (pc' = "pfndb" => i < pos') => i < pos \/ i = pos
      BY <1>11, <3>1
    <3>7. NodesRight'
      BY <1>1, <1>11, <3>5, <3>6 DEF NodesRight
    <3> QED BY <3>3, <3>7
  <2>3. CASE MapLow \/ MapSegment
    <3>1. pc' \notin Late
      <4>1. MapLow => pc' \in {"low", "segment", "stopped"}
        BY MapPageEnds DEF MapLow
      <4>2. MapSegment => pc' \in {"pages", "copy"}
        BY MapSegmentGoes
      <4> QED BY <2>3, <4>1, <4>2, MappingPoints DEF Ends
    <3> QED BY <1>13, <3>1
  <2> QED BY <2>1, <2>2, <2>3
<1>14. KernelFits'
  BY <1>1, SameKernel DEF ContentInv
<1> QED BY <1>1, <1>12, <1>13, <1>14 DEF ContentInv

\* The copy of a page of the file.
LEMMA CopyContent ==
  ASSUME ListsInv, LoopInv, ImagesInv, TablesInv, ContentInv, CopyPage
  PROVE  ContentInv'
<1>1. /\ pc = "copy" /\ pc' = "pages" /\ UNCHANGED <<machine, pfndb, pml4>>
      /\ mem'.free = mem.free /\ mem'.tab = mem.tab
      /\ mem'.held = [mem.held EXCEPT ![Ptr(mem.page)] = mem.held[Ptr(FilePage)]]
  BY CopyPageStep DEF ListsInv
<1>2. pos' = pos + 1 /\ seg' = seg
  BY DEF CopyPage
<1>3. pc \in Mapping /\ pc' \notin Late /\ pc \in Work
  BY <1>1, MappingPoints
<1>4. /\ Ptr(mem.page) = mem.page /\ mem.page \in 0..AddrFrames - 1 /\ DOMAIN mem.held = 0..AddrFrames - 1
      /\ \A f \in Images : mem.held[f] = f /\ f \in 0..AddrFrames - 1
      /\ machine \in Machines /\ seg \in Nat /\ pos \in Nat
  <2>1. Ptr(mem.page) = mem.page /\ mem.page \in 0..AddrFrames - 1
    BY <1>1, <1>3 DEF TablesInv, Tabled
  <2>2. \A f \in Images : mem.held[f] = f /\ f \in 0..AddrFrames - 1
    BY <1>3 DEF ImagesInv, ListsBegun, Kept
  <2> QED BY <1>1, <2>1, <2>2 DEF ListsInv, MemRecord, LoopInv
<1> DEFINE h == mem.held
           p == mem.page
           c == mem.held[Ptr(FilePage)]
<1>5. mem'.held[p] = c /\ \A f \in 0..AddrFrames - 1 : f # p => mem'.held[f] = mem.held[f]
  <2>1. mem'.held = [h EXCEPT ![p] = c] /\ p \in DOMAIN h /\ DOMAIN h = 0..AddrFrames - 1
    BY <1>1, <1>4
  <2> HIDE DEF h, p, c
  <2>2. mem'.held[p] = c /\ \A f \in 0..AddrFrames - 1 : f # p => mem'.held[f] = h[f]
    BY <2>1
  <2> QED BY <2>2 DEF h
<1>6. ASSUME NEW k \in DOMAIN machine.segs, NEW i \in Nat, SegmentMapped(k, i)'
      PROVE  SegmentRight(k, i)'
  <2> DEFINE v == machine.segs[k].vaddr + i
             F == UpFrame(machine.segs[k].filesz)
  <2>1. v' = v /\ F' = F /\ FileFrame(k, i)' = FileFrame(k, i)
    BY <1>1, SameModule DEF UpFrame
  <2>2. UpFrame(machine.segs[k].memsz)' = UpFrame(machine.segs[k].memsz)
    BY <1>1 DEF UpFrame
  <2>3. SegmentMapped(k, i) /\ machine.segs[k].load
    <3>1. /\ machine.segs[k].load /\ i < UpFrame(machine.segs[k].memsz)
          /\ k < seg \/ (k = seg /\ i < pos + 1)
      BY <1>1, <1>2, <1>6, <2>2 DEF SegmentMapped
    <3>2. i < pos + 1 => i <= pos
      BY <1>4
    <3> QED BY <1>1, <3>1, <3>2 DEF SegmentMapped
  <2>4. PICK f : /\ Leads(mem, v, f)
                 /\ f = mem.page <=> (k = seg /\ i = pos)
                 /\ i < F /\ ~(k = seg /\ i = pos) => mem.held[f] = FileFrame(k, i)
    BY <1>1, <1>3, <2>3 DEF ContentInv, SegmentRight
  <2>5. Leads(mem, v, f)' /\ f \in 0..AddrFrames - 1
    BY <1>1, <2>1, <2>4 DEF Leads
  <2>6. i < F => mem'.held[f] = FileFrame(k, i)
    <3>1. CASE k = seg /\ i = pos
      <4> SUFFICES ASSUME i < F PROVE c = FileFrame(k, i)
        BY <1>5, <2>4, <3>1
      <4>1. FilePage = FileFrame(k, i)
        BY <3>1 DEF FilePage, FileFrame, Segment
      <4>2. F \in Nat
        BY <1>4, SegmentTyped
      <4>3. FileFrame(k, i) \in ModuleFrames
        <5>1. i \in 0..F - 1
          BY <4>2
        <5> QED BY <2>3, <5>1 DEF TablesInv, SegmentsInModule
      <4>4. FileFrame(k, i) \in Images
        BY <4>3 DEF Images
      <4> QED BY <1>4, <4>1, <4>4, PtrRange
    <3>2. CASE ~(k = seg /\ i = pos)
      BY <1>5, <2>4, <2>5, <3>2
    <3> QED BY <3>1, <3>2
  <2>7. pc' # "copy"
    BY <1>1
  <2> HIDE DEF v, F
  <2>8. \E g : /\ Leads(mem, v, g)'
               /\ pc' = "copy" => (g = mem'.page <=> (k = seg' /\ i = pos'))
               /\ i < F /\ ~(pc' = "copy" /\ k = seg' /\ i = pos') => mem'.held[g] = FileFrame(k, i)'
    BY <2>1, <2>5, <2>6, <2>7
  <2> QED BY <2>1, <2>8 DEF SegmentRight, v, F
<1>7. KernelFits'
  BY <1>1, SameKernel DEF ContentInv
<1> QED BY <1>1, <1>3, <1>6, <1>7 DEF ContentInv

\* A step that leaves memory alone.
LEMMA QuietContent ==
  ASSUME ListsInv, LoopInv, ContentInv, pc' \in Mapping,
         LoadElf \/ NextSegment \/ SegmentDone \/ Shift \/ KernelStep
  PROVE  ContentInv'
<1>1. /\ UNCHANGED <<machine, pfndb, pml4, mem>> /\ pc \in Mapping /\ pc # "copy" /\ pc' # "copy"
      /\ (pc' \in Late => pc \in Late /\ pc # "pfndb" /\ pc' # "pfndb")
      /\ machine \in Machines /\ seg \in Nat
  BY MappingPoints DEF LoadElf, NextSegment, SegmentDone, Shift, KernelStep, Asserted, Late, ListsInv, LoopInv, Ends
<1>2. /\ kernel_pfndb_base' = kernel_pfndb_base /\ kernel_stack_limit' = kernel_stack_limit
      /\ \A k, i : FileFrame(k, i)' = FileFrame(k, i)
      /\ pfndb_sz_pgs' = pfndb_sz_pgs /\ KernelFits' = KernelFits
  BY <1>1, SameModule, SameMachine, SameKernel
<1>3. ASSUME NEW k \in DOMAIN machine.segs, NEW i \in Nat, SegmentMapped(k, i)'
      PROVE  SegmentRight(k, i)'
  <2>1. /\ machine.segs[k].load /\ i < UpFrame(machine.segs[k].memsz)
        /\ k < seg' \/ (k = seg' /\ pc' = "pages" /\ i < pos')
    BY <1>1, <1>3 DEF SegmentMapped, UpFrame
  <2>2. k \in Nat
    BY <1>1, SegmentTyped
  <2>3. SegmentMapped(k, i)
    <3>1. CASE LoadElf \/ Shift \/ KernelStep
      <4>1. seg' = seg /\ pc' # "pages"
        BY <3>1, MappingPoints DEF LoadElf, Shift, KernelStep, Ends
      <4> QED BY <2>1, <4>1 DEF SegmentMapped
    <3>2. CASE NextSegment
      <4>1. pc = "load" /\ pos' = pos /\ pos = 0
        BY <3>2 DEF NextSegment, LoopInv
      <4>2. k < seg'
        BY <2>1, <4>1
      <4>3. seg' = seg \/ (seg' = seg + 1 /\ ~machine.segs[seg].load)
        BY <3>2 DEF NextSegment, Segment
      <4>4. k < seg
        BY <1>1, <2>1, <2>2, <4>2, <4>3
      <4> QED BY <2>1, <4>4 DEF SegmentMapped
    <3>3. CASE SegmentDone
      <4>1. pc = "pages" /\ pos = UpFrame(machine.segs[seg].memsz) /\ seg' = seg + 1 /\ pc' = "load"
        BY <3>3 DEF SegmentDone, SegmentPages, Segment
      <4>2. k < seg \/ k = seg
        BY <1>1, <2>1, <2>2, <4>1
      <4> QED BY <2>1, <4>1, <4>2 DEF SegmentMapped
    <3> QED BY <3>1, <3>2, <3>3
  <2>4. PICK f : /\ Leads(mem, machine.segs[k].vaddr + i, f)
                 /\ i < UpFrame(machine.segs[k].filesz) => mem.held[f] = FileFrame(k, i)
    BY <1>1, <2>3 DEF ContentInv, SegmentRight
  <2>5. Leads(mem, machine.segs[k].vaddr + i, f)'
    BY <1>1, <2>4 DEF Leads
  <2>6. (i < UpFrame(machine.segs[k].filesz))' => mem'.held[f] = FileFrame(k, i)'
    BY <1>1, <1>2, <2>4 DEF UpFrame
  <2> QED BY <1>1, <2>5, <2>6 DEF SegmentRight
<1>4. ASSUME pc' \in Late PROVE StackRight' /\ NodesRight'
  <2>1. StackRight /\ NodesRight
    BY <1>1, <1>4 DEF ContentInv
  <2>2. StackRight'
    BY <1>1, <1>2, <2>1 DEF StackRight, Leads
  <2>3. NodesRight'
    BY <1>1, <1>2, <1>4, <2>1 DEF NodesRight
  <2> QED BY <2>2, <2>3
<1> QED BY <1>1, <1>2, <1>3, <1>4 DEF ContentInv

LEMMA NextContentInv ==
  ListsInv /\ LoopInv /\ ImagesInv /\ TablesInv /\ ContentInv /\ [BootNext]_bootVars => ContentInv'
<1> SUFFICES ASSUME ListsInv, LoopInv, ImagesInv, TablesInv, ContentInv, [BootNext]_bootVars
             PROVE  ContentInv'
  OBVIOUS
<1>1. UNCHANGED machine
  <2>1. CASE Searches
    BY <2>1 DEF Searches
  <2> QED BY <2>1, SearchKinds, QuietKinds
       DEF ReservePfndb, BuildLists, SetupPaging, MapLow, MapSegment, CopyPage, MapStack, MapPfndb,
           LoadElf, NextSegment, SegmentDone, Shift, KernelStep, loaderVars
<1>2. KernelFits'
  BY <1>1, SameKernel DEF ContentInv
<1>3. CASE pc' \notin Mapping
  BY <1>2, <1>3, MappingPoints DEF ContentInv
<1>4. CASE FindModule \/ FindMmap \/ EarlyAlloc \/ ReservePfndb \/ BuildLists
  <2>1. pc' \notin Mapping
    <3>1. CASE FindModule \/ FindMmap \/ EarlyAlloc
      <4>1. pc' \in Early \cup Ends
        BY <3>1, SearchKinds DEF Searches, Early
      <4> QED BY <4>1, MappingPoints
    <3>2. CASE ReservePfndb
      BY <3>2, MappingPoints DEF ReservePfndb
    <3>3. CASE BuildLists
      <4>1. pc' \in {"fill", "paging", "stopped"}
        BY <3>3 DEF BuildLists, Asserted
      <4> QED BY <4>1, MappingPoints DEF Ends
    <3> QED BY <1>4, <3>1, <3>2, <3>3
  <2> QED BY <1>3, <2>1
<1>5. CASE SetupPaging
  <2>1. pc = "paging" /\ pc' \in {"low", "stopped"} /\ UNCHANGED seg
    BY <1>5 DEF SetupPaging, Go, Asserted
  <2>2. seg' = 1 /\ pc' \notin Late /\ pc' \notin {"pages", "copy"}
    BY <2>1, MappingPoints DEF LoopInv, Ends
  <2>3. \A k \in DOMAIN machine'.segs, i \in Nat : ~SegmentMapped(k, i)'
    <3> SUFFICES ASSUME NEW k \in DOMAIN machine.segs, NEW i \in Nat, SegmentMapped(k, i)' PROVE FALSE
      BY <1>1
    <3>1. k \in 1..Len(machine.segs) /\ Len(machine.segs) \in Nat
      BY SegmentTyped DEF ListsInv
    <3> QED BY <2>2, <3>1 DEF SegmentMapped
  <2> QED BY <1>2, <2>2, <2>3 DEF ContentInv
<1>6. CASE MapLow \/ MapSegment \/ MapStack \/ MapPfndb
  BY <1>3, <1>6, MapsContent
<1>7. CASE CopyPage
  BY <1>7, CopyContent
<1>8. CASE LoadElf \/ NextSegment \/ SegmentDone \/ Shift \/ KernelStep
  BY <1>3, <1>8, QuietContent
<1>9. CASE UNCHANGED loaderVars
  <2>1. UNCHANGED <<machine, pc, pos, seg, pfndb, pml4, mem>>
    BY <1>9 DEF loaderVars
  <2>2. /\ kernel_pfndb_base' = kernel_pfndb_base /\ kernel_stack_limit' = kernel_stack_limit
        /\ \A k, i : FileFrame(k, i)' = FileFrame(k, i)
        /\ pfndb_sz_pgs' = pfndb_sz_pgs
    BY <2>1, SameModule, SameMachine
  <2>3. \A k, i : SegmentMapped(k, i)' = SegmentMapped(k, i) /\ (SegmentRight(k, i) => SegmentRight(k, i)')
    BY <2>1, <2>2 DEF SegmentMapped, SegmentRight, Leads, UpFrame
  <2>4. StackRight => StackRight'
    BY <2>1, <2>2 DEF StackRight, Leads
  <2>5. NodesRight => NodesRight'
    BY <2>1, <2>2 DEF NodesRight
  <2> QED BY <1>2, <2>1, <2>3, <2>4, <2>5 DEF ContentInv
<1> QED BY <1>4, <1>5, <1>6, <1>7, <1>8, <1>9, QuietKinds

LEMMA ContentInvariance ==
  BootSpec /\ Aligned /\ Fits /\ SegmentsInModule /\ KernelFits => []ContentInv
<1>1. BootInit /\ KernelFits => ContentInv
  <2> SUFFICES ASSUME BootInit, KernelFits PROVE ContentInv
    OBVIOUS
  <2>1. pc = "module"
    BY DEF BootInit, LoaderInit
  <2> QED BY <2>1 DEF ContentInv, Mapping, Late
<1> QED BY <1>1, NextContentInv, ListsInvariance, LoopInvariance, ImagesInvariance, TablesInvariance, PTL
     DEF BootSpec

\* Where the kernel looks for a node of the PFNDB.
LEMMA NodePlace ==
  ASSUME machine \in Machines, LoopInv, pc \in Late, pc # "pfndb", pc # "shift", pfndb \in Nat,
         NEW f \in 0..total_phys_pgs - 1
  PROVE  /\ DownFrame(f * SizeofPage) \in 0..pfndb_sz_pgs - 1
         /\ DownFrame(NodeAddress(f)) = kernel_pfndb_base + DownFrame(f * SizeofPage)
<1> DEFINE n == PageSize
           x == f * SizeofPage
           q == x \div n
           r == x % n
           K == kernel_pfndb_base
<1>1. n \in Nat \ {0} /\ SizeofPage \in Nat \ {0} /\ K \in Nat
  BY LoaderAssumption, AddressNumbers
<1>2. PICK t \in Nat : t = total_phys_pgs /\ pfndb_sz_bytes = t * SizeofPage /\ pfndb_sz_pgs \in Nat
  BY MemoryNumbers DEF pfndb_sz_bytes
<1>3. f \in Nat /\ f + 1 <= t
  BY <1>2
<1>4. x \in Nat /\ t * SizeofPage \in Nat /\ x < t * SizeofPage
  <2>1. (f + 1) * SizeofPage <= t * SizeofPage
    BY <1>1, <1>2, <1>3
  <2>2. (f + 1) * SizeofPage = f * SizeofPage + SizeofPage
    BY <1>1, <1>3
  <2>3. f * SizeofPage \in Nat /\ t * SizeofPage \in Nat
    BY <1>1, <1>2, <1>3
  <2> QED BY <1>1, <2>1, <2>2, <2>3
<1>5. base = K * n
  <2>1. base = pfndb * n + (K - pfndb) * n
    BY MappingPoints DEF LoopInv
  <2>2. pfndb * n + (K - pfndb) * n = K * n
    BY <1>1
  <2> QED BY <2>1, <2>2
<1>6. NodeAddress(f) = K * n + x
  BY <1>5 DEF NodeAddress
<1> HIDE DEF x, K
<1>7. q \in Nat /\ r \in 0..n - 1 /\ x = q * n + r
  BY <1>1, <1>4, Divided
<1>8. DownFrame(x) = q
  BY DEF DownFrame
<1> HIDE DEF q, r, n
<1>9. q * n < pfndb_sz_bytes
  <2>1. q * n \in Nat
    BY <1>1, <1>7
  <2> QED BY <1>2, <1>4, <1>7, <2>1
<1>10. q \in 0..pfndb_sz_pgs - 1
  <2>1. q < UpFrame(t * SizeofPage)
    BY <1>2, <1>4, <1>7, <1>9, BelowUp DEF n
  <2> QED BY <1>2, <1>7, <2>1 DEF pfndb_sz_pgs
<1>11. DownFrame(K * n + x) = K + q
  <2>1. K * n + x = (K + q) * n + r
    BY <1>1, <1>7
  <2>2. K * n \in Nat /\ (K + q) * n \in Nat /\ (K + q + 1) * n = (K + q) * n + n
    BY <1>1, <1>7
  <2>3. PICK a \in Int : a = K * n + x
    BY <1>4, <2>2
  <2>4. DownFrame(a) \in Int /\ K + q <= DownFrame(a) /\ ~(K + q + 1 <= DownFrame(a))
    BY <1>1, <1>7, <2>1, <2>2, <2>3, BelowDown DEF n
  <2> QED BY <1>1, <1>7, <2>3, <2>4
<1> QED BY <1>6, <1>8, <1>10, <1>11 DEF x, K

LEMMA KernelLoadedOf == ListsInv /\ LoopInv /\ ImagesInv /\ ContentInv => KernelLoaded
<1> SUFFICES ASSUME ListsInv, LoopInv, ImagesInv, ContentInv, Entered PROVE KernelLoaded
  BY DEF KernelLoaded
<1>1. pc \in Late /\ pc \in Mapping /\ pc \notin {"pfndb", "shift", "copy", "pages", "fill"} /\ pc \in Work
  BY MappingPoints DEF Entered, Late, Work
<1>2. machine \in Machines /\ seg \in Nat /\ seg > Len(machine.segs) /\ pfndb \in Nat
  BY <1>1 DEF ListsInv, LoopInv, ImagesInv, ListsBegun, PfndbPlaced
<1>3. ASSUME NEW k \in DOMAIN machine.segs, machine.segs[k].load,
             NEW i \in 0..UpFrame(machine.segs[k].filesz) - 1
      PROVE  LET f == Translate(mem.tab, pml4, machine.segs[k].vaddr + i)
             IN f # NoFrame /\ mem.held[Ptr(f)] = DownFrame(machine.mod.begin) + machine.segs[k].offset + i
  <2>1. PICK F \in Nat, M \in Nat, a \in Nat, b \in Nat :
          /\ F = UpFrame(machine.segs[k].filesz) /\ M = UpFrame(machine.segs[k].memsz)
          /\ a = machine.segs[k].filesz /\ b = machine.segs[k].memsz
    BY <1>2, SegmentTyped
  <2>2. i \in Nat /\ i < F
    BY <2>1
  <2>3. a <= b
    BY <1>3, <2>1 DEF KernelFits, ContentInv
  <2>4. i < M
    <3>1. i * PageSize < a
      BY <2>1, <2>2, BelowUp
    <3>2. i * PageSize \in Nat
      BY <2>2, LoaderAssumption
    <3>3. i * PageSize < b
      BY <2>3, <3>1, <3>2
    <3> QED BY <2>1, <2>2, <3>3, BelowUp
  <2>5. k < seg
    <3>1. k \in 1..Len(machine.segs) /\ Len(machine.segs) \in Nat
      BY <1>2, SegmentTyped
    <3> QED BY <1>2, <3>1
  <2>6. SegmentMapped(k, i)
    BY <1>3, <2>1, <2>4, <2>5 DEF SegmentMapped
  <2>7. PICK f : Leads(mem, machine.segs[k].vaddr + i, f) /\ mem.held[f] = FileFrame(k, i)
    BY <1>1, <2>1, <2>2, <2>6 DEF ContentInv, SegmentRight
  <2>8. Translate(mem.tab, pml4, machine.segs[k].vaddr + i) = f /\ f \in 0..AddrFrames - 1
    BY <2>7 DEF Leads
  <2>9. f # NoFrame /\ Ptr(f) = f
    BY <2>8, PtrRange DEF NoFrame
  <2> QED BY <2>7, <2>8, <2>9 DEF FileFrame
<1>4. mem.held[Ptr(Translate(mem.tab, pml4, kernel_stack_limit))] = Zeroed
  <2>1. PICK f : Leads(mem, kernel_stack_limit, f) /\ mem.held[f] = Zeroed
    BY <1>1 DEF ContentInv, StackRight
  <2> QED BY <2>1, PtrRange DEF Leads
<1>5. ASSUME NEW f \in ToSet(mem.free \o mem.rsrv)
      PROVE  NodeFrame(f) = pfndb + DownFrame(f * SizeofPage)
  <2>1. f \in 0..total_phys_pgs - 1
    <3>1. FramesPartitioned
      BY FramesPartitionedOf
    <3>2. CASE mem.rsrv # <<>>
      BY <1>1, <1>5, <3>1, <3>2 DEF FramesPartitioned, ListsBuilt
    <3>3. CASE mem.rsrv = <<>>
      <4> DEFINE S == 0..total_phys_pgs - 1
                 p == mem.free
      <4>1. p \in Seq(S)
        BY <1>1 DEF ListsInv, ListsBegun, Listed
      <4> HIDE DEF S, p
      <4>2. f \in ToSet(p \o <<>>) /\ p \o <<>> = p
        BY <1>5, <3>3, <4>1 DEF p
      <4>3. f \in S
        BY <4>1, <4>2, ToSetMembers
      <4> QED BY <4>3 DEF S
    <3> QED BY <3>2, <3>3
  <2>2. /\ DownFrame(f * SizeofPage) \in 0..pfndb_sz_pgs - 1
        /\ DownFrame(NodeAddress(f)) = kernel_pfndb_base + DownFrame(f * SizeofPage)
    BY <1>1, <1>2, <2>1, NodePlace
  <2>3. Translate(mem.tab, pml4, kernel_pfndb_base + DownFrame(f * SizeofPage)) = pfndb + DownFrame(f * SizeofPage)
    BY <1>1, <2>2 DEF ContentInv, NodesRight
  <2> QED BY <2>2, <2>3 DEF NodeFrame
<1> QED BY <1>3, <1>4, <1>5 DEF KernelLoaded

\* The kernel starts with its segments, its stack and the PFNDB where it will
\* look for them (main.cc:161-210), if memory is within 32 bits and the file
\* has segments that fit.
THEOREM Loaded == BootSpec /\ Aligned /\ Fits /\ SegmentsInModule /\ KernelFits => []KernelLoaded
<1>1. ListsInv /\ LoopInv /\ ImagesInv /\ ContentInv => KernelLoaded
  BY KernelLoadedOf
<1> QED BY <1>1, ListsInvariance, LoopInvariance, ImagesInvariance, ContentInvariance, PTL

=============================================================================
