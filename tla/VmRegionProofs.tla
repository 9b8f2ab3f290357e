--------------------------- MODULE VmRegionProofs ---------------------------
(***************************************************************************)
(* The tree of virtual memory regions keeps its order, its bounds and its  *)
(* links, and the allocator is first fit, for any number of regions and    *)
(* any sizes, as long as the sums the code takes of addresses do not wrap. *)
(***************************************************************************)
EXTENDS VmRegion, SequenceLemmas, SequenceTheorems, TLAPS

-----------------------------------------------------------------------------
\* No sum that foreach_hole or allocate_vmr_compact takes of a base, a size
\* and an alignment wraps.  The code does not test it: user_root_ ends far
\* below 2^64, and callers have to keep their sizes and alignments small.
NoWrap ==
  /\ 2 * RootSize < VaddrPages
  /\ \A sz \in Sizes : RootSize + sz < VaddrPages
  /\ \A sz \in Sizes, align \in Aligns : RootSize + align + sz <= VaddrPages

\* Every base is an offset into a region that itself ends below RootSize.
Bounded == \A r \in made : End(r) <= RootSize

\* The allocator looks for room in 0..size of the parent, wherever that is.
Fitted ==
  \A r \in made : \A c \in ToSet(children[r]) :
    End(c) <= size[r] /\ capability[c] \subseteq capability[r]

\* A region that is not constructed has no children.
Unmade == \A r \in Regions \ made : children[r] = <<>>

IInv == /\ VmrTypeOK /\ ChildrenOrdered /\ Fitted /\ ForestLinked
        /\ Bounded /\ Unmade

-----------------------------------------------------------------------------
(* Arithmetic. *)

\* align_up where it does not wrap.
Up(x, a) == ((x + a - 1) \div a) * a

LEMMA UpAligned ==
  ASSUME NEW a \in Nat \ {0}, NEW x \in Nat
  PROVE  Up(x, a) \in Nat /\ x <= Up(x, a) /\ Up(x, a) <= x + a - 1 /\ Up(x, a) % a = 0
<1>1. PICK q \in Nat : q = (x + a - 1) \div a
  OBVIOUS
<1>2. x <= q * a /\ q * a <= x + a - 1
  BY <1>1
<1>3. q * a \in Nat /\ (q * a) % a = 0
  OBVIOUS
<1> QED BY <1>1, <1>2, <1>3 DEF Up

\* A sum or difference that stays in range is not changed by the wrap.
LEMMA NoWrapping ==
  ASSUME NEW x \in 0..VaddrPages - 1
  PROVE  x % VaddrPages = x
  BY VmRegionAssumption

\* It is the least multiple of a that is at least x.
LEMMA UpLeast ==
  ASSUME NEW a \in Nat \ {0}, NEW x \in Nat, NEW b \in Nat, b % a = 0, x <= b
  PROVE  Up(x, a) <= b
<1>1. PICK k \in Nat : k = (x + a - 1) \div a /\ k * a <= x + a - 1
  OBVIOUS
<1>2. PICK q \in Nat : b = q * a
  <2>1. b = (b \div a) * a /\ b \div a \in Nat
    OBVIOUS
  <2> QED BY <2>1
<1>3. ASSUME k <= q PROVE k * a <= b
  BY <1>2, <1>3
<1>4. ASSUME k >= q + 1 PROVE FALSE
  <2>1. (q + 1) * a <= k * a
    BY <1>4
  <2>2. (q + 1) * a = b + a
    BY <1>2
  <2>3. q * a + a <= x + a - 1
    BY <1>1, <1>2, <2>1, <2>2
  <2> QED BY <1>2, <2>3
<1>5. Up(x, a) = k * a
  BY <1>1 DEF Up
<1>6. k * a <= b
  BY <1>3, <1>4
<1> QED BY <1>5, <1>6

-----------------------------------------------------------------------------
(* Holes. *)

\* Where the holes of a region begin and end: nothing wraps.
LEMMA Holes ==
  ASSUME VmrTypeOK, Bounded, NoWrap, NEW r \in made, NEW i \in Positions(r)
  PROVE  /\ children[r] \in Seq(made) /\ Len(children[r]) \in Nat
         /\ i \in Nat /\ i >= 1 /\ i <= Len(children[r]) + 1
         /\ i = 1 => Offset(r, i) = 0
         /\ i > 1 => Offset(r, i) = End(children[r][i - 1]) /\ children[r][i - 1] \in made
         /\ i <= Len(children[r]) =>
              HoleEnd(r, i) = base[children[r][i]] /\ children[r][i] \in made
         /\ i > Len(children[r]) => HoleEnd(r, i) = End(r)
         /\ Offset(r, i) \in 0..RootSize /\ HoleEnd(r, i) \in 0..RootSize
<1> DEFINE s == children[r]
           n == Len(s)
<1>1. /\ s \in Seq(made) /\ n \in Nat /\ i \in 1..n + 1
  BY DEF VmrTypeOK, Positions
<1>2. RootSize \in Nat /\ VaddrPages \in Nat /\ RootSize < VaddrPages
  BY VmRegionAssumption
<1>3. ASSUME NEW c \in made
      PROVE  /\ base[c] \in 0..RootSize /\ size[c] \in Nat
             /\ End(c) = base[c] + size[c] /\ End(c) \in 0..RootSize
             /\ Add(base[c], size[c]) = End(c)
  <2>1. base[c] \in Nat /\ size[c] \in Nat /\ base[c] + size[c] <= RootSize
    BY <1>2 DEF VmrTypeOK, Bounded, End
  <2>2. base[c] + size[c] \in 0..VaddrPages - 1
    BY <1>2, <2>1
  <2>3. Add(base[c], size[c]) = base[c] + size[c]
    BY <2>2, NoWrapping DEF Add
  <2> QED BY <1>2, <2>1, <2>3 DEF End
<1>4. /\ \A j \in 1..n : s[j] \in made
      /\ (i > 1 => i - 1 \in 1..n) /\ (i <= n => i \in 1..n)
  BY <1>1
<1>5. /\ Offset(r, i) = IF i = 1 THEN 0 ELSE Add(base[s[i - 1]], size[s[i - 1]])
      /\ HoleEnd(r, i) = IF i > n THEN Add(base[r], size[r]) ELSE base[s[i]]
  BY DEF Offset, HoleEnd
<1> HIDE DEF s, n
<1>6. /\ i \in Nat /\ i >= 1 /\ i <= n + 1
      /\ i = 1 => Offset(r, i) = 0
      /\ i > 1 => Offset(r, i) = End(s[i - 1]) /\ s[i - 1] \in made
      /\ i <= n => HoleEnd(r, i) = base[s[i]] /\ s[i] \in made
      /\ i > n => HoleEnd(r, i) = End(r)
  BY <1>1, <1>3, <1>4, <1>5
<1>7. Offset(r, i) \in 0..RootSize /\ HoleEnd(r, i) \in 0..RootSize
  BY <1>1, <1>2, <1>3, <1>6
<1> QED BY <1>1, <1>6, <1>7 DEF s, n

\* What the test of the callback means.
LEMMA FitsMeaning ==
  ASSUME VmrTypeOK, Bounded, NoWrap, NEW r \in made, NEW i \in Positions(r),
         NEW sz \in Sizes, NEW align \in Aligns
  PROVE  /\ Place(r, i, align) = Up(Offset(r, i), align)
         /\ align \in Nat \ {0} /\ sz \in Nat
         /\ Place(r, i, align) \in Nat /\ Offset(r, i) <= Place(r, i, align)
         /\ Place(r, i, align) % align = 0
         /\ Fits(r, i, sz, align) <=>
              /\ base[r] + Offset(r, i) < HoleEnd(r, i)
              /\ Place(r, i, align) + sz <= HoleEnd(r, i) - base[r]
<1> DEFINE o == Offset(r, i)
           e == HoleEnd(r, i)
           b == base[r]
           p == Up(o, align)
<1>1. o \in 0..RootSize /\ e \in 0..RootSize
  BY Holes
<1>2. /\ RootSize \in Nat /\ VaddrPages \in Nat /\ align \in Nat \ {0} /\ sz \in Nat
      /\ 2 * RootSize < VaddrPages /\ RootSize + align + sz <= VaddrPages
  BY VmRegionAssumption DEF NoWrap
<1>3. b \in 0..RootSize
  BY <1>2 DEF VmrTypeOK, Bounded, End
<1>4. /\ Place(r, i, align) = (Add(o, align - 1) \div align) * align
      /\ Fits(r, i, sz, align) <=>
           /\ e > Add(b, o)
           /\ Add(Place(r, i, align), sz) <= Add(o, Sub(Sub(e, b), o))
  BY DEF Place, AlignUp, Fits, IsHole, HoleSize
<1> HIDE DEF o, e, b
<1>5. /\ Add(b, o) = b + o /\ Add(o, align - 1) = o + align - 1
      /\ e > b + o => Add(o, Sub(Sub(e, b), o)) = e - b
  <2>1. b + o \in 0..VaddrPages - 1 /\ o + align - 1 \in 0..VaddrPages - 1
    BY <1>1, <1>2, <1>3
  <2>2. ASSUME e > b + o PROVE Add(o, Sub(Sub(e, b), o)) = e - b
    <3>1. /\ e - b \in 0..VaddrPages - 1 /\ (e - b) - o \in 0..VaddrPages - 1
      BY <1>1, <1>2, <1>3, <2>2
    <3>2. Sub(e, b) = e - b /\ Sub(e - b, o) = (e - b) - o
      BY <3>1, NoWrapping DEF Sub
    <3>3. o + ((e - b) - o) = e - b
      BY <1>1, <1>3
    <3>4. Add(o, (e - b) - o) = e - b
      BY <3>1, <3>3, NoWrapping DEF Add
    <3> QED BY <3>2, <3>4
  <2>3. Add(b, o) = b + o /\ Add(o, align - 1) = (o + (align - 1))
    BY <1>1, <1>2, <1>3, <2>1, NoWrapping DEF Add
  <2> QED BY <1>1, <1>2, <2>2, <2>3
<1>6. p \in Nat /\ o <= p /\ p <= o + align - 1 /\ p % align = 0
  <2>1. o \in Nat /\ align \in Nat \ {0}
    BY <1>1, <1>2
  <2> HIDE DEF p
  <2>2. Up(o, align) \in Nat /\ o <= Up(o, align) /\ Up(o, align) <= o + align - 1
        /\ Up(o, align) % align = 0
    BY <2>1, UpAligned, Zenon
  <2> QED BY <2>2 DEF p
<1>7. Place(r, i, align) = p
  BY <1>4, <1>5 DEF Up
<1> HIDE DEF p
<1>8. Add(p, sz) = p + sz
  <2>1. p + sz \in 0..VaddrPages - 1
    BY <1>1, <1>2, <1>6
  <2> QED BY <2>1, NoWrapping DEF Add
<1>9. Fits(r, i, sz, align) <=> b + o < e /\ p + sz <= e - b
  BY <1>1, <1>3, <1>4, <1>5, <1>7, <1>8
<1> QED BY <1>2, <1>6, <1>7, <1>9 DEF o, e, b, p

\* The members of a list of children.
LEMMA Listing ==
  ASSUME VmrTypeOK, NEW r \in Regions
  PROVE  /\ children[r] \in Seq(made) /\ Len(children[r]) \in Nat
         /\ \A i \in 1..Len(children[r]) : children[r][i] \in made /\ children[r][i] \in Regions
         /\ \A x : x \in ToSet(children[r]) <=> \E i \in 1..Len(children[r]) : children[r][i] = x
<1>1. children[r] \in Seq(made) /\ made \subseteq Regions
  BY DEF VmrTypeOK
<1> QED BY <1>1, ToSetMembers

LEMMA Numbers ==
  ASSUME VmrTypeOK, NEW c \in made
  PROVE  /\ c \in Regions /\ base[c] \in Nat /\ size[c] \in Nat
         /\ End(c) = base[c] + size[c] /\ End(c) \in Nat
         /\ base[c] <= VaddrPages - 1 /\ size[c] <= VaddrPages - 1
  BY VmRegionAssumption DEF VmrTypeOK, End

\* A region that fits at position i lies between the children around it.
LEMMA Between ==
  ASSUME IInv, NoWrap, NEW r \in made, NEW i \in Positions(r),
         NEW sz \in Sizes, NEW align \in Aligns, Fits(r, i, sz, align)
  PROVE  LET p == Place(r, i, align) IN
         /\ p \in Nat /\ sz \in Nat /\ p + sz <= size[r]
         /\ \A m \in 1..Len(children[r]) :
              /\ m < i => End(children[r][m]) <= p
              /\ m >= i => p + sz <= base[children[r][m]]
<1> DEFINE p == Place(r, i, align)
           s == children[r]
           n == Len(s)
<1>1. VmrTypeOK /\ Bounded /\ ChildrenOrdered /\ Fitted
  BY DEF IInv
<1>2. /\ p \in Nat /\ sz \in Nat /\ Offset(r, i) <= p
      /\ base[r] + Offset(r, i) < HoleEnd(r, i) /\ p + sz <= HoleEnd(r, i) - base[r]
  BY <1>1, FitsMeaning
<1>3. /\ n \in Nat /\ i \in Nat /\ i >= 1 /\ i <= n + 1
      /\ i > 1 => Offset(r, i) = End(s[i - 1])
      /\ i <= n => HoleEnd(r, i) = base[s[i]]
      /\ i > n => HoleEnd(r, i) = End(r)
      /\ Offset(r, i) \in Nat /\ HoleEnd(r, i) \in Nat
  BY <1>1, Holes, VmRegionAssumption
<1>4. \A m \in 1..n : s[m] \in made /\ s[m] \in ToSet(s)
  BY <1>1, Listing DEF VmrTypeOK
<1>5. \A m \in 1..n : /\ base[s[m]] \in Nat /\ size[s[m]] \in Nat
                      /\ End(s[m]) = base[s[m]] + size[s[m]] /\ End(s[m]) \in Nat
  BY <1>1, <1>4, Numbers
<1>6. base[r] \in Nat /\ size[r] \in Nat /\ End(r) = base[r] + size[r]
  BY <1>1, Numbers
<1>7. /\ \A m, l \in 1..n : m < l => End(s[m]) <= base[s[l]]
      /\ \A m \in 1..n : End(s[m]) <= size[r]
  BY <1>1, <1>4 DEF ChildrenOrdered, Fitted
<1> HIDE DEF p, s, n
<1>8. ASSUME NEW m \in 1..n, m < i PROVE End(s[m]) <= p
  <2>1. i - 1 \in 1..n /\ i > 1
    BY <1>3, <1>8
  <2>2. End(s[i - 1]) <= p /\ base[s[i - 1]] <= End(s[i - 1])
    BY <1>2, <1>3, <1>5, <2>1
  <2>3. CASE m = i - 1
    BY <2>2, <2>3
  <2>4. CASE m < i - 1
    <3>1. End(s[m]) <= base[s[i - 1]]
      BY <1>7, <2>1, <2>4
    <3> QED BY <1>2, <1>5, <2>1, <2>2, <3>1
  <2> QED BY <1>3, <1>8, <2>3, <2>4
<1>9. ASSUME NEW m \in 1..n, m >= i PROVE p + sz <= base[s[m]]
  <2>1. i \in 1..n
    BY <1>3, <1>9
  <2>2. p + sz <= base[s[i]]
    BY <1>2, <1>3, <1>5, <1>6, <2>1
  <2>3. CASE m = i
    BY <2>2, <2>3
  <2>4. CASE m > i
    <3>1. End(s[i]) <= base[s[m]]
      BY <1>7, <2>1, <2>4
    <3> QED BY <1>2, <1>5, <2>1, <2>2, <3>1
  <2> QED BY <1>3, <1>9, <2>3, <2>4
<1>10. p + sz <= size[r]
  <2>1. CASE i > n
    BY <1>2, <1>3, <1>6, <2>1
  <2>2. CASE i <= n
    <3>1. i \in 1..n
      BY <1>3, <2>2
    <3>2. p + sz <= base[s[i]]
      BY <1>3, <1>9, <3>1
    <3> QED BY <1>2, <1>5, <1>6, <1>7, <3>1, <3>2
  <2> QED BY <1>3, <2>1, <2>2
<1> QED BY <1>2, <1>8, <1>9, <1>10 DEF p, s, n

-----------------------------------------------------------------------------
(* Allocation. *)

\* What the first-fit allocation does, with a name for each thing it picks.
LEMMA Allocated ==
  ASSUME IInv, NoWrap, NEW r \in made, NEW sz \in Sizes, NEW align \in Aligns,
         NEW caps \in SUBSET Caps, Fitting(r, sz, align) # {},
         AllocateFirstFit(r, sz, align, caps)
  PROVE  \E i \in Positions(r), new \in Regions \ made :
           /\ Fits(r, i, sz, align)
           /\ base' = [base EXCEPT ![new] = Place(r, i, align)]
           /\ size' = [size EXCEPT ![new] = sz]
           /\ capability' = [capability EXCEPT ![new] = caps]
           /\ parent' = [parent EXCEPT ![new] = r]
           /\ children' = [children EXCEPT ![r] = InsertAt(children[r], i, new)]
           /\ made' = made \cup {new}
           /\ returned' = "OK"
           /\ UNCHANGED <<destroyed, broken, null_read>>
<1> DEFINE i == Min(Fitting(r, sz, align))
           new == Min(Regions \ made)
<1>1. VmrTypeOK
  BY DEF IInv
<1>2. Fitting(r, sz, align) \subseteq Nat
  BY <1>1, Listing DEF Fitting, Positions, VmrTypeOK
<1>3. i \in Fitting(r, sz, align)
  BY <1>2, LeastElement
<1>4. i \in Positions(r) /\ Fits(r, i, sz, align)
  BY <1>3 DEF Fitting
<1>5. new \in Regions \ made
  <2>1. Regions \ made \subseteq Nat /\ Regions \ made # {}
    BY <1>1, VmRegionAssumption DEF AllocateFirstFit, VmrTypeOK
  <2> QED BY <2>1, LeastElement
<1>6. /\ base' = [base EXCEPT ![new] = Place(r, i, align)]
      /\ size' = [size EXCEPT ![new] = sz]
      /\ capability' = [capability EXCEPT ![new] = caps]
      /\ parent' = [parent EXCEPT ![new] = r]
      /\ children' = [children EXCEPT ![r] = InsertAt(children[r], i, new)]
      /\ made' = made \cup {new}
      /\ returned' = "OK"
      /\ UNCHANGED <<destroyed, broken, null_read>>
  BY DEF AllocateFirstFit, InsertChild
<1> HIDE DEF i, new
<1> QED BY <1>4, <1>5, <1>6

LEMMA AllocateStep ==
  ASSUME IInv, NoWrap, NEW r \in made, NEW sz \in Sizes, NEW align \in Aligns,
         NEW caps \in SUBSET Caps, Permitted(r, caps), Fitting(r, sz, align) # {},
         AllocateFirstFit(r, sz, align, caps)
  PROVE  IInv'
<1>1. PICK i \in Positions(r), new \in Regions \ made :
           /\ Fits(r, i, sz, align)
           /\ base' = [base EXCEPT ![new] = Place(r, i, align)]
           /\ size' = [size EXCEPT ![new] = sz]
           /\ capability' = [capability EXCEPT ![new] = caps]
           /\ parent' = [parent EXCEPT ![new] = r]
           /\ children' = [children EXCEPT ![r] = InsertAt(children[r], i, new)]
           /\ made' = made \cup {new}
           /\ returned' = "OK"
           /\ UNCHANGED <<destroyed, broken, null_read>>
  BY Allocated
<1> DEFINE p == Place(r, i, align)
           s == children[r]
           n == Len(s)
           z == InsertAt(s, i, new)
<1>2. VmrTypeOK /\ ChildrenOrdered /\ Fitted /\ ForestLinked /\ Bounded /\ Unmade
  BY DEF IInv
<1>3. /\ p \in Nat /\ sz \in Nat /\ p + sz <= size[r]
      /\ \A m \in 1..n : /\ m < i => End(s[m]) <= p
                         /\ m >= i => p + sz <= base[s[m]]
  BY <1>1, Between
<1>4. /\ r \in Regions /\ new \in Regions /\ new \notin made /\ new # r
      /\ made \subseteq Regions /\ r \in made
  BY <1>2 DEF VmrTypeOK
<1>5. /\ s \in Seq(made) /\ n \in Nat /\ i \in 1..n + 1
      /\ \A m \in 1..n : s[m] \in made
  BY <1>2, <1>4, Listing DEF Positions
<1>6. /\ z \in Seq(made') /\ Len(z) = n + 1
      /\ \A j \in 1..n + 1 : z[j] = IF j < i THEN s[j] ELSE IF j = i THEN new ELSE s[j - 1]
  <2> DEFINE M == made \cup {new}
  <2>1. s \in Seq(M) /\ new \in M /\ i \in 1..Len(s) + 1
    BY <1>5
  <2>2. made' = M
    BY <1>1
  <2> HIDE DEF M, s
  <2>3. /\ z \in Seq(M) /\ Len(z) = Len(s) + 1
        /\ \A j \in 1..Len(s) + 1 :
             z[j] = IF j < i THEN s[j] ELSE IF j = i THEN new ELSE s[j - 1]
    <3> SUFFICES ASSUME NEW S, NEW ss \in Seq(S), NEW x \in S, NEW k \in 1..Len(ss) + 1,
                        S = M, ss = s, x = new, k = i
                 PROVE  /\ z \in Seq(M) /\ Len(z) = Len(s) + 1
                        /\ \A j \in 1..Len(s) + 1 :
                           z[j] = IF j < i THEN s[j] ELSE IF j = i THEN new ELSE s[j - 1]
      BY <2>1
    <3>1. /\ InsertAt(ss, k, x) \in Seq(S) /\ Len(InsertAt(ss, k, x)) = Len(ss) + 1
          /\ \A j \in 1..Len(ss) + 1 : InsertAt(ss, k, x)[j] =
               IF j < k THEN ss[j] ELSE IF j = k THEN x ELSE ss[j - 1]
      BY InsertAtProperties
    <3>2. z = InsertAt(ss, k, x)
      OBVIOUS
    <3> HIDE DEF z
    <3> QED BY <3>1, <3>2
  <2> QED BY <2>2, <2>3
<1>7. /\ \A q \in Regions : children'[q] = IF q = r THEN z ELSE children[q]
      /\ \A q \in made : base'[q] = base[q] /\ size'[q] = size[q]
                           /\ capability'[q] = capability[q] /\ parent'[q] = parent[q]
      /\ base'[new] = p /\ size'[new] = sz /\ capability'[new] = caps /\ parent'[new] = r
      /\ made' = made \cup {new}
  BY <1>1, <1>2, <1>4 DEF VmrTypeOK
<1>8. children[new] = <<>> /\ Len(children[new]) = 0
  BY <1>2, <1>4 DEF Unmade
<1>9. /\ size[r] \in Nat /\ base[r] \in Nat /\ size[r] <= VaddrPages - 1
      /\ base[r] + size[r] <= RootSize /\ RootSize \in Nat /\ VaddrPages \in Nat
  BY <1>2, Numbers, VmRegionAssumption DEF Bounded, End
<1> HIDE DEF p, s, n, z
<1>10. VmrTypeOK'
  <2>1. base' \in [Regions -> 0..VaddrPages - 1]
    <3>1. p \in 0..VaddrPages - 1
      BY <1>3, <1>9
    <3> QED BY <1>1, <1>2, <3>1 DEF VmrTypeOK, p
  <2>2. size' \in [Regions -> 0..VaddrPages - 1]
    <3>1. sz \in 0..VaddrPages - 1
      BY <1>3, <1>9
    <3> QED BY <1>1, <1>2, <3>1 DEF VmrTypeOK
  <2>3. capability' \in [Regions -> SUBSET Caps]
    BY <1>1, <1>2 DEF VmrTypeOK
  <2>4. parent' \in [Regions -> made' \cup {NoRegion}]
    BY <1>1, <1>2 DEF VmrTypeOK
  <2>5. children' \in [Regions -> Seq(made')]
    <3>1. \A q \in Regions : children[q] \in Seq(made')
      BY <1>1, <1>2 DEF VmrTypeOK
    <3> QED BY <1>1, <1>2, <1>6, <3>1 DEF VmrTypeOK, z, s
  <2>6. made' \subseteq Regions /\ destroyed' \subseteq made' /\ broken' \subseteq made'
    BY <1>1, <1>2, <1>4 DEF VmrTypeOK
  <2>7. null_read' \in BOOLEAN /\ returned' \in Statuses
    BY <1>1, <1>2 DEF VmrTypeOK, Statuses
  <2> QED BY <2>1, <2>2, <2>3, <2>4, <2>5, <2>6, <2>7 DEF VmrTypeOK
<1>11. Bounded'
  <2>1. p + sz <= RootSize
    BY <1>3, <1>9
  <2> QED BY <1>2, <1>7, <2>1 DEF Bounded, End
<1>12. Unmade'
  BY <1>2, <1>4, <1>7 DEF Unmade
<1>13. \A m \in 1..n : /\ base[s[m]] \in Nat /\ size[s[m]] \in Nat
                       /\ End(s[m]) = base[s[m]] + size[s[m]]
                       /\ base'[s[m]] = base[s[m]] /\ size'[s[m]] = size[s[m]]
                       /\ capability'[s[m]] = capability[s[m]] /\ s[m] # new
  BY <1>2, <1>4, <1>5, <1>7, Numbers
<1>14. ChildrenOrdered'
  <2> SUFFICES ASSUME NEW q \in made', NEW j \in 1..Len(children'[q]),
                      NEW k \in 1..Len(children'[q]), j < k
               PROVE  base'[children'[q][j]] + size'[children'[q][j]] <= base'[children'[q][k]]
    BY DEF ChildrenOrdered, End
  <2>1. CASE q = new
    BY <1>4, <1>7, <1>8, <2>1
  <2>2. CASE q # new /\ q # r
    <3>1. q \in made /\ q \in Regions /\ children'[q] = children[q]
      BY <1>4, <1>7, <2>2
    <3>2. children[q][j] \in made /\ children[q][k] \in made
      BY <1>2, <3>1, Listing
    <3>3. End(children[q][j]) <= base[children[q][k]]
      BY <1>2, <3>1 DEF ChildrenOrdered
    <3> QED BY <1>7, <3>1, <3>2, <3>3 DEF End
  <2>3. CASE q = r
    <3>1. children'[q] = z /\ j \in 1..n + 1 /\ k \in 1..n + 1
      BY <1>4, <1>6, <1>7, <2>3
    <3>2. \A m, l \in 1..n : m < l => base[s[m]] + size[s[m]] <= base[s[l]]
      BY <1>2, <1>4 DEF ChildrenOrdered, End, s, n
    <3>3. CASE k < i
      <4>1. z[j] = s[j] /\ z[k] = s[k] /\ j \in 1..n /\ k \in 1..n
        BY <1>5, <1>6, <3>1, <3>3
      <4> QED BY <1>13, <3>1, <3>2, <4>1
    <3>4. CASE k = i
      <4>1. z[j] = s[j] /\ z[k] = new /\ j \in 1..n /\ j < i
        BY <1>5, <1>6, <3>1, <3>4
      <4> QED BY <1>3, <1>7, <1>13, <3>1, <4>1
    <3>5. CASE j = i
      <4>1. z[j] = new /\ z[k] = s[k - 1] /\ k - 1 \in 1..n /\ k - 1 >= i
        BY <1>5, <1>6, <3>1, <3>5
      <4> QED BY <1>3, <1>7, <1>13, <3>1, <4>1
    <3>6. CASE j < i /\ i < k
      <4>1. z[j] = s[j] /\ z[k] = s[k - 1] /\ j \in 1..n /\ k - 1 \in 1..n /\ j < k - 1
        BY <1>5, <1>6, <3>1, <3>6
        <4> QED BY <1>13, <3>1, <3>2, <4>1
    <3>7. CASE i < j
      <4>1. /\ z[j] = s[j - 1] /\ z[k] = s[k - 1]
            /\ j - 1 \in 1..n /\ k - 1 \in 1..n /\ j - 1 < k - 1
        BY <1>5, <1>6, <3>1, <3>7
      <4> QED BY <1>13, <3>1, <3>2, <4>1
    <3> QED BY <1>5, <3>1, <3>3, <3>4, <3>5, <3>6, <3>7
  <2> QED BY <2>1, <2>2, <2>3
<1>15. \A q \in made' : /\ children'[q] \in Seq(made')
                        /\ \A x : x \in ToSet(children'[q]) <=>
                                    \E j \in 1..Len(children'[q]) : children'[q][j] = x
  BY <1>10, ToSetMembers DEF VmrTypeOK
<1>16. Fitted'
  <2> SUFFICES ASSUME NEW q \in made', NEW j \in 1..Len(children'[q])
               PROVE  /\ base'[children'[q][j]] + size'[children'[q][j]] <= size'[q]
                      /\ capability'[children'[q][j]] \subseteq capability'[q]
    <3> SUFFICES ASSUME NEW q \in made', NEW c \in ToSet(children'[q])
                 PROVE  /\ base'[c] + size'[c] <= size'[q]
                        /\ capability'[c] \subseteq capability'[q]
      BY DEF Fitted, End
    <3>1. PICK j \in 1..Len(children'[q]) : children'[q][j] = c
      BY <1>15
    <3> QED BY <3>1
  <2>1. CASE q = new
    BY <1>4, <1>7, <1>8, <2>1
  <2>2. CASE q # new /\ q # r
    <3>1. q \in made /\ q \in Regions /\ children'[q] = children[q]
      BY <1>4, <1>7, <2>2
    <3>2. children[q][j] \in made /\ children[q][j] \in ToSet(children[q])
      BY <1>2, <3>1, Listing
    <3>3. /\ End(children[q][j]) <= size[q]
          /\ capability[children[q][j]] \subseteq capability[q]
      BY <1>2, <3>1, <3>2 DEF Fitted
    <3> QED BY <1>7, <3>1, <3>2, <3>3 DEF End
  <2>3. CASE q = r
    <3>1. children'[q] = z /\ j \in 1..n + 1 /\ size'[q] = size[r]
          /\ capability'[q] = capability[r]
      BY <1>4, <1>6, <1>7, <2>3
    <3>2. \A m \in 1..n : End(s[m]) <= size[r] /\ capability[s[m]] \subseteq capability[r]
      <4>1. \A m \in 1..n : s[m] \in ToSet(s)
        BY <1>2, <1>4, Listing DEF s, n
      <4> QED BY <1>2, <1>4, <4>1 DEF Fitted, s, n
    <3>3. CASE j = i
      <4>1. z[j] = new
        BY <1>6, <3>1, <3>3
      <4>2. caps \subseteq capability[r]
        BY DEF Permitted
      <4> QED BY <1>3, <1>7, <3>1, <4>1, <4>2
    <3>4. CASE j # i
      <4>1. PICK m \in 1..n : z[j] = s[m]
        <5>1. CASE j < i
          BY <1>5, <1>6, <3>1, <5>1
        <5>2. CASE j > i
          <6>1. j - 1 \in 1..n /\ z[j] = s[j - 1]
            BY <1>5, <1>6, <3>1, <5>2
          <6> QED BY <6>1
        <5> QED BY <1>5, <3>1, <3>4, <5>1, <5>2
      <4> QED BY <1>13, <3>1, <3>2, <4>1
    <3> QED BY <3>3, <3>4
  <2> QED BY <2>1, <2>2, <2>3
<1>17. ForestLinked'
  <2>1. /\ \A j \in 1..n + 1 : z[j] = new <=> j = i
        /\ \A c \in made, j \in 1..n + 1 :
             z[j] = c <=> \E m \in 1..n : s[m] = c /\ j = IF m < i THEN m ELSE m + 1
    <3>1. ASSUME NEW j \in 1..n + 1 PROVE z[j] = new <=> j = i
      <4>1. CASE j < i
        BY <1>5, <1>6, <1>13, <4>1
      <4>2. CASE j = i
        BY <1>6, <4>2
      <4>3. CASE j > i
        <5>1. z[j] = s[j - 1] /\ j - 1 \in 1..n
          BY <1>5, <1>6, <4>3
        <5> QED BY <1>13, <4>3, <5>1
      <4> QED BY <1>5, <4>1, <4>2, <4>3
    <3>2. ASSUME NEW c \in made, NEW j \in 1..n + 1, z[j] = c
          PROVE  \E m \in 1..n : s[m] = c /\ j = IF m < i THEN m ELSE m + 1
      <4>1. j # i
        BY <1>4, <3>1, <3>2
      <4>2. CASE j < i
        <5>1. j \in 1..n /\ s[j] = c
          BY <1>5, <1>6, <3>2, <4>2
        <5> QED BY <4>2, <5>1
      <4>3. CASE j > i
        <5>1. j - 1 \in 1..n /\ s[j - 1] = c /\ ~(j - 1 < i) /\ j = (j - 1) + 1
          BY <1>5, <1>6, <3>2, <4>3
        <5> QED BY <5>1
      <4> QED BY <1>5, <4>1, <4>2, <4>3
    <3>3. ASSUME NEW m \in 1..n, NEW j \in 1..n + 1, j = IF m < i THEN m ELSE m + 1
          PROVE  z[j] = s[m]
      <4>1. CASE m < i
        BY <1>5, <1>6, <3>3, <4>1
      <4>2. CASE m >= i
        <5>1. j = m + 1 /\ j > i /\ j - 1 = m
          BY <1>5, <3>3, <4>2
        <5> QED BY <1>5, <1>6, <5>1
      <4> QED BY <1>5, <4>1, <4>2
    <3> QED BY <3>1, <3>2, <3>3
  <2> SUFFICES ASSUME NEW c \in made'
               PROVE  IF c \in destroyed' \/ parent'[c] = NoRegion
                      THEN \A q \in made' : \A j \in 1..Len(children'[q]) : children'[q][j] # c
                      ELSE \E k \in 1..Len(children'[parent'[c]]) :
                             \A q \in made' : \A j \in 1..Len(children'[q]) :
                               children'[q][j] = c <=> q = parent'[c] /\ j = k
    BY DEF ForestLinked
  <2>2. /\ children'[r] = z /\ Len(children'[r]) = n + 1
        /\ \A q \in made \ {r} : children'[q] = children[q]
        /\ Len(children'[new]) = 0
    BY <1>4, <1>6, <1>7, <1>8
  <2>3. \A q \in made : \A j \in 1..Len(children[q]) : children[q][j] \in made
    BY <1>2, <1>4, Listing
  <2>4. CASE c = new
    <3>1. c \notin destroyed' /\ parent'[c] = r /\ r # NoRegion
      BY <1>1, <1>2, <1>4, <1>7, <2>4, VmRegionAssumption DEF VmrTypeOK
    <3>2. \A q \in made' : \A j \in 1..Len(children'[q]) : children'[q][j] = c <=> q = r /\ j = i
      <4> SUFFICES ASSUME NEW q \in made', NEW j \in 1..Len(children'[q])
                   PROVE  children'[q][j] = c <=> q = r /\ j = i
        OBVIOUS
      <4>1. CASE q = r
        BY <2>1, <2>2, <2>4, <4>1
      <4>2. CASE q # r
        <5>1. q \in made \ {r}
          BY <1>7, <2>2, <4>2
        <5> QED BY <1>4, <2>2, <2>3, <2>4, <4>2, <5>1
      <4> QED BY <4>1, <4>2
    <3>3. i \in 1..Len(children'[r])
      BY <1>5, <2>2
    <3> QED BY <3>1, <3>2, <3>3
  <2>5. CASE c # new
    <3>1. c \in made /\ (c \in destroyed' <=> c \in destroyed) /\ parent'[c] = parent[c]
      BY <1>1, <1>7, <2>5
    <3>2. CASE c \in destroyed \/ parent[c] = NoRegion
      <4>1. \A q \in made : \A j \in 1..Len(children[q]) : children[q][j] # c
        BY <1>2, <3>1, <3>2 DEF ForestLinked
      <4>2. \A m \in 1..n : s[m] # c
        BY <4>1 DEF s, n
      <4>3. \A j \in 1..n + 1 : z[j] # c
        BY <2>1, <3>1, <4>2
      <4>4. ASSUME NEW q \in made', NEW j \in 1..Len(children'[q]) PROVE children'[q][j] # c
        <5>1. CASE q = r
          BY <2>2, <4>3, <5>1
        <5>2. CASE q # r
          <6>1. q \in made \ {r}
            BY <1>7, <2>2, <5>2
          <6> QED BY <2>2, <4>1, <6>1
        <5> QED BY <5>1, <5>2
      <4> QED BY <3>1, <3>2, <4>4
    <3>3. CASE ~(c \in destroyed \/ parent[c] = NoRegion)
      <4> DEFINE f == parent[c]
      <4>1. PICK k \in 1..Len(children[f]) :
              \A q \in made : \A j \in 1..Len(children[q]) : children[q][j] = c <=> q = f /\ j = k
        BY <1>2, <3>1, <3>3 DEF ForestLinked
      <4>2. f \in made
        BY <1>2, <1>4, <3>1, <3>3 DEF VmrTypeOK
      <4> HIDE DEF f
      <4>3. CASE f = r
        <5>1. k \in 1..n /\ \A m \in 1..n : s[m] = c <=> m = k
          BY <4>1, <4>3 DEF s, n
        <5> DEFINE h == IF k < i THEN k ELSE k + 1
        <5>2. h \in 1..n + 1
          BY <1>5, <5>1
        <5>3. \A j \in 1..n + 1 : z[j] = c <=> j = h
          BY <2>1, <3>1, <5>1
        <5> HIDE DEF h
        <5>4. ASSUME NEW q \in made', NEW j \in 1..Len(children'[q])
              PROVE  children'[q][j] = c <=> q = f /\ j = h
          <6>1. CASE q = r
            BY <2>2, <4>3, <5>3, <6>1
          <6>2. CASE q # r
            <7>1. q \in made \ {r}
              BY <1>7, <2>2, <6>2
            <7> QED BY <2>2, <4>1, <4>3, <7>1
          <6> QED BY <6>1, <6>2
        <5> QED BY <2>2, <3>1, <3>3, <4>3, <5>2, <5>4 DEF f
      <4>4. CASE f # r
        <5>1. children'[f] = children[f]
          BY <2>2, <4>2, <4>4
        <5>2. \A j \in 1..n + 1 : z[j] # c
          <6>1. \A m \in 1..n : s[m] # c
            BY <4>1, <4>4 DEF s, n
          <6> QED BY <2>1, <3>1, <6>1
        <5>3. ASSUME NEW q \in made', NEW j \in 1..Len(children'[q])
              PROVE  children'[q][j] = c <=> q = f /\ j = k
          <6>1. CASE q = r
            BY <2>2, <4>4, <5>2, <6>1
          <6>2. CASE q # r
            <7>1. q \in made \ {r}
              BY <1>7, <2>2, <6>2
            <7> QED BY <2>2, <4>1, <7>1
          <6> QED BY <6>1, <6>2
        <5> QED BY <3>1, <3>3, <5>1, <5>3 DEF f
      <4> QED BY <4>3, <4>4
    <3> QED BY <3>2, <3>3
  <2> QED BY <2>4, <2>5
<1> QED BY <1>10, <1>11, <1>12, <1>14, <1>16, <1>17 DEF IInv

-----------------------------------------------------------------------------
(* Destruction. *)

\* The regions below r are closed under children, and each of them is a child
\* of r or of another one.
LEMMA BelowProperties ==
  ASSUME VmrTypeOK, NEW r \in made
  PROVE  /\ Below(r) \subseteq made
         /\ \A y \in Below(r) \cup {r} : ToSet(children[y]) \subseteq Below(r)
         /\ \A x \in Below(r) : \E y \in Below(r) \cup {r} : x \in ToSet(children[y])
<1> DEFINE B == Below(r)
           Closed(S) == \A y \in S \cup {r} : ToSet(children[y]) \subseteq S
<1>1. made \subseteq Regions /\ r \in Regions
  BY DEF VmrTypeOK
<1>2. \A x : x \in B <=> x \in Regions /\ \A S \in SUBSET Regions : Closed(S) => x \in S
  BY DEF Below
<1>3. ASSUME NEW y \in made, NEW x \in ToSet(children[y]) PROVE x \in made
  <2>1. PICK i \in 1..Len(children[y]) : children[y][i] = x
    BY <1>1, Listing
  <2> QED BY <1>1, <2>1, Listing
<1>4. Closed(made)
  BY <1>3
<1>5. B \subseteq made
  BY <1>1, <1>2, <1>4
<1>6. ASSUME NEW y \in B \cup {r}, NEW x \in ToSet(children[y]) PROVE x \in B
  <2>1. x \in Regions
    BY <1>1, <1>3, <1>5
  <2>2. ASSUME NEW S \in SUBSET Regions, Closed(S) PROVE x \in S
    <3>1. y \in S \cup {r}
      BY <1>2, <2>2
    <3> QED BY <2>2, <3>1
  <2> QED BY <1>2, <2>1, <2>2
<1>7. ASSUME NEW x \in B PROVE \E y \in B \cup {r} : x \in ToSet(children[y])
  <2> SUFFICES ASSUME \A y \in B \cup {r} : x \notin ToSet(children[y]) PROVE FALSE
    OBVIOUS
  <2> DEFINE S == B \ {x}
  <2>1. Closed(S)
    BY <1>6
  <2>2. S \in SUBSET Regions
    BY <1>1, <1>5
  <2>3. x \in S
    BY <1>2, <2>1, <2>2
  <2> QED BY <2>3
<1> QED BY <1>5, <1>6, <1>7

\* What destroy() leaves of every list of children.
LEMMA ListsLeft ==
  ASSUME VmrTypeOK, NEW r \in made, Destroy(r), NEW q \in made
  PROVE  /\ q \in Below(r) \cup {r} => children'[q] = <<>> /\ Len(children'[q]) = 0
         /\ q \notin Below(r) \cup {r} /\ ~(q = parent[r] /\ Listed(r)) =>
              children'[q] = children[q]
         /\ q \notin Below(r) \cup {r} /\ q = parent[r] /\ Listed(r) =>
              \E d \in 1..Len(children[q]) :
                children[q][d] = r /\ children'[q] = RemoveAt(children[q], d)
<1>1. q \in Regions
  BY DEF VmrTypeOK
<1>2. children'[q] = IF q = r \/ q \in Below(r) THEN <<>>
                     ELSE IF q = parent[r] /\ Listed(r) THEN Removed(r)
                     ELSE children[q]
  BY <1>1 DEF Destroy, Unlisted
<1>3. ASSUME q = parent[r], Listed(r)
      PROVE  \E i \in 1..Len(children[q]) : children[q][i] = r
  BY <1>1, <1>3, Listing DEF Listed
<1>4. Len(<<>>) = 0
  OBVIOUS
<1>5. CASE q \in Below(r) \cup {r}
  BY <1>2, <1>4, <1>5
<1>6. CASE q \notin Below(r) \cup {r} /\ ~(q = parent[r] /\ Listed(r))
  BY <1>2, <1>6
<1>7. CASE q \notin Below(r) \cup {r} /\ q = parent[r] /\ Listed(r)
  <2> DEFINE d == CHOOSE i \in 1..Len(children[q]) : children[q][i] = r
  <2>1. d \in 1..Len(children[q]) /\ children[q][d] = r
    BY <1>3, <1>7
  <2>2. children'[q] = RemoveAt(children[q], d)
    BY <1>2, <1>7 DEF Removed
  <2> HIDE DEF d
  <2> QED BY <1>7, <2>1, <2>2
<1> QED BY <1>5, <1>6, <1>7

\* What is left of a list keeps its order.
LEMMA OrderLeft ==
  ASSUME VmrTypeOK, NEW r \in made, Destroy(r), NEW q \in made
  PROVE  /\ children'[q] \in Seq(made)
         /\ \A j \in 1..Len(children'[q]) :
              \E m \in 1..Len(children[q]) : children'[q][j] = children[q][m]
         /\ \A j, k \in 1..Len(children'[q]) : j < k =>
              \E m, l \in 1..Len(children[q]) :
                m < l /\ children'[q][j] = children[q][m] /\ children'[q][k] = children[q][l]
<1> DEFINE s == children[q]
           n == Len(s)
<1>1. s \in Seq(made) /\ n \in Nat
  BY Listing DEF VmrTypeOK
<1>2. CASE q \in Below(r) \cup {r}
  <2>1. children'[q] = <<>> /\ Len(children'[q]) = 0
    BY <1>2, ListsLeft
  <2> QED BY <2>1
<1>3. CASE q \notin Below(r) \cup {r} /\ ~(q = parent[r] /\ Listed(r))
  <2>1. children'[q] = s
    BY <1>3, ListsLeft
  <2> HIDE DEF s
  <2> QED BY <1>1, <2>1 DEF s
<1>4. CASE q \notin Below(r) \cup {r} /\ q = parent[r] /\ Listed(r)
  <2>1. PICK d \in 1..n : s[d] = r /\ children'[q] = RemoveAt(s, d)
    BY <1>4, ListsLeft
  <2> DEFINE z == RemoveAt(s, d)
  <2> HIDE DEF s, n
  <2>2. /\ z \in Seq(made) /\ Len(z) = n - 1
        /\ \A j \in 1..n - 1 : z[j] = IF j < d THEN s[j] ELSE s[j + 1]
    BY <1>1, <2>1, RemoveAtProperties DEF n
  <2> HIDE DEF z
  <2> DEFINE e(j) == IF j < d THEN j ELSE j + 1
  <2>3. \A j \in 1..n - 1 : e(j) \in 1..n /\ z[j] = s[e(j)]
    BY <1>1, <2>1, <2>2
  <2>4. \A j, k \in 1..n - 1 : j < k => e(j) < e(k)
    BY <1>1, <2>1
  <2>5. children'[q] = z /\ Len(children'[q]) = n - 1
    BY <2>1, <2>2 DEF z
  <2> HIDE DEF e
  <2>6. ASSUME NEW j \in 1..Len(children'[q])
        PROVE  \E m \in 1..n : children'[q][j] = s[m]
    BY <2>3, <2>5
  <2>7. ASSUME NEW j \in 1..Len(children'[q]), NEW k \in 1..Len(children'[q]), j < k
        PROVE  \E m, l \in 1..n : m < l /\ children'[q][j] = s[m] /\ children'[q][k] = s[l]
    <3>1. e(j) \in 1..n /\ e(k) \in 1..n /\ e(j) < e(k) /\ z[j] = s[e(j)] /\ z[k] = s[e(k)]
      BY <2>3, <2>4, <2>5, <2>7
    <3> QED BY <2>5, <3>1
  <2> QED BY <2>2, <2>5, <2>6, <2>7 DEF s, n
<1> QED BY <1>2, <1>3, <1>4

\* A region is on one list at most, at one place, and that is its parent's.
LEMMA OnePlace ==
  ASSUME VmrTypeOK, ForestLinked, NEW q \in made, NEW j \in 1..Len(children[q])
  PROVE  LET c == children[q][j] IN
         /\ c \in made /\ c \notin destroyed /\ parent[c] = q
         /\ \A y \in made : \A m \in 1..Len(children[y]) : children[y][m] = c => y = q /\ m = j
<1> DEFINE c == children[q][j]
<1>1. c \in made
  BY Listing DEF VmrTypeOK
<1>2. ~(c \in destroyed \/ parent[c] = NoRegion)
  BY <1>1 DEF ForestLinked
<1>3. PICK k \in 1..Len(children[parent[c]]) :
        \A y \in made : \A m \in 1..Len(children[y]) :
          children[y][m] = c <=> y = parent[c] /\ m = k
  BY <1>1, <1>2 DEF ForestLinked
<1>4. parent[c] = q /\ j = k
  BY <1>3
<1> QED BY <1>1, <1>2, <1>3, <1>4

LEMMA DestroyStep ==
  ASSUME IInv, NEW r \in made, Destroy(r)
  PROVE  IInv'
<1> DEFINE B == Below(r)
<1>1. VmrTypeOK /\ ChildrenOrdered /\ Fitted /\ ForestLinked /\ Bounded /\ Unmade
  BY DEF IInv
<1>2. made \subseteq Regions /\ r \in Regions
  BY <1>1 DEF VmrTypeOK
<1>3. /\ UNCHANGED <<base, size, capability, made>>
      /\ destroyed' = destroyed \cup {r} \cup B
      /\ \A c \in Regions : parent'[c] = IF c \in B THEN NoRegion ELSE parent[c]
      /\ parent' \in [Regions -> made \cup {NoRegion}]
  BY <1>1 DEF Destroy, Detached, VmrTypeOK
<1>4. /\ B \subseteq made
      /\ \A y \in B \cup {r} : ToSet(children[y]) \subseteq B
      /\ \A x \in B : \E y \in B \cup {r} : x \in ToSet(children[y])
  BY <1>1, BelowProperties
<1> HIDE DEF B
<1>5. \A q \in made :
        /\ children'[q] \in Seq(made)
        /\ \A j \in 1..Len(children'[q]) :
             \E m \in 1..Len(children[q]) : children'[q][j] = children[q][m]
        /\ \A j, k \in 1..Len(children'[q]) : j < k =>
             \E m, l \in 1..Len(children[q]) :
               m < l /\ children'[q][j] = children[q][m] /\ children'[q][k] = children[q][l]
  BY <1>1, OrderLeft
<1>6. ASSUME NEW q \in Regions \ made PROVE children'[q] = <<>>
  <2>1. children[q] = <<>> /\ parent[r] # q
    BY <1>1, <1>2, <1>6, VmRegionAssumption DEF Unmade, VmrTypeOK
  <2> QED BY <2>1 DEF Destroy, Unlisted
<1>7. VmrTypeOK'
  <2>1. children' \in [Regions -> Seq(made)]
    <3>1. \A q \in Regions : children'[q] \in Seq(made)
      <4>1. <<>> \in Seq(made)
        OBVIOUS
      <4> QED BY <1>5, <1>6, <4>1
    <3>2. children' = [q \in Regions |-> children'[q]]
      BY DEF Destroy, Unlisted
    <3> QED BY <3>1, <3>2
  <2>2. destroyed' \subseteq made
    BY <1>1, <1>3, <1>4 DEF VmrTypeOK
  <2>3. broken' \subseteq made
    BY <1>1, <1>2, VmRegionAssumption DEF Destroy, Wrecked, Sole, VmrTypeOK
  <2>4. null_read' \in BOOLEAN /\ returned' \in Statuses
    BY DEF Destroy, Statuses
  <2> QED BY <1>1, <1>3, <2>1, <2>2, <2>3, <2>4 DEF VmrTypeOK
<1>8. Bounded' /\ Unmade'
  BY <1>1, <1>3, <1>6 DEF Bounded, Unmade, End
<1>9. ChildrenOrdered'
  <2> SUFFICES ASSUME NEW q \in made, NEW j \in 1..Len(children'[q]),
                      NEW k \in 1..Len(children'[q]), j < k
               PROVE  End(children'[q][j]) <= base[children'[q][k]]
    BY <1>3 DEF ChildrenOrdered, End
  <2>1. PICK m \in 1..Len(children[q]), l \in 1..Len(children[q]) :
          m < l /\ children'[q][j] = children[q][m] /\ children'[q][k] = children[q][l]
    BY <1>5
  <2> QED BY <1>1, <2>1 DEF ChildrenOrdered
<1>10. Fitted'
  <2> SUFFICES ASSUME NEW q \in made, NEW c \in ToSet(children'[q])
               PROVE  End(c) <= size[q] /\ capability[c] \subseteq capability[q]
    BY <1>3 DEF Fitted, End
  <2>1. PICK j \in 1..Len(children'[q]) : children'[q][j] = c
    BY <1>5, ToSetMembers
  <2>2. PICK m \in 1..Len(children[q]) : c = children[q][m]
    BY <1>5, <2>1
  <2>3. c \in ToSet(children[q])
    BY <1>1, <1>2, <2>2, Listing
  <2> QED BY <1>1, <2>3 DEF Fitted
<1>11. \A q \in made :
         /\ q \in B \cup {r} => children'[q] = <<>> /\ Len(children'[q]) = 0
         /\ q \notin B \cup {r} /\ ~(q = parent[r] /\ Listed(r)) => children'[q] = children[q]
         /\ q \notin B \cup {r} /\ q = parent[r] /\ Listed(r) =>
              \E d \in 1..Len(children[q]) :
                children[q][d] = r /\ children'[q] = RemoveAt(children[q], d)
  BY <1>1, ListsLeft DEF B
<1>12. ASSUME NEW c \in B \cup {r}, NEW q \in made, NEW j \in 1..Len(children'[q])
       PROVE  children'[q][j] # c
  <2> SUFFICES ASSUME children'[q][j] = c PROVE FALSE
    OBVIOUS
  <2>1. q \notin B \cup {r}
    BY <1>11
  <2>2. PICK m \in 1..Len(children[q]) : children[q][m] = c
    BY <1>5
  <2>3. /\ parent[c] = q
        /\ \A y \in made : \A l \in 1..Len(children[y]) : children[y][l] = c => y = q /\ l = m
    BY <1>1, <2>2, OnePlace
  <2>4. CASE c \in B
    <3>1. PICK y \in B \cup {r} : c \in ToSet(children[y])
      BY <1>4, <2>4
    <3>2. y \in made
      BY <1>4
    <3>3. \E l \in 1..Len(children[y]) : children[y][l] = c
      BY <1>1, <1>2, <3>1, <3>2, Listing
    <3> QED BY <2>1, <2>3, <3>2, <3>3
  <2>5. CASE c = r
    <3>1. Listed(r)
      <4>1. r \in ToSet(children[q])
        BY <1>1, <1>2, <2>2, <2>5, Listing
      <4>2. q # NoRegion
        BY <1>2, VmRegionAssumption
      <4> QED BY <2>3, <2>5, <4>1, <4>2 DEF Listed
    <3>2. PICK d \in 1..Len(children[q]) :
            children[q][d] = r /\ children'[q] = RemoveAt(children[q], d)
      BY <1>11, <2>1, <2>3, <2>5, <3>1
    <3> DEFINE s == children[q]
               n == Len(s)
               e == IF j < d THEN j ELSE j + 1
    <3>3. s \in Seq(made) /\ n \in Nat /\ d \in 1..n
      BY <1>1, <1>2, Listing
    <3> HIDE DEF s
    <3>4. /\ Len(RemoveAt(s, d)) = n - 1
          /\ \A i \in 1..n - 1 : RemoveAt(s, d)[i] = IF i < d THEN s[i] ELSE s[i + 1]
      BY <3>3, RemoveAtProperties
    <3> HIDE DEF n
    <3>5. children'[q] = RemoveAt(s, d)
      BY <3>2 DEF s
    <3>6. j \in 1..n - 1
      BY <3>4, <3>5
    <3>7. e \in 1..n /\ e # d /\ s[e] = c
      BY <3>3, <3>4, <3>5, <3>6
    <3>8. \A l \in 1..n : s[l] = c => l = m
      BY <2>3 DEF s, n
    <3>9. s[d] = c /\ d \in 1..n
      BY <2>5, <3>2, <3>3 DEF s
    <3> HIDE DEF e
    <3> QED BY <3>7, <3>8, <3>9
  <2> QED BY <2>4, <2>5
<1>13. ASSUME NEW c \in made, c \notin B \cup {r}, c \notin destroyed, parent[c] # NoRegion
       PROVE  \E k \in 1..Len(children'[parent[c]]) :
                \A q \in made : \A j \in 1..Len(children'[q]) :
                  children'[q][j] = c <=> q = parent[c] /\ j = k
  <2> DEFINE f == parent[c]
  <2>1. PICK k \in 1..Len(children[f]) :
          \A q \in made : \A m \in 1..Len(children[q]) : children[q][m] = c <=> q = f /\ m = k
    BY <1>1, <1>13 DEF ForestLinked
  <2>2. f \in made
    BY <1>1, <1>2, <1>13 DEF VmrTypeOK
  <2>3. f \notin B \cup {r}
    <3> SUFFICES ASSUME f \in B \cup {r} PROVE FALSE
      OBVIOUS
    <3>1. c \in ToSet(children[f])
      BY <1>1, <1>2, <2>1, <2>2, Listing
    <3> QED BY <1>4, <1>13, <3>1
  <2> HIDE DEF f
  <2>4. \A q \in made \ {f} : \A j \in 1..Len(children'[q]) : children'[q][j] # c
    <3> SUFFICES ASSUME NEW q \in made \ {f}, NEW j \in 1..Len(children'[q]),
                        children'[q][j] = c
                 PROVE  FALSE
      OBVIOUS
    <3>1. q \in made
      OBVIOUS
    <3>2. PICK m \in 1..Len(children[q]) : children'[q][j] = children[q][m]
      BY <1>5, <3>1
    <3> QED BY <2>1, <3>1, <3>2
  <2>5. CASE ~(f = parent[r] /\ Listed(r))
    <3>1. children'[f] = children[f]
      BY <1>11, <2>2, <2>3, <2>5
    <3> QED BY <2>1, <2>2, <2>4, <3>1 DEF f
  <2>6. CASE f = parent[r] /\ Listed(r)
    <3>1. PICK d \in 1..Len(children[f]) :
            children[f][d] = r /\ children'[f] = RemoveAt(children[f], d)
      BY <1>11, <2>2, <2>3, <2>6
    <3> DEFINE s == children[f]
               n == Len(s)
               z == RemoveAt(s, d)
               h == IF k < d THEN k ELSE k - 1
    <3>2. s \in Seq(made) /\ n \in Nat /\ d \in 1..n /\ k \in 1..n
      BY <1>1, <1>2, <2>2, Listing
    <3>3. \A m \in 1..n : s[m] = c <=> m = k
      BY <2>1, <2>2
    <3>4. k # d
      BY <1>13, <3>1, <3>2, <3>3
    <3>5. children'[f] = z
      BY <3>1
    <3> HIDE DEF s
    <3>6. /\ Len(z) = n - 1
          /\ \A i \in 1..n - 1 : z[i] = IF i < d THEN s[i] ELSE s[i + 1]
      BY <3>2, RemoveAtProperties
    <3> HIDE DEF n, z
    <3>7. h \in 1..n - 1
      BY <3>2, <3>4
    <3>8. ASSUME NEW j \in 1..n - 1 PROVE z[j] = c <=> j = h
      <4>1. CASE j < d
        <5>1. z[j] = s[j] /\ j \in 1..n
          BY <3>2, <3>6, <4>1
        <5> QED BY <3>2, <3>3, <3>4, <4>1, <5>1
      <4>2. CASE j >= d
        <5>1. z[j] = s[j + 1] /\ j + 1 \in 1..n
          BY <3>2, <3>6, <4>2
        <5>2. z[j] = c <=> j + 1 = k
          BY <3>3, <5>1
        <5> QED BY <3>2, <3>4, <4>2, <5>2
      <4> QED BY <3>2, <4>1, <4>2
    <3> HIDE DEF h
    <3>9. ASSUME NEW q \in made, NEW j \in 1..Len(children'[q])
          PROVE  children'[q][j] = c <=> q = f /\ j = h
      <4>1. CASE q = f
        BY <3>5, <3>6, <3>8, <4>1
      <4>2. CASE q # f
        BY <2>4, <4>2
      <4> QED BY <4>1, <4>2
    <3>10. h \in 1..Len(children'[f])
      BY <3>5, <3>6, <3>7
    <3> QED BY <3>9, <3>10 DEF f
  <2> QED BY <2>5, <2>6
<1>14. ForestLinked'
  <2> SUFFICES ASSUME NEW c \in made
               PROVE  IF c \in destroyed' \/ parent'[c] = NoRegion
                      THEN \A q \in made : \A j \in 1..Len(children'[q]) : children'[q][j] # c
                      ELSE \E k \in 1..Len(children'[parent'[c]]) :
                             \A q \in made : \A j \in 1..Len(children'[q]) :
                               children'[q][j] = c <=> q = parent'[c] /\ j = k
    BY <1>3 DEF ForestLinked
  <2>1. CASE c \in B \cup {r}
    BY <1>3, <1>12, <2>1
  <2>2. CASE c \notin B \cup {r}
    <3>1. parent'[c] = parent[c] /\ (c \in destroyed' <=> c \in destroyed)
      BY <1>2, <1>3, <2>2
    <3>2. CASE c \in destroyed \/ parent[c] = NoRegion
      <4>1. \A q \in made : \A m \in 1..Len(children[q]) : children[q][m] # c
        BY <1>1, <3>2 DEF ForestLinked
      <4>2. ASSUME NEW q \in made, NEW j \in 1..Len(children'[q]) PROVE children'[q][j] # c
        <5>1. PICK m \in 1..Len(children[q]) : children'[q][j] = children[q][m]
          BY <1>5
        <5> QED BY <4>1, <5>1
      <4> QED BY <3>1, <3>2, <4>2
    <3>3. CASE ~(c \in destroyed \/ parent[c] = NoRegion)
      BY <1>13, <2>2, <3>1, <3>3
    <3> QED BY <3>2, <3>3
  <2> QED BY <2>1, <2>2
<1> QED BY <1>7, <1>8, <1>9, <1>10, <1>14 DEF IInv

-----------------------------------------------------------------------------
(* The invariant. *)

LEMMA InitInv ==
  ASSUME VmrInit
  PROVE  IInv
<1>1. \A r \in Regions : children[r] = <<>> /\ Len(children[r]) = 0 /\ parent[r] = NoRegion
  BY DEF VmrInit
<1>2. made = {Root} /\ Root \in Regions /\ destroyed = {} /\ broken = {} /\ null_read = FALSE
  BY VmRegionAssumption DEF VmrInit
<1>3. VmrTypeOK
  <2>1. /\ base \in [Regions -> 0..VaddrPages - 1]
        /\ size \in [Regions -> 0..VaddrPages - 1]
    BY VmRegionAssumption DEF VmrInit
  <2>2. capability \in [Regions -> SUBSET Caps] /\ returned \in Statuses
    BY DEF VmrInit, Statuses
  <2>3. /\ parent \in [Regions -> made \cup {NoRegion}]
        /\ children \in [Regions -> Seq(made)]
    BY DEF VmrInit
  <2> QED BY <1>2, <2>1, <2>2, <2>3 DEF VmrTypeOK
<1>4. ChildrenOrdered /\ ForestLinked
  BY <1>1, <1>2 DEF ChildrenOrdered, ForestLinked
<1>5. Fitted
  BY <1>1, <1>2 DEF Fitted, ToSet
<1>6. Bounded /\ Unmade
  BY <1>1, <1>2, VmRegionAssumption DEF Bounded, Unmade, End, VmrInit
<1> QED BY <1>3, <1>4, <1>5, <1>6 DEF IInv

\* A step that changes neither a region nor a list.
LEMMA TreeUnchanged ==
  ASSUME IInv, null_read' \in BOOLEAN, returned' \in Statuses,
         UNCHANGED <<base, size, capability, parent, children, made, destroyed, broken>>
  PROVE  IInv'
<1>1. VmrTypeOK'
  BY DEF IInv, VmrTypeOK
<1>2. (ChildrenOrdered /\ Fitted /\ ForestLinked /\ Bounded /\ Unmade)'
  BY DEF IInv, ChildrenOrdered, Fitted, ForestLinked, Bounded, Unmade, End
<1> QED BY <1>1, <1>2 DEF IInv

LEMMA NextInv ==
  ASSUME IInv, NoWrap, [VmrNext]_vmrVars
  PROVE  IInv'
<1>1. null_read \in BOOLEAN /\ returned \in Statuses
  BY DEF IInv, VmrTypeOK
<1>2. CASE UNCHANGED vmrVars
  BY <1>1, <1>2, TreeUnchanged DEF vmrVars
<1>3. ASSUME NEW r \in made, NEW sz \in Sizes, NEW align \in Aligns,
             NEW caps \in SUBSET Caps, NEW type \in {"REGION", "MAPPING"},
             AllocateVmrCompact(r, sz, align, caps, type)
      PROVE  IInv'
  <2>1. ASSUME NEW e \in Statuses, Fail(e)
        PROVE  IInv'
    BY <1>1, <2>1, TreeUnchanged DEF Fail
  <2>2. CASE FollowNull
    BY <1>1, <2>2, TreeUnchanged DEF FollowNull
  <2>3. CASE /\ Permitted(r, caps) /\ Fitting(r, sz, align) # {}
             /\ AllocateFirstFit(r, sz, align, caps)
    BY <2>3, AllocateStep
  <2> QED BY <1>3, <2>1, <2>2, <2>3 DEF AllocateVmrCompact, Statuses
<1>4. ASSUME NEW r \in made, Destroy(r)
      PROVE  IInv'
  BY <1>4, DestroyStep
<1> QED BY <1>2, <1>3, <1>4 DEF VmrNext

\* The invariant holds after every sequence of allocate_vmr_compact and destroy(),
\* if no sum of addresses wraps around.
THEOREM Invariance ==
  ASSUME NoWrap
  PROVE  VmrSpec => []IInv
<1>1. VmrInit => IInv
  BY InitInv
<1>2. IInv /\ [VmrNext]_vmrVars => IInv'
  BY NextInv
<1> QED BY <1>1, <1>2, PTL DEF VmrSpec

-----------------------------------------------------------------------------
(* First fit. *)

\* What the invariant says of one region with base 0 and its children.
LEMMA RegionFacts ==
  ASSUME IInv, NEW r \in made
  PROVE  LET s == children[r]
             n == Len(s)
         IN /\ s \in Seq(made) /\ n \in Nat
            /\ size[r] \in Nat /\ base[r] \in Nat /\ End(r) = base[r] + size[r]
            /\ End(r) <= RootSize
            /\ \A x : x \in ToSet(s) <=> \E m \in 1..n : s[m] = x
            /\ \A m \in 1..n : /\ s[m] \in made /\ s[m] \in Regions
                               /\ base[s[m]] \in Nat /\ End(s[m]) \in Nat
                               /\ base[s[m]] <= End(s[m])
            /\ \A m, l \in 1..n : m < l => End(s[m]) <= base[s[l]]
<1>1. VmrTypeOK /\ Bounded /\ ChildrenOrdered
  BY DEF IInv
<1>2. r \in Regions
  BY <1>1 DEF VmrTypeOK
<1>3. /\ children[r] \in Seq(made) /\ Len(children[r]) \in Nat
      /\ \A m \in 1..Len(children[r]) : children[r][m] \in made /\ children[r][m] \in Regions
      /\ \A x : x \in ToSet(children[r]) <=> \E m \in 1..Len(children[r]) : children[r][m] = x
  BY <1>1, <1>2, Listing
<1>4. \A c \in made : /\ base[c] \in Nat /\ size[c] \in Nat /\ End(c) \in Nat
                      /\ End(c) = base[c] + size[c] /\ base[c] <= End(c) /\ End(c) <= RootSize
  <2> SUFFICES ASSUME NEW c \in made
               PROVE  /\ base[c] \in Nat /\ size[c] \in Nat /\ End(c) \in Nat
                      /\ End(c) = base[c] + size[c] /\ base[c] <= End(c) /\ End(c) <= RootSize
    OBVIOUS
  <2>1. base[c] \in Nat /\ size[c] \in Nat /\ End(c) = base[c] + size[c]
    BY <1>1, Numbers
  <2> QED BY <1>1, <2>1 DEF Bounded
<1> QED BY <1>1, <1>3, <1>4 DEF ChildrenOrdered

\* A later hole does not place a request lower.
LEMMA PlaceMonotone ==
  ASSUME IInv, NoWrap, NEW r \in made, NEW align \in Aligns, NEW sz \in Sizes,
         NEW i \in Positions(r), NEW j \in Positions(r), i <= j
  PROVE  Place(r, i, align) <= Place(r, j, align)
<1> DEFINE s == children[r]
           n == Len(s)
           o(m) == Offset(r, m)
<1>1. VmrTypeOK /\ Bounded
  BY DEF IInv
<1>2. /\ n \in Nat
      /\ \A m \in 1..n : base[s[m]] \in Nat /\ End(s[m]) \in Nat /\ base[s[m]] <= End(s[m])
      /\ \A m, l \in 1..n : m < l => End(s[m]) <= base[s[l]]
  BY RegionFacts
<1>3. \A m \in Positions(r) : /\ m \in Nat /\ m >= 1 /\ m <= n + 1 /\ o(m) \in Nat
                              /\ m = 1 => o(m) = 0
                              /\ m > 1 => o(m) = End(s[m - 1])
  BY <1>1, Holes, VmRegionAssumption
<1> HIDE DEF s, n, o
<1>4. o(i) <= o(j)
  <2>1. CASE i = j
    BY <1>3, <2>1
  <2>2. CASE i = 1
    BY <1>3, <2>2
  <2>3. CASE 1 < i /\ i < j
    <3>1. i - 1 \in 1..n /\ j - 1 \in 1..n /\ i - 1 < j - 1
      BY <1>2, <1>3, <2>3
    <3>2. End(s[i - 1]) <= base[s[j - 1]] /\ base[s[j - 1]] <= End(s[j - 1])
      BY <1>2, <3>1
    <3>3. /\ o(i) = End(s[i - 1]) /\ o(j) = End(s[j - 1])
          /\ End(s[i - 1]) \in Nat /\ base[s[j - 1]] \in Nat /\ End(s[j - 1]) \in Nat
      BY <1>2, <1>3, <2>3, <3>1
    <3> QED BY <3>2, <3>3
  <2> QED BY <1>3, <2>1, <2>2, <2>3
<1>5. /\ align \in Nat \ {0}
      /\ Place(r, i, align) = Up(o(i), align)
      /\ Place(r, j, align) \in Nat /\ o(j) <= Place(r, j, align)
      /\ Place(r, j, align) % align = 0
  BY <1>1, FitsMeaning DEF o
<1>6. o(i) \in Nat /\ o(j) \in Nat
  BY <1>3
<1>7. o(i) <= Place(r, j, align)
  BY <1>4, <1>5, <1>6
<1>8. Up(o(i), align) <= Place(r, j, align)
  BY <1>5, <1>6, <1>7, UpLeast, Zenon
<1> QED BY <1>5, <1>8

\* Where the callback accepts a hole, there is room.
LEMMA FittingHasRoom ==
  ASSUME IInv, NoWrap, NEW r \in made, NEW sz \in Sizes, NEW align \in Aligns,
         NEW i \in Fitting(r, sz, align)
  PROVE  LET b == Place(r, i, align)
         IN b \in 0..size[r] /\ b % align = 0 /\ Clear(r, b, sz)
<1> DEFINE b == Place(r, i, align)
           s == children[r]
           n == Len(s)
<1>1. i \in Positions(r) /\ Fits(r, i, sz, align)
  BY DEF Fitting
<1>2. VmrTypeOK /\ Bounded
  BY DEF IInv
<1>3. b \in Nat /\ b % align = 0
  BY <1>1, <1>2, FitsMeaning
<1>4. /\ sz \in Nat /\ b + sz <= size[r]
      /\ \A m \in 1..n : (m < i => End(s[m]) <= b) /\ (m >= i => b + sz <= base[s[m]])
  BY <1>1, Between
<1>5. /\ size[r] \in Nat /\ n \in Nat
      /\ \A x : x \in ToSet(s) <=> \E m \in 1..n : s[m] = x
  BY RegionFacts
<1>6. i \in Nat
  BY <1>1, <1>5 DEF Positions
<1> HIDE DEF b, s, n
<1>7. b \in 0..size[r]
  BY <1>3, <1>4, <1>5
<1>8. ASSUME NEW c \in ToSet(s) PROVE End(c) <= b \/ b + sz <= base[c]
  <2>1. PICK m \in 1..n : s[m] = c
    BY <1>5
  <2>2. m < i \/ m >= i
    BY <1>5, <1>6
  <2> QED BY <1>4, <2>1, <2>2
<1>9. Clear(r, b, sz)
  BY <1>4, <1>8 DEF Clear, s
<1> QED BY <1>3, <1>7, <1>9 DEF b

\* Where there is room, the callback accepts a hole that places the request
\* there or lower.
LEMMA RoomIsFound ==
  ASSUME IInv, NoWrap, NEW r \in made, NEW sz \in Sizes \ {0}, NEW align \in Aligns,
         base[r] = 0, NEW b \in 0..size[r], b % align = 0, Clear(r, b, sz)
  PROVE  \E i \in Fitting(r, sz, align) : Place(r, i, align) <= b
<1> DEFINE s == children[r]
           n == Len(s)
           T == {i \in Positions(r) : i = n + 1 \/ b + sz <= base[s[i]]}
           w == Min(T)
<1>1. VmrTypeOK /\ Bounded
  BY DEF IInv
<1>2. /\ n \in Nat /\ size[r] \in Nat /\ End(r) = base[r] + size[r]
      /\ \A x : x \in ToSet(s) <=> \E m \in 1..n : s[m] = x
      /\ \A m \in 1..n : base[s[m]] \in Nat /\ End(s[m]) \in Nat
  BY RegionFacts
<1>3. sz \in Nat /\ sz > 0 /\ b \in Nat
  BY <1>2, VmRegionAssumption
<1>4. w \in T /\ \A y \in T : w <= y
  <2>1. T \subseteq Nat /\ n + 1 \in T
    BY <1>2 DEF Positions
  <2> HIDE DEF T
  <2> QED BY <2>1, LeastElement
<1>5. \A m \in 1..n : m < w => ~(b + sz <= base[s[m]])
  <2> SUFFICES ASSUME NEW m \in 1..n, m < w, b + sz <= base[s[m]] PROVE FALSE
    OBVIOUS
  <2>1. m \in T
    BY <1>2 DEF Positions
  <2>2. w \in Nat /\ m \in Nat
    BY <1>2, <1>4 DEF Positions
  <2> HIDE DEF T, w
  <2>3. w <= m
    BY <1>4, <2>1
  <2> QED BY <2>2, <2>3
<1>6. PICK i \in Positions(r) : /\ i \in 1..n + 1 /\ (i = n + 1 \/ b + sz <= base[s[i]])
                                /\ \A m \in 1..n : m < i => ~(b + sz <= base[s[m]])
  <2>1. w \in Positions(r) /\ w \in 1..n + 1 /\ (w = n + 1 \/ b + sz <= base[s[w]])
    BY <1>4 DEF Positions
  <2> HIDE DEF w, T
  <2> QED BY <1>5, <2>1
<1> HIDE DEF w, T
<1>7. /\ Offset(r, i) \in Nat /\ HoleEnd(r, i) \in Nat
      /\ i = 1 => Offset(r, i) = 0
      /\ i > 1 => Offset(r, i) = End(s[i - 1])
      /\ i <= n => HoleEnd(r, i) = base[s[i]]
      /\ i > n => HoleEnd(r, i) = End(r)
  BY <1>1, Holes, VmRegionAssumption
<1>8. b + sz <= size[r] /\ \A m \in 1..n : End(s[m]) <= b \/ b + sz <= base[s[m]]
  <2>1. \A c \in ToSet(s) : End(c) <= b \/ b + sz <= base[c]
    BY DEF Clear
  <2>2. \A m \in 1..n : s[m] \in ToSet(s)
    BY <1>2
  <2> HIDE DEF s, n
  <2>3. b + sz <= size[r]
    BY DEF Clear
  <2> QED BY <2>1, <2>2, <2>3
<1>9. /\ align \in Nat \ {0}
      /\ Place(r, i, align) = Up(Offset(r, i), align) /\ Place(r, i, align) \in Nat
      /\ Fits(r, i, sz, align) <=>
           /\ base[r] + Offset(r, i) < HoleEnd(r, i)
           /\ Place(r, i, align) + sz <= HoleEnd(r, i) - base[r]
  BY <1>1, FitsMeaning
<1> HIDE DEF s, n
<1>10. Offset(r, i) <= b
  <2>1. CASE i = 1
    BY <1>3, <1>7, <2>1
  <2>2. CASE i > 1
    <3>1. i - 1 \in 1..n /\ i - 1 < i
      BY <1>2, <1>6, <2>2
    <3> QED BY <1>6, <1>7, <1>8, <2>2, <3>1
  <2> QED BY <1>2, <1>6, <2>1, <2>2
<1>11. b + sz <= HoleEnd(r, i)
  <2>1. CASE i <= n
    BY <1>2, <1>6, <1>7, <2>1
  <2>2. CASE i > n
    BY <1>2, <1>7, <1>8, <2>2
  <2> QED BY <1>2, <1>6, <2>1, <2>2
<1>12. Place(r, i, align) <= b
  BY <1>3, <1>7, <1>9, <1>10, UpLeast, Zenon
<1>13. Fits(r, i, sz, align)
  BY <1>3, <1>7, <1>9, <1>10, <1>11, <1>12
<1> QED BY <1>12, <1>13 DEF Fitting

LEMMA FirstFitHolds ==
  ASSUME IInv, NoWrap
  PROVE  FirstFit
<1> SUFFICES ASSUME NEW r \in made \ broken, NEW sz \in Sizes \ {0}, NEW align \in Aligns,
                    base[r] = 0
             PROVE  LET bases == {b \in 0..size[r] : b % align = 0 /\ Clear(r, b, sz)}
                        holes == Fitting(r, sz, align)
                    IN /\ holes = {} <=> bases = {}
                       /\ holes # {} => Place(r, Min(holes), align) = Min(bases)
  BY DEF FirstFit
<1> DEFINE bases == {b \in 0..size[r] : b % align = 0 /\ Clear(r, b, sz)}
           holes == Fitting(r, sz, align)
<1>1. r \in made /\ sz \in Sizes
  OBVIOUS
<1>2. /\ size[r] \in Nat /\ Len(children[r]) \in Nat
  BY <1>1, RegionFacts
<1>3. bases \subseteq Nat /\ holes \subseteq Nat /\ holes \subseteq Positions(r)
  BY <1>2 DEF Fitting, Positions
<1>4. \A i \in holes : Place(r, i, align) \in bases
  <2> SUFFICES ASSUME NEW i \in holes PROVE Place(r, i, align) \in bases
    OBVIOUS
  <2>1. /\ Place(r, i, align) \in 0..size[r] /\ Place(r, i, align) % align = 0
        /\ Clear(r, Place(r, i, align), sz)
    BY <1>1, FittingHasRoom
  <2> QED BY <2>1
<1>5. \A b \in bases : \E i \in holes : Place(r, i, align) <= b
  <2> SUFFICES ASSUME NEW b \in bases PROVE \E i \in holes : Place(r, i, align) <= b
    OBVIOUS
  <2>1. b \in 0..size[r] /\ b % align = 0 /\ Clear(r, b, sz)
    OBVIOUS
  <2> HIDE DEF bases
  <2> QED BY <1>1, <2>1, RoomIsFound
<1>6. \A i, j \in holes : i <= j => Place(r, i, align) <= Place(r, j, align)
  BY <1>1, <1>3, PlaceMonotone
<1> HIDE DEF bases, holes
<1>7. holes = {} <=> bases = {}
  BY <1>4, <1>5
<1>8. ASSUME holes # {} PROVE Place(r, Min(holes), align) = Min(bases)
  <2> DEFINE m == Min(holes)
             p == Place(r, m, align)
  <2>1. m \in holes /\ \A i \in holes : m <= i
    BY <1>3, <1>8, LeastElement
  <2> HIDE DEF m
  <2>2. p \in bases
    BY <1>4, <2>1
  <2>3. ASSUME NEW b \in bases PROVE p <= b
    <3>1. PICK i \in holes : Place(r, i, align) <= b
      BY <1>5
    <3>2. p <= Place(r, i, align)
      BY <1>6, <2>1
    <3>3. p \in Nat /\ Place(r, i, align) \in Nat /\ b \in Nat
      BY <1>3, <1>4, <2>2
    <3> HIDE DEF p
    <3> QED BY <3>1, <3>2, <3>3
  <2> HIDE DEF p
  <2>4. Min(bases) = p
    BY <1>3, <2>2, <2>3, LeastUnique
  <2> QED BY <2>4 DEF p, m
<1> QED BY <1>7, <1>8 DEF bases, holes

LEMMA FindsNearestHolds ==
  ASSUME IInv, NoWrap
  PROVE  FindsNearest
<1> SUFFICES ASSUME NEW r \in made \ broken, base[r] = 0, NEW offset \in 0..size[r]
             PROVE  LET above == {c \in ToSet(children[r]) : base[c] >= offset}
                        found == FindChildAbove(r, offset)
                    IN /\ IF above = {} THEN found = NoRegion
                          ELSE found \in above /\ \A c \in above : base[found] <= base[c]
                       /\ \A sz \in Sizes : (\E c \in above : base[c] < offset + sz) =>
                                              DoesOverlapChild(r, offset, sz)
  BY DEF FindsNearest
<1> DEFINE s == children[r]
           n == Len(s)
           above == {c \in ToSet(s) : base[c] >= offset}
           found == FindChildAbove(r, offset)
           T == {i \in 1..n : base[s[i]] >= offset}
<1>1. r \in made
  OBVIOUS
<1>2. /\ n \in Nat /\ size[r] \in Nat /\ base[r] + size[r] <= RootSize
      /\ \A x : x \in ToSet(s) <=> \E m \in 1..n : s[m] = x
      /\ \A m \in 1..n : /\ s[m] \in Regions /\ base[s[m]] \in Nat
                         /\ End(s[m]) \in Nat /\ base[s[m]] <= End(s[m])
      /\ \A m, l \in 1..n : m < l => End(s[m]) <= base[s[l]]
  BY <1>1, RegionFacts
<1>3. RootSize \in Nat /\ VaddrPages \in Nat /\ RootSize < VaddrPages /\ offset \in Nat
      /\ offset <= RootSize
  BY <1>2, VmRegionAssumption
<1>4. Add(base[r], offset) = offset
  <2>1. offset \in 0..VaddrPages - 1 /\ base[r] + offset = offset
    BY <1>3
  <2> QED BY <2>1, NoWrapping DEF Add
<1>5. found = IF T = {} THEN NoRegion ELSE s[Min(T)]
  BY <1>4 DEF FindChildAbove
<1>6. \A c : c \in above <=> \E m \in T : s[m] = c
  BY <1>2
<1>7. \A c \in above : c \in Regions /\ base[c] \in Nat /\ c # NoRegion
  BY <1>2, VmRegionAssumption
<1>8. T \subseteq 1..n /\ T \subseteq Nat
  BY <1>2
<1> HIDE DEF s, n, above, found, T
<1>9. ASSUME above = {} PROVE found = NoRegion
  BY <1>5, <1>6, <1>9
<1>10. ASSUME above # {}
       PROVE  found \in above /\ \A c \in above : base[found] <= base[c]
  <2> DEFINE m == Min(T)
  <2>1. T # {}
    BY <1>6, <1>10
  <2>2. m \in T /\ \A i \in T : m <= i
    BY <1>8, <2>1, LeastElement
  <2>3. found = s[m]
    BY <1>5, <2>1
  <2> HIDE DEF m
  <2>4. found \in above
    BY <1>6, <2>2, <2>3
  <2>5. ASSUME NEW c \in above PROVE base[found] <= base[c]
    <3>1. PICK l \in T : s[l] = c
      BY <1>6
    <3>2. m \in 1..n /\ l \in 1..n /\ m <= l
      BY <1>8, <2>2
    <3>3. CASE m = l
      BY <1>7, <2>3, <2>5, <3>1, <3>3
    <3>4. CASE m < l
      <4>1. End(s[m]) <= base[s[l]] /\ base[s[m]] <= End(s[m])
        BY <1>2, <3>2, <3>4
      <4>2. base[s[m]] \in Nat /\ End(s[m]) \in Nat /\ base[s[l]] \in Nat
        BY <1>2, <3>2
      <4> QED BY <2>3, <3>1, <4>1, <4>2
    <3> QED BY <1>2, <3>2, <3>3, <3>4
  <2> QED BY <2>4, <2>5
<1>11. ASSUME NEW sz \in Sizes
       PROVE  (\E c \in above : base[c] < offset + sz) => DoesOverlapChild(r, offset, sz)
  <2>1. sz \in Nat /\ RootSize + sz < VaddrPages
    BY VmRegionAssumption DEF NoWrap
  <2>2. Add(offset, sz) = offset + sz
    <3>1. offset + sz \in 0..VaddrPages - 1
      BY <1>3, <2>1
    <3> QED BY <3>1, NoWrapping DEF Add
  <2>3. DoesOverlapChild(r, offset, sz) <=> found # NoRegion /\ base[found] <= offset + sz
    BY <1>4, <2>2 DEF DoesOverlapChild, found
  <2>4. CASE above = {}
    BY <1>9, <2>3, <2>4
  <2>5. CASE above # {}
    <3>1. /\ found \in above /\ found # NoRegion
          /\ \A c \in above : base[found] <= base[c] /\ base[c] \in Nat /\ base[found] \in Nat
      BY <1>7, <1>10, <2>5
    <3>2. offset + sz \in Nat
      BY <1>3, <2>1
    <3> QED BY <2>3, <3>1, <3>2
  <2> QED BY <2>4, <2>5
<1> QED BY <1>9, <1>10, <1>11 DEF above, found, s

-----------------------------------------------------------------------------
(* What allocate_vmr_compact and destroy keep, for every address space. *)

\* Bases, sizes, parents and lists of children stay in range.
THEOREM TypeCorrect ==
  ASSUME NoWrap
  PROVE  VmrSpec => []VmrTypeOK
<1>1. IInv => VmrTypeOK
  BY DEF IInv
<1> QED BY <1>1, Invariance, PTL

\* The lists of children stay sorted and their regions disjoint, whatever
\* sequence of allocate_vmr_compact and destroy() is called.
THEOREM ChildrenSorted ==
  ASSUME NoWrap
  PROVE  VmrSpec => []ChildrenOrdered
<1>1. IInv => ChildrenOrdered
  BY DEF IInv
<1> QED BY <1>1, Invariance, PTL

\* In addresses as vmregion.h documents them, a child of a region with base 0
\* stays inside it, and no region has a capability its parent lacks, whatever
\* allocate_vmr_compact and destroy() did before.
THEOREM ChildrenConfined ==
  ASSUME NoWrap
  PROVE  VmrSpec => []ConfinedAtZero
<1>1. IInv => ConfinedAtZero
  <2> SUFFICES ASSUME IInv, NEW r \in made, NEW c \in ToSet(children[r])
               PROVE  (base[r] = 0 => Inside(c, r)) /\ capability[c] \subseteq capability[r]
    BY DEF ConfinedAtZero
  <2>1. End(c) <= size[r] /\ capability[c] \subseteq capability[r]
    BY DEF IInv, Fitted
  <2>2. \E i \in 1..Len(children[r]) : children[r][i] = c
    BY RegionFacts
  <2>3. base[c] \in Nat /\ size[r] \in Nat
    BY <2>2, RegionFacts
  <2> QED BY <2>1, <2>3 DEF Inside, End
<1> QED BY <1>1, Invariance, PTL

\* parent_ and the lists of children describe the same forest: destroy()
\* takes a whole subtree off every list, and nothing else.
THEOREM ForestKept ==
  ASSUME NoWrap
  PROVE  VmrSpec => []ForestLinked
<1>1. IInv => ForestLinked
  BY DEF IInv
<1> QED BY <1>1, Invariance, PTL

\* The walk over the holes is a first-fit search in every region with base 0:
\* the lowest aligned address with room is found whenever there is one.
THEOREM LowestAddress ==
  ASSUME NoWrap
  PROVE  VmrSpec => []FirstFit
<1>1. IInv => FirstFit
  BY FirstFitHolds
<1> QED BY <1>1, Invariance, PTL

\* find_child_above returns the nearest child in every region with base 0,
\* so does_overlap_child reports every child that begins inside its range.
THEOREM NearestChild ==
  ASSUME NoWrap
  PROVE  VmrSpec => []FindsNearest
<1>1. IInv => FindsNearest
  BY FindsNearestHolds
<1> QED BY <1>1, Invariance, PTL
=============================================================================
