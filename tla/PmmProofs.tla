----------------------------- MODULE PmmProofs -----------------------------
(***************************************************************************)
(* The physical memory manager neither loses a page nor hands one out      *)
(* twice, and its calls are atomic to their callers, for any number of     *)
(* pages, callers and requests.                                            *)
(***************************************************************************)
EXTENDS Pmm, SequenceLemmas, SequenceTheorems, FiniteSetTheorems, TLAPS

-----------------------------------------------------------------------------
\* Conserved without positions: the lists have no page twice, and every page
\* is free, on a list or handed out alone, and only one of these.
Placed ==
  /\ NoRepeats(pfndb_freelist)
  /\ \A o \in Owners : NoRepeats(pages[o])
  /\ \A p \in Pages :
       \/ IsOn(p, pfndb_freelist) /\ p \notin single /\ \A o \in Owners : ~IsOn(p, pages[o])
       \/ ~IsOn(p, pfndb_freelist) /\ p \in single /\ \A o \in Owners : ~IsOn(p, pages[o])
       \/ /\ ~IsOn(p, pfndb_freelist) /\ p \notin single
          /\ \E o \in Owners : \A q \in Owners : IsOn(p, pages[q]) <=> q = o

\* In the middle of a call the lists of the other callers are as they were,
\* and the snapshot can be put together from what the loop has moved:
\* alloc_phys_pages turns the order around, so its rollback restores it;
\* free_phys_pages keeps the order.
Underway ==
  LET list == pages[caller]
      n == Len(list)
      m == Len(pfndb_freelist)
  IN at # "idle" =>
       /\ \A o \in Owners \ {caller} : before.pages[o] = pages[o]
       /\ at \in {"alloc", "rollback"} =>
            /\ before.pages[caller] = <<>>
            /\ Len(before.free) = n + m
            /\ \A i \in 1..n : before.free[i] = list[n + 1 - i]
            /\ \A i \in 1..m : before.free[n + i] = pfndb_freelist[i]
       /\ at = "alloc" => left + n <= MaxCount
       /\ at = "rollback" => n + m < MaxCount
       /\ at = "free" => before.free \o before.pages[caller] = pfndb_freelist \o list

IInv == PmmTypeOK /\ Placed /\ Underway

-----------------------------------------------------------------------------
(* The invariant. *)

LEMMA InitIInv == PmmInit => IInv
<1> SUFFICES ASSUME PmmInit PROVE IInv
  OBVIOUS
<1>1. \A o \in Owners : pages[o] = <<>>
  BY DEF PmmInit
<1>2. PmmTypeOK
  <2>1. 0 \in 0..MaxCount
    BY PmmAssumption
  <2>2. pages \in [Owners -> Seq(Pages)] /\ pfndb_freelist \in Seq(Pages)
    BY PmmAssumption, NothingOn DEF PmmInit
  <2> QED BY <2>1, <2>2 DEF PmmInit, Snapshot, PmmTypeOK
<1>3. Placed
  <2>1. NoRepeats(pfndb_freelist) /\ \A p \in Pages : IsOn(p, pfndb_freelist)
    BY PmmAssumption DEF PmmInit, NoRepeats, IsOn
  <2> QED BY <1>1, <2>1, NothingOn DEF PmmInit, Placed
<1>4. Underway
  BY DEF PmmInit, Underway
<1> QED BY <1>2, <1>3, <1>4 DEF IInv

LEMMA AllocSingleStep ==
  ASSUME IInv, AllocPhysPageSingle
  PROVE  IInv'
<1>1. at = "idle" /\ UNCHANGED <<pages, at, caller, left, before>>
  BY DEF AllocPhysPageSingle, loop
<1>2. CASE pfndb_freelist = <<>>
  <2>1. UNCHANGED <<pfndb_freelist, single>> /\ status' = "OUT_OF_MEMORY"
    BY <1>2 DEF AllocPhysPageSingle
  <2> QED BY <1>1, <2>1 DEF IInv, PmmTypeOK, Placed, Underway
<1>3. CASE pfndb_freelist # <<>>
  <2> DEFINE h == Head(pfndb_freelist)
  <2>1. single' = single \cup {h} /\ pfndb_freelist' = Tail(pfndb_freelist) /\ status' = "OK"
    BY <1>3 DEF AllocPhysPageSingle
  <2>2. /\ h \in Pages /\ Tail(pfndb_freelist) \in Seq(Pages) /\ IsOn(h, pfndb_freelist)
        /\ NoRepeats(Tail(pfndb_freelist))
        /\ \A p : IsOn(p, Tail(pfndb_freelist)) <=> IsOn(p, pfndb_freelist) /\ p # h
    BY <1>3, TakeFirst DEF IInv, PmmTypeOK, Placed
  <2> HIDE DEF h
  <2>3. PmmTypeOK'
    BY <1>1, <2>1, <2>2 DEF IInv, PmmTypeOK
  <2>4. Placed'
    BY <1>1, <2>1, <2>2 DEF IInv, Placed
  <2> QED BY <1>1, <2>3, <2>4 DEF IInv, Underway
<1> QED BY <1>2, <1>3

LEMMA FreeSingleStep ==
  ASSUME IInv, NEW p \in single, FreePhysPageSingle(p)
  PROVE  IInv'
<1>1. /\ at = "idle" /\ UNCHANGED <<pages, at, caller, left, before>>
      /\ single' = single \ {p} /\ pfndb_freelist' = Append(pfndb_freelist, p)
      /\ status' = "OK"
  BY DEF FreePhysPageSingle, loop
<1>2. p \in Pages /\ ~IsOn(p, pfndb_freelist) /\ \A o \in Owners : ~IsOn(p, pages[o])
  BY DEF IInv, PmmTypeOK, Placed
<1>3. /\ Append(pfndb_freelist, p) \in Seq(Pages)
      /\ NoRepeats(Append(pfndb_freelist, p))
      /\ \A q : IsOn(q, Append(pfndb_freelist, p)) <=> IsOn(q, pfndb_freelist) \/ q = p
  BY <1>2, AddLast DEF IInv, PmmTypeOK, Placed
<1>4. PmmTypeOK'
  BY <1>1, <1>3 DEF IInv, PmmTypeOK
<1>5. Placed'
  BY <1>1, <1>2, <1>3 DEF IInv, Placed
<1> QED BY <1>1, <1>4, <1>5 DEF IInv, Underway

LEMMA AllocBegins ==
  ASSUME IInv, NEW o \in Owners, NEW count \in 0..MaxCount, AllocPhysPages(o, count)
  PROVE  IInv'
<1>1. /\ pages[o] = <<>> /\ at' = "alloc" /\ caller' = o /\ left' = count
      /\ UNCHANGED <<pfndb_freelist, pages, single, status>>
      /\ before' = [free |-> pfndb_freelist, pages |-> pages]
  <2>1. [pages EXCEPT ![o] = <<>>] = pages
    BY DEF IInv, PmmTypeOK, AllocPhysPages
  <2> QED BY <2>1 DEF AllocPhysPages, Snapshot
<1>2. PmmTypeOK'
  BY <1>1 DEF IInv, PmmTypeOK
<1>3. Placed'
  BY <1>1 DEF IInv, Placed
<1>4. Underway'
  <2>1. Len(pfndb_freelist) \in Nat /\ Len(pages[o]) = 0 /\ count + 0 <= MaxCount
    BY <1>1, NothingOn, LenProperties, PmmAssumption DEF IInv, PmmTypeOK
  <2>2. before'.free = pfndb_freelist /\ before'.pages = pages
    BY <1>1
  <2>3. /\ Len(pfndb_freelist) = 0 + Len(pfndb_freelist)
        /\ \A i \in 1..Len(pfndb_freelist) : pfndb_freelist[0 + i] = pfndb_freelist[i]
    BY <2>1
  <2>4. 1..0 = {}
    OBVIOUS
  <2> QED BY <1>1, <2>1, <2>2, <2>3, <2>4 DEF Underway
<1> QED BY <1>2, <1>3, <1>4 DEF IInv

LEMMA FreeBegins ==
  ASSUME IInv, NEW o \in Owners, FreePhysPages(o)
  PROVE  IInv'
<1>1. /\ at' = "free" /\ caller' = o
      /\ UNCHANGED <<pfndb_freelist, pages, single, left, status>>
      /\ before' = [free |-> pfndb_freelist, pages |-> pages]
  BY DEF FreePhysPages, Snapshot
<1>2. PmmTypeOK'
  BY <1>1 DEF IInv, PmmTypeOK
<1>3. Placed'
  BY <1>1 DEF IInv, Placed
<1>4. Underway'
  BY <1>1 DEF Underway
<1> QED BY <1>2, <1>3, <1>4 DEF IInv

\* The page at the front of the free list moves to the front of the caller's.
LEMMA AllocTakeStep ==
  ASSUME IInv, AllocTake
  PROVE  IInv'
<1> DEFINE h == Head(pfndb_freelist)
           s == pages[caller]
           t == <<h>> \o s
           u == Tail(pfndb_freelist)
           n == Len(s)
           m == Len(pfndb_freelist)
<1>1. /\ at = "alloc" /\ left > 0 /\ pfndb_freelist # <<>>
      /\ pages' = [pages EXCEPT ![caller] = t] /\ pfndb_freelist' = u
      /\ left' = left - 1 /\ UNCHANGED <<single, at, caller, status, before>>
  BY DEF AllocTake
<1>2. s \in Seq(Pages) /\ pfndb_freelist \in Seq(Pages) /\ caller \in Owners
  BY DEF IInv, PmmTypeOK
<1>3. /\ h \in Pages /\ h = pfndb_freelist[1] /\ u \in Seq(Pages)
      /\ m \in Nat \ {0} /\ Len(u) = m - 1
      /\ \A i \in 1..m - 1 : u[i] = pfndb_freelist[i + 1]
      /\ IsOn(h, pfndb_freelist) /\ NoRepeats(u)
      /\ \A p : IsOn(p, u) <=> IsOn(p, pfndb_freelist) /\ p # h
  BY <1>1, <1>2, TakeFirst DEF IInv, Placed
<1>4. /\ \A o \in Owners : ~IsOn(h, pages[o])
      /\ h \notin single
  BY <1>3 DEF IInv, Placed
<1>5. /\ t \in Seq(Pages) /\ Len(t) = n + 1 /\ n \in Nat /\ t[1] = h
      /\ \A i \in 1..n : t[i + 1] = s[i]
      /\ \A p : IsOn(p, t) <=> IsOn(p, s) \/ p = h
      /\ NoRepeats(t)
  BY <1>2, <1>3, <1>4, AddFirst DEF IInv, Placed
<1>6. pages'[caller] = t /\ \A o \in Owners \ {caller} : pages'[o] = pages[o]
  BY <1>1 DEF IInv, PmmTypeOK
<1> HIDE DEF h, t, u, n, m
<1>7. PmmTypeOK'
  <2>1. left \in 0..MaxCount /\ MaxCount \in Nat
    BY PmmAssumption DEF IInv, PmmTypeOK
  <2>2. left - 1 \in 0..MaxCount
    BY <1>1, <2>1
  <2>3. pages' \in [Owners -> Seq(Pages)]
    BY <1>1, <1>2, <1>5 DEF IInv, PmmTypeOK
  <2> QED BY <1>1, <1>3, <2>2, <2>3 DEF IInv, PmmTypeOK
<1>8. Placed'
  <2>1. NoRepeats(pfndb_freelist') /\ \A o \in Owners : NoRepeats(pages'[o])
    BY <1>1, <1>3, <1>5, <1>6 DEF IInv, Placed
  <2>2. ASSUME NEW p \in Pages, p # h
        PROVE  /\ IsOn(p, pfndb_freelist') <=> IsOn(p, pfndb_freelist)
               /\ \A o \in Owners : IsOn(p, pages'[o]) <=> IsOn(p, pages[o])
    BY <1>1, <1>3, <1>5, <1>6, <2>2
  <2>3. /\ ~IsOn(h, pfndb_freelist') /\ h \notin single
        /\ \A q \in Owners : IsOn(h, pages'[q]) <=> q = caller
    BY <1>1, <1>2, <1>3, <1>4, <1>5, <1>6
  <2>4. single' = single /\ caller \in Owners
    BY <1>1, <1>2
  <2> QED BY <2>1, <2>2, <2>3, <2>4 DEF IInv, Placed
<1>9. /\ before.pages[caller] = <<>> /\ Len(before.free) = n + m
      /\ \A i \in 1..n : before.free[i] = s[n + 1 - i]
      /\ \A i \in 1..m : before.free[n + i] = pfndb_freelist[i]
      /\ left + n <= MaxCount
  BY <1>1 DEF IInv, Underway, n, m
<1>10. \A i \in 1..n + 1 : before.free[i] = t[(n + 1) + 1 - i]
  <2> TAKE i \in 1..n + 1
  <2>1. CASE i = n + 1
    <3>1. 1 \in 1..m /\ (n + 1) + 1 - i = 1
      BY <1>3, <1>5, <2>1
    <3> QED BY <1>3, <1>5, <1>9, <2>1, <3>1
  <2>2. CASE i \in 1..n
    <3>1. n + 1 - i \in 1..n /\ (n + 1) + 1 - i = (n + 1 - i) + 1
      BY <1>5, <2>2
    <3> QED BY <1>5, <1>9, <2>2, <3>1
  <2> QED BY <1>5, <2>1, <2>2
<1>11. \A i \in 1..m - 1 : before.free[(n + 1) + i] = u[i]
  <2> TAKE i \in 1..m - 1
  <2>1. i + 1 \in 1..m /\ n + (i + 1) = (n + 1) + i
    BY <1>3, <1>5
  <2> QED BY <1>3, <1>9, <2>1
<1>12. n + m = (n + 1) + (m - 1) /\ (left - 1) + (n + 1) <= MaxCount
  <2>1. left \in Int /\ MaxCount \in Int /\ n \in Int /\ m \in Int /\ left + n <= MaxCount
    BY <1>3, <1>5, <1>9, PmmAssumption DEF IInv, PmmTypeOK
  <2> QED BY <2>1
<1>13. Underway'
  <2>1. /\ Len(pages'[caller']) = n + 1 /\ Len(pfndb_freelist') = m - 1
        /\ pages'[caller'] = t /\ pfndb_freelist' = u
        /\ at' = "alloc" /\ caller' = caller /\ before' = before /\ left' = left - 1
    BY <1>1, <1>3, <1>5, <1>6
  <2>2. \A o \in Owners \ {caller} : before.pages[o] = pages'[o]
    BY <1>1, <1>6 DEF IInv, Underway
  <2>3. Len(before.free) = (n + 1) + (m - 1)
    BY <1>9, <1>12
  <2> QED BY <1>9, <1>10, <1>11, <1>12, <2>1, <2>2, <2>3 DEF Underway
<1> QED BY <1>7, <1>8, <1>13 DEF IInv

\* The free list is used up, so the request was for more than there was.
LEMMA AllocShortStep ==
  ASSUME IInv, AllocShort
  PROVE  IInv'
<1>1. /\ at = "alloc" /\ left > 0 /\ pfndb_freelist = <<>> /\ at' = "rollback"
      /\ UNCHANGED <<pfndb_freelist, pages, single, caller, left, status, before>>
  BY DEF AllocShort
<1>2. Len(pages[caller]) + Len(pfndb_freelist) < MaxCount
  <2>1. Len(pages[caller]) \in Nat /\ Len(pfndb_freelist) = 0 /\ left \in Nat
    BY <1>1, NothingOn, LenProperties, PmmAssumption DEF IInv, PmmTypeOK
  <2>2. left + Len(pages[caller]) <= MaxCount
    BY <1>1 DEF IInv, Underway
  <2> QED BY <1>1, <2>1, <2>2, PmmAssumption
<1>3. PmmTypeOK' /\ Placed'
  BY <1>1 DEF IInv, PmmTypeOK, Placed
<1>4. Underway'
  BY <1>1, <1>2 DEF IInv, Underway
<1> QED BY <1>3, <1>4 DEF IInv

\* The last page taken goes back to the front of the free list.
LEMMA RollbackTurnStep ==
  ASSUME IInv, RollbackTurn
  PROVE  IInv'
<1> DEFINE s == pages[caller]
           h == Head(s)
           t == Tail(s)
           u == <<h>> \o pfndb_freelist
           n == Len(s)
           m == Len(pfndb_freelist)
<1>1. /\ at = "rollback" /\ s # <<>>
      /\ pages' = [pages EXCEPT ![caller] = t] /\ pfndb_freelist' = u
      /\ UNCHANGED <<single, at, caller, left, status, before>>
  BY DEF IInv, PmmTypeOK, RollbackTurn, loop
<1>2. s \in Seq(Pages) /\ pfndb_freelist \in Seq(Pages) /\ caller \in Owners
  BY DEF IInv, PmmTypeOK
<1>3. /\ h \in Pages /\ h = s[1] /\ t \in Seq(Pages)
      /\ n \in Nat \ {0} /\ Len(t) = n - 1
      /\ \A i \in 1..n - 1 : t[i] = s[i + 1]
      /\ IsOn(h, s) /\ NoRepeats(t)
      /\ \A p : IsOn(p, t) <=> IsOn(p, s) /\ p # h
  BY <1>1, <1>2, TakeFirst DEF IInv, Placed
<1>4. /\ \A o \in Owners \ {caller} : ~IsOn(h, pages[o])
      /\ h \notin single /\ ~IsOn(h, pfndb_freelist)
  BY <1>2, <1>3 DEF IInv, Placed
<1>5. /\ u \in Seq(Pages) /\ Len(u) = m + 1 /\ m \in Nat /\ u[1] = h
      /\ \A i \in 1..m : u[i + 1] = pfndb_freelist[i]
      /\ \A p : IsOn(p, u) <=> IsOn(p, pfndb_freelist) \/ p = h
      /\ NoRepeats(u)
  BY <1>2, <1>3, <1>4, AddFirst DEF IInv, Placed
<1>6. pages'[caller] = t /\ \A o \in Owners \ {caller} : pages'[o] = pages[o]
  BY <1>1 DEF IInv, PmmTypeOK
<1> HIDE DEF h, t, u, n, m
<1>7. PmmTypeOK'
  BY <1>1, <1>2, <1>3, <1>5 DEF IInv, PmmTypeOK
<1>8. Placed'
  <2>1. IsOn(h, u) /\ \A o \in Owners : ~IsOn(h, pages'[o])
    BY <1>2, <1>3, <1>4, <1>5, <1>6
  <2>2. \A p : p # h => /\ IsOn(p, u) <=> IsOn(p, pfndb_freelist)
                        /\ \A o \in Owners : IsOn(p, pages'[o]) <=> IsOn(p, pages[o])
    BY <1>2, <1>3, <1>5, <1>6
  <2>3. \A o \in Owners : NoRepeats(pages'[o])
    BY <1>2, <1>3, <1>6 DEF IInv, Placed
  <2>4. ASSUME NEW p \in Pages, p # h
        PROVE  \/ /\ IsOn(p, u) /\ p \notin single
                  /\ \A o \in Owners : ~IsOn(p, pages'[o])
               \/ /\ ~IsOn(p, u) /\ p \in single
                  /\ \A o \in Owners : ~IsOn(p, pages'[o])
               \/ /\ ~IsOn(p, u) /\ p \notin single
                  /\ \E o \in Owners : \A q \in Owners : IsOn(p, pages'[q]) <=> q = o
    BY <2>2, <2>4 DEF IInv, Placed
  <2> QED BY <1>1, <1>4, <1>5, <2>1, <2>3, <2>4 DEF Placed
<1>9. /\ before.pages[caller] = <<>> /\ Len(before.free) = n + m
      /\ \A i \in 1..n : before.free[i] = s[n + 1 - i]
      /\ \A i \in 1..m : before.free[n + i] = pfndb_freelist[i]
      /\ n + m < MaxCount
  BY <1>1 DEF IInv, Underway, n, m
<1>10. \A i \in 1..n - 1 : before.free[i] = t[(n - 1) + 1 - i]
  <2> TAKE i \in 1..n - 1
  <2>1. /\ i \in 1..n /\ (n - 1) + 1 - i \in 1..n - 1
        /\ n + 1 - i = ((n - 1) + 1 - i) + 1
    BY <1>3
  <2> QED BY <1>3, <1>9, <2>1
<1>11. \A i \in 1..m + 1 : before.free[(n - 1) + i] = u[i]
  <2> TAKE i \in 1..m + 1
  <2>1. CASE i = 1
    <3>1. n \in 1..n /\ (n - 1) + i = n /\ n + 1 - n = 1
      BY <1>3, <2>1
    <3> QED BY <1>3, <1>5, <1>9, <2>1, <3>1
  <2>2. CASE i # 1
    <3>1. i - 1 \in 1..m /\ (n - 1) + i = n + (i - 1) /\ (i - 1) + 1 = i
      BY <1>3, <1>5, <2>2
    <3> QED BY <1>5, <1>9, <3>1
  <2> QED BY <2>1, <2>2
<1>12. n + m = (n - 1) + (m + 1) /\ (n - 1) + (m + 1) < MaxCount
  BY <1>3, <1>5, <1>9, PmmAssumption
<1>13. Underway'
  <2>1. /\ Len(pages'[caller']) = n - 1 /\ Len(pfndb_freelist') = m + 1
        /\ pages'[caller'] = t /\ pfndb_freelist' = u
        /\ at' = "rollback" /\ caller' = caller /\ before' = before
    BY <1>1, <1>3, <1>5, <1>6
  <2>2. \A o \in Owners \ {caller} : before.pages[o] = pages'[o]
    BY <1>1, <1>6 DEF IInv, Underway
  <2>3. Len(before.free) = (n - 1) + (m + 1)
    BY <1>9, <1>12
  <2> QED BY <1>9, <1>10, <1>11, <1>12, <2>1, <2>2, <2>3 DEF Underway
<1> QED BY <1>7, <1>8, <1>13 DEF IInv

\* The page at the front of the caller's list goes to the end of the free one.
LEMMA FreeTurnStep ==
  ASSUME IInv, FreeTurn
  PROVE  IInv'
<1> DEFINE s == pages[caller]
           h == Head(s)
           t == Tail(s)
           u == Append(pfndb_freelist, h)
<1>1. /\ at = "free" /\ s # <<>>
      /\ pages' = [pages EXCEPT ![caller] = t] /\ pfndb_freelist' = u
      /\ UNCHANGED <<single, at, caller, left, status, before>>
  BY DEF IInv, PmmTypeOK, FreeTurn, loop
<1>2. s \in Seq(Pages) /\ pfndb_freelist \in Seq(Pages) /\ caller \in Owners
  BY DEF IInv, PmmTypeOK
<1>3. /\ h \in Pages /\ t \in Seq(Pages) /\ IsOn(h, s) /\ NoRepeats(t)
      /\ \A p : IsOn(p, t) <=> IsOn(p, s) /\ p # h
  BY <1>1, <1>2, TakeFirst DEF IInv, Placed
<1>4. /\ \A o \in Owners \ {caller} : ~IsOn(h, pages[o])
      /\ h \notin single /\ ~IsOn(h, pfndb_freelist)
  BY <1>2, <1>3 DEF IInv, Placed
<1>5. /\ u \in Seq(Pages) /\ NoRepeats(u)
      /\ \A p : IsOn(p, u) <=> IsOn(p, pfndb_freelist) \/ p = h
  BY <1>2, <1>3, <1>4, AddLast DEF IInv, Placed
<1>6. pages'[caller] = t /\ \A o \in Owners \ {caller} : pages'[o] = pages[o]
  BY <1>1 DEF IInv, PmmTypeOK
<1>7. u \o t = pfndb_freelist \o s
  BY <1>1, <1>2, MoveOver
<1> HIDE DEF h, t, u
<1>8. PmmTypeOK'
  BY <1>1, <1>2, <1>3, <1>5 DEF IInv, PmmTypeOK
<1>9. Placed'
  <2>1. IsOn(h, u) /\ \A o \in Owners : ~IsOn(h, pages'[o])
    BY <1>2, <1>3, <1>4, <1>5, <1>6
  <2>2. \A p : p # h => /\ IsOn(p, u) <=> IsOn(p, pfndb_freelist)
                        /\ \A o \in Owners : IsOn(p, pages'[o]) <=> IsOn(p, pages[o])
    BY <1>2, <1>3, <1>5, <1>6
  <2>3. \A o \in Owners : NoRepeats(pages'[o])
    BY <1>2, <1>3, <1>6 DEF IInv, Placed
  <2>4. ASSUME NEW p \in Pages, p # h
        PROVE  \/ /\ IsOn(p, u) /\ p \notin single
                  /\ \A o \in Owners : ~IsOn(p, pages'[o])
               \/ /\ ~IsOn(p, u) /\ p \in single
                  /\ \A o \in Owners : ~IsOn(p, pages'[o])
               \/ /\ ~IsOn(p, u) /\ p \notin single
                  /\ \E o \in Owners : \A q \in Owners : IsOn(p, pages'[q]) <=> q = o
    BY <2>2, <2>4 DEF IInv, Placed
  <2> QED BY <1>1, <1>4, <1>5, <2>1, <2>3, <2>4 DEF Placed
<1>10. Underway'
  <2>1. before.free \o before.pages[caller] = pfndb_freelist \o s
    BY <1>1 DEF IInv, Underway
  <2>2. \A o \in Owners \ {caller} : before.pages[o] = pages'[o]
    BY <1>1, <1>6 DEF IInv, Underway
  <2> QED BY <1>1, <1>6, <1>7, <2>1, <2>2 DEF Underway
<1> QED BY <1>8, <1>9, <1>10 DEF IInv

\* The ends of the loops.
LEMMA CallEnds ==
  ASSUME IInv, AllocDone \/ RollbackDone \/ FreeDone
  PROVE  IInv'
<1>1. at' = "idle" /\ UNCHANGED <<pfndb_freelist, pages, single, caller, before>>
  BY DEF AllocDone, RollbackDone, FreeDone
<1>2. left' \in 0..MaxCount /\ status' \in {"OK", "OUT_OF_MEMORY"}
  <2>1. 0 \in 0..MaxCount
    BY PmmAssumption
  <2> QED BY <2>1 DEF AllocDone, RollbackDone, FreeDone, IInv, PmmTypeOK
<1>3. PmmTypeOK' /\ Placed'
  BY <1>1, <1>2 DEF IInv, PmmTypeOK, Placed
<1>4. Underway'
  BY <1>1 DEF Underway
<1> QED BY <1>3, <1>4 DEF IInv

LEMMA NextIInv == IInv /\ [PmmNext]_pmmVars => IInv'
<1> SUFFICES ASSUME IInv, [PmmNext]_pmmVars PROVE IInv'
  OBVIOUS
<1>1. CASE UNCHANGED pmmVars
  <2>1. UNCHANGED <<pfndb_freelist, pages, single, at, caller, left, status, before>>
    BY <1>1 DEF pmmVars
  <2> QED BY <2>1 DEF IInv, PmmTypeOK, Placed, Underway
<1>2. CASE PmmNext
  BY <1>2, AllocSingleStep, FreeSingleStep, AllocBegins, FreeBegins, AllocTakeStep,
     AllocShortStep, RollbackTurnStep, FreeTurnStep, CallEnds DEF PmmNext
<1> QED BY <1>1, <1>2

\* The invariant holds between any two turns of the loops.
THEOREM Invariance == PmmSystem => []IInv
  BY InitIInv, NextIInv, PTL DEF PmmSystem

\* Every field stays in range, the count of pages still to take included.
THEOREM TypeCorrect == PmmSystem => []PmmTypeOK
<1>1. IInv => PmmTypeOK
  BY DEF IInv
<1> QED BY <1>1, Invariance, PTL

-----------------------------------------------------------------------------
\* A page is on a list without duplicates at one position.
LEMMA OnePosition ==
  ASSUME NEW s, NEW p, NoRepeats(s), IsOn(p, s)
  PROVE  \E i : PositionsOf(p, s) = {i}
<1>1. PICK i \in 1..Len(s) : s[i] = p
  BY DEF IsOn
<1> QED BY <1>1 DEF NoRepeats, PositionsOf

LEMMA PlacedConserves == IInv => Conserved
<1> SUFFICES ASSUME IInv, NEW p \in Pages PROVE Cardinality(Places(p)) = 1
  BY DEF Conserved
<1> DEFINE F == PositionsOf(p, pfndb_freelist)
           L(o) == PositionsOf(p, pages[o])
           InFree == {<<"free", i>> : i \in F}
           InLists == UNION {{<<"list", o, i>> : i \in L(o)} : o \in Owners}
           Alone == {<<"single", q>> : q \in single \cap {p}}
<1>1. Places(p) = InFree \cup InLists \cup Alone
  BY DEF Places
<1>2. ~IsOn(p, pfndb_freelist) => InFree = {}
  BY DEF IsOn, PositionsOf
<1>3. (\A o \in Owners : ~IsOn(p, pages[o])) => InLists = {}
  BY DEF IsOn, PositionsOf
<1>4. p \notin single => Alone = {}
  OBVIOUS
<1>5. \E x : Places(p) = {x}
  <2>1. CASE IsOn(p, pfndb_freelist)
    <3>1. PICK i : F = {i}
      BY <2>1, OnePosition DEF IInv, Placed
    <3>2. InFree = {<<"free", i>>}
      BY <3>1
    <3>3. InLists = {} /\ Alone = {}
      BY <1>3, <1>4, <2>1 DEF IInv, Placed
    <3> QED BY <1>1, <3>2, <3>3
  <2>2. CASE p \in single
    <3>1. Alone = {<<"single", p>>}
      BY <2>2
    <3>2. InFree = {} /\ InLists = {}
      BY <1>2, <1>3, <2>2 DEF IInv, Placed
    <3> QED BY <1>1, <3>1, <3>2
  <2>3. CASE ~IsOn(p, pfndb_freelist) /\ p \notin single
    <3>1. PICK o \in Owners : \A q \in Owners : IsOn(p, pages[q]) <=> q = o
      BY <2>3 DEF IInv, Placed
    <3>2. PICK i : L(o) = {i}
      BY <3>1, OnePosition DEF IInv, Placed
    <3>3. \A q \in Owners \ {o} : L(q) = {}
      BY <3>1 DEF IsOn, PositionsOf
    <3>4. InLists = {<<"list", o, i>>}
      BY <3>2, <3>3
    <3> QED BY <1>1, <1>2, <1>4, <2>3, <3>4
  <2> QED BY <2>1, <2>2, <2>3
<1> QED BY <1>5, FS_Singleton

\* Whatever is allocated and freed, and wherever a loop is, no page is lost,
\* and none is in two places.
THEOREM PagesConserved == PmmSystem => []Conserved
  BY Invariance, PlacedConserves, PTL

-----------------------------------------------------------------------------
(* Refinement: a call shows at its end. *)

\* What PmmSpec sees of the free list and of the lists of callers.
FreeSeen == IF at = "idle" THEN pfndb_freelist ELSE before.free
ListsSeen == IF at = "idle" THEN pages ELSE before.pages

\* alloc_phys_pages returns with its pages.
LEMMA AllocDoneTakes ==
  ASSUME IInv, AllocDone
  PROVE  /\ caller \in Owners /\ Len(pages[caller]) \in 0..MaxCount
         /\ Len(pages[caller]) <= Len(before.free)
         /\ pages = [before.pages EXCEPT ![caller] =
                       Reverse(SubSeq(before.free, 1, Len(pages[caller])))]
         /\ pfndb_freelist = SubSeq(before.free, Len(pages[caller]) + 1, Len(before.free))
<1> DEFINE s == pages[caller]
           f == before.free
           n == Len(s)
<1>1. at = "alloc" /\ left = 0
  BY DEF AllocDone
<1>2. /\ s \in Seq(Pages) /\ f \in Seq(Pages) /\ pfndb_freelist \in Seq(Pages)
      /\ caller \in Owners /\ pages \in [Owners -> Seq(Pages)]
      /\ before.pages \in [Owners -> Seq(Pages)]
  BY DEF IInv, PmmTypeOK
<1>3. /\ Len(f) = n + Len(pfndb_freelist)
      /\ \A i \in 1..n : f[i] = s[n + 1 - i]
      /\ \A i \in 1..Len(pfndb_freelist) : f[n + i] = pfndb_freelist[i]
      /\ 0 + n <= MaxCount
      /\ \A o \in Owners \ {caller} : before.pages[o] = pages[o]
  BY <1>1 DEF IInv, Underway
<1>4. /\ n \in Nat /\ n <= Len(f) /\ Reverse(SubSeq(f, 1, n)) = s
      /\ SubSeq(f, n + 1, Len(f)) = pfndb_freelist
  BY <1>2, <1>3, TakenFromFront
<1>5. n \in 0..MaxCount
  BY <1>3, <1>4, PmmAssumption
<1>6. pages = [before.pages EXCEPT ![caller] = s]
  BY <1>2, <1>3
<1> QED BY <1>2, <1>4, <1>5, <1>6

\* A failed call leaves everything as it was.
LEMMA RollbackRestores ==
  ASSUME IInv, RollbackDone
  PROVE  /\ pfndb_freelist = before.free /\ pages = before.pages
         /\ MaxCount > Len(pfndb_freelist)
<1>1. at = "rollback" /\ pages[caller] = <<>> /\ Len(pages[caller]) = 0
  BY NothingOn DEF RollbackDone
<1>2. /\ before.free \in Seq(Pages) /\ pfndb_freelist \in Seq(Pages)
      /\ caller \in Owners /\ pages \in [Owners -> Seq(Pages)]
      /\ before.pages \in [Owners -> Seq(Pages)]
  BY DEF IInv, PmmTypeOK
<1>3. Len(pfndb_freelist) \in Nat
  BY <1>2, LenProperties
<1>4. /\ Len(before.free) = 0 + Len(pfndb_freelist)
      /\ \A i \in 1..Len(pfndb_freelist) : before.free[0 + i] = pfndb_freelist[i]
      /\ before.pages[caller] = <<>>
      /\ \A o \in Owners \ {caller} : before.pages[o] = pages[o]
      /\ 0 + Len(pfndb_freelist) < MaxCount
  BY <1>1 DEF IInv, Underway
<1>5. /\ Len(before.free) = Len(pfndb_freelist)
      /\ \A i \in 1..Len(before.free) : before.free[i] = pfndb_freelist[i]
  BY <1>3, <1>4
<1>6. pfndb_freelist = before.free
  BY <1>2, <1>5, SeqEqual
<1>7. pages = before.pages
  BY <1>1, <1>2, <1>4
<1>8. MaxCount > Len(pfndb_freelist)
  BY <1>3, <1>4, PmmAssumption
<1> QED BY <1>6, <1>7, <1>8

\* free_phys_pages has put all of its pages behind the free ones.
LEMMA FreeDoneGives ==
  ASSUME IInv, FreeDone
  PROVE  /\ caller \in Owners
         /\ pfndb_freelist = before.free \o before.pages[caller]
         /\ pages = [before.pages EXCEPT ![caller] = <<>>]
<1>1. at = "free" /\ pages[caller] = <<>>
  BY DEF FreeDone
<1>2. /\ pfndb_freelist \in Seq(Pages) /\ caller \in Owners
      /\ pages \in [Owners -> Seq(Pages)] /\ before.pages \in [Owners -> Seq(Pages)]
  BY DEF IInv, PmmTypeOK
<1>3. /\ before.free \o before.pages[caller] = pfndb_freelist \o pages[caller]
      /\ \A o \in Owners \ {caller} : before.pages[o] = pages[o]
  BY <1>1 DEF IInv, Underway
<1>4. pfndb_freelist \o <<>> = pfndb_freelist
  BY <1>2, ConcatEmptySeq
<1> QED BY <1>1, <1>2, <1>3, <1>4

LEMMA AbstractStep ==
  ASSUME IInv, [PmmNext]_pmmVars
  PROVE  [AbstractPmm!PmmNext]_<<FreeSeen, ListsSeen, single, status>>
<1> USE DEF FreeSeen, ListsSeen
<1>1. CASE UNCHANGED pmmVars
  BY <1>1 DEF pmmVars
<1>2. CASE AllocPhysPageSingle
  <2>1. /\ at = "idle" /\ at' = "idle" /\ UNCHANGED pages
    BY <1>2 DEF AllocPhysPageSingle, loop
  <2>2. CASE pfndb_freelist = <<>>
    <3>1. 1 \in 1..MaxCount /\ 1 > Len(pfndb_freelist)
      BY <2>2, NothingOn, PmmAssumption
    <3>2. AbstractPmm!Refuse(1)
      BY <1>2, <2>1, <2>2, <3>1 DEF AllocPhysPageSingle, AbstractPmm!Refuse
    <3> QED BY <3>1, <3>2 DEF AbstractPmm!PmmNext
  <2>3. CASE pfndb_freelist # <<>>
    <3>1. AbstractPmm!TakeSingle
      BY <1>2, <2>1, <2>3 DEF AllocPhysPageSingle, AbstractPmm!TakeSingle
    <3> QED BY <3>1 DEF AbstractPmm!PmmNext
  <2> QED BY <2>2, <2>3
<1>3. ASSUME NEW p \in single, FreePhysPageSingle(p)
      PROVE  AbstractPmm!PmmNext
  <2>1. AbstractPmm!GiveSingle(p)
    BY <1>3 DEF FreePhysPageSingle, loop, AbstractPmm!GiveSingle
  <2> QED BY <2>1 DEF AbstractPmm!PmmNext
<1>4. ASSUME NEW o \in Owners, FreePhysPages(o)
      PROVE  UNCHANGED <<FreeSeen, ListsSeen, single, status>>
  BY <1>4 DEF FreePhysPages, Snapshot
<1>5. ASSUME NEW o \in Owners, NEW count \in 0..MaxCount, AllocPhysPages(o, count)
      PROVE  UNCHANGED <<FreeSeen, ListsSeen, single, status>>
  BY <1>5 DEF AllocPhysPages, Snapshot
<1>6. CASE AllocTake \/ AllocShort \/ RollbackTurn \/ FreeTurn
  BY <1>6 DEF AllocTake, AllocShort, RollbackTurn, FreeTurn, loop
<1>7. CASE AllocDone
  <2>1. /\ at = "alloc" /\ at' = "idle" /\ status' = "OK"
        /\ UNCHANGED <<pfndb_freelist, pages, single>>
    BY <1>7 DEF AllocDone
  <2> DEFINE n == Len(pages[caller])
  <2>2. /\ FreeSeen = before.free /\ FreeSeen' = pfndb_freelist
        /\ ListsSeen = before.pages /\ ListsSeen' = pages
    BY <2>1
  <2>3. /\ caller \in Owners /\ n \in 0..MaxCount /\ n <= Len(before.free)
        /\ pages = [before.pages EXCEPT ![caller] = Reverse(SubSeq(before.free, 1, n))]
        /\ pfndb_freelist = SubSeq(before.free, n + 1, Len(before.free))
    BY <1>7, AllocDoneTakes
  <2> HIDE DEF n
  <2>4. AbstractPmm!Reverse(SubSeq(before.free, 1, n)) = Reverse(SubSeq(before.free, 1, n))
    BY DEF AbstractPmm!Reverse, Reverse
  <2>5. AbstractPmm!Take(caller, n)
    BY <2>1, <2>2, <2>3, <2>4 DEF AbstractPmm!Take
  <2> QED BY <2>3, <2>5 DEF AbstractPmm!PmmNext
<1>8. CASE RollbackDone
  <2>1. /\ at = "rollback" /\ at' = "idle" /\ status' = "OUT_OF_MEMORY"
        /\ UNCHANGED <<pfndb_freelist, pages, single>>
    BY <1>8 DEF RollbackDone
  <2>2. AbstractPmm!Refuse(MaxCount)
    <3>1. /\ FreeSeen = pfndb_freelist /\ FreeSeen' = pfndb_freelist
          /\ ListsSeen = pages /\ ListsSeen' = pages /\ MaxCount > Len(pfndb_freelist)
      BY <1>8, <2>1, RollbackRestores
    <3> QED BY <2>1, <3>1 DEF AbstractPmm!Refuse
  <2>3. MaxCount \in 1..MaxCount
    BY PmmAssumption
  <2> QED BY <2>2, <2>3 DEF AbstractPmm!PmmNext
<1>9. CASE FreeDone
  <2>1. /\ at = "free" /\ at' = "idle" /\ status' = "OK"
        /\ UNCHANGED <<pfndb_freelist, pages, single>>
    BY <1>9 DEF FreeDone
  <2>2. AbstractPmm!Give(caller)
    BY <1>9, <2>1, FreeDoneGives DEF AbstractPmm!Give
  <2> QED BY <1>9, <2>2, FreeDoneGives DEF AbstractPmm!PmmNext
<1> QED BY <1>1, <1>2, <1>3, <1>4, <1>5, <1>6, <1>7, <1>8, <1>9 DEF PmmNext

\* The loops of the memory manager implement its atomic specification: a call
\* gets all of its pages or none, and one that fails puts the free list back
\* in its old order.
THEOREM PmmRefinement == PmmSystem => ImplementsPmm
<1>1. PmmInit => /\ FreeSeen = InitFree /\ ListsSeen = [o \in Owners |-> <<>>]
              /\ single = {} /\ status = "OK"
  BY DEF PmmInit, FreeSeen, ListsSeen
<1>2. IInv /\ [PmmNext]_pmmVars => [AbstractPmm!PmmNext]_<<FreeSeen, ListsSeen, single, status>>
  BY AbstractStep
<1> QED BY <1>1, <1>2, Invariance, PTL
        DEF PmmSystem, ImplementsPmm, AbstractPmm!PmmBehaviour, FreeSeen, ListsSeen
=============================================================================
