--------------------------- MODULE SequenceLemmas ---------------------------
(***************************************************************************)
(* Facts about the library's operators on sequences and sets that the      *)
(* proofs about lists share.                                               *)
(***************************************************************************)
EXTENDS Integers, SequencesExt, SequenceTheorems, NaturalsInduction, WellFoundedInduction,
        TLAPS

-----------------------------------------------------------------------------
(* What InsertAt and RemoveAt return, position by position. *)

LEMMA InsertAtProperties ==
  ASSUME NEW S, NEW s \in Seq(S), NEW x \in S, NEW i \in 1..Len(s) + 1
  PROVE  /\ InsertAt(s, i, x) \in Seq(S)
         /\ Len(InsertAt(s, i, x)) = Len(s) + 1
         /\ \A j \in 1..Len(s) + 1 :
              InsertAt(s, i, x)[j] =
                IF j < i THEN s[j] ELSE IF j = i THEN x ELSE s[j - 1]
<1> DEFINE a == SubSeq(s, 1, i - 1)
           b == SubSeq(s, i, Len(s))
<1>1. Len(s) \in Nat /\ i \in Nat /\ i >= 1
  OBVIOUS
<1>2. /\ a \in Seq(S) /\ Len(a) = i - 1
      /\ \A j \in 1..i - 1 : a[j] = s[j]
  BY <1>1
<1>3. /\ b \in Seq(S) /\ Len(b) = Len(s) - i + 1
      /\ \A j \in 1..Len(s) - i + 1 : b[j] = s[i + j - 1]
  BY <1>1
<1> HIDE DEF a, b
<1> DEFINE c == a \o <<x>>
<1>4. /\ c \in Seq(S) /\ Len(c) = i
      /\ \A j \in 1..i - 1 : c[j] = s[j]
      /\ c[i] = x
  BY <1>1, <1>2
<1> HIDE DEF c
<1>5. /\ c \o b \in Seq(S) /\ Len(c \o b) = Len(s) + 1
      /\ \A j \in 1..i : (c \o b)[j] = c[j]
      /\ \A j \in i + 1..Len(s) + 1 : (c \o b)[j] = b[j - i]
  <2>1. /\ c \o b \in Seq(S) /\ Len(c \o b) = Len(c) + Len(b)
        /\ \A j \in 1..Len(c) + Len(b) :
             (c \o b)[j] = IF j <= Len(c) THEN c[j] ELSE b[j - Len(c)]
    BY <1>3, <1>4, ConcatProperties
  <2>2. Len(c) = i /\ Len(c) + Len(b) = Len(s) + 1
    BY <1>1, <1>3, <1>4
  <2> QED BY <1>1, <2>1, <2>2
<1>6. \A j \in i + 1..Len(s) + 1 : b[j - i] = s[j - 1]
  <2> TAKE j \in i + 1..Len(s) + 1
  <2>1. j - i \in 1..Len(s) - i + 1 /\ i + (j - i) - 1 = j - 1
    BY <1>1
  <2> QED BY <1>3, <2>1
<1>7. InsertAt(s, i, x) = c \o b
  BY DEF InsertAt, a, b, c
<1> QED BY <1>1, <1>4, <1>5, <1>6, <1>7

LEMMA RemoveAtProperties ==
  ASSUME NEW S, NEW s \in Seq(S), NEW i \in 1..Len(s)
  PROVE  /\ RemoveAt(s, i) \in Seq(S)
         /\ Len(RemoveAt(s, i)) = Len(s) - 1
         /\ \A j \in 1..Len(s) - 1 :
              RemoveAt(s, i)[j] = IF j < i THEN s[j] ELSE s[j + 1]
<1> DEFINE a == SubSeq(s, 1, i - 1)
           b == SubSeq(s, i + 1, Len(s))
<1>1. Len(s) \in Nat /\ i \in Nat /\ i >= 1 /\ i <= Len(s)
  OBVIOUS
<1>2. /\ a \in Seq(S) /\ Len(a) = i - 1
      /\ \A j \in 1..i - 1 : a[j] = s[j]
  BY <1>1
<1>3. /\ b \in Seq(S) /\ Len(b) = Len(s) - i
      /\ \A j \in 1..Len(s) - i : b[j] = s[i + 1 + j - 1]
  BY <1>1
<1> HIDE DEF a, b
<1>4. /\ a \o b \in Seq(S) /\ Len(a \o b) = Len(s) - 1
      /\ \A j \in 1..i - 1 : (a \o b)[j] = a[j]
      /\ \A j \in i..Len(s) - 1 : (a \o b)[j] = b[j - i + 1]
  <2>1. /\ a \o b \in Seq(S) /\ Len(a \o b) = Len(a) + Len(b)
        /\ \A j \in 1..Len(a) + Len(b) :
             (a \o b)[j] = IF j <= Len(a) THEN a[j] ELSE b[j - Len(a)]
    BY <1>2, <1>3, ConcatProperties
  <2>2. Len(a) = i - 1 /\ Len(a) + Len(b) = Len(s) - 1
    BY <1>1, <1>2, <1>3
  <2>3. \A j \in i..Len(s) - 1 : j - (i - 1) = j - i + 1
    BY <1>1
  <2> QED BY <1>1, <2>1, <2>2, <2>3
<1>5. \A j \in i..Len(s) - 1 : b[j - i + 1] = s[j + 1]
  <2> TAKE j \in i..Len(s) - 1
  <2>1. j - i + 1 \in 1..Len(s) - i /\ i + 1 + (j - i + 1) - 1 = j + 1
    BY <1>1
  <2> QED BY <1>3, <2>1
<1>6. RemoveAt(s, i) = a \o b
  BY DEF RemoveAt, a, b
<1> QED BY <1>1, <1>2, <1>4, <1>5, <1>6

-----------------------------------------------------------------------------
(* The members of a sequence, and the least member of a set. *)

LEMMA ToSetMembers ==
  ASSUME NEW S, NEW s \in Seq(S)
  PROVE  \A x : x \in ToSet(s) <=> \E i \in 1..Len(s) : s[i] = x
  BY DEF ToSet

LEMMA LeastElement ==
  ASSUME NEW S, S \subseteq Nat, S # {}
  PROVE  Min(S) \in S /\ \A y \in S : Min(S) <= y
<1>1. PICK x \in S : \A y \in S : ~(<<y, x>> \in OpToRel(<, Nat))
  BY NatLessThanWellFounded, WFMin, Zenon
<1>2. x \in Nat
  OBVIOUS
<1>3. ASSUME NEW y \in S PROVE x <= y
  <2>1. y \in Nat
    OBVIOUS
  <2>2. ~(y < x)
    BY <1>1, <1>2, <2>1 DEF OpToRel
  <2> QED BY <1>2, <2>1, <2>2
<1> QED BY <1>3 DEF Min

LEMMA LeastUnique ==
  ASSUME NEW S, S \subseteq Nat, NEW x \in S, \A y \in S : x <= y
  PROVE  Min(S) = x
<1>1. Min(S) \in S /\ \A y \in S : Min(S) <= y
  BY DEF Min
<1>2. Min(S) \in Nat /\ x \in Nat
  BY <1>1
<1>3. Min(S) <= x /\ x <= Min(S)
  BY <1>1
<1> QED BY <1>2, <1>3

\* Sequences put together from single elements.
LEMMA ConcatTwo ==
  ASSUME NEW a, NEW b
  PROVE  <<a>> \o <<b>> = <<a, b>>
<1> DEFINE S == {a, b}
           s == <<a>> \o <<b>>
           r == <<a, b>>
<1>1. <<a>> \in Seq(S) /\ <<b>> \in Seq(S) /\ r \in Seq(S) /\ Len(<<a>>) = 1 /\ Len(<<b>>) = 1
  OBVIOUS
<1>2. s \in Seq(S) /\ Len(s) = 2 /\ s[1] = a /\ s[2] = b
  BY <1>1, ConcatProperties
<1>3. Len(r) = 2 /\ r[1] = a /\ r[2] = b
  OBVIOUS
<1>4. \A i \in 1..2 : i = 1 \/ i = 2
  OBVIOUS
<1> HIDE DEF s, r
<1> QED BY <1>1, <1>2, <1>3, <1>4, SeqEqual DEF s, r

LEMMA ConcatThree ==
  ASSUME NEW a, NEW b, NEW c
  PROVE  <<a, b>> \o <<c>> = <<a, b, c>>
<1> DEFINE S == {a, b, c}
           s == <<a, b>> \o <<c>>
           r == <<a, b, c>>
<1>1. /\ <<a, b>> \in Seq(S) /\ <<c>> \in Seq(S) /\ r \in Seq(S)
      /\ Len(<<a, b>>) = 2 /\ Len(<<c>>) = 1
  OBVIOUS
<1>2. s \in Seq(S) /\ Len(s) = 3 /\ s[1] = a /\ s[2] = b /\ s[3] = c
  BY <1>1, ConcatProperties
<1>3. Len(r) = 3 /\ r[1] = a /\ r[2] = b /\ r[3] = c
  OBVIOUS
<1>4. \A i \in 1..3 : i = 1 \/ i = 2 \/ i = 3
  OBVIOUS
<1> HIDE DEF s, r
<1> QED BY <1>1, <1>2, <1>3, <1>4, SeqEqual DEF s, r
-----------------------------------------------------------------------------
(* Lists of pages: what taking the first element, adding one at either end  *)
(* and taking several do to their members.                                  *)

\* p is on list s; nothing is on s twice.
IsOn(p, s) == \E i \in 1..Len(s) : s[i] = p
NoRepeats(s) == \A i, j \in 1..Len(s) : s[i] = s[j] => i = j

LEMMA TakeFirst ==
  ASSUME NEW S, NEW s \in Seq(S), s # <<>>
  PROVE  /\ Head(s) \in S /\ Head(s) = s[1] /\ Tail(s) \in Seq(S)
         /\ Len(s) \in Nat \ {0} /\ Len(Tail(s)) = Len(s) - 1
         /\ \A i \in 1..Len(s) - 1 : Tail(s)[i] = s[i + 1]
         /\ IsOn(Head(s), s)
         /\ NoRepeats(s) => /\ NoRepeats(Tail(s))
                           /\ \A p : IsOn(p, Tail(s)) <=> IsOn(p, s) /\ p # Head(s)
<1> DEFINE t == Tail(s)
           n == Len(s)
<1>1. /\ Head(s) \in S /\ t \in Seq(S) /\ n \in Nat \ {0} /\ Len(t) = n - 1
      /\ \A i \in 1..n - 1 : t[i] = s[i + 1]
  BY HeadTailProperties, EmptySeq
<1>2. Head(s) = s[1]
  OBVIOUS
<1>3. 1 \in 1..n
  BY <1>1
<1> HIDE DEF t, n
<1>4. IsOn(Head(s), s)
  BY <1>2, <1>3 DEF IsOn, n
<1>5. ASSUME NoRepeats(s)
      PROVE  NoRepeats(t) /\ \A p : IsOn(p, t) <=> IsOn(p, s) /\ p # Head(s)
  <2>1. \A i, j \in 1..n : s[i] = s[j] => i = j
    BY <1>5 DEF NoRepeats, n
  <2>2. \A i, j \in 1..n - 1 : t[i] = t[j] => i = j
    <3> TAKE i, j \in 1..n - 1
    <3> HAVE t[i] = t[j]
    <3>1. i + 1 \in 1..n /\ j + 1 \in 1..n /\ s[i + 1] = s[j + 1]
      BY <1>1
    <3>2. i + 1 = j + 1
      BY <2>1, <3>1
    <3> QED BY <1>1, <3>2
  <2>3. ASSUME NEW p, IsOn(p, t) PROVE IsOn(p, s) /\ p # Head(s)
    <3>1. PICK i \in 1..n - 1 : t[i] = p
      BY <1>1, <2>3 DEF IsOn
    <3>2. i + 1 \in 1..n /\ i + 1 # 1 /\ s[i + 1] = p
      BY <1>1, <3>1
    <3>3. p # s[1]
      BY <1>3, <2>1, <3>2
    <3> QED BY <1>2, <3>2, <3>3 DEF IsOn, n
  <2>4. ASSUME NEW p, IsOn(p, s), p # Head(s) PROVE IsOn(p, t)
    <3>1. PICK i \in 1..n : s[i] = p
      BY <2>4 DEF IsOn, n
    <3>2. i - 1 \in 1..n - 1 /\ (i - 1) + 1 = i
      BY <1>1, <1>2, <2>4, <3>1
    <3>3. t[i - 1] = p
      BY <1>1, <3>1, <3>2
    <3> QED BY <1>1, <3>2, <3>3 DEF IsOn
  <2>5. NoRepeats(t)
    BY <1>1, <2>2 DEF NoRepeats
  <2> QED BY <2>3, <2>4, <2>5
<1> QED BY <1>1, <1>2, <1>4, <1>5 DEF t, n

LEMMA AddFirst ==
  ASSUME NEW S, NEW s \in Seq(S), NEW e \in S
  PROVE  /\ <<e>> \o s \in Seq(S) /\ Len(<<e>> \o s) = Len(s) + 1 /\ Len(s) \in Nat
         /\ (<<e>> \o s)[1] = e
         /\ \A i \in 1..Len(s) : (<<e>> \o s)[i + 1] = s[i]
         /\ \A p : IsOn(p, <<e>> \o s) <=> IsOn(p, s) \/ p = e
         /\ NoRepeats(s) /\ ~IsOn(e, s) => NoRepeats(<<e>> \o s)
<1> DEFINE t == <<e>> \o s
           n == Len(s)
<1>1. /\ t \in Seq(S) /\ Len(t) = n + 1 /\ n \in Nat /\ t[1] = e
      /\ \A i \in 1..n + 1 : t[i] = IF i <= 1 THEN e ELSE s[i - 1]
  OBVIOUS
<1>2. \A i \in 1..n : t[i + 1] = s[i]
  BY <1>1
<1> HIDE DEF t, n
<1>3. ASSUME NEW p PROVE IsOn(p, t) <=> IsOn(p, s) \/ p = e
  <2>1. ASSUME IsOn(p, t), p # e PROVE IsOn(p, s)
    <3>1. PICK i \in 1..n + 1 : t[i] = p
      BY <1>1, <2>1 DEF IsOn
    <3>2. i - 1 \in 1..n /\ s[i - 1] = p
      BY <1>1, <2>1, <3>1
    <3> QED BY <3>2 DEF IsOn, n
  <2>2. ASSUME IsOn(p, s) PROVE IsOn(p, t)
    <3>1. PICK i \in 1..n : s[i] = p
      BY <2>2 DEF IsOn, n
    <3>2. i + 1 \in 1..n + 1
      BY <1>1
    <3> QED BY <1>1, <1>2, <3>1, <3>2 DEF IsOn
  <2>3. ASSUME p = e PROVE IsOn(p, t)
    <3>1. 1 \in 1..n + 1
      BY <1>1
    <3> QED BY <1>1, <2>3, <3>1 DEF IsOn
  <2> QED BY <2>1, <2>2, <2>3
<1>4. ASSUME NoRepeats(s), ~IsOn(e, s) PROVE NoRepeats(t)
  <2> SUFFICES ASSUME NEW i \in 1..n + 1, NEW j \in 1..n + 1, t[i] = t[j] PROVE i = j
    BY <1>1 DEF NoRepeats
  <2>1. \A k \in 1..n + 1 : k # 1 => k - 1 \in 1..n /\ t[k] = s[k - 1] /\ t[k] # e
    <3> TAKE k \in 1..n + 1
    <3> HAVE k # 1
    <3>1. k - 1 \in 1..n /\ t[k] = s[k - 1]
      BY <1>1
    <3> QED BY <1>4, <3>1 DEF IsOn, n
  <2>2. CASE i = 1 \/ j = 1
    BY <1>1, <2>1, <2>2
  <2>3. CASE i # 1 /\ j # 1
    <3>1. i - 1 = j - 1
      BY <1>4, <2>1, <2>3 DEF NoRepeats, n
    <3> QED BY <1>1, <3>1
  <2> QED BY <2>2, <2>3
<1> QED BY <1>1, <1>2, <1>3, <1>4 DEF t, n

LEMMA AddLast ==
  ASSUME NEW S, NEW s \in Seq(S), NEW e \in S
  PROVE  /\ Append(s, e) \in Seq(S) /\ Len(Append(s, e)) = Len(s) + 1
         /\ \A p : IsOn(p, Append(s, e)) <=> IsOn(p, s) \/ p = e
         /\ NoRepeats(s) /\ ~IsOn(e, s) => NoRepeats(Append(s, e))
<1> DEFINE t == Append(s, e)
           n == Len(s)
<1>1. /\ t \in Seq(S) /\ Len(t) = n + 1 /\ n \in Nat /\ t[n + 1] = e
      /\ \A i \in 1..n : t[i] = s[i]
  BY AppendProperties, LenProperties
<1>2. \A i \in 1..n + 1 : i = n + 1 \/ i \in 1..n
  BY <1>1
<1> HIDE DEF t, n
<1>3. n + 1 \in 1..n + 1 /\ \A i \in 1..n : i \in 1..n + 1
  BY <1>1
<1>4. ASSUME NEW p PROVE IsOn(p, t) <=> IsOn(p, s) \/ p = e
  <2>1. ASSUME IsOn(p, t), p # e PROVE IsOn(p, s)
    BY <1>1, <1>2, <2>1 DEF IsOn, n
  <2>2. ASSUME IsOn(p, s) \/ p = e PROVE IsOn(p, t)
    BY <1>1, <1>3, <2>2 DEF IsOn, n
  <2> QED BY <2>1, <2>2
<1>5. ASSUME NoRepeats(s), ~IsOn(e, s) PROVE NoRepeats(t)
  <2> SUFFICES ASSUME NEW i \in 1..n + 1, NEW j \in 1..n + 1, t[i] = t[j] PROVE i = j
    BY <1>1 DEF NoRepeats
  <2>1. \A k \in 1..n : t[k] # e
    BY <1>1, <1>5 DEF IsOn, n
  <2>2. CASE i = n + 1 \/ j = n + 1
    BY <1>1, <1>2, <2>1, <2>2
  <2>3. CASE i \in 1..n /\ j \in 1..n
    BY <1>1, <1>5, <2>3 DEF NoRepeats, n
  <2> QED BY <1>2, <2>2, <2>3
<1> QED BY <1>1, <1>4, <1>5 DEF t, n

\* An element that moves from the front of one list to the end of another
\* leaves the two together as they were.
LEMMA MoveOver ==
  ASSUME NEW S, NEW f \in Seq(S), NEW s \in Seq(S), s # <<>>
  PROVE  Append(f, Head(s)) \o Tail(s) = f \o s
<1> DEFINE h == Head(s)
           t == Tail(s)
           e == <<h>>
<1>1. h \in S /\ t \in Seq(S) /\ s = e \o t
  BY TakeFirst
<1>2. e \in Seq(S) /\ Append(f, h) = f \o e
  BY <1>1, AppendIsConcat
<1> HIDE DEF e, h, t
<1>3. (f \o e) \o t = f \o (e \o t)
  BY <1>1, <1>2, ConcatAssociative
<1>4. Append(f, h) \o t = f \o s
  BY <1>1, <1>2, <1>3, Zenon
<1> QED BY <1>4 DEF h, t

LEMMA NothingOn ==
  /\ \A S : <<>> \in Seq(S)
  /\ Len(<<>>) = 0 /\ NoRepeats(<<>>) /\ \A p : ~IsOn(p, <<>>)
<1>1. /\ \A S : <<>> \in Seq(S)
      /\ Len(<<>>) = 0
  OBVIOUS
<1>2. 1..0 = {}
  OBVIOUS
<1> QED BY <1>1, <1>2 DEF NoRepeats, IsOn

\* f is s in the opposite order, followed by r: what f gives up when the
\* elements of s are taken one by one.
LEMMA TakenFromFront ==
  ASSUME NEW S, NEW f \in Seq(S), NEW s \in Seq(S), NEW r \in Seq(S),
         Len(f) = Len(s) + Len(r),
         \A i \in 1..Len(s) : f[i] = s[Len(s) + 1 - i],
         \A i \in 1..Len(r) : f[Len(s) + i] = r[i]
  PROVE  /\ Len(s) \in Nat /\ Len(s) <= Len(f)
         /\ Reverse(SubSeq(f, 1, Len(s))) = s
         /\ SubSeq(f, Len(s) + 1, Len(f)) = r
<1> DEFINE n == Len(s)
           m == Len(r)
           a == SubSeq(f, 1, n)
           b == SubSeq(f, n + 1, Len(f))
<1>1. n \in Nat /\ m \in Nat /\ Len(f) = n + m /\ n <= Len(f)
  OBVIOUS
<1>2. a \in Seq(S) /\ Len(a) = n /\ \A i \in 1..n : a[i] = f[i]
  BY <1>1
<1>3. b \in Seq(S) /\ Len(b) = m /\ \A i \in 1..m : b[i] = f[n + i]
  <2>1. \A i \in n + 1..n + m : f[i] \in S
    BY <1>1
  <2>2. /\ b \in Seq(S) /\ Len(b) = IF n + 1 <= n + m THEN (n + m) - (n + 1) + 1 ELSE 0
        /\ \A i \in 1..(n + m) - (n + 1) + 1 : b[i] = f[(n + 1) + i - 1]
    BY <1>1, <2>1, SubSeqProperties
  <2> HIDE DEF b
  <2>3. /\ (n + m) - (n + 1) + 1 = m /\ (n + 1 <= n + m <=> m # 0)
        /\ \A i \in 1..m : (n + 1) + i - 1 = n + i
    BY <1>1
  <2> QED BY <2>2, <2>3
<1> HIDE DEF a, b
<1>4. b = r
  BY <1>3, SeqEqual
<1>5. Reverse(a) = [i \in 1..n |-> a[(n - i) + 1]]
  BY <1>2 DEF Reverse
<1>6. \A i \in 1..n : a[(n - i) + 1] = s[i]
  <2> TAKE i \in 1..n
  <2>1. (n - i) + 1 \in 1..n /\ n + 1 - ((n - i) + 1) = i
    BY <1>1
  <2> QED BY <1>2, <2>1
<1>7. s = [i \in 1..n |-> s[i]]
  BY LenProperties
<1> QED BY <1>1, <1>4, <1>5, <1>6, <1>7 DEF a, b

\* One list behind another.
LEMMA JoinLists ==
  ASSUME NEW S, NEW s \in Seq(S), NEW r \in Seq(S)
  PROVE  /\ s \o r \in Seq(S) /\ Len(s \o r) = Len(s) + Len(r)
         /\ \A p : IsOn(p, s \o r) <=> IsOn(p, s) \/ IsOn(p, r)
         /\ NoRepeats(s) /\ NoRepeats(r) /\ (\A p : ~(IsOn(p, s) /\ IsOn(p, r))) => NoRepeats(s \o r)
<1> DEFINE t == s \o r
           n == Len(s)
           m == Len(r)
<1>1. /\ t \in Seq(S) /\ Len(t) = n + m /\ n \in Nat /\ m \in Nat
      /\ \A i \in 1..n + m : t[i] = IF i <= n THEN s[i] ELSE r[i - n]
  BY ConcatProperties, LenProperties
<1> HIDE DEF t
<1>2. \A i \in 1..n : i \in 1..n + m /\ t[i] = s[i]
  BY <1>1
<1>3. \A i \in 1..m : n + i \in 1..n + m /\ t[n + i] = r[i]
  <2> TAKE i \in 1..m
  <2>1. n + i \in 1..n + m /\ ~(n + i <= n) /\ (n + i) - n = i
    BY <1>1
  <2> QED BY <1>1, <2>1
<1>4. \A i \in 1..n + m : i \in 1..n \/ (i - n \in 1..m /\ n + (i - n) = i)
  BY <1>1
<1> HIDE DEF n, m
<1>5. ASSUME NEW p PROVE IsOn(p, t) <=> IsOn(p, s) \/ IsOn(p, r)
  <2>1. ASSUME IsOn(p, t) PROVE IsOn(p, s) \/ IsOn(p, r)
    <3>1. PICK i \in 1..n + m : t[i] = p
      BY <1>1, <2>1 DEF IsOn
    <3>2. CASE i \in 1..n
      BY <1>2, <3>1, <3>2 DEF IsOn, n
    <3>3. CASE i - n \in 1..m /\ n + (i - n) = i
      BY <1>3, <3>1, <3>3 DEF IsOn, m
    <3> QED BY <1>4, <3>2, <3>3
  <2>2. ASSUME IsOn(p, s) PROVE IsOn(p, t)
    BY <1>1, <1>2, <2>2 DEF IsOn, n
  <2>3. ASSUME IsOn(p, r) PROVE IsOn(p, t)
    BY <1>1, <1>3, <2>3 DEF IsOn, m
  <2> QED BY <2>1, <2>2, <2>3
<1>6. ASSUME NoRepeats(s), NoRepeats(r), \A p : ~(IsOn(p, s) /\ IsOn(p, r))
      PROVE  NoRepeats(t)
  <2> SUFFICES ASSUME NEW i \in 1..n + m, NEW j \in 1..n + m, t[i] = t[j] PROVE i = j
    BY <1>1 DEF NoRepeats
  <2>1. \A k \in 1..n, l \in 1..m : s[k] # r[l]
    BY <1>6 DEF IsOn, n, m
  <2>2. CASE i \in 1..n /\ j \in 1..n
    BY <1>2, <1>6, <2>2 DEF NoRepeats, n
  <2>3. CASE i \in 1..n /\ j - n \in 1..m /\ n + (j - n) = j
    BY <1>2, <1>3, <2>1, <2>3
  <2>4. CASE j \in 1..n /\ i - n \in 1..m /\ n + (i - n) = i
    BY <1>2, <1>3, <2>1, <2>4
  <2>5. CASE i - n \in 1..m /\ n + (i - n) = i /\ j - n \in 1..m /\ n + (j - n) = j
    <3>1. r[i - n] = r[j - n]
      BY <1>3, <2>5
    <3>2. i - n = j - n
      BY <1>6, <2>5, <3>1 DEF NoRepeats, m
    <3> QED BY <2>5, <3>2
  <2> QED BY <1>4, <2>2, <2>3, <2>4, <2>5
<1> QED BY <1>1, <1>5, <1>6 DEF t, n, m

\* A list parted after its first k elements, the first part in reverse order.
LEMMA PartList ==
  ASSUME NEW S, NEW s \in Seq(S), NEW k \in 0..Len(s), NoRepeats(s)
  PROVE  LET a == Reverse(SubSeq(s, 1, k))
             b == SubSeq(s, k + 1, Len(s))
         IN /\ a \in Seq(S) /\ Len(a) = k /\ NoRepeats(a)
            /\ b \in Seq(S) /\ Len(b) = Len(s) - k /\ NoRepeats(b)
            /\ \A p : IsOn(p, s) <=> IsOn(p, a) \/ IsOn(p, b)
            /\ \A p : ~(IsOn(p, a) /\ IsOn(p, b))
<1> DEFINE n == Len(s)
           c == SubSeq(s, 1, k)
           a == [i \in 1..k |-> s[k + 1 - i]]
           b == SubSeq(s, k + 1, n)
<1>1. n \in Nat /\ k \in Nat /\ k <= n /\ \A i \in 1..n : s[i] \in S
  BY LenProperties, ElementOfSeq
<1>2. c \in Seq(S) /\ Len(c) = k /\ \A i \in 1..k : c[i] = s[i]
  BY <1>1
<1> HIDE DEF c
<1>3. Reverse(c) = a
  <2>1. Reverse(c) = [i \in 1..k |-> c[(k - i) + 1]]
    BY <1>2 DEF Reverse
  <2>2. \A i \in 1..k : c[(k - i) + 1] = s[k + 1 - i]
    <3> TAKE i \in 1..k
    <3>1. (k - i) + 1 \in 1..k /\ (k - i) + 1 = k + 1 - i
      BY <1>1
    <3> QED BY <1>2, <3>1
  <2> QED BY <2>1, <2>2
<1>4. /\ b \in Seq(S) /\ Len(b) = n - k
      /\ \A i \in 1..n - k : b[i] = s[k + i]
  <2>1. \A i \in k + 1..n : s[i] \in S
    BY <1>1
  <2>2. /\ b \in Seq(S) /\ Len(b) = IF k + 1 <= n THEN n - (k + 1) + 1 ELSE 0
        /\ \A i \in 1..n - (k + 1) + 1 : b[i] = s[(k + 1) + i - 1]
    BY <1>1, <2>1, SubSeqProperties
  <2> HIDE DEF b
  <2>3. n - (k + 1) + 1 = n - k /\ \A i \in 1..n - k : (k + 1) + i - 1 = k + i
    BY <1>1
  <2>4. k + 1 <= n <=> n - k # 0
    BY <1>1
  <2>5. Len(b) = n - k
    BY <1>1, <2>2, <2>3, <2>4
  <2> QED BY <2>2, <2>3, <2>5
<1>5. a \in Seq(S) /\ Len(a) = k /\ \A i \in 1..k : a[i] = s[k + 1 - i]
  <2>1. \A i \in 1..k : s[k + 1 - i] \in S
    <3> TAKE i \in 1..k
    <3>1. k + 1 - i \in 1..n
      BY <1>1
    <3> QED BY <1>1, <3>1
  <2> QED BY <1>1, <2>1
<1> HIDE DEF a, b, n
<1>6. \A i \in 1..k : k + 1 - i \in 1..n /\ k + 1 - i \in 1..k /\ k + 1 - (k + 1 - i) = i
  BY <1>1
<1>7. \A i \in 1..n - k : k + i \in 1..n /\ ~(k + i <= k)
  BY <1>1
<1>8. \A i \in 1..n : i \in 1..k \/ (i - k \in 1..n - k /\ k + (i - k) = i)
  BY <1>1
<1>9. \A i, j \in 1..n : s[i] = s[j] => i = j
  BY DEF NoRepeats, n
<1>10. NoRepeats(a)
  <2> SUFFICES ASSUME NEW i \in 1..k, NEW j \in 1..k, a[i] = a[j] PROVE i = j
    BY <1>5 DEF NoRepeats
  <2>1. k + 1 - i = k + 1 - j
    BY <1>5, <1>6, <1>9
  <2> QED BY <1>1, <2>1
<1>11. NoRepeats(b)
  <2> SUFFICES ASSUME NEW i \in 1..n - k, NEW j \in 1..n - k, b[i] = b[j] PROVE i = j
    BY <1>4 DEF NoRepeats
  <2>1. k + i = k + j
    BY <1>4, <1>7, <1>9
  <2> QED BY <1>1, <2>1
<1>12. ASSUME NEW p PROVE IsOn(p, s) <=> IsOn(p, a) \/ IsOn(p, b)
  <2>1. ASSUME IsOn(p, s) PROVE IsOn(p, a) \/ IsOn(p, b)
    <3>1. PICK i \in 1..n : s[i] = p
      BY <2>1 DEF IsOn, n
    <3>2. CASE i \in 1..k
      BY <1>5, <1>6, <3>1, <3>2 DEF IsOn
    <3>3. CASE i - k \in 1..n - k /\ k + (i - k) = i
      BY <1>4, <3>1, <3>3 DEF IsOn
    <3> QED BY <1>8, <3>2, <3>3
  <2>2. ASSUME IsOn(p, a) PROVE IsOn(p, s)
    BY <1>5, <1>6, <2>2 DEF IsOn, n
  <2>3. ASSUME IsOn(p, b) PROVE IsOn(p, s)
    BY <1>4, <1>7, <2>3 DEF IsOn, n
  <2> QED BY <2>1, <2>2, <2>3
<1>13. ASSUME NEW p, IsOn(p, a), IsOn(p, b) PROVE FALSE
  <2>1. PICK i \in 1..k : a[i] = p
    BY <1>5, <1>13 DEF IsOn
  <2>2. PICK j \in 1..n - k : b[j] = p
    BY <1>4, <1>13 DEF IsOn
  <2>3. k + 1 - i = k + j
    <3>1. k + 1 - i \in 1..n /\ k + j \in 1..n
      BY <1>6, <1>7
    <3>2. s[k + 1 - i] = s[k + j]
      BY <1>4, <1>5, <2>1, <2>2
    <3> QED BY <1>9, <3>1, <3>2
  <2> QED BY <1>6, <1>7, <2>3
<1> QED BY <1>3, <1>4, <1>5, <1>10, <1>11, <1>12, <1>13 DEF b, n, c
=============================================================================
