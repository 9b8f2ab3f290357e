------------------------ MODULE IntrusiveListProofs ------------------------
(***************************************************************************)
(* The pointer code of ebl::IntrusiveList keeps the rings of its lists,    *)
(* for any number of lists and nodes.                                      *)
(***************************************************************************)
EXTENDS IntrusiveList, SequenceLemmas, SequenceTheorems, TLAPS

-----------------------------------------------------------------------------
(* Rings: linking a node in and unlinking one. *)

\* insert_before_unsafe turns the ring of s into the ring of s with n at
\* position i, when n goes before the node that follows that position.
LEMMA RingInsert ==
  ASSUME NEW s \in Seq(Nodes), s # <<>>, NEW n \in Nodes,
         \A j \in 1..Len(s) : s[j] # n,
         \A j, k \in 1..Len(s) : s[j] = s[k] => j = k,
         NEW nx \in [Pointers -> Pointers], NEW pv \in [Pointers -> Pointers],
         Ring(s, nx, pv),
         NEW i \in 1..Len(s) + 1, NEW p \in 1..Len(s),
         p = IF i = Len(s) + 1 THEN 1 ELSE i
  PROVE  LET node == s[p] IN
         Ring(InsertAt(s, i, n),
              [nx EXCEPT ![pv[node]] = n, ![n] = node],
              [pv EXCEPT ![n] = pv[node], ![node] = n])
<1> DEFINE k == Len(s)
           node == s[p]
           pred == pv[node]
           z == InsertAt(s, i, n)
           nx2 == [nx EXCEPT ![pred] = n, ![n] = node]
           pv2 == [pv EXCEPT ![n] = pred, ![node] = n]
<1>1. k \in Nat /\ k >= 1 /\ i \in 1..k + 1 /\ p \in 1..k
  OBVIOUS
<1>2. \A j \in 1..k : s[j] \in Nodes /\ s[j] \in Pointers
  BY DEF Pointers
<1>3. /\ Len(z) = k + 1
      /\ \A j \in 1..k + 1 :
           z[j] = IF j < i THEN s[j] ELSE IF j = i THEN n ELSE s[j - 1]
  BY InsertAtProperties
<1>4. /\ pred = s[Before(p, k)] /\ Before(p, k) \in 1..k
      /\ Before(p, k) = IF i = 1 THEN k ELSE i - 1
  BY <1>1 DEF Ring, Before
<1>5. n \in Pointers /\ node # n /\ pred # n
  BY <1>1, <1>4 DEF Pointers
<1>6. /\ \A q \in Pointers : nx2[q] = IF q = n THEN node ELSE IF q = pred THEN n ELSE nx[q]
      /\ \A q \in Pointers : pv2[q] = IF q = node THEN n ELSE IF q = n THEN pred ELSE pv[q]
  BY <1>1, <1>2, <1>4, <1>5
<1>7. \A j \in 1..k : /\ nx2[s[j]] = IF j = Before(p, k) THEN n ELSE s[After(j, k)]
                      /\ pv2[s[j]] = IF j = p THEN n ELSE s[Before(j, k)]
  <2> TAKE j \in 1..k
  <2>1. s[j] # n /\ s[j] \in Pointers
    BY <1>2
  <2>2. s[j] = pred <=> j = Before(p, k)
    BY <1>4
  <2>3. s[j] = node <=> j = p
    OBVIOUS
  <2>4. nx[s[j]] = s[After(j, k)] /\ pv[s[j]] = s[Before(j, k)]
    BY DEF Ring
  <2> QED BY <1>6, <2>1, <2>2, <2>3, <2>4
<1>8. nx2[n] = node /\ pv2[n] = pred
  BY <1>5, <1>6
<1> HIDE DEF nx2, pv2, z
<1>9. ASSUME NEW j \in 1..k + 1 PROVE nx2[z[j]] = z[After(j, k + 1)]
  <2>1. CASE j = i
    BY <1>1, <1>3, <1>8, <2>1 DEF After
  <2>2. CASE j < i
    BY <1>1, <1>3, <1>4, <1>7, <2>2 DEF After
  <2>3. CASE j > i
    <3>1. j - 1 \in 1..k /\ z[j] = s[j - 1]
      BY <1>1, <1>3, <2>3
    <3> QED BY <1>1, <1>3, <1>4, <1>7, <2>3, <3>1 DEF After
  <2> QED BY <1>1, <2>1, <2>2, <2>3
<1>10. ASSUME NEW j \in 1..k + 1 PROVE pv2[z[j]] = z[Before(j, k + 1)]
  <2>1. CASE j = i
    BY <1>1, <1>3, <1>4, <1>8, <2>1 DEF Before
  <2>2. CASE j < i
    BY <1>1, <1>3, <1>7, <2>2 DEF Before
  <2>3. CASE j > i
    <3>1. j - 1 \in 1..k /\ z[j] = s[j - 1]
      BY <1>1, <1>3, <2>3
    <3> QED BY <1>1, <1>3, <1>7, <2>3, <3>1 DEF Before
  <2> QED BY <1>1, <2>1, <2>2, <2>3
<1>11. Ring(z, nx2, pv2)
  BY <1>3, <1>9, <1>10 DEF Ring
<1> QED BY <1>11 DEF z, nx2, pv2

\* remove_unsafe turns the ring of s into the ring of s without its i-th
\* node, if that leaves one.
LEMMA RingRemove ==
  ASSUME NEW s \in Seq(Nodes), Len(s) > 1,
         \A j, k \in 1..Len(s) : s[j] = s[k] => j = k,
         NEW nx \in [Pointers -> Pointers], NEW pv \in [Pointers -> Pointers],
         Ring(s, nx, pv), NEW i \in 1..Len(s)
  PROVE  LET node == s[i] IN
         Ring(RemoveAt(s, i),
              [nx EXCEPT ![pv[node]] = nx[node], ![node] = Null],
              [pv EXCEPT ![nx[node]] = pv[node], ![node] = Null])
<1> DEFINE k == Len(s)
           node == s[i]
           z == RemoveAt(s, i)
           nx2 == [nx EXCEPT ![pv[node]] = nx[node], ![node] = Null]
           pv2 == [pv EXCEPT ![nx[node]] = pv[node], ![node] = Null]
<1>1. k \in Nat /\ k > 1 /\ i \in 1..k
  OBVIOUS
<1>2. \A j \in 1..k : s[j] \in Pointers
  BY DEF Pointers
<1>3. /\ Len(z) = k - 1
      /\ \A j \in 1..k - 1 : z[j] = IF j < i THEN s[j] ELSE s[j + 1]
  BY RemoveAtProperties
<1>4. /\ pv[node] = s[Before(i, k)] /\ Before(i, k) \in 1..k /\ Before(i, k) # i
      /\ nx[node] = s[After(i, k)] /\ After(i, k) \in 1..k /\ After(i, k) # i
  BY <1>1 DEF Ring, Before, After
<1>5. \A j \in 1..k : j # i =>
        /\ nx2[s[j]] = IF j = Before(i, k) THEN s[After(i, k)] ELSE s[After(j, k)]
        /\ pv2[s[j]] = IF j = After(i, k) THEN s[Before(i, k)] ELSE s[Before(j, k)]
  <2> SUFFICES ASSUME NEW j \in 1..k, j # i
               PROVE  /\ nx2[s[j]] = IF j = Before(i, k) THEN s[After(i, k)]
                                                         ELSE s[After(j, k)]
                      /\ pv2[s[j]] = IF j = After(i, k) THEN s[Before(i, k)]
                                                        ELSE s[Before(j, k)]
    OBVIOUS
  <2>1. s[j] # node /\ s[j] \in Pointers /\ node \in Pointers
    BY <1>2
  <2>2. /\ s[j] = pv[node] <=> j = Before(i, k)
        /\ s[j] = nx[node] <=> j = After(i, k)
    BY <1>4
  <2>3. nx[s[j]] = s[After(j, k)] /\ pv[s[j]] = s[Before(j, k)]
    BY DEF Ring
  <2>4. /\ nx2[s[j]] = IF s[j] = pv[node] THEN nx[node] ELSE nx[s[j]]
        /\ pv2[s[j]] = IF s[j] = nx[node] THEN pv[node] ELSE pv[s[j]]
    BY <1>2, <1>4, <2>1
  <2> QED BY <1>4, <2>2, <2>3, <2>4
<1> HIDE DEF nx2, pv2, z
<1>6. ASSUME NEW j \in 1..k - 1 PROVE nx2[z[j]] = z[After(j, k - 1)]
  <2>1. CASE j < i
    BY <1>1, <1>3, <1>5, <2>1 DEF After, Before
  <2>2. CASE j >= i
    <3>1. j + 1 \in 1..k /\ j + 1 # i /\ z[j] = s[j + 1]
      BY <1>1, <1>3, <2>2
    <3>2. CASE j = k - 1
      <4>1. z[After(j, k - 1)] = IF i = 1 THEN s[2] ELSE s[1]
        BY <1>1, <1>3, <3>2 DEF After
      <4>2. nx2[s[k]] = IF i = 1 THEN s[2] ELSE s[1]
        BY <1>1, <1>5, <3>1, <3>2 DEF After, Before
      <4> QED BY <1>1, <3>1, <3>2, <4>1, <4>2
    <3>3. CASE j < k - 1
      <4>1. z[After(j, k - 1)] = s[j + 2]
        BY <1>1, <1>3, <2>2, <3>3 DEF After
      <4>2. nx2[s[j + 1]] = s[j + 2]
        <5>1. j + 1 # Before(i, k) /\ After(j + 1, k) = j + 2
          BY <1>1, <2>2, <3>3 DEF Before, After
        <5> QED BY <1>5, <3>1, <5>1
      <4> QED BY <3>1, <4>1, <4>2
    <3> QED BY <1>1, <3>2, <3>3
  <2> QED BY <1>1, <2>1, <2>2
<1>7. ASSUME NEW j \in 1..k - 1 PROVE pv2[z[j]] = z[Before(j, k - 1)]
  <2>1. CASE j < i
    <3>1. j \in 1..k /\ j # i /\ z[j] = s[j]
      BY <1>1, <1>3, <2>1
    <3>2. CASE j = 1
      <4>1. z[Before(j, k - 1)] = IF i = k THEN s[k - 1] ELSE s[k]
        BY <1>1, <1>3, <2>1, <3>2 DEF Before
      <4>2. pv2[s[1]] = IF i = k THEN s[k - 1] ELSE s[k]
        BY <1>1, <1>5, <3>1, <3>2 DEF After, Before
      <4> QED BY <3>1, <3>2, <4>1, <4>2
    <3>3. CASE j > 1
      <4>1. z[Before(j, k - 1)] = s[j - 1]
        BY <1>1, <1>3, <2>1, <3>3 DEF Before
      <4>2. j # After(i, k) /\ Before(j, k) = j - 1
        BY <1>1, <2>1, <3>3 DEF After, Before
      <4> QED BY <1>5, <3>1, <4>1, <4>2
    <3> QED BY <1>1, <3>2, <3>3
  <2>2. CASE j >= i
    <3>1. j + 1 \in 1..k /\ j + 1 # i /\ z[j] = s[j + 1]
      BY <1>1, <1>3, <2>2
    <3> QED BY <1>1, <1>3, <1>5, <2>2, <3>1 DEF After, Before
  <2> QED BY <1>1, <2>1, <2>2
<1>8. Ring(z, nx2, pv2)
  BY <1>3, <1>6, <1>7 DEF Ring
<1> QED BY <1>8 DEF z, nx2, pv2

-----------------------------------------------------------------------------
(* The inductive invariant. *)

IInv == TypeOK /\ Represents /\ NodeOnce /\ NoFault

\* Facts of the invariant about one list.
LEMMA ListFacts ==
  ASSUME IInv, NEW l \in Lists
  PROVE  /\ seq[l] \in Seq(Nodes) /\ Len(seq[l]) \in Nat
         /\ \A j \in 1..Len(seq[l]) : seq[l][j] \in Nodes /\ seq[l][j] # Null
         /\ \A j, k \in 1..Len(seq[l]) : seq[l][j] = seq[l][k] => j = k
         /\ Ring(seq[l], next, prev)
         /\ root[l] = IF seq[l] = <<>> THEN Null ELSE seq[l][1]
         /\ seq[l] = <<>> <=> Len(seq[l]) = 0
  BY ListAssumption DEF IInv, TypeOK, Represents, NodeOnce

\* The rings of the other lists are left alone by a step that leaves the
\* links of their nodes alone.
LEMMA OtherRings ==
  ASSUME IInv, NEW l \in Lists,
         \A m \in Lists \ {l} : \A j \in 1..Len(seq[m]) :
           /\ next'[seq[m][j]] = next[seq[m][j]]
           /\ prev'[seq[m][j]] = prev[seq[m][j]]
  PROVE  \A m \in Lists \ {l} : Ring(seq[m], next', prev')
  BY DEF IInv, Represents, Ring

\* A node is added at position i of list l.
LEMMA InsertCommon ==
  ASSUME IInv, NEW l \in Lists, NEW n \in Nodes, Loose(n),
         NEW i \in 1..Len(seq[l]) + 1,
         seq' = [seq EXCEPT ![l] = InsertAt(seq[l], i, n)],
         next' \in [Pointers -> Pointers], prev' \in [Pointers -> Pointers],
         root' = IF i = 1 THEN [root EXCEPT ![l] = n] ELSE root,
         ret' \in Pointers, fault' = FALSE,
         Ring(InsertAt(seq[l], i, n), next', prev'),
         \A m \in Lists \ {l} : Ring(seq[m], next', prev')
  PROVE  IInv'
<1> DEFINE s == seq[l]
           z == InsertAt(s, i, n)
<1>1. /\ s \in Seq(Nodes) /\ Len(s) \in Nat
      /\ \A j, k \in 1..Len(s) : s[j] = s[k] => j = k
      /\ root[l] = IF s = <<>> THEN Null ELSE s[1]
      /\ s = <<>> <=> Len(s) = 0
      /\ i \in 1..Len(s) + 1
  BY ListFacts
<1>2. /\ z \in Seq(Nodes) /\ Len(z) = Len(s) + 1
      /\ \A j \in 1..Len(s) + 1 :
           z[j] = IF j < i THEN s[j] ELSE IF j = i THEN n ELSE s[j - 1]
  <2> HIDE DEF s
  <2> QED BY <1>1, InsertAtProperties
<1> HIDE DEF z
<1>3. seq'[l] = z /\ \A m \in Lists \ {l} : seq'[m] = seq[m]
  BY DEF IInv, TypeOK, z
<1>4. TypeOK'
  BY <1>2 DEF IInv, TypeOK, Pointers, z
<1>5. Represents'
  <2>1. root'[l] = z[1] /\ z # <<>>
    BY <1>1, <1>2 DEF IInv, TypeOK
  <2>2. \A m \in Lists \ {l} : root'[m] = root[m]
    BY DEF IInv, TypeOK
  <2>3. Ring(z, next', prev')
    BY DEF z
  <2> QED BY <1>3, <2>1, <2>2, <2>3 DEF IInv, Represents
<1>6. NodeOnce'
  <2>1. \A j \in 1..Len(z) :
          \/ z[j] = n /\ j = i
          \/ \E k \in 1..Len(s) : z[j] = s[k] /\ j = IF k < i THEN k ELSE k + 1
    <3> TAKE j \in 1..Len(z)
    <3>1. CASE j < i
      BY <1>1, <1>2, <3>1
    <3>2. CASE j = i
      BY <1>1, <1>2, <3>2
    <3>3. CASE j > i
      <4>1. j - 1 \in 1..Len(s) /\ z[j] = s[j - 1] /\ ~(j - 1 < i)
        BY <1>1, <1>2, <3>3
      <4> QED BY <1>1, <4>1
    <3> QED BY <1>1, <1>2, <3>1, <3>2, <3>3
  <2>2. \A m \in Lists : \A k \in 1..Len(seq[m]) : seq[m][k] # n
    BY DEF Loose
  <2>3. \A m \in Lists \ {l} : \A k \in 1..Len(seq[m]), j \in 1..Len(z) :
          seq[m][k] # z[j]
    BY <2>1, <2>2 DEF IInv, NodeOnce
  <2>4. \A j, k \in 1..Len(z) : z[j] = z[k] => j = k
    <3> TAKE j, k \in 1..Len(z)
    <3> HAVE z[j] = z[k]
    <3>1. \A m \in 1..Len(s) : s[m] # n
      BY <2>2
    <3> HIDE DEF s
    <3>2. CASE z[j] = n /\ j = i
      BY <2>1, <3>1, <3>2
    <3>3. CASE z[j] # n
      <4>1. PICK a \in 1..Len(s) : z[j] = s[a] /\ j = IF a < i THEN a ELSE a + 1
        BY <2>1, <3>3
      <4>2. PICK b \in 1..Len(s) : z[k] = s[b] /\ k = IF b < i THEN b ELSE b + 1
        BY <2>1, <3>3
      <4>3. a = b
        BY <1>1, <4>1, <4>2
      <4> QED BY <4>1, <4>2, <4>3
    <3> QED BY <2>1, <3>1, <3>2, <3>3
  <2> QED BY <1>3, <2>3, <2>4 DEF IInv, NodeOnce
<1> QED BY <1>4, <1>5, <1>6 DEF IInv, NoFault

LEMMA NonEmptyRange ==
  ASSUME NEW k \in Nat, NEW i \in 1..k PROVE k = 1 \/ k > 1
  OBVIOUS

\* The i-th node of list l is taken away.
LEMMA TakeCommon ==
  ASSUME IInv, NEW l \in Lists, NEW i \in 1..Len(seq[l]),
         seq' = [seq EXCEPT ![l] = RemoveAt(seq[l], i)],
         next' \in [Pointers -> Pointers], prev' \in [Pointers -> Pointers],
         root' \in [Lists -> Pointers],
         \A m \in Lists \ {l} : root'[m] = root[m],
         root'[l] = IF Len(seq[l]) = 1 THEN Null
                    ELSE IF i = 1 THEN seq[l][2] ELSE seq[l][1],
         ret' \in Pointers, fault' = FALSE,
         Ring(RemoveAt(seq[l], i), next', prev'),
         \A m \in Lists \ {l} : Ring(seq[m], next', prev')
  PROVE  IInv'
<1> DEFINE s == seq[l]
           z == RemoveAt(s, i)
<1>1. /\ s \in Seq(Nodes) /\ Len(s) \in Nat
      /\ \A j, k \in 1..Len(s) : s[j] = s[k] => j = k
      /\ i \in 1..Len(s)
  BY ListFacts
<1>0. Len(s) = 1 \/ Len(s) > 1
  BY <1>1, NonEmptyRange
<1>2. /\ z \in Seq(Nodes) /\ Len(z) = Len(s) - 1
      /\ \A j \in 1..Len(s) - 1 : z[j] = IF j < i THEN s[j] ELSE s[j + 1]
  BY <1>1, RemoveAtProperties
<1> HIDE DEF z
<1>3. seq'[l] = z /\ \A m \in Lists \ {l} : seq'[m] = seq[m]
  BY DEF IInv, TypeOK, z
<1>4. TypeOK'
  BY <1>2 DEF IInv, TypeOK, Pointers, z
<1>5. Represents'
  <2>1. root'[l] = IF z = <<>> THEN Null ELSE z[1]
    <3>1. CASE Len(s) = 1
      BY <1>2, <3>1
    <3>2. CASE Len(s) # 1
      <4>1. Len(z) # 0 /\ 1 \in 1..Len(s) - 1
        <5>1. Len(s) > 1
          BY <1>0, <3>2
        <5> HIDE DEF s
        <5> QED BY <1>1, <1>2, <5>1
      <4>2. z # <<>>
        BY <4>1
      <4> QED BY <1>1, <1>2, <3>2, <4>1, <4>2
    <3> QED BY <3>1, <3>2
  <2>2. Ring(z, next', prev')
    BY DEF z
  <2> QED BY <1>3, <2>1, <2>2 DEF IInv, Represents
<1>6. NodeOnce'
  <2>1. \A j \in 1..Len(z) :
          \E k \in 1..Len(s) : z[j] = s[k] /\ k = IF j < i THEN j ELSE j + 1
    BY <1>1, <1>2
  <2>2. \A j, k \in 1..Len(z) : z[j] = z[k] => j = k
    BY <1>1, <1>2, <2>1
  <2>3. ASSUME NEW m \in Lists \ {l}, NEW k \in 1..Len(seq[m]), NEW j \in 1..Len(z)
        PROVE  seq[m][k] # z[j]
    <3>1. PICK h \in 1..Len(s) : z[j] = s[h]
      BY <2>1
    <3>2. NodeOnce
      BY DEF IInv
    <3>3. seq[m][k] # seq[l][h]
      BY ONLY <3>2, l \in Lists, m \in Lists \ {l}, k \in 1..Len(seq[m]),
              h \in 1..Len(seq[l]) DEF NodeOnce
    <3> QED BY <3>1, <3>3
  <2> QED BY <1>3, <2>2, <2>3 DEF IInv, NodeOnce
<1> QED BY <1>4, <1>5, <1>6 DEF IInv, NoFault

-----------------------------------------------------------------------------
(* The links, operation by operation. *)

\* insert_before_unsafe on a list with nodes.
LEMMA LinkStep ==
  ASSUME IInv, NEW l \in Lists, NEW n \in Nodes, Loose(n), seq[l] # <<>>,
         NEW i \in 1..Len(seq[l]) + 1, NEW p \in 1..Len(seq[l]),
         p = IF i = Len(seq[l]) + 1 THEN 1 ELSE i,
         InsertBeforeUnsafe(seq[l][p], n)
  PROVE  /\ next' \in [Pointers -> Pointers] /\ prev' \in [Pointers -> Pointers]
         /\ fault' = FALSE
         /\ Ring(InsertAt(seq[l], i, n), next', prev')
         /\ \A m \in Lists \ {l} : Ring(seq[m], next', prev')
<1> DEFINE s == seq[l]
           node == s[p]
           pred == prev[node]
<1>1. /\ s \in Seq(Nodes) /\ Len(s) \in Nat
      /\ \A j \in 1..Len(s) : s[j] \in Nodes /\ s[j] # Null
      /\ \A j, k \in 1..Len(s) : s[j] = s[k] => j = k
      /\ Ring(s, next, prev)
  BY ListFacts
<1>2. next \in [Pointers -> Pointers] /\ prev \in [Pointers -> Pointers]
  BY DEF IInv, TypeOK
<1>3. PICK b \in 1..Len(s) : pred = s[b]
  BY <1>1 DEF Ring, Before
<1>4. /\ node \in Nodes /\ node # Null /\ pred \in Nodes /\ pred # Null
      /\ n \in Pointers /\ node \in Pointers /\ pred \in Pointers
  BY <1>1, <1>3 DEF Pointers
<1>5. /\ next' = [next EXCEPT ![pred] = n, ![n] = node]
      /\ prev' = [prev EXCEPT ![n] = pred, ![node] = n]
      /\ fault' = (Null \in {node, pred})
  BY DEF InsertBeforeUnsafe, Deref
<1>6. /\ next' \in [Pointers -> Pointers] /\ prev' \in [Pointers -> Pointers]
      /\ fault' = FALSE
  <2> HIDE DEF node, pred
  <2>1. next' \in [Pointers -> Pointers] /\ prev' \in [Pointers -> Pointers]
    BY <1>2, <1>4, <1>5
  <2>2. (Null \in {node, pred}) = FALSE
    BY <1>4
  <2>3. fault' = FALSE
    BY <1>5, <2>2, Zenon
  <2> QED BY <2>1, <2>3
<1>7. Ring(InsertAt(s, i, n), next', prev')
  <2>1. s # <<>> /\ i \in 1..Len(s) + 1 /\ p \in 1..Len(s)
    OBVIOUS
  <2>2. p = IF i = Len(s) + 1 THEN 1 ELSE i
    OBVIOUS
  <2>3. \A j \in 1..Len(s) : s[j] # n
    BY DEF Loose
  <2> HIDE DEF s
  <2> QED BY <1>1, <1>2, <1>5, <2>1, <2>2, <2>3, RingInsert
<1>8. \A m \in Lists \ {l} : \A j \in 1..Len(seq[m]) :
        /\ next'[seq[m][j]] = next[seq[m][j]]
        /\ prev'[seq[m][j]] = prev[seq[m][j]]
  <2> TAKE m \in Lists \ {l}
  <2> TAKE j \in 1..Len(seq[m])
  <2>1. seq[m][j] # n /\ seq[m][j] # node /\ seq[m][j] # pred
    BY <1>3 DEF Loose, IInv, NodeOnce
  <2>2. seq[m][j] \in Pointers
    BY ListFacts DEF Pointers
  <2> HIDE DEF node, pred
  <2> QED BY <1>2, <1>4, <1>5, <2>1, <2>2
<1> QED BY <1>6, <1>7, <1>8, OtherRings

\* The first node of an empty list.
LEMMA SoleStep ==
  ASSUME IInv, NEW l \in Lists, NEW n \in Nodes, Loose(n), seq[l] = <<>>,
         LinkSole(l, n)
  PROVE  /\ next' \in [Pointers -> Pointers] /\ prev' \in [Pointers -> Pointers]
         /\ fault' = FALSE
         /\ Ring(InsertAt(seq[l], 1, n), next', prev')
         /\ \A m \in Lists \ {l} : Ring(seq[m], next', prev')
<1>1. /\ next \in [Pointers -> Pointers] /\ prev \in [Pointers -> Pointers]
      /\ next' = [next EXCEPT ![n] = n] /\ prev' = [prev EXCEPT ![n] = n]
      /\ n \in Pointers /\ fault' = FALSE
  BY DEF IInv, TypeOK, NoFault, LinkSole, Pointers
<1>2. Ring(InsertAt(seq[l], 1, n), next', prev')
  <2> DEFINE s == seq[l]
             z == InsertAt(s, 1, n)
  <2>0. s \in Seq(Nodes)
    BY ListFacts
  <2>1. Len(s) = 0 /\ 1 \in 1..Len(s) + 1
    BY ListFacts
  <2> HIDE DEF s
  <2>2. Len(z) = 1 /\ z[1] = n
    <3>1. PICK i \in 1..Len(s) + 1 : i = 1
      BY <2>1
    <3>2. /\ Len(InsertAt(s, i, n)) = Len(s) + 1
          /\ \A j \in 1..Len(s) + 1 : InsertAt(s, i, n)[j] =
               IF j < i THEN s[j] ELSE IF j = i THEN n ELSE s[j - 1]
      BY <2>0, InsertAtProperties
    <3>3. z = InsertAt(s, i, n)
      BY <3>1
    <3> HIDE DEF z
    <3> QED BY <2>1, <3>1, <3>2, <3>3
  <2> HIDE DEF z
  <2>3. next'[n] = n /\ prev'[n] = n
    BY <1>1
  <2>4. Ring(z, next', prev')
    BY <2>2, <2>3 DEF Ring, After, Before
  <2> QED BY <2>4 DEF z, s
<1>3. \A m \in Lists \ {l} : \A j \in 1..Len(seq[m]) :
        /\ next'[seq[m][j]] = next[seq[m][j]]
        /\ prev'[seq[m][j]] = prev[seq[m][j]]
  BY <1>1, ListFacts DEF Loose, Pointers
<1> QED BY <1>1, <1>2, <1>3, OtherRings

\* remove_unsafe leaves a ring when it leaves a node.
LEMMA UnlinkStep ==
  ASSUME IInv, NEW l \in Lists, NEW i \in 1..Len(seq[l]), Len(seq[l]) > 1,
         Unlink(seq[l][i])
  PROVE  /\ next' \in [Pointers -> Pointers] /\ prev' \in [Pointers -> Pointers]
         /\ fault' = FALSE
         /\ Ring(RemoveAt(seq[l], i), next', prev')
         /\ \A m \in Lists \ {l} : Ring(seq[m], next', prev')
<1> DEFINE s == seq[l]
           node == s[i]
           pred == prev[node]
           succ == next[node]
<1>1. /\ s \in Seq(Nodes) /\ Len(s) \in Nat
      /\ \A j \in 1..Len(s) : s[j] \in Nodes /\ s[j] # Null
      /\ \A j, k \in 1..Len(s) : s[j] = s[k] => j = k
      /\ Ring(s, next, prev)
  BY ListFacts
<1>2. next \in [Pointers -> Pointers] /\ prev \in [Pointers -> Pointers]
  BY DEF IInv, TypeOK
<1>3. PICK a \in 1..Len(s), b \in 1..Len(s) : succ = s[a] /\ pred = s[b]
  <2>1. succ = s[After(i, Len(s))] /\ After(i, Len(s)) \in 1..Len(s)
    BY <1>1 DEF Ring, After
  <2>2. pred = s[Before(i, Len(s))] /\ Before(i, Len(s)) \in 1..Len(s)
    BY <1>1 DEF Ring, Before
  <2> HIDE DEF s, succ, pred
  <2> QED BY <2>1, <2>2
<1>4. /\ node # Null /\ pred # Null /\ succ # Null
      /\ Null \in Pointers /\ node \in Pointers /\ pred \in Pointers /\ succ \in Pointers
  BY <1>1, <1>3 DEF Pointers
<1>5. /\ next' = [next EXCEPT ![pred] = succ, ![node] = Null]
      /\ prev' = [prev EXCEPT ![succ] = pred, ![node] = Null]
      /\ fault' = (Null \in {node, pred, succ})
  BY DEF Unlink, Deref
<1>6. /\ next' \in [Pointers -> Pointers] /\ prev' \in [Pointers -> Pointers]
      /\ fault' = FALSE
  <2> HIDE DEF node, pred, succ
  <2>1. next' \in [Pointers -> Pointers] /\ prev' \in [Pointers -> Pointers]
    BY <1>2, <1>4, <1>5
  <2>2. (Null \in {node, pred, succ}) = FALSE
    BY <1>4
  <2>3. fault' = FALSE
    BY <1>5, <2>2, Zenon
  <2> QED BY <2>1, <2>3
<1>7. Ring(RemoveAt(s, i), next', prev')
  <2>1. Len(s) > 1 /\ i \in 1..Len(s)
    OBVIOUS
  <2> HIDE DEF s
  <2> QED BY <1>1, <1>2, <1>5, <2>1, RingRemove
<1>8. \A m \in Lists \ {l} : \A j \in 1..Len(seq[m]) :
        /\ next'[seq[m][j]] = next[seq[m][j]]
        /\ prev'[seq[m][j]] = prev[seq[m][j]]
  <2> TAKE m \in Lists \ {l}
  <2> TAKE j \in 1..Len(seq[m])
  <2>1. seq[m][j] # node /\ seq[m][j] # pred /\ seq[m][j] # succ
    BY <1>3 DEF IInv, NodeOnce
  <2>2. seq[m][j] \in Pointers
    BY ListFacts DEF Pointers
  <2> HIDE DEF node, pred, succ
  <2> QED BY <1>2, <1>4, <1>5, <2>1, <2>2
<1> QED BY <1>6, <1>7, <1>8, OtherRings

-----------------------------------------------------------------------------
(* Every operation keeps the invariant and is a step of the abstract lists. *)

LEMMA PushFrontStep ==
  ASSUME IInv, NEW l \in Lists, NEW n \in Nodes, PushFront(l, n)
  PROVE  IInv'
<1>1. /\ Loose(n) /\ ret' \in Pointers /\ 1 \in 1..Len(seq[l]) + 1
      /\ seq' = [seq EXCEPT ![l] = InsertAt(seq[l], 1, n)]
  BY ListFacts DEF PushFront, Pointers
<1>2. root' = [root EXCEPT ![l] = n]
  BY DEF PushFront, PushFrontUnsafe, LinkSole
<1>3. CASE root[l] = Null
  <2>1. LinkSole(l, n) /\ seq[l] = <<>>
    BY <1>3, ListFacts DEF PushFront, PushFrontUnsafe
  <2> QED BY <1>1, <1>2, <2>1, SoleStep, InsertCommon
<1>4. CASE root[l] # Null
  <2>1. /\ seq[l] # <<>> /\ root[l] = seq[l][1] /\ 1 \in 1..Len(seq[l])
        /\ 1 # Len(seq[l]) + 1
    BY <1>4, ListFacts
  <2>2. InsertBeforeUnsafe(seq[l][1], n)
    BY <1>4, <2>1 DEF PushFront, PushFrontUnsafe
  <2>3. /\ next' \in [Pointers -> Pointers] /\ prev' \in [Pointers -> Pointers]
        /\ fault' = FALSE
        /\ Ring(InsertAt(seq[l], 1, n), next', prev')
        /\ \A m \in Lists \ {l} : Ring(seq[m], next', prev')
    BY <1>1, <2>1, <2>2, LinkStep
  <2> QED BY <1>1, <1>2, <2>3, InsertCommon
<1> QED BY <1>3, <1>4

LEMMA PushBackStep ==
  ASSUME IInv, NEW l \in Lists, NEW n \in Nodes, PushBack(l, n)
  PROVE  IInv'
<1>1. /\ Loose(n) /\ ret' \in Pointers /\ Len(seq[l]) + 1 \in 1..Len(seq[l]) + 1
      /\ seq' = [seq EXCEPT ![l] = InsertAt(seq[l], Len(seq[l]) + 1, n)]
  BY ListFacts DEF PushBack, Pointers
<1>2. CASE root[l] = Null
  <2>1. LinkSole(l, n) /\ seq[l] = <<>> /\ Len(seq[l]) = 0
    BY <1>2, ListFacts DEF PushBack, PushBackUnsafe
  <2>2. root' = [root EXCEPT ![l] = n]
    BY <2>1 DEF LinkSole
  <2>3. Len(seq[l]) + 1 = 1
    BY <2>1
  <2> QED BY <1>1, <2>1, <2>2, <2>3, SoleStep, InsertCommon
<1>3. CASE root[l] # Null
  <2>1. /\ seq[l] # <<>> /\ root[l] = seq[l][1] /\ 1 \in 1..Len(seq[l])
        /\ Len(seq[l]) + 1 # 1
    BY <1>3, ListFacts
  <2>2. InsertBeforeUnsafe(seq[l][1], n) /\ root' = root
    BY <1>3, <2>1 DEF PushBack, PushBackUnsafe
  <2>3. /\ next' \in [Pointers -> Pointers] /\ prev' \in [Pointers -> Pointers]
        /\ fault' = FALSE
        /\ Ring(InsertAt(seq[l], Len(seq[l]) + 1, n), next', prev')
        /\ \A m \in Lists \ {l} : Ring(seq[m], next', prev')
    BY <1>1, <2>1, <2>2, LinkStep
  <2> QED BY <1>1, <2>1, <2>2, <2>3, InsertCommon
<1> QED BY <1>2, <1>3

LEMMA InsertBeforeStep ==
  ASSUME IInv, NEW l \in Lists, NEW i \in 1..Len(seq[l]), NEW n \in Nodes,
         InsertBefore(l, i, n)
  PROVE  IInv'
<1>1. /\ Loose(n) /\ ret' \in Pointers
      /\ i \in 1..Len(seq[l]) + 1 /\ i # Len(seq[l]) + 1 /\ seq[l] # <<>>
      /\ seq' = [seq EXCEPT ![l] = InsertAt(seq[l], i, n)]
      /\ InsertBeforeUnsafe(seq[l][i], n)
  BY ListFacts DEF InsertBefore, Pointers
<1>2. root' = IF i = 1 THEN [root EXCEPT ![l] = n] ELSE root
  <2>1. seq[l][i] = root[l] <=> i = 1
    BY ListFacts, <1>1
  <2> QED BY <2>1 DEF InsertBefore
<1>3. /\ next' \in [Pointers -> Pointers] /\ prev' \in [Pointers -> Pointers]
      /\ fault' = FALSE
      /\ Ring(InsertAt(seq[l], i, n), next', prev')
      /\ \A m \in Lists \ {l} : Ring(seq[m], next', prev')
  BY <1>1, LinkStep
<1> QED BY <1>1, <1>2, <1>3, InsertCommon

\* The last node goes: root becomes null, and the links stay as they are.
LEMMA SoleTaken ==
  ASSUME IInv, NEW l \in Lists, NEW i \in 1..Len(seq[l]), Len(seq[l]) = 1,
         seq' = [seq EXCEPT ![l] = RemoveAt(seq[l], i)],
         root' = [root EXCEPT ![l] = Null], ret' \in Pointers, fault' = FALSE,
         UNCHANGED <<next, prev>>
  PROVE  IInv'
<1>1. /\ next' \in [Pointers -> Pointers] /\ prev' \in [Pointers -> Pointers]
      /\ root' \in [Lists -> Pointers] /\ root'[l] = Null
      /\ \A m \in Lists \ {l} : root'[m] = root[m]
  BY DEF IInv, TypeOK, Pointers
<1>2. Ring(RemoveAt(seq[l], i), next', prev')
  <2>1. seq[l] \in Seq(Nodes)
    BY ListFacts
  <2>2. Len(RemoveAt(seq[l], i)) = Len(seq[l]) - 1
    BY <2>1, RemoveAtProperties
  <2>3. Len(RemoveAt(seq[l], i)) = 0
    BY <2>2
  <2> QED BY <2>3 DEF Ring
<1>3. \A m \in Lists \ {l} : Ring(seq[m], next', prev')
  BY OtherRings
<1> QED BY <1>1, <1>2, <1>3, TakeCommon

LEMMA RemoveStep ==
  ASSUME IInv, ~RemoveSole, NEW l \in Lists, NEW i \in 1..Len(seq[l]),
         RemoveNode(l, i)
  PROVE  IInv'
<1>1. /\ Len(seq[l]) > 1 /\ Len(seq[l]) # 1 /\ Unlink(seq[l][i])
      /\ seq' = [seq EXCEPT ![l] = RemoveAt(seq[l], i)]
      /\ ret' \in Pointers
  BY ListFacts DEF RemoveNode, RemoveUnsafe, Pointers
<1>2. /\ next' \in [Pointers -> Pointers] /\ prev' \in [Pointers -> Pointers]
      /\ fault' = FALSE
      /\ Ring(RemoveAt(seq[l], i), next', prev')
      /\ \A m \in Lists \ {l} : Ring(seq[m], next', prev')
  BY <1>1, UnlinkStep
<1>3. /\ seq[l][i] = root[l] <=> i = 1
      /\ i = 1 => next[seq[l][i]] = seq[l][2]
      /\ root[l] = seq[l][1] /\ seq[l][2] \in Pointers
  BY <1>1, ListFacts DEF Ring, After, Pointers
<1>4. root' = IF i = 1 THEN [root EXCEPT ![l] = seq[l][2]] ELSE root
  BY <1>3 DEF RemoveNode, RemoveUnsafe
<1>5. /\ root' \in [Lists -> Pointers]
      /\ \A m \in Lists \ {l} : root'[m] = root[m]
      /\ root'[l] = IF i = 1 THEN seq[l][2] ELSE seq[l][1]
  BY <1>3, <1>4 DEF IInv, TypeOK
<1> QED BY <1>1, <1>2, <1>5, TakeCommon

LEMMA PopFrontStep ==
  ASSUME IInv, NEW l \in Lists, PopFront(l)
  PROVE  IInv' /\ ret' = root[l]
<1>0. ret' = root[l] /\ ret' \in Pointers
  BY DEF PopFront, PopFrontUnsafe, IInv, TypeOK
<1>1. CASE root[l] = Null
  <2>1. seq[l] = <<>> /\ UNCHANGED <<root, next, prev, fault>>
    BY <1>1, ListFacts DEF PopFront, PopFrontUnsafe
  <2>2. UNCHANGED seq
    BY <2>1 DEF PopFront, IInv, TypeOK
  <2>3. IInv'
    BY <1>0, <2>1, <2>2 DEF IInv, TypeOK, Represents, NodeOnce, NoFault
  <2> QED BY <1>0, <2>3
<1>2. CASE root[l] # Null
  <2>1. seq[l] # <<>> /\ root[l] = seq[l][1] /\ 1 \in 1..Len(seq[l])
    BY <1>2, ListFacts
  <2>2. seq' = [seq EXCEPT ![l] = RemoveAt(seq[l], 1)]
    BY <2>1 DEF PopFront
  <2>3. next[seq[l][1]] = IF Len(seq[l]) = 1 THEN seq[l][1] ELSE seq[l][2]
    <3>1. next[seq[l][1]] = seq[l][After(1, Len(seq[l]))]
      BY <2>1, ListFacts DEF Ring
    <3>2. After(1, Len(seq[l])) = IF Len(seq[l]) = 1 THEN 1 ELSE 2
      BY DEF After
    <3> QED BY <3>1, <3>2
  <2>4. CASE Len(seq[l]) = 1
    <3>1. root' = [root EXCEPT ![l] = Null] /\ UNCHANGED <<next, prev, fault>>
      BY <1>2, <2>1, <2>3, <2>4 DEF PopFront, PopFrontUnsafe
    <3>2. fault' = FALSE
      BY <3>1 DEF IInv, NoFault, TypeOK
    <3> QED BY <1>0, <2>1, <2>2, <2>4, <3>1, <3>2, SoleTaken
  <2>5. CASE Len(seq[l]) # 1
    <3>1. Len(seq[l]) > 1 /\ seq[l][2] # seq[l][1] /\ seq[l][2] \in Pointers
      <4>1. Len(seq[l]) \in Nat
        BY ListFacts
      <4>2. Len(seq[l]) > 1
        BY <2>1, <2>5, <4>1, NonEmptyRange
      <4>3. 2 \in 1..Len(seq[l])
        BY <4>1, <4>2
      <4> QED BY <2>1, <4>2, <4>3, ListFacts DEF Pointers
    <3>2. Unlink(seq[l][1]) /\ root' = [root EXCEPT ![l] = seq[l][2]]
      BY <1>2, <2>1, <2>3, <2>5, <3>1 DEF PopFront, PopFrontUnsafe
    <3>3. /\ root' \in [Lists -> Pointers]
          /\ \A m \in Lists \ {l} : root'[m] = root[m]
          /\ root'[l] = seq[l][2]
      BY <3>1, <3>2 DEF IInv, TypeOK
    <3>4. /\ next' \in [Pointers -> Pointers] /\ prev' \in [Pointers -> Pointers]
          /\ fault' = FALSE
          /\ Ring(RemoveAt(seq[l], 1), next', prev')
          /\ \A m \in Lists \ {l} : Ring(seq[m], next', prev')
      BY <2>1, <3>1, <3>2, UnlinkStep
    <3> QED BY <1>0, <2>1, <2>2, <2>5, <3>3, <3>4, TakeCommon
  <2> QED BY <2>4, <2>5
<1> QED BY <1>1, <1>2

LEMMA PopBackStep ==
  ASSUME IInv, ~PopBackEmpty, NEW l \in Lists, PopBack(l)
  PROVE  IInv' /\ Len(seq[l]) \in 1..Len(seq[l]) /\ ret' = seq[l][Len(seq[l])]
<1>1. /\ seq[l] # <<>> /\ root[l] = seq[l][1] /\ root[l] # Null
      /\ Len(seq[l]) \in Nat /\ Len(seq[l]) \in 1..Len(seq[l]) /\ 1 \in 1..Len(seq[l])
  BY ListFacts DEF PopBack
<1>2. prev[root[l]] = seq[l][Len(seq[l])]
  BY <1>1, ListFacts DEF Ring, Before
<1>3. ret' = seq[l][Len(seq[l])] /\ ret' \in Pointers
  BY <1>1, <1>2, ListFacts DEF PopBack, PopBackUnsafe, Pointers
<1>4. seq' = [seq EXCEPT ![l] = RemoveAt(seq[l], Len(seq[l]))]
  BY <1>1 DEF PopBack
<1>5. root[l] = prev[root[l]] <=> Len(seq[l]) = 1
  BY <1>1, <1>2, ListFacts
<1>6. CASE Len(seq[l]) = 1
  <2>1. root' = [root EXCEPT ![l] = Null] /\ UNCHANGED <<next, prev>> /\ Deref({root[l]})
    BY <1>5, <1>6 DEF PopBack, PopBackUnsafe
  <2>2. (Null \in {root[l]}) = FALSE
    BY <1>1
  <2>3. fault' = FALSE
    BY <2>1, <2>2, Zenon DEF Deref
  <2> QED BY <1>1, <1>3, <1>4, <1>6, <2>1, <2>3, SoleTaken
<1>7. CASE Len(seq[l]) # 1
  <2>1. Len(seq[l]) > 1
    BY <1>1, <1>7, NonEmptyRange
  <2>2. Unlink(seq[l][Len(seq[l])]) /\ root' = root
    BY <1>2, <1>5, <1>7 DEF PopBack, PopBackUnsafe
  <2>3. /\ next' \in [Pointers -> Pointers] /\ prev' \in [Pointers -> Pointers]
        /\ fault' = FALSE
        /\ Ring(RemoveAt(seq[l], Len(seq[l])), next', prev')
        /\ \A m \in Lists \ {l} : Ring(seq[m], next', prev')
    BY <1>1, <2>1, <2>2, UnlinkStep
  <2>4. root' \in [Lists -> Pointers] /\ root'[l] = seq[l][1]
    BY <1>1, <2>2 DEF IInv, TypeOK
  <2> QED BY <1>1, <1>3, <1>4, <1>7, <2>1, <2>2, <2>3, <2>4, TakeCommon
<1> QED BY <1>1, <1>3, <1>6, <1>7

LEMMA InitIInv == Init => IInv
<1> SUFFICES ASSUME Init PROVE IInv
  OBVIOUS
<1>1. TypeOK
  <2>1. Null \in Pointers
    BY DEF Pointers
  <2>2. /\ root \in [Lists -> Pointers] /\ ret \in Pointers
        /\ next \in [Pointers -> Pointers] /\ prev \in [Pointers -> Pointers]
    BY <2>1 DEF Init
  <2>3. fault \in BOOLEAN
    BY Zenon DEF Init
  <2>4. seq \in [Lists -> Seq(Nodes)]
    <3>1. <<>> \in Seq(Nodes)
      OBVIOUS
    <3> QED BY <3>1 DEF Init
  <2> QED BY <2>2, <2>3, <2>4 DEF TypeOK
<1>2. \A l \in Lists : seq[l] = <<>> /\ Len(seq[l]) = 0 /\ root[l] = Null
  BY DEF Init
<1>3. Represents /\ NodeOnce
  BY <1>2 DEF Represents, NodeOnce, Ring
<1>4. NoFault
  BY Zenon DEF Init, NoFault
<1> QED BY <1>1, <1>3, <1>4 DEF IInv

\* Every step keeps the invariant, as long as the callers keep off the two
\* operations that the code gets wrong.
LEMMA NextIInv ==
  ASSUME IInv, ~RemoveSole, ~PopBackEmpty, [Next]_vars
  PROVE  IInv'
<1>1. CASE UNCHANGED vars
  BY <1>1 DEF IInv, TypeOK, Represents, NodeOnce, NoFault, vars
<1>2. CASE Next
  <2>1. PICK l \in Lists :
          \/ \E n \in Nodes : PushFront(l, n) \/ PushBack(l, n)
          \/ PopFront(l) \/ PopBack(l)
          \/ \E i \in 1..Len(seq[l]) :
               RemoveNode(l, i) \/ \E n \in Nodes : InsertBefore(l, i, n)
    BY <1>2 DEF Next
  <2>2. CASE \E n \in Nodes : PushFront(l, n) \/ PushBack(l, n)
    BY <2>2, PushFrontStep, PushBackStep
  <2>3. CASE PopFront(l) \/ PopBack(l)
    BY <2>3, PopFrontStep, PopBackStep
  <2>4. CASE \E i \in 1..Len(seq[l]) :
               RemoveNode(l, i) \/ \E n \in Nodes : InsertBefore(l, i, n)
    BY <2>4, RemoveStep, InsertBeforeStep
  <2> QED BY <2>1, <2>2, <2>3, <2>4
<1> QED BY <1>1, <1>2

\* The links of every list are the rings of its sequence, if no caller removes
\* the only node of a list with remove() or pops the back of an empty list.
THEOREM RingsKept ==
  ASSUME ~RemoveSole, ~PopBackEmpty
  PROVE  Spec => [](TypeOK /\ Represents)
<1>1. IInv /\ [Next]_vars => IInv'
  BY NextIInv
<1>2. IInv => TypeOK /\ Represents
  BY DEF IInv
<1> QED BY InitIInv, <1>1, <1>2, PTL DEF Spec

\* Under the same condition no operation of the list dereferences a null
\* pointer, on any number of nodes and lists.
THEOREM NoNullDereference ==
  ASSUME ~RemoveSole, ~PopBackEmpty
  PROVE  Spec => []NoFault
<1>1. IInv /\ [Next]_vars => IInv'
  BY NextIInv
<1>2. IInv => NoFault
  BY DEF IInv
<1> QED BY InitIInv, <1>1, <1>2, PTL DEF Spec

-----------------------------------------------------------------------------
(* Refinement. *)

LEMMA AbstractStep ==
  ASSUME IInv, ~RemoveSole, ~PopBackEmpty, [Next]_vars
  PROVE  [Abstract!ListNext]_<<seq, ret>>
<1> USE DEF Abstract!ListNext
<1>1. CASE UNCHANGED vars
  BY <1>1 DEF vars
<1>2. CASE Next
  <2>1. PICK l \in Lists :
          \/ \E n \in Nodes : PushFront(l, n) \/ PushBack(l, n)
          \/ PopFront(l) \/ PopBack(l)
          \/ \E i \in 1..Len(seq[l]) :
               RemoveNode(l, i) \/ \E n \in Nodes : InsertBefore(l, i, n)
    BY <1>2 DEF Next
  <2>2. /\ Len(seq[l]) \in Nat
        /\ 1 \in 1..Len(seq[l]) + 1 /\ Len(seq[l]) + 1 \in 1..Len(seq[l]) + 1
        /\ \A i \in 1..Len(seq[l]) : i \in 1..Len(seq[l]) + 1
    BY ListFacts
  <2>3. ASSUME NEW n \in Nodes, PushFront(l, n) PROVE Abstract!Insert(l, 1, n)
    BY <2>3 DEF PushFront, Loose, Abstract!Insert, Abstract!Loose,
           InsertAt, Abstract!InsertAt
  <2>4. ASSUME NEW n \in Nodes, PushBack(l, n)
        PROVE  Abstract!Insert(l, Len(seq[l]) + 1, n)
    BY <2>4 DEF PushBack, Loose, Abstract!Insert, Abstract!Loose,
           InsertAt, Abstract!InsertAt
  <2>5. ASSUME NEW i \in 1..Len(seq[l]), NEW n \in Nodes, InsertBefore(l, i, n)
        PROVE  Abstract!Insert(l, i, n)
    BY <2>5 DEF InsertBefore, Loose, Abstract!Insert, Abstract!Loose,
           InsertAt, Abstract!InsertAt
  <2>6. ASSUME NEW i \in 1..Len(seq[l]), RemoveNode(l, i) PROVE Abstract!Take(l, i)
    BY <2>6 DEF RemoveNode, Abstract!Take, RemoveAt, Abstract!RemoveAt
  <2>7. ASSUME PopBack(l) PROVE Abstract!Take(l, Len(seq[l])) /\ Len(seq[l]) \in 1..Len(seq[l])
    <3>1. Len(seq[l]) \in 1..Len(seq[l]) /\ ret' = seq[l][Len(seq[l])]
      BY <2>7, PopBackStep
    <3>2. seq' = [seq EXCEPT ![l] = RemoveAt(seq[l], Len(seq[l]))]
      BY <2>7 DEF PopBack
    <3> QED BY <3>1, <3>2 DEF Abstract!Take, RemoveAt, Abstract!RemoveAt
  <2>8. ASSUME PopFront(l)
        PROVE  Abstract!TakeNone(l) \/ (Abstract!Take(l, 1) /\ 1 \in 1..Len(seq[l]))
    <3>1. ret' = root[l]
      BY <2>8, PopFrontStep
    <3>2. CASE seq[l] = <<>>
      <4>1. ret' = Null
        BY <3>1, <3>2, ListFacts
      <4>2. UNCHANGED seq
        BY <2>8, <3>2 DEF PopFront, IInv, TypeOK
      <4> QED BY <3>2, <4>1, <4>2 DEF Abstract!TakeNone
    <3>3. CASE seq[l] # <<>>
      <4>1. ret' = seq[l][1] /\ 1 \in 1..Len(seq[l])
        BY <3>1, <3>3, ListFacts
      <4>2. seq' = [seq EXCEPT ![l] = RemoveAt(seq[l], 1)]
        BY <2>8, <3>3 DEF PopFront
      <4> QED BY <4>1, <4>2 DEF Abstract!Take, RemoveAt, Abstract!RemoveAt
    <3> QED BY <3>2, <3>3
  <2> QED BY <2>1, <2>2, <2>3, <2>4, <2>5, <2>6, <2>7, <2>8
<1> QED BY <1>1, <1>2

\* Under the same condition the pointer code implements lists as sequences:
\* each operation has its effect on one sequence and returns the node it
\* should.
THEOREM ListRefinement ==
  ASSUME ~RemoveSole, ~PopBackEmpty
  PROVE  Spec => ImplementsLists
<1>1. Init => Abstract!ListInit
  BY DEF Init, Abstract!ListInit
<1>2. IInv /\ [Next]_vars => IInv'
  BY NextIInv
<1>3. IInv /\ [Next]_vars => [Abstract!ListNext]_<<seq, ret>>
  BY AbstractStep
<1> QED BY InitIInv, <1>1, <1>2, <1>3, PTL
        DEF Spec, ImplementsLists, Abstract!ListBehaviour

=============================================================================
