---------------------------- MODULE RefPtrProofs ----------------------------
(***************************************************************************)
(* Reference counts are exact, no object is used after it was freed and    *)
(* none is freed early or leaked, for any number of threads, variables and *)
(* objects, if threads pop from a list only objects that no other thread   *)
(* holds.                                                                  *)
(***************************************************************************)
EXTENDS RefPtr, SequenceLemmas, FiniteSetTheorems, SequenceTheorems, TLAPS

-----------------------------------------------------------------------------
(* Counting references: thread t has the references <<t, 1>> to <<t, g[t]>>. *)

Refs(g) == UNION {{t} \X (1..g[t]) : t \in Threads}

LEMMA RefsMembers ==
  ASSUME NEW g \in [Threads -> Int]
  PROVE  \A x : x \in Refs(g) <=>
           \E t \in Threads : \E i \in 1..g[t] : x = <<t, i>>
  BY DEF Refs

LEMMA RefsFinite ==
  ASSUME NEW g \in [Threads -> Int]
  PROVE  IsFiniteSet(Refs(g))
<1> DEFINE f == [t \in Threads |-> {t} \X (1..g[t])]
           T == {f[t] : t \in Threads}
<1>1. f \in Surjection(Threads, T)
  BY DEF Surjection
<1>2. IsFiniteSet(T)
  BY <1>1, FS_Surjection, RefPtrAssumption
<1>3. ASSUME NEW t \in Threads PROVE IsFiniteSet({t} \X (1..g[t]))
  <2>1. IsFiniteSet({t})
    BY FS_Singleton
  <2>2. IsFiniteSet(1..g[t])
    BY FS_Interval
  <2> QED BY <2>1, <2>2, FS_Product
<1>4. \A S \in T : IsFiniteSet(S)
  BY <1>3
<1>5. Refs(g) = UNION T
  BY DEF Refs
<1> HIDE DEF T
<1> QED BY <1>2, <1>4, <1>5, FS_UNION

\* The references of one thread and those of the others.
LEMMA RefsSplit ==
  ASSUME NEW g \in [Threads -> Int], NEW t \in Threads, g[t] >= 0
  PROVE  LET own == {t} \X (1..g[t])
             rest == Refs(g) \ own
         IN /\ IsFiniteSet(rest) /\ Cardinality(rest) \in Nat
            /\ Cardinality(Refs(g)) = Cardinality(rest) + g[t]
            /\ \A x : x \in rest <=>
                 \E u \in Threads \ {t} : \E i \in 1..g[u] : x = <<u, i>>
<1> DEFINE own == {t} \X (1..g[t])
           rest == Refs(g) \ own
<1>1. IsFiniteSet(Refs(g))
  BY RefsFinite
<1>2. IsFiniteSet(own) /\ Cardinality(own) = g[t]
  <2>1. IsFiniteSet({t}) /\ Cardinality({t}) = 1
    BY FS_Singleton
  <2>2. IsFiniteSet(1..g[t]) /\ Cardinality(1..g[t]) = g[t]
    <3>1. g[t] \in Int
      OBVIOUS
    <3>2. IsFiniteSet(1..g[t]) /\ Cardinality(1..g[t]) = IF 1 > g[t] THEN 0 ELSE g[t] - 1 + 1
      BY <3>1, FS_Interval
    <3> QED BY <3>1, <3>2
  <2>3. IsFiniteSet(own) /\ Cardinality(own) = 1 * Cardinality(1..g[t])
    BY <2>1, <2>2, FS_Product
  <2> QED BY <2>2, <2>3
<1>3. own \subseteq Refs(g)
  BY RefsMembers
<1>4. \A x : x \in rest <=> \E u \in Threads \ {t} : \E i \in 1..g[u] : x = <<u, i>>
  BY RefsMembers
<1> HIDE DEF own
<1>5. Refs(g) \cap own = own
  BY <1>3
<1>6. IsFiniteSet(rest) /\ Cardinality(rest) = Cardinality(Refs(g)) - Cardinality(own)
  BY <1>1, <1>5, FS_Difference
<1>7. Cardinality(rest) \in Nat /\ Cardinality(Refs(g)) \in Nat
  BY <1>1, <1>6, FS_CardinalityType
<1>8. Cardinality(Refs(g)) = Cardinality(rest) + g[t]
  BY <1>2, <1>6, <1>7
<1> QED BY <1>4, <1>6, <1>7, <1>8 DEF own

\* What one thread does changes the sum by what it does to its own part.
LEMMA RefsUpdate ==
  ASSUME NEW g \in [Threads -> Int], NEW h \in [Threads -> Int], NEW t \in Threads,
         g[t] >= 0, h[t] >= 0, \A u \in Threads \ {t} : h[u] = g[u]
  PROVE  /\ Cardinality(Refs(g)) \in Nat
         /\ Cardinality(Refs(h)) = Cardinality(Refs(g)) - g[t] + h[t]
<1> DEFINE r == Refs(g) \ ({t} \X (1..g[t]))
           q == Refs(h) \ ({t} \X (1..h[t]))
<1>1. /\ Cardinality(r) \in Nat /\ Cardinality(Refs(g)) = Cardinality(r) + g[t]
      /\ \A x : x \in r <=> \E u \in Threads \ {t} : \E i \in 1..g[u] : x = <<u, i>>
  BY RefsSplit
<1>2. /\ Cardinality(q) \in Nat /\ Cardinality(Refs(h)) = Cardinality(q) + h[t]
      /\ \A x : x \in q <=> \E u \in Threads \ {t} : \E i \in 1..h[u] : x = <<u, i>>
  BY RefsSplit
<1> HIDE DEF r, q
<1>3. r = q
  BY <1>1, <1>2
<1> QED BY <1>1, <1>2, <1>3

\* The sum is no less than the part of one thread, and more if another thread
\* has a part.
LEMMA RefsBound ==
  ASSUME NEW g \in [Threads -> Int], NEW t \in Threads, g[t] >= 0
  PROVE  /\ Cardinality(Refs(g)) \in Nat /\ g[t] <= Cardinality(Refs(g))
         /\ \A u \in Threads \ {t} : g[u] >= 1 => g[t] + 1 <= Cardinality(Refs(g))
<1> DEFINE r == Refs(g) \ ({t} \X (1..g[t]))
<1>1. /\ IsFiniteSet(r) /\ Cardinality(r) \in Nat
      /\ Cardinality(Refs(g)) = Cardinality(r) + g[t]
      /\ \A x : x \in r <=> \E u \in Threads \ {t} : \E i \in 1..g[u] : x = <<u, i>>
  BY RefsSplit
<1> HIDE DEF r
<1>2. ASSUME NEW u \in Threads \ {t}, g[u] >= 1 PROVE Cardinality(r) >= 1
  <2>1. 1 \in 1..g[u]
    BY <1>2
  <2>2. <<u, 1>> \in r
    BY <1>1, <2>1
  <2>3. Cardinality(r) # 0
    BY <1>1, <2>2, FS_EmptySet
  <2> QED BY <1>1, <2>3
<1> QED BY <1>1, <1>2

\* A sum that is not zero has a part that is not.
LEMMA RefsSome ==
  ASSUME NEW g \in [Threads -> Int], Cardinality(Refs(g)) # 0
  PROVE  \E t \in Threads : g[t] >= 1
<1>1. IsFiniteSet(Refs(g))
  BY RefsFinite
<1>2. Refs(g) # {}
  BY <1>1, FS_EmptySet
<1>3. PICK x \in Refs(g) : TRUE
  BY <1>2
<1>4. PICK t \in Threads : \E i \in 1..g[t] : x = <<t, i>>
  BY RefsMembers
<1>5. g[t] >= 1
  BY <1>4
<1> QED BY <1>5

-----------------------------------------------------------------------------
(* Counting the variables of a thread and its pending steps. *)

One(x, o) == IF x = o THEN 1 ELSE 0

HeldIn(f, o) == Cardinality({v \in Slots : f[v] = o})

Match(step, ops, o) == IF step.op \in ops /\ step.obj = o THEN 1 ELSE 0

Times(s, ops, o) == Cardinality({i \in 1..Len(s) : s[i].op \in ops /\ s[i].obj = o})

Steps == [op : Ops, obj : Objects]

LEMMA HeldProperties ==
  ASSUME NEW f \in [Slots -> Pointers], NEW o
  PROVE  /\ HeldIn(f, o) \in Nat
         /\ HeldIn(f, o) = 0 <=> \A v \in Slots : f[v] # o
<1> DEFINE S == {v \in Slots : f[v] = o}
<1>1. IsFiniteSet(S)
  BY FS_Subset, RefPtrAssumption
<1>2. Cardinality(S) \in Nat /\ (Cardinality(S) = 0 <=> S = {})
  BY <1>1, FS_CardinalityType, FS_EmptySet
<1> QED BY <1>2 DEF HeldIn

\* One variable changes.
LEMMA HeldUpdate ==
  ASSUME NEW f \in [Slots -> Pointers], NEW v \in Slots, NEW p \in Pointers, NEW o
  PROVE  HeldIn([f EXCEPT ![v] = p], o) = HeldIn(f, o) - One(f[v], o) + One(p, o)
<1> DEFINE g == [f EXCEPT ![v] = p]
           S == {x \in Slots : f[x] = o}
           T == {x \in Slots : g[x] = o}
           R == S \ {v}
<1>1. IsFiniteSet(S) /\ Cardinality(S) \in Nat
  BY FS_Subset, FS_CardinalityType, RefPtrAssumption
<1>2. /\ IsFiniteSet(R) /\ Cardinality(R) \in Nat
      /\ Cardinality(R) = IF v \in S THEN Cardinality(S) - 1 ELSE Cardinality(S)
  BY <1>1, FS_RemoveElement, FS_CardinalityType
<1>3. Cardinality(R \cup {v}) = Cardinality(R) + 1
  BY <1>2, FS_AddElement
<1>4. T = IF p = o THEN R \cup {v} ELSE R
  OBVIOUS
<1>5. v \in S <=> f[v] = o
  OBVIOUS
<1> HIDE DEF S, T, R
<1>6. Cardinality(T) = Cardinality(S) - One(f[v], o) + One(p, o)
  BY <1>1, <1>2, <1>3, <1>4, <1>5 DEF One
<1> QED BY <1>6 DEF HeldIn, S, T

LEMMA TimesProperties ==
  ASSUME NEW s \in Seq(Steps), NEW ops, NEW o
  PROVE  /\ Times(s, ops, o) \in Nat
         /\ Times(s, ops, o) = 0 <=>
              \A i \in 1..Len(s) : ~(s[i].op \in ops /\ s[i].obj = o)
<1> DEFINE S == {i \in 1..Len(s) : s[i].op \in ops /\ s[i].obj = o}
<1>1. IsFiniteSet(1..Len(s))
  BY FS_Interval
<1>2. IsFiniteSet(S)
  BY <1>1, FS_Subset
<1>3. Cardinality(S) \in Nat /\ (Cardinality(S) = 0 <=> S = {})
  BY <1>2, FS_CardinalityType, FS_EmptySet
<1> QED BY <1>3 DEF Times

LEMMA TimesEmpty ==
  ASSUME NEW ops, NEW o
  PROVE  Times(<<>>, ops, o) = 0
<1>1. {i \in 1..Len(<<>>) : <<>>[i].op \in ops /\ <<>>[i].obj = o} = {}
  OBVIOUS
<1> QED BY <1>1, FS_EmptySet DEF Times

\* The first step is done.
LEMMA TimesTail ==
  ASSUME NEW s \in Seq(Steps), s # <<>>, NEW ops, NEW o
  PROVE  Times(s, ops, o) = Match(Head(s), ops, o) + Times(Tail(s), ops, o)
<1> DEFINE r == Tail(s)
           n == Len(s)
           S == {i \in 1..n : s[i].op \in ops /\ s[i].obj = o}
           T == {i \in 1..Len(r) : r[i].op \in ops /\ r[i].obj = o}
           R == S \ {1}
           f == [i \in T |-> i + 1]
<1>1. /\ n \in Nat \ {0} /\ r \in Seq(Steps) /\ Len(r) = n - 1 /\ Head(s) = s[1]
      /\ \A i \in 1..n - 1 : r[i] = s[i + 1]
  BY HeadTailProperties
<1>2. IsFiniteSet(S) /\ IsFiniteSet(T) /\ IsFiniteSet(R)
  <2>1. IsFiniteSet(1..n) /\ IsFiniteSet(1..Len(r))
    BY <1>1, FS_Interval
  <2>2. IsFiniteSet(S) /\ IsFiniteSet(T)
    BY <2>1, FS_Subset
  <2> HIDE DEF S
  <2> QED BY <2>2, FS_RemoveElement
<1>3. \A i \in T : i \in Nat /\ i + 1 \in R
  BY <1>1
<1>4. \A j \in R : j \in Nat /\ j - 1 \in T /\ (j - 1) + 1 = j
  BY <1>1
<1>5. 1 \in S <=> Head(s).op \in ops /\ Head(s).obj = o
  BY <1>1
<1>6. Times(s, ops, o) = Cardinality(S) /\ Times(r, ops, o) = Cardinality(T)
  BY DEF Times
<1> HIDE DEF r, S, T, R
<1>7. f \in Bijection(T, R)
  <2>1. f \in [T -> R] /\ \A i, j \in T : f[i] = f[j] => i = j
    BY <1>3
  <2>2. \A j \in R : \E i \in T : f[i] = j
    BY <1>4
  <2> QED BY <2>1, <2>2 DEF Bijection, Injection, Surjection, IsInjective
<1>8. Cardinality(R) = Cardinality(T)
  BY <1>2, <1>7, FS_Bijection DEF ExistsBijection
<1>9. /\ Cardinality(S) \in Nat
      /\ Cardinality(R) = IF 1 \in S THEN Cardinality(S) - 1 ELSE Cardinality(S)
  BY <1>2, FS_RemoveElement, FS_CardinalityType DEF R
<1>10. Cardinality(S) = Match(Head(s), ops, o) + Cardinality(T)
  BY <1>5, <1>8, <1>9 DEF Match
<1> QED BY <1>6, <1>10 DEF r

\* The lists of steps that the operations begin with.
LEMMA TimesOne ==
  ASSUME NEW a \in Steps, NEW ops, NEW o
  PROVE  Times(<<a>>, ops, o) = Match(a, ops, o)
<1>1. <<a>> \in Seq(Steps) /\ <<a>> # <<>> /\ Head(<<a>>) = a /\ Tail(<<a>>) = <<>>
  OBVIOUS
<1>2. Times(<<a>>, ops, o) = Match(a, ops, o) + Times(<<>>, ops, o)
  BY <1>1, TimesTail
<1> QED BY <1>2, TimesEmpty DEF Match

LEMMA TimesTwo ==
  ASSUME NEW a \in Steps, NEW b \in Steps, NEW ops, NEW o
  PROVE  Times(<<a, b>>, ops, o) = Match(a, ops, o) + Match(b, ops, o)
<1>1. <<a, b>> \in Seq(Steps) /\ <<a, b>> # <<>> /\ Head(<<a, b>>) = a /\ Tail(<<a, b>>) = <<b>>
  OBVIOUS
<1>2. Times(<<a, b>>, ops, o) = Match(a, ops, o) + Times(<<b>>, ops, o)
  BY <1>1, TimesTail
<1> QED BY <1>2, TimesOne

LEMMA TimesThree ==
  ASSUME NEW a \in Steps, NEW b \in Steps, NEW c \in Steps, NEW ops, NEW o
  PROVE  Times(<<a, b, c>>, ops, o) = Match(a, ops, o) + Match(b, ops, o) + Match(c, ops, o)
<1>1. /\ <<a, b, c>> \in Seq(Steps) /\ <<a, b, c>> # <<>>
      /\ Head(<<a, b, c>>) = a /\ Tail(<<a, b, c>>) = <<b, c>>
  OBVIOUS
<1>2. Times(<<a, b, c>>, ops, o) = Match(a, ops, o) + Times(<<b, c>>, ops, o)
  BY <1>1, TimesTail
<1> QED BY <1>2, TimesTwo DEF Match

Rel == {"release", "destroy"}

Step(op, o) == [op |-> op, obj |-> o]

Names(s, o) == \E i \in 1..Len(s) : s[i].obj = o

\* A list of steps, and what it has for object o.
Counts(s, o, adds, rels, named) ==
  /\ s \in Seq(Steps)
  /\ Times(s, {"add"}, o) = adds /\ Times(s, Rel, o) = rels
  /\ Names(s, o) <=> named

LEMMA StepMatch ==
  ASSUME NEW x \in Objects, NEW o
  PROVE  /\ \A op \in Ops : Step(op, x) \in Steps /\ Step(op, x).op = op /\ Step(op, x).obj = x
         /\ Match(Step("add", x), {"add"}, o) = One(x, o)
         /\ Match(Step("add", x), Rel, o) = 0
         /\ Match(Step("release", x), {"add"}, o) = 0
         /\ Match(Step("release", x), Rel, o) = One(x, o)
         /\ Match(Step("destroy", x), {"add"}, o) = 0
         /\ Match(Step("destroy", x), Rel, o) = One(x, o)
         /\ Match(Step("delete", x), {"add"}, o) = 0
         /\ Match(Step("delete", x), Rel, o) = 0
  BY DEF Step, Steps, Ops, Match, One, Rel

LEMMA CountsNone ==
  ASSUME NEW o
  PROVE  Counts(<<>>, o, 0, 0, FALSE)
  BY TimesEmpty DEF Counts, Names

LEMMA CountsOne ==
  ASSUME NEW x \in Objects, NEW o
  PROVE  /\ Counts(<<Step("add", x)>>, o, One(x, o), 0, x = o)
         /\ Counts(<<Step("destroy", x)>>, o, 0, One(x, o), x = o)
         /\ Counts(<<Step("delete", x)>>, o, 0, 0, x = o)
<1>1. ASSUME NEW op \in Ops
      PROVE  /\ <<Step(op, x)>> \in Seq(Steps)
             /\ \A ops : Times(<<Step(op, x)>>, ops, o) = Match(Step(op, x), ops, o)
             /\ Names(<<Step(op, x)>>, o) <=> x = o
  BY StepMatch, TimesOne DEF Names
<1> QED BY <1>1, StepMatch DEF Counts, Ops

LEMMA CountsTwo ==
  ASSUME NEW x \in Objects, NEW y \in Objects, NEW o
  PROVE  /\ Counts(<<Step("add", x), Step("destroy", y)>>, o,
                   One(x, o), One(y, o), x = o \/ y = o)
         /\ Counts(<<Step("release", x), Step("add", x)>>, o, One(x, o), One(x, o), x = o)
         /\ Counts(<<Step("release", x), Step("destroy", x)>>, o, 0, 2 * One(x, o), x = o)
<1>1. ASSUME NEW z \in Objects, NEW op \in Ops, NEW op2 \in Ops
      PROVE  LET s == <<Step(op, x), Step(op2, z)>>
             IN /\ s \in Seq(Steps)
                /\ \A ops : Times(s, ops, o) = Match(Step(op, x), ops, o) + Match(Step(op2, z), ops, o)
                /\ Names(s, o) <=> x = o \/ z = o
  BY StepMatch, TimesTwo DEF Names
<1>2. Counts(<<Step("add", x), Step("destroy", y)>>, o, One(x, o), One(y, o), x = o \/ y = o)
  <2>1. /\ <<Step("add", x), Step("destroy", y)>> \in Seq(Steps)
        /\ \A ops : Times(<<Step("add", x), Step("destroy", y)>>, ops, o)
                      = Match(Step("add", x), ops, o) + Match(Step("destroy", y), ops, o)
        /\ Names(<<Step("add", x), Step("destroy", y)>>, o) <=> x = o \/ y = o
    BY <1>1 DEF Ops
  <2> QED BY <2>1, StepMatch DEF Counts, One
<1>3. Counts(<<Step("release", x), Step("add", x)>>, o, One(x, o), One(x, o), x = o)
  <2>1. /\ <<Step("release", x), Step("add", x)>> \in Seq(Steps)
        /\ \A ops : Times(<<Step("release", x), Step("add", x)>>, ops, o)
                      = Match(Step("release", x), ops, o) + Match(Step("add", x), ops, o)
        /\ Names(<<Step("release", x), Step("add", x)>>, o) <=> x = o \/ x = o
    BY <1>1 DEF Ops
  <2> QED BY <2>1, StepMatch DEF Counts, One
<1>4. Counts(<<Step("release", x), Step("destroy", x)>>, o, 0, 2 * One(x, o), x = o)
  <2>1. /\ <<Step("release", x), Step("destroy", x)>> \in Seq(Steps)
        /\ \A ops : Times(<<Step("release", x), Step("destroy", x)>>, ops, o)
                      = Match(Step("release", x), ops, o) + Match(Step("destroy", x), ops, o)
        /\ Names(<<Step("release", x), Step("destroy", x)>>, o) <=> x = o \/ x = o
    BY <1>1 DEF Ops
  <2> QED BY <2>1, StepMatch DEF Counts, One
<1> QED BY <1>2, <1>3, <1>4

LEMMA CountsThree ==
  ASSUME NEW x \in Objects, NEW o
  PROVE  /\ Counts(<<Step("add", x), Step("add", x), Step("destroy", x)>>, o,
                   2 * One(x, o), One(x, o), x = o)
         /\ Counts(<<Step("add", x), Step("release", x), Step("destroy", x)>>, o,
                   One(x, o), 2 * One(x, o), x = o)
<1>1. ASSUME NEW op \in Ops
      PROVE  LET s == <<Step("add", x), Step(op, x), Step("destroy", x)>>
             IN /\ s \in Seq(Steps)
                /\ \A ops : Times(s, ops, o) = Match(Step("add", x), ops, o)
                              + Match(Step(op, x), ops, o) + Match(Step("destroy", x), ops, o)
                /\ Names(s, o) <=> x = o
  BY StepMatch, TimesThree DEF Names, Ops
<1> QED BY <1>1, StepMatch DEF Counts, Ops, One

-----------------------------------------------------------------------------
(* The inductive invariant. *)

OwnsOf(f, s, o) == HeldIn(f, o) + Times(s, Rel, o) - Times(s, {"add"}, o)

On(l, o) == IF o \in ToSet(l) THEN 1 ELSE 0

\* CountExact for one object.
CountOf(o) ==
  /\ \A t \in Threads : OwnsOf(slot[t], todo[t], o) >= 0
  /\ ref_count[o] = Cardinality(Refs([t \in Threads |-> OwnsOf(slot[t], todo[t], o)]))
                      + On(list, o)

\* Thread t has object o in a variable or still works on it.
Has(t, o) == HeldIn(slot[t], o) >= 1 \/ Names(todo[t], o)

Others(t, o) == \A u \in Threads \ {t} : ~Has(u, o)

Distinct(l) == \A i, j \in 1..Len(l) : l[i] = l[j] => i = j

\* What is left of the steps of an operation.
Shaped(s) ==
  \/ s = <<>>
  \/ \E x \in Objects :
       \/ s = <<Step("add", x)>>
       \/ s = <<Step("destroy", x)>>
       \/ s = <<Step("delete", x)>>
       \/ s = <<Step("release", x), Step("add", x)>>
       \/ s = <<Step("release", x), Step("destroy", x)>>
       \/ s = <<Step("add", x), Step("add", x), Step("destroy", x)>>
       \/ s = <<Step("add", x), Step("release", x), Step("destroy", x)>>
       \/ \E y \in Objects : s = <<Step("add", x), Step("destroy", y)>>

\* Thread t has just taken o off the list, and nobody else knows it.
Alone(t, o) == user = t /\ o \notin ToSet(list) /\ Others(t, o)

\* Who is about to count a reference has one, or the list does and is locked,
\* or nobody else can reach the object.
Covered(t, o) ==
  Times(todo[t], {"add"}, o) >= 1 =>
    OwnsOf(slot[t], todo[t], o) >= 1 \/ (user = t /\ o \in ToSet(list)) \/ Alone(t, o)

Popping(t, o) ==
  todo[t] = <<Step("release", o), Step("add", o)>> =>
    Alone(t, o) /\ HeldIn(slot[t], o) >= 1

\* Who deletes an object is the only one that has it, and just for that.
Deleting(t, o) ==
  todo[t] = <<Step("delete", o)>> =>
    o \notin ToSet(list) /\ HeldIn(slot[t], o) = 0 /\ Others(t, o)

Freed(o) == o \notin alive => o \notin ToSet(list) /\ \A t \in Threads : ~Has(t, o)

Allocated(o) ==
  o \in alive =>
    \/ ref_count[o] >= 1
    \/ \E t \in Threads : todo[t] \in {<<Step("add", o)>>, <<Step("delete", o)>>}

\* The objects that were never popped while another thread had them.
Clean == Objects \ raced

IInv ==
  /\ RefTypeOK /\ fault \subseteq raced
  /\ Distinct(list)
  /\ \A t \in Threads : Shaped(todo[t])
  /\ \A t \in Threads, o \in Clean : Covered(t, o) /\ Popping(t, o) /\ Deleting(t, o)
  /\ \A o \in Clean : CountOf(o) /\ Freed(o) /\ Allocated(o)

-----------------------------------------------------------------------------
(* What any step of one thread keeps. *)

LEMMA OwnsType ==
  ASSUME NEW f \in [Slots -> Pointers], NEW s \in Seq(Steps), NEW o
  PROVE  /\ OwnsOf(f, s, o) \in Int /\ HeldIn(f, o) \in Nat
         /\ Times(s, Rel, o) \in Nat /\ Times(s, {"add"}, o) \in Nat
  BY HeldProperties, TimesProperties DEF OwnsOf

LEMMA OwnsTyped ==
  ASSUME RefTypeOK, NEW t \in Threads, NEW o
  PROVE  /\ slot[t] \in [Slots -> Pointers] /\ todo[t] \in Seq(Steps)
         /\ OwnsOf(slot[t], todo[t], o) \in Int
         /\ HeldIn(slot[t], o) \in Nat
<1>1. slot[t] \in [Slots -> Pointers] /\ todo[t] \in Seq(Steps)
  BY DEF RefTypeOK, Steps
<1> QED BY <1>1, OwnsType

\* The rest of the system, seen from thread t: it moves pointers, t alone
\* takes objects up, from its own variables, the locked list or the heap.
ByThread(t) ==
  /\ \A u \in Threads \ {t} : slot'[u] = slot[u] /\ todo'[u] = todo[u]
  /\ (list' = list /\ (user' = user \/ user = t)) \/ (user = Null /\ user' = t)
  /\ \A o \in Objects : Has(t, o)' => Has(t, o) \/ (o \in ToSet(list) /\ user = Null)
                                         \/ o \in alive' \ alive
  /\ \A o \in Objects : o \in ToSet(list') => o \in ToSet(list) \/ Has(t, o)

LEMMA CountStep ==
  ASSUME RefTypeOK, RefTypeOK', NEW t \in Threads, ByThread(t), NEW o \in Objects, CountOf(o),
         OwnsOf(slot'[t], todo'[t], o) >= 0,
         ref_count'[o] - On(list', o) - OwnsOf(slot'[t], todo'[t], o)
           = ref_count[o] - On(list, o) - OwnsOf(slot[t], todo[t], o)
  PROVE  CountOf(o)'
<1> DEFINE g == [u \in Threads |-> OwnsOf(slot[u], todo[u], o)]
           h == [u \in Threads |-> OwnsOf(slot'[u], todo'[u], o)]
<1>1. g \in [Threads -> Int]
  BY OwnsTyped
<1>2. \A u \in Threads : slot'[u] \in [Slots -> Pointers] /\ todo'[u] \in Seq(Steps)
  BY DEF RefTypeOK, Steps
<1>3. h \in [Threads -> Int]
  BY <1>2, OwnsType
<1>4. \A u \in Threads \ {t} : h[u] = g[u]
  BY DEF ByThread
<1>5. /\ \A u \in Threads : g[u] >= 0
      /\ ref_count[o] = Cardinality(Refs(g)) + On(list, o)
  BY DEF CountOf
<1>6. g[t] = OwnsOf(slot[t], todo[t], o) /\ h[t] = OwnsOf(slot'[t], todo'[t], o)
  OBVIOUS
<1>7. ref_count[o] \in Int /\ ref_count'[o] \in Int
  BY DEF RefTypeOK
<1>8. On(list, o) \in Nat /\ On(list', o) \in Nat
  BY DEF On
<1> HIDE DEF g, h
<1>9. /\ Cardinality(Refs(g)) \in Nat
      /\ Cardinality(Refs(h)) = Cardinality(Refs(g)) - g[t] + h[t]
  BY <1>1, <1>3, <1>4, <1>5, <1>6, RefsUpdate
<1>10. g[t] \in Int /\ h[t] \in Int
  BY <1>1, <1>3
<1>11. ref_count'[o] = Cardinality(Refs(h)) + On(list', o)
  BY <1>5, <1>6, <1>7, <1>8, <1>9, <1>10
<1>12. \A u \in Threads : h[u] >= 0
  BY <1>4, <1>5, <1>6
<1> QED BY <1>11, <1>12 DEF CountOf, h

\* What the other threads rely on stays.
LEMMA OthersKept ==
  ASSUME IInv, NEW t \in Threads, ByThread(t), NEW u \in Threads \ {t}, NEW o \in Clean
  PROVE  Covered(u, o)' /\ Popping(u, o)' /\ Deleting(u, o)'
<1>1. slot'[u] = slot[u] /\ todo'[u] = todo[u]
  BY DEF ByThread
<1>2. Covered(u, o) /\ Popping(u, o) /\ Deleting(u, o) /\ Freed(o)
  BY DEF IInv, Clean
<1>3. u # Null
  BY RefPtrAssumption
<1>4. user = u => list' = list /\ user' = u
  BY <1>3 DEF ByThread
<1>5. ASSUME Others(u, o), Has(u, o), o \notin ToSet(list) \/ user = u PROVE Others(u, o)'
  <2>1. ~Has(t, o) /\ o \in alive
    BY <1>2, <1>5 DEF Others, Freed
  <2>2. ~Has(t, o)'
    BY <1>3, <1>5, <2>1 DEF ByThread, Clean
  <2>3. \A w \in Threads \ {t} : Has(w, o)' <=> Has(w, o)
    BY DEF ByThread, Has
  <2> QED BY <1>5, <2>2, <2>3 DEF Others
<1>6. ASSUME Alone(u, o), Has(u, o) PROVE Alone(u, o)'
  BY <1>4, <1>5, <1>6 DEF Alone
<1>7. todo[u] \in Seq(Steps)
  BY OwnsTyped DEF IInv
<1>8. Covered(u, o)'
  <2> SUFFICES ASSUME Times(todo[u], {"add"}, o) >= 1
               PROVE  \/ OwnsOf(slot[u], todo[u], o) >= 1
                      \/ user' = u /\ o \in ToSet(list')
                      \/ Alone(u, o)'
    BY <1>1 DEF Covered
  <2>1. Names(todo[u], o)
    BY <1>7, TimesProperties DEF Names
  <2>2. Has(u, o)
    BY <2>1 DEF Has
  <2> QED BY <1>2, <1>4, <1>6, <2>2 DEF Covered
<1>9. Popping(u, o)'
  <2> SUFFICES ASSUME todo[u] = <<Step("release", o), Step("add", o)>>
               PROVE  Alone(u, o)' /\ HeldIn(slot[u], o) >= 1
    BY <1>1 DEF Popping
  <2> QED BY <1>2, <1>6 DEF Popping, Has
<1>10. Deleting(u, o)'
  <2> SUFFICES ASSUME todo[u] = <<Step("delete", o)>>
               PROVE  o \notin ToSet(list') /\ HeldIn(slot[u], o) = 0 /\ Others(u, o)'
    BY <1>1 DEF Deleting
  <2>1. o \notin ToSet(list) /\ HeldIn(slot[u], o) = 0 /\ Others(u, o)
    BY <1>2 DEF Deleting
  <2>2. Names(todo[u], o)
    BY CountsOne DEF Counts, Clean
  <2>3. Others(u, o)'
    BY <1>5, <2>1, <2>2 DEF Has
  <2>4. o \notin ToSet(list')
    BY <2>1 DEF ByThread, Others, Clean
  <2> QED BY <2>1, <2>3, <2>4
<1> QED BY <1>8, <1>9, <1>10

\* No step brings back what is freed.
LEMMA FreedKept ==
  ASSUME IInv, NEW t \in Threads, ByThread(t), NEW o \in Clean,
         o \in alive => o \in alive'
  PROVE  Freed(o)'
<1> SUFFICES ASSUME o \notin alive'
             PROVE  o \notin ToSet(list') /\ \A u \in Threads : ~Has(u, o)'
  BY DEF Freed
<1>1. o \notin ToSet(list) /\ \A u \in Threads : ~Has(u, o)
  BY DEF IInv, Freed
<1>2. \A u \in Threads \ {t} : Has(u, o)' <=> Has(u, o)
  BY DEF ByThread, Has
<1>3. ~Has(t, o)' /\ o \notin ToSet(list')
  BY <1>1 DEF ByThread, Clean
<1> QED BY <1>1, <1>2, <1>3

-----------------------------------------------------------------------------
(* An operation begins. *)

\* What variables f and steps s of thread t must be for the invariant to hold
\* when an operation begins with them.
Fair(t, f, s) ==
  /\ f \in [Slots -> Pointers] /\ s \in Seq(Steps) /\ Shaped(s)
  /\ \A o \in Objects :
       /\ HeldIn(f, o) >= 1 \/ Names(s, o) =>
            HeldIn(slot[t], o) >= 1 \/ (o \in ToSet(list) /\ user = Null)
       /\ OwnsOf(f, s, o) >= 0
       /\ OwnsOf(f, s, o) + On(list', o) = HeldIn(slot[t], o) + On(list, o)
       /\ Times(s, {"add"}, o) >= 1 =>
            OwnsOf(f, s, o) >= 1 \/ (user' = t /\ o \in ToSet(list'))
       /\ o \notin raced' /\ s = <<Step("release", o), Step("add", o)>> =>
            user' = t /\ o \notin ToSet(list') /\ Others(t, o) /\ HeldIn(f, o) >= 1
       /\ s # <<Step("delete", o)>>

\* What the operation must do to the list.
Placed(t) ==
  /\ list' \in Seq(Objects) /\ Distinct(list')
  /\ user' \in Threads \cup {Null}
  /\ (list' = list /\ user' = user) \/ (user = Null /\ user' = t)
  /\ \A o \in Objects : o \in ToSet(list') =>
                          o \in ToSet(list) \/ HeldIn(slot[t], o) >= 1

LEMMA BeginKeeps ==
  ASSUME IInv, NEW t \in Threads, NEW f, NEW s, Begin(t, f, s), Fair(t, f, s), Placed(t),
         raced \subseteq raced', raced' \subseteq Objects
  PROVE  IInv'
<1>1. /\ todo[t] = <<>> /\ slot'[t] = f /\ todo'[t] = s
      /\ \A u \in Threads \ {t} : slot'[u] = slot[u] /\ todo'[u] = todo[u]
      /\ ref_count' = ref_count /\ alive' = alive /\ fault' = fault
  BY DEF Begin, IInv, RefTypeOK
<1>2. RefTypeOK'
  <2>1. slot' \in [Threads -> [Slots -> Pointers]]
    BY DEF Begin, IInv, RefTypeOK, Fair
  <2>2. todo' \in [Threads -> Seq([op : Ops, obj : Objects])]
    BY DEF Begin, IInv, RefTypeOK, Fair, Steps
  <2> QED BY <1>1, <2>1, <2>2 DEF IInv, RefTypeOK, Placed
<1>3. ByThread(t)
  <2>1. \A o \in Objects : Has(t, o)' => Has(t, o) \/ (o \in ToSet(list) /\ user = Null)
    BY <1>1 DEF Has, Fair
  <2>2. \A o \in Objects : o \in ToSet(list') => o \in ToSet(list) \/ Has(t, o)
    BY DEF Has, Placed
  <2> QED BY <1>1, <2>1, <2>2 DEF ByThread, Placed
<1>4. \A u \in Threads : Shaped(todo[u])'
  BY <1>1 DEF IInv, Fair
<1>5. ASSUME NEW o \in Clean' PROVE Covered(t, o)' /\ Popping(t, o)' /\ Deleting(t, o)'
  <2>1. Others(t, o) => Others(t, o)'
    BY <1>1 DEF Others, Has
  <2>2. Covered(t, o)'
    BY <1>1 DEF Covered, Fair, Clean
  <2>3. Popping(t, o)'
    BY <1>1, <2>1 DEF Popping, Alone, Fair, Clean
  <2>4. Deleting(t, o)'
    BY <1>1 DEF Deleting, Fair, Clean
  <2> QED BY <2>2, <2>3, <2>4
<1>6. ASSUME NEW u \in Threads, NEW o \in Clean'
      PROVE  Covered(u, o)' /\ Popping(u, o)' /\ Deleting(u, o)'
  <2>1. CASE u = t
    BY <1>5, <2>1
  <2>2. CASE u # t
    BY <1>3, <2>2, OthersKept DEF Clean
  <2> QED BY <2>1, <2>2
<1>7. ASSUME NEW o \in Clean' PROVE CountOf(o)' /\ Freed(o)' /\ Allocated(o)'
  <2>1. OwnsOf(slot[t], <<>>, o) = HeldIn(slot[t], o) /\ HeldIn(slot[t], o) \in Nat
    <3>1. HeldIn(slot[t], o) \in Nat
      BY OwnsTyped DEF IInv
    <3>2. Times(<<>>, Rel, o) = 0 /\ Times(<<>>, {"add"}, o) = 0
      BY TimesEmpty
    <3> QED BY <3>1, <3>2 DEF OwnsOf
  <2>2. OwnsOf(f, s, o) >= 0 /\ OwnsOf(f, s, o) + On(list', o) = HeldIn(slot[t], o) + On(list, o)
    BY DEF Fair, Clean
  <2>3. OwnsOf(f, s, o) \in Int
    BY OwnsType DEF Fair
  <2>4. On(list, o) \in Nat /\ On(list', o) \in Nat /\ ref_count[o] \in Int
    BY DEF On, IInv, RefTypeOK, Clean
  <2>5. ref_count'[o] - On(list', o) - OwnsOf(slot'[t], todo'[t], o)
           = ref_count[o] - On(list, o) - OwnsOf(slot[t], todo[t], o)
    BY <1>1, <2>1, <2>2, <2>3, <2>4
  <2>6. CountOf(o)'
    BY <1>1, <1>2, <1>3, <2>2, <2>5, CountStep DEF IInv, Clean
  <2>7. Freed(o)'
    BY <1>1, <1>3, FreedKept DEF Clean
  <2>8. Allocated(o)'
    <3>1. Allocated(o) /\ todo[t] \notin {<<Step("add", o)>>, <<Step("delete", o)>>}
      BY <1>1 DEF IInv, Clean
    <3> QED BY <1>1, <3>1 DEF Allocated
  <2> QED BY <2>6, <2>7, <2>8
<1>8. fault' \subseteq raced'
  BY <1>1 DEF IInv
<1> QED BY <1>1, <1>2, <1>4, <1>6, <1>7, <1>8 DEF IInv, Placed

\* A new object, with a count of one and one variable that holds it.
LEMMA MakeKeeps ==
  ASSUME IInv, NEW t \in Threads, NEW v \in Slots, NEW x \in Objects, MakeRefPtr(t, v, x)
  PROVE  IInv'
<1> DEFINE f == [slot[t] EXCEPT ![v] = x]
<1>1. /\ todo[t] = <<>> /\ slot[t][v] = Null /\ x \notin alive
      /\ slot'[t] = f /\ todo' = todo /\ list' = list /\ user' = user /\ fault' = fault /\ raced' = raced
      /\ \A u \in Threads \ {t} : slot'[u] = slot[u]
      /\ alive' = alive \cup {x}
      /\ ref_count'[x] = 1 /\ \A o \in Objects \ {x} : ref_count'[o] = ref_count[o]
  BY DEF MakeRefPtr, IInv, RefTypeOK
<1>2. RefTypeOK'
  <2>1. ref_count' \in [Objects -> Int]
    BY DEF MakeRefPtr, IInv, RefTypeOK
  <2>2. slot' \in [Threads -> [Slots -> Pointers]]
    BY DEF MakeRefPtr, IInv, RefTypeOK, Pointers
  <2> QED BY <1>1, <2>1, <2>2 DEF IInv, RefTypeOK
<1>3. slot[t] \in [Slots -> Pointers] /\ x \in Pointers
  BY OwnsTyped DEF IInv, Pointers
<1>4. ASSUME NEW o \in Objects
      PROVE  HeldIn(f, o) = HeldIn(slot[t], o) + One(x, o) /\ HeldIn(slot[t], o) \in Nat
  <2>1. slot[t][v] # o
    BY <1>1, RefPtrAssumption
  <2>2. HeldIn(f, o) = HeldIn(slot[t], o) - One(slot[t][v], o) + One(x, o)
    BY <1>3, HeldUpdate
  <2>3. HeldIn(slot[t], o) \in Nat
    BY <1>3, HeldProperties
  <2> QED BY <2>1, <2>2, <2>3 DEF One
<1> HIDE DEF f
<1>5. ByThread(t)
  <2>1. ASSUME NEW o \in Objects, Has(t, o)', o # x PROVE Has(t, o)
    BY <1>1, <1>4, <2>1 DEF Has, One
  <2> QED BY <1>1, <2>1 DEF ByThread
<1>6. \A o \in Objects : Others(t, o)' <=> Others(t, o)
  BY <1>1 DEF Others, Has
<1>7. ASSUME NEW u \in Threads, NEW o \in Clean
      PROVE  Covered(u, o)' /\ Popping(u, o)' /\ Deleting(u, o)'
  <2>1. CASE u = t
    <3>1. todo'[u] = <<>> /\ Times(<<>>, {"add"}, o) = 0
      BY <1>1, <2>1, TimesEmpty DEF Clean
    <3> QED BY <3>1 DEF Covered, Popping, Deleting
  <2>2. CASE u # t
    BY <1>5, <2>2, OthersKept
  <2> QED BY <2>1, <2>2
<1>8. ASSUME NEW o \in Clean PROVE CountOf(o)' /\ Freed(o)' /\ Allocated(o)'
  <2>1. /\ OwnsOf(slot[t], todo[t], o) = HeldIn(slot[t], o) /\ HeldIn(slot[t], o) \in Nat
        /\ OwnsOf(slot'[t], todo'[t], o) = HeldIn(slot[t], o) + One(x, o)
    BY <1>1, <1>4, TimesEmpty DEF OwnsOf, One, Clean
  <2>2. ref_count'[o] = ref_count[o] + One(x, o)
    <3>1. CASE o # x
      BY <1>1, <3>1 DEF One, IInv, RefTypeOK, Clean
    <3>2. CASE o = x
      <4> DEFINE g == [u \in Threads |-> OwnsOf(slot[u], todo[u], o)]
      <4>1. g \in [Threads -> Int]
        BY OwnsTyped DEF IInv
      <4>2. /\ o \notin ToSet(list) /\ \A u \in Threads : ~Has(u, o)
            /\ ref_count[o] = Cardinality(Refs(g)) + On(list, o)
        BY <1>1, <3>2 DEF IInv, Freed, CountOf
      <4>3. ASSUME NEW u \in Threads PROVE ~(g[u] >= 1)
        <5>1. HeldIn(slot[u], o) = 0 /\ ~Names(todo[u], o)
          <6>1. HeldIn(slot[u], o) \in Nat
            BY OwnsTyped DEF IInv
          <6>2. ~Has(u, o)
            BY <4>2
          <6> QED BY <6>1, <6>2 DEF Has
        <5>2. Times(todo[u], Rel, o) = 0 /\ Times(todo[u], {"add"}, o) = 0
          <6>1. todo[u] \in Seq(Steps)
            BY OwnsTyped DEF IInv
          <6> QED BY <5>1, <6>1, TimesProperties DEF Names
        <5> QED BY <5>1, <5>2 DEF OwnsOf
      <4> HIDE DEF g
      <4>4. Cardinality(Refs(g)) = 0
        BY <4>1, <4>3, RefsSome
      <4>5. ref_count[o] = 0
        BY <4>2, <4>4 DEF On
      <4> QED BY <1>1, <3>2, <4>5 DEF One
    <3> QED BY <3>1, <3>2
  <2>3. o \in Objects /\ ref_count[o] \in Int /\ On(list, o) \in Nat /\ One(x, o) \in Nat
    BY DEF IInv, RefTypeOK, On, One, Clean
  <2>4. /\ OwnsOf(slot'[t], todo'[t], o) >= 0
        /\ ref_count'[o] - On(list', o) - OwnsOf(slot'[t], todo'[t], o)
             = ref_count[o] - On(list, o) - OwnsOf(slot[t], todo[t], o)
    BY <1>1, <2>1, <2>2, <2>3
  <2>5. CountOf(o)'
    BY <1>2, <1>5, <2>4, CountStep DEF IInv, Clean
  <2>6. Freed(o)'
    BY <1>1, <1>5, FreedKept
  <2>7. Allocated(o)'
    <3>1. CASE o = x
      BY <1>1, <3>1 DEF Allocated
    <3>2. CASE o # x
      <4>1. o \in Objects /\ Allocated(o)
        BY DEF IInv, Clean
      <4> QED BY <1>1, <3>2, <4>1 DEF Allocated
    <3> QED BY <3>1, <3>2
  <2> QED BY <2>5, <2>6, <2>7
<1> QED BY <1>1, <1>2, <1>7, <1>8 DEF IInv, Clean

-----------------------------------------------------------------------------
(* A count is changed. *)

LEMMA CountBound ==
  ASSUME IInv, NEW t \in Threads, NEW o \in Clean
  PROVE  /\ ref_count[o] \in Nat /\ OwnsOf(slot[t], todo[t], o) \in Nat
         /\ OwnsOf(slot[t], todo[t], o) + On(list, o) <= ref_count[o]
         /\ \A u \in Threads \ {t} : OwnsOf(slot[u], todo[u], o) >= 1 =>
              OwnsOf(slot[t], todo[t], o) + 1 <= ref_count[o]
<1> DEFINE g == [u \in Threads |-> OwnsOf(slot[u], todo[u], o)]
<1>1. g \in [Threads -> Int]
  BY OwnsTyped DEF IInv
<1>2. /\ \A u \in Threads : g[u] >= 0
      /\ ref_count[o] = Cardinality(Refs(g)) + On(list, o)
  BY DEF CountOf, IInv
<1>3. \A u \in Threads : g[u] = OwnsOf(slot[u], todo[u], o)
  OBVIOUS
<1>4. On(list, o) \in Nat
  BY DEF On
<1> HIDE DEF g
<1>5. /\ Cardinality(Refs(g)) \in Nat /\ g[t] <= Cardinality(Refs(g))
      /\ \A u \in Threads \ {t} : g[u] >= 1 => g[t] + 1 <= Cardinality(Refs(g))
  BY <1>1, <1>2, RefsBound
<1>6. g[t] \in Nat
  BY <1>1, <1>2
<1> QED BY <1>2, <1>3, <1>4, <1>5, <1>6

LEMMA ReachAlive ==
  ASSUME IInv, NEW t \in Threads, NEW op, NEW x \in Clean, Reach(t, op, x)
  PROVE  x \in alive
<1>1. todo[t] \in Seq(Steps) /\ todo[t] # <<>> /\ Head(todo[t]).obj = x
  BY OwnsTyped DEF IInv, Reach
<1>2. 1 \in 1..Len(todo[t]) /\ todo[t][1] = Head(todo[t])
  BY <1>1, HeadTailProperties
<1>3. Has(t, x)
  BY <1>1, <1>2 DEF Has, Names
<1> QED BY <1>3 DEF IInv, Freed

\* Thread t did its first step, for object x, and r are the steps left.
LEMMA ContinueKeeps ==
  ASSUME IInv, NEW t \in Threads, NEW op, NEW x \in Objects, Reach(t, op, x),
         NEW r \in Seq(Steps), Shaped(r), Continue(t, r),
         NEW d \in Int, ref_count' \in [Objects -> Int], ref_count'[x] = ref_count[x] + d,
         \A o \in Objects \ {x} : ref_count'[o] = ref_count[o],
         alive' \subseteq alive, fault' \subseteq raced,
         \A o \in Objects : Names(r, o) => Names(todo[t], o),
         \A o \in Clean :
           /\ OwnsOf(slot[t], r, o) >= 0
           /\ OwnsOf(slot[t], r, o) = OwnsOf(slot[t], todo[t], o) + d * One(x, o),
         \A o \in Clean \cap (alive \ alive') :
           /\ o \notin ToSet(list) /\ HeldIn(slot[t], o) = 0 /\ ~Names(r, o)
           /\ Others(t, o),
         \A o \in Clean : Covered(t, o)' /\ Popping(t, o)' /\ Deleting(t, o)',
         x \in Clean => Allocated(x)'
  PROVE  IInv'
<1>1. /\ todo'[t] = r /\ slot' = slot /\ list' = list /\ raced' = raced
      /\ \A u \in Threads \ {t} : todo'[u] = todo[u]
      /\ user' = user \/ user = t
  BY DEF Continue, IInv, RefTypeOK
<1>2. RefTypeOK'
  <2>1. todo' \in [Threads -> Seq([op : Ops, obj : Objects])]
    BY DEF Continue, IInv, RefTypeOK, Steps
  <2>2. user' \in Threads \cup {Null}
    BY DEF Continue, IInv, RefTypeOK
  <2> QED BY <1>1, <2>1, <2>2 DEF IInv, RefTypeOK
<1>3. ByThread(t)
  <2>1. \A o \in Objects : Has(t, o)' => Has(t, o)
    BY <1>1 DEF Has
  <2> QED BY <1>1, <2>1 DEF ByThread
<1>4. \A u \in Threads : Shaped(todo[u])'
  BY <1>1 DEF IInv
<1>5. ASSUME NEW u \in Threads, NEW o \in Clean
      PROVE  Covered(u, o)' /\ Popping(u, o)' /\ Deleting(u, o)'
  <2>1. CASE u = t
    BY <2>1
  <2>2. CASE u # t
    BY <1>3, <2>2, OthersKept
  <2> QED BY <2>1, <2>2
<1>6. ASSUME NEW o \in Clean PROVE CountOf(o)' /\ Freed(o)' /\ Allocated(o)'
  <2>1. ref_count'[o] = ref_count[o] + d * One(x, o)
    <3>1. o \in Objects /\ ref_count[o] \in Int
      BY DEF IInv, RefTypeOK, Clean
    <3>2. CASE o = x
      BY <3>1, <3>2 DEF One
    <3>3. CASE o # x
      BY <3>1, <3>3 DEF One
    <3> QED BY <3>2, <3>3
  <2>2. /\ OwnsOf(slot[t], r, o) \in Int /\ OwnsOf(slot[t], todo[t], o) \in Int
        /\ d * One(x, o) \in Int /\ On(list, o) \in Nat /\ ref_count[o] \in Int
    <3>1. slot[t] \in [Slots -> Pointers] /\ OwnsOf(slot[t], todo[t], o) \in Int
      BY OwnsTyped DEF IInv
    <3>2. OwnsOf(slot[t], r, o) \in Int
      BY <3>1, OwnsType
    <3>3. d * One(x, o) \in Int
      BY DEF One
    <3> QED BY <3>1, <3>2, <3>3 DEF On, IInv, RefTypeOK, Clean
  <2>3. /\ OwnsOf(slot'[t], todo'[t], o) = OwnsOf(slot[t], todo[t], o) + d * One(x, o)
        /\ OwnsOf(slot'[t], todo'[t], o) >= 0
    BY <1>1
  <2> DEFINE e == d * One(x, o)
  <2> HIDE DEF e
  <2>4. ref_count'[o] - On(list', o) - OwnsOf(slot'[t], todo'[t], o)
           = ref_count[o] - On(list, o) - OwnsOf(slot[t], todo[t], o)
    BY <1>1, <2>1, <2>2, <2>3 DEF e
  <2>5. CountOf(o)'
    BY <1>2, <1>3, <2>3, <2>4, CountStep DEF IInv, Clean
  <2>6. Freed(o)'
    <3>1. CASE o \in alive \ alive'
      BY <1>1, <3>1 DEF Freed, Has, Others
    <3>2. CASE o \notin alive \ alive'
      BY <1>3, <3>2, FreedKept
    <3> QED BY <3>1, <3>2
  <2>7. Allocated(o)'
    <3>1. CASE o = x
      BY <3>1
    <3>2. CASE o # x
      <4>1. Head(todo[t]).obj = x
        BY DEF Reach
      <4>2. \A op2 \in Ops : Head(<<Step(op2, o)>>).obj = o
        BY DEF Step
      <4>3. todo[t] \notin {<<Step("add", o)>>, <<Step("delete", o)>>}
        BY <3>2, <4>1, <4>2 DEF Ops
      <4>4. Allocated(o) /\ ref_count'[o] = ref_count[o]
        BY <3>2 DEF IInv, Clean
      <4> QED BY <1>1, <4>3, <4>4 DEF Allocated
    <3> QED BY <3>1, <3>2
  <2> QED BY <2>5, <2>6, <2>7
<1> QED BY <1>1, <1>2, <1>4, <1>5, <1>6 DEF IInv, Clean

\* What is left to do when an operation comes to a step.
LEMMA Reached ==
  ASSUME NEW s, Shaped(s), s # <<>>, NEW op, NEW x \in Objects, Head(s) = Step(op, x)
  PROVE  /\ op = "add" =>
              \/ s = <<Step("add", x)>>
              \/ s = <<Step("add", x), Step("add", x), Step("destroy", x)>>
              \/ s = <<Step("add", x), Step("release", x), Step("destroy", x)>>
              \/ \E y \in Objects : s = <<Step("add", x), Step("destroy", y)>>
         /\ op = "release" =>
              \/ s = <<Step("release", x), Step("add", x)>>
              \/ s = <<Step("release", x), Step("destroy", x)>>
         /\ op = "destroy" => s = <<Step("destroy", x)>>
         /\ op = "delete" => s = <<Step("delete", x)>>
<1>1. \A a, b : Head(<<a>>) = a /\ Head(<<a, b>>) = a
  OBVIOUS
<1>2. \A a, b, c : Head(<<a, b, c>>) = a
  OBVIOUS
<1>3. \A op2, y : Step(op2, y) = Step(op, x) => op2 = op /\ y = x
  BY DEF Step
<1>4. PICK y \in Objects :
        \/ s = <<Step("add", y)>>
        \/ s = <<Step("destroy", y)>>
        \/ s = <<Step("delete", y)>>
        \/ s = <<Step("release", y), Step("add", y)>>
        \/ s = <<Step("release", y), Step("destroy", y)>>
        \/ s = <<Step("add", y), Step("add", y), Step("destroy", y)>>
        \/ s = <<Step("add", y), Step("release", y), Step("destroy", y)>>
        \/ \E z \in Objects : s = <<Step("add", y), Step("destroy", z)>>
  BY DEF Shaped
<1>5. CASE s = <<Step("add", y)>>
  <2>1. Head(s) = Step("add", y)
    BY <1>1, <1>5
  <2>2. op = "add" /\ y = x
    BY <1>3, <2>1
  <2> QED BY <1>5, <2>2
<1>6. CASE s = <<Step("destroy", y)>>
  <2>1. Head(s) = Step("destroy", y)
    BY <1>1, <1>6
  <2>2. op = "destroy" /\ y = x
    BY <1>3, <2>1
  <2> QED BY <1>6, <2>2
<1>7. CASE s = <<Step("delete", y)>>
  <2>1. Head(s) = Step("delete", y)
    BY <1>1, <1>7
  <2>2. op = "delete" /\ y = x
    BY <1>3, <2>1
  <2> QED BY <1>7, <2>2
<1>8. CASE \/ s = <<Step("release", y), Step("add", y)>>
           \/ s = <<Step("release", y), Step("destroy", y)>>
  <2>1. Head(s) = Step("release", y)
    BY <1>1, <1>8
  <2>2. op = "release" /\ y = x
    BY <1>3, <2>1
  <2> QED BY <1>8, <2>2
<1>9. CASE \/ s = <<Step("add", y), Step("add", y), Step("destroy", y)>>
           \/ s = <<Step("add", y), Step("release", y), Step("destroy", y)>>
           \/ \E z \in Objects : s = <<Step("add", y), Step("destroy", z)>>
  <2>1. Head(s) = Step("add", y)
    BY <1>1, <1>2, <1>9
  <2>2. op = "add" /\ y = x
    BY <1>3, <2>1
  <2> QED BY <1>9, <2>2
<1> QED BY <1>4, <1>5, <1>6, <1>7, <1>8, <1>9

\* What a step reads and changes besides the steps left.
LEMMA CountEffect ==
  ASSUME IInv, NEW t \in Threads, NEW op, NEW x \in Objects, Reach(t, op, x),
         NEW d \in Int, Count(x, d)
  PROVE  /\ ref_count' \in [Objects -> Int] /\ ref_count'[x] = ref_count[x] + d
         /\ \A o \in Objects \ {x} : ref_count'[o] = ref_count[o]
         /\ fault' \subseteq raced
<1>1. ref_count \in [Objects -> Int] /\ fault \subseteq raced
  BY DEF IInv, RefTypeOK
<1>2. ref_count' = [ref_count EXCEPT ![x] = @ + d] /\ fault' = fault \cup ({x} \ alive)
  BY DEF Count
<1>3. x \in alive \/ x \in raced
  BY ReachAlive DEF Clean
<1>4. fault' \subseteq raced
  BY <1>1, <1>2, <1>3
<1>5. ref_count' \in [Objects -> Int] /\ ref_count'[x] = ref_count[x] + d
  BY <1>1, <1>2
<1>6. \A o \in Objects \ {x} : ref_count'[o] = ref_count[o]
  BY <1>1, <1>2
<1> QED BY <1>4, <1>5, <1>6

LEMMA AddRefKeeps ==
  ASSUME IInv, NEW t \in Threads, NEW x \in Objects, AddRef(t, x)
  PROVE  IInv'
<1> DEFINE s == todo[t]
           r == Tail(s)
<1>1. /\ Reach(t, "add", x) /\ Count(x, 1) /\ Continue(t, r) /\ alive' = alive
      /\ s # <<>> /\ Head(s) = Step("add", x) /\ Shaped(s) /\ s \in Seq(Steps)
  BY OwnsTyped DEF AddRef, Reach, Step, IInv
<1>2. /\ todo'[t] = r /\ slot' = slot
  BY <1>1 DEF Continue, IInv, RefTypeOK
<1>3. x \in Clean => ref_count[x] \in Nat
  BY CountBound
<1>4. /\ ref_count' \in [Objects -> Int] /\ ref_count'[x] = ref_count[x] + 1
      /\ \A o \in Objects \ {x} : ref_count'[o] = ref_count[o]
      /\ fault' \subseteq raced
  <2>1. 1 \in Int /\ Reach(t, "add", x) /\ Count(x, 1)
    BY <1>1
  <2> QED BY <2>1, CountEffect, Zenon
<1> HIDE DEF s
<1>5. /\ r \in Seq(Steps) /\ Shaped(r)
      /\ \A o \in Objects :
           /\ Names(r, o) => Names(s, o)
           /\ Times(s, Rel, o) = Times(r, Rel, o)
           /\ Times(s, {"add"}, o) = Times(r, {"add"}, o) + One(x, o)
           /\ Times(r, {"add"}, o) >= 1 => o = x
           /\ r # <<Step("release", o), Step("add", o)>> /\ r # <<Step("delete", o)>>
  <2>1. CASE s = <<Step("add", x)>>
    <3>1. r = <<>>
      BY <2>1
    <3>2. Shaped(r)
      BY <3>1 DEF Shaped
    <3>3. \A o : r # <<Step("release", o), Step("add", o)>> /\ r # <<Step("delete", o)>>
      BY <3>1
    <3> HIDE DEF r
    <3>5. ASSUME NEW o \in Objects
          PROVE  /\ Names(r, o) => Names(s, o)
                 /\ Times(s, Rel, o) = Times(r, Rel, o)
                 /\ Times(s, {"add"}, o) = Times(r, {"add"}, o) + One(x, o)
                 /\ Times(r, {"add"}, o) >= 1 => o = x
      <4>1. Counts(s, o, One(x, o), 0, x = o)
        BY <2>1, CountsOne
      <4>2. Counts(r, o, 0, 0, FALSE)
        BY <3>1, CountsNone
      <4> QED BY <4>1, <4>2 DEF Counts, One
    <3>6. r \in Seq(Steps)
      BY <1>1, HeadTailProperties DEF r
    <3> QED BY <3>2, <3>3, <3>5, <3>6
  <2>2. CASE s = <<Step("add", x), Step("add", x), Step("destroy", x)>>
    <3>1. r = <<Step("add", x), Step("destroy", x)>>
      BY <2>2
    <3>2. Shaped(r)
      BY <3>1 DEF Shaped
    <3>3. \A o : r # <<Step("release", o), Step("add", o)>> /\ r # <<Step("delete", o)>>
      BY <3>1 DEF Step
    <3> HIDE DEF r
    <3>5. ASSUME NEW o \in Objects
          PROVE  /\ Names(r, o) => Names(s, o)
                 /\ Times(s, Rel, o) = Times(r, Rel, o)
                 /\ Times(s, {"add"}, o) = Times(r, {"add"}, o) + One(x, o)
                 /\ Times(r, {"add"}, o) >= 1 => o = x
      <4>1. Counts(s, o, 2 * One(x, o), One(x, o), x = o)
        BY <2>2, CountsThree
      <4>2. Counts(r, o, One(x, o), One(x, o), x = o \/ x = o)
        BY <3>1, CountsTwo
      <4> QED BY <4>1, <4>2 DEF Counts, One
    <3>6. r \in Seq(Steps)
      BY <1>1, HeadTailProperties DEF r
    <3> QED BY <3>2, <3>3, <3>5, <3>6
  <2>3. CASE s = <<Step("add", x), Step("release", x), Step("destroy", x)>>
    <3>1. r = <<Step("release", x), Step("destroy", x)>>
      BY <2>3
    <3>2. Shaped(r)
      BY <3>1 DEF Shaped
    <3>3. \A o : r # <<Step("release", o), Step("add", o)>> /\ r # <<Step("delete", o)>>
      BY <3>1 DEF Step
    <3> HIDE DEF r
    <3>5. ASSUME NEW o \in Objects
          PROVE  /\ Names(r, o) => Names(s, o)
                 /\ Times(s, Rel, o) = Times(r, Rel, o)
                 /\ Times(s, {"add"}, o) = Times(r, {"add"}, o) + One(x, o)
                 /\ Times(r, {"add"}, o) >= 1 => o = x
      <4>1. Counts(s, o, One(x, o), 2 * One(x, o), x = o)
        BY <2>3, CountsThree
      <4>2. Counts(r, o, 0, 2 * One(x, o), x = o)
        BY <3>1, CountsTwo
      <4> QED BY <4>1, <4>2 DEF Counts, One
    <3>6. r \in Seq(Steps)
      BY <1>1, HeadTailProperties DEF r
    <3> QED BY <3>2, <3>3, <3>5, <3>6
  <2>4. CASE \E y \in Objects : s = <<Step("add", x), Step("destroy", y)>>
    <3>1. PICK y \in Objects : s = <<Step("add", x), Step("destroy", y)>>
      BY <2>4
    <3>2. r = <<Step("destroy", y)>>
      BY <3>1
    <3>3. Shaped(r)
      BY <3>2 DEF Shaped
    <3>4. \A o : r # <<Step("release", o), Step("add", o)>> /\ r # <<Step("delete", o)>>
      BY <3>2 DEF Step
    <3> HIDE DEF r
    <3>5. ASSUME NEW o \in Objects
          PROVE  /\ Names(r, o) => Names(s, o)
                 /\ Times(s, Rel, o) = Times(r, Rel, o)
                 /\ Times(s, {"add"}, o) = Times(r, {"add"}, o) + One(x, o)
                 /\ Times(r, {"add"}, o) >= 1 => o = x
      <4>1. Counts(s, o, One(x, o), One(y, o), x = o \/ y = o)
        BY <3>1, CountsTwo
      <4>2. Counts(r, o, 0, One(y, o), y = o)
        BY <3>2, CountsOne
      <4> QED BY <4>1, <4>2 DEF Counts, One
    <3>6. r \in Seq(Steps)
      BY <1>1, HeadTailProperties DEF r
    <3> QED BY <3>3, <3>4, <3>5, <3>6
  <2> QED BY <1>1, <2>1, <2>2, <2>3, <2>4, Reached
<1> HIDE DEF r
<1>6. ASSUME NEW o \in Clean
      PROVE  /\ OwnsOf(slot[t], r, o) >= 0
             /\ OwnsOf(slot[t], r, o) = OwnsOf(slot[t], todo[t], o) + 1 * One(x, o)
             /\ OwnsOf(slot[t], todo[t], o) >= 0
  <2>1. /\ OwnsOf(slot[t], s, o) >= 0 /\ OwnsOf(slot[t], s, o) \in Int
        /\ slot[t] \in [Slots -> Pointers]
    BY OwnsTyped DEF IInv, CountOf, s
  <2>2. HeldIn(slot[t], o) \in Nat /\ Times(r, Rel, o) \in Nat /\ Times(r, {"add"}, o) \in Nat
    BY <1>5, <2>1, OwnsType
  <2>3. One(x, o) \in Nat
    BY DEF One
  <2>4. OwnsOf(slot[t], r, o) = OwnsOf(slot[t], s, o) + One(x, o)
    BY <1>5, <2>2, <2>3 DEF OwnsOf, Clean
  <2> QED BY <2>1, <2>3, <2>4 DEF s
<1>7. ASSUME NEW o \in Clean PROVE Covered(t, o)' /\ Popping(t, o)' /\ Deleting(t, o)'
  <2>1. Covered(t, o)'
    <3> SUFFICES ASSUME Times(r, {"add"}, o) >= 1 PROVE OwnsOf(slot[t], r, o) >= 1
      BY <1>2 DEF Covered
    <3>1. o = x
      BY <1>5 DEF Clean
    <3>2. OwnsOf(slot[t], todo[t], o) \in Int
      BY OwnsTyped DEF IInv
    <3> QED BY <1>6, <3>1, <3>2 DEF One
  <2> QED BY <1>2, <1>5, <2>1 DEF Popping, Deleting, Clean
<1>8. x \in Clean => Allocated(x)'
  BY <1>3, <1>4 DEF Allocated
<1>9. \A o \in Objects : Names(r, o) => Names(todo[t], o)
  BY <1>5 DEF s
<1>10. alive' \subseteq alive /\ alive \ alive' = {}
  BY <1>1
<1>11. Continue(t, r) /\ Reach(t, "add", x)
  BY <1>1 DEF r
<1>12. 1 \in Int
  OBVIOUS
<1> QED BY <1>4, <1>5, <1>6, <1>7, <1>8, <1>9, <1>10, <1>11, <1>12, ContinueKeeps

\* One thread is left with steps r where it had s: what it owns, by the counts.
LEMMA OwnsAfter ==
  ASSUME IInv, NEW t \in Threads, NEW o \in Objects,
         NEW a \in Nat, NEW b \in Nat, NEW named, Counts(todo[t], o, a, b, named),
         NEW r, NEW c \in Nat, NEW d \in Nat, NEW rnamed, Counts(r, o, c, d, rnamed)
  PROVE  /\ OwnsOf(slot[t], todo[t], o) = HeldIn(slot[t], o) + b - a
         /\ OwnsOf(slot[t], r, o) = HeldIn(slot[t], o) + d - c
         /\ HeldIn(slot[t], o) \in Nat
  BY OwnsTyped DEF IInv, Counts, OwnsOf

\* pop_front: the list's reference is given up, and the object may have none.
LEMMA ReleaseAdd ==
  ASSUME IInv, NEW t \in Threads, NEW x \in Objects, Release(t, x),
         todo[t] = <<Step("release", x), Step("add", x)>>
  PROVE  IInv'
<1> DEFINE r == <<Step("add", x)>>
<1>1. Tail(todo[t]) = r
  OBVIOUS
<1>2. Reach(t, "release", x) /\ Count(x, -1) /\ Continue(t, r) /\ alive' = alive
  BY <1>1 DEF Release
<1>3. todo'[t] = r /\ slot' = slot /\ list' = list /\ user' = user
  BY <1>2 DEF Continue, IInv, RefTypeOK
<1>4. \A u \in Threads \ {t} : todo'[u] = todo[u]
  BY <1>2 DEF Continue, IInv, RefTypeOK
<1>5. ASSUME NEW o \in Objects
      PROVE  /\ Counts(todo[t], o, One(x, o), One(x, o), x = o)
             /\ Counts(r, o, One(x, o), 0, x = o)
             /\ One(x, o) \in Nat
  <2>1. Counts(<<Step("release", x), Step("add", x)>>, o, One(x, o), One(x, o), x = o)
    BY CountsTwo
  <2>2. Counts(<<Step("add", x)>>, o, One(x, o), 0, x = o)
    BY CountsOne
  <2>3. One(x, o) \in Nat
    BY DEF One
  <2> QED BY <2>1, <2>2, <2>3
<1>6. Shaped(r) /\ \A o : r # <<Step("release", o), Step("add", o)>> /\ r # <<Step("delete", o)>>
  BY DEF Shaped, Step
<1> HIDE DEF r
<1>7. x \in Clean => Alone(t, x) /\ HeldIn(slot[t], x) >= 1
  BY DEF IInv, Popping
<1>8. ASSUME NEW o \in Objects
      PROVE  /\ OwnsOf(slot[t], todo[t], o) = HeldIn(slot[t], o)
             /\ OwnsOf(slot[t], r, o) = HeldIn(slot[t], o) - One(x, o)
             /\ HeldIn(slot[t], o) \in Nat
  <2>1. /\ OwnsOf(slot[t], todo[t], o) = HeldIn(slot[t], o) + One(x, o) - One(x, o)
        /\ OwnsOf(slot[t], r, o) = HeldIn(slot[t], o) + 0 - One(x, o)
        /\ HeldIn(slot[t], o) \in Nat
    BY <1>5, OwnsAfter
  <2> QED BY <1>5, <2>1
<1>9. x \in Clean => ref_count[x] \in Nat /\ ref_count[x] >= 1
  <2> HAVE x \in Clean
  <2>1. ref_count[x] \in Nat /\ OwnsOf(slot[t], todo[t], x) + On(list, x) <= ref_count[x]
    BY CountBound
  <2> QED BY <1>7, <1>8, <2>1 DEF On
<1>10. /\ ref_count' \in [Objects -> Int] /\ ref_count'[x] = ref_count[x] + (-1)
       /\ \A o \in Objects \ {x} : ref_count'[o] = ref_count[o]
       /\ fault' \subseteq raced
  <2>1. -1 \in Int
    OBVIOUS
  <2> QED BY <1>2, <2>1, CountEffect, Zenon
<1>11. ASSUME NEW o \in Clean
       PROVE  /\ OwnsOf(slot[t], r, o) >= 0
              /\ OwnsOf(slot[t], r, o) = OwnsOf(slot[t], todo[t], o) + (-1) * One(x, o)
  BY <1>7, <1>8 DEF One, Clean
<1>12. ASSUME NEW o \in Clean PROVE Covered(t, o)' /\ Popping(t, o)' /\ Deleting(t, o)'
  <2>1. Covered(t, o)'
    <3> SUFFICES ASSUME Times(r, {"add"}, o) >= 1 PROVE Alone(t, o)'
      BY <1>3 DEF Covered
    <3>1. o = x
      BY <1>5 DEF Counts, One, Clean
    <3>2. Others(t, x)'
      BY <1>3, <1>4, <1>7, <3>1 DEF Alone, Others, Has
    <3> QED BY <1>3, <1>7, <3>1, <3>2 DEF Alone
  <2> QED BY <1>3, <1>6, <2>1 DEF Popping, Deleting
<1>13. Allocated(x)'
  BY <1>3 DEF Allocated, r
<1>14. /\ \A o \in Objects : Names(r, o) => Names(todo[t], o)
       /\ r \in Seq(Steps)
  BY <1>5 DEF Counts
<1>15. alive' \subseteq alive /\ alive \ alive' = {} /\ -1 \in Int
  BY <1>2
<1> QED BY <1>2, <1>6, <1>10, <1>11, <1>12, <1>13, <1>14, <1>15, ContinueKeeps

\* remove: two references were counted, and one is given up.
LEMMA ReleaseDestroy ==
  ASSUME IInv, NEW t \in Threads, NEW x \in Objects, Release(t, x),
         todo[t] = <<Step("release", x), Step("destroy", x)>>
  PROVE  IInv'
<1> DEFINE r == <<Step("destroy", x)>>
<1>1. Tail(todo[t]) = r
  OBVIOUS
<1>2. Reach(t, "release", x) /\ Count(x, -1) /\ Continue(t, r) /\ alive' = alive
  BY <1>1 DEF Release
<1>3. todo'[t] = r
  BY <1>2 DEF Continue, IInv, RefTypeOK
<1>4. ASSUME NEW o \in Objects
      PROVE  /\ Counts(todo[t], o, 0, 2 * One(x, o), x = o)
             /\ Counts(r, o, 0, One(x, o), x = o)
             /\ One(x, o) \in Nat /\ 2 * One(x, o) \in Nat
  <2>1. Counts(<<Step("release", x), Step("destroy", x)>>, o, 0, 2 * One(x, o), x = o)
    BY CountsTwo
  <2>2. Counts(<<Step("destroy", x)>>, o, 0, One(x, o), x = o)
    BY CountsOne
  <2>3. One(x, o) \in Nat /\ 2 * One(x, o) \in Nat
    BY DEF One
  <2> QED BY <2>1, <2>2, <2>3
<1>5. Shaped(r) /\ \A o : r # <<Step("release", o), Step("add", o)>> /\ r # <<Step("delete", o)>>
  BY DEF Shaped, Step
<1> HIDE DEF r
<1>6. ASSUME NEW o \in Objects
      PROVE  /\ OwnsOf(slot[t], todo[t], o) = HeldIn(slot[t], o) + 2 * One(x, o)
             /\ OwnsOf(slot[t], r, o) = HeldIn(slot[t], o) + One(x, o)
             /\ HeldIn(slot[t], o) \in Nat
  <2>1. /\ Times(todo[t], {"add"}, o) = 0 /\ Times(todo[t], Rel, o) = 2 * One(x, o)
        /\ Times(r, {"add"}, o) = 0 /\ Times(r, Rel, o) = One(x, o)
    BY <1>4 DEF Counts
  <2>2. HeldIn(slot[t], o) \in Nat
    BY OwnsTyped DEF IInv
  <2> QED BY <2>1, <2>2 DEF OwnsOf, One
<1>7. x \in Clean => ref_count[x] \in Nat /\ ref_count[x] >= 2
  <2> HAVE x \in Clean
  <2>1. ref_count[x] \in Nat /\ OwnsOf(slot[t], todo[t], x) + On(list, x) <= ref_count[x]
    BY CountBound
  <2> QED BY <1>6, <2>1 DEF On, One
<1>8. /\ ref_count' \in [Objects -> Int] /\ ref_count'[x] = ref_count[x] + (-1)
      /\ \A o \in Objects \ {x} : ref_count'[o] = ref_count[o]
      /\ fault' \subseteq raced
  <2>1. -1 \in Int
    OBVIOUS
  <2> QED BY <1>2, <2>1, CountEffect, Zenon
<1>9. ASSUME NEW o \in Clean
      PROVE  /\ OwnsOf(slot[t], r, o) >= 0
             /\ OwnsOf(slot[t], r, o) = OwnsOf(slot[t], todo[t], o) + (-1) * One(x, o)
  BY <1>6 DEF One, Clean
<1>10. ASSUME NEW o \in Clean PROVE Covered(t, o)' /\ Popping(t, o)' /\ Deleting(t, o)'
  <2>1. ~(Times(r, {"add"}, o) >= 1)
    BY <1>4 DEF Counts, Clean
  <2> QED BY <1>3, <1>5, <2>1 DEF Covered, Popping, Deleting
<1>11. x \in Clean => Allocated(x)'
  BY <1>7, <1>8 DEF Allocated
<1>12. /\ \A o \in Objects : Names(r, o) => Names(todo[t], o)
       /\ r \in Seq(Steps)
  BY <1>4 DEF Counts
<1>13. alive' \subseteq alive /\ alive \ alive' = {} /\ -1 \in Int
  BY <1>2
<1> QED BY <1>2, <1>5, <1>8, <1>9, <1>10, <1>11, <1>12, <1>13, ContinueKeeps

LEMMA ReleaseKeeps ==
  ASSUME IInv, NEW t \in Threads, NEW x \in Objects, Release(t, x)
  PROVE  IInv'
<1>1. todo[t] # <<>> /\ Head(todo[t]) = Step("release", x) /\ Shaped(todo[t])
  BY DEF Release, Reach, Step, IInv
<1>2. \/ todo[t] = <<Step("release", x), Step("add", x)>>
      \/ todo[t] = <<Step("release", x), Step("destroy", x)>>
  BY <1>1, Reached
<1> QED BY <1>2, ReleaseAdd, ReleaseDestroy

LEMMA DeleteShape ==
  ASSUME NEW s, Shaped(s), NEW i \in 1..Len(s), s[i].op = "delete"
  PROVE  s = <<Step("delete", s[i].obj)>>
<1>1. PICK y \in Objects :
        \/ s = <<Step("add", y)>>
        \/ s = <<Step("destroy", y)>>
        \/ s = <<Step("delete", y)>>
        \/ s = <<Step("release", y), Step("add", y)>>
        \/ s = <<Step("release", y), Step("destroy", y)>>
        \/ s = <<Step("add", y), Step("add", y), Step("destroy", y)>>
        \/ s = <<Step("add", y), Step("release", y), Step("destroy", y)>>
        \/ \E z \in Objects : s = <<Step("add", y), Step("destroy", z)>>
  BY DEF Shaped
<1>2. CASE s = <<Step("delete", y)>>
  BY <1>2 DEF Step
<1>3. CASE s = <<Step("add", y)>> \/ s = <<Step("destroy", y)>>
  BY <1>3 DEF Step
<1>4. CASE \/ s = <<Step("release", y), Step("add", y)>>
           \/ s = <<Step("release", y), Step("destroy", y)>>
  BY <1>4 DEF Step
<1>5. CASE \/ s = <<Step("add", y), Step("add", y), Step("destroy", y)>>
           \/ s = <<Step("add", y), Step("release", y), Step("destroy", y)>>
  BY <1>5 DEF Step
<1>6. CASE \E z \in Objects : s = <<Step("add", y), Step("destroy", z)>>
  BY <1>6 DEF Step
<1> QED BY <1>1, <1>2, <1>3, <1>4, <1>5, <1>6

\* The thread that gives up the last reference is the only one with the object.
LEMMA LastReference ==
  ASSUME IInv, NEW t \in Threads, NEW x \in Clean,
         todo[t] = <<Step("destroy", x)>>, ref_count[x] = 1
  PROVE  x \notin ToSet(list) /\ HeldIn(slot[t], x) = 0 /\ Others(t, x)
<1>1. /\ Times(todo[t], {"add"}, x) = 0 /\ Times(todo[t], Rel, x) = 1
      /\ Names(todo[t], x)
  BY CountsOne DEF One, Counts, Clean
<1>2. OwnsOf(slot[t], todo[t], x) = HeldIn(slot[t], x) + 1 /\ HeldIn(slot[t], x) \in Nat
  <2>1. HeldIn(slot[t], x) \in Nat
    BY OwnsTyped DEF IInv
  <2> QED BY <1>1, <2>1 DEF OwnsOf
<1>3. /\ OwnsOf(slot[t], todo[t], x) + On(list, x) <= 1
      /\ \A u \in Threads \ {t} : OwnsOf(slot[u], todo[u], x) >= 1 =>
           OwnsOf(slot[t], todo[t], x) + 1 <= 1
  BY CountBound
<1>4. x \notin ToSet(list) /\ HeldIn(slot[t], x) = 0
  BY <1>2, <1>3 DEF On
<1>5. ASSUME NEW u \in Threads \ {t}, Has(u, x) PROVE FALSE
  <2>1. ~(OwnsOf(slot[u], todo[u], x) >= 1)
    BY <1>2, <1>3
  <2>2. Has(t, x)
    BY <1>1 DEF Has
  <2>3. ~Others(u, x)
    BY <2>2 DEF Others
  <2>4. Covered(u, x) /\ Deleting(u, x) /\ Shaped(todo[u])
    BY DEF IInv
  <2>5. /\ HeldIn(slot[u], x) \in Nat /\ Times(todo[u], Rel, x) \in Nat
        /\ Times(todo[u], {"add"}, x) \in Nat /\ todo[u] \in Seq(Steps)
    <3>1. slot[u] \in [Slots -> Pointers] /\ todo[u] \in Seq(Steps)
      BY OwnsTyped DEF IInv
    <3> QED BY <3>1, OwnsType
  <2>6. Times(todo[u], {"add"}, x) = 0
    BY <1>4, <2>1, <2>3, <2>4, <2>5 DEF Covered, Alone
  <2>7. HeldIn(slot[u], x) = 0 /\ Times(todo[u], Rel, x) = 0
    BY <2>1, <2>5, <2>6 DEF OwnsOf
  <2>8. PICK i \in 1..Len(todo[u]) : todo[u][i].obj = x
    BY <1>5, <2>7 DEF Has, Names
  <2>9. todo[u][i].op \notin Rel /\ todo[u][i].op # "add" /\ todo[u][i] \in Steps
    BY <2>5, <2>6, <2>7, <2>8, TimesProperties
  <2>10. todo[u][i].op = "delete"
    BY <2>9 DEF Rel, Steps, Ops
  <2>11. todo[u] = <<Step("delete", x)>>
    BY <2>4, <2>8, <2>10, DeleteShape
  <2> QED BY <2>3, <2>4, <2>11 DEF Deleting
<1> QED BY <1>4, <1>5 DEF Others

LEMMA DestroyKeeps ==
  ASSUME IInv, NEW t \in Threads, NEW x \in Objects, Destroy(t, x)
  PROVE  IInv'
<1> DEFINE r == IF ref_count[x] = 1 THEN <<Step("delete", x)>> ELSE <<>>
<1>1. todo[t] = <<Step("destroy", x)>>
  <2>1. todo[t] # <<>> /\ Head(todo[t]) = Step("destroy", x) /\ Shaped(todo[t])
    BY DEF Destroy, Reach, Step, IInv
  <2> QED BY <2>1, Reached
<1>2. /\ Reach(t, "destroy", x) /\ Count(x, -1) /\ alive' = alive
      /\ Continue(t, (IF ref_count[x] = 1 THEN Do("delete", x) ELSE <<>>) \o Tail(todo[t]))
  BY DEF Destroy
<1>3. (IF ref_count[x] = 1 THEN Do("delete", x) ELSE <<>>) \o Tail(todo[t]) = r
  <2>1. Tail(todo[t]) = <<>> /\ x # Null
    BY <1>1, RefPtrAssumption
  <2>2. <<Step("delete", x)>> \o <<>> = <<Step("delete", x)>> /\ <<>> \o <<>> = <<>>
    OBVIOUS
  <2> QED BY <2>1, <2>2 DEF Do, Step
<1>4. Continue(t, r)
  BY <1>2, <1>3
<1>5. todo'[t] = r /\ slot' = slot /\ list' = list
  BY <1>4 DEF Continue, IInv, RefTypeOK
<1>6. \A u \in Threads \ {t} : todo'[u] = todo[u]
  BY <1>4 DEF Continue, IInv, RefTypeOK
<1>7. ASSUME NEW o \in Objects
      PROVE  /\ Counts(todo[t], o, 0, One(x, o), x = o)
             /\ Counts(r, o, 0, 0, x = o /\ ref_count[x] = 1)
             /\ One(x, o) \in Nat
  <2>1. Counts(todo[t], o, 0, One(x, o), x = o)
    <3>1. Counts(<<Step("destroy", x)>>, o, 0, One(x, o), x = o)
      BY CountsOne
    <3> QED BY <1>1, <3>1
  <2>2. CASE ref_count[x] = 1
    <3>1. Counts(r, o, 0, 0, x = o)
      BY <2>2, CountsOne
    <3> QED BY <2>1, <2>2, <3>1 DEF Counts, One
  <2>3. CASE ref_count[x] # 1
    <3>1. Counts(r, o, 0, 0, FALSE)
      BY <2>3, CountsNone
    <3> QED BY <2>1, <2>3, <3>1 DEF Counts, One
  <2> QED BY <2>2, <2>3
<1>8. Shaped(r) /\ \A o : r # <<Step("release", o), Step("add", o)>>
  BY DEF Shaped, Step
<1>9. \A o \in Objects : r = <<Step("delete", o)>> => o = x /\ ref_count[x] = 1
  BY DEF Step
<1>10. ref_count[x] = 1 => todo'[t] = <<Step("delete", x)>>
  BY <1>5
<1> HIDE DEF r
<1>11. ASSUME NEW o \in Objects
      PROVE  /\ OwnsOf(slot[t], todo[t], o) = HeldIn(slot[t], o) + One(x, o)
             /\ OwnsOf(slot[t], r, o) = HeldIn(slot[t], o)
             /\ HeldIn(slot[t], o) \in Nat
  <2>1. /\ OwnsOf(slot[t], todo[t], o) = HeldIn(slot[t], o) + One(x, o) - 0
        /\ OwnsOf(slot[t], r, o) = HeldIn(slot[t], o) + 0 - 0
        /\ HeldIn(slot[t], o) \in Nat
    BY <1>7, OwnsAfter
  <2> QED BY <1>7, <2>1
<1>12. x \in Clean => ref_count[x] \in Nat /\ ref_count[x] >= 1
  <2> HAVE x \in Clean
  <2>1. ref_count[x] \in Nat /\ OwnsOf(slot[t], todo[t], x) + On(list, x) <= ref_count[x]
    BY CountBound
  <2> QED BY <1>11, <2>1 DEF On, One
<1>13. /\ ref_count' \in [Objects -> Int] /\ ref_count'[x] = ref_count[x] + (-1)
       /\ \A o \in Objects \ {x} : ref_count'[o] = ref_count[o]
       /\ fault' \subseteq raced
  <2>1. -1 \in Int
    OBVIOUS
  <2> QED BY <1>2, <2>1, CountEffect, Zenon
<1>14. ASSUME NEW o \in Clean
       PROVE  /\ OwnsOf(slot[t], r, o) >= 0
              /\ OwnsOf(slot[t], r, o) = OwnsOf(slot[t], todo[t], o) + (-1) * One(x, o)
  BY <1>11 DEF One, Clean
<1>15. ASSUME NEW o \in Clean PROVE Covered(t, o)' /\ Popping(t, o)' /\ Deleting(t, o)'
  <2>1. ~(Times(r, {"add"}, o) >= 1)
    BY <1>7 DEF Counts, Clean
  <2>2. Deleting(t, o)'
    <3> SUFFICES ASSUME r = <<Step("delete", o)>>
                 PROVE  o \notin ToSet(list) /\ HeldIn(slot[t], o) = 0 /\ Others(t, o)'
      BY <1>5 DEF Deleting
    <3>1. o = x /\ ref_count[x] = 1
      BY <1>9 DEF Clean
    <3>2. o \notin ToSet(list) /\ HeldIn(slot[t], o) = 0 /\ Others(t, o)
      BY <1>1, <3>1, LastReference
    <3> QED BY <1>5, <1>6, <3>2 DEF Others, Has
  <2> QED BY <1>5, <1>8, <2>1, <2>2 DEF Covered, Popping
<1>16. x \in Clean => Allocated(x)'
  <2> HAVE x \in Clean
  <2>1. CASE ref_count[x] = 1
    BY <1>10, <2>1 DEF Allocated
  <2>2. CASE ref_count[x] # 1
    <3>1. ref_count'[x] >= 1
      BY <1>12, <1>13, <2>2
    <3> QED BY <3>1 DEF Allocated
  <2> QED BY <2>1, <2>2
<1>17. /\ \A o \in Objects : Names(r, o) => Names(todo[t], o)
       /\ r \in Seq(Steps)
  BY <1>7 DEF Counts
<1>18. alive' \subseteq alive /\ alive \ alive' = {} /\ -1 \in Int
  BY <1>2
<1> QED BY <1>2, <1>4, <1>8, <1>13, <1>14, <1>15, <1>16, <1>17, <1>18, ContinueKeeps

LEMMA DeleteKeeps ==
  ASSUME IInv, NEW t \in Threads, NEW x \in Objects, Delete(t, x)
  PROVE  IInv'
<1>1. todo[t] = <<Step("delete", x)>>
  <2>1. todo[t] # <<>> /\ Head(todo[t]) = Step("delete", x) /\ Shaped(todo[t])
    BY DEF Delete, Reach, Step, IInv
  <2> QED BY <2>1, Reached
<1>2. Reach(t, "delete", x) /\ Continue(t, <<>>) /\ alive' = alive \ {x} /\ ref_count' = ref_count
  BY <1>1 DEF Delete
<1>3. fault' \subseteq raced
  BY <1>2, ReachAlive DEF Delete, IInv, Clean
<1>4. todo'[t] = <<>>
  BY <1>2 DEF Continue, IInv, RefTypeOK
<1>5. ASSUME NEW o \in Clean
      PROVE  /\ OwnsOf(slot[t], <<>>, o) >= 0
             /\ OwnsOf(slot[t], <<>>, o) = OwnsOf(slot[t], todo[t], o) + 0 * One(x, o)
  <2>1. Counts(todo[t], o, 0, 0, x = o) /\ Counts(<<>>, o, 0, 0, FALSE)
    <3>1. Counts(<<Step("delete", x)>>, o, 0, 0, x = o) /\ Counts(<<>>, o, 0, 0, FALSE)
      BY CountsOne, CountsNone DEF Clean
    <3> QED BY <1>1, <3>1
  <2>2. /\ OwnsOf(slot[t], todo[t], o) = HeldIn(slot[t], o) + 0 - 0
        /\ OwnsOf(slot[t], <<>>, o) = HeldIn(slot[t], o) + 0 - 0
        /\ HeldIn(slot[t], o) \in Nat
    BY <2>1, OwnsAfter DEF Clean
  <2> QED BY <2>2 DEF One
<1>6. x \in Clean => x \notin ToSet(list) /\ HeldIn(slot[t], x) = 0 /\ Others(t, x)
  BY <1>1 DEF IInv, Deleting
<1>7. ASSUME NEW o \in Clean PROVE Covered(t, o)' /\ Popping(t, o)' /\ Deleting(t, o)'
  BY <1>4, TimesEmpty DEF Covered, Popping, Deleting
<1>8. x \in Clean => Allocated(x)'
  BY <1>2 DEF Allocated
<1>9. /\ \A o : ~Names(<<>>, o) /\ <<>> \in Seq(Steps) /\ Shaped(<<>>)
  BY DEF Names, Shaped
<1>10. /\ ref_count' \in [Objects -> Int] /\ ref_count'[x] = ref_count[x] + 0
       /\ \A o \in Objects \ {x} : ref_count'[o] = ref_count[o]
  BY <1>2 DEF IInv, RefTypeOK
<1>11. /\ alive' \subseteq alive /\ 0 \in Int
       /\ \A o \in Clean \cap (alive \ alive') :
            o \notin ToSet(list) /\ HeldIn(slot[t], o) = 0 /\ ~Names(<<>>, o) /\ Others(t, o)
  <2>1. alive' \subseteq alive /\ \A o \in Clean \cap (alive \ alive') : o = x
    BY <1>2
  <2> QED BY <1>6, <1>9, <2>1
<1>12. \A o \in Objects : Names(<<>>, o) => Names(todo[t], o)
  BY <1>9
<1> QED BY <1>2, <1>3, <1>5, <1>7, <1>8, <1>9, <1>10, <1>11, <1>12, ContinueKeeps, Zenon

-----------------------------------------------------------------------------
(* The operations on variables. *)

LEMMA DoSteps ==
  ASSUME NEW op
  PROVE  Do(op, Null) = <<>> /\ \A x \in Objects : Do(op, x) = <<Step(op, x)>>
  BY RefPtrAssumption DEF Do, Step

LEMMA DoNone ==
  ASSUME NEW x \in Pointers, NEW op, NEW op2
  PROVE  Do(op, x) = Do(op, x) \o Do(op2, Null) /\ Do(op, x) = Do(op2, Null) \o Do(op, x)
<1>1. CASE x = Null
  <2>1. Do(op, x) = <<>> /\ Do(op2, Null) = <<>>
    BY <1>1, DoSteps
  <2> QED BY <2>1
<1>2. CASE x # Null
  <2>1. x \in Objects
    BY <1>2 DEF Pointers
  <2>2. Do(op, x) = <<Step(op, x)>> /\ Do(op2, Null) = <<>>
    BY <2>1, DoSteps
  <2> QED BY <2>2
<1> QED BY <1>1, <1>2

\* First what is pointed to is counted, then what was pointed to is let go.
LEMMA AddDestroy ==
  ASSUME NEW x \in Pointers, NEW y \in Pointers
  PROVE  LET s == Do("add", x) \o Do("destroy", y)
         IN /\ Shaped(s) /\ s \in Seq(Steps)
            /\ \A o \in Objects :
                 /\ Times(s, {"add"}, o) = One(x, o) /\ Times(s, Rel, o) = One(y, o)
                 /\ Names(s, o) => x = o \/ y = o
                 /\ s # <<Step("release", o), Step("add", o)>> /\ s # <<Step("delete", o)>>
<1> DEFINE s == Do("add", x) \o Do("destroy", y)
<1>1. CASE x = Null /\ y = Null
  <2>1. s = <<>>
    BY <1>1, DoSteps
  <2>2. \A o \in Objects : One(x, o) = 0 /\ One(y, o) = 0 /\ Counts(<<>>, o, 0, 0, FALSE)
    BY <1>1, RefPtrAssumption, CountsNone DEF One
  <2>3. Shaped(s)
    BY <2>1 DEF Shaped
  <2>4. \A o : s # <<Step("release", o), Step("add", o)>> /\ s # <<Step("delete", o)>>
    <3>1. \A a, b : <<>> # <<a>> /\ <<>> # <<a, b>>
      OBVIOUS
    <3> HIDE DEF s
    <3> QED BY <2>1, <3>1
  <2>5. \A o \in Objects : /\ Times(s, {"add"}, o) = One(x, o) /\ Times(s, Rel, o) = One(y, o)
                           /\ ~Names(s, o)
    BY <2>1, <2>2 DEF Counts
  <2>6. <<>> \in Seq(Steps)
    OBVIOUS
  <2>7. s \in Seq(Steps)
    BY <2>1, <2>6, Zenon
  <2> HIDE DEF s
  <2> QED BY <2>3, <2>4, <2>5, <2>7 DEF s
<1>2. CASE x # Null /\ y = Null
  <2>1. x \in Objects /\ s = <<Step("add", x)>>
    <3>1. x \in Objects
      BY <1>2 DEF Pointers
    <3>2. Do("add", x) = <<Step("add", x)>> /\ Do("destroy", y) = <<>>
      BY <1>2, <3>1, DoSteps
    <3>3. <<Step("add", x)>> \o <<>> = <<Step("add", x)>>
      OBVIOUS
    <3> QED BY <3>1, <3>2, <3>3, Zenon
  <2>2. \A o \in Objects : One(y, o) = 0 /\ Counts(<<Step("add", x)>>, o, One(x, o), 0, x = o)
    BY <1>2, <2>1, RefPtrAssumption, CountsOne DEF One
  <2>3. Shaped(s)
    BY <2>1 DEF Shaped
  <2>4. \A o : s # <<Step("release", o), Step("add", o)>> /\ s # <<Step("delete", o)>>
    BY <2>1 DEF Step
  <2> HIDE DEF s
  <2> QED BY <2>1, <2>2, <2>3, <2>4 DEF Counts, s
<1>3. CASE x = Null /\ y # Null
  <2>1. y \in Objects /\ s = <<Step("destroy", y)>>
    <3>1. y \in Objects
      BY <1>3 DEF Pointers
    <3>2. Do("add", x) = <<>> /\ Do("destroy", y) = <<Step("destroy", y)>>
      BY <1>3, <3>1, DoSteps
    <3>3. <<>> \o <<Step("destroy", y)>> = <<Step("destroy", y)>>
      OBVIOUS
    <3> QED BY <3>1, <3>2, <3>3, Zenon
  <2>2. \A o \in Objects : One(x, o) = 0 /\ Counts(<<Step("destroy", y)>>, o, 0, One(y, o), y = o)
    BY <1>3, <2>1, RefPtrAssumption, CountsOne DEF One
  <2>3. Shaped(s)
    BY <2>1 DEF Shaped
  <2>4. \A o : s # <<Step("release", o), Step("add", o)>> /\ s # <<Step("delete", o)>>
    BY <2>1 DEF Step
  <2> HIDE DEF s
  <2> QED BY <2>1, <2>2, <2>3, <2>4 DEF Counts, s
<1>4. CASE x # Null /\ y # Null
  <2>1. x \in Objects /\ y \in Objects
    BY <1>4 DEF Pointers
  <2>2. s = <<Step("add", x), Step("destroy", y)>>
    <3>1. s = <<Step("add", x)>> \o <<Step("destroy", y)>>
      BY <2>1, DoSteps
    <3> QED BY <3>1, ConcatTwo
  <2>3. \A o \in Objects : Counts(<<Step("add", x), Step("destroy", y)>>, o,
                                   One(x, o), One(y, o), x = o \/ y = o)
    BY <2>1, CountsTwo
  <2>4. Shaped(s)
    BY <2>1, <2>2 DEF Shaped
  <2>5. \A o : s # <<Step("release", o), Step("add", o)>> /\ s # <<Step("delete", o)>>
    BY <2>2 DEF Step
  <2>6. /\ s \in Seq(Steps)
        /\ \A o \in Objects : /\ Times(s, {"add"}, o) = One(x, o) /\ Times(s, Rel, o) = One(y, o)
                              /\ Names(s, o) => x = o \/ y = o
    <3> HIDE DEF s
    <3>1. ASSUME NEW o \in Objects
          PROVE  /\ Times(s, {"add"}, o) = One(x, o) /\ Times(s, Rel, o) = One(y, o)
                 /\ Names(s, o) => x = o \/ y = o
      BY <2>2, <2>3 DEF Counts
    <3>2. s \in Seq(Steps)
      BY <2>1, <2>2, StepMatch DEF Ops
    <3> QED BY <3>1, <3>2
  <2> HIDE DEF s
  <2> QED BY <2>4, <2>5, <2>6 DEF s
<1> QED BY <1>1, <1>2, <1>3, <1>4

\* Pointer x comes and pointer y goes.
LEMMA AssignKeeps ==
  ASSUME IInv, NEW t \in Threads, NEW f \in [Slots -> Pointers],
         NEW x \in Pointers, NEW y \in Pointers,
         Begin(t, f, Do("add", x) \o Do("destroy", y)),
         list' = list, raced' = raced, user' = user \/ (user = Null /\ user' = t),
         \A o \in Objects : HeldIn(f, o) = HeldIn(slot[t], o) - One(y, o) + One(x, o),
         \A o \in Objects : y = o => HeldIn(slot[t], o) >= 1,
         \A o \in Objects : x = o => \/ HeldIn(slot[t], o) >= 1
                                     \/ o \in ToSet(list) /\ user = Null /\ user' = t
  PROVE  IInv'
<1> DEFINE s == Do("add", x) \o Do("destroy", y)
<1>1. /\ Shaped(s) /\ s \in Seq(Steps)
      /\ \A o \in Objects :
           /\ Times(s, {"add"}, o) = One(x, o) /\ Times(s, Rel, o) = One(y, o)
           /\ Names(s, o) => x = o \/ y = o
           /\ s # <<Step("release", o), Step("add", o)>> /\ s # <<Step("delete", o)>>
  BY AddDestroy
<1>2. Begin(t, f, s)
  OBVIOUS
<1> HIDE DEF s
<1>3. ASSUME NEW o \in Objects
      PROVE  /\ HeldIn(f, o) >= 1 \/ Names(s, o) =>
                  HeldIn(slot[t], o) >= 1 \/ (o \in ToSet(list) /\ user = Null)
             /\ OwnsOf(f, s, o) >= 0
             /\ OwnsOf(f, s, o) + On(list', o) = HeldIn(slot[t], o) + On(list, o)
             /\ Times(s, {"add"}, o) >= 1 =>
                  OwnsOf(f, s, o) >= 1 \/ (user' = t /\ o \in ToSet(list'))
  <2>1. HeldIn(slot[t], o) \in Nat /\ HeldIn(f, o) \in Nat
    BY OwnsTyped, HeldProperties DEF IInv
  <2>2. One(x, o) = (IF x = o THEN 1 ELSE 0) /\ One(y, o) \in {0, 1}
    BY DEF One
  <2>3. OwnsOf(f, s, o) = HeldIn(f, o) + One(y, o) - One(x, o)
    BY <1>1 DEF OwnsOf
  <2>4. OwnsOf(f, s, o) = HeldIn(slot[t], o)
    BY <2>1, <2>2, <2>3
  <2>5. HeldIn(f, o) >= 1 => HeldIn(slot[t], o) >= 1 \/ x = o
    BY <2>1, <2>2
  <2>6. Times(s, {"add"}, o) >= 1 => x = o
    BY <1>1, <2>2
  <2>7. On(list, o) \in Nat
    BY DEF On
  <2> QED BY <1>1, <2>1, <2>4, <2>5, <2>6, <2>7
<1>4. Fair(t, f, s)
  BY <1>1, <1>3 DEF Fair
<1>5. Placed(t)
  BY DEF Placed, IInv, RefTypeOK
<1>6. raced \subseteq raced' /\ raced' \subseteq Objects
  BY DEF IInv, RefTypeOK
<1> QED BY <1>2, <1>4, <1>5, <1>6, BeginKeeps

\* A variable that is set.
LEMMA SlotSet ==
  ASSUME IInv, NEW t \in Threads, NEW v \in Slots, NEW x \in Pointers
  PROVE  /\ [slot[t] EXCEPT ![v] = x] \in [Slots -> Pointers] /\ slot[t][v] \in Pointers
         /\ \A o \in Objects :
              /\ HeldIn([slot[t] EXCEPT ![v] = x], o)
                   = HeldIn(slot[t], o) - One(slot[t][v], o) + One(x, o)
              /\ slot[t][v] = o => HeldIn(slot[t], o) >= 1
<1>1. slot[t] \in [Slots -> Pointers]
  BY OwnsTyped DEF IInv
<1>2. ASSUME NEW o \in Objects
      PROVE  /\ HeldIn([slot[t] EXCEPT ![v] = x], o)
                  = HeldIn(slot[t], o) - One(slot[t][v], o) + One(x, o)
             /\ slot[t][v] = o => HeldIn(slot[t], o) >= 1
  <2>1. HeldIn([slot[t] EXCEPT ![v] = x], o)
          = HeldIn(slot[t], o) - One(slot[t][v], o) + One(x, o)
    BY <1>1, HeldUpdate
  <2>2. HeldIn(slot[t], o) \in Nat /\ (HeldIn(slot[t], o) = 0 <=> \A w \in Slots : slot[t][w] # o)
    BY <1>1, HeldProperties
  <2> QED BY <2>1, <2>2
<1> QED BY <1>1, <1>2

LEMMA CopyConstructKeeps ==
  ASSUME IInv, NEW t \in Threads, NEW v \in Slots, NEW w \in Slots, CopyConstruct(t, v, w)
  PROVE  IInv'
<1> DEFINE x == slot[t][w]
           f == [slot[t] EXCEPT ![v] = x]
<1>1. x \in Pointers /\ \A o \in Objects : x = o => HeldIn(slot[t], o) >= 1
  BY SlotSet DEF Pointers
<1>2. slot[t][v] = Null /\ Begin(t, f, Do("add", x)) /\ list' = list /\ user' = user /\ raced' = raced /\ x # Null
  BY DEF CopyConstruct, Own
<1>3. Begin(t, f, Do("add", x) \o Do("destroy", Null))
  BY <1>1, <1>2, DoNone
<1> HIDE DEF x
<1>4. /\ f \in [Slots -> Pointers]
      /\ \A o \in Objects : HeldIn(f, o) = HeldIn(slot[t], o) - One(Null, o) + One(x, o)
  BY <1>1, <1>2, SlotSet
<1>5. Null \in Pointers /\ \A o \in Objects : Null = o => HeldIn(slot[t], o) >= 1
  BY RefPtrAssumption DEF Pointers
<1> HIDE DEF f
<1> QED BY <1>1, <1>2, <1>3, <1>4, <1>5, AssignKeeps, Zenon

LEMMA CopyAssignKeeps ==
  ASSUME IInv, NEW t \in Threads, NEW v \in Slots, NEW w \in Slots, CopyAssign(t, v, w)
  PROVE  IInv'
<1> DEFINE x == slot[t][w]
           y == slot[t][v]
           f == [slot[t] EXCEPT ![v] = x]
<1>1. x \in Pointers /\ \A o \in Objects : x = o => HeldIn(slot[t], o) >= 1
  BY SlotSet DEF Pointers
<1>2. Begin(t, f, Do("add", x) \o Do("destroy", y)) /\ list' = list /\ user' = user /\ raced' = raced
  BY DEF CopyAssign, Own
<1> HIDE DEF x
<1>3. /\ f \in [Slots -> Pointers] /\ y \in Pointers
      /\ \A o \in Objects : HeldIn(f, o) = HeldIn(slot[t], o) - One(y, o) + One(x, o)
      /\ \A o \in Objects : y = o => HeldIn(slot[t], o) >= 1
  BY <1>1, SlotSet
<1> HIDE DEF f, y
<1> QED BY <1>1, <1>2, <1>3, AssignKeeps, Zenon

LEMMA DropKeeps ==
  ASSUME IInv, NEW t \in Threads, NEW v \in Slots, Drop(t, v)
  PROVE  IInv'
<1> DEFINE y == slot[t][v]
           f == [slot[t] EXCEPT ![v] = Null]
<1>1. Null \in Pointers /\ \A o \in Objects : Null = o => HeldIn(slot[t], o) >= 1
  BY RefPtrAssumption DEF Pointers
<1>2. /\ f \in [Slots -> Pointers] /\ y \in Pointers
      /\ \A o \in Objects : HeldIn(f, o) = HeldIn(slot[t], o) - One(y, o) + One(Null, o)
      /\ \A o \in Objects : y = o => HeldIn(slot[t], o) >= 1
  BY <1>1, SlotSet
<1>3. y # Null /\ Begin(t, f, Do("destroy", y)) /\ list' = list /\ user' = user /\ raced' = raced
  BY DEF Drop, Own
<1>4. Begin(t, f, Do("add", Null) \o Do("destroy", y))
  BY <1>2, <1>3, DoNone
<1> HIDE DEF f, y
<1> QED BY <1>1, <1>2, <1>3, <1>4, AssignKeeps, Zenon

LEMMA MoveAssignKeeps ==
  ASSUME IInv, NEW t \in Threads, NEW v \in Slots, NEW w \in Slots, MoveAssign(t, v, w)
  PROVE  IInv'
<1> DEFINE x == slot[t][w]
           y == slot[t][v]
           g == [slot[t] EXCEPT ![w] = Null]
           f == [g EXCEPT ![v] = x]
<1>1. Null \in Pointers /\ \A o \in Objects : Null # o /\ One(Null, o) = 0
  BY RefPtrAssumption DEF Pointers, One
<1>2. slot[t] \in [Slots -> Pointers] /\ x \in Pointers
  BY OwnsTyped DEF IInv
<1>3. /\ Begin(t, f, IF v = w THEN <<>> ELSE Do("destroy", y))
      /\ list' = list /\ user' = user /\ raced' = raced
  BY DEF MoveAssign, Own
<1>4. CASE v = w
  <2>1. f = slot[t]
    BY <1>2, <1>4
  <2>2. <<>> = Do("add", Null) \o Do("destroy", Null)
    BY DoSteps
  <2>3. \A o \in Objects : HeldIn(slot[t], o) = HeldIn(slot[t], o) - One(Null, o) + One(Null, o)
    <3>1. \A o \in Objects : HeldIn(slot[t], o) \in Nat
      BY <1>2, HeldProperties
    <3> QED BY <1>1, <3>1
  <2>4. Begin(t, slot[t], Do("add", Null) \o Do("destroy", Null))
    BY <1>3, <1>4, <2>1, <2>2
  <2> HIDE DEF f
  <2> QED BY <1>1, <1>2, <1>3, <2>3, <2>4, AssignKeeps
<1>5. CASE v # w
  <2>1. g \in [Slots -> Pointers] /\ g[v] = y
    BY <1>1, <1>2, <1>5
  <2>2. \A o \in Objects : HeldIn(g, o) = HeldIn(slot[t], o) - One(x, o) + One(Null, o)
    BY <1>1, SlotSet
  <2>3. y \in Pointers /\ \A o \in Objects : y = o => HeldIn(slot[t], o) >= 1
    BY <1>1, SlotSet
  <2>4. f \in [Slots -> Pointers]
    BY <1>2, <2>1
  <2> HIDE DEF g, x
  <2>5. ASSUME NEW o \in Objects
        PROVE  HeldIn(f, o) = HeldIn(slot[t], o) - One(y, o) + One(Null, o)
    <3>1. HeldIn(f, o) = HeldIn(g, o) - One(y, o) + One(x, o)
      <4>1. HeldIn(f, o) = HeldIn(g, o) - One(g[v], o) + One(x, o)
        BY <1>2, <2>1, HeldUpdate
      <4> QED BY <2>1, <4>1
    <3>2. HeldIn(slot[t], o) \in Nat
      BY <1>2, HeldProperties
    <3>3. One(x, o) \in Nat /\ One(y, o) \in Nat
      BY DEF One
    <3> QED BY <1>1, <2>2, <3>1, <3>2, <3>3
  <2>6. Do("destroy", y) = Do("add", Null) \o Do("destroy", y)
    BY <2>3, DoNone
  <2>7. Begin(t, f, Do("add", Null) \o Do("destroy", y))
    BY <1>3, <1>5, <2>6
  <2> HIDE DEF f, y
  <2> QED BY <1>1, <1>3, <2>3, <2>4, <2>5, <2>7, AssignKeeps
<1> QED BY <1>4, <1>5

-----------------------------------------------------------------------------
(* The operations on the list. *)

LEMMA FirstKeeps ==
  ASSUME IInv, NEW t \in Threads, NEW v \in Slots, First(t, v)
  PROVE  IInv'
<1> DEFINE x == Head(list)
           f == [slot[t] EXCEPT ![v] = x]
<1>1. /\ list # <<>> /\ slot[t][v] = Null /\ user = Null /\ user' = t /\ list' = list /\ raced' = raced
      /\ Begin(t, f, Do("add", x)) /\ list \in Seq(Objects)
  BY DEF First, Enter, IInv, RefTypeOK
<1>2. x \in Objects /\ x \in ToSet(list)
  <2>1. Len(list) \in Nat \ {0} /\ x = list[1]
    BY <1>1, HeadTailProperties
  <2> QED BY <1>1, <2>1, ToSetMembers
<1>3. x \in Pointers /\ Null \in Pointers
  BY <1>2 DEF Pointers
<1>4. Begin(t, f, Do("add", x) \o Do("destroy", Null))
  <2>1. Do("add", x) = Do("add", x) \o Do("destroy", Null)
    BY <1>3, DoNone
  <2> QED BY <1>1, <2>1, Zenon
<1> HIDE DEF x
<1>5. /\ f \in [Slots -> Pointers]
      /\ \A o \in Objects : HeldIn(f, o) = HeldIn(slot[t], o) - One(Null, o) + One(x, o)
  BY <1>1, <1>3, SlotSet
<1>6. /\ \A o \in Objects : Null = o => HeldIn(slot[t], o) >= 1
      /\ \A o \in Objects : x = o => \/ HeldIn(slot[t], o) >= 1
                                     \/ o \in ToSet(list) /\ user = Null /\ user' = t
  BY <1>1, <1>2, RefPtrAssumption
<1> HIDE DEF f
<1> QED BY <1>1, <1>3, <1>4, <1>5, <1>6, AssignKeeps, Zenon

\* Pushing and removing, of a node that a variable holds.
LEMMA NodeSteps ==
  ASSUME NEW x \in Objects
  PROVE  /\ Do("add", x) \o Do("add", x) \o Do("destroy", x)
              = <<Step("add", x), Step("add", x), Step("destroy", x)>>
         /\ Do("add", x) \o Do("release", x) \o Do("destroy", x)
              = <<Step("add", x), Step("release", x), Step("destroy", x)>>
         /\ Do("release", x) \o Do("add", x) = <<Step("release", x), Step("add", x)>>
<1>1. \A op : Do(op, x) = <<Step(op, x)>>
  BY DoSteps
<1>2. \A a, b : <<a>> \o <<b>> = <<a, b>>
  BY ConcatTwo
<1>3. \A a, b, c : <<a, b>> \o <<c>> = <<a, b, c>>
  BY ConcatThree
<1>4. \A a, b, c : <<a>> \o <<b>> \o <<c>> = <<a, b, c>>
  <2> TAKE a, b, c
  <2>1. <<a>> \o <<b>> = <<a, b>> /\ <<a, b>> \o <<c>> = <<a, b, c>>
    BY <1>2, <1>3
  <2> QED BY <2>1, Zenon
<1> QED BY <1>1, <1>2, <1>4, Zenon

LEMMA PushBackKeeps ==
  ASSUME IInv, NEW t \in Threads, NEW v \in Slots, PushBack(t, v)
  PROVE  IInv'
<1> DEFINE x == slot[t][v]
           s == <<Step("add", x), Step("add", x), Step("destroy", x)>>
<1>1. /\ x # Null /\ x \notin ToSet(list) /\ user = Null /\ user' = t
      /\ list' = Append(list, x) /\ list \in Seq(Objects)
      /\ raced \subseteq raced' /\ raced' \subseteq Objects
      /\ Begin(t, slot[t], Do("add", x) \o Do("add", x) \o Do("destroy", x))
  BY DEF PushBack, Enter, IInv, RefTypeOK
<1>2. slot[t] \in [Slots -> Pointers]
  BY OwnsTyped DEF IInv
<1>3. x \in Objects
  BY <1>1, <1>2 DEF Pointers
<1>4. Begin(t, slot[t], s)
  BY <1>1, <1>3, NodeSteps
<1>5. \A o \in Objects : x = o => HeldIn(slot[t], o) >= 1
  BY <1>3, SlotSet DEF Pointers
<1> HIDE DEF x
<1>6. /\ list' \in Seq(Objects) /\ Len(list') = Len(list) + 1 /\ Len(list) \in Nat
      /\ list'[Len(list) + 1] = x /\ \A i \in 1..Len(list) : list'[i] = list[i]
  BY <1>1, <1>3, AppendProperties
<1>7. \A i \in 1..Len(list) : list[i] # x
  BY <1>1, ToSetMembers
<1>8. Distinct(list')
  BY <1>6, <1>7 DEF Distinct, IInv
<1>9. \A o : o \in ToSet(list') <=> o \in ToSet(list) \/ o = x
  <2>1. \A o : o \in ToSet(list') <=> \E i \in 1..Len(list') : list'[i] = o
    BY <1>6, ToSetMembers
  <2>2. \A o : o \in ToSet(list) <=> \E i \in 1..Len(list) : list[i] = o
    BY <1>1, ToSetMembers
  <2> QED BY <1>6, <2>1, <2>2
<1>10. ASSUME NEW o \in Objects
       PROVE  Counts(s, o, 2 * One(x, o), One(x, o), x = o)
  BY <1>3, CountsThree
<1>11. /\ Shaped(s)
       /\ \A o : s # <<Step("release", o), Step("add", o)>> /\ s # <<Step("delete", o)>>
  BY <1>3 DEF Shaped, Step
<1> HIDE DEF s
<1>12. ASSUME NEW o \in Objects
       PROVE  /\ Names(s, o) => HeldIn(slot[t], o) >= 1
              /\ OwnsOf(slot[t], s, o) >= 0
              /\ OwnsOf(slot[t], s, o) + On(list', o) = HeldIn(slot[t], o) + On(list, o)
              /\ Times(s, {"add"}, o) >= 1 => user' = t /\ o \in ToSet(list')
  <2>1. HeldIn(slot[t], o) \in Nat
    BY <1>2, HeldProperties
  <2>2. OwnsOf(slot[t], s, o) = HeldIn(slot[t], o) + One(x, o) - 2 * One(x, o)
    BY <1>10 DEF Counts, OwnsOf
  <2>3. Names(s, o) => x = o
    BY <1>10 DEF Counts
  <2>4. Times(s, {"add"}, o) >= 1 => x = o
    BY <1>10 DEF Counts, One
  <2>5. On(list', o) = On(list, o) + One(x, o) /\ On(list, o) \in Nat
    BY <1>1, <1>9 DEF On, One
  <2>6. OwnsOf(slot[t], s, o) >= 0
    BY <1>5, <2>1, <2>2 DEF One
  <2>7. OwnsOf(slot[t], s, o) + On(list', o) = HeldIn(slot[t], o) + On(list, o)
    BY <2>1, <2>2, <2>5 DEF One
  <2> QED BY <1>1, <1>5, <1>9, <2>3, <2>4, <2>6, <2>7
<1>13. s \in Seq(Steps)
  BY <1>3, <1>10 DEF Counts
<1>14. Fair(t, slot[t], s)
  BY <1>2, <1>11, <1>12, <1>13 DEF Fair
<1>15. Placed(t)
  BY <1>1, <1>5, <1>6, <1>8, <1>9 DEF Placed
<1> QED BY <1>1, <1>4, <1>14, <1>15, BeginKeeps

\* A list without the object at position i.
LEMMA ListWithout ==
  ASSUME NEW l \in Seq(Objects), Distinct(l), NEW i \in 1..Len(l)
  PROVE  /\ RemoveAt(l, i) \in Seq(Objects) /\ Distinct(RemoveAt(l, i))
         /\ \A o : o \in ToSet(RemoveAt(l, i)) <=> o \in ToSet(l) /\ o # l[i]
<1> DEFINE r == RemoveAt(l, i)
           n == Len(l)
<1>1. /\ r \in Seq(Objects) /\ Len(r) = n - 1 /\ n \in Nat
      /\ \A j \in 1..n - 1 : r[j] = IF j < i THEN l[j] ELSE l[j + 1]
  BY RemoveAtProperties
<1>2. \A o : o \in ToSet(r) <=> \E j \in 1..Len(r) : r[j] = o
  BY <1>1, ToSetMembers
<1>3. \A o : o \in ToSet(l) <=> \E j \in 1..n : l[j] = o
  BY ToSetMembers
<1> HIDE DEF r
<1>4. Distinct(r)
  BY <1>1 DEF Distinct
<1>5. ASSUME NEW o, o \in ToSet(r) PROVE o \in ToSet(l) /\ o # l[i]
  <2>1. PICK j \in 1..n - 1 : r[j] = o
    BY <1>1, <1>2, <1>5
  <2>2. CASE j < i
    BY <1>1, <1>3, <2>1, <2>2 DEF Distinct
  <2>3. CASE ~(j < i)
    BY <1>1, <1>3, <2>1, <2>3 DEF Distinct
  <2> QED BY <2>2, <2>3
<1>6. ASSUME NEW o, o \in ToSet(l), o # l[i] PROVE o \in ToSet(r)
  <2>1. PICK j \in 1..n : l[j] = o
    BY <1>3, <1>6
  <2>2. CASE j < i
    BY <1>1, <1>2, <2>1, <2>2
  <2>3. CASE j > i
    <3>1. j - 1 \in 1..n - 1 /\ ~(j - 1 < i) /\ (j - 1) + 1 = j
      BY <2>1, <2>3
    <3> QED BY <1>1, <1>2, <2>1, <3>1
  <2> QED BY <1>6, <2>1, <2>2, <2>3
<1> QED BY <1>1, <1>4, <1>5, <1>6 DEF r

LEMMA RemoveNodeKeeps ==
  ASSUME IInv, NEW t \in Threads, NEW v \in Slots, RemoveNode(t, v)
  PROVE  IInv'
<1> DEFINE x == slot[t][v]
           s == <<Step("add", x), Step("release", x), Step("destroy", x)>>
<1>1. /\ x \in ToSet(list) /\ user = Null /\ user' = t
      /\ list' = Unlink(x) /\ list \in Seq(Objects) /\ Distinct(list)
      /\ raced \subseteq raced' /\ raced' \subseteq Objects
      /\ Begin(t, slot[t], Do("add", x) \o Do("release", x) \o Do("destroy", x))
  BY DEF RemoveNode, Enter, IInv, RefTypeOK
<1>2. slot[t] \in [Slots -> Pointers]
  BY OwnsTyped DEF IInv
<1>3. PICK k \in 1..Len(list) : list[k] = x
  BY <1>1, ToSetMembers
<1>4. x \in Objects
  BY <1>1, <1>3
<1>5. Begin(t, slot[t], s)
  BY <1>1, <1>4, NodeSteps
<1>6. \A o \in Objects : x = o => HeldIn(slot[t], o) >= 1
  BY <1>4, SlotSet DEF Pointers
<1> HIDE DEF x
<1>7. PICK i \in 1..Len(list) : list[i] = x /\ list' = RemoveAt(list, i)
  <2> DEFINE i == CHOOSE i \in 1..Len(list) : list[i] = x
  <2>1. i \in 1..Len(list) /\ list[i] = x
    BY <1>3
  <2>2. list' = RemoveAt(list, i)
    BY <1>1 DEF Unlink
  <2> HIDE DEF i
  <2> QED BY <2>1, <2>2
<1>8. /\ list' \in Seq(Objects) /\ Distinct(list')
      /\ \A o : o \in ToSet(list') <=> o \in ToSet(list) /\ o # x
  BY <1>1, <1>7, ListWithout
<1>9. ASSUME NEW o \in Objects
      PROVE  Counts(s, o, One(x, o), 2 * One(x, o), x = o)
  BY <1>4, CountsThree
<1>10. /\ Shaped(s)
       /\ \A o : s # <<Step("release", o), Step("add", o)>> /\ s # <<Step("delete", o)>>
  BY <1>4 DEF Shaped, Step
<1> HIDE DEF s
<1>11. ASSUME NEW o \in Objects
       PROVE  /\ Names(s, o) => HeldIn(slot[t], o) >= 1
              /\ OwnsOf(slot[t], s, o) >= 0
              /\ OwnsOf(slot[t], s, o) + On(list', o) = HeldIn(slot[t], o) + On(list, o)
              /\ Times(s, {"add"}, o) >= 1 => OwnsOf(slot[t], s, o) >= 1
  <2>1. HeldIn(slot[t], o) \in Nat
    BY <1>2, HeldProperties
  <2>2. OwnsOf(slot[t], s, o) = HeldIn(slot[t], o) + 2 * One(x, o) - One(x, o)
    BY <1>9 DEF Counts, OwnsOf
  <2>3. Names(s, o) => x = o
    BY <1>9 DEF Counts
  <2>4. Times(s, {"add"}, o) >= 1 => x = o
    BY <1>9 DEF Counts, One
  <2>5. On(list', o) = On(list, o) - One(x, o) /\ On(list, o) \in Nat
    BY <1>1, <1>8 DEF On, One
  <2>6. OwnsOf(slot[t], s, o) >= 0 /\ (x = o => OwnsOf(slot[t], s, o) >= 1)
    BY <2>1, <2>2 DEF One
  <2>7. OwnsOf(slot[t], s, o) + On(list', o) = HeldIn(slot[t], o) + On(list, o)
    BY <2>1, <2>2, <2>5 DEF One
  <2> QED BY <1>6, <2>3, <2>4, <2>6, <2>7
<1>12. s \in Seq(Steps)
  BY <1>4, <1>9 DEF Counts
<1>13. Fair(t, slot[t], s)
  BY <1>2, <1>10, <1>11, <1>12 DEF Fair
<1>14. Placed(t)
  BY <1>1, <1>8 DEF Placed
<1> QED BY <1>1, <1>5, <1>13, <1>14, BeginKeeps

\* The object is out of the reach of other threads, or from now on raced.
LEMMA PopFrontKeeps ==
  ASSUME IInv, NEW t \in Threads, NEW v \in Slots, PopFront(t, v)
  PROVE  IInv'
<1> DEFINE x == Head(list)
           f == [slot[t] EXCEPT ![v] = x]
           s == <<Step("release", x), Step("add", x)>>
<1>1. /\ list # <<>> /\ slot[t][v] = Null /\ user = Null /\ user' = t
      /\ list' = Tail(list) /\ list \in Seq(Objects) /\ Distinct(list)
      /\ raced' = IF Unshared(t, x) THEN raced ELSE raced \cup {x}
      /\ Begin(t, f, Do("release", x) \o Do("add", x))
  BY DEF PopFront, Enter, IInv, RefTypeOK
<1>2. /\ Len(list) \in Nat \ {0} /\ x = list[1] /\ list' \in Seq(Objects)
      /\ Len(list') = Len(list) - 1 /\ \A i \in 1..Len(list) - 1 : list'[i] = list[i + 1]
  BY <1>1, HeadTailProperties
<1>3. x \in Objects /\ x \in Pointers
  BY <1>1, <1>2 DEF Pointers
<1>4. Begin(t, f, s)
  BY <1>1, <1>3, NodeSteps
<1> HIDE DEF x
<1>5. Distinct(list')
  BY <1>1, <1>2 DEF Distinct
<1>6. \A o : o \in ToSet(list') <=> o \in ToSet(list) /\ o # x
  <2>1. \A o : o \in ToSet(list') <=> \E i \in 1..Len(list') : list'[i] = o
    BY <1>2, ToSetMembers
  <2>2. \A o : o \in ToSet(list) <=> \E i \in 1..Len(list) : list[i] = o
    BY <1>1, ToSetMembers
  <2>3. ASSUME NEW o, o \in ToSet(list') PROVE o \in ToSet(list) /\ o # x
    <3>1. PICK i \in 1..Len(list') : list'[i] = o
      BY <2>1, <2>3
    <3>2. i + 1 \in 1..Len(list) /\ list[i + 1] = o /\ i + 1 # 1 /\ 1 \in 1..Len(list)
      BY <1>2, <3>1
    <3> QED BY <1>1, <1>2, <2>2, <3>2 DEF Distinct
  <2>4. ASSUME NEW o, o \in ToSet(list), o # x PROVE o \in ToSet(list')
    <3>1. PICK i \in 1..Len(list) : list[i] = o
      BY <2>2, <2>4
    <3>2. i - 1 \in 1..Len(list') /\ list'[i - 1] = o
      BY <1>2, <2>4, <3>1
    <3> QED BY <2>1, <3>2
  <2> QED BY <2>3, <2>4
<1>7. x \in ToSet(list)
  BY <1>1, <1>2, ToSetMembers
<1>8. x \notin raced' => Others(t, x)
  <2> SUFFICES ASSUME x \notin raced', NEW u \in Threads \ {t} PROVE ~Has(u, x)
    BY DEF Others
  <2>1. slot[u] \in [Slots -> Pointers] /\ HeldIn(slot[u], x) \in Nat
    BY OwnsTyped DEF IInv
  <2>2. HeldIn(slot[u], x) = 0 /\ ~Names(todo[u], x)
    BY <1>1, <2>1, HeldProperties DEF Unshared, Names
  <2> QED BY <2>2 DEF Has
<1>9. ASSUME NEW o \in Objects
      PROVE  Counts(s, o, One(x, o), One(x, o), x = o)
  BY <1>3, CountsTwo
<1>10. /\ Shaped(s) /\ \A o : s # <<Step("delete", o)>>
       /\ \A o : s = <<Step("release", o), Step("add", o)>> => o = x
  BY <1>3 DEF Shaped, Step
<1>11. /\ f \in [Slots -> Pointers]
       /\ \A o \in Objects : HeldIn(f, o) = HeldIn(slot[t], o) - One(Null, o) + One(x, o)
  BY <1>1, <1>3, SlotSet
<1> HIDE DEF s, f
<1>12. ASSUME NEW o \in Objects
       PROVE  /\ HeldIn(f, o) >= 1 \/ Names(s, o) => HeldIn(slot[t], o) >= 1 \/ x = o
              /\ OwnsOf(f, s, o) >= 0
              /\ OwnsOf(f, s, o) + On(list', o) = HeldIn(slot[t], o) + On(list, o)
              /\ Times(s, {"add"}, o) >= 1 => OwnsOf(f, s, o) >= 1
              /\ x = o => HeldIn(f, o) >= 1
  <2>1. HeldIn(slot[t], o) \in Nat
    BY OwnsTyped DEF IInv
  <2>2. HeldIn(f, o) = HeldIn(slot[t], o) + One(x, o)
    <3>1. One(Null, o) = 0 /\ One(x, o) \in Nat
      BY RefPtrAssumption DEF One
    <3> QED BY <1>11, <2>1, <3>1
  <2>3. OwnsOf(f, s, o) = HeldIn(f, o) + One(x, o) - One(x, o)
    BY <1>9 DEF Counts, OwnsOf
  <2>4. (Names(s, o) => x = o) /\ (Times(s, {"add"}, o) >= 1 => x = o)
    BY <1>9 DEF Counts, One
  <2>5. On(list', o) = On(list, o) - One(x, o) /\ On(list, o) \in Nat
    BY <1>6, <1>7 DEF On, One
  <2>6. /\ OwnsOf(f, s, o) >= 0 /\ (x = o => OwnsOf(f, s, o) >= 1)
        /\ x = o => HeldIn(f, o) >= 1
        /\ HeldIn(f, o) >= 1 => HeldIn(slot[t], o) >= 1 \/ x = o
    BY <2>1, <2>2, <2>3 DEF One
  <2>7. OwnsOf(f, s, o) + On(list', o) = HeldIn(slot[t], o) + On(list, o)
    BY <2>1, <2>2, <2>3, <2>5 DEF One
  <2> QED BY <2>4, <2>6, <2>7
<1>13. s \in Seq(Steps)
  BY <1>3, <1>9 DEF Counts
<1>14. Fair(t, f, s)
  BY <1>1, <1>6, <1>7, <1>8, <1>10, <1>11, <1>12, <1>13 DEF Fair
<1>15. Placed(t)
  BY <1>1, <1>2, <1>5, <1>6 DEF Placed
<1>16. raced \subseteq raced' /\ raced' \subseteq Objects
  BY <1>1, <1>3 DEF IInv, RefTypeOK
<1> QED BY <1>4, <1>14, <1>15, <1>16, BeginKeeps

-----------------------------------------------------------------------------
(* The theorems. *)

LEMMA Initially == RefInit => IInv
<1> SUFFICES ASSUME RefInit PROVE IInv
  OBVIOUS
<1>1. RefTypeOK /\ fault \subseteq raced /\ list = <<>>
  <2>1. ref_count \in [Objects -> Int] /\ alive \subseteq Objects /\ user \in Threads \cup {Null}
    BY DEF RefInit
  <2>2. slot \in [Threads -> [Slots -> Pointers]]
    BY DEF RefInit, Pointers
  <2>3. list \in Seq(Objects) /\ todo \in [Threads -> Seq([op : Ops, obj : Objects])]
    BY DEF RefInit
  <2> QED BY <2>1, <2>2, <2>3 DEF RefInit, RefTypeOK
<1>2. \A o : o \notin ToSet(list)
  BY <1>1 DEF ToSet
<1>3. Distinct(list)
  BY <1>1 DEF Distinct
<1>4. \A t \in Threads : todo[t] = <<>>
  BY DEF RefInit
<1>5. ASSUME NEW t \in Threads, NEW o \in Objects
      PROVE  /\ HeldIn(slot[t], o) = 0 /\ ~Has(t, o)
             /\ OwnsOf(slot[t], todo[t], o) = 0
             /\ Covered(t, o) /\ Popping(t, o) /\ Deleting(t, o)
  <2>1. slot[t] \in [Slots -> Pointers] /\ \A v \in Slots : slot[t][v] # o
    BY RefPtrAssumption DEF RefInit, Pointers
  <2>2. HeldIn(slot[t], o) = 0
    BY <2>1, HeldProperties
  <2>3. Times(todo[t], Rel, o) = 0 /\ Times(todo[t], {"add"}, o) = 0
    BY <1>4, TimesEmpty
  <2>4. ~Has(t, o)
    BY <1>4, <2>2 DEF Has, Names
  <2>5. OwnsOf(slot[t], todo[t], o) = 0
    BY <2>2, <2>3 DEF OwnsOf
  <2>6. Covered(t, o) /\ Popping(t, o) /\ Deleting(t, o)
    <3>1. todo[t] # <<Step("release", o), Step("add", o)>> /\ todo[t] # <<Step("delete", o)>>
      BY <1>4
    <3> QED BY <2>3, <3>1 DEF Covered, Popping, Deleting
  <2> QED BY <2>2, <2>4, <2>5, <2>6
<1>6. ASSUME NEW o \in Objects PROVE CountOf(o) /\ Freed(o) /\ Allocated(o)
  <2> DEFINE g == [t \in Threads |-> OwnsOf(slot[t], todo[t], o)]
  <2>1. g \in [Threads -> Int] /\ \A t \in Threads : ~(g[t] >= 1)
    BY <1>5
  <2>2. Cardinality(Refs(g)) = 0
    <3> HIDE DEF g
    <3> QED BY <2>1, RefsSome
  <2>3. ref_count[o] = 0 /\ On(list, o) = 0 /\ alive = {}
    BY <1>2 DEF RefInit, On
  <2>4. CountOf(o)
    BY <1>5, <2>2, <2>3 DEF CountOf
  <2> QED BY <1>2, <1>5, <2>3, <2>4 DEF Freed, Allocated
<1>7. \A t \in Threads : Shaped(todo[t])
  BY <1>4 DEF Shaped
<1> QED BY <1>1, <1>3, <1>5, <1>6, <1>7 DEF IInv, Clean

LEMMA Stuttering ==
  ASSUME IInv, UNCHANGED refVars
  PROVE  IInv'
<1>1. /\ ref_count' = ref_count /\ alive' = alive /\ slot' = slot /\ list' = list
      /\ user' = user /\ todo' = todo /\ fault' = fault /\ raced' = raced
  BY DEF refVars
<1>2. RefTypeOK' /\ fault' \subseteq raced' /\ Distinct(list)' /\ \A t \in Threads : Shaped(todo[t])'
  BY <1>1 DEF IInv, RefTypeOK
<1>3. \A t \in Threads, o \in Objects : Has(t, o)' <=> Has(t, o)
  BY <1>1 DEF Has
<1>4. \A t \in Threads, o \in Objects : Others(t, o)' <=> Others(t, o)
  BY <1>3 DEF Others
<1>5. \A t \in Threads, o \in Objects : Alone(t, o)' <=> Alone(t, o)
  BY <1>1, <1>4 DEF Alone
<1>6. \A t \in Threads, o \in Clean : Covered(t, o)' /\ Popping(t, o)' /\ Deleting(t, o)'
  BY <1>1, <1>4, <1>5 DEF IInv, Covered, Popping, Deleting, Clean
<1>7. \A o \in Clean : CountOf(o)' /\ Freed(o)' /\ Allocated(o)'
  BY <1>1, <1>3 DEF IInv, CountOf, Freed, Allocated, Clean
<1> QED BY <1>1, <1>2, <1>6, <1>7 DEF IInv, Clean

LEMMA Inductive ==
  ASSUME IInv, [RefNext]_refVars
  PROVE  IInv'
<1>1. CASE UNCHANGED refVars
  BY <1>1, Stuttering
<1>2. CASE \E t \in Threads : RefStep(t)
  <2>1. PICK t \in Threads :
          \/ \E v \in Slots, o \in Objects : MakeRefPtr(t, v, o)
          \/ \E v, w \in Slots :
               CopyConstruct(t, v, w) \/ CopyAssign(t, v, w) \/ MoveAssign(t, v, w)
          \/ \E v \in Slots :
               \/ Drop(t, v) \/ First(t, v)
               \/ PushBack(t, v) \/ PopFront(t, v) \/ RemoveNode(t, v)
          \/ \E o \in Objects :
               AddRef(t, o) \/ Release(t, o) \/ Destroy(t, o) \/ Delete(t, o)
    BY <1>2 DEF RefStep
  <2>2. CASE \E v \in Slots, o \in Objects : MakeRefPtr(t, v, o)
    BY <2>2, MakeKeeps
  <2>3. CASE \E v, w \in Slots :
               CopyConstruct(t, v, w) \/ CopyAssign(t, v, w) \/ MoveAssign(t, v, w)
    BY <2>3, CopyConstructKeeps, CopyAssignKeeps, MoveAssignKeeps
  <2>4. CASE \E v \in Slots :
               \/ Drop(t, v) \/ First(t, v)
               \/ PushBack(t, v) \/ PopFront(t, v) \/ RemoveNode(t, v)
    BY <2>4, DropKeeps, FirstKeeps, PushBackKeeps, PopFrontKeeps, RemoveNodeKeeps
  <2>5. CASE \E o \in Objects :
               AddRef(t, o) \/ Release(t, o) \/ Destroy(t, o) \/ Delete(t, o)
    BY <2>5, AddRefKeeps, ReleaseKeeps, DestroyKeeps, DeleteKeeps
  <2> QED BY <2>1, <2>2, <2>3, <2>4, <2>5
<1> QED BY <1>1, <1>2 DEF RefNext

\* The inductive invariant holds in every state.
THEOREM Invariance ==
  RefSpec => []IInv
<1>1. IInv /\ [RefNext]_refVars => IInv'
  BY Inductive
<1> QED BY Initially, <1>1, PTL DEF RefSpec

\* RefCountable: add_ref, release and the list's own references are counted
\* exactly, whatever the threads interleave.
THEOREM CountsExact ==
  RefSpec => []CountExact
<1>1. IInv => CountExact
  <2> SUFFICES ASSUME IInv, NEW o \in Objects \ raced
               PROVE  /\ \A t \in Threads : Owns(t, o) >= 0
                      /\ ref_count[o] =
                           Cardinality(UNION {{t} \X (1..Owns(t, o)) : t \in Threads})
                             + IF o \in ToSet(list) THEN 1 ELSE 0
    BY DEF CountExact
  <2> DEFINE g == [t \in Threads |-> OwnsOf(slot[t], todo[t], o)]
  <2>1. \A t \in Threads : Owns(t, o) = OwnsOf(slot[t], todo[t], o)
    BY DEF Owns, HeldBy, Pending, OwnsOf, HeldIn, Times, Rel
  <2>2. /\ \A t \in Threads : OwnsOf(slot[t], todo[t], o) >= 0
        /\ ref_count[o] = Cardinality(Refs(g)) + On(list, o)
    BY DEF IInv, CountOf, Clean
  <2>3. UNION {{t} \X (1..Owns(t, o)) : t \in Threads} = Refs(g)
    BY <2>1 DEF Refs
  <2> HIDE DEF g
  <2> QED BY <2>1, <2>2, <2>3 DEF On
<1> QED BY <1>1, Invariance, PTL

\* RefPtr and IntrusiveList<RefPtr<T>>: a count is changed in, or a delete
\* reaches, memory that was freed only if pop_front or pop_back released the
\* object while another thread had it.
THEOREM DanglingFromPop ==
  RefSpec => []OnlyPopDangles
<1>1. IInv => OnlyPopDangles
  BY DEF IInv, OnlyPopDangles
<1> QED BY <1>1, Invariance, PTL

\* RefPtr::destroy: an object at rest is allocated exactly while a variable or
\* the list holds it.
THEOREM ObjectsLiveWhileHeld ==
  RefSpec => []Lifetime
<1>1. IInv => Lifetime
  <2> SUFFICES ASSUME IInv, NEW o \in Objects \ raced,
                      \A t \in Threads : \A i \in 1..Len(todo[t]) : todo[t][i].obj # o
               PROVE  o \in alive <=>
                        o \in ToSet(list) \/ \E t \in Threads : HeldBy(t, o) > 0
    BY DEF Lifetime
  <2>1. \A t \in Threads : ~Names(todo[t], o) /\ HeldBy(t, o) = HeldIn(slot[t], o)
    BY DEF Names, HeldBy, HeldIn
  <2>2. \A t \in Threads : HeldIn(slot[t], o) \in Nat /\ (Has(t, o) <=> HeldIn(slot[t], o) >= 1)
    BY <2>1, OwnsTyped DEF IInv, Has
  <2>3. ASSUME o \notin alive
        PROVE  ~(o \in ToSet(list) \/ \E t \in Threads : HeldBy(t, o) > 0)
    BY <2>1, <2>2, <2>3 DEF IInv, Freed, Clean
  <2>4. ASSUME o \in alive, o \notin ToSet(list)
        PROVE  \E t \in Threads : HeldBy(t, o) > 0
    <3> DEFINE g == [t \in Threads |-> OwnsOf(slot[t], todo[t], o)]
    <3>1. \A t \in Threads : todo[t] \notin {<<Step("add", o)>>, <<Step("delete", o)>>}
      <4>1. Names(<<Step("add", o)>>, o) /\ Names(<<Step("delete", o)>>, o)
        BY CountsOne DEF Counts
      <4> QED BY <2>1, <4>1
    <3>2. ref_count[o] >= 1 /\ ref_count[o] = Cardinality(Refs(g)) + On(list, o)
      BY <2>4, <3>1 DEF IInv, Allocated, CountOf, Clean
    <3>3. g \in [Threads -> Int]
      BY OwnsTyped DEF IInv
    <3>4. Cardinality(Refs(g)) # 0
      <4> HIDE DEF g
      <4> QED BY <2>4, <3>2 DEF On
    <3>5. PICK t \in Threads : g[t] >= 1
      <4> HIDE DEF g
      <4> QED BY <3>3, <3>4, RefsSome
    <3>6. Times(todo[t], Rel, o) = 0 /\ Times(todo[t], {"add"}, o) = 0
      <4>1. todo[t] \in Seq(Steps)
        BY OwnsTyped DEF IInv
      <4> QED BY <2>1, <4>1, TimesProperties DEF Names
    <3>7. HeldIn(slot[t], o) >= 1
      BY <2>2, <3>5, <3>6 DEF OwnsOf
    <3> QED BY <2>1, <2>2, <3>7
  <2> QED BY <2>3, <2>4
<1> QED BY <1>1, Invariance, PTL
=============================================================================
