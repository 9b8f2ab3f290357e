--------------------------- MODULE SpinlockProofs ---------------------------
(***************************************************************************)
(* Exclusion and interrupt flags of core::Spinlock, for any number of CPUs *)
(* and locks, with and without interrupt handlers that take locks, and for *)
(* both readings of spin_lock (ByValue).                                   *)
(***************************************************************************)
EXTENDS Spinlock, SequenceTheorems, TLAPS

-----------------------------------------------------------------------------
\* Guards nest in the order of the locks, and a level with no Guard is
\* outside of lock() and unlock().
Nested ==
  \A c \in Cpus, x \in Levels :
    /\ pc[c][x] = "out" <=> guards[c][x] = <<>>
    /\ \A i, j \in 1..Len(guards[c][x]) :
         i < j => guards[c][x][i].lock < guards[c][x][j].lock

\* A lock that some level has is set in the word spin_lock works on.
WordsSet ==
  \A c \in Cpus, x \in Levels, l \in Locks : Has(c, x, l) => word[SpinWord(l)] = 1

\* The first Guard of a thread saved what the thread wants, all others saved
\* cleared flags.
SavedFlags ==
  \A c \in Cpus :
    /\ \A i \in 1..Len(guards[c]["thread"]) :
         guards[c]["thread"][i].flags = (i = 1 /\ wanted[c])
    /\ \A i \in 1..Len(guards[c]["handler"]) : ~guards[c]["handler"][i].flags

\* What RFLAGS.IF is at each place.  A handler came where the thread had it
\* set: outside of locks, or between the two steps of its last unlock().
FlagsAt(c) ==
  IF level[c] = "thread"
  THEN /\ pc[c]["handler"] = "out"
       /\ pc[c]["thread"] = "out" => irq[c] = wanted[c]
       /\ pc[c]["thread"] = "release" => irq[c] = Top(c).flags
       /\ pc[c]["thread"] \in {"spin", "in"} => ~irq[c]
  ELSE /\ ~irq[c] /\ wanted[c]
       /\ pc[c]["thread"] \in {"out", "release"} /\ Len(guards[c]["thread"]) <= 1

FlagsNow == \A c \in Cpus : FlagsAt(c)

IInv == TypeOK /\ Nested /\ Exclusion /\ WordsSet /\ SavedFlags /\ FlagsNow

-----------------------------------------------------------------------------
LEMMA InitIInv == Init => IInv
<1> SUFFICES ASSUME Init PROVE IInv
  OBVIOUS
<1>1. TypeOK
  BY SpinlockAssumption DEF Init, TypeOK, Levels
<1>2. \A c \in Cpus, x \in Levels : guards[c][x] = <<>> /\ Len(guards[c][x]) = 0
  BY DEF Init
<1>3. \A c \in Cpus, x \in Levels, l \in Locks : ~Has(c, x, l)
  BY <1>2 DEF Has
<1>4. Nested /\ SavedFlags
  BY <1>2 DEF Init, Nested, SavedFlags, Levels
<1>5. Exclusion /\ WordsSet
  BY <1>3 DEF Exclusion, WordsSet
<1>6. FlagsNow
  BY DEF Init, FlagsNow, FlagsAt, Levels
<1> QED BY <1>1, <1>4, <1>5, <1>6 DEF IInv

\* SpinWord is the lock's own word, or one that no unlock() clears.
LEMMA SpinWordType ==
  \A l \in Locks : SpinWord(l) \in Locks \cup {0} /\ SpinWord(l) \in {0, l} /\ l # 0
BY SpinlockAssumption DEF SpinWord

\* lock() up to the spinning.
LEMMA LockStep ==
  ASSUME IInv, NEW c \in Cpus, NEW l \in Locks, Lock(c, l)
  PROVE  IInv'
<1> DEFINE x == level[c]
           s == guards[c][x]
           g == [lock |-> l, flags |-> irq[c]]
           t == Append(s, g)
           n == Len(s)
<1>1. /\ x \in Levels /\ s \in Seq(Guards) /\ g \in Guards
      /\ pc[c][x] \in {"out", "in"}
      /\ \A i \in 1..n : s[i].lock < l
  BY DEF IInv, TypeOK, Lock, Pc, Held, Guards
<1>2. /\ guards' = [guards EXCEPT ![c][x] = t]
      /\ irq' = [irq EXCEPT ![c] = FALSE]
      /\ pc' = [pc EXCEPT ![c][x] = "spin"]
      /\ UNCHANGED <<word, level, wanted>>
  BY DEF IInv, TypeOK, Lock, SaveState, Goto
<1>3. /\ t \in Seq(Guards) /\ t # <<>>
      /\ Len(t) = n + 1 /\ n \in Nat
      /\ \A i \in 1..n : t[i] = s[i]
      /\ t[n + 1] = g
  BY <1>1, AppendProperties, LenProperties
<1>4. g.lock = l /\ g.flags = irq[c]
  OBVIOUS
<1> HIDE DEF t, g
<1>5. TypeOK'
  BY <1>1, <1>2, <1>3 DEF IInv, TypeOK
<1>6. /\ guards'[c][x] = t /\ pc'[c][x] = "spin"
      /\ \A d \in Cpus, y \in Levels : d # c \/ y # x =>
           guards'[d][y] = guards[d][y] /\ pc'[d][y] = pc[d][y]
  BY <1>1, <1>2 DEF IInv, TypeOK
<1>7. Nested'
  <2> SUFFICES ASSUME NEW d \in Cpus, NEW y \in Levels
               PROVE  /\ pc'[d][y] = "out" <=> guards'[d][y] = <<>>
                      /\ \A i, j \in 1..Len(guards'[d][y]) :
                           i < j => guards'[d][y][i].lock < guards'[d][y][j].lock
    BY DEF Nested
  <2>1. CASE d = c /\ y = x
    <3>1. \A i, j \in 1..n : i < j => s[i].lock < s[j].lock
      BY <1>1 DEF IInv, Nested
    <3>2. \A i, j \in 1..n + 1 : i < j => t[i].lock < t[j].lock
      <4> TAKE i, j \in 1..n + 1
      <4> HAVE i < j
      <4>1. i \in 1..n /\ t[i] = s[i]
        BY <1>3
      <4>2. CASE j = n + 1
        BY <1>1, <1>3, <1>4, <4>1, <4>2
      <4>3. CASE j \in 1..n
        BY <1>3, <3>1, <4>1, <4>3
      <4>4. j = n + 1 \/ j \in 1..n
        BY <1>3
      <4> QED BY <4>2, <4>3, <4>4
    <3> QED BY <1>3, <1>6, <2>1, <3>2
  <2>2. CASE d # c \/ y # x
    BY <1>6, <2>2 DEF IInv, Nested
  <2> QED BY <2>1, <2>2
<1>8. \A d \in Cpus, y \in Levels, m \in Locks : Has(d, y, m)' => Has(d, y, m)
  <2> SUFFICES ASSUME NEW d \in Cpus, NEW y \in Levels, NEW m \in Locks, Has(d, y, m)'
               PROVE  Has(d, y, m)
    OBVIOUS
  <2>1. CASE d = c /\ y = x
    <3>1. PICK i \in 1..n + 1 : t[i].lock = m /\ i # n + 1
      BY <1>3, <1>6, <2>1 DEF Has
    <3>2. i \in 1..n /\ s[i].lock = m /\ pc[c][x] # "spin"
      BY <1>1, <1>3, <3>1
    <3> QED BY <2>1, <3>2 DEF Has
  <2>2. CASE d # c \/ y # x
    BY <1>6, <2>2 DEF Has
  <2> QED BY <2>1, <2>2
<1>9. (Exclusion /\ WordsSet)'
  BY <1>2, <1>8 DEF IInv, Exclusion, WordsSet, SpinWord
<1>10. SavedFlags'
  <2> SUFFICES ASSUME NEW d \in Cpus
               PROVE  /\ \A i \in 1..Len(guards'[d]["thread"]) :
                           guards'[d]["thread"][i].flags = (i = 1 /\ wanted'[d])
                      /\ \A i \in 1..Len(guards'[d]["handler"]) :
                           ~guards'[d]["handler"][i].flags
    BY DEF SavedFlags
  <2>1. CASE d # c
    BY <1>2, <1>6, <2>1 DEF IInv, SavedFlags, Levels
  <2>2. CASE d = c /\ x = "handler"
    BY <1>2, <1>3, <1>4, <1>6, <2>2 DEF IInv, SavedFlags, FlagsNow, FlagsAt, Levels
  <2>3. CASE d = c /\ x = "thread"
    <3>1. n = 0 => irq[c] = wanted[c]
      BY <1>1, <1>3, <2>3 DEF IInv, TypeOK, FlagsNow, FlagsAt, Nested, Levels
    <3>2. n # 0 => irq[c] = FALSE
      BY <1>1, <1>3, <2>3 DEF IInv, TypeOK, FlagsNow, FlagsAt, Nested, Levels
    <3>3. guards'[d]["thread"] = t /\ guards'[d]["handler"] = guards[d]["handler"]
      BY <1>6, <2>3 DEF Levels
    <3>4. ASSUME NEW i \in 1..n + 1 PROVE t[i].flags = (i = 1 /\ wanted[c])
      <4>1. CASE i \in 1..n
        BY <1>3, <2>3, <4>1 DEF IInv, SavedFlags
      <4>2. CASE i = n + 1 /\ n = 0
        <5>1. i = 1 /\ t[i].flags = wanted[c]
          BY <1>3, <1>4, <3>1, <4>2
        <5>2. wanted[c] \in BOOLEAN
          BY DEF IInv, TypeOK
        <5> QED BY <5>1, <5>2
      <4>3. CASE i = n + 1 /\ n # 0
        <5>1. i # 1
          BY <1>3, <4>3
        <5> QED BY <1>3, <1>4, <3>2, <4>3, <5>1
      <4> QED BY <1>3, <4>1, <4>2, <4>3
    <3> QED BY <1>2, <1>3, <2>3, <3>3, <3>4 DEF IInv, SavedFlags
  <2> QED BY <1>1, <2>1, <2>2, <2>3 DEF Levels
<1>11. FlagsNow'
  <2> SUFFICES ASSUME NEW d \in Cpus PROVE FlagsAt(d)'
    BY DEF FlagsNow
  <2>1. CASE d # c
    BY <1>2, <1>6, <2>1 DEF IInv, TypeOK, FlagsNow, FlagsAt, Levels, Top, Held
  <2>2. CASE d = c
    <3>1. level'[c] = x /\ ~irq'[c] /\ wanted'[c] = wanted[c]
      BY <1>2 DEF IInv, TypeOK
    <3>2. CASE x = "thread"
      BY <1>6, <2>2, <3>1, <3>2 DEF IInv, FlagsNow, FlagsAt, Levels
    <3>3. CASE x = "handler"
      BY <1>6, <2>2, <3>1, <3>3 DEF IInv, FlagsNow, FlagsAt, Levels
    <3> QED BY <1>1, <3>2, <3>3 DEF Levels
  <2> QED BY <2>1, <2>2
<1> QED BY <1>5, <1>7, <1>9, <1>10, <1>11 DEF IInv

\* A level that runs, and its innermost Guard.
LEMMA TopFacts ==
  ASSUME IInv, NEW c \in Cpus, Pc(c) # "out"
  PROVE  /\ level[c] \in Levels /\ Held(c) \in Seq(Guards) /\ Held(c) # <<>>
         /\ Len(Held(c)) \in Nat \ {0}
         /\ Top(c) \in Guards /\ Top(c).lock \in Locks /\ Top(c).flags \in BOOLEAN
         /\ SpinWord(Top(c).lock) \in Locks \cup {0}
<1>1. level[c] \in Levels /\ Held(c) \in Seq(Guards) /\ Held(c) # <<>>
  BY DEF IInv, TypeOK, Nested, Held, Pc
<1>2. Len(Held(c)) \in Nat \ {0}
  BY <1>1, EmptySeq
<1>3. Top(c) \in Guards
  BY <1>1, <1>2, ElementOfSeq DEF Top
<1>4. Top(c).lock \in Locks /\ Top(c).flags \in BOOLEAN
  BY <1>3 DEF Guards
<1> QED BY <1>1, <1>2, <1>3, <1>4, SpinWordType

\* What only the guards and wanted decide stays with them.
LEMMA GuardsSame ==
  ASSUME IInv, UNCHANGED <<guards, wanted>>
  PROVE  SavedFlags'
BY DEF IInv, SavedFlags

\* The bit was clear, so nobody had the lock.
LEMMA SpinAcquireStep ==
  ASSUME IInv, NEW c \in Cpus, SpinAcquire(c)
  PROVE  IInv'
<1> DEFINE x == level[c]
           l == Top(c).lock
           w == SpinWord(l)
<1>1. /\ x \in Levels /\ l \in Locks /\ w \in Locks \cup {0} /\ pc[c][x] = "spin"
      /\ guards[c][x] # <<>>
  BY TopFacts DEF SpinAcquire, Pc, Held
<1>2. /\ word[w] = 0 /\ word' = [word EXCEPT ![w] = 1]
      /\ pc' = [pc EXCEPT ![c][x] = "in"]
      /\ UNCHANGED <<irq, level, guards, wanted>>
  BY DEF SpinAcquire, Goto
<1>3. \A d \in Cpus, y \in Levels :
        pc'[d][y] = IF d = c /\ y = x THEN "in" ELSE pc[d][y]
  BY <1>1, <1>2 DEF IInv, TypeOK
<1>4. \A v \in Locks \cup {0} : word'[v] = IF v = w THEN 1 ELSE word[v]
  BY <1>2 DEF IInv, TypeOK
<1>5. ASSUME NEW d \in Cpus, NEW y \in Levels, NEW m \in Locks, Has(d, y, m)',
             ~(d = c /\ y = x /\ m = l)
      PROVE  Has(d, y, m) /\ SpinWord(m) # w
  <2>1. Has(d, y, m)
    <3>1. CASE d = c /\ y = x
      <4>1. PICK i \in 1..Len(guards[c][x]) : guards[c][x][i].lock = m
        BY <1>2, <1>5, <3>1 DEF Has
      <4>2. i # Len(guards[c][x])
        BY <1>5, <3>1, <4>1 DEF Top, Held
      <4> QED BY <3>1, <4>1, <4>2 DEF Has
    <3>2. CASE ~(d = c /\ y = x)
      BY <1>2, <1>3, <1>5, <3>2 DEF Has
    <3> QED BY <3>1, <3>2
  <2>2. word[SpinWord(m)] = 1
    BY <2>1 DEF IInv, WordsSet
  <2> QED BY <1>2, <2>1, <2>2
<1> HIDE DEF w, l
<1>6. TypeOK'
  BY <1>1, <1>2 DEF IInv, TypeOK
<1>7. Nested'
  BY <1>1, <1>2, <1>3 DEF IInv, Nested
<1>8. WordsSet'
  <2> SUFFICES ASSUME NEW d \in Cpus, NEW y \in Levels, NEW m \in Locks, Has(d, y, m)'
               PROVE  word'[SpinWord(m)] = 1
    BY DEF WordsSet, SpinWord
  <2>1. CASE d = c /\ y = x /\ m = l
    BY <1>1, <1>4, <2>1 DEF w
  <2>2. CASE ~(d = c /\ y = x /\ m = l)
    BY <1>1, <1>4, <1>5, <2>2, SpinWordType DEF IInv, WordsSet
  <2> QED BY <2>1, <2>2
<1>9. Exclusion'
  <2> SUFFICES ASSUME NEW m \in Locks, NEW d \in Cpus, NEW e \in Cpus,
                      NEW y \in Levels, NEW z \in Levels, Has(d, y, m)', Has(e, z, m)'
               PROVE  d = e /\ y = z
    BY DEF Exclusion
  <2>1. CASE m = l
    BY <1>5, <2>1 DEF w
  <2>2. CASE m # l
    BY <1>5, <2>2 DEF IInv, Exclusion
  <2> QED BY <2>1, <2>2
<1>10. FlagsNow'
  <2> SUFFICES ASSUME NEW d \in Cpus PROVE FlagsAt(d)'
    BY DEF FlagsNow
  <2> QED BY <1>1, <1>2, <1>3 DEF IInv, TypeOK, FlagsNow, FlagsAt, Levels, Top, Held
<1> QED BY <1>2, <1>6, <1>7, <1>8, <1>9, <1>10, GuardsSame DEF IInv

\* A step that leaves words and guards alone, and no level in lock().
LEMMA HasSame ==
  ASSUME IInv, UNCHANGED <<word, guards>>,
         \A c \in Cpus, x \in Levels : pc[c][x] = "spin" => pc'[c][x] = "spin"
  PROVE  (Exclusion /\ WordsSet)'
<1>1. \A c \in Cpus, x \in Levels, l \in Locks : Has(c, x, l)' => Has(c, x, l)
  BY DEF Has
<1> QED BY <1>1 DEF IInv, Exclusion, WordsSet, SpinWord

\* unlock() first gives the flags back that its lock() saved.
LEMMA UnlockRestoreStep ==
  ASSUME IInv, NEW c \in Cpus, UnlockRestore(c)
  PROVE  IInv'
<1> DEFINE x == level[c]
<1>1. /\ x \in Levels /\ pc[c][x] = "in" /\ guards[c][x] # <<>>
      /\ Top(c).flags \in BOOLEAN
  BY TopFacts DEF UnlockRestore, Pc, Held
<1>2. /\ irq' = [irq EXCEPT ![c] = Top(c).flags]
      /\ pc' = [pc EXCEPT ![c][x] = "release"]
      /\ UNCHANGED <<word, level, guards, wanted>>
  BY DEF UnlockRestore, Goto
<1>3. \A d \in Cpus, y \in Levels :
        pc'[d][y] = IF d = c /\ y = x THEN "release" ELSE pc[d][y]
  BY <1>1, <1>2 DEF IInv, TypeOK
<1>4. TypeOK'
  BY <1>1, <1>2 DEF IInv, TypeOK
<1>5. Nested'
  BY <1>1, <1>2, <1>3 DEF IInv, Nested
<1>6. (Exclusion /\ WordsSet)'
  BY <1>1, <1>2, <1>3, HasSame
<1>7. FlagsNow'
  <2> SUFFICES ASSUME NEW d \in Cpus PROVE FlagsAt(d)'
    BY DEF FlagsNow
  <2>1. CASE d # c
    BY <1>2, <1>3, <2>1 DEF IInv, TypeOK, FlagsNow, FlagsAt, Levels, Top, Held
  <2>2. CASE d = c /\ x = "thread"
    BY <1>2, <1>3, <2>2 DEF IInv, TypeOK, FlagsNow, FlagsAt, Levels, Top, Held
  <2>3. CASE d = c /\ x = "handler"
    <3>1. ~Top(c).flags
      BY <2>3, TopFacts DEF IInv, SavedFlags, Top, Held, UnlockRestore, Pc
    <3> QED BY <1>2, <1>3, <2>3, <3>1 DEF IInv, TypeOK, FlagsNow, FlagsAt, Levels
  <2> QED BY <1>1, <2>1, <2>2, <2>3 DEF Levels
<1> QED BY <1>2, <1>4, <1>5, <1>6, <1>7, GuardsSame DEF IInv

\* Then it clears the word, which no other level needs, and the Guard goes.
LEMMA UnlockReleaseStep ==
  ASSUME IInv, NEW c \in Cpus, UnlockRelease(c)
  PROVE  IInv'
<1> DEFINE x == level[c]
           s == guards[c][x]
           n == Len(s)
           l == Top(c).lock
           t == SubSeq(s, 1, n - 1)
           to == IF n = 1 THEN "out" ELSE "in"
<1>1. /\ x \in Levels /\ s \in Seq(Guards) /\ n \in Nat \ {0}
      /\ l \in Locks /\ l = s[n].lock /\ pc[c][x] = "release"
  BY TopFacts DEF UnlockRelease, Pc, Held, Top
<1>2. /\ word' = [word EXCEPT ![l] = 0]
      /\ guards' = [guards EXCEPT ![c][x] = t]
      /\ pc' = [pc EXCEPT ![c][x] = to]
      /\ UNCHANGED <<irq, level, wanted>>
  BY DEF IInv, TypeOK, UnlockRelease, Goto, Held
<1>3. /\ t \in Seq(Guards) /\ Len(t) = n - 1 /\ (t = <<>> <=> n = 1)
      /\ \A i \in 1..n - 1 : t[i] = s[i]
  <2>1. \A i \in 1..n - 1 : s[i] \in Guards
    BY <1>1, ElementOfSeq
  <2>2. /\ t \in Seq(Guards) /\ Len(t) = n - 1
        /\ \A i \in 1..n - 1 : t[i] = s[i]
    BY <1>1, <2>1
  <2>3. t = <<>> <=> Len(t) = 0
    BY <2>2, EmptySeq
  <2>4. n - 1 = 0 <=> n = 1
    BY <1>1
  <2> QED BY <2>2, <2>3, <2>4
<1> HIDE DEF t, l
<1>4. /\ guards'[c][x] = t /\ pc'[c][x] = to
      /\ \A d \in Cpus, y \in Levels : d # c \/ y # x =>
           guards'[d][y] = guards[d][y] /\ pc'[d][y] = pc[d][y]
  BY <1>1, <1>2 DEF IInv, TypeOK
<1>5. TypeOK'
  BY <1>1, <1>2, <1>3 DEF IInv, TypeOK
<1>6. Nested'
  <2> SUFFICES ASSUME NEW d \in Cpus, NEW y \in Levels
               PROVE  /\ pc'[d][y] = "out" <=> guards'[d][y] = <<>>
                      /\ \A i, j \in 1..Len(guards'[d][y]) :
                           i < j => guards'[d][y][i].lock < guards'[d][y][j].lock
    BY DEF Nested
  <2>1. CASE d = c /\ y = x
    <3>1. \A i, j \in 1..n : i < j => s[i].lock < s[j].lock
      BY <1>1 DEF IInv, Nested
    <3>2. \A i, j \in 1..n - 1 : i < j => t[i].lock < t[j].lock
      <4> TAKE i, j \in 1..n - 1
      <4> HAVE i < j
      <4>1. i \in 1..n /\ j \in 1..n
        BY <1>1
      <4> QED BY <1>3, <3>1, <4>1
    <3> QED BY <1>3, <1>4, <2>1, <3>2
  <2>2. CASE d # c \/ y # x
    BY <1>4, <2>2 DEF IInv, Nested
  <2> QED BY <2>1, <2>2
<1>7. Has(c, x, l)
  BY <1>1 DEF Has
<1>8. ASSUME NEW d \in Cpus, NEW y \in Levels, NEW m \in Locks, Has(d, y, m)'
      PROVE  Has(d, y, m) /\ m # l
  <2>1. CASE d = c /\ y = x
    <3>1. PICK i \in 1..n - 1 : t[i].lock = m
      BY <1>3, <1>4, <1>8, <2>1 DEF Has
    <3>2. i \in 1..n /\ i < n /\ s[i].lock = m
      BY <1>1, <1>3, <3>1
    <3>3. s[i].lock < s[n].lock
      <4>1. n \in 1..n
        BY <1>1
      <4> QED BY <1>1, <3>2, <4>1 DEF IInv, Nested
    <3>4. m # l
      BY <1>1, <3>2, <3>3, SpinlockAssumption
    <3> QED BY <1>1, <2>1, <3>2, <3>4 DEF Has
  <2>2. CASE d # c \/ y # x
    <3>1. Has(d, y, m)
      BY <1>4, <1>8, <2>2 DEF Has
    <3> QED BY <1>1, <1>7, <2>2, <3>1 DEF IInv, Exclusion
  <2> QED BY <2>1, <2>2
<1>9. Exclusion'
  BY <1>8 DEF IInv, Exclusion
<1>10. WordsSet'
  <2> SUFFICES ASSUME NEW d \in Cpus, NEW y \in Levels, NEW m \in Locks, Has(d, y, m)'
               PROVE  word'[SpinWord(m)] = 1
    BY DEF WordsSet, SpinWord
  <2>1. word[SpinWord(m)] = 1 /\ SpinWord(m) # l
    BY <1>1, <1>8, SpinWordType DEF IInv, WordsSet
  <2> QED BY <1>2, <2>1, SpinWordType DEF IInv, TypeOK
<1>11. SavedFlags'
  <2> SUFFICES ASSUME NEW d \in Cpus
               PROVE  /\ \A i \in 1..Len(guards'[d]["thread"]) :
                           guards'[d]["thread"][i].flags = (i = 1 /\ wanted'[d])
                      /\ \A i \in 1..Len(guards'[d]["handler"]) :
                           ~guards'[d]["handler"][i].flags
    BY DEF SavedFlags
  <2>1. CASE d # c
    BY <1>2, <1>4, <2>1 DEF IInv, SavedFlags, Levels
  <2>2. CASE d = c /\ x = "handler"
    BY <1>1, <1>2, <1>3, <1>4, <2>2 DEF IInv, SavedFlags, Levels
  <2>3. CASE d = c /\ x = "thread"
    BY <1>1, <1>2, <1>3, <1>4, <2>3 DEF IInv, SavedFlags, Levels
  <2> QED BY <1>1, <2>1, <2>2, <2>3 DEF Levels
<1>12. FlagsNow'
  <2> SUFFICES ASSUME NEW d \in Cpus PROVE FlagsAt(d)'
    BY DEF FlagsNow
  <2>1. CASE d # c
    BY <1>2, <1>4, <2>1 DEF IInv, TypeOK, FlagsNow, FlagsAt, Levels, Top, Held
  <2>2. CASE d = c /\ x = "handler"
    BY <1>2, <1>4, <2>2 DEF IInv, TypeOK, FlagsNow, FlagsAt, Levels
  <2>3. CASE d = c /\ x = "thread"
    <3>1. irq[c] = s[n].flags
      BY <1>1, <2>3 DEF IInv, FlagsNow, FlagsAt, Top, Held
    <3>2. s[n].flags = (n = 1 /\ wanted[c])
      <4>1. n \in 1..n /\ s = guards[c]["thread"]
        BY <1>1, <2>3
      <4> QED BY <4>1 DEF IInv, SavedFlags
    <3>3. pc'[c]["handler"] = "out" /\ level'[c] = "thread"
      BY <1>2, <1>4, <2>3 DEF IInv, FlagsNow, FlagsAt, Levels
    <3>4. CASE n = 1
      BY <1>2, <1>4, <2>3, <3>1, <3>2, <3>3, <3>4 DEF IInv, TypeOK, FlagsAt
    <3>5. CASE n # 1
      <4>1. ~irq[c]
        BY <3>1, <3>2, <3>5
      <4>2. ~irq'[c] /\ pc'[c]["thread"] = "in"
        BY <1>2, <1>4, <2>3, <3>5, <4>1
      <4> QED BY <2>3, <3>3, <4>2 DEF FlagsAt
    <3> QED BY <3>4, <3>5
  <2> QED BY <1>1, <2>1, <2>2, <2>3 DEF Levels
<1> QED BY <1>5, <1>6, <1>9, <1>10, <1>11, <1>12 DEF IInv

-----------------------------------------------------------------------------
LEMMA SetIrqStep ==
  ASSUME IInv, NEW c \in Cpus, NEW on \in BOOLEAN, SetIrq(c, on)
  PROVE  IInv'
<1>1. /\ level[c] = "thread" /\ pc[c]["thread"] = "out" /\ guards[c]["thread"] = <<>>
      /\ irq' = [irq EXCEPT ![c] = on] /\ wanted' = [wanted EXCEPT ![c] = on]
      /\ UNCHANGED <<word, level, pc, guards>>
  BY DEF IInv, Nested, SetIrq, Pc, Levels
<1>2. TypeOK'
  BY <1>1 DEF IInv, TypeOK
<1>3. Nested'
  BY <1>1 DEF IInv, Nested
<1>4. (Exclusion /\ WordsSet)'
  BY <1>1, HasSame
<1>5. SavedFlags'
  BY <1>1 DEF IInv, TypeOK, SavedFlags
<1>6. FlagsNow'
  <2> SUFFICES ASSUME NEW d \in Cpus PROVE FlagsAt(d)'
    BY DEF FlagsNow
  <2> QED BY <1>1 DEF IInv, TypeOK, FlagsNow, FlagsAt, Top, Held
<1> QED BY <1>2, <1>3, <1>4, <1>5, <1>6 DEF IInv

\* An interrupt finds the flag set, so the thread has one Guard at most, and
\* that one is on its way out.
LEMMA InterruptStep ==
  ASSUME IInv, NEW c \in Cpus, Interrupt(c)
  PROVE  IInv'
<1>1. /\ level[c] = "thread" /\ irq[c]
      /\ level' = [level EXCEPT ![c] = "handler"] /\ irq' = [irq EXCEPT ![c] = FALSE]
      /\ UNCHANGED <<word, pc, guards, wanted>>
  BY DEF Interrupt
<1>2. TypeOK'
  BY <1>1 DEF IInv, TypeOK, Levels
<1>3. Nested'
  BY <1>1 DEF IInv, Nested
<1>4. (Exclusion /\ WordsSet)'
  BY <1>1, HasSame
<1>5. /\ pc[c]["thread"] \in {"out", "release"} /\ wanted[c]
      /\ Len(guards[c]["thread"]) <= 1
  <2>1. pc[c]["thread"] \in {"out", "release"}
    BY <1>1 DEF IInv, TypeOK, FlagsNow, FlagsAt, Levels
  <2>2. CASE pc[c]["thread"] = "out"
    BY <1>1, <2>2 DEF IInv, TypeOK, FlagsNow, FlagsAt, Nested, Levels
  <2>3. CASE pc[c]["thread"] = "release"
    <3>1. Top(c).flags
      BY <1>1, <2>3 DEF IInv, FlagsNow, FlagsAt
    <3>2. /\ Len(guards[c]["thread"]) \in Nat \ {0}
          /\ Top(c) = guards[c]["thread"][Len(guards[c]["thread"])]
      BY <1>1, <2>3, TopFacts DEF Pc, Held, Top
    <3>3. Len(guards[c]["thread"]) = 1 /\ wanted[c]
      <4> DEFINE s == guards[c]["thread"]
      <4>1. Len(s) \in 1..Len(s)
        BY <3>2
      <4>2. s[Len(s)].flags = (Len(s) = 1 /\ wanted[c])
        BY <4>1 DEF IInv, SavedFlags
      <4> QED BY <3>1, <3>2, <4>2
    <3> QED BY <2>3, <3>3
  <2> QED BY <2>1, <2>2, <2>3
<1>6. FlagsNow'
  <2> SUFFICES ASSUME NEW d \in Cpus PROVE FlagsAt(d)'
    BY DEF FlagsNow
  <2>1. CASE d = c
    BY <1>1, <1>5, <2>1 DEF IInv, TypeOK, FlagsAt
  <2>2. CASE d # c
    BY <1>1, <2>2 DEF IInv, TypeOK, FlagsNow, FlagsAt, Top, Held
  <2> QED BY <2>1, <2>2
<1> QED BY <1>1, <1>2, <1>3, <1>4, <1>6, GuardsSame DEF IInv

LEMMA InterruptReturnStep ==
  ASSUME IInv, NEW c \in Cpus, InterruptReturn(c)
  PROVE  IInv'
<1>1. /\ level[c] = "handler" /\ pc[c]["handler"] = "out"
      /\ level' = [level EXCEPT ![c] = "thread"] /\ irq' = [irq EXCEPT ![c] = TRUE]
      /\ UNCHANGED <<word, pc, guards, wanted>>
  BY DEF InterruptReturn, Pc
<1>2. TypeOK'
  BY <1>1 DEF IInv, TypeOK, Levels
<1>3. Nested'
  BY <1>1 DEF IInv, Nested
<1>4. (Exclusion /\ WordsSet)'
  BY <1>1, HasSame
<1>5. /\ pc[c]["thread"] \in {"out", "release"} /\ wanted[c]
      /\ Len(guards[c]["thread"]) <= 1
  BY <1>1 DEF IInv, FlagsNow, FlagsAt
<1>6. pc[c]["thread"] = "release" => Top(c)'.flags
  <2> SUFFICES ASSUME pc[c]["thread"] = "release" PROVE Top(c)'.flags
    OBVIOUS
  <2>1. guards[c]["thread"] \in Seq(Guards) /\ guards[c]["thread"] # <<>>
    BY DEF IInv, TypeOK, Nested, Levels
  <2>2. Len(guards[c]["thread"]) = 1
    <3> DEFINE n == Len(guards[c]["thread"])
    <3>1. n \in Nat \ {0} /\ n <= 1
      BY <1>5, <2>1, EmptySeq
    <3> HIDE DEF n
    <3>2. n = 1
      BY <3>1
    <3> QED BY <3>2 DEF n
  <2>3. Top(c)' = guards[c]["thread"][1]
    BY <1>1, <2>2 DEF IInv, TypeOK, Top, Held
  <2>4. 1 \in 1..Len(guards[c]["thread"])
    BY <2>2
  <2>5. guards[c]["thread"][1].flags = (1 = 1 /\ wanted[c])
    BY <2>4 DEF IInv, SavedFlags
  <2> QED BY <1>5, <2>3, <2>5
<1>7. FlagsNow'
  <2> SUFFICES ASSUME NEW d \in Cpus PROVE FlagsAt(d)'
    BY DEF FlagsNow
  <2>1. CASE d = c
    <3>1. Top(c)'.flags \in BOOLEAN \/ pc[c]["thread"] # "release"
      BY <1>1, <1>6, TopFacts DEF IInv, TypeOK, SavedFlags, Nested, Levels, Top, Held
    <3> QED BY <1>1, <1>5, <1>6, <2>1, <3>1 DEF IInv, TypeOK, FlagsAt
  <2>2. CASE d # c
    BY <1>1, <2>2 DEF IInv, TypeOK, FlagsNow, FlagsAt, Top, Held
  <2> QED BY <2>1, <2>2
<1> QED BY <1>1, <1>2, <1>3, <1>4, <1>7, GuardsSame DEF IInv

LEMMA NextIInv == IInv /\ [Next]_vars => IInv'
<1> SUFFICES ASSUME IInv, [Next]_vars PROVE IInv'
  OBVIOUS
<1>1. CASE UNCHANGED vars
  <2>1. UNCHANGED <<word, irq, level, pc, guards, wanted>>
    BY <1>1 DEF vars
  <2>2. TypeOK' /\ Nested'
    BY <2>1 DEF IInv, TypeOK, Nested
  <2>3. FlagsNow'
    BY <2>1 DEF IInv, FlagsNow, FlagsAt, Top, Held
  <2> QED BY <2>1, <2>2, <2>3, HasSame, GuardsSame DEF IInv
<1>2. CASE Next
  BY <1>2, LockStep, SpinAcquireStep, UnlockRestoreStep, UnlockReleaseStep,
     SetIrqStep, InterruptStep, InterruptReturnStep DEF Next, Steps
<1> QED BY <1>1, <1>2

-----------------------------------------------------------------------------
\* The invariant holds throughout.
THEOREM Invariance == Spec => []IInv
  BY InitIInv, NextIInv, PTL DEF Spec

\* A spinlock has one holder at most, for any CPUs, locks and handlers, whether
\* spin_lock works on the lock's word or, as the x86-64 port, on another one.
THEOREM LocksExclude == Spec => []Exclusion
<1>1. IInv => Exclusion
  BY DEF IInv
<1> QED BY <1>1, Invariance, PTL

\* No interrupt is taken between lock() and unlock(), however locks nest and
\* wherever handlers came before.
THEOREM NoInterruptInside == Spec => []IrqOffInside
<1>1. IInv => IrqOffInside
  BY DEF IInv, TypeOK, FlagsNow, FlagsAt, IrqOffInside, Pc, Levels
<1> QED BY <1>1, Invariance, PTL

\* lock() and unlock() give a thread its interrupt flag back as it set it.
THEOREM FlagsRestored == Spec => []FlagsKept
<1>1. IInv => FlagsKept
  BY DEF IInv, FlagsNow, FlagsAt, FlagsKept, Pc
<1> QED BY <1>1, Invariance, PTL
=============================================================================
