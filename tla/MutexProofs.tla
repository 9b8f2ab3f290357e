---------------------------- MODULE MutexProofs ----------------------------
(***************************************************************************)
(* The safety of core::Mutex, and that it is first-come first-served, for  *)
(* any number of threads, mutexes and CPUs.                                *)
(***************************************************************************)
EXTENDS Mutex, SequenceTheorems, TLAPS

\* The spinlock excludes: a thread at a label inside the spinlock of m is the
\* one that took it, and what it tested there is still so.
SpinlockProtects ==
  \A t \in Threads, m \in Mutexes :
    /\ \A l \in HeldLabels : at[t] = At(l, m) => spin[m] = t
    /\ at[t] = At("lock_take", m) => mstate[m] = "FREE"
    /\ at[t] = At("lock_queue", m) => mstate[m] = "LOCKED"
    /\ at[t] = At("unlock_free", m) => wait_queue[m] = <<>>
    /\ at[t] = At("unlock_hand", m) => wait_queue[m] # <<>>

LockLabels == {"lock", "lock_test", "lock_take", "lock_queue",
               "sleep", "wake", "wake_own"}
UnlockLabels == {"unlock", "unlock_test", "unlock_free", "unlock_hand"}

\* A thread locks only above what it holds and unlocks only what it holds.
GuardOrder ==
  \A t \in Threads, m \in Mutexes :
    /\ \A l \in LockLabels : at[t] = At(l, m) => \A n \in guards[t] : n < m
    /\ \A l \in UnlockLabels : at[t] = At(l, m) => m \in guards[t]

\* Where the threads on each list are: a waiter is about to switch away or
\* has done so; a ready thread is off the CPU, unless it was woken between
\* dropping the spinlock and switching away.
Placement ==
  \A t \in Threads :
    /\ at[t].l \notin {"run", "wake"} => \E c \in Cpus : curthread[c] = t
    /\ \A m \in Mutexes : In(t, wait_queue[m]) =>
         \/ at[t] = At("sleep", m)
         \/ at[t] = At("wake", m) /\ \A c \in Cpus : curthread[c] # t
    /\ \A c \in Cpus : In(t, thread_queue[c]) =>
         \/ at[t].l = "sleep"
         \/ at[t].l \in {"run", "wake"} /\ \A d \in Cpus : curthread[d] # t

\* Until a second CPU picks it up, a thread about to switch away is a waiter
\* or has been woken.
SleeperListed ==
  OneCpuPerThread =>
    \A t \in Threads, m \in Mutexes : at[t] = At("sleep", m) =>
      In(t, wait_queue[m]) \/ \E c \in Cpus : In(t, thread_queue[c])

\* The scheduler loses nobody, as far as the lists go.
Somewhere ==
  \A t \in Threads :
    /\ \/ \E c \in Cpus : curthread[c] = t \/ In(t, thread_queue[c])
       \/ \E m \in Mutexes : In(t, wait_queue[m])
    /\ state[t] = "BLOCKED" <=> \E m \in Mutexes : In(t, wait_queue[m])

IInv == /\ TypeOK /\ MutualExclusion /\ OwnerIsHolder /\ NoOrphanedMutex
        /\ OneListPerThread /\ SpinlockProtects /\ GuardOrder /\ Placement
        /\ SleeperListed /\ Somewhere

-----------------------------------------------------------------------------
(* Membership in a list and the list operations the scheduler uses. *)

LEMMA InEmpty == \A t : ~In(t, <<>>)
  BY DEF In

LEMMA DistinctEmpty == Distinct(<<>>)
  BY DEF Distinct

\* push_back adds one element.
LEMMA InAppend ==
  ASSUME NEW S, NEW s \in Seq(S), NEW x \in S, NEW t
  PROVE  In(t, Append(s, x)) <=> (In(t, s) \/ t = x)
<1>1. /\ Len(Append(s, x)) = Len(s) + 1
      /\ \A i \in 1..Len(s) : Append(s, x)[i] = s[i]
      /\ Append(s, x)[Len(s) + 1] = x
      /\ Len(s) \in Nat
  OBVIOUS
<1>2. ASSUME In(t, Append(s, x)), t # x PROVE In(t, s)
  <2>1. PICK i \in 1..Len(Append(s, x)) : Append(s, x)[i] = t
    BY <1>2 DEF In
  <2>2. i \in 1..Len(s)
    BY <1>1, <1>2, <2>1
  <2> QED BY <1>1, <2>1, <2>2 DEF In
<1>3. ASSUME In(t, s) PROVE In(t, Append(s, x))
  <2>1. PICK i \in 1..Len(s) : s[i] = t
    BY <1>3 DEF In
  <2> QED BY <1>1, <2>1 DEF In
<1>4. ASSUME t = x PROVE In(t, Append(s, x))
  BY <1>1, <1>4 DEF In
<1> QED BY <1>2, <1>3, <1>4

\* push_back of an element that is on no list keeps the elements distinct.
LEMMA DistinctAppend ==
  ASSUME NEW S, NEW s \in Seq(S), NEW x \in S, Distinct(s), ~In(x, s)
  PROVE  Distinct(Append(s, x))
<1>1. /\ Len(Append(s, x)) = Len(s) + 1
      /\ \A i \in 1..Len(s) : Append(s, x)[i] = s[i]
      /\ Append(s, x)[Len(s) + 1] = x
      /\ Len(s) \in Nat
  OBVIOUS
<1> QED BY <1>1 DEF Distinct, In

\* pop_front removes exactly the head.
LEMMA TailProperties ==
  ASSUME NEW S, NEW s \in Seq(S), s # <<>>, Distinct(s)
  PROVE  /\ Tail(s) \in Seq(S)
         /\ Head(s) \in S
         /\ In(Head(s), s)
         /\ Distinct(Tail(s))
         /\ \A t : In(t, Tail(s)) <=> (In(t, s) /\ t # Head(s))
<1>1. /\ Len(s) \in Nat \ {0}
      /\ Head(s) = s[1] /\ Head(s) \in S
      /\ Tail(s) \in Seq(S)
      /\ Len(Tail(s)) = Len(s) - 1
      /\ \A i \in 1..Len(s) - 1 : Tail(s)[i] = s[i + 1]
  OBVIOUS
<1>2. In(Head(s), s)
  BY <1>1 DEF In
<1>3. Distinct(Tail(s))
  BY <1>1 DEF Distinct
<1>4. ASSUME NEW t, In(t, Tail(s)) PROVE In(t, s) /\ t # Head(s)
  <2>1. PICK i \in 1..Len(s) - 1 : s[i + 1] = t
    BY <1>1, <1>4 DEF In
  <2> QED BY <1>1, <2>1 DEF In, Distinct
<1>5. ASSUME NEW t, In(t, s), t # Head(s) PROVE In(t, Tail(s))
  <2>1. PICK i \in 1..Len(s) : s[i] = t
    BY <1>5 DEF In
  <2>2. i - 1 \in 1..Len(s) - 1 /\ Tail(s)[i - 1] = t
    BY <1>1, <1>5, <2>1
  <2> QED BY <1>1, <2>2 DEF In
<1> QED BY <1>1, <1>2, <1>3, <1>4, <1>5

-----------------------------------------------------------------------------
(* The invariant is inductive: one lemma per action. *)

\* A control point determines its label and its mutex.
LEMMA AtParts ==
  ASSUME NEW l, NEW m, NEW k, NEW n
  PROVE  /\ At(l, m).l = l /\ At(l, m).m = m
         /\ At(l, m) = At(k, n) <=> (l = k /\ m = n)
  <1>1. At(l, m).l = l /\ At(l, m).m = m /\ At(k, n).l = k /\ At(k, n).m = n
    BY DEF At
  <1> QED BY <1>1

\* A step that leaves every claim and the fields of the mutexes alone.
LEMMA SameClaims ==
  ASSUME IInv, UNCHANGED <<mstate, owner, wait_queue, guards>>,
         \A t \in Threads, m \in Mutexes : Granted(t, m)' <=> Granted(t, m)
  PROVE  (MutualExclusion /\ OwnerIsHolder /\ NoOrphanedMutex)'
  BY DEF IInv, MutualExclusion, OwnerIsHolder, NoOrphanedMutex, Claims

LEMMA LockInv ==
  ASSUME IInv, NEW c \in Cpus, NEW m \in Mutexes, Runs(c), Lock(c, m)
  PROVE  IInv'
<1> DEFINE t == curthread[c]
<1>1. /\ t \in Threads /\ at[t] = Outside
      /\ at' = [at EXCEPT ![t] = At("lock", m)]
      /\ UNCHANGED <<halted, curthread, thread_queue, state, mutexVars>>
  BY DEF IInv, TypeOK, Lock, Goto
<1>2. TypeOK'
  BY <1>1 DEF IInv, TypeOK, At, Points, Labels, HeldLabels, mutexVars
<1>3. (MutualExclusion /\ OwnerIsHolder /\ NoOrphanedMutex)'
  <2>1. \A u \in Threads, n \in Mutexes : Granted(u, n)' <=> Granted(u, n)
    BY <1>1 DEF IInv, TypeOK, Granted, At, Outside, mutexVars
  <2> QED BY <1>1, <2>1, SameClaims DEF mutexVars
<1>4. OneListPerThread'
  BY <1>1 DEF IInv, OneListPerThread, mutexVars
<1>5. SpinlockProtects'
  BY <1>1 DEF IInv, TypeOK, SpinlockProtects, HeldLabels, At, Outside, mutexVars
<1>6. GuardOrder'
  BY <1>1 DEF IInv, TypeOK, GuardOrder, LockLabels, UnlockLabels, At, Outside, Lock, mutexVars
<1>7. Placement'
  BY <1>1 DEF IInv, TypeOK, Placement, At, Outside, mutexVars
<1>8. SleeperListed'
  BY <1>1 DEF IInv, TypeOK, SleeperListed, Runs, At, Outside, mutexVars
<1>9. Somewhere'
  BY <1>1 DEF IInv, Somewhere, mutexVars
<1> QED BY <1>2, <1>3, <1>4, <1>5, <1>6, <1>7, <1>8, <1>9 DEF IInv

LEMMA LockSpinInv ==
  ASSUME IInv, NEW c \in Cpus, NEW m \in Mutexes, Runs(c), LockSpin(c, m)
  PROVE  IInv'
<1> DEFINE t == curthread[c]
<1>1. /\ t \in Threads /\ at[t] = At("lock", m)
      /\ at' = [at EXCEPT ![t] = At("lock_test", m)]
      /\ spin[m] = NoThread /\ spin' = [spin EXCEPT ![m] = t]
      /\ UNCHANGED <<halted, curthread, thread_queue, state,
                     wait_queue, owner, mstate, guards>>
  BY DEF IInv, TypeOK, LockSpin, AtLabel, Goto, SpinLock
<1>2. TypeOK'
  BY <1>1 DEF IInv, TypeOK, At, Points, Labels, HeldLabels
<1>3. (MutualExclusion /\ OwnerIsHolder /\ NoOrphanedMutex)'
  <2>1. \A u \in Threads, n \in Mutexes : Granted(u, n)' <=> Granted(u, n)
    BY <1>1 DEF IInv, TypeOK, Granted, At
  <2> QED BY <1>1, <2>1, SameClaims
<1>4. OneListPerThread'
  BY <1>1 DEF IInv, OneListPerThread
<1>5. SpinlockProtects'
  BY <1>1, MutexAssumption DEF IInv, TypeOK, SpinlockProtects, HeldLabels, At
<1>6. GuardOrder'
  BY <1>1 DEF IInv, TypeOK, GuardOrder, LockLabels, UnlockLabels, At
<1>7. Placement'
  BY <1>1 DEF IInv, TypeOK, Placement, At
<1>8. SleeperListed'
  BY <1>1 DEF IInv, TypeOK, SleeperListed, Runs, At
<1>9. Somewhere'
  BY <1>1 DEF IInv, Somewhere
<1> QED BY <1>2, <1>3, <1>4, <1>5, <1>6, <1>7, <1>8, <1>9 DEF IInv

LEMMA WakeSpinInv ==
  ASSUME IInv, NEW c \in Cpus, NEW m \in Mutexes, Runs(c), WakeSpin(c, m)
  PROVE  IInv'
<1> DEFINE t == curthread[c]
<1>1. /\ t \in Threads /\ at[t] = At("wake", m)
      /\ at' = [at EXCEPT ![t] = At("wake_own", m)]
      /\ spin[m] = NoThread /\ spin' = [spin EXCEPT ![m] = t]
      /\ UNCHANGED <<halted, curthread, thread_queue, state,
                     wait_queue, owner, mstate, guards>>
  BY DEF IInv, TypeOK, WakeSpin, AtLabel, Goto, SpinLock
<1>2. TypeOK'
  BY <1>1 DEF IInv, TypeOK, At, Points, Labels, HeldLabels
<1>3. (MutualExclusion /\ OwnerIsHolder /\ NoOrphanedMutex)'
  <2>1. \A u \in Threads, n \in Mutexes : Granted(u, n)' <=> Granted(u, n)
    BY <1>1 DEF IInv, TypeOK, Granted, At
  <2> QED BY <1>1, <2>1, SameClaims
<1>4. OneListPerThread'
  BY <1>1 DEF IInv, OneListPerThread
<1>5. SpinlockProtects'
  BY <1>1, MutexAssumption DEF IInv, TypeOK, SpinlockProtects, HeldLabels, At
<1>6. GuardOrder'
  BY <1>1 DEF IInv, TypeOK, GuardOrder, LockLabels, UnlockLabels, At
<1>7. Placement'
  BY <1>1 DEF IInv, TypeOK, Placement, At
<1>8. SleeperListed'
  BY <1>1 DEF IInv, TypeOK, SleeperListed, Runs, At
<1>9. Somewhere'
  BY <1>1 DEF IInv, Somewhere
<1> QED BY <1>2, <1>3, <1>4, <1>5, <1>6, <1>7, <1>8, <1>9 DEF IInv

LEMMA UnlockSpinInv ==
  ASSUME IInv, NEW c \in Cpus, NEW m \in Mutexes, Runs(c), UnlockSpin(c, m)
  PROVE  IInv'
<1> DEFINE t == curthread[c]
<1>1. /\ t \in Threads /\ at[t] = At("unlock", m)
      /\ at' = [at EXCEPT ![t] = At("unlock_test", m)]
      /\ spin[m] = NoThread /\ spin' = [spin EXCEPT ![m] = t]
      /\ UNCHANGED <<halted, curthread, thread_queue, state,
                     wait_queue, owner, mstate, guards>>
  BY DEF IInv, TypeOK, UnlockSpin, AtLabel, Goto, SpinLock
<1>2. TypeOK'
  BY <1>1 DEF IInv, TypeOK, At, Points, Labels, HeldLabels
<1>3. (MutualExclusion /\ OwnerIsHolder /\ NoOrphanedMutex)'
  <2>1. \A u \in Threads, n \in Mutexes : Granted(u, n)' <=> Granted(u, n)
    BY <1>1 DEF IInv, TypeOK, Granted, At
  <2> QED BY <1>1, <2>1, SameClaims
<1>4. OneListPerThread'
  BY <1>1 DEF IInv, OneListPerThread
<1>5. SpinlockProtects'
  BY <1>1, MutexAssumption DEF IInv, TypeOK, SpinlockProtects, HeldLabels, At
<1>6. GuardOrder'
  BY <1>1 DEF IInv, TypeOK, GuardOrder, LockLabels, UnlockLabels, At
<1>7. Placement'
  BY <1>1 DEF IInv, TypeOK, Placement, At
<1>8. SleeperListed'
  BY <1>1 DEF IInv, TypeOK, SleeperListed, Runs, At
<1>9. Somewhere'
  BY <1>1 DEF IInv, Somewhere
<1> QED BY <1>2, <1>3, <1>4, <1>5, <1>6, <1>7, <1>8, <1>9 DEF IInv

LEMMA LockTestInv ==
  ASSUME IInv, NEW c \in Cpus, NEW m \in Mutexes, Runs(c), LockTest(c, m)
  PROVE  IInv'
<1> DEFINE t == curthread[c]
<1>1. /\ t \in Threads /\ at[t] = At("lock_test", m)
      /\ at' = [at EXCEPT ![t] =
                  At(IF mstate[m] = "FREE" THEN "lock_take" ELSE "lock_queue", m)]
      /\ UNCHANGED <<halted, curthread, thread_queue, state, spin,
                     wait_queue, owner, mstate, guards>>
  BY DEF IInv, TypeOK, LockTest, AtLabel, Goto, mutexVars
<1>2. TypeOK'
  BY <1>1 DEF IInv, TypeOK, At, Points, Labels, HeldLabels
<1>3. (MutualExclusion /\ OwnerIsHolder /\ NoOrphanedMutex)'
  <2>1. \A u \in Threads, n \in Mutexes : Granted(u, n)' <=> Granted(u, n)
    BY <1>1 DEF IInv, TypeOK, Granted, At
  <2> QED BY <1>1, <2>1, SameClaims
<1>4. OneListPerThread'
  BY <1>1 DEF IInv, OneListPerThread
<1>5. SpinlockProtects'
  BY <1>1 DEF IInv, TypeOK, SpinlockProtects, HeldLabels, At
<1>6. GuardOrder'
  BY <1>1 DEF IInv, TypeOK, GuardOrder, LockLabels, UnlockLabels, At
<1>7. Placement'
  BY <1>1 DEF IInv, TypeOK, Placement, At
<1>8. SleeperListed'
  BY <1>1 DEF IInv, TypeOK, SleeperListed, Runs, At
<1>9. Somewhere'
  BY <1>1 DEF IInv, Somewhere
<1> QED BY <1>2, <1>3, <1>4, <1>5, <1>6, <1>7, <1>8, <1>9 DEF IInv

LEMMA UnlockTestInv ==
  ASSUME IInv, NEW c \in Cpus, NEW m \in Mutexes, Runs(c), UnlockTest(c, m)
  PROVE  IInv'
<1> DEFINE t == curthread[c]
<1>1. /\ t \in Threads /\ at[t] = At("unlock_test", m)
      /\ at' = [at EXCEPT ![t] =
                  At(IF wait_queue[m] = <<>> THEN "unlock_free" ELSE "unlock_hand", m)]
      /\ UNCHANGED <<halted, curthread, thread_queue, state, spin,
                     wait_queue, owner, mstate, guards>>
  BY DEF IInv, TypeOK, UnlockTest, AtLabel, Goto, mutexVars
<1>2. TypeOK'
  BY <1>1 DEF IInv, TypeOK, At, Points, Labels, HeldLabels
<1>3. (MutualExclusion /\ OwnerIsHolder /\ NoOrphanedMutex)'
  <2>1. \A u \in Threads, n \in Mutexes : Granted(u, n)' <=> Granted(u, n)
    BY <1>1 DEF IInv, TypeOK, Granted, At
  <2> QED BY <1>1, <2>1, SameClaims
<1>4. OneListPerThread'
  BY <1>1 DEF IInv, OneListPerThread
<1>5. SpinlockProtects'
  BY <1>1 DEF IInv, TypeOK, SpinlockProtects, HeldLabels, At
<1>6. GuardOrder'
  BY <1>1 DEF IInv, TypeOK, GuardOrder, LockLabels, UnlockLabels, At
<1>7. Placement'
  BY <1>1 DEF IInv, TypeOK, Placement, At
<1>8. SleeperListed'
  BY <1>1 DEF IInv, TypeOK, SleeperListed, Runs, At
<1>9. Somewhere'
  BY <1>1 DEF IInv, Somewhere
<1> QED BY <1>2, <1>3, <1>4, <1>5, <1>6, <1>7, <1>8, <1>9 DEF IInv

LEMMA UnlockInv ==
  ASSUME IInv, NEW c \in Cpus, NEW m \in Mutexes, Runs(c), Unlock(c, m)
  PROVE  IInv'
<1> DEFINE t == curthread[c]
<1>1. /\ t \in Threads /\ at[t] = Outside /\ m \in guards[t]
      /\ at' = [at EXCEPT ![t] = At("unlock", m)]
      /\ UNCHANGED <<halted, curthread, thread_queue, state, spin,
                     wait_queue, owner, mstate, guards>>
  BY DEF IInv, TypeOK, OwnerIsHolder, Unlock, DoIHold, Goto, mutexVars
<1>2. TypeOK'
  BY <1>1 DEF IInv, TypeOK, At, Points, Labels, HeldLabels
<1>3. (MutualExclusion /\ OwnerIsHolder /\ NoOrphanedMutex)'
  <2>1. \A u \in Threads, n \in Mutexes : Granted(u, n)' <=> Granted(u, n)
    BY <1>1 DEF IInv, TypeOK, Granted, At, Outside
  <2> QED BY <1>1, <2>1, SameClaims
<1>4. OneListPerThread'
  BY <1>1 DEF IInv, OneListPerThread
<1>5. SpinlockProtects'
  BY <1>1 DEF IInv, TypeOK, SpinlockProtects, HeldLabels, At
<1>6. GuardOrder'
  BY <1>1 DEF IInv, TypeOK, GuardOrder, LockLabels, UnlockLabels, At
<1>7. Placement'
  BY <1>1 DEF IInv, TypeOK, Placement, At, Outside
<1>8. SleeperListed'
  BY <1>1 DEF IInv, TypeOK, SleeperListed, Runs, At, Outside
<1>9. Somewhere'
  BY <1>1 DEF IInv, Somewhere
<1> QED BY <1>2, <1>3, <1>4, <1>5, <1>6, <1>7, <1>8, <1>9 DEF IInv

LEMMA LockTakeInv ==
  ASSUME IInv, NEW c \in Cpus, NEW m \in Mutexes, Runs(c), LockTake(c, m)
  PROVE  IInv'
<1> DEFINE t == curthread[c]
<1>1. /\ t \in Threads /\ at[t] = At("lock_take", m)
      /\ at' = [at EXCEPT ![t] = Outside]
      /\ mstate' = [mstate EXCEPT ![m] = "LOCKED"]
      /\ owner' = [owner EXCEPT ![m] = t]
      /\ guards' = [guards EXCEPT ![t] = @ \cup {m}]
      /\ spin' = [spin EXCEPT ![m] = NoThread]
      /\ UNCHANGED <<halted, curthread, thread_queue, state, wait_queue>>
  BY DEF IInv, TypeOK, LockTake, AtLabel, Goto, SpinUnlock
<1>2. TypeOK'
  BY <1>1 DEF IInv, TypeOK, Points
<1>3. spin[m] = t /\ mstate[m] = "FREE"
  BY <1>1 DEF IInv, SpinlockProtects, HeldLabels
<1>4. \A u \in Threads : ~Claims(u, m)
  BY <1>3 DEF IInv, NoOrphanedMutex
<1>5. \A u \in Threads, n \in Mutexes : Granted(u, n)' <=> Granted(u, n)
  BY <1>1 DEF IInv, TypeOK, Granted, At, Outside
<1>6. \A u \in Threads, n \in Mutexes :
        Claims(u, n)' <=> (Claims(u, n) \/ (u = t /\ n = m))
  BY <1>1, <1>5 DEF IInv, TypeOK, Claims
<1>7. MutualExclusion'
  BY <1>4, <1>6 DEF IInv, MutualExclusion
<1>8. OwnerIsHolder'
  BY <1>1, <1>4, <1>5 DEF IInv, TypeOK, OwnerIsHolder, Claims
<1>9. NoOrphanedMutex'
  BY <1>1, <1>6 DEF IInv, TypeOK, NoOrphanedMutex
<1>10. OneListPerThread'
  BY <1>1 DEF IInv, OneListPerThread
<1>11. SpinlockProtects'
  BY <1>1, <1>3 DEF IInv, TypeOK, SpinlockProtects, HeldLabels, At, Outside
<1>12. GuardOrder'
  BY <1>1 DEF IInv, TypeOK, GuardOrder, LockLabels, UnlockLabels, At, Outside
<1>13. Placement'
  BY <1>1 DEF IInv, TypeOK, Placement, At, Outside
<1>14. SleeperListed'
  BY <1>1 DEF IInv, TypeOK, SleeperListed, Runs, At, Outside
<1>15. Somewhere'
  BY <1>1 DEF IInv, Somewhere
<1> QED
  BY <1>2, <1>7, <1>8, <1>9, <1>10, <1>11, <1>12, <1>13, <1>14, <1>15 DEF IInv

LEMMA WakeOwnInv ==
  ASSUME IInv, NEW c \in Cpus, NEW m \in Mutexes, Runs(c), WakeOwn(c, m)
  PROVE  IInv'
<1> DEFINE t == curthread[c]
<1>1. t \in Threads /\ at[t] = At("wake_own", m)
  BY DEF IInv, TypeOK, WakeOwn, AtLabel
<1>2. Granted(t, m) /\ spin[m] = t
  <2>1. ~In(t, wait_queue[m])
    BY <1>1, AtParts DEF IInv, Placement
  <2>2. spin[m] = t
    BY <1>1 DEF IInv, SpinlockProtects, HeldLabels
  <2> QED BY <1>1, <2>1, <2>2 DEF Granted
<1>3. owner[m] # t /\ \A u \in Threads : Claims(u, m) => u = t
  BY <1>1, <1>2 DEF IInv, OwnerIsHolder, MutualExclusion, Claims
<1>4. /\ at' = [at EXCEPT ![t] = Outside]
      /\ owner' = [owner EXCEPT ![m] = t]
      /\ guards' = [guards EXCEPT ![t] = @ \cup {m}]
      /\ spin' = [spin EXCEPT ![m] = NoThread]
      /\ UNCHANGED <<halted, curthread, thread_queue, state, wait_queue, mstate>>
  BY <1>3 DEF WakeOwn, DoIHold, Goto, SpinUnlock
<1>5. TypeOK'
  BY <1>1, <1>4 DEF IInv, TypeOK, Points
<1>6. \A u \in Threads, n \in Mutexes :
        Granted(u, n)' <=> (Granted(u, n) /\ ~(u = t /\ n = m))
  BY <1>1, <1>4 DEF IInv, TypeOK, Granted, At, Outside
<1>7. \A u \in Threads, n \in Mutexes : Claims(u, n)' <=> Claims(u, n)
  BY <1>1, <1>2, <1>4, <1>6 DEF IInv, TypeOK, Claims
<1>8. MutualExclusion'
  BY <1>7 DEF IInv, MutualExclusion
<1>9. OwnerIsHolder'
  BY <1>1, <1>3, <1>4, <1>6 DEF IInv, TypeOK, OwnerIsHolder, Claims
<1>10. NoOrphanedMutex'
  BY <1>1, <1>2, <1>4, <1>7 DEF IInv, TypeOK, NoOrphanedMutex, Claims
<1>11. OneListPerThread'
  BY <1>4 DEF IInv, OneListPerThread
<1>12. SpinlockProtects'
  BY <1>1, <1>2, <1>4 DEF IInv, TypeOK, SpinlockProtects, HeldLabels, At, Outside
<1>13. GuardOrder'
  BY <1>1, <1>4 DEF IInv, TypeOK, GuardOrder, LockLabels, UnlockLabels, At, Outside
<1>14. Placement'
  BY <1>1, <1>4 DEF IInv, TypeOK, Placement, At, Outside
<1>15. SleeperListed'
  BY <1>1, <1>4 DEF IInv, TypeOK, SleeperListed, Runs, At, Outside
<1>16. Somewhere'
  BY <1>4 DEF IInv, Somewhere
<1> QED
  BY <1>5, <1>8, <1>9, <1>10, <1>11, <1>12, <1>13, <1>14, <1>15, <1>16 DEF IInv

LEMMA UnlockFreeInv ==
  ASSUME IInv, NEW c \in Cpus, NEW m \in Mutexes, Runs(c), UnlockFree(c, m)
  PROVE  IInv'
<1> DEFINE t == curthread[c]
<1>1. /\ t \in Threads /\ at[t] = At("unlock_free", m)
      /\ at' = [at EXCEPT ![t] = Outside]
      /\ mstate' = [mstate EXCEPT ![m] = "FREE"]
      /\ owner' = [owner EXCEPT ![m] = NoThread]
      /\ guards' = [guards EXCEPT ![t] = @ \ {m}]
      /\ spin' = [spin EXCEPT ![m] = NoThread]
      /\ UNCHANGED <<halted, curthread, thread_queue, state, wait_queue>>
  BY DEF IInv, TypeOK, UnlockFree, AtLabel, Goto, SpinUnlock
<1>2. TypeOK'
  BY <1>1 DEF IInv, TypeOK, Points
<1>3. spin[m] = t /\ wait_queue[m] = <<>> /\ m \in guards[t]
  BY <1>1 DEF IInv, SpinlockProtects, HeldLabels, GuardOrder, UnlockLabels
<1>4. /\ \A u \in Threads : Claims(u, m) => u = t
      /\ ~Granted(t, m)
  BY <1>1, <1>3 DEF IInv, MutualExclusion, Claims, Granted, At
<1>5. \A u \in Threads, n \in Mutexes : Granted(u, n)' <=> Granted(u, n)
  BY <1>1 DEF IInv, TypeOK, Granted, At, Outside
<1>6. \A u \in Threads, n \in Mutexes :
        Claims(u, n)' <=> (Claims(u, n) /\ n # m)
  BY <1>1, <1>4, <1>5 DEF IInv, TypeOK, Claims
<1>7. MutualExclusion'
  BY <1>6 DEF IInv, MutualExclusion
<1>8. OwnerIsHolder'
  BY <1>1, <1>4, <1>5, <1>6 DEF IInv, TypeOK, OwnerIsHolder, Claims
<1>9. NoOrphanedMutex'
  BY <1>1, <1>3, <1>6 DEF IInv, TypeOK, NoOrphanedMutex
<1>10. OneListPerThread'
  BY <1>1 DEF IInv, OneListPerThread
<1>11. SpinlockProtects'
  BY <1>1, <1>3 DEF IInv, TypeOK, SpinlockProtects, HeldLabels, At, Outside
<1>12. GuardOrder'
  BY <1>1 DEF IInv, TypeOK, GuardOrder, LockLabels, UnlockLabels, At, Outside
<1>13. Placement'
  BY <1>1 DEF IInv, TypeOK, Placement, At, Outside
<1>14. SleeperListed'
  BY <1>1 DEF IInv, TypeOK, SleeperListed, Runs, At, Outside
<1>15. Somewhere'
  BY <1>1 DEF IInv, Somewhere
<1> QED
  BY <1>2, <1>7, <1>8, <1>9, <1>10, <1>11, <1>12, <1>13, <1>14, <1>15 DEF IInv

LEMMA LockQueueInv ==
  ASSUME IInv, NEW c \in Cpus, NEW m \in Mutexes, Runs(c), LockQueue(c, m)
  PROVE  IInv'
<1> DEFINE t == curthread[c]
<1>1. /\ t \in Threads /\ at[t] = At("lock_queue", m)
      /\ at' = [at EXCEPT ![t] = At("sleep", m)]
      /\ state' = [state EXCEPT ![t] = "BLOCKED"]
      /\ wait_queue' = [wait_queue EXCEPT ![m] = Append(wait_queue[m], t)]
      /\ spin' = [spin EXCEPT ![m] = NoThread]
      /\ UNCHANGED <<halted, curthread, thread_queue, owner, mstate, guards>>
  BY DEF IInv, TypeOK, LockQueue, AtLabel, Goto, SpinUnlock
<1>2. TypeOK'
  BY <1>1 DEF IInv, TypeOK, ThreadStates, At, Points, Labels, HeldLabels
<1>3. spin[m] = t /\ mstate[m] = "LOCKED"
  BY <1>1 DEF IInv, SpinlockProtects, HeldLabels
<1>4. /\ \A n \in Mutexes : ~In(t, wait_queue[n])
      /\ \A d \in Cpus : ~In(t, thread_queue[d])
  <2>1. at[t].l = "lock_queue" /\ \A n : at[t] # At("sleep", n) /\ at[t] # At("wake", n)
    BY <1>1, AtParts
  <2> QED BY <1>1, <2>1 DEF IInv, Placement
<1>5. /\ wait_queue[m] \in Seq(Threads) /\ Distinct(wait_queue[m])
      /\ wait_queue'[m] = Append(wait_queue[m], t)
  BY <1>1 DEF IInv, TypeOK, OneListPerThread
<1>6. /\ \A u, n : n \in Mutexes =>
            (In(u, wait_queue'[n]) <=> (In(u, wait_queue[n]) \/ (u = t /\ n = m)))
      /\ Distinct(wait_queue'[m])
      /\ wait_queue'[m] # <<>>
  <2>1. \A u : In(u, wait_queue'[m]) <=> (In(u, wait_queue[m]) \/ u = t)
    BY <1>1, <1>5, InAppend
  <2>2. \A n \in Mutexes : n # m => wait_queue'[n] = wait_queue[n]
    BY <1>1 DEF IInv, TypeOK
  <2>3. Distinct(wait_queue'[m])
    BY <1>1, <1>4, <1>5, DistinctAppend
  <2>4. wait_queue'[m] # <<>>
    BY <2>1, InEmpty
  <2> QED BY <2>1, <2>2, <2>3, <2>4
<1>7. (MutualExclusion /\ OwnerIsHolder /\ NoOrphanedMutex)'
  <2>1. \A u \in Threads, n \in Mutexes : Granted(u, n)' <=> Granted(u, n)
    BY <1>1, <1>6 DEF IInv, TypeOK, Granted, At
  <2>2. \A u \in Threads, n \in Mutexes : Claims(u, n)' <=> Claims(u, n)
    BY <1>1, <2>1 DEF Claims
  <2>3. MutualExclusion'
    BY <2>2 DEF IInv, MutualExclusion
  <2>4. OwnerIsHolder'
    BY <1>1, <2>1 DEF IInv, OwnerIsHolder
  <2>5. NoOrphanedMutex'
    BY <1>1, <1>3, <2>2 DEF IInv, TypeOK, NoOrphanedMutex
  <2> QED BY <2>3, <2>4, <2>5
<1>8. OneListPerThread'
  <2>1. \A n \in Mutexes : Distinct(wait_queue'[n])
    BY <1>1, <1>6 DEF IInv, TypeOK, OneListPerThread
  <2>2. \A u \in Threads, n, k \in Mutexes :
          In(u, wait_queue'[n]) /\ In(u, wait_queue'[k]) => n = k
    <3>1. \A u \in Threads, n, k \in Mutexes :
            In(u, wait_queue[n]) /\ In(u, wait_queue[k]) => n = k
      BY DEF IInv, OneListPerThread
    <3>2. ASSUME NEW u \in Threads, NEW n \in Mutexes, NEW k \in Mutexes,
                 In(u, wait_queue'[n]), In(u, wait_queue'[k])
          PROVE  n = k
      <4>1. /\ In(u, wait_queue[n]) \/ (u = t /\ n = m)
            /\ In(u, wait_queue[k]) \/ (u = t /\ k = m)
        BY <1>6, <3>2
      <4> QED BY <1>4, <3>1, <4>1
    <3> QED BY <3>2
  <2>3. \A u \in Threads, d \in Cpus, n \in Mutexes :
          ~(In(u, thread_queue[d]) /\ In(u, wait_queue'[n]))
    BY <1>4, <1>6 DEF IInv, OneListPerThread
  <2> QED BY <1>1, <2>1, <2>2, <2>3 DEF IInv, OneListPerThread
<1>9. SpinlockProtects'
  BY <1>1, <1>3 DEF IInv, TypeOK, SpinlockProtects, HeldLabels, At
<1>10. GuardOrder'
  BY <1>1 DEF IInv, TypeOK, GuardOrder, LockLabels, UnlockLabels, At
<1>11. Placement'
  BY <1>1, <1>4, <1>6 DEF IInv, TypeOK, Placement, At
<1>12. SleeperListed'
  BY <1>1, <1>6 DEF IInv, TypeOK, SleeperListed, Runs, At
<1>13. Somewhere'
  BY <1>1, <1>4, <1>6 DEF IInv, TypeOK, Somewhere
<1> QED
  BY <1>2, <1>7, <1>8, <1>9, <1>10, <1>11, <1>12, <1>13 DEF IInv

LEMMA UnlockHandOffInv ==
  ASSUME IInv, NEW c \in Cpus, NEW m \in Mutexes, Runs(c), UnlockHandOff(c, m)
  PROVE  IInv'
<1> DEFINE t == curthread[c]
           nx == Head(wait_queue[m])
<1>1. /\ t \in Threads /\ at[t] = At("unlock_hand", m)
      /\ at' = [at EXCEPT ![t] = Outside]
      /\ wait_queue' = [wait_queue EXCEPT ![m] = Tail(wait_queue[m])]
      /\ state' = [state EXCEPT ![nx] = "READY"]
      /\ thread_queue' = [thread_queue EXCEPT ![c] = Append(thread_queue[c], nx)]
      /\ guards' = [guards EXCEPT ![t] = @ \ {m}]
      /\ spin' = [spin EXCEPT ![m] = NoThread]
      /\ UNCHANGED <<halted, curthread, owner, mstate>>
  BY DEF IInv, TypeOK, UnlockHandOff, AtLabel, Goto, SpinUnlock
<1>2. /\ spin[m] = t /\ wait_queue[m] # <<>> /\ m \in guards[t]
      /\ wait_queue[m] \in Seq(Threads) /\ Distinct(wait_queue[m])
      /\ thread_queue[c] \in Seq(Threads) /\ Distinct(thread_queue[c])
  BY <1>1 DEF IInv, TypeOK, SpinlockProtects, HeldLabels, GuardOrder,
              UnlockLabels, OneListPerThread
<1>3. /\ nx \in Threads /\ In(nx, wait_queue[m])
      /\ Tail(wait_queue[m]) \in Seq(Threads) /\ Distinct(Tail(wait_queue[m]))
      /\ \A u : In(u, Tail(wait_queue[m])) <=> (In(u, wait_queue[m]) /\ u # nx)
  BY <1>2, TailProperties
<1>4. /\ \A n \in Mutexes : In(nx, wait_queue[n]) => n = m
      /\ \A d \in Cpus : ~In(nx, thread_queue[d])
      /\ nx # t
      /\ \/ at[nx] = At("sleep", m)
         \/ at[nx] = At("wake", m) /\ \A d \in Cpus : curthread[d] # nx
  BY <1>1, <1>3 DEF IInv, OneListPerThread, Placement, At
<1>5. /\ \A u, n : n \in Mutexes =>
            (In(u, wait_queue'[n]) <=> (In(u, wait_queue[n]) /\ u # nx))
      /\ \A n \in Mutexes : Distinct(wait_queue'[n])
  BY <1>1, <1>3, <1>4 DEF IInv, TypeOK, OneListPerThread
<1>6. /\ \A u, d : d \in Cpus =>
            (In(u, thread_queue'[d]) <=>
               (In(u, thread_queue[d]) \/ (u = nx /\ d = c)))
      /\ \A d \in Cpus : Distinct(thread_queue'[d])
  <2>1. thread_queue'[c] = Append(thread_queue[c], nx)
    BY <1>1 DEF IInv, TypeOK
  <2>2. /\ \A u : In(u, thread_queue'[c]) <=> (In(u, thread_queue[c]) \/ u = nx)
        /\ Distinct(thread_queue'[c])
    BY <1>2, <1>3, <1>4, <2>1, InAppend, DistinctAppend
  <2>3. \A d \in Cpus : d # c => thread_queue'[d] = thread_queue[d]
    BY <1>1 DEF IInv, TypeOK
  <2> QED BY <2>2, <2>3 DEF IInv, OneListPerThread
<1>7. TypeOK'
  BY <1>1, <1>3 DEF IInv, TypeOK, ThreadStates, Points
<1>8. \A u \in Threads, n \in Mutexes :
        Granted(u, n)' <=> (Granted(u, n) \/ (u = nx /\ n = m))
  BY <1>1, <1>3, <1>4, <1>5 DEF IInv, TypeOK, Granted, At, Outside
<1>9. /\ \A u \in Threads : Claims(u, m) => u = t
      /\ ~Granted(t, m)
  BY <1>1, <1>2 DEF IInv, MutualExclusion, Claims, Granted, At
<1>10. \A u \in Threads, n \in Mutexes :
         Claims(u, n)' <=> IF n = m THEN u = nx ELSE Claims(u, n)
  BY <1>1, <1>4, <1>8, <1>9 DEF IInv, TypeOK, Claims
<1>11. MutualExclusion'
  BY <1>10 DEF IInv, MutualExclusion
<1>12. OwnerIsHolder'
  <2>1. owner[m] = t
    BY <1>1, <1>2 DEF IInv, OwnerIsHolder
  <2> QED
    BY <1>1, <1>4, <1>8, <1>9, <2>1 DEF IInv, TypeOK, OwnerIsHolder, Claims
<1>13. NoOrphanedMutex'
  <2>1. mstate[m] = "LOCKED"
    BY <1>1, <1>2 DEF IInv, NoOrphanedMutex, Claims
  <2> QED BY <1>1, <1>3, <1>10, <2>1 DEF IInv, TypeOK, NoOrphanedMutex
<1>14. OneListPerThread'
  <2>1. \A u \in Threads, n, k \in Mutexes :
          In(u, wait_queue'[n]) /\ In(u, wait_queue'[k]) => n = k
    BY <1>5 DEF IInv, OneListPerThread
  <2>2. \A u \in Threads, d, e \in Cpus :
          In(u, thread_queue'[d]) /\ In(u, thread_queue'[e]) => d = e
    BY <1>4, <1>6 DEF IInv, OneListPerThread
  <2>3. \A u \in Threads, d \in Cpus, n \in Mutexes :
          ~(In(u, thread_queue'[d]) /\ In(u, wait_queue'[n]))
    BY <1>5, <1>6 DEF IInv, OneListPerThread
  <2> QED BY <1>5, <1>6, <2>1, <2>2, <2>3 DEF OneListPerThread
<1>15. SpinlockProtects'
  BY <1>1, <1>2 DEF IInv, TypeOK, SpinlockProtects, HeldLabels, At, Outside
<1>16. GuardOrder'
  BY <1>1 DEF IInv, TypeOK, GuardOrder, LockLabels, UnlockLabels, At, Outside
<1>17. Placement'
  BY <1>1, <1>4, <1>5, <1>6 DEF IInv, TypeOK, Placement, At, Outside
<1>18. SleeperListed'
  BY <1>1, <1>5, <1>6 DEF IInv, TypeOK, SleeperListed, Runs, At, Outside
<1>19. Somewhere'
  BY <1>1, <1>3, <1>4, <1>5, <1>6 DEF IInv, TypeOK, Somewhere
<1> QED
  BY <1>7, <1>11, <1>12, <1>13, <1>14, <1>15, <1>16, <1>17, <1>18, <1>19
  DEF IInv

\* Popping the head of one run queue takes that thread, and only that thread,
\* off all of them.
LEMMA PopHead ==
  ASSUME NEW q \in [Cpus -> Seq(Threads)], NEW c \in Cpus, q[c] # <<>>,
         \A d \in Cpus : Distinct(q[d]),
         \A u \in Threads, d, e \in Cpus : In(u, q[d]) /\ In(u, q[e]) => d = e
  PROVE  LET p == [q EXCEPT ![c] = Tail(q[c])] IN
         /\ p \in [Cpus -> Seq(Threads)]
         /\ Head(q[c]) \in Threads /\ In(Head(q[c]), q[c])
         /\ \A d \in Cpus : Distinct(p[d])
         /\ \A u \in Threads, d \in Cpus :
              In(u, p[d]) <=> (In(u, q[d]) /\ u # Head(q[c]))
<1> DEFINE p == [q EXCEPT ![c] = Tail(q[c])]
<1>1. /\ Tail(q[c]) \in Seq(Threads)
      /\ Head(q[c]) \in Threads /\ In(Head(q[c]), q[c])
      /\ Distinct(Tail(q[c]))
      /\ \A u : In(u, Tail(q[c])) <=> (In(u, q[c]) /\ u # Head(q[c]))
  BY TailProperties
<1>2. p \in [Cpus -> Seq(Threads)] /\ p[c] = Tail(q[c])
      /\ \A d \in Cpus : d # c => p[d] = q[d]
  BY <1>1
<1>3. \A d \in Cpus : Distinct(p[d])
  BY <1>1, <1>2
<1>4. \A u \in Threads, d \in Cpus :
        In(u, p[d]) <=> (In(u, q[d]) /\ u # Head(q[c]))
  BY <1>1, <1>2
<1> QED BY <1>1, <1>2, <1>3, <1>4

LEMMA SleepInv ==
  ASSUME IInv, NEW c \in Cpus, NEW m \in Mutexes, Runs(c), Sleep(c, m)
  PROVE  IInv'
<1> DEFINE t == curthread[c]
           new == Head(thread_queue[c])
<1>1. /\ t \in Threads /\ at[t] = At("sleep", m)
      /\ UNCHANGED <<state, spin, wait_queue, owner, mstate, guards>>
  BY DEF IInv, TypeOK, Sleep, AtLabel, mutexVars
<1>2. CASE thread_queue[c] = <<>>
  <2>1. /\ halted' = halted \cup {c}
        /\ UNCHANGED <<thread_queue, curthread, at>>
    BY <1>2 DEF Sleep, ScheduleNextThread, Halt
  <2>2. TypeOK'
    BY <1>1, <2>1 DEF IInv, TypeOK
  <2>3. (MutualExclusion /\ OwnerIsHolder /\ NoOrphanedMutex)'
    <3>1. \A u \in Threads, n \in Mutexes : Granted(u, n)' <=> Granted(u, n)
      BY <1>1, <2>1 DEF Granted
    <3> QED BY <1>1, <3>1, SameClaims
  <2>4. (OneListPerThread /\ SpinlockProtects /\ GuardOrder)'
    BY <1>1, <2>1 DEF IInv, OneListPerThread, SpinlockProtects, GuardOrder
  <2>5. (Placement /\ SleeperListed /\ Somewhere)'
    BY <1>1, <2>1 DEF IInv, Placement, SleeperListed, OneCpuPerThread, Somewhere
  <2> QED BY <2>2, <2>3, <2>4, <2>5 DEF IInv
<1>3. CASE thread_queue[c] # <<>>
  <2>1. /\ thread_queue' = [thread_queue EXCEPT ![c] = Tail(thread_queue[c])]
        /\ curthread' = [curthread EXCEPT ![c] = new]
        /\ at' = [at EXCEPT ![t] = At("wake", m)]
        /\ UNCHANGED halted
    BY <1>3 DEF Sleep, ScheduleNextThread, SwitchThread
  <2>2. /\ thread_queue' \in [Cpus -> Seq(Threads)]
        /\ new \in Threads /\ In(new, thread_queue[c])
        /\ \A d \in Cpus : Distinct(thread_queue'[d])
        /\ \A u \in Threads, d \in Cpus :
             In(u, thread_queue'[d]) <=> (In(u, thread_queue[d]) /\ u # new)
    BY <1>3, <2>1, PopHead DEF IInv, TypeOK, OneListPerThread
  <2>3. \A n \in Mutexes : ~In(new, wait_queue[n])
    BY <2>2 DEF IInv, OneListPerThread
  <2>4. \A d \in Cpus : d # c => curthread[d] # t /\ curthread'[d] = curthread[d]
    BY <2>1 DEF IInv, TypeOK, Runs, OneCpuPerThread
  <2>5. TypeOK'
    BY <1>1, <2>1, <2>2 DEF IInv, TypeOK, At, Points, Labels
  <2>6. (MutualExclusion /\ OwnerIsHolder /\ NoOrphanedMutex)'
    <3>1. \A u \in Threads, n \in Mutexes : Granted(u, n)' <=> Granted(u, n)
      BY <1>1, <2>1 DEF IInv, TypeOK, Granted, At
    <3> QED BY <1>1, <3>1, SameClaims
  <2>7. OneListPerThread'
    BY <1>1, <2>2 DEF IInv, OneListPerThread
  <2>8. SpinlockProtects'
    BY <1>1, <2>1 DEF IInv, TypeOK, SpinlockProtects, HeldLabels, At
  <2>9. GuardOrder'
    BY <1>1, <2>1 DEF IInv, TypeOK, GuardOrder, LockLabels, UnlockLabels, At
  <2>10. Placement'
    <3>1. ASSUME NEW u \in Threads, at'[u].l \notin {"run", "wake"}
          PROVE  \E d \in Cpus : curthread'[d] = u
      BY <1>1, <2>1, <2>4, <3>1 DEF IInv, TypeOK, Placement, At
    <3>2. ASSUME NEW u \in Threads, NEW n \in Mutexes, In(u, wait_queue'[n])
          PROVE  \/ at'[u] = At("sleep", n)
                 \/ at'[u] = At("wake", n) /\ \A d \in Cpus : curthread'[d] # u
      BY <1>1, <2>1, <2>2, <2>3, <2>4, <3>2 DEF IInv, TypeOK, Placement, At
    <3>3. ASSUME NEW u \in Threads, NEW d \in Cpus, In(u, thread_queue'[d])
          PROVE  \/ at'[u].l = "sleep"
                 \/ /\ at'[u].l \in {"run", "wake"}
                    /\ \A e \in Cpus : curthread'[e] # u
      BY <1>1, <2>1, <2>2, <2>4, <3>3 DEF IInv, TypeOK, Placement, At
    <3> QED BY <3>1, <3>2, <3>3 DEF Placement
  <2>11. SleeperListed'
    <3>1. SUFFICES ASSUME OneCpuPerThread', NEW u \in Threads, NEW n \in Mutexes,
                          at'[u] = At("sleep", n)
                   PROVE  \/ In(u, wait_queue'[n])
                          \/ \E d \in Cpus : In(u, thread_queue'[d])
      BY DEF SleeperListed
    <3>2. u # t /\ at[u] = At("sleep", n)
      BY <1>1, <2>1, <3>1 DEF IInv, TypeOK, At
    <3>3. PICK d \in Cpus : curthread[d] = u
      BY <3>2, AtParts DEF IInv, Placement
    <3>4. u # new
      BY <2>1, <2>4, <3>1, <3>2, <3>3 DEF IInv, TypeOK, OneCpuPerThread
    <3> QED BY <1>1, <2>2, <3>2, <3>4 DEF IInv, SleeperListed, Runs
  <2>12. Somewhere'
    <3>1. \/ In(t, wait_queue[m])
          \/ \E d \in Cpus : In(t, thread_queue[d])
      BY <1>1 DEF IInv, SleeperListed, Runs
    <3>2. curthread'[c] = new
      BY <2>1 DEF IInv, TypeOK
    <3>3. ASSUME NEW u \in Threads
          PROVE  \/ \E d \in Cpus : curthread'[d] = u \/ In(u, thread_queue'[d])
                 \/ \E n \in Mutexes : In(u, wait_queue'[n])
      BY <1>1, <2>2, <2>4, <3>1, <3>2 DEF IInv, Somewhere
    <3> QED BY <1>1, <3>3 DEF IInv, Somewhere
  <2> QED
    BY <2>5, <2>6, <2>7, <2>8, <2>9, <2>10, <2>11, <2>12 DEF IInv
<1> QED BY <1>2, <1>3

LEMMA YieldInv ==
  ASSUME IInv, NEW c \in Cpus, Runs(c), Yield(c)
  PROVE  IInv'
<1> DEFINE t == curthread[c]
           q == [thread_queue EXCEPT ![c] = Append(thread_queue[c], t)]
           new == Head(q[c])
<1>1. /\ t \in Threads /\ at[t] = Outside /\ at[t].l = "run"
      /\ state' = [state EXCEPT ![t] = "READY"]
      /\ UNCHANGED <<spin, wait_queue, owner, mstate, guards>>
  BY AtParts DEF IInv, TypeOK, Yield, ThreadYield, Outside, mutexVars
<1>2. /\ \A n \in Mutexes : ~In(t, wait_queue[n])
      /\ \A d \in Cpus : ~In(t, thread_queue[d])
  <2>1. \A n : at[t] # At("sleep", n) /\ at[t] # At("wake", n)
    BY <1>1, AtParts
  <2> QED BY <1>1, <2>1 DEF IInv, Placement
<1>3. /\ q \in [Cpus -> Seq(Threads)]
      /\ q[c] = Append(thread_queue[c], t)
      /\ \A d \in Cpus : d # c => q[d] = thread_queue[d]
  BY <1>1 DEF IInv, TypeOK
<1>4. /\ \A u : In(u, q[c]) <=> (In(u, thread_queue[c]) \/ u = t)
      /\ Distinct(q[c])
  BY <1>1, <1>2, <1>3, InAppend, DistinctAppend DEF IInv, TypeOK, OneListPerThread
<1>5. /\ q[c] # <<>>
      /\ \A d \in Cpus : Distinct(q[d])
      /\ \A u \in Threads, d, e \in Cpus : In(u, q[d]) /\ In(u, q[e]) => d = e
  <2>1. q[c] # <<>>
    BY <1>4, InEmpty
  <2>2. \A d \in Cpus : Distinct(q[d])
    BY <1>3, <1>4 DEF IInv, OneListPerThread
  <2>3. ASSUME NEW u \in Threads, NEW d \in Cpus, NEW e \in Cpus,
               In(u, q[d]), In(u, q[e])
        PROVE  d = e
    BY <1>2, <1>3, <1>4, <2>3 DEF IInv, OneListPerThread
  <2> QED BY <2>1, <2>2, <2>3
<1>6. /\ thread_queue' = [q EXCEPT ![c] = Tail(q[c])]
      /\ curthread' = [curthread EXCEPT ![c] = new]
      /\ at' = at
      /\ UNCHANGED halted
  BY <1>1, <1>5
     DEF IInv, TypeOK, Yield, ThreadYield, ScheduleNextThread, SwitchThread
<1>7. /\ thread_queue' \in [Cpus -> Seq(Threads)]
      /\ new \in Threads /\ In(new, q[c])
      /\ \A d \in Cpus : Distinct(thread_queue'[d])
      /\ \A u \in Threads, d \in Cpus :
           In(u, thread_queue'[d]) <=> (In(u, q[d]) /\ u # new)
  BY <1>3, <1>5, <1>6, PopHead
<1>8. \A u \in Threads, d \in Cpus :
        In(u, thread_queue'[d]) <=>
          ((In(u, thread_queue[d]) \/ (u = t /\ d = c)) /\ u # new)
  BY <1>3, <1>4, <1>7
<1>9. /\ In(new, thread_queue[c]) \/ new = t
      /\ \A n \in Mutexes : ~In(new, wait_queue[n])
  BY <1>1, <1>2, <1>4, <1>7 DEF IInv, OneListPerThread
<1>10. /\ curthread'[c] = new
       /\ \A d \in Cpus : d # c => curthread[d] # t /\ curthread'[d] = curthread[d]
  BY <1>6 DEF IInv, TypeOK, Runs, OneCpuPerThread
<1>11. TypeOK'
  BY <1>1, <1>6, <1>7 DEF IInv, TypeOK, ThreadStates
<1>12. (MutualExclusion /\ OwnerIsHolder /\ NoOrphanedMutex)'
  <2>1. \A u \in Threads, n \in Mutexes : Granted(u, n)' <=> Granted(u, n)
    BY <1>1, <1>6 DEF Granted
  <2> QED BY <1>1, <2>1, SameClaims
<1>13. OneListPerThread'
  <2>1. \A u \in Threads, d, e \in Cpus :
          In(u, thread_queue'[d]) /\ In(u, thread_queue'[e]) => d = e
    BY <1>5, <1>7
  <2>2. ASSUME NEW u \in Threads, NEW d \in Cpus, NEW n \in Mutexes,
               In(u, thread_queue'[d]), In(u, wait_queue[n])
        PROVE  FALSE
    BY <1>2, <1>8, <2>2 DEF IInv, OneListPerThread
  <2> QED BY <1>1, <1>7, <2>1, <2>2 DEF IInv, OneListPerThread
<1>14. (SpinlockProtects /\ GuardOrder)'
  BY <1>1, <1>6 DEF IInv, SpinlockProtects, GuardOrder
<1>15. Placement'
  <2>1. ASSUME NEW u \in Threads, at'[u].l \notin {"run", "wake"}
        PROVE  \E d \in Cpus : curthread'[d] = u
    <3>1. u # t
      BY <1>1, <1>6, <2>1
    <3>2. PICK d \in Cpus : curthread[d] = u
      BY <1>6, <2>1 DEF IInv, Placement
    <3> QED BY <1>10, <3>1, <3>2
  <2>2. ASSUME NEW u \in Threads, NEW n \in Mutexes, In(u, wait_queue'[n])
        PROVE  \/ at'[u] = At("sleep", n)
               \/ at'[u] = At("wake", n) /\ \A d \in Cpus : curthread'[d] # u
    BY <1>1, <1>6, <1>9, <1>10, <2>2 DEF IInv, Placement
  <2>3. ASSUME NEW u \in Threads, NEW d \in Cpus, In(u, thread_queue'[d])
        PROVE  \/ at'[u].l = "sleep"
               \/ /\ at'[u].l \in {"run", "wake"}
                  /\ \A e \in Cpus : curthread'[e] # u
    BY <1>1, <1>6, <1>8, <1>10, <2>3 DEF IInv, Placement
  <2> QED BY <2>1, <2>2, <2>3 DEF Placement
<1>16. SleeperListed'
  <2>1. SUFFICES ASSUME OneCpuPerThread', NEW u \in Threads, NEW n \in Mutexes,
                        at'[u] = At("sleep", n)
                 PROVE  \/ In(u, wait_queue'[n])
                        \/ \E d \in Cpus : In(u, thread_queue'[d])
    BY DEF SleeperListed
  <2>2. at[u] = At("sleep", n) /\ at[u].l = "sleep" /\ u # t
    BY <1>1, <1>6, <2>1, AtParts
  <2>3. PICK d \in Cpus : curthread[d] = u
    BY <2>2 DEF IInv, Placement
  <2>4. u # new
    BY <1>10, <2>1, <2>2, <2>3 DEF OneCpuPerThread
  <2> QED BY <1>1, <1>8, <2>2, <2>4 DEF IInv, SleeperListed, Runs
<1>17. Somewhere'
  <2>1. ASSUME NEW u \in Threads
        PROVE  \/ \E d \in Cpus : curthread'[d] = u \/ In(u, thread_queue'[d])
               \/ \E n \in Mutexes : In(u, wait_queue'[n])
    BY <1>1, <1>8, <1>10 DEF IInv, Somewhere
  <2>2. \A u \in Threads :
          state'[u] = "BLOCKED" <=> \E n \in Mutexes : In(u, wait_queue'[n])
    BY <1>1, <1>2 DEF IInv, TypeOK, Somewhere
  <2> QED BY <2>1, <2>2 DEF Somewhere
<1> QED
  BY <1>11, <1>12, <1>13, <1>14, <1>15, <1>16, <1>17 DEF IInv

-----------------------------------------------------------------------------
(* The theorems. *)

LEMMA InitInv == Init => IInv
<1> SUFFICES ASSUME Init PROVE IInv
  OBVIOUS
<1> USE DEF Init, SchedInit
<1>1. TypeOK
  BY InitAssumption DEF TypeOK, ThreadStates, Points
<1>2. \A t \in Threads : at[t] = Outside /\ at[t].l = "run" /\ guards[t] = {}
  BY AtParts DEF Outside
<1>3. \A m \in Mutexes : /\ wait_queue[m] = <<>> /\ mstate[m] = "FREE"
                         /\ owner[m] = NoThread
                         /\ \A t : ~In(t, wait_queue[m])
  BY InEmpty
<1>4. \A t \in Threads, m \in Mutexes : \A l : l # "run" => at[t] # At(l, m)
  BY <1>2, AtParts
<1>5. \A t \in Threads, m \in Mutexes : ~Claims(t, m)
  BY <1>2, <1>4 DEF Claims, Granted
<1>6. MutualExclusion /\ OwnerIsHolder /\ NoOrphanedMutex
  BY <1>2, <1>3, <1>5 DEF MutualExclusion, OwnerIsHolder, NoOrphanedMutex, Claims
<1>7. OneListPerThread
  BY <1>3, DistinctEmpty, InitAssumption DEF OneListPerThread
<1>8. SpinlockProtects /\ GuardOrder
  BY <1>4 DEF SpinlockProtects, GuardOrder, HeldLabels, LockLabels, UnlockLabels
<1>9. Placement
  BY <1>2, <1>3, InitAssumption DEF Placement
<1>10. SleeperListed
  BY <1>4 DEF SleeperListed
<1>11. Somewhere
  <2>1. \A t \in Threads : \E c \in Cpus : curthread[c] = t \/ In(t, thread_queue[c])
    BY InitAssumption
  <2>2. \A t \in Threads : state[t] # "BLOCKED"
    OBVIOUS
  <2> QED BY <1>3, <2>1, <2>2 DEF Somewhere
<1> QED BY <1>1, <1>6, <1>7, <1>8, <1>9, <1>10, <1>11 DEF IInv

LEMMA NextInv == IInv /\ [Next]_vars => IInv'
<1> SUFFICES ASSUME IInv, [Next]_vars PROVE IInv'
  OBVIOUS
<1>1. CASE Next
  <2>1. PICK c \in Cpus : /\ Runs(c)
                          /\ \/ Running(c)
                             \/ \E m \in Mutexes : Lock(c, m) \/ Unlock(c, m)
                             \/ Yield(c)
    BY <1>1 DEF Next
  <2>2. CASE Yield(c)
    BY <2>1, <2>2, YieldInv
  <2>3. ASSUME NEW m \in Mutexes, Lock(c, m) \/ Unlock(c, m) PROVE IInv'
    BY <2>1, <2>3, LockInv, UnlockInv
  <2>4. CASE Running(c)
    <3>1. PICK m \in Mutexes :
            \/ LockSpin(c, m) \/ LockTest(c, m) \/ LockTake(c, m)
            \/ LockQueue(c, m) \/ Sleep(c, m) \/ WakeSpin(c, m) \/ WakeOwn(c, m)
            \/ UnlockSpin(c, m) \/ UnlockTest(c, m)
            \/ UnlockFree(c, m) \/ UnlockHandOff(c, m)
      BY <2>4 DEF Running
    <3> QED BY <2>1, <3>1, LockSpinInv, LockTestInv, LockTakeInv, LockQueueInv,
               SleepInv, WakeSpinInv, WakeOwnInv, UnlockSpinInv, UnlockTestInv,
               UnlockFreeInv, UnlockHandOffInv
  <2> QED BY <2>1, <2>2, <2>3, <2>4
<1>2. CASE UNCHANGED vars
  <2>1. UNCHANGED <<curthread, thread_queue, state, at, halted, spin,
                    wait_queue, owner, mstate, guards>>
    BY <1>2 DEF vars, schedVars, mutexVars
  <2>2. TypeOK'
    BY <2>1 DEF IInv, TypeOK
  <2>3. (MutualExclusion /\ OwnerIsHolder /\ NoOrphanedMutex)'
    BY <2>1, SameClaims DEF Granted
  <2>4. (OneListPerThread /\ SpinlockProtects /\ GuardOrder)'
    BY <2>1 DEF IInv, OneListPerThread, SpinlockProtects, GuardOrder
  <2>5. (Placement /\ SleeperListed /\ Somewhere)'
    BY <2>1 DEF IInv, Placement, SleeperListed, OneCpuPerThread, Somewhere
  <2> QED BY <2>2, <2>3, <2>4, <2>5 DEF IInv
<1> QED BY <1>1, <1>2

\* The invariant holds throughout.
THEOREM Invariance == Spec => []IInv
  BY InitInv, NextInv, PTL DEF Spec

\* lock() and unlock() keep every field of every mutex and thread in range.
THEOREM TypeCorrect == Spec => []TypeOK
<1>1. IInv => TypeOK
  BY DEF IInv
<1> QED BY <1>1, Invariance, PTL

\* Whatever the number of threads, mutexes and CPUs, at most one thread is
\* entitled to a mutex, up to the first time two CPUs run the same thread.
THEOREM Exclusion == Spec => []MutualExclusion
<1>1. IInv => MutualExclusion
  BY DEF IInv
<1> QED BY <1>1, Invariance, PTL

\* The owner_ field names the thread that is entitled to the mutex, as the
\* asserts of lock() and unlock() expect, under the same condition.
THEOREM OwnerNamed == Spec => []OwnerIsHolder
<1>1. IInv => OwnerIsHolder
  BY DEF IInv
<1> QED BY <1>1, Invariance, PTL

\* No hand-over loses the mutex: it is LOCKED exactly while some thread is
\* entitled to it.
THEOREM HandOver == Spec => []NoOrphanedMutex
<1>1. IInv => NoOrphanedMutex
  BY DEF IInv
<1> QED BY <1>1, Invariance, PTL

\* A thread is never on two lists, nor twice on one.
THEOREM ListsDisjoint == Spec => []OneListPerThread
<1>1. IInv => OneListPerThread
  BY DEF IInv
<1> QED BY <1>1, Invariance, PTL

\* No thread is ever lost by lock(), unlock() or the scheduler.
THEOREM ThreadsKept == Spec => []NoThreadLost
<1>1. ASSUME IInv PROVE NoThreadLost
  <2>1. ASSUME NEW t \in Threads, NEW m \in Mutexes, at[t] = At("sleep", m)
        PROVE  \E c \in Cpus : curthread[c] = t
    <3>1. at[t].l = "sleep"
      BY <2>1, AtParts
    <3> QED BY <1>1, <3>1 DEF IInv, Placement
  <2>2. \A t \in Threads, m \in Mutexes : In(t, wait_queue[m]) =>
          at[t] = At("sleep", m) \/ at[t] = At("wake", m)
    BY <1>1 DEF IInv, Placement
  <2> QED BY <1>1, <2>1, <2>2 DEF IInv, Somewhere, NoThreadLost
<1> QED BY <1>1, Invariance, PTL

-----------------------------------------------------------------------------
(* One CPU, which is what the kernel boots today. *)

\* When a thread gives the only CPU away to sleep on a mutex, somebody is
\* ready: otherwise every thread sleeps, and the holder of the highest mutex
\* that is slept on sleeps on a higher one.
LEMMA SomebodyReady ==
  ASSUME IInv, NEW c \in Cpus, Cpus = {c}, NEW m \in Mutexes, Runs(c),
         AtLabel(c, "sleep", m)
  PROVE  thread_queue[c] # <<>>
<1> DEFINE t == curthread[c]
           S == {n \in Mutexes : \E u \in Threads : In(u, wait_queue[n])}
<1>1. SUFFICES ASSUME thread_queue[c] = <<>> PROVE FALSE
  OBVIOUS
<1>2. \A u, d : d \in Cpus => ~In(u, thread_queue[d])
  BY <1>1, InEmpty
<1>3. t \in Threads /\ at[t] = At("sleep", m) /\ In(t, wait_queue[m])
  BY <1>2 DEF IInv, TypeOK, SleeperListed, Runs, AtLabel
<1>4. \A u \in Threads : \E n \in Mutexes :
        /\ In(u, wait_queue[n])
        /\ at[u] = At("sleep", n) \/ at[u] = At("wake", n)
  <2>1. \A u \in Threads : \E n \in Mutexes : In(u, wait_queue[n])
    BY <1>2, <1>3 DEF IInv, Somewhere
  <2> QED BY <2>1 DEF IInv, Placement
<1>5. PICK n \in S : \A k \in S : k <= n
  BY <1>3, MutexAssumption
<1>6. PICK v \in Threads : Claims(v, n)
  <2>1. wait_queue[n] # <<>>
    BY <1>5, InEmpty
  <2>2. mstate[n] = "LOCKED"
    BY <1>5, <2>1 DEF IInv, TypeOK, NoOrphanedMutex
  <2> QED BY <1>5, <2>2 DEF IInv, NoOrphanedMutex
<1>7. PICK k \in Mutexes :
        In(v, wait_queue[k]) /\ (at[v] = At("sleep", k) \/ at[v] = At("wake", k))
  BY <1>4
<1>8. ~Granted(v, n)
  BY <1>5, <1>7, AtParts DEF Granted
<1>9. n < k
  BY <1>5, <1>6, <1>7, <1>8 DEF IInv, GuardOrder, LockLabels, Claims
<1>10. k \in S /\ k \in Nat /\ n \in Nat
  BY <1>5, <1>7, MutexAssumption
<1> QED BY <1>5, <1>9, <1>10

\* On one CPU no step of lock(), unlock() or the scheduler fails an assert.
LEMMA OneCpuStep ==
  ASSUME NEW c \in Cpus, Cpus = {c}, IInv, [Next]_vars, NoAssertFails
  PROVE  NoAssertFails'
<1>1. SUFFICES ASSUME Next PROVE UNCHANGED halted
  BY DEF NoAssertFails, vars, schedVars
<1>2. Runs(c) /\ \/ Running(c)
                 \/ \E m \in Mutexes : Lock(c, m) \/ Unlock(c, m)
                 \/ Yield(c)
  BY <1>1 DEF Next
<1>3. CASE Yield(c)
  <2>1. /\ curthread[c] \in Threads /\ thread_queue[c] \in Seq(Threads)
        /\ thread_queue \in [Cpus -> Seq(Threads)]
    BY DEF IInv, TypeOK
  <2>2. Append(thread_queue[c], curthread[c]) # <<>>
    BY <2>1
  <2> QED BY <1>3, <2>1, <2>2 DEF Yield, ThreadYield, ScheduleNextThread
<1>4. ASSUME NEW m \in Mutexes, Unlock(c, m) PROVE UNCHANGED halted
  BY <1>4 DEF IInv, TypeOK, OwnerIsHolder, Unlock, DoIHold
<1>5. ASSUME NEW m \in Mutexes, WakeOwn(c, m) PROVE UNCHANGED halted
  <2>1. curthread[c] \in Threads /\ at[curthread[c]] = At("wake_own", m)
    BY <1>5 DEF IInv, TypeOK, WakeOwn, AtLabel
  <2>2. ~In(curthread[c], wait_queue[m])
    BY <2>1, AtParts DEF IInv, Placement
  <2>3. owner[m] # curthread[c]
    BY <2>1, <2>2 DEF IInv, OwnerIsHolder, Granted
  <2> QED BY <1>5, <2>3 DEF WakeOwn, DoIHold
<1>6. ASSUME NEW m \in Mutexes, Sleep(c, m) PROVE UNCHANGED halted
  <2>1. thread_queue[c] # <<>>
    BY <1>2, <1>6, SomebodyReady DEF Sleep
  <2> QED BY <1>6, <2>1 DEF Sleep, ScheduleNextThread
<1>7. ASSUME NEW m \in Mutexes, Lock(c, m) PROVE UNCHANGED halted
  BY <1>7 DEF Lock
<1>8. ASSUME NEW m \in Mutexes,
             \/ LockSpin(c, m) \/ LockTest(c, m) \/ LockTake(c, m)
             \/ LockQueue(c, m) \/ WakeSpin(c, m)
             \/ UnlockSpin(c, m) \/ UnlockTest(c, m)
             \/ UnlockFree(c, m) \/ UnlockHandOff(c, m)
      PROVE  UNCHANGED halted
  BY <1>8 DEF LockSpin, LockTest, LockTake, LockQueue, WakeSpin, UnlockSpin,
              UnlockTest, UnlockFree, UnlockHandOff
<1> QED BY <1>2, <1>3, <1>4, <1>5, <1>6, <1>7, <1>8 DEF Running

\* On one CPU, with any number of threads and of mutexes taken in order, no
\* assert of mutex.cc or sched.cc ever fails; in particular the scheduler
\* always finds a thread to run.
THEOREM OneCpuAsserts ==
  ASSUME NEW c, Cpus = {c}
  PROVE  Spec => []NoAssertFails
<1>1. Init => NoAssertFails
  BY DEF Init, SchedInit, NoAssertFails
<1>2. IInv /\ [Next]_vars /\ NoAssertFails => NoAssertFails'
  BY OneCpuStep
<1> QED BY <1>1, <1>2, Invariance, PTL DEF Spec

-----------------------------------------------------------------------------
(* Refinement: core::Mutex implements the first-come first-served mutex of *)
(* FifoMutex.                                                              *)

hold == [m \in Mutexes |-> HolderOf(m)]
wait == [m \in Mutexes |-> QueueOf(m)]

\* The abstract fields depend only on who holds m, who was handed m, and the
\* wait queue.
LEMMA SameAbstract ==
  ASSUME NEW m \in Mutexes,
         HolderSet(m)' = HolderSet(m), GrantedSet(m)' = GrantedSet(m),
         wait_queue'[m] = wait_queue[m]
  PROVE  HolderOf(m)' = HolderOf(m) /\ QueueOf(m)' = QueueOf(m)
  BY DEF HolderOf, QueueOf

LEMMA SameHolder ==
  ASSUME NEW m \in Mutexes, HolderSet(m)' = HolderSet(m)
  PROVE  HolderOf(m)' = HolderOf(m)
  BY DEF HolderOf

LEMMA SameQueue ==
  ASSUME NEW m \in Mutexes, GrantedSet(m)' = GrantedSet(m),
         wait_queue'[m] = wait_queue[m]
  PROVE  QueueOf(m)' = QueueOf(m)
  BY DEF QueueOf

\* A step that changes nobody's claim and no wait queue is a stutter.
LEMMA StutterStep ==
  ASSUME UNCHANGED <<guards, wait_queue>>,
         \A t \in Threads, m \in Mutexes : Granted(t, m)' <=> Granted(t, m)
  PROVE  UNCHANGED <<hold, wait>>
<1>1. \A m \in Mutexes :
        /\ HolderSet(m)' = HolderSet(m) /\ GrantedSet(m)' = GrantedSet(m)
        /\ wait_queue'[m] = wait_queue[m]
  BY DEF HolderSet, GrantedSet
<1>2. \A m \in Mutexes : HolderOf(m)' = HolderOf(m) /\ QueueOf(m)' = QueueOf(m)
  BY <1>1, SameAbstract
<1> QED BY <1>2 DEF hold, wait

LEMMA InitFifo == Init => Fifo!FifoInit
<1> SUFFICES ASSUME Init PROVE Fifo!FifoInit
  OBVIOUS
<1>1. \A t \in Threads : at[t].l = "run" /\ guards[t] = {}
  BY AtParts DEF Init, SchedInit, Outside
<1>2. \A m \in Mutexes : /\ HolderSet(m) = {} /\ GrantedSet(m) = {}
                         /\ wait_queue[m] = <<>>
  BY <1>1, AtParts DEF Init, HolderSet, GrantedSet, Granted
<1>3. \A m \in Mutexes : HolderOf(m) = NoThread /\ QueueOf(m) = <<>>
  BY <1>2 DEF HolderOf, QueueOf
<1> QED BY <1>3 DEF Fifo!FifoInit

LEMMA LockTakeFifo ==
  ASSUME IInv, NEW c \in Cpus, NEW m \in Mutexes, LockTake(c, m)
  PROVE  Fifo!FifoNext
<1> DEFINE t == curthread[c]
<1>1. /\ t \in Threads /\ at[t] = At("lock_take", m)
      /\ at' = [at EXCEPT ![t] = Outside]
      /\ guards' = [guards EXCEPT ![t] = @ \cup {m}]
      /\ UNCHANGED wait_queue
      /\ at \in [Threads -> Points] /\ guards \in [Threads -> SUBSET Mutexes]
  BY DEF IInv, TypeOK, LockTake, AtLabel, Goto
<1>2. mstate[m] = "FREE"
  BY <1>1 DEF IInv, SpinlockProtects
<1>3. wait_queue[m] = <<>> /\ \A u \in Threads : ~Claims(u, m)
  BY <1>2 DEF IInv, NoOrphanedMutex
<1>4. HolderSet(m) = {} /\ GrantedSet(m) = {}
  BY <1>3 DEF HolderSet, GrantedSet, Claims
<1>5. HolderSet(m)' = {t}
  BY <1>1, <1>4 DEF HolderSet
<1>6. \A n \in Mutexes : n # m => HolderSet(n)' = HolderSet(n)
  BY <1>1 DEF HolderSet
<1>7. \A n \in Mutexes : GrantedSet(n)' = GrantedSet(n)
  <2>1. \A u \in Threads, n \in Mutexes : Granted(u, n)' <=> Granted(u, n)
    BY <1>1 DEF Granted, At, Outside
  <2> QED BY <2>1 DEF GrantedSet
<1>8. HolderOf(m) = NoThread /\ HolderOf(m)' = t /\ QueueOf(m) = <<>>
  BY <1>3, <1>4, <1>5 DEF HolderOf, QueueOf
<1>9. \A n \in Mutexes : /\ n # m => HolderOf(n)' = HolderOf(n)
                         /\ QueueOf(n)' = QueueOf(n)
  BY <1>1, <1>6, <1>7, SameHolder, SameQueue
<1>10. Fifo!Acquire(t, m)
  BY <1>8, <1>9 DEF Fifo!Acquire, Fifo!Free
<1> QED BY <1>1, <1>10 DEF Fifo!FifoNext

\* What appending to and taking the head off <<g>> \o w gives.
LEMMA ConsProperties ==
  ASSUME NEW g \in Threads, NEW w \in Seq(Threads)
  PROVE  /\ <<g>> \o w # <<>>
         /\ Head(<<g>> \o w) = g /\ Tail(<<g>> \o w) = w
         /\ \A t \in Threads : /\ <<g>> \o Append(w, t) = Append(<<g>> \o w, t)
                               /\ t # g /\ ~In(t, w) =>
                                    \A i \in 1..Len(<<g>> \o w) : (<<g>> \o w)[i] # t
<1>1. /\ Len(<<g>> \o w) = Len(w) + 1 /\ Len(w) \in Nat
      /\ (<<g>> \o w)[1] = g
      /\ \A i \in 2..Len(w) + 1 : (<<g>> \o w)[i] = w[i - 1]
      /\ <<g>> \o w \in Seq(Threads)
  OBVIOUS
<1>2. <<g>> \o w # <<>> /\ Head(<<g>> \o w) = g
  BY <1>1
<1>3. Tail(<<g>> \o w) = w
  OBVIOUS
<1>4. ASSUME NEW t \in Threads PROVE <<g>> \o Append(w, t) = Append(<<g>> \o w, t)
  OBVIOUS
<1>5. ASSUME NEW t \in Threads, t # g, ~In(t, w)
      PROVE  \A i \in 1..Len(<<g>> \o w) : (<<g>> \o w)[i] # t
  <2>1. \A i \in 2..Len(w) + 1 : w[i - 1] # t
    <3>1. \A j \in 1..Len(w) : w[j] # t
      BY <1>5 DEF In
    <3> QED BY <1>1, <3>1
  <2> QED BY <1>1, <1>5, <2>1
<1> QED BY <1>2, <1>3, <1>4, <1>5

LEMMA LockQueueFifo ==
  ASSUME IInv, NEW c \in Cpus, NEW m \in Mutexes, LockQueue(c, m)
  PROVE  Fifo!FifoNext
<1> DEFINE t == curthread[c]
           w == wait_queue[m]
<1>1. /\ t \in Threads /\ at[t] = At("lock_queue", m) /\ w \in Seq(Threads)
      /\ at' = [at EXCEPT ![t] = At("sleep", m)]
      /\ wait_queue' = [wait_queue EXCEPT ![m] = Append(w, t)]
      /\ UNCHANGED guards
      /\ at \in [Threads -> Points] /\ wait_queue \in [Mutexes -> Seq(Threads)]
  BY DEF IInv, TypeOK, LockQueue, AtLabel, Goto
<1>2. /\ wait_queue'[m] = Append(w, t)
      /\ \A n \in Mutexes : n # m => wait_queue'[n] = wait_queue[n]
      /\ \A u : In(u, wait_queue'[m]) <=> (In(u, w) \/ u = t)
  BY <1>1, InAppend
<1>3. ~In(t, w) /\ m \notin guards[t]
  <2>1. \A n : at[t] # At("sleep", n) /\ at[t] # At("wake", n)
    BY <1>1, AtParts
  <2>2. ~In(t, w)
    BY <1>1, <2>1 DEF IInv, Placement
  <2>3. \A n \in guards[t] : n < m
    BY <1>1 DEF IInv, GuardOrder, LockLabels
  <2>4. m \in Nat
    BY MutexAssumption
  <2> QED BY <2>2, <2>3, <2>4
<1>4. \A u \in Threads, n \in Mutexes : Granted(u, n)' <=> Granted(u, n)
  BY <1>1, <1>2 DEF Granted, At
<1>5. \A n \in Mutexes : /\ GrantedSet(n)' = GrantedSet(n)
                         /\ HolderSet(n)' = HolderSet(n)
  BY <1>1, <1>4 DEF GrantedSet, HolderSet
<1>6. t \notin GrantedSet(m) /\ t \notin HolderSet(m)
  BY <1>1, <1>3, AtParts DEF GrantedSet, HolderSet, Granted
<1>7. GrantedSet(m) # {} \/ HolderSet(m) # {}
  <2>1. mstate[m] = "LOCKED"
    BY <1>1 DEF IInv, SpinlockProtects
  <2> QED BY <2>1 DEF IInv, NoOrphanedMutex, Claims, GrantedSet, HolderSet
<1>8. HolderOf(m) # t /\ (HolderSet(m) # {} => HolderOf(m) # NoThread)
  <2>1. HolderSet(m) # {} => HolderOf(m) \in HolderSet(m)
    BY DEF HolderOf
  <2>2. HolderSet(m) = {} => HolderOf(m) = NoThread
    BY DEF HolderOf
  <2>3. HolderSet(m) \subseteq Threads
    BY DEF HolderSet
  <2> QED BY <1>1, <1>6, <2>1, <2>2, <2>3, MutexAssumption
<1>9. /\ QueueOf(m)' = Append(QueueOf(m), t)
      /\ \A i \in 1..Len(QueueOf(m)) : QueueOf(m)[i] # t
      /\ GrantedSet(m) # {} => QueueOf(m) # <<>>
  <2>1. CASE GrantedSet(m) = {}
    <3>1. QueueOf(m) = w /\ QueueOf(m)' = Append(w, t)
      BY <1>2, <1>5, <2>1 DEF QueueOf
    <3> QED BY <1>3, <2>1, <3>1 DEF In
  <2>2. CASE GrantedSet(m) # {}
    <3> DEFINE g == CHOOSE u \in GrantedSet(m) : TRUE
    <3>1. g \in GrantedSet(m) /\ g \in Threads /\ g # t
      BY <1>6, <2>2 DEF GrantedSet
    <3>2. QueueOf(m) = <<g>> \o w /\ QueueOf(m)' = <<g>> \o Append(w, t)
      BY <1>2, <1>5, <2>2 DEF QueueOf
    <3> HIDE DEF g
    <3> QED BY <1>1, <1>3, <3>1, <3>2, ConsProperties
  <2> QED BY <2>1, <2>2
<1>10. \A n \in Mutexes : /\ n # m => QueueOf(n)' = QueueOf(n)
                          /\ HolderOf(n)' = HolderOf(n)
  BY <1>2, <1>5, SameHolder, SameQueue
<1>11. Fifo!Enqueue(t, m)
  BY <1>7, <1>8, <1>9, <1>10 DEF Fifo!Enqueue, Fifo!Free
<1> QED BY <1>1, <1>11 DEF Fifo!FifoNext

LEMMA WakeOwnFifo ==
  ASSUME IInv, NEW c \in Cpus, NEW m \in Mutexes, WakeOwn(c, m)
  PROVE  Fifo!FifoNext
<1> DEFINE t == curthread[c]
<1>1. /\ t \in Threads /\ at[t] = At("wake_own", m)
      /\ at \in [Threads -> Points] /\ guards \in [Threads -> SUBSET Mutexes]
      /\ wait_queue[m] \in Seq(Threads)
  BY DEF IInv, TypeOK, WakeOwn, AtLabel
<1>2. Granted(t, m)
  <2>1. ~In(t, wait_queue[m])
    BY <1>1, AtParts DEF IInv, Placement
  <2> QED BY <1>1, <2>1 DEF Granted
<1>3. owner[m] # t /\ \A u \in Threads : Claims(u, m) => u = t
  BY <1>1, <1>2 DEF IInv, OwnerIsHolder, MutualExclusion, Claims
<1>4. /\ at' = [at EXCEPT ![t] = Outside]
      /\ guards' = [guards EXCEPT ![t] = @ \cup {m}]
      /\ UNCHANGED wait_queue
  BY <1>3 DEF WakeOwn, DoIHold, Goto
<1>5. m \notin guards[t]
  BY <1>1, MutexAssumption DEF IInv, GuardOrder, LockLabels
<1>6. HolderSet(m) = {} /\ GrantedSet(m) = {t}
  BY <1>1, <1>2, <1>3, <1>5 DEF HolderSet, GrantedSet, Claims
<1>7. HolderSet(m)' = {t} /\ GrantedSet(m)' = {}
  <2>1. \A u \in Threads : Granted(u, m)' <=> Granted(u, m) /\ u # t
    BY <1>1, <1>4 DEF Granted, At, Outside
  <2> QED BY <1>1, <1>4, <1>6, <2>1 DEF HolderSet, GrantedSet
<1>8. \A n \in Mutexes : n # m => /\ HolderSet(n)' = HolderSet(n)
                                  /\ GrantedSet(n)' = GrantedSet(n)
  <2>1. \A u \in Threads, n \in Mutexes :
          n # m => (Granted(u, n)' <=> Granted(u, n))
    BY <1>1, <1>4 DEF Granted, At, Outside
  <2> QED BY <1>1, <1>4, <2>1 DEF HolderSet, GrantedSet
<1>9. /\ HolderOf(m) = NoThread /\ HolderOf(m)' = t
      /\ QueueOf(m) = <<t>> \o wait_queue[m] /\ QueueOf(m)' = wait_queue[m]
  BY <1>4, <1>6, <1>7 DEF HolderOf, QueueOf
<1>10. \A n \in Mutexes : n # m => /\ HolderOf(n)' = HolderOf(n)
                                   /\ QueueOf(n)' = QueueOf(n)
  BY <1>4, <1>8, SameAbstract
<1>11. Fifo!Enter(t, m)
  <2>1. /\ QueueOf(m) # <<>> /\ Head(QueueOf(m)) = t
        /\ QueueOf(m)' = Tail(QueueOf(m))
    BY <1>1, <1>9, ConsProperties
  <2> QED BY <1>9, <1>10, <2>1 DEF Fifo!Enter
<1> QED BY <1>1, <1>11 DEF Fifo!FifoNext

LEMMA UnlockFifo ==
  ASSUME IInv, NEW c \in Cpus, NEW m \in Mutexes,
         UnlockFree(c, m) \/ UnlockHandOff(c, m)
  PROVE  Fifo!FifoNext
<1> DEFINE t == curthread[c]
<1>1. /\ t \in Threads
      /\ at[t] = At("unlock_free", m) \/ at[t] = At("unlock_hand", m)
      /\ at' = [at EXCEPT ![t] = Outside]
      /\ guards' = [guards EXCEPT ![t] = @ \ {m}]
      /\ at \in [Threads -> Points] /\ guards \in [Threads -> SUBSET Mutexes]
      /\ wait_queue \in [Mutexes -> Seq(Threads)]
  BY DEF IInv, TypeOK, UnlockFree, UnlockHandOff, AtLabel, Goto
<1>2. m \in guards[t]
  BY <1>1 DEF IInv, GuardOrder, UnlockLabels
<1>3. /\ \A u \in Threads : Claims(u, m) => u = t
      /\ ~Granted(t, m)
  BY <1>1, <1>2 DEF IInv, MutualExclusion, Claims, Granted, At
<1>4. HolderSet(m) = {t} /\ GrantedSet(m) = {}
  BY <1>1, <1>2, <1>3 DEF HolderSet, GrantedSet, Claims
<1>5. /\ HolderSet(m)' = {}
      /\ \A n \in Mutexes : n # m => HolderSet(n)' = HolderSet(n)
  BY <1>1, <1>4 DEF HolderSet
<1>6. /\ HolderOf(m) = t /\ HolderOf(m)' = NoThread
      /\ \A n \in Mutexes : n # m => HolderOf(n)' = HolderOf(n)
  BY <1>4, <1>5, SameHolder DEF HolderOf
<1>7. \A n \in Mutexes : QueueOf(n)' = QueueOf(n)
  <2>1. CASE UnlockFree(c, m)
    <3>1. UNCHANGED wait_queue
      BY <2>1 DEF UnlockFree
    <3>2. \A u \in Threads, n \in Mutexes : Granted(u, n)' <=> Granted(u, n)
      BY <1>1, <3>1 DEF Granted, At, Outside
    <3>3. \A n \in Mutexes : GrantedSet(n)' = GrantedSet(n)
      BY <3>2 DEF GrantedSet
    <3> QED BY <3>1, <3>3, SameQueue
  <2>2. CASE UnlockHandOff(c, m)
    <3> DEFINE nx == Head(wait_queue[m])
    <3>1. /\ at[t] = At("unlock_hand", m)
          /\ wait_queue' = [wait_queue EXCEPT ![m] = Tail(wait_queue[m])]
      BY <2>2 DEF UnlockHandOff, AtLabel
    <3>2. /\ wait_queue[m] # <<>> /\ wait_queue[m] \in Seq(Threads)
          /\ Distinct(wait_queue[m])
      BY <1>1, <3>1 DEF IInv, SpinlockProtects, OneListPerThread
    <3>3. /\ nx \in Threads /\ In(nx, wait_queue[m])
          /\ \A u : In(u, Tail(wait_queue[m])) <=> (In(u, wait_queue[m]) /\ u # nx)
      BY <3>2, TailProperties
    <3>4. nx # t /\ (at[nx] = At("sleep", m) \/ at[nx] = At("wake", m))
      BY <3>1, <3>3, AtParts DEF IInv, Placement
    <3>5. \A u \in Threads, n \in Mutexes :
            Granted(u, n)' <=> (Granted(u, n) \/ (u = nx /\ n = m))
      BY <1>1, <3>1, <3>3, <3>4 DEF Granted, At, Outside
    <3>6. /\ GrantedSet(m)' = {nx}
          /\ \A n \in Mutexes : n # m => GrantedSet(n)' = GrantedSet(n)
      BY <1>4, <3>3, <3>5 DEF GrantedSet
    <3>7. QueueOf(m) = wait_queue[m] /\ QueueOf(m)' = <<nx>> \o Tail(wait_queue[m])
      BY <1>1, <1>4, <3>1, <3>6 DEF QueueOf
    <3>8. <<nx>> \o Tail(wait_queue[m]) = wait_queue[m]
      BY <3>2
    <3>9. \A n \in Mutexes : n # m => QueueOf(n)' = QueueOf(n)
      BY <1>1, <3>1, <3>6, SameQueue
    <3> QED BY <3>7, <3>8, <3>9
  <2> QED BY <2>1, <2>2
<1>8. Fifo!Release(t, m)
  BY <1>6, <1>7 DEF Fifo!Release
<1> QED BY <1>1, <1>8 DEF Fifo!FifoNext

\* The other steps move a program counter, or a thread between CPU and run
\* queue, and are invisible to the clients of the mutex.
LEMMA QuietStep ==
  ASSUME IInv, NEW c \in Cpus, NEW m \in Mutexes,
         \/ Lock(c, m) \/ LockSpin(c, m) \/ LockTest(c, m) \/ Sleep(c, m)
         \/ WakeSpin(c, m) \/ Unlock(c, m) \/ UnlockSpin(c, m)
         \/ UnlockTest(c, m)
  PROVE  UNCHANGED <<hold, wait>>
<1> DEFINE t == curthread[c]
<1>1. /\ t \in Threads /\ at \in [Threads -> Points]
      /\ UNCHANGED <<guards, wait_queue>>
  BY DEF IInv, TypeOK, Lock, LockSpin, LockTest, Sleep, WakeSpin, Unlock,
         UnlockSpin, UnlockTest, mutexVars
<1>2. CASE Lock(c, m) \/ LockSpin(c, m) \/ LockTest(c, m) \/ Unlock(c, m)
           \/ UnlockSpin(c, m) \/ UnlockTest(c, m)
  <2>1. /\ \A n : at[t] \notin {At("sleep", n), At("wake", n), At("wake_own", n)}
        /\ \A n : at'[t] \notin {At("sleep", n), At("wake", n), At("wake_own", n)}
        /\ \A u \in Threads : u # t => at'[u] = at[u]
    <3>1. CASE Lock(c, m)
      BY <1>1, <3>1, AtParts DEF Lock, Goto, Outside
    <3>2. CASE LockSpin(c, m)
      BY <1>1, <3>2, AtParts DEF LockSpin, Goto, AtLabel
    <3>3. CASE LockTest(c, m)
      BY <1>1, <3>3, AtParts DEF LockTest, Goto, AtLabel
    <3>4. CASE Unlock(c, m)
      <4>1. owner[m] = t
        BY <1>1, <3>4 DEF IInv, OwnerIsHolder, Unlock
      <4> QED BY <1>1, <3>4, <4>1, AtParts DEF Unlock, Goto, DoIHold, Outside
    <3>5. CASE UnlockSpin(c, m)
      BY <1>1, <3>5, AtParts DEF UnlockSpin, Goto, AtLabel
    <3>6. CASE UnlockTest(c, m)
      BY <1>1, <3>6, AtParts DEF UnlockTest, Goto, AtLabel
    <3> QED BY <1>2, <3>1, <3>2, <3>3, <3>4, <3>5, <3>6
  <2>2. \A u \in Threads, n \in Mutexes : Granted(u, n)' <=> Granted(u, n)
    BY <1>1, <2>1 DEF Granted
  <2> QED BY <1>1, <2>2, StutterStep
<1>3. CASE Sleep(c, m) \/ WakeSpin(c, m)
  <2>1. /\ at[t] = At("sleep", m) \/ at[t] = At("wake", m)
        /\ \/ at' = at
           \/ at' = [at EXCEPT ![t] = At("wake", m)]
           \/ at' = [at EXCEPT ![t] = At("wake_own", m)]
    BY <1>3 DEF Sleep, ScheduleNextThread, SwitchThread, WakeSpin, AtLabel, Goto
  <2>2. \A u \in Threads, n \in Mutexes : Granted(u, n)' <=> Granted(u, n)
    BY <1>1, <2>1 DEF Granted, At
  <2> QED BY <1>1, <2>2, StutterStep
<1> QED BY <1>2, <1>3

LEMMA NextFifo == IInv /\ [Next]_vars => [Fifo!FifoNext]_<<hold, wait>>
<1> SUFFICES ASSUME IInv, [Next]_vars PROVE Fifo!FifoNext \/ UNCHANGED <<hold, wait>>
  OBVIOUS
<1>1. CASE Next
  <2>1. PICK c \in Cpus : \/ Running(c)
                          \/ \E m \in Mutexes : Lock(c, m) \/ Unlock(c, m)
                          \/ Yield(c)
    BY <1>1 DEF Next
  <2>2. CASE Yield(c)
    <3>1. UNCHANGED <<guards, wait_queue, at>>
      BY <2>2 DEF IInv, TypeOK, Yield, ThreadYield, ScheduleNextThread,
                  SwitchThread, mutexVars
    <3> QED BY <3>1, StutterStep DEF Granted
  <2>3. CASE \E m \in Mutexes : Lock(c, m) \/ Unlock(c, m)
    BY <2>3, QuietStep
  <2>4. CASE Running(c)
    <3>1. PICK m \in Mutexes :
            \/ LockSpin(c, m) \/ LockTest(c, m) \/ LockTake(c, m)
            \/ LockQueue(c, m) \/ Sleep(c, m) \/ WakeSpin(c, m) \/ WakeOwn(c, m)
            \/ UnlockSpin(c, m) \/ UnlockTest(c, m)
            \/ UnlockFree(c, m) \/ UnlockHandOff(c, m)
      BY <2>4 DEF Running
    <3> QED BY <3>1, QuietStep, LockTakeFifo, LockQueueFifo, WakeOwnFifo,
               UnlockFifo
  <2> QED BY <2>1, <2>2, <2>3, <2>4
<1>2. CASE UNCHANGED vars
  <2>1. UNCHANGED <<guards, wait_queue, at>>
    BY <1>2 DEF vars, schedVars, mutexVars
  <2> QED BY <2>1, StutterStep DEF Granted
<1> QED BY <1>1, <1>2

\* core::Mutex implements FifoMutex: a thread that found the mutex taken gets
\* it in its turn, and nobody overtakes the queue.
THEOREM FifoRefinement == Spec => ImplementsFifo
<1>1. Init => Fifo!FifoInit
  BY InitFifo
<1>2. IInv /\ [Next]_vars =>
        [Fifo!FifoNext]_<<[m \in Mutexes |-> HolderOf(m)],
                          [m \in Mutexes |-> QueueOf(m)]>>
  BY NextFifo DEF hold, wait
<1> QED BY <1>1, <1>2, Invariance, PTL DEF Spec, ImplementsFifo, Fifo!FifoSpec

=============================================================================
