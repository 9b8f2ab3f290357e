------------------------------- MODULE Mutex -------------------------------
(***************************************************************************)
(* core::Mutex (core/mutex.cc) on top of the scheduler: a blocking mutex   *)
(* whose wait queue hands the lock to the longest waiter without ever      *)
(* freeing it.  Inside the internal spinlock, the test a branch depends on *)
(* and what the branch does are steps of their own, so that the model says *)
(* what the spinlock is for; the window between the release of the         *)
(* spinlock and the switch to another thread is a step of its own too.     *)
(*                                                                         *)
(* Clients hold a mutex through an ebl::Guard, so a thread releases only   *)
(* what it holds and never takes a mutex twice; they take mutexes in       *)
(* increasing order, the usual discipline against deadlock.                *)
(***************************************************************************)
EXTENDS Sched

CONSTANTS Mutexes,   \* the mutexes, numbered in the order clients take them
          NoThread   \* nullptr

\* Mutexes are ranked and there is no infinite chain of ever higher ones.
ASSUME MutexAssumption ==
  /\ Mutexes \subseteq Nat \ {0}
  /\ \A S \in SUBSET Mutexes :
       S # {} => \E m \in S : \A n \in S : n <= m
  /\ NoThread \notin Threads

VARIABLES spin,        \* Mutex::lock_: the thread inside it, or NoThread
          wait_queue,  \* Mutex::wait_queue_
          owner,       \* Mutex::owner_
          mstate,      \* Mutex::state_
          guards       \* guards[t]: the mutexes t holds a live Guard on

mutexVars == <<spin, wait_queue, owner, mstate, guards>>
vars == <<schedVars, mutexVars>>

\* lock and unlock precede a spin_lock, as wake does after the switch; the
\* labels in HeldLabels are inside the spinlock; sleep precedes the switch.
HeldLabels == {"lock_test", "lock_take", "lock_queue", "wake_own",
               "unlock_test", "unlock_free", "unlock_hand"}
Labels == {"lock", "sleep", "wake", "unlock"} \cup HeldLabels

Points == {Outside} \cup [l : Labels, m : Mutexes]

Init ==
  /\ SchedInit
  /\ spin = [m \in Mutexes |-> NoThread]
  /\ wait_queue = [m \in Mutexes |-> <<>>]
  /\ owner = [m \in Mutexes |-> NoThread]
  /\ mstate = [m \in Mutexes |-> "FREE"]
  /\ guards = [t \in Threads |-> {}]

-----------------------------------------------------------------------------
\* The current thread of CPU c is at this label of a method of mutex m.
AtLabel(c, label, m) == at[curthread[c]] = At(label, m)

\* The current thread of CPU c goes on at another control point.
Goto(c, point) == at' = [at EXCEPT ![curthread[c]] = point]

\* Mutant: the spinlock is taken without waiting.
SpinLockNoWait(c, m) == spin' = [spin EXCEPT ![m] = curthread[c]]

\* arch::spin_lock(&lock_): waits while another thread is inside.
SpinLock(c, m) ==
  /\ spin[m] = NoThread
  /\ spin' = [spin EXCEPT ![m] = curthread[c]]

\* arch::spin_unlock(&lock_).
SpinUnlock(m) == spin' = [spin EXCEPT ![m] = NoThread]

\* Mutex::do_i_hold().
DoIHold(c, m) == owner[m] = curthread[c]

\* An ebl::Guard<Mutex> is constructed: its policy calls Mutex::lock.
Lock(c, m) ==
  /\ at[curthread[c]] = Outside
  /\ \A n \in guards[curthread[c]] : n < m
  /\ Goto(c, At("lock", m))
  /\ UNCHANGED <<halted, curthread, thread_queue, state, mutexVars>>

\* lock(): the first spin_lock.
LockSpin(c, m) ==
  /\ AtLabel(c, "lock", m)
  /\ SpinLock(c, m)
  /\ Goto(c, At("lock_test", m))
  /\ UNCHANGED <<halted, curthread, thread_queue, state,
                 wait_queue, owner, mstate, guards>>

\* lock(): is the mutex free?
LockTest(c, m) ==
  /\ AtLabel(c, "lock_test", m)
  /\ Goto(c, At(IF mstate[m] = "FREE" THEN "lock_take" ELSE "lock_queue", m))
  /\ UNCHANGED <<halted, curthread, thread_queue, state, mutexVars>>

\* lock(): the mutex was free; take it and return.
LockTake(c, m) ==
  /\ AtLabel(c, "lock_take", m)
  /\ mstate' = [mstate EXCEPT ![m] = "LOCKED"]
  /\ owner' = [owner EXCEPT ![m] = curthread[c]]
  /\ guards' = [guards EXCEPT ![curthread[c]] = @ \cup {m}]
  /\ SpinUnlock(m)
  /\ Goto(c, Outside)
  /\ UNCHANGED <<halted, curthread, thread_queue, state, wait_queue>>

\* Mutant: waiters are stacked instead of queued.
LockQueueFront(c, m) ==
  /\ AtLabel(c, "lock_queue", m)
  /\ state' = [state EXCEPT ![curthread[c]] = "BLOCKED"]
  /\ wait_queue' = [wait_queue EXCEPT ![m] = <<curthread[c]>> \o @]
  /\ SpinUnlock(m)
  /\ Goto(c, At("sleep", m))
  /\ UNCHANGED <<halted, curthread, thread_queue, owner, mstate, guards>>

\* Mutant: the wait state is one that nothing in the kernel wakes from.
LockQueueSleep(c, m) ==
  /\ AtLabel(c, "lock_queue", m)
  /\ state' = [state EXCEPT ![curthread[c]] = "SLEEP"]
  /\ wait_queue' = [wait_queue EXCEPT ![m] = Append(@, curthread[c])]
  /\ SpinUnlock(m)
  /\ Goto(c, At("sleep", m))
  /\ UNCHANGED <<halted, curthread, thread_queue, owner, mstate, guards>>

\* lock(): the mutex was taken; queue up and drop the spinlock.
LockQueue(c, m) ==
  /\ AtLabel(c, "lock_queue", m)
  /\ state' = [state EXCEPT ![curthread[c]] = "BLOCKED"]
  /\ wait_queue' = [wait_queue EXCEPT ![m] = Append(@, curthread[c])]
  /\ SpinUnlock(m)
  /\ Goto(c, At("sleep", m))
  /\ UNCHANGED <<halted, curthread, thread_queue, owner, mstate, guards>>

\* lock(): give the CPU away; the thread resumes after the call.
Sleep(c, m) ==
  /\ AtLabel(c, "sleep", m)
  /\ ScheduleNextThread(c, curthread[c], thread_queue, At("wake", m))
  /\ UNCHANGED <<state, mutexVars>>

\* lock(): scheduled again, take the spinlock back.
WakeSpin(c, m) ==
  /\ AtLabel(c, "wake", m)
  /\ SpinLock(c, m)
  /\ Goto(c, At("wake_own", m))
  /\ UNCHANGED <<halted, curthread, thread_queue, state,
                 wait_queue, owner, mstate, guards>>

\* lock(): assert(!do_i_hold()), become the owner and return.
WakeOwn(c, m) ==
  /\ AtLabel(c, "wake_own", m)
  /\ IF DoIHold(c, m)
     THEN /\ Halt(c)
          /\ UNCHANGED <<at, spin, owner, guards>>
     ELSE /\ owner' = [owner EXCEPT ![m] = curthread[c]]
          /\ guards' = [guards EXCEPT ![curthread[c]] = @ \cup {m}]
          /\ SpinUnlock(m)
          /\ Goto(c, Outside)
          /\ UNCHANGED halted
  /\ UNCHANGED <<curthread, thread_queue, state, wait_queue, mstate>>

\* The Guard is released or goes out of scope: Mutex::unlock asserts, before
\* it takes the spinlock, that the caller holds the mutex.
Unlock(c, m) ==
  /\ at[curthread[c]] = Outside
  /\ m \in guards[curthread[c]]
  /\ IF DoIHold(c, m)
     THEN Goto(c, At("unlock", m)) /\ UNCHANGED halted
     ELSE Halt(c) /\ UNCHANGED at
  /\ UNCHANGED <<curthread, thread_queue, state, mutexVars>>

\* unlock(): the spin_lock.
UnlockSpin(c, m) ==
  /\ AtLabel(c, "unlock", m)
  /\ SpinLock(c, m)
  /\ Goto(c, At("unlock_test", m))
  /\ UNCHANGED <<halted, curthread, thread_queue, state,
                 wait_queue, owner, mstate, guards>>

\* unlock(): does anybody wait?
UnlockTest(c, m) ==
  /\ AtLabel(c, "unlock_test", m)
  /\ Goto(c, At(IF wait_queue[m] = <<>> THEN "unlock_free"
                                        ELSE "unlock_hand", m))
  /\ UNCHANGED <<halted, curthread, thread_queue, state, mutexVars>>

\* unlock(): nobody waits, so the mutex becomes free.
UnlockFree(c, m) ==
  /\ AtLabel(c, "unlock_free", m)
  /\ mstate' = [mstate EXCEPT ![m] = "FREE"]
  /\ owner' = [owner EXCEPT ![m] = NoThread]
  /\ guards' = [guards EXCEPT ![curthread[c]] = @ \ {m}]
  /\ SpinUnlock(m)
  /\ Goto(c, Outside)
  /\ UNCHANGED <<halted, curthread, thread_queue, state, wait_queue>>

\* unlock(): make the first waiter ready on this CPU; the mutex stays locked
\* and keeps its old owner until that thread runs.
UnlockHandOff(c, m) ==
  LET next_th == Head(wait_queue[m]) IN
  /\ AtLabel(c, "unlock_hand", m)
  /\ wait_queue' = [wait_queue EXCEPT ![m] = Tail(@)]
  /\ state' = [state EXCEPT ![next_th] = "READY"]
  /\ thread_queue' = [thread_queue EXCEPT ![c] = Append(@, next_th)]
  /\ guards' = [guards EXCEPT ![curthread[c]] = @ \ {m}]
  /\ SpinUnlock(m)
  /\ Goto(c, Outside)
  /\ UNCHANGED <<halted, curthread, owner, mstate>>

Yield(c) == ThreadYield(c) /\ UNCHANGED mutexVars

\* The code that CPU c runs inside lock() and unlock().
Running(c) ==
  \E m \in Mutexes :
    \/ LockSpin(c, m) \/ LockTest(c, m) \/ LockTake(c, m)
    \/ LockQueue(c, m) \/ Sleep(c, m) \/ WakeSpin(c, m) \/ WakeOwn(c, m)
    \/ UnlockSpin(c, m) \/ UnlockTest(c, m)
    \/ UnlockFree(c, m) \/ UnlockHandOff(c, m)

\* A thread runs on at most one CPU.  If two CPUs ever run the same thread
\* they share a stack, and no behaviour of the code is defined from there.
OneCpuPerThread == \A c, d \in Cpus : curthread[c] = curthread[d] => c = d

\* CPU c executes code whose behaviour is defined.
Runs(c) == OneCpuPerThread /\ c \notin halted

Next ==
  \E c \in Cpus :
    /\ Runs(c)
    /\ \/ Running(c)
       \/ \E m \in Mutexes : Lock(c, m) \/ Unlock(c, m)
       \/ Yield(c)

Spec == Init /\ [][Next]_vars

-----------------------------------------------------------------------------
\* The kernel's code runs whenever it can, threads keep yielding the CPU and
\* leave every critical section they are given the CPU in.
Fairness ==
  \A c \in Cpus :
    /\ WF_vars(Runs(c) /\ Running(c))
    /\ SF_vars(Runs(c) /\ Yield(c))
    /\ \A t \in Threads, m \in Mutexes :
         SF_vars(Runs(c) /\ curthread[c] = t /\ Unlock(c, m))

FairSpec == Spec /\ Fairness

-----------------------------------------------------------------------------
\* t went to sleep on m and has been handed it, but has not returned from
\* lock() yet.
Granted(t, m) ==
  /\ at[t] \in {At("sleep", m), At("wake", m), At("wake_own", m)}
  /\ ~In(t, wait_queue[m])

\* t is entitled to m.
Claims(t, m) == m \in guards[t] \/ Granted(t, m)

\* Type invariant of the scheduler and of every mutex.
TypeOK ==
  /\ curthread \in [Cpus -> Threads]
  /\ thread_queue \in [Cpus -> Seq(Threads)]
  /\ state \in [Threads -> ThreadStates]
  /\ at \in [Threads -> Points]
  /\ halted \subseteq Cpus
  /\ spin \in [Mutexes -> Threads \cup {NoThread}]
  /\ wait_queue \in [Mutexes -> Seq(Threads)]
  /\ owner \in [Mutexes -> Threads \cup {NoThread}]
  /\ mstate \in [Mutexes -> {"FREE", "LOCKED"}]
  /\ guards \in [Threads -> SUBSET Mutexes]

\* At most one thread is entitled to a mutex: it is inside the critical
\* section, or unlock() has handed the mutex to it while it slept.
MutualExclusion ==
  \A m \in Mutexes, t, u \in Threads : Claims(t, m) /\ Claims(u, m) => t = u

\* owner_ names the holder whenever there is one, so the assert in unlock()
\* cannot fail; and it never names a thread that was handed the mutex and
\* has not resumed, so the assert in the second half of lock() cannot fail
\* either, although hand-over leaves the previous owner in owner_.
OwnerIsHolder ==
  \A m \in Mutexes, t \in Threads :
    /\ m \in guards[t] => owner[m] = t
    /\ Granted(t, m) => owner[m] # t

\* The hand-over never loses a mutex: it is marked LOCKED exactly while some
\* thread is entitled to it, and nobody sleeps on a free mutex.
NoOrphanedMutex ==
  \A m \in Mutexes :
    /\ mstate[m] = "LOCKED" <=> \E t \in Threads : Claims(t, m)
    /\ mstate[m] = "FREE" => wait_queue[m] = <<>> /\ owner[m] = NoThread

\* A Thread has one pair of list links: it is never on two lists, nor twice
\* on one, whichever wait queue or run queue that is.
OneListPerThread ==
  /\ \A c \in Cpus : Distinct(thread_queue[c])
  /\ \A m \in Mutexes : Distinct(wait_queue[m])
  /\ \A t \in Threads :
       /\ \A c, d \in Cpus :
            In(t, thread_queue[c]) /\ In(t, thread_queue[d]) => c = d
       /\ \A m, n \in Mutexes :
            In(t, wait_queue[m]) /\ In(t, wait_queue[n]) => m = n
       /\ \A c \in Cpus, m \in Mutexes :
            ~(In(t, thread_queue[c]) /\ In(t, wait_queue[m]))

\* The scheduler never loses a thread: it runs, is ready on some CPU, or
\* sleeps on the mutex it is locking; and it is BLOCKED exactly while it is
\* on a wait queue.
NoThreadLost ==
  \A t \in Threads :
    /\ \/ \E c \in Cpus : curthread[c] = t \/ In(t, thread_queue[c])
       \/ \E m \in Mutexes :
            In(t, wait_queue[m]) /\ at[t] = At("wake", m)
    /\ state[t] = "BLOCKED" <=> \E m \in Mutexes : In(t, wait_queue[m])

\* No assert fails: schedule_next_thread always finds a thread to run, and
\* lock() and unlock() find the owner they expect.
NoAssertFails == halted = {}

\* Every thread that calls lock() eventually holds the mutex.
NoStarvation ==
  \A t \in Threads, m \in Mutexes :
    at[t] = At("lock", m) ~> m \in guards[t]

-----------------------------------------------------------------------------
\* The mutex implements a first-come first-served mutex.
HolderSet(m) == {t \in Threads : m \in guards[t]}
GrantedSet(m) == {t \in Threads : Granted(t, m)}

HolderOf(m) ==
  IF HolderSet(m) = {} THEN NoThread ELSE CHOOSE t \in HolderSet(m) : TRUE

QueueOf(m) ==
  IF GrantedSet(m) = {} THEN wait_queue[m]
  ELSE <<CHOOSE t \in GrantedSet(m) : TRUE>> \o wait_queue[m]

Fifo == INSTANCE FifoMutex WITH
          holder <- [m \in Mutexes |-> HolderOf(m)],
          queue <- [m \in Mutexes |-> QueueOf(m)]

\* lock() and unlock() behave like a mutex handed over strictly in the order
\* in which threads queued on it, with no overtaking.
ImplementsFifo == Fifo!FifoSpec
=============================================================================
