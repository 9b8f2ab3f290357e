------------------------------- MODULE Sched -------------------------------
(***************************************************************************)
(* The cooperative scheduler of the kernel: core/sched.cc, core/thread.cc, *)
(* the per-CPU state of core/include/core/mp.h and the contract of         *)
(* arch::switch_thread (core/include/arch/interface.h).                    *)
(*                                                                         *)
(* A thread's program counter lives in at[t].  While t is the current      *)
(* thread of a CPU, at[t] is where that CPU executes; otherwise it is the  *)
(* point at which switch_thread will return when t is next switched to.    *)
(* The repository has no code that creates a thread, so the constants      *)
(* InitCur and InitQueue say which threads run and wait at the start.      *)
(* Lists are sequences here; IntrusiveList justifies that for the          *)
(* operations used (push_back and pop_front).                              *)
(***************************************************************************)
EXTENDS Naturals, Sequences

CONSTANTS Cpus,       \* the CPUs that schedule threads
          Threads,    \* every Thread object
          InitCur,    \* InitCur[c]: the thread CPU c runs at the start
          InitQueue   \* InitQueue[c]: the run queue of CPU c at the start

\* t occurs in the sequence s.
In(t, s) == \E i \in 1..Len(s) : s[i] = t

\* No element occurs twice in s.
Distinct(s) == \A i, j \in 1..Len(s) : s[i] = s[j] => i = j

\* Each thread starts in exactly one place: on a CPU or in one run queue.
ASSUME InitAssumption ==
  /\ InitCur \in [Cpus -> Threads]
  /\ InitQueue \in [Cpus -> Seq(Threads)]
  /\ \A c, d \in Cpus : InitCur[c] = InitCur[d] => c = d
  /\ \A c \in Cpus : Distinct(InitQueue[c])
  /\ \A c, d \in Cpus, t \in Threads :
       In(t, InitQueue[c]) => /\ t # InitCur[d]
                              /\ In(t, InitQueue[d]) => c = d
  /\ \A t \in Threads :
       \E c \in Cpus : t = InitCur[c] \/ In(t, InitQueue[c])

VARIABLES curthread,     \* arch::PerCPU::curthread of each CPU
          thread_queue,  \* core::PerCPU::thread_queue of each CPU
          state,         \* Thread::state
          at,            \* where each thread executes or resumes
          halted         \* the CPUs an assert() has stopped in arch::halt()

schedVars == <<curthread, thread_queue, state, at, halted>>

ThreadStates == {"RUN", "READY", "BLOCKED"}

\* A control point: a label of the code and the object it works on (0: none).
At(label, obj) == [l |-> label, m |-> obj]

\* Running its own code, outside the kernel operations modelled here.
Outside == At("run", 0)

SchedInit ==
  /\ curthread = InitCur
  /\ thread_queue = InitQueue
  /\ state = [t \in Threads |->
                IF \E c \in Cpus : InitCur[c] = t THEN "RUN" ELSE "READY"]
  /\ at = [t \in Threads |-> Outside]
  /\ halted = {}

-----------------------------------------------------------------------------
\* A failed assert() stops the CPU for good.
Halt(c) == halted' = halted \cup {c}

\* arch::switch_thread: CPU c now runs new; old resumes at `resume' later.
SwitchThread(c, old, new, resume) ==
  /\ curthread' = [curthread EXCEPT ![c] = new]
  /\ at' = [at EXCEPT ![old] = resume]

\* Mutant: the head is read without being popped.
ScheduleNextThreadPeek(c, old, tq, resume) ==
  /\ tq[c] # <<>>
  /\ thread_queue' = tq
  /\ SwitchThread(c, old, Head(tq[c]), resume)
  /\ UNCHANGED halted

\* schedule_next_thread(old) on CPU c, where tq are the run queues at the
\* call: pop the head of this CPU's queue, assert it exists, switch to it.
ScheduleNextThread(c, old, tq, resume) ==
  \/ /\ tq[c] # <<>>
     /\ thread_queue' = [tq EXCEPT ![c] = Tail(@)]
     /\ SwitchThread(c, old, Head(tq[c]), resume)
     /\ UNCHANGED halted
  \/ /\ tq[c] = <<>>
     /\ thread_queue' = tq
     /\ Halt(c)
     /\ UNCHANGED <<curthread, at>>

\* Mutant: the yielding thread is not put back on the queue.
ThreadYieldNoPush(c) ==
  /\ at[curthread[c]] = Outside
  /\ state' = [state EXCEPT ![curthread[c]] = "READY"]
  /\ ScheduleNextThread(c, curthread[c], thread_queue, Outside)

\* thread_yield, and thread_preempt, which only calls it.
ThreadYield(c) ==
  LET old == curthread[c] IN
  /\ at[old] = Outside
  /\ state' = [state EXCEPT ![old] = "READY"]
  /\ ScheduleNextThread(c, old,
       [thread_queue EXCEPT ![c] = Append(@, old)], Outside)
=============================================================================
