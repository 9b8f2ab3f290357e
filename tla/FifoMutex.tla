----------------------------- MODULE FifoMutex -----------------------------
(***************************************************************************)
(* What a blocking mutex promises its clients: at most one holder, and     *)
(* once a thread has found the mutex taken it queues, and the mutex is     *)
(* handed over strictly in queue order.  A thread that arrives while       *)
(* somebody is queued never overtakes (no barging), even if the mutex has  *)
(* just been released.                                                     *)
(***************************************************************************)
EXTENDS Sequences, Naturals

CONSTANTS Threads, Mutexes, NoThread

VARIABLES holder,  \* holder[m]: the thread inside the critical section of m
          queue    \* queue[m]: the threads asleep on m or handed m, in order

Free(m) == holder[m] = NoThread /\ queue[m] = <<>>

Acquire(t, m) ==
  /\ Free(m)
  /\ holder' = [holder EXCEPT ![m] = t]
  /\ UNCHANGED queue

Enqueue(t, m) ==
  /\ ~Free(m)
  /\ holder[m] # t
  /\ \A i \in 1..Len(queue[m]) : queue[m][i] # t
  /\ queue' = [queue EXCEPT ![m] = Append(@, t)]
  /\ UNCHANGED holder

Release(t, m) ==
  /\ holder[m] = t
  /\ holder' = [holder EXCEPT ![m] = NoThread]
  /\ UNCHANGED queue

Enter(t, m) ==
  /\ holder[m] = NoThread
  /\ queue[m] # <<>> /\ Head(queue[m]) = t
  /\ holder' = [holder EXCEPT ![m] = t]
  /\ queue' = [queue EXCEPT ![m] = Tail(@)]

FifoInit ==
  /\ holder = [m \in Mutexes |-> NoThread]
  /\ queue = [m \in Mutexes |-> <<>>]

FifoNext ==
  \E t \in Threads, m \in Mutexes :
    Acquire(t, m) \/ Enqueue(t, m) \/ Release(t, m) \/ Enter(t, m)

FifoSpec == FifoInit /\ [][FifoNext]_<<holder, queue>>
=============================================================================
