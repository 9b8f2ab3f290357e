------------------------------ MODULE Spinlock ------------------------------
(***************************************************************************)
(* core::Spinlock (core/spinlock.cc) held through ebl::Guard on several    *)
(* CPUs, with the interrupt flag of each CPU and interrupts that arrive    *)
(* while it is set.  A CPU runs its thread or, above it, an interrupt      *)
(* handler; either may hold locks, nested in one order.                    *)
(*                                                                         *)
(* ByValue chooses what spin_lock works on.  FALSE is the contract of      *)
(* arch/interface.h: the word of the lock it is given.  TRUE is the inline *)
(* assembly of the x86-64 port, whose operand is the value of lock->x in   *)
(* place of its address: with every lock->x zero, the word at address 0.   *)
(***************************************************************************)
EXTENDS Integers, Sequences

CONSTANTS Cpus,
          Locks,     \* numbered in the order in which they nest
          Handlers,  \* interrupt handlers take locks
          ByValue

ASSUME SpinlockAssumption ==
  Locks \subseteq Nat \ {0} /\ Handlers \in BOOLEAN /\ ByValue \in BOOLEAN

VARIABLES word,   \* word[l]: SpinlockBackend::x of lock l; word[0]: address 0
          irq,    \* irq[c]: RFLAGS.IF of CPU c
          level,  \* level[c]: what CPU c runs
          pc,     \* pc[c][x]: where level x of CPU c is in lock() or unlock()
          guards, \* guards[c][x]: its Guards, with the flags they saved
          wanted  \* history: RFLAGS.IF as the thread of c last set it itself

vars == <<word, irq, level, pc, guards, wanted>>

Levels == {"thread", "handler"}

Guards == [lock : Locks, flags : BOOLEAN]

Init ==
  /\ word = [l \in Locks \cup {0} |-> 0]
  /\ irq = [c \in Cpus |-> TRUE]
  /\ level = [c \in Cpus |-> "thread"]
  /\ pc = [c \in Cpus |-> [x \in Levels |-> "out"]]
  /\ guards = [c \in Cpus |-> [x \in Levels |-> <<>>]]
  /\ wanted = [c \in Cpus |-> TRUE]

-----------------------------------------------------------------------------
\* The level that CPU c runs, its Guards, and the innermost of them.
Pc(c) == pc[c][level[c]]
Held(c) == guards[c][level[c]]
Top(c) == Held(c)[Len(Held(c))]

Goto(c, label) == pc' = [pc EXCEPT ![c][level[c]] = label]

\* Mutant: spin_save_state does not disable interrupts.
SaveStateOpen(c, l) ==
  /\ guards' = [guards EXCEPT ![c][level[c]] = Append(@, [lock |-> l, flags |-> irq[c]])]
  /\ UNCHANGED irq

\* Mutant: spin_save_state saves the flags after it disabled interrupts.
SaveStateLate(c, l) ==
  /\ guards' = [guards EXCEPT ![c][level[c]] = Append(@, [lock |-> l, flags |-> FALSE])]
  /\ irq' = [irq EXCEPT ![c] = FALSE]

\* spin_save_state, into the Policy of the Guard.
SaveState(c, l) ==
  /\ guards' = [guards EXCEPT ![c][level[c]] = Append(@, [lock |-> l, flags |-> irq[c]])]
  /\ irq' = [irq EXCEPT ![c] = FALSE]

\* Spinlock::lock up to the spinning.
Lock(c, l) ==
  /\ Pc(c) \in {"out", "in"}
  /\ \A i \in 1..Len(Held(c)) : Held(c)[i].lock < l
  /\ SaveState(c, l)
  /\ Goto(c, "spin")
  /\ UNCHANGED <<word, level, wanted>>

\* The word spin_lock works on.
SpinWord(l) == IF ByValue THEN 0 ELSE l

\* Mutant: the word is incremented without a look at what it was.
SpinAcquireBlind(c) ==
  /\ Pc(c) = "spin"
  /\ word' = [word EXCEPT ![SpinWord(Top(c).lock)] = @ + 1]
  /\ Goto(c, "in")
  /\ UNCHANGED <<irq, level, guards, wanted>>

\* lock bts finds the bit clear.
SpinAcquire(c) ==
  /\ Pc(c) = "spin"
  /\ word[SpinWord(Top(c).lock)] = 0
  /\ word' = [word EXCEPT ![SpinWord(Top(c).lock)] = 1]
  /\ Goto(c, "in")
  /\ UNCHANGED <<irq, level, guards, wanted>>

\* Spinlock::unlock restores the flags and then releases the lock.
UnlockRestore(c) ==
  /\ Pc(c) = "in"
  /\ irq' = [irq EXCEPT ![c] = Top(c).flags]
  /\ Goto(c, "release")
  /\ UNCHANGED <<word, level, guards, wanted>>

\* Then the word of the lock is cleared, and the Guard is done.
UnlockRelease(c) ==
  /\ Pc(c) = "release"
  /\ word' = [word EXCEPT ![Top(c).lock] = 0]
  /\ guards' = [guards EXCEPT ![c][level[c]] = SubSeq(@, 1, Len(@) - 1)]
  /\ Goto(c, IF Len(Held(c)) = 1 THEN "out" ELSE "in")
  /\ UNCHANGED <<irq, level, wanted>>

\* enable_interrupts and disable_interrupts, outside of any lock.
SetIrq(c, on) ==
  /\ level[c] = "thread" /\ Pc(c) = "out"
  /\ irq[c] # on
  /\ irq' = [irq EXCEPT ![c] = on]
  /\ wanted' = [wanted EXCEPT ![c] = on]
  /\ UNCHANGED <<word, level, pc, guards>>

\* An interrupt comes through its gate, which clears IF.
Interrupt(c) ==
  /\ Handlers
  /\ level[c] = "thread" /\ irq[c]
  /\ level' = [level EXCEPT ![c] = "handler"]
  /\ irq' = [irq EXCEPT ![c] = FALSE]
  /\ UNCHANGED <<word, pc, guards, wanted>>

\* iretq: the handler returns, with no lock held.
InterruptReturn(c) ==
  /\ level[c] = "handler" /\ Pc(c) = "out"
  /\ level' = [level EXCEPT ![c] = "thread"]
  /\ irq' = [irq EXCEPT ![c] = TRUE]
  /\ UNCHANGED <<word, pc, guards, wanted>>

Steps(c) ==
  \/ SpinAcquire(c) \/ UnlockRestore(c) \/ UnlockRelease(c)
  \/ InterruptReturn(c)

Next ==
  \E c \in Cpus :
    \/ Steps(c)
    \/ Interrupt(c)
    \/ \E l \in Locks : Lock(c, l)
    \/ \E on \in BOOLEAN : SetIrq(c, on)

Spec == Init /\ [][Next]_vars

\* A CPU executes its instructions, and interrupts leave it time for the
\* thread; critical sections end, the outer ones too, and so do handlers.
\* Nobody has to take a lock.
FairSpec ==
  /\ Spec
  /\ \A c \in Cpus : WF_vars(Steps(c)) /\ SF_vars(InterruptReturn(c))
  /\ \A c \in Cpus, x \in Levels :
       /\ SF_vars(level[c] = x /\ Len(Held(c)) = 1 /\ UnlockRestore(c))
       /\ SF_vars(level[c] = x /\ UnlockRelease(c))

-----------------------------------------------------------------------------
\* Type invariant.
TypeOK ==
  /\ word \in [Locks \cup {0} -> {0, 1}]
  /\ irq \in [Cpus -> BOOLEAN]
  /\ level \in [Cpus -> Levels]
  /\ pc \in [Cpus -> [Levels -> {"out", "spin", "in", "release"}]]
  /\ guards \in [Cpus -> [Levels -> Seq(Guards)]]
  /\ wanted \in [Cpus -> BOOLEAN]

\* Level x of CPU c has lock l: it is not one it still spins for.
Has(c, x, l) ==
  \E i \in 1..Len(guards[c][x]) :
    /\ guards[c][x][i].lock = l
    /\ i = Len(guards[c][x]) => pc[c][x] # "spin"

\* A lock has one holder at most, whichever CPUs and handlers want it.
Exclusion ==
  \A l \in Locks, c, d \in Cpus, x, y \in Levels :
    Has(c, x, l) /\ Has(d, y, l) => c = d /\ x = y

\* Between lock and unlock interrupts are off, also after an inner lock was
\* released: the flags of each Guard are the ones from before its lock.
IrqOffInside ==
  \A c \in Cpus : Pc(c) \in {"spin", "in"} => ~irq[c]

\* A thread that holds no lock has its interrupt flag as it set it itself,
\* whatever locks it and the handlers took in between.
FlagsKept ==
  \A c \in Cpus : level[c] = "thread" /\ Pc(c) = "out" => irq[c] = wanted[c]

\* CPU c spins for lock l; it has just got it.
Spins(c, l) == Pc(c) = "spin" /\ Top(c).lock = l
Gets(c, l) == Pc(c) = "in" /\ Top(c).lock = l

\* spinlock.h, Spinlock::Policy: lock() is annotated ACQUIRE(lock_) and unlock()
\* RELEASE(lock_): a lock that is wanted is taken by someone, again and again,
\* because whoever has it gives it back, in any nesting.  Which CPU wins is up
\* to the hardware.
LockProgress ==
  \A l \in Locks : (\E c \in Cpus : Spins(c, l)) ~> (\E c \in Cpus : Gets(c, l))
=============================================================================
