------------------------------ MODULE PmmSpec ------------------------------
(***************************************************************************)
(* What the physical memory manager promises: each call takes its pages    *)
(* from the front of the free list or changes nothing, and gives them back *)
(* at its end, in one step.                                                *)
(***************************************************************************)
EXTENDS Integers, SequencesExt

CONSTANTS Owners, MaxCount,
          InitFree  \* the free list at the start

VARIABLES free,    \* the free pages, in the order they are handed out
          lists,   \* lists[o]: the list of pages of owner o
          single,  \* pages handed out one by one
          result

TakeSingle ==
  /\ free # <<>>
  /\ single' = single \cup {Head(free)}
  /\ free' = Tail(free)
  /\ result' = "OK"
  /\ UNCHANGED lists

GiveSingle(p) ==
  /\ single' = single \ {p}
  /\ free' = Append(free, p)
  /\ result' = "OK"
  /\ UNCHANGED lists

Take(o, count) ==
  /\ count <= Len(free)
  /\ lists' = [lists EXCEPT ![o] = Reverse(SubSeq(free, 1, count))]
  /\ free' = SubSeq(free, count + 1, Len(free))
  /\ result' = "OK"
  /\ UNCHANGED single

Give(o) ==
  /\ free' = free \o lists[o]
  /\ lists' = [lists EXCEPT ![o] = <<>>]
  /\ result' = "OK"
  /\ UNCHANGED single

\* The request is larger than what is free.
Refuse(count) ==
  /\ count > Len(free)
  /\ result' = "OUT_OF_MEMORY"
  /\ UNCHANGED <<free, lists, single>>

PmmNext ==
  \/ TakeSingle
  \/ \E p \in single : GiveSingle(p)
  \/ \E o \in Owners : Give(o) \/ \E count \in 0..MaxCount : Take(o, count)
  \/ \E count \in 1..MaxCount : Refuse(count)

PmmBehaviour ==
  /\ free = InitFree /\ lists = [o \in Owners |-> <<>>] /\ single = {} /\ result = "OK"
  /\ [][PmmNext]_<<free, lists, single, result>>
=============================================================================
