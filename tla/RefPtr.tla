------------------------------- MODULE RefPtr -------------------------------
(***************************************************************************)
(* ebl::RefPtr and ebl::RefCountable (lib/ebl/memory.h), and the list that *)
(* holds references, IntrusiveList<RefPtr<T>> (lib/ebl/linked_list.h).     *)
(*                                                                         *)
(* The RefPtr variables of a thread are its own, and a list is used under  *)
(* the lock of its owner; the reference counts are shared by everybody.    *)
(* So an operation moves pointers in one step and leaves in todo, in the   *)
(* order of the code, the atomic operations on counts it still has to do:  *)
(*   add      add_ref()                                                    *)
(*   release  release() whose result nobody looks at                       *)
(*   destroy  RefPtr::destroy(): release() and, for the last one, delete   *)
(*   delete   the object's memory goes back to the heap                    *)
(* The destructor of a list is PopFront and Drop until it is empty.        *)
(***************************************************************************)
EXTENDS Integers, FiniteSets, SequencesExt

CONSTANTS Threads, Slots,   \* threads, and the RefPtr variables of each
          Objects, Null

ASSUME RefPtrAssumption ==
  /\ IsFiniteSet(Threads) /\ IsFiniteSet(Slots)
  /\ Null \notin Objects /\ Null \notin Threads

VARIABLES ref_count,  \* RefCountable::ref_count_
          alive,      \* objects in allocated memory
          slot,       \* slot[t][v]: RefPtr::ptr_ of variable v of thread t
          list,       \* the objects on the list
          user,       \* the thread that has the lock of the list, or Null
          todo,       \* todo[t]: counts thread t has still to change
          raced,      \* history: objects popped while another thread had them
          fault       \* objects used after they were freed

refVars == <<ref_count, alive, slot, list, user, todo, raced, fault>>

Pointers == Objects \cup {Null}

RefInit ==
  /\ ref_count = [o \in Objects |-> 0]
  /\ alive = {}
  /\ slot = [t \in Threads |-> [v \in Slots |-> Null]]
  /\ list = <<>>
  /\ user = Null
  /\ todo = [t \in Threads |-> <<>>]
  /\ raced = {}
  /\ fault = {}

-----------------------------------------------------------------------------
\* Steps for todo; nothing is to be done to a null pointer.
Do(op, o) == IF o = Null THEN <<>> ELSE <<[op |-> op, obj |-> o]>>

\* Thread t begins an operation that moves pointers and changes these counts.
Begin(t, slots, steps) ==
  /\ todo[t] = <<>>
  /\ slot' = [slot EXCEPT ![t] = slots]
  /\ todo' = [todo EXCEPT ![t] = steps]
  /\ UNCHANGED <<ref_count, alive, fault>>

Own == UNCHANGED <<list, user, raced>>

\* MakeRefPtr: the heap gives memory and AdoptRef stores the count.
MakeRefPtr(t, v, o) ==
  /\ todo[t] = <<>> /\ slot[t][v] = Null /\ o \notin alive
  /\ alive' = alive \cup {o}
  /\ ref_count' = [ref_count EXCEPT ![o] = 1]
  /\ slot' = [slot EXCEPT ![t][v] = o]
  /\ UNCHANGED <<list, user, todo, raced, fault>>

\* RefPtr(RefPtr const&) and RefPtr(T*).
CopyConstruct(t, v, w) ==
  /\ slot[t][v] = Null /\ slot[t][w] # Null
  /\ Begin(t, [slot[t] EXCEPT ![v] = slot[t][w]], Do("add", slot[t][w]))
  /\ Own

\* Mutant: the old object is let go before the new one is held.
CopyAssignLate(t, v, w) ==
  /\ Begin(t, [slot[t] EXCEPT ![v] = slot[t][w]],
           Do("destroy", slot[t][v]) \o Do("add", slot[t][w]))
  /\ Own

\* operator=(RefPtr const&), to itself too.
CopyAssign(t, v, w) ==
  /\ Begin(t, [slot[t] EXCEPT ![v] = slot[t][w]],
           Do("add", slot[t][w]) \o Do("destroy", slot[t][v]))
  /\ Own

\* operator=(RefPtr&&) by way of a temporary and swap, to itself too.
MoveAssign(t, v, w) ==
  /\ Begin(t, [[slot[t] EXCEPT ![w] = Null] EXCEPT ![v] = slot[t][w]],
           IF v = w THEN <<>> ELSE Do("destroy", slot[t][v]))
  /\ Own

\* ~RefPtr.
Drop(t, v) ==
  /\ slot[t][v] # Null
  /\ Begin(t, [slot[t] EXCEPT ![v] = Null], Do("destroy", slot[t][v]))
  /\ Own

-----------------------------------------------------------------------------
\* Thread t takes the lock of the list for an operation on it.
Enter(t) == user = Null /\ user' = t

\* first(): a RefPtr made from the raw pointer at the front.
First(t, v) ==
  /\ list # <<>> /\ slot[t][v] = Null
  /\ Enter(t)
  /\ Begin(t, [slot[t] EXCEPT ![v] = Head(list)], Do("add", Head(list)))
  /\ UNCHANGED <<list, raced>>

\* push_back(node), and push_front and insert_before, which differ in where
\* the node goes: the parameter is a copy, and the list counts its own.
PushBack(t, v) ==
  /\ slot[t][v] # Null /\ slot[t][v] \notin ToSet(list)
  /\ Enter(t)
  /\ list' = Append(list, slot[t][v])
  /\ Begin(t, slot[t], Do("add", slot[t][v]) \o Do("add", slot[t][v])
                         \o Do("destroy", slot[t][v]))
  /\ UNCHANGED raced

\* Threads other than t neither hold object o nor work on it.
Unshared(t, o) ==
  \A u \in Threads \ {t} :
    /\ \A v \in Slots : slot[u][v] # o
    /\ \A i \in 1..Len(todo[u]) : todo[u][i].obj # o

\* pop_front() and pop_back(): the list's reference is released, and then the
\* caller's is made.  Callers test that the list is not empty.
PopFront(t, v) ==
  /\ list # <<>> /\ slot[t][v] = Null
  /\ Enter(t)
  /\ list' = Tail(list)
  /\ Begin(t, [slot[t] EXCEPT ![v] = Head(list)],
           Do("release", Head(list)) \o Do("add", Head(list)))
  /\ raced' = IF Unshared(t, Head(list)) THEN raced ELSE raced \cup {Head(list)}

\* The list without object o.
Unlink(o) == RemoveAt(list, CHOOSE i \in 1..Len(list) : list[i] = o)

\* Mutant: the result of remove() is not destroyed.
RemoveNodeKept(t, v) ==
  /\ slot[t][v] \in ToSet(list)
  /\ Enter(t)
  /\ list' = Unlink(slot[t][v])
  /\ Begin(t, slot[t], Do("add", slot[t][v]) \o Do("release", slot[t][v]))
  /\ UNCHANGED raced

\* remove(node): the parameter is a copy, which is moved into the result,
\* and the caller drops the result.
RemoveNode(t, v) ==
  /\ slot[t][v] \in ToSet(list)
  /\ Enter(t)
  /\ list' = Unlink(slot[t][v])
  /\ Begin(t, slot[t], Do("add", slot[t][v]) \o Do("release", slot[t][v])
                         \o Do("destroy", slot[t][v]))
  /\ UNCHANGED raced

-----------------------------------------------------------------------------
\* Thread t reaches this step for object o; rest are the ones after it.
Reach(t, op, o) == todo[t] # <<>> /\ Head(todo[t]) = [op |-> op, obj |-> o]

\* Thread t goes on, and drops the lock of the list after its last step.
Continue(t, rest) ==
  /\ todo' = [todo EXCEPT ![t] = rest]
  /\ user' = IF rest = <<>> /\ user = t THEN Null ELSE user
  /\ UNCHANGED <<slot, list, raced>>

\* A count is changed by a fetch_add or fetch_sub in the object's memory.
Count(o, delta) ==
  /\ ref_count' = [ref_count EXCEPT ![o] = @ + delta]
  /\ fault' = fault \cup ({o} \ alive)

AddRef(t, o) ==
  /\ Reach(t, "add", o)
  /\ Count(o, 1)
  /\ Continue(t, Tail(todo[t]))
  /\ UNCHANGED alive

Release(t, o) ==
  /\ Reach(t, "release", o)
  /\ Count(o, -1)
  /\ Continue(t, Tail(todo[t]))
  /\ UNCHANGED alive

\* Mutant: the last reference is taken for one more.
DestroyOff(t, o) ==
  /\ Reach(t, "destroy", o)
  /\ Count(o, -1)
  /\ Continue(t, (IF ref_count[o] = 0 THEN Do("delete", o) ELSE <<>>) \o Tail(todo[t]))
  /\ UNCHANGED alive

\* RefPtr::destroy: release() returns whether the count was 1.
Destroy(t, o) ==
  /\ Reach(t, "destroy", o)
  /\ Count(o, -1)
  /\ Continue(t, (IF ref_count[o] = 1 THEN Do("delete", o) ELSE <<>>) \o Tail(todo[t]))
  /\ UNCHANGED alive

Delete(t, o) ==
  /\ Reach(t, "delete", o)
  /\ alive' = alive \ {o}
  /\ fault' = fault \cup ({o} \ alive)
  /\ Continue(t, Tail(todo[t]))
  /\ UNCHANGED ref_count

\* What thread t may do next.
RefStep(t) ==
  \/ \E v \in Slots, o \in Objects : MakeRefPtr(t, v, o)
  \/ \E v, w \in Slots :
       CopyConstruct(t, v, w) \/ CopyAssign(t, v, w) \/ MoveAssign(t, v, w)
  \/ \E v \in Slots :
       \/ Drop(t, v) \/ First(t, v)
       \/ PushBack(t, v) \/ PopFront(t, v) \/ RemoveNode(t, v)
  \/ \E o \in Objects :
       AddRef(t, o) \/ Release(t, o) \/ Destroy(t, o) \/ Delete(t, o)

\* After a use of freed memory nothing more is said.
RefNext ==
  \/ fault = {} /\ \E t \in Threads : RefStep(t)
  \/ fault # {} /\ UNCHANGED refVars

RefSpec == RefInit /\ [][RefNext]_refVars

-----------------------------------------------------------------------------
Ops == {"add", "release", "destroy", "delete"}

\* Type invariant.
RefTypeOK ==
  /\ ref_count \in [Objects -> Int]
  /\ alive \subseteq Objects
  /\ slot \in [Threads -> [Slots -> Pointers]]
  /\ list \in Seq(Objects)
  /\ user \in Threads \cup {Null}
  /\ todo \in [Threads -> Seq([op : Ops, obj : Objects])]
  /\ raced \subseteq Objects /\ fault \subseteq Objects

\* How many variables of thread t hold object o.
HeldBy(t, o) == Cardinality({v \in Slots : slot[t][v] = o})

\* How often thread t still has to do one of these to object o.
Pending(t, ops, o) ==
  Cardinality({i \in 1..Len(todo[t]) : todo[t][i].op \in ops /\ todo[t][i].obj = o})

\* What thread t has added to the count of object o and not taken away.
Owns(t, o) ==
  HeldBy(t, o) + Pending(t, {"release", "destroy"}, o) - Pending(t, {"add"}, o)

\* The count of an object is the number of its holders, up to the operations
\* under way: none of them counts a reference twice or forgets one, and no
\* thread takes away more than it added.  (An object that was popped while
\* another thread had it may have been freed under its holders: see raced.)
CountExact ==
  \A o \in Objects \ raced :
    /\ \A t \in Threads : Owns(t, o) >= 0
    /\ ref_count[o] = Cardinality(UNION {{t} \X (1..Owns(t, o)) : t \in Threads})
                        + IF o \in ToSet(list) THEN 1 ELSE 0

\* linked_list.h: "The list will automatically add and remove references to the
\* objects in the list": no add_ref, release or delete reaches an object that
\* was freed, whatever other threads did since the pointer was read.
NoUseAfterFree == fault = {}

\* pop_front and pop_back, which release before they acquire, are the only way
\* to a use after free: an object that another thread had when it was popped.
\* No other operation, in any order of the atomic steps, loses an object that
\* is still used.
OnlyPopDangles == fault \subseteq raced

\* An object that no operation is under way on, and that was not popped while
\* shared, is allocated exactly while something holds it: it is neither freed
\* early nor leaked.
Lifetime ==
  \A o \in Objects \ raced :
    (\A t \in Threads : \A i \in 1..Len(todo[t]) : todo[t][i].obj # o) =>
      (o \in alive <=> o \in ToSet(list) \/ \E t \in Threads : HeldBy(t, o) > 0)
=============================================================================
