--------------------------- MODULE IntrusiveList ---------------------------
(***************************************************************************)
(* ebl::IntrusiveList (lib/ebl/linked_list.h): circular doubly linked      *)
(* lists threaded through their nodes, at the level of pointers.  A node   *)
(* has one pair of links, so it can be on one list at a time, and several  *)
(* lists exchange nodes.                                                   *)
(*                                                                         *)
(* seq is a history variable: the sequence each list stands for, updated   *)
(* by the meaning of each operation and never read by the pointer code.    *)
(* It also states the contract of the callers: a node to be inserted is on *)
(* no list, and a node to be removed is on the list it is removed from.    *)
(***************************************************************************)
EXTENDS SequencesExt

CONSTANTS Lists, Nodes,
          Null,          \* nullptr
          RemoveSole,    \* callers remove the only node of a list
          PopBackEmpty   \* callers call pop_back on an empty list

ASSUME ListAssumption ==
  Null \notin Nodes /\ RemoveSole \in BOOLEAN /\ PopBackEmpty \in BOOLEAN

VARIABLES root,   \* IntrusiveListInternal::root of each list
          next,   \* IntrusiveListNode::next; next[Null]: memory at address 0
          prev,   \* IntrusiveListNode::prev
          ret,    \* what the last operation returned
          fault,  \* a null pointer was dereferenced
          seq     \* history: the sequence each list stands for

vars == <<root, next, prev, ret, fault, seq>>

Pointers == Nodes \cup {Null}

Init ==
  /\ root = [l \in Lists |-> Null]
  /\ next = [p \in Pointers |-> Null]
  /\ prev = [p \in Pointers |-> Null]
  /\ ret = Null
  /\ fault = FALSE
  /\ seq = [l \in Lists |-> <<>>]

-----------------------------------------------------------------------------
\* These pointers are dereferenced.
Deref(S) == fault' = (Null \in S)

\* insert_before_unsafe(node, new_node) for two distinct nodes.
InsertBeforeUnsafe(node, new) ==
  /\ next' = [next EXCEPT ![prev[node]] = new, ![new] = node]
  /\ prev' = [prev EXCEPT ![new] = prev[node], ![node] = new]
  /\ Deref({node, prev[node]})

\* Mutant: the predecessor keeps pointing at the removed node.
UnlinkHalf(node) ==
  /\ next' = [next EXCEPT ![node] = Null]
  /\ prev' = [prev EXCEPT ![next[node]] = prev[node], ![node] = Null]
  /\ Deref({node, prev[node], next[node]})

\* remove_unsafe(node), after its update of root.
Unlink(node) ==
  /\ next' = [next EXCEPT ![prev[node]] = next[node], ![node] = Null]
  /\ prev' = [prev EXCEPT ![next[node]] = prev[node], ![node] = Null]
  /\ Deref({node, prev[node], next[node]})

\* The node becomes the only one of an empty list.
LinkSole(l, node) ==
  /\ root' = [root EXCEPT ![l] = node]
  /\ next' = [next EXCEPT ![node] = node]
  /\ prev' = [prev EXCEPT ![node] = node]
  /\ UNCHANGED fault

PushFrontUnsafe(l, node) ==
  \/ /\ root[l] = Null
     /\ LinkSole(l, node)
  \/ /\ root[l] # Null
     /\ InsertBeforeUnsafe(root[l], node)
     /\ root' = [root EXCEPT ![l] = node]

PushBackUnsafe(l, node) ==
  \/ /\ root[l] = Null
     /\ LinkSole(l, node)
  \/ /\ root[l] # Null
     /\ InsertBeforeUnsafe(root[l], node)
     /\ UNCHANGED root

RemoveUnsafe(l, node) ==
  /\ root' = IF node = root[l] THEN [root EXCEPT ![l] = next[node]] ELSE root
  /\ Unlink(node)

\* pop_front_unsafe on a list of size 0, of size 1, and of any other size.
PopFrontUnsafe(l) ==
  /\ ret' = root[l]
  /\ \/ /\ root[l] = Null
        /\ UNCHANGED <<root, next, prev, fault>>
     \/ /\ root[l] # Null /\ next[root[l]] = root[l]
        /\ root' = [root EXCEPT ![l] = Null]
        /\ UNCHANGED <<next, prev, fault>>
     \/ /\ root[l] # Null /\ next[root[l]] # root[l]
        /\ root' = [root EXCEPT ![l] = next[root[l]]]
        /\ Unlink(root[l])

\* pop_back_unsafe: reads root->prev before it looks whether root is null.
PopBackUnsafe(l) ==
  LET node == prev[root[l]] IN
  /\ ret' = node
  /\ \/ /\ root[l] = node
        /\ root' = [root EXCEPT ![l] = Null]
        /\ Deref({root[l]})
        /\ UNCHANGED <<next, prev>>
     \/ /\ root[l] # node
        /\ Unlink(node)
        /\ UNCHANGED root

-----------------------------------------------------------------------------
\* Node n is on no list.
Loose(n) == \A l \in Lists : \A i \in 1..Len(seq[l]) : seq[l][i] # n

PushFront(l, n) ==
  /\ Loose(n)
  /\ PushFrontUnsafe(l, n)
  /\ ret' = Null
  /\ seq' = [seq EXCEPT ![l] = InsertAt(@, 1, n)]

PushBack(l, n) ==
  /\ Loose(n)
  /\ PushBackUnsafe(l, n)
  /\ ret' = Null
  /\ seq' = [seq EXCEPT ![l] = InsertAt(@, Len(@) + 1, n)]

PopFront(l) ==
  /\ PopFrontUnsafe(l)
  /\ seq' = [seq EXCEPT ![l] = IF @ = <<>> THEN @ ELSE RemoveAt(@, 1)]

PopBack(l) ==
  /\ seq[l] # <<>> \/ PopBackEmpty
  /\ PopBackUnsafe(l)
  /\ seq' = [seq EXCEPT ![l] = IF @ = <<>> THEN @ ELSE RemoveAt(@, Len(@))]

\* remove(node) of the i-th node.
RemoveNode(l, i) ==
  /\ Len(seq[l]) > 1 \/ RemoveSole
  /\ RemoveUnsafe(l, seq[l][i])
  /\ ret' = seq[l][i]
  /\ seq' = [seq EXCEPT ![l] = RemoveAt(@, i)]

\* Mutant: root is not moved when the new node becomes the first.
InsertBeforeNoRoot(l, i, n) ==
  /\ Loose(n)
  /\ InsertBeforeUnsafe(seq[l][i], n)
  /\ ret' = Null
  /\ seq' = [seq EXCEPT ![l] = InsertAt(@, i, n)]
  /\ UNCHANGED root

\* insert_before(inspt, node), where inspt is the i-th node.
InsertBefore(l, i, n) ==
  /\ Loose(n)
  /\ InsertBeforeUnsafe(seq[l][i], n)
  /\ root' = IF seq[l][i] = root[l] THEN [root EXCEPT ![l] = n] ELSE root
  /\ ret' = Null
  /\ seq' = [seq EXCEPT ![l] = InsertAt(@, i, n)]

Next ==
  /\ ~fault
  /\ \E l \in Lists :
       \/ \E n \in Nodes : PushFront(l, n) \/ PushBack(l, n)
       \/ PopFront(l) \/ PopBack(l)
       \/ \E i \in 1..Len(seq[l]) :
            RemoveNode(l, i) \/ \E n \in Nodes : InsertBefore(l, i, n)

Spec == Init /\ [][Next]_vars

-----------------------------------------------------------------------------
\* Type invariant of the links and of the history.
TypeOK ==
  /\ root \in [Lists -> Pointers]
  /\ next \in [Pointers -> Pointers]
  /\ prev \in [Pointers -> Pointers]
  /\ ret \in Pointers
  /\ fault \in BOOLEAN
  /\ seq \in [Lists -> Seq(Nodes)]

\* The position after, and before, the i-th of k nodes in a ring.
After(i, k) == IF i = k THEN 1 ELSE i + 1
Before(i, k) == IF i = 1 THEN k ELSE i - 1

\* The links of the nodes of s form a ring, in both directions.
Ring(s, nx, pv) ==
  \A i \in 1..Len(s) : /\ nx[s[i]] = s[After(i, Len(s))]
                       /\ pv[s[i]] = s[Before(i, Len(s))]

\* The links of every list form the ring of its sequence: push, pop, insert
\* and remove lose, duplicate and reorder nothing.
Represents ==
  \A l \in Lists :
    /\ root[l] = IF seq[l] = <<>> THEN Null ELSE seq[l][1]
    /\ Ring(seq[l], next, prev)

\* A node is on one list at most, and once.
NodeOnce ==
  \A l, m \in Lists : \A i \in 1..Len(seq[l]), j \in 1..Len(seq[m]) :
    seq[l][i] = seq[m][j] => l = m /\ i = j

\* No operation on a list dereferences a null pointer.
NoFault == ~fault

\* begin() to end(), as size() and every range-for loop walk them: from root
\* along next until the walk is back at root.
Visited(l) ==
  LET walk[k \in 0..Cardinality(Nodes)] ==
        IF k = 0 THEN root[l] ELSE next[walk[k - 1]]
      size == IF root[l] = Null THEN 0
              ELSE CHOOSE k \in 1..Cardinality(Nodes) :
                     walk[k] = root[l] /\ \A j \in 1..k - 1 : walk[j] # root[l]
  IN [k \in 1..size |-> walk[k - 1]]

\* Iterating over a list visits its nodes once each, in order, and ends.
IterationVisitsAll == \A l \in Lists : Visited(l) = seq[l]

\* The pointer code implements lists as sequences: in particular every
\* operation returns the node it should.
Abstract == INSTANCE ListSpec
ImplementsLists == Abstract!ListBehaviour
=============================================================================
