------------------------------ MODULE ListSpec ------------------------------
(***************************************************************************)
(* What an intrusive list promises: each list is a sequence of nodes, a    *)
(* node is on at most one list, and each operation returns the node the    *)
(* sequence says it should.                                                *)
(***************************************************************************)
EXTENDS SequencesExt

CONSTANTS Lists, Nodes, Null

VARIABLES seq,  \* seq[l]: the nodes of list l in order
          ret   \* what the last operation returned, Null for nothing

\* Node n is on no list.
Loose(n) == \A l \in Lists : \A i \in 1..Len(seq[l]) : seq[l][i] # n

\* n becomes the i-th node of l.
Insert(l, i, n) ==
  /\ Loose(n)
  /\ seq' = [seq EXCEPT ![l] = InsertAt(@, i, n)]
  /\ ret' = Null

\* The i-th node of l leaves it and is returned.
Take(l, i) ==
  /\ seq' = [seq EXCEPT ![l] = RemoveAt(@, i)]
  /\ ret' = seq[l][i]

\* Taking a node off an empty list changes nothing.
TakeNone(l) ==
  /\ seq[l] = <<>>
  /\ ret' = Null
  /\ UNCHANGED seq

ListInit ==
  /\ seq = [l \in Lists |-> <<>>]
  /\ ret = Null

ListNext ==
  \E l \in Lists :
    \/ TakeNone(l)
    \/ \E i \in 1..Len(seq[l]) : Take(l, i)
    \/ \E n \in Nodes, i \in 1..Len(seq[l]) + 1 : Insert(l, i, n)

ListBehaviour == ListInit /\ [][ListNext]_<<seq, ret>>
=============================================================================
