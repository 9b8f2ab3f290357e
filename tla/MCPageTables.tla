---------------------------- MODULE MCPageTables ----------------------------
(* Instances of PageTables for TLC. *)
EXTENDS PageTables

SevenPages == <<1, 2, 3, 4, 5, 6, 7>>
FivePages == <<1, 2, 3, 4, 5>>

\* Addresses that differ at each level.
AllIndices == {virt_from_index(0, 0, 0, 0), virt_from_index(0, 0, 1, 0), virt_from_index(0, 1, 0, 0)}
MCVirts == {virt_from_index(0, 0, 0, 0), virt_from_index(0, 1, 0, 0), virt_from_index(1, 0, 0, 1)}

Writable == {{"writable"}}
MCFlagSets == {{"writable"}, {"writable", "user"}}

\* Frames are clear, or one that paddr() leads to holds an entry of its own.
Clear == {<<>>}
MCLeftovers == Clear \cup {[slot \in {<<paddr(2), 0>>} |-> [frame |-> paddr(3), rights |-> {"writable"}]]}
MCData == {[frame |-> paddr(1), rights |-> {"writable"}]}
=============================================================================
