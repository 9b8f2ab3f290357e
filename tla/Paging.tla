------------------------------- MODULE Paging -------------------------------
(***************************************************************************)
(* Four-level paging as the loader and the kernel use it                   *)
(* (arch/x86-64/types.h).  Addresses are counted in pages: every caller    *)
(* asserts that they are page-aligned.  The tables in memory are a partial *)
(* function from pairs <<frame, index>>, the entries with the present bit, *)
(* to records with the frame an entry names and the rights it grants.      *)
(***************************************************************************)
EXTENDS Integers

CONSTANT Entries  \* entries of a table: 512

ASSUME PagingAssumption == Entries \in Nat \ {0, 1}

-----------------------------------------------------------------------------
pml4e_index(v) == (v \div (Entries * Entries * Entries)) % Entries
pdpte_index(v) == (v \div (Entries * Entries)) % Entries
pde_index(v) == (v \div Entries) % Entries
pte_index(v) == v % Entries

\* The bits above the first index only repeat its top bit (canonicalize), and
\* the indices above ignore them.
virt_from_index(pml4e, pdpte, pde, pte) ==
  pte + Entries * (pde + Entries * (pdpte + Entries * pml4e))

\* The last entry of the PML4 names the PML4 itself.
Self == Entries - 1

-----------------------------------------------------------------------------
NoFrame == -1

\* What entry i of the table in frame f names.
Named(tables, f, i) == IF <<f, i>> \in DOMAIN tables THEN tables[<<f, i>>].frame ELSE NoFrame

\* The entry i of frame f is given a new value.
Written(tables, f, i, entry) ==
  [slot \in DOMAIN tables \cup {<<f, i>>} |-> IF slot = <<f, i>> THEN entry ELSE tables[slot]]

\* The four slots the processor looks at to translate v.
Slots(tables, root, v) ==
  LET pdpt == Named(tables, root, pml4e_index(v))
      pd == Named(tables, pdpt, pdpte_index(v))
      pt == Named(tables, pd, pde_index(v))
  IN << <<root, pml4e_index(v)>>, <<pdpt, pdpte_index(v)>>, <<pd, pde_index(v)>>,
       <<pt, pte_index(v)>> >>

\* The frame that page v is mapped to, or NoFrame.
Translate(tables, root, v) == LET pte == Slots(tables, root, v)[4] IN Named(tables, pte[1], pte[2])

\* An access needs its right at every level.
Rights(tables, root, v) ==
  {r \in UNION {tables[slot].rights : slot \in DOMAIN tables} :
     \A level \in 1..4 : r \in tables[Slots(tables, root, v)[level]].rights}

\* The frames that hold the tables below root.
TableFrames(tables, root) ==
  LET below(S, last) == {tables[slot].frame : slot \in {x \in DOMAIN tables : x[1] \in S /\ x[2] <= last}}
      pdpts == below({root}, Self - 1)
      pds == below(pdpts, Self)
  IN {root} \cup pdpts \cup pds \cup below(pds, Self)
=============================================================================
