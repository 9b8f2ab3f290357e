----------------------------- MODULE MCAtomics -----------------------------
(* Reference counts and spinlocks share no state: each is checked on its    *)
(* own, and subject says which of them a behaviour is about.                *)
EXTENDS MCRefPtr, Spinlock

VARIABLE subject

atomicsVars == <<subject, refVars, vars>>

AtomicsInit ==
  /\ subject \in {"refptr", "spinlock"}
  /\ RefInit /\ Init

AtomicsNext ==
  /\ UNCHANGED subject
  /\ \/ subject = "refptr" /\ RefNext /\ UNCHANGED vars
     \/ subject = "spinlock" /\ Next /\ UNCHANGED refVars

AtomicsSpec == AtomicsInit /\ [][AtomicsNext]_atomicsVars
=============================================================================
