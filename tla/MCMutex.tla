------------------------------ MODULE MCMutex ------------------------------
(* Instances of Mutex for TLC. *)
EXTENDS Mutex

CONSTANTS t1, t2, t3, t4

OneCur == [c \in Cpus |-> t1]
OneQueue3 == [c \in Cpus |-> <<t2, t3>>]

TwoCur == [c \in Cpus |-> IF c = 1 THEN t1 ELSE t2]
TwoQueue4 == [c \in Cpus |-> IF c = 1 THEN <<t3>> ELSE <<t4>>]
=============================================================================
