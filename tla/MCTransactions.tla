--------------------------- MODULE MCTransactions ---------------------------
(* Instances of Transactions for TLC: two clients, one of them with two windows *)
(* when there are three.                                                        *)
EXTENDS Transactions

CONSTANTS c1, c2, w1

ClientsDef == {c1, c2}
ClientOfDef == [w \in Windows |-> IF w = w1 THEN c1 ELSE c2]
===========================================================================
