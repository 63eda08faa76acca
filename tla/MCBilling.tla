------------------------------ MODULE MCBilling ------------------------------
(* Instances of Billing: two documents of one period and one of another.   *)
EXTENDS Billing, TLC

CONSTANTS t1, t2

Periods == [d \in Document |-> IF d = 3 THEN 2 ELSE 1]
Totals == [d \in Document |-> IF d = 1 THEN 2 ELSE 1]
Amounts == [p \in Payment |-> IF p = 1 THEN 2 ELSE 1]
TxSymmetry == Permutations(Tx)
=============================================================================
