--------------------------- MODULE MCInventorySaga ---------------------------
(***************************************************************************)
(* Model-checking instances of InventorySaga: one usage and its undoing,   *)
(* or two usages of which one names no subscriber.                         *)
(***************************************************************************)
EXTENDS InventorySaga, TLC

CONSTANTS u1, u2, v1, w1, w2

UndoTarget == [v \in Reversals |-> u1]
WorkerSymmetry == Permutations(Worker)
=============================================================================
