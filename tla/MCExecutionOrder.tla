-------------------------- MODULE MCExecutionOrder --------------------------
(***************************************************************************)
(* Model-checking instances of ExecutionOrder: the lifecycle commands on   *)
(* few keys, and the commands that touch equipment on more keys.           *)
(***************************************************************************)
EXTENDS ExecutionOrder, TLC

LifecycleRequests ==
  {c \in Command :
     /\ c.op \notin {"item_usage", "reversal"}
     /\ c.op = "close" => c.arg = "REQUIRES_FOLLOW_UP"}

EquipmentRequests ==
  {c \in Command :
     \/ c.op \in {"start", "reversal"}
     \/ c.op = "item_usage" /\ c.arg = "INSTALLED_AT_CUSTOMER"
     \/ c.op = "close" /\ c.arg = "NOT_EXECUTED"}

AgendaRequests == {c \in Command : c.op \in {"start", "close", "agenda_cancel"}}

Symmetry == Permutations(Sessions) \cup Permutations(Keys)
=============================================================================
