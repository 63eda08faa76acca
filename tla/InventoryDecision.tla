-------------------------- MODULE InventoryDecision --------------------------
(***************************************************************************)
(* What the inventory promises an execution order: every request (to       *)
(* consume an item, or to undo a consumption) is decided once, moves stock *)
(* exactly when it is confirmed, and the order learns that decision and no *)
(* other.  Queues, workers, retries and repeated requests are not visible. *)
(***************************************************************************)
EXTENDS Naturals

CONSTANTS Usages,     \* requests to consume an item
          Reversals,  \* requests to undo a consumption
          Target      \* the usage each reversal undoes

Request == Usages \cup Reversals

VARIABLES asked,     \* the requests the order has made
          decision,  \* what the inventory decided
          moved,     \* the ledger's movements for a request
          told       \* what the order knows

vars == <<asked, decision, moved, told>>

Init ==
  /\ asked = {}
  /\ decision = [r \in Request |-> "NONE"]
  /\ moved = [r \in Request |-> 0]
  /\ told = [r \in Request |-> "NONE"]

\* A usage may be undone once the order knows it was confirmed.
Ask(r) ==
  /\ r \notin asked
  /\ r \in Reversals => told[Target[r]] = "CONFIRMED"
  /\ asked' = asked \cup {r}
  /\ UNCHANGED <<decision, moved, told>>

Confirm(r) ==
  /\ r \in asked /\ decision[r] = "NONE"
  /\ r \in Reversals =>
       /\ moved[Target[r]] = 1
       /\ \A v \in Reversals : Target[v] = Target[r] => moved[v] = 0
  /\ decision' = [decision EXCEPT ![r] = "CONFIRMED"]
  /\ moved' = [moved EXCEPT ![r] = 1]
  /\ UNCHANGED <<asked, told>>

Reject(r) ==
  /\ r \in asked /\ decision[r] = "NONE"
  /\ decision' = [decision EXCEPT ![r] = "REJECTED"]
  /\ UNCHANGED <<asked, moved, told>>

Tell(r) ==
  /\ decision[r] # "NONE" /\ told[r] = "NONE"
  /\ told' = [told EXCEPT ![r] = decision[r]]
  /\ UNCHANGED <<asked, decision, moved>>

Next == \E r \in Request : Ask(r) \/ Confirm(r) \/ Reject(r) \/ Tell(r)

Spec == Init /\ [][Next]_vars
=============================================================================
