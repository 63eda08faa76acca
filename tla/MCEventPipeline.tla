--------------------------- MODULE MCEventPipeline ---------------------------
(***************************************************************************)
(* Model-checking instances of EventPipeline: histories that the commands  *)
(* of ExecutionOrder emit, with the versions they give them.               *)
(***************************************************************************)
EXTENDS EventPipeline

Ev(type, version) == [type |-> type, version |-> version, result |-> "NONE"]
Close(result, version) ==
  [type |-> "Closed", version |-> version, result |-> result]

\* A start, followed by a close or by a request to the inventory.
DeliveryHistories ==
  { <<Ev("Started", 2), Close("EXECUTED", 3)>>,
    <<Ev("Started", 2), Ev("ConsumptionRequestedV2", 3)>> }

\* Longer histories, for the order in which events are applied.
ConvergenceHistories ==
  { <<Ev("Started", 2), Ev("Blocked", 3), Ev("Started", 4), Close("EXECUTED", 5)>>,
    <<Ev("Started", 2), Ev("ConsumptionRequestedV2", 3), Close("NOT_EXECUTED", 4)>>,
    <<Ev("Started", 2), Ev("Blocked", 3), Close("NOT_EXECUTED", 4)>>,
    <<Ev("VisitResourceChanged", 2), Ev("Started", 3),
      Close("EXECUTED_WITH_OBSERVATIONS", 4), Ev("FollowUpRequired", 5)>> }

\* An order may be closed without having been started.
SingleClose == { <<Close("EXECUTED", 2)>> }
=============================================================================
