-------------------------- MODULE ConvergenceMatrix --------------------------
(***************************************************************************)
(* The convergence matrix of MOD11: what each operational event does to    *)
(* the projections of an execution order, namely its agenda event          *)
(* (calendar), its visit request (visit) and its linked task, as the       *)
(* handlers of execution-order-events.processor.ts write them.             *)
(***************************************************************************)
EXTENDS Naturals, Sequences

CloseResult == {"EXECUTED", "EXECUTED_WITH_OBSERVATIONS", "NOT_EXECUTED",
                "REQUIRES_FOLLOW_UP"}

\* Events whose handler writes the projections.
Projected == {"Started", "Blocked", "Closed", "FollowUpRequired"}

\* Events whose handler only acknowledges them.
Acknowledged == {"Cancelled", "Annulled", "VisitResourceChanged"}

\* INVENTORY_EVENTS_BYPASSING_AGGREGATE_VERSION: exempt from the version gate.
Bypassing == {"ConsumptionRequestedV2", "ReversalRequested"}

EventType == Projected \cup Acknowledged \cup Bypassing

\* REDRIVE_ALLOWED_EVENT_TYPES
Redrivable == EventType \ {"VisitResourceChanged", "ReversalRequested"}

Event == [type: EventType, version: Nat \ {0},
          result: CloseResult \cup {"NONE"}]

TaskStatus == {"OPEN", "READY", "SCHEDULED", "IN_PROGRESS", "PENDING_EXTERNAL",
               "PENDING_INTERNAL", "BLOCKED", "RESOLVED", "CANCELLED"}

\* "NONE": the order has no agenda event (schedule_event_id IS NULL) or no
\* linked task (task_id IS NULL).
Projection ==
  [calendar: {"NONE", "SCHEDULED", "IN_PROGRESS", "COMPLETED", "CANCELLED"},
   visit: {"SCHEDULED", "IN_EXECUTION", "CLOSED", "REQUIRES_RESCHEDULE"},
   task: TaskStatus \cup {"NONE"}]

\* UPDATE ... SET status = to WHERE status NOT IN kept.
Unless(status, kept, to) == IF status \in kept THEN status ELSE to

\* The linked task, if any, gets the status without further condition.
transitionLinkedTask(task, to) == Unless(task, {"NONE"}, to)

applyExecutionOrderStarted(p) ==
  [calendar |-> Unless(p.calendar, {"NONE", "COMPLETED", "CANCELLED"},
                       "IN_PROGRESS"),
   visit |-> Unless(p.visit, {"CLOSED"}, "IN_EXECUTION"),
   task |-> transitionLinkedTask(p.task, "IN_PROGRESS")]

\* The agenda event keeps its status: "ya lo esta; la alerta es UX".
applyExecutionOrderBlocked(p) ==
  [calendar |-> p.calendar,
   visit |-> Unless(p.visit, {"CLOSED"}, "IN_EXECUTION"),
   task |-> transitionLinkedTask(p.task, "BLOCKED")]

\* Mutant: the statuses of the visit and of the task are swapped.
applyClosedSwapped(p, result) ==
  LET done == result # "NOT_EXECUTED"
  IN [calendar |-> Unless(p.calendar, {"NONE", "COMPLETED", "CANCELLED"},
                          IF done THEN "COMPLETED" ELSE "CANCELLED"),
      visit |-> IF done THEN "RESOLVED" ELSE "READY",
      task |-> IF done THEN "CLOSED" ELSE "REQUIRES_RESCHEDULE"]

applyExecutionOrderClosed(p, result) ==
  LET done == result # "NOT_EXECUTED"
  IN [calendar |-> Unless(p.calendar, {"NONE", "COMPLETED", "CANCELLED"},
                          IF done THEN "COMPLETED" ELSE "CANCELLED"),
      visit |-> Unless(p.visit, {"CLOSED"},
                       IF done THEN "CLOSED" ELSE "REQUIRES_RESCHEDULE"),
      task |-> transitionLinkedTask(p.task, IF done THEN "RESOLVED" ELSE "READY")]

applyExecutionOrderFollowUp(p) ==
  [calendar |-> Unless(p.calendar, {"NONE", "COMPLETED", "CANCELLED"},
                       "COMPLETED"),
   visit |-> "REQUIRES_RESCHEDULE",
   task |-> transitionLinkedTask(p.task, "PENDING_INTERNAL")]

handler(e, p) ==
  CASE e.type = "Started" -> applyExecutionOrderStarted(p)
    [] e.type = "Blocked" -> applyExecutionOrderBlocked(p)
    [] e.type = "Closed" -> applyExecutionOrderClosed(p, e.result)
    [] e.type = "FollowUpRequired" -> applyExecutionOrderFollowUp(p)
    [] OTHER -> p

-----------------------------------------------------------------------------
(* The linked task in the transaction of close *)

mapCloseResultToTaskStatus(result) ==
  IF result = "NOT_EXECUTED" THEN "READY" ELSE "RESOLVED"

STATUS_TRANSITIONS ==
  [OPEN |-> {"READY", "IN_PROGRESS", "PENDING_INTERNAL", "PENDING_EXTERNAL",
             "BLOCKED", "CANCELLED"},
   READY |-> {"SCHEDULED", "IN_PROGRESS", "BLOCKED", "CANCELLED"},
   SCHEDULED |-> {"IN_PROGRESS", "BLOCKED", "CANCELLED"},
   IN_PROGRESS |-> {"PENDING_INTERNAL", "PENDING_EXTERNAL", "BLOCKED",
                    "RESOLVED", "CANCELLED"},
   PENDING_INTERNAL |-> {"READY", "IN_PROGRESS", "BLOCKED", "CANCELLED"},
   PENDING_EXTERNAL |-> {"READY", "IN_PROGRESS", "BLOCKED", "CANCELLED"},
   BLOCKED |-> {"READY", "IN_PROGRESS", "CANCELLED"},
   RESOLVED |-> {}, CANCELLED |-> {}]

assertTransitionAllowed(from, to) == from = to \/ to \in STATUS_TRANSITIONS[from]

\* A command whose task may not make the transition is refused as a whole.
taskAdmits(e, task) ==
  e.type = "Closed" /\ task # "NONE" =>
    assertTransitionAllowed(task, mapCloseResultToTaskStatus(e.result))

transitionStatus(e, task) ==
  IF e.type = "Closed" /\ task # "NONE"
    THEN mapCloseResultToTaskStatus(e.result) ELSE task
=============================================================================
