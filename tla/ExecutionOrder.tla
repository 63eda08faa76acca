--------------------------- MODULE ExecutionOrder ---------------------------
(***************************************************************************)
(* The execution-order (OT) aggregate of MOD11: the commands of            *)
(* execution-orders.service.ts run by concurrent request transactions on   *)
(* one order row.                                                          *)
(*                                                                         *)
(* Every command is one READ COMMITTED transaction: it reads the order     *)
(* without a lock, takes the advisory lock of its idempotency key, checks, *)
(* and updates the row WHERE version = <the version it read>.  A session   *)
(* is a request in flight: idle -> read -> open -> idle.  An open session  *)
(* holds the locks of its transaction; everything it writes becomes        *)
(* visible in its last step.                                               *)
(***************************************************************************)
EXTENDS Naturals, Sequences, FiniteSets

CONSTANTS Sessions,       \* concurrent request transactions
          Keys,           \* idempotency keys; a key stands for its intentId
          Technicians,
          NoKey, None,
          Requests,       \* the commands sent in this instance
          ExpiringKeys,   \* keys whose receipts may expire meanwhile
          MaxVersion,     \* bound: no command writes the row past this version
          AgendaOverlaps  \* may the agenda's cancellation be overtaken?

ASSUME VersionBound == MaxVersion \in Nat
ASSUME NoKeyIsNoKey == NoKey \notin Keys
ASSUME NoTechnician == None \notin Technicians
ASSUME ExpiringAreKeys == ExpiringKeys \subseteq Keys
ASSUME AgendaFlag == AgendaOverlaps \in BOOLEAN

VARIABLES order,        \* the row of execution_orders
          transitions,  \* execution_order_status_transitions, in order
          outbox,       \* execution_order_outbox_events, in order
          usages,       \* item usages by inventoryRequestId (the intent)
          reversals,    \* reversal requests by the intent that asked
          idem,         \* idempotency records by key
          pc, req, key, snap  \* the sessions

orderVars == <<order, transitions, outbox, idem>>
stockVars == <<usages, reversals>>
sessionVars == <<pc, req, key, snap>>
vars == <<orderVars, stockVars, sessionVars>>

-----------------------------------------------------------------------------
(* Types *)

Terminal == {"COMPLETED", "COMPLETED_WITH_OBSERVATIONS", "NOT_EXECUTED",
             "CANCELLED"}
Registering == {"IN_PROGRESS", "BLOCKED"}
Status == {"CREATED", "ASSIGNED", "EN_ROUTE"} \cup Registering \cup Terminal

CloseResult == {"EXECUTED", "EXECUTED_WITH_OBSERVATIONS", "NOT_EXECUTED",
                "REQUIRES_FOLLOW_UP"}

Order == [status: Status, result: CloseResult \cup {"NONE"}, version: Nat,
          annulled: BOOLEAN, technician: Technicians \cup {None},
          scheduled: BOOLEAN]

\* Commands that take an Idempotency-Key, with the payload that is hashed.
KeyedCommand ==
  [op: {"start", "block", "unblock", "activity", "annul", "follow_up"},
   arg: {"-"}]
    \cup [op: {"close"}, arg: CloseResult]
    \cup [op: {"item_usage"}, arg: {"INSTALLED_AT_CUSTOMER", "CONSUMED"}]
    \cup [op: {"reversal"}, arg: Keys]
    \cup [op: {"assign"}, arg: Technicians]

\* Editing an activity and the agenda's cancellation carry no key.
UnkeyedCommand == [op: {"edit_activity", "agenda_cancel"}, arg: {"-"}]

Command == KeyedCommand \cup UnkeyedCommand
ASSUME RequestsAreCommands == Requests \subseteq Command
NoCommand == [op |-> "none", arg |-> "-"]

ProjectionEvent == {"Started", "Blocked", "Closed", "Cancelled", "Annulled",
                    "VisitResourceChanged", "FollowUpRequired"}
InventoryEvent == {"ConsumptionRequestedV2", "ReversalRequested"}

Event == [type: ProjectionEvent \cup InventoryEvent, version: Nat,
          key: Keys \cup {NoKey}]

NoRow == [state |-> "ABSENT"]
Usage == [state: {"PENDING", "CONFIRMED", "REJECTED"}, installed: BOOLEAN]
Reversal == [state: {"PENDING", "CONFIRMED", "REJECTED"}, usage: Keys]
Receipt == [state: {"COMPLETED", "EXPIRED"}, cmd: KeyedCommand]

NoSnapshot == [status |-> "CREATED", result |-> "NONE", version |-> 0,
               annulled |-> FALSE, technician |-> None, scheduled |-> FALSE]

TypeOK ==
  /\ order \in Order
  /\ transitions \in Seq([from: Status, to: Status])
  /\ outbox \in Seq(Event)
  /\ usages \in [Keys -> Usage \cup {NoRow}]
  /\ reversals \in [Keys -> Reversal \cup {NoRow}]
  /\ idem \in [Keys -> Receipt \cup {NoRow}]
  /\ pc \in [Sessions -> {"idle", "read", "open"}]
  /\ req \in [Sessions -> Command \cup {NoCommand}]
  /\ key \in [Sessions -> Keys \cup {NoKey}]
  /\ snap \in [Sessions -> Order]

-----------------------------------------------------------------------------
(* createFromSchedulingWithManager: the row starts CREATED without an       *)
(* assignee, ASSIGNED with one, and with or without its agenda event.       *)
createFromScheduling(technician, scheduled) ==
  [status |-> IF technician = None THEN "CREATED" ELSE "ASSIGNED",
   result |-> "NONE", version |-> 1, annulled |-> FALSE,
   technician |-> technician, scheduled |-> scheduled]

Init ==
  /\ \E t \in Technicians \cup {None}, e \in BOOLEAN :
       order = createFromScheduling(t, e)
  /\ transitions = <<>>
  /\ outbox = <<>>
  /\ usages = [k \in Keys |-> NoRow]
  /\ reversals = [k \in Keys |-> NoRow]
  /\ idem = [k \in Keys |-> NoRow]
  /\ pc = [s \in Sessions |-> "idle"]
  /\ req = [s \in Sessions |-> NoCommand]
  /\ key = [s \in Sessions |-> NoKey]
  /\ snap = [s \in Sessions |-> NoSnapshot]

-----------------------------------------------------------------------------
(* Checks on the order a session read *)

\* Mutant: CANCELLED is missing from the list of terminal states.
assertMutableButCancelled(o) == o.status \notin Terminal \ {"CANCELLED"}

assertMutable(o) == o.status \notin Terminal

assertRegistrationActive(o) == o.status \in Registering

assertVersion(o, ifMatch) == ifMatch = o.version

\* Usages whose reversal MOD12 confirmed no longer count.
excludeConfirmedReversals ==
  {u \in Keys : /\ usages[u] # NoRow
                /\ ~ \E r \in Keys : /\ reversals[r] # NoRow
                                     /\ reversals[r].usage = u
                                     /\ reversals[r].state = "CONFIRMED"}

InstalledEquipment == {u \in excludeConfirmedReversals : usages[u].installed}

\* A reversal needs a confirmed usage without a live reversal.
Reversible(u) ==
  /\ usages[u] # NoRow
  /\ usages[u].state = "CONFIRMED"
  /\ \A r \in Keys : (reversals[r] # NoRow /\ reversals[r].usage = u)
                        => reversals[r].state = "REJECTED"

\* Activity rows are written by start (its note) and registerFieldWork, so
\* there is none to edit before the order was started.
SomeActivity == \E i \in DOMAIN transitions : transitions[i].to = "IN_PROGRESS"

\* What a command checks before it writes, where it is more than assertMutable.
registerItemUsageAllowed(o) ==
  assertMutable(o) /\ assertRegistrationActive(o) /\ o.technician # None

registerFieldWorkAllowed(o) == assertMutable(o) /\ assertRegistrationActive(o)

updateFieldWorkActivityAllowed(o) == assertMutable(o) /\ SomeActivity

closeAllowed(result, o) ==
  assertMutable(o) /\ (result = "NOT_EXECUTED" => InstalledEquipment = {})

createFollowUpAllowed(o) ==
  (~assertMutable(o) \/ o.status = "BLOCKED") /\ ~o.annulled

cancelFromSchedulingAllowed(o) == o.scheduled /\ assertMutable(o)

Admitted(c, o) ==
  CASE c.op = "item_usage" -> registerItemUsageAllowed(o)
    [] c.op = "activity" -> registerFieldWorkAllowed(o)
    [] c.op = "close" -> closeAllowed(c.arg, o)
    [] c.op = "reversal" -> Reversible(c.arg)
    [] c.op = "follow_up" -> createFollowUpAllowed(o)
    [] c.op = "agenda_cancel" -> cancelFromSchedulingAllowed(o)
    [] c.op = "edit_activity" -> updateFieldWorkActivityAllowed(o)
    [] OTHER -> assertMutable(o)

-----------------------------------------------------------------------------
(* Sessions *)

EndSession(s) ==
  /\ pc' = [pc EXCEPT ![s] = "idle"]
  /\ req' = [req EXCEPT ![s] = NoCommand]
  /\ key' = [key EXCEPT ![s] = NoKey]
  /\ snap' = [snap EXCEPT ![s] = NoSnapshot]

\* requireOrder: a plain SELECT, no lock.
requireOrder(s, c, k) ==
  /\ pc[s] = "idle"
  /\ k = NoKey <=> c \in UnkeyedCommand
  /\ pc' = [pc EXCEPT ![s] = "read"]
  /\ req' = [req EXCEPT ![s] = c]
  /\ key' = [key EXCEPT ![s] = k]
  /\ snap' = [snap EXCEPT ![s] = order]
  /\ UNCHANGED <<orderVars, stockVars>>

\* pg_advisory_xact_lock on the key: held by an open session until it ends.
KeyLockFree(s) ==
  \A t \in Sessions \ {s} : pc[t] = "open" /\ key[t] # NoKey => key[t] # key[s]

\* Mutant: the usage is read without FOR UPDATE.
UsageUnlocked(s) == TRUE

\* FOR UPDATE on the usage row that a reversal names.
UsageLockFree(s) ==
  req[s].op = "reversal" =>
    \A t \in Sessions \ {s} : pc[t] = "open" => req[t] # req[s]

\* Mutant: no receipt is looked up before the command runs.
beginCommandWithoutReceipt(s, ifMatch) ==
  /\ pc[s] = "read"
  /\ snap[s].version < MaxVersion
  /\ assertVersion(snap[s], ifMatch)
  /\ Admitted(req[s], snap[s])
  /\ pc' = [pc EXCEPT ![s] = "open"]
  /\ UNCHANGED <<orderVars, stockVars, req, key, snap>>

\* beginCommand, no receipt yet: checks pass and the command goes on.
beginCommand(s, ifMatch) ==
  /\ pc[s] = "read"
  /\ snap[s].version < MaxVersion \/ req[s].op = "reversal"
  /\ KeyLockFree(s)
  /\ key[s] # NoKey => idem[key[s]] = NoRow
  /\ req[s].op # "agenda_cancel" => assertVersion(snap[s], ifMatch)
  /\ UsageLockFree(s)
  /\ Admitted(req[s], snap[s])
  /\ pc' = [pc EXCEPT ![s] = "open"]
  /\ UNCHANGED <<orderVars, stockVars, req, key, snap>>

\* beginIdempotent finds a live receipt of the same operation and payload.
Replay(s) ==
  /\ pc[s] = "read" /\ key[s] # NoKey
  /\ KeyLockFree(s)
  /\ idem[key[s]] = [state |-> "COMPLETED", cmd |-> req[s]]
  /\ EndSession(s)
  /\ UNCHANGED <<orderVars, stockVars>>

\* A failed check, IDEMPOTENCY_CONFLICT or _EXPIRED, VERSION_CONFLICT, a
\* closure gate that is not met, a crash: the transaction rolls back.
Rollback(s) ==
  /\ pc[s] # "idle"
  /\ EndSession(s)
  /\ UNCHANGED <<orderVars, stockVars>>

-----------------------------------------------------------------------------
(* The writes of a command, all in the transaction's last step *)

\* Mutant: the UPDATE has no condition on the version.
persistOrderUnconditionally(s, status, result) ==
  order' = [order EXCEPT !.status = status, !.result = result,
                         !.version = snap[s].version + 1]

\* UPDATE ... SET status, result, version WHERE version = the version read.
persistOrderOptimistically(s, status, result) ==
  /\ order.version = snap[s].version
  /\ order' = [order EXCEPT !.status = status, !.result = result,
                            !.version = snap[s].version + 1]

recordStatusTransition(s, to) ==
  transitions' = Append(transitions, [from |-> snap[s].status, to |-> to])

appendOutbox(type, version, k) ==
  outbox' = Append(outbox, [type |-> type, version |-> version, key |-> k])

\* completeIdempotency: the receipt later retries are answered from.
completeIdempotency(s) ==
  idem' = [idem EXCEPT ![key[s]] = [state |-> "COMPLETED", cmd |-> req[s]]]

finishCommand(s, type) ==
  /\ completeIdempotency(s)
  /\ appendOutbox(type, snap[s].version + 1, key[s])

Opened(s, op) == pc[s] = "open" /\ req[s].op = op

\* A command that changes the status: UPDATE, seat and event.
StatusCommand(s, op, status, result, type) ==
  /\ Opened(s, op)
  /\ persistOrderOptimistically(s, status, result)
  /\ recordStatusTransition(s, status)
  /\ finishCommand(s, type)
  /\ EndSession(s)
  /\ UNCHANGED stockVars

start(s) ==
  StatusCommand(s, "start", "IN_PROGRESS", snap[s].result, "Started")

block(s) ==
  StatusCommand(s, "block", "BLOCKED", snap[s].result, "Blocked")

unblock(s) ==
  StatusCommand(s, "unblock", "IN_PROGRESS", snap[s].result, "Started")

\* Mutant: the result of the close is stored as the status.
resultAsStatus(result) == result

mapResultToStatus(result) ==
  CASE result = "EXECUTED" -> "COMPLETED"
    [] result = "NOT_EXECUTED" -> "NOT_EXECUTED"
    [] OTHER -> "COMPLETED_WITH_OBSERVATIONS"

close(s) ==
  StatusCommand(s, "close", mapResultToStatus(req[s].arg), req[s].arg, "Closed")

assign(s) ==
  /\ Opened(s, "assign")
  /\ order.version = snap[s].version
  /\ order' = [order EXCEPT !.status = "ASSIGNED", !.result = snap[s].result,
                            !.version = snap[s].version + 1,
                            !.technician = req[s].arg]
  /\ recordStatusTransition(s, "ASSIGNED")
  /\ finishCommand(s, "VisitResourceChanged")
  /\ EndSession(s)
  /\ UNCHANGED stockVars

annul(s) ==
  /\ Opened(s, "annul")
  /\ order.version = snap[s].version
  /\ order' = [order EXCEPT !.status = "CANCELLED", !.result = snap[s].result,
                            !.version = snap[s].version + 1, !.annulled = TRUE]
  /\ recordStatusTransition(s, "CANCELLED")
  /\ finishCommand(s, "Annulled")
  /\ EndSession(s)
  /\ UNCHANGED stockVars

\* registerFieldWork: a new activity row; no event.
registerFieldWork(s) ==
  /\ Opened(s, "activity")
  /\ persistOrderOptimistically(s, snap[s].status, snap[s].result)
  /\ completeIdempotency(s)
  /\ EndSession(s)
  /\ UNCHANGED <<transitions, outbox, stockVars>>

\* updateFieldWorkActivity and deleteFieldWorkActivity: no receipt, no event.
editFieldWorkActivity(s) ==
  /\ Opened(s, "edit_activity")
  /\ persistOrderOptimistically(s, snap[s].status, snap[s].result)
  /\ EndSession(s)
  /\ UNCHANGED <<transitions, outbox, idem, stockVars>>

\* Mutant: the usage row is inserted without touching the order's version.
registerItemUsageAside(s) ==
  /\ Opened(s, "item_usage")
  /\ usages' = [usages EXCEPT ![key[s]] =
                  [state |-> "PENDING",
                   installed |-> req[s].arg = "INSTALLED_AT_CUSTOMER"]]
  /\ finishCommand(s, "ConsumptionRequestedV2")
  /\ EndSession(s)
  /\ UNCHANGED <<order, transitions, reversals>>

registerItemUsage(s) ==
  /\ Opened(s, "item_usage")
  /\ usages[key[s]] = NoRow  \* bound: one row per key, also after a purge
  /\ persistOrderOptimistically(s, snap[s].status, snap[s].result)
  /\ usages' = [usages EXCEPT ![key[s]] =
                  [state |-> "PENDING",
                   installed |-> req[s].arg = "INSTALLED_AT_CUSTOMER"]]
  /\ finishCommand(s, "ConsumptionRequestedV2")
  /\ EndSession(s)
  /\ UNCHANGED <<transitions, reversals>>

\* The order row is not written; the event repeats the version that was read.
\* Every reversal is a row of its own (reversalRequestId is a fresh UUID).
\* The partial unique index on live reversals is left out: it would refuse what
\* FOR UPDATE and the check already exclude.
reverseItemUsage(s) ==
  /\ Opened(s, "reversal")
  /\ reversals[key[s]] = NoRow  \* bound: one row per key, also after a purge
  /\ reversals' = [reversals EXCEPT ![key[s]] =
                     [state |-> "PENDING", usage |-> req[s].arg]]
  /\ completeIdempotency(s)
  /\ appendOutbox("ReversalRequested", snap[s].version, key[s])
  /\ EndSession(s)
  /\ UNCHANGED <<order, transitions, usages>>

createFollowUp(s) ==
  /\ Opened(s, "follow_up")
  /\ persistOrderOptimistically(s, snap[s].status, snap[s].result)
  /\ finishCommand(s, "FollowUpRequired")
  /\ EndSession(s)
  /\ UNCHANGED <<transitions, stockVars>>

-----------------------------------------------------------------------------
(* The agenda (WFM) *)

\* cancelFromSchedulingWithManager: manager.save reads the row again and writes
\* every column that differs from the entity, with no condition on the version;
\* a commit before that read is undone, one after it loses its status and
\* version only.  When AgendaOverlaps is FALSE only cancellations that no other
\* transaction overtook are considered.
cancelFromScheduling(s) ==
  /\ Opened(s, "agenda_cancel")
  /\ AgendaOverlaps \/ snap[s] = order
  /\ \E row \in {snap[s], order} :
       order' = [row EXCEPT !.status = "CANCELLED",
                            !.version = snap[s].version + 1]
  /\ recordStatusTransition(s, "CANCELLED")
  /\ appendOutbox("Cancelled", snap[s].version + 1, NoKey)
  /\ EndSession(s)
  /\ UNCHANGED <<idem, stockVars>>

\* Mutant: linking the agenda event leaves the version alone.
linkFromSchedulingSameVersion(t) ==
  /\ order.status \in {"CREATED", "ASSIGNED", "EN_ROUTE"}
  /\ ~order.scheduled
  /\ order.technician \in {None, t}
  /\ order' = [order EXCEPT !.technician = t, !.scheduled = TRUE]
  /\ UNCHANGED <<transitions, outbox, idem, stockVars, sessionVars>>

\* linkFromSchedulingWithManager holds the row FOR UPDATE: one step.
linkFromScheduling(t) ==
  /\ order.version < MaxVersion
  /\ order.status \in {"CREATED", "ASSIGNED", "EN_ROUTE"}
  /\ ~order.scheduled
  /\ order.technician \in {None, t}
  /\ order' = [order EXCEPT !.status = IF @ = "CREATED" THEN "ASSIGNED" ELSE @,
                            !.version = @ + 1, !.technician = t,
                            !.scheduled = TRUE]
  /\ transitions' = IF order.status = "CREATED"
                      THEN Append(transitions, [from |-> "CREATED",
                                                to |-> "ASSIGNED"])
                      ELSE transitions
  /\ UNCHANGED <<outbox, idem, stockVars, sessionVars>>

\* rescheduleFromSchedulingWithManager: also FOR UPDATE; a new window.
rescheduleFromScheduling ==
  /\ order.version < MaxVersion
  /\ assertMutable(order) /\ ~assertRegistrationActive(order)
  /\ order.scheduled
  /\ order' = [order EXCEPT !.version = @ + 1]
  /\ UNCHANGED <<transitions, outbox, idem, stockVars, sessionVars>>

-----------------------------------------------------------------------------
(* Background: inventory's answers and the end of receipts *)

\* The projection of MOD12's answer moves a PENDING row once.
applyMovementAnswer(u, verdict) ==
  /\ usages[u] # NoRow /\ usages[u].state = "PENDING"
  /\ usages' = [usages EXCEPT ![u].state = verdict]
  /\ UNCHANGED <<orderVars, reversals, sessionVars>>

applyReversalAnswer(r, verdict) ==
  /\ reversals[r] # NoRow /\ reversals[r].state = "PENDING"
  /\ reversals' = [reversals EXCEPT ![r].state = verdict]
  /\ UNCHANGED <<orderVars, usages, sessionVars>>

\* Ninety days after completion a receipt only answers IDEMPOTENCY_EXPIRED.
receiptExpires(k) ==
  /\ idem[k] # NoRow /\ idem[k].state = "COMPLETED"
  /\ idem' = [idem EXCEPT ![k].state = "EXPIRED"]
  /\ UNCHANGED <<order, transitions, outbox, stockVars, sessionVars>>

\* The daily job tombstones the expired receipts and, in the same
\* transaction, purges them (its batch of 500 is never full here).
tombstoneJob ==
  /\ \E k \in Keys : idem[k] # NoRow /\ idem[k].state = "EXPIRED"
  /\ idem' = [k \in Keys |->
                IF idem[k] # NoRow /\ idem[k].state = "EXPIRED" THEN NoRow
                                                              ELSE idem[k]]
  /\ UNCHANGED <<order, transitions, outbox, stockVars, sessionVars>>

-----------------------------------------------------------------------------
Commit(s) ==
  \/ start(s) \/ block(s) \/ unblock(s) \/ close(s) \/ assign(s) \/ annul(s)
  \/ registerFieldWork(s) \/ editFieldWorkActivity(s) \/ registerItemUsage(s)
  \/ reverseItemUsage(s) \/ createFollowUp(s) \/ cancelFromScheduling(s)

Next ==
  \/ \E s \in Sessions :
       \/ \E c \in Requests, k \in Keys \cup {NoKey} : requireOrder(s, c, k)
       \/ \E ifMatch \in 1..MaxVersion : beginCommand(s, ifMatch)
       \/ Replay(s) \/ Rollback(s) \/ Commit(s)
  \/ \E t \in Technicians : linkFromScheduling(t)
  \/ rescheduleFromScheduling
  \/ \E k \in Keys, verdict \in {"CONFIRMED", "REJECTED"} :
       applyMovementAnswer(k, verdict) \/ applyReversalAnswer(k, verdict)
  \/ \E k \in ExpiringKeys : receiptExpires(k)
  \/ tombstoneJob

Spec == Init /\ [][Next]_vars

-----------------------------------------------------------------------------
(* Properties *)

\* Optimistic control at work: a session whose version is still the row's
\* version read exactly the row's contents (persistOrderOptimistically relies
\* on the version alone to stand for the whole row).
SnapshotIsCurrent ==
  \A s \in Sessions : pc[s] # "idle" =>
    /\ snap[s].version <= order.version
    /\ snap[s].version = order.version => snap[s] = order

\* No step changes the outcome of a terminal order, and none touches an
\* annulled one: "la cancelacion no reescribe un cierre" (assertMutable).
OutcomeFrozen ==
  order.status \in Terminal =>
    /\ order' = [order EXCEPT !.version = order'.version]
    /\ order.annulled => order' = order

TerminalIsFinal == [][OutcomeFrozen]_vars

\* The version of the row grows with every mutation and never goes back.
VersionOnlyGrows == [][order' # order => order'.version > order.version]_vars

\* The seats form one chain that ends at the order's status: each transition
\* leaves the status the previous one reached (recordStatusTransition).
TransitionChain ==
  \A i \in DOMAIN transitions :
    transitions[i].to = IF i = Len(transitions) THEN order.status
                                                ELSE transitions[i+1].from

\* Events that drive the projections carry distinct, increasing versions: the
\* consumer drops an event whose version it has already seen.
ProjectionVersionsIncrease ==
  \A i, j \in DOMAIN outbox :
    /\ outbox[i].version <= order.version
    /\ (i < j /\ outbox[i].type \in ProjectionEvent
              /\ outbox[j].type \in ProjectionEvent)
         => outbox[i].version < outbox[j].version

\* A key is applied once however often it is retried or raced, and a receipt
\* answers for a command that did take effect (registering field work is the
\* one keyed command without an event).
OneEffectPerKey ==
  /\ \A i, j \in DOMAIN outbox :
       outbox[i].key = outbox[j].key /\ outbox[i].key # NoKey => i = j
  /\ \A k \in Keys :
       idem[k] # NoRow /\ idem[k].cmd.op # "activity"
         => \E i \in DOMAIN outbox : outbox[i].key = k

\* An order closed as NOT_EXECUTED has no equipment left at the customer:
\* close checks the usages, registerItemUsage may run at the same time.
NotExecutedLeavesNoEquipment ==
  order.status = "NOT_EXECUTED" => InstalledEquipment = {}

\* A usage has at most one reversal that is pending or confirmed.
OneLiveReversal ==
  \A r1, r2 \in Keys :
    /\ reversals[r1] # NoRow /\ reversals[r1].state # "REJECTED"
    /\ reversals[r2] # NoRow /\ reversals[r2].state # "REJECTED"
    /\ reversals[r1].usage = reversals[r2].usage
    => r1 = r2
=============================================================================
