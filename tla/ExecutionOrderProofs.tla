------------------------ MODULE ExecutionOrderProofs ------------------------
(***************************************************************************)
(* What ExecutionOrder guarantees for every number of sessions, keys and   *)
(* versions: its types, and optimistic concurrency control; what commands  *)
(* leave behind is in ExecutionOrderEffects.                               *)
(*                                                                         *)
(* The results about the order row assume that no cancellation from the    *)
(* agenda is overtaken (~AgendaOverlaps): that write has no condition on   *)
(* the version and TLC refutes them without the assumption.                *)
(***************************************************************************)
EXTENDS ExecutionOrder, TLAPS

\* A request in flight is a command, and carries a key iff it needs one.
SessionOK ==
  \A s \in Sessions : pc[s] # "idle" =>
    /\ req[s] \in Command
    /\ key[s] = NoKey <=> req[s] \in UnkeyedCommand

TypeInv == TypeOK /\ SessionOK

-----------------------------------------------------------------------------
(* Typing facts about requests *)

\* The argument each command carries, and which commands take a key.
LEMMA RequestFacts ==
  ASSUME NEW c \in Command
  PROVE  /\ c.op = "close" => c.arg \in CloseResult
         /\ c.op = "assign" => c.arg \in Technicians
         /\ c.op = "reversal" => c.arg \in Keys
         /\ c \in UnkeyedCommand <=> c.op \in {"edit_activity", "agenda_cancel"}
         /\ c \notin UnkeyedCommand => c \in KeyedCommand
  BY DEF Command, KeyedCommand, UnkeyedCommand

\* The statuses the commands write are statuses; a close reaches a terminal one.
LEMMA StatusFacts ==
  /\ {"ASSIGNED", "IN_PROGRESS", "BLOCKED", "CANCELLED"} \subseteq Status
  /\ \A r \in CloseResult : mapResultToStatus(r) \in Terminal
  /\ Terminal \subseteq Status
  /\ {"ASSIGNED", "IN_PROGRESS", "BLOCKED"} \cap Terminal = {}
  BY DEF Status, Registering, Terminal, mapResultToStatus

\* A stored row is never the marker for an absent one.
LEMMA NoRowIsNoRow ==
  /\ \A u \in Usage : u # NoRow
  /\ \A r \in Reversal : r # NoRow
  /\ \A r \in Receipt : r # NoRow
  BY DEF Usage, Reversal, Receipt, NoRow

\* Appending an element of S to a sequence over S stays over S.
LEMMA AppendType ==
  ASSUME NEW S, NEW seq \in Seq(S), NEW x \in S
  PROVE  Append(seq, x) \in Seq(S)
  OBVIOUS

\* The snapshot of an idle session has the type of a row.
LEMMA NoSnapshotType == NoSnapshot \in Order
  BY DEF NoSnapshot, Order, Status

\* Ending a session keeps the session variables well typed.
LEMMA EndSessionType ==
  ASSUME TypeInv, NEW s \in Sessions, EndSession(s)
  PROVE  /\ pc' \in [Sessions -> {"idle", "read", "open"}]
         /\ req' \in [Sessions -> Command \cup {NoCommand}]
         /\ key' \in [Sessions -> Keys \cup {NoKey}]
         /\ snap' \in [Sessions -> Order]
         /\ SessionOK'
  <1>1. /\ pc' \in [Sessions -> {"idle", "read", "open"}]
        /\ req' \in [Sessions -> Command \cup {NoCommand}]
        /\ key' \in [Sessions -> Keys \cup {NoKey}]
        /\ snap' \in [Sessions -> Order]
    BY NoSnapshotType DEF TypeInv, TypeOK, EndSession
  <1>2. ASSUME NEW t \in Sessions, pc'[t] # "idle"
        PROVE  /\ req'[t] \in Command
               /\ key'[t] = NoKey <=> req'[t] \in UnkeyedCommand
    <2>1. t # s /\ pc[t] # "idle"
      BY <1>2 DEF EndSession, TypeInv, TypeOK
    <2>2. req'[t] = req[t] /\ key'[t] = key[t]
      BY <2>1 DEF EndSession, TypeInv, TypeOK
    <2>3. QED
      BY <2>1, <2>2 DEF TypeInv, SessionOK
  <1>3. QED
    BY <1>1, <1>2 DEF SessionOK

\* The receipt a command writes is well typed.
LEMMA ReceiptType ==
  ASSUME TypeInv, NEW s \in Sessions, pc[s] # "idle",
         req[s] \notin UnkeyedCommand, completeIdempotency(s)
  PROVE  /\ key[s] \in Keys /\ req[s] \in KeyedCommand
         /\ idem' \in [Keys -> Receipt \cup {NoRow}]
  <1>1. key[s] \in Keys /\ req[s] \in KeyedCommand
    BY RequestFacts, NoKeyIsNoKey DEF TypeInv, TypeOK, SessionOK
  <1>2. [state |-> "COMPLETED", cmd |-> req[s]] \in Receipt
    BY <1>1 DEF Receipt
  <1>3. QED
    BY <1>1, <1>2 DEF completeIdempotency, TypeInv, TypeOK

\* An event appended to the outbox keeps it well typed.
LEMMA OutboxType ==
  ASSUME TypeInv, NEW type \in ProjectionEvent \cup InventoryEvent,
         NEW v \in Nat, NEW k \in Keys \cup {NoKey}, appendOutbox(type, v, k)
  PROVE  outbox' \in Seq(Event)
  BY DEF appendOutbox, Event, TypeInv, TypeOK

\* recordStatusTransition keeps the type of the seats.
LEMMA TransitionType ==
  ASSUME TypeInv, NEW s \in Sessions, NEW to \in Status,
         recordStatusTransition(s, to)
  PROVE  transitions' \in Seq([from: Status, to: Status])
  BY DEF recordStatusTransition, TypeInv, TypeOK, Order

\* The types of an order's columns.
LEMMA OrderFields ==
  ASSUME NEW o \in Order
  PROVE  /\ o.status \in Status
         /\ o.result \in CloseResult \cup {"NONE"}
         /\ o.version \in Nat
         /\ o.annulled \in BOOLEAN
         /\ o.technician \in Technicians \cup {None}
         /\ o.scheduled \in BOOLEAN
  BY DEF Order

\* The optimistic UPDATE keeps the row well typed.
LEMMA PersistType ==
  ASSUME TypeInv, NEW s \in Sessions, NEW status \in Status,
         NEW result \in CloseResult \cup {"NONE"},
         persistOrderOptimistically(s, status, result)
  PROVE  order' \in Order
  <1>1. order \in Order /\ snap[s].version \in Nat
    BY OrderFields DEF TypeInv, TypeOK
  <1>2. snap[s].version + 1 \in Nat
    BY <1>1
  <1>3. order' = [order EXCEPT !.status = status, !.result = result,
                            !.version = snap[s].version + 1]
    BY DEF persistOrderOptimistically
  <1>4. QED
    BY <1>1, <1>2, <1>3 DEF Order

\* The version a command writes, and the columns it keeps, are well typed.
LEMMA SnapshotFields ==
  ASSUME TypeInv, NEW s \in Sessions
  PROVE  /\ snap[s].status \in Status
         /\ snap[s].result \in CloseResult \cup {"NONE"}
         /\ snap[s].version \in Nat /\ snap[s].version + 1 \in Nat
         /\ key[s] \in Keys \cup {NoKey}
  <1>1. snap[s] \in Order /\ key[s] \in Keys \cup {NoKey}
    BY DEF TypeInv, TypeOK
  <1>2. QED
    BY <1>1, OrderFields

\* A command that is open and needs a key has a well-typed receipt and event.
LEMMA FinishType ==
  ASSUME TypeInv, NEW s \in Sessions, pc[s] = "open",
         req[s].op \notin {"edit_activity", "agenda_cancel"},
         NEW type \in ProjectionEvent \cup InventoryEvent,
         finishCommand(s, type)
  PROVE  /\ outbox' \in Seq(Event)
         /\ idem' \in [Keys -> Receipt \cup {NoRow}]
  <1>1. req[s] \in Command /\ req[s] \notin UnkeyedCommand
    BY RequestFacts DEF TypeInv, SessionOK
  <1>2. completeIdempotency(s)
    BY DEF finishCommand
  <1>3. appendOutbox(type, snap[s].version + 1, key[s])
    BY DEF finishCommand
  <1>4. outbox' \in Seq(Event)
    BY <1>3, SnapshotFields, OutboxType
  <1>5. QED
    BY <1>1, <1>2, <1>4, ReceiptType

\* A command that changes the status keeps every variable well typed.
LEMMA StatusCommandType ==
  ASSUME TypeInv, NEW s \in Sessions,
         NEW op \in {"start", "block", "unblock", "close"},
         NEW status \in Status, NEW result \in CloseResult \cup {"NONE"},
         NEW type \in ProjectionEvent,
         StatusCommand(s, op, status, result, type)
  PROVE  TypeInv'
  <1>1. pc[s] = "open" /\ req[s].op = op
    BY DEF StatusCommand, Opened
  <1>2. order' \in Order
    BY PersistType DEF StatusCommand
  <1>3. transitions' \in Seq([from: Status, to: Status])
    BY TransitionType DEF StatusCommand
  <1>4. /\ outbox' \in Seq(Event)
        /\ idem' \in [Keys -> Receipt \cup {NoRow}]
    BY <1>1, FinishType DEF StatusCommand
  <1>5. /\ pc' \in [Sessions -> {"idle", "read", "open"}]
        /\ req' \in [Sessions -> Command \cup {NoCommand}]
        /\ key' \in [Sessions -> Keys \cup {NoKey}]
        /\ snap' \in [Sessions -> Order]
        /\ SessionOK'
    BY EndSessionType DEF StatusCommand
  <1>6. usages' = usages /\ reversals' = reversals
    BY DEF StatusCommand, stockVars
  <1>7. QED
    BY <1>2, <1>3, <1>4, <1>5, <1>6 DEF TypeInv, TypeOK

-----------------------------------------------------------------------------
(* Type correctness: one lemma per group of actions *)

\* The initial state satisfies the type invariant.
LEMMA InitType == Init => TypeInv
  <1> SUFFICES ASSUME Init PROVE TypeInv
    OBVIOUS
  <1>1. PICK t \in Technicians \cup {None}, e \in BOOLEAN :
          order = createFromScheduling(t, e)
    BY DEF Init
  <1>2. order \in Order
    BY <1>1 DEF createFromScheduling, Order, Status
  <1>3. QED
    BY <1>2, NoSnapshotType DEF Init, TypeInv, TypeOK, SessionOK

\* assign keeps the type invariant.
LEMMA AssignType ==
  ASSUME TypeInv, NEW s \in Sessions, assign(s)
  PROVE  TypeInv'
  <1>1. pc[s] = "open" /\ req[s].op = "assign"
    BY DEF assign, Opened
  <1>2. req[s].arg \in Technicians
    BY <1>1, RequestFacts DEF TypeInv, SessionOK
  <1>3. order' \in Order
    <2>1. order' = [order EXCEPT !.status = "ASSIGNED",
                                 !.result = snap[s].result,
                                 !.version = snap[s].version + 1,
                                 !.technician = req[s].arg]
      BY DEF assign
    <2>2. order \in Order
      BY DEF TypeInv, TypeOK
    <2>3. QED
      BY <1>2, <2>1, <2>2, SnapshotFields, StatusFacts DEF Order
  <1>4. transitions' \in Seq([from: Status, to: Status])
    BY StatusFacts, TransitionType DEF assign
  <1>5. /\ outbox' \in Seq(Event)
        /\ idem' \in [Keys -> Receipt \cup {NoRow}]
    BY <1>1, FinishType DEF assign, ProjectionEvent
  <1>6. /\ pc' \in [Sessions -> {"idle", "read", "open"}]
        /\ req' \in [Sessions -> Command \cup {NoCommand}]
        /\ key' \in [Sessions -> Keys \cup {NoKey}]
        /\ snap' \in [Sessions -> Order]
        /\ SessionOK'
    BY EndSessionType DEF assign
  <1>7. usages' = usages /\ reversals' = reversals
    BY DEF assign, stockVars
  <1>8. QED
    BY <1>3, <1>4, <1>5, <1>6, <1>7 DEF TypeInv, TypeOK

\* annul keeps the type invariant.
LEMMA AnnulType ==
  ASSUME TypeInv, NEW s \in Sessions, annul(s)
  PROVE  TypeInv'
  <1>1. pc[s] = "open" /\ req[s].op = "annul"
    BY DEF annul, Opened
  <1>3. order' \in Order
    <2>1. order' = [order EXCEPT !.status = "CANCELLED",
                                 !.result = snap[s].result,
                                 !.version = snap[s].version + 1,
                                 !.annulled = TRUE]
      BY DEF annul
    <2>2. order \in Order
      BY DEF TypeInv, TypeOK
    <2>3. QED
      BY <2>1, <2>2, SnapshotFields, StatusFacts DEF Order
  <1>4. transitions' \in Seq([from: Status, to: Status])
    BY StatusFacts, TransitionType DEF annul
  <1>5. /\ outbox' \in Seq(Event)
        /\ idem' \in [Keys -> Receipt \cup {NoRow}]
    BY <1>1, FinishType DEF annul, ProjectionEvent
  <1>6. /\ pc' \in [Sessions -> {"idle", "read", "open"}]
        /\ req' \in [Sessions -> Command \cup {NoCommand}]
        /\ key' \in [Sessions -> Keys \cup {NoKey}]
        /\ snap' \in [Sessions -> Order]
        /\ SessionOK'
    BY EndSessionType DEF annul
  <1>7. usages' = usages /\ reversals' = reversals
    BY DEF annul, stockVars
  <1>8. QED
    BY <1>3, <1>4, <1>5, <1>6, <1>7 DEF TypeInv, TypeOK

\* Commands that keep the status: field work, usages and follow-ups.
LEMMA RegistrationType ==
  ASSUME TypeInv, NEW s \in Sessions,
         \/ registerFieldWork(s) \/ editFieldWorkActivity(s)
         \/ registerItemUsage(s) \/ createFollowUp(s)
  PROVE  TypeInv'
  <1>1. pc[s] = "open" /\ req[s] \in Command
    BY DEF registerFieldWork, editFieldWorkActivity, registerItemUsage,
           createFollowUp, Opened, TypeInv, SessionOK
  <1>2. order' \in Order
    BY PersistType, SnapshotFields
    DEF registerFieldWork, editFieldWorkActivity, registerItemUsage,
        createFollowUp
  <1>3. /\ pc' \in [Sessions -> {"idle", "read", "open"}]
        /\ req' \in [Sessions -> Command \cup {NoCommand}]
        /\ key' \in [Sessions -> Keys \cup {NoKey}]
        /\ snap' \in [Sessions -> Order]
        /\ SessionOK'
    BY EndSessionType DEF registerFieldWork, editFieldWorkActivity,
                          registerItemUsage, createFollowUp
  <1>4. CASE registerFieldWork(s)
    <2>1. req[s].op = "activity" /\ completeIdempotency(s)
      BY <1>4 DEF registerFieldWork, Opened
    <2>2. req[s] \notin UnkeyedCommand
      BY <1>1, <2>1, RequestFacts
    <2>3. QED
      BY <1>1, <1>2, <1>3, <1>4, <2>1, <2>2, ReceiptType
      DEF registerFieldWork, stockVars, TypeInv, TypeOK
  <1>5. CASE editFieldWorkActivity(s)
    BY <1>2, <1>3, <1>5 DEF editFieldWorkActivity, stockVars, TypeInv, TypeOK
  <1>6. CASE registerItemUsage(s)
    <2>1. req[s].op = "item_usage"
      BY <1>6 DEF registerItemUsage, Opened
    <2>2. /\ outbox' \in Seq(Event)
          /\ idem' \in [Keys -> Receipt \cup {NoRow}]
      BY <1>1, <1>6, <2>1, FinishType DEF registerItemUsage, InventoryEvent
    <2>3. [state |-> "PENDING",
           installed |-> req[s].arg = "INSTALLED_AT_CUSTOMER"] \in Usage
      BY DEF Usage
    <2>4. usages' \in [Keys -> Usage \cup {NoRow}]
      BY <1>6, <2>3 DEF registerItemUsage, TypeInv, TypeOK
    <2>5. QED
      BY <1>2, <1>3, <1>6, <2>2, <2>4 DEF registerItemUsage, TypeInv, TypeOK
  <1>7. CASE createFollowUp(s)
    <2>1. req[s].op = "follow_up"
      BY <1>7 DEF createFollowUp, Opened
    <2>2. /\ outbox' \in Seq(Event)
          /\ idem' \in [Keys -> Receipt \cup {NoRow}]
      BY <1>1, <1>7, <2>1, FinishType DEF createFollowUp, ProjectionEvent
    <2>3. QED
      BY <1>2, <1>3, <1>7, <2>2 DEF createFollowUp, stockVars, TypeInv, TypeOK
  <1>8. QED
    BY <1>4, <1>5, <1>6, <1>7

\* reverseItemUsage keeps the type invariant.
LEMMA ReverseType ==
  ASSUME TypeInv, NEW s \in Sessions, reverseItemUsage(s)
  PROVE  TypeInv'
  <1>1. pc[s] = "open" /\ req[s].op = "reversal" /\ req[s] \in Command
    BY DEF reverseItemUsage, Opened, TypeInv, SessionOK
  <1>2. req[s] \notin UnkeyedCommand /\ req[s].arg \in Keys
    BY <1>1, RequestFacts
  <1>3. /\ idem' \in [Keys -> Receipt \cup {NoRow}]
    BY <1>1, <1>2, ReceiptType DEF reverseItemUsage
  <1>4. outbox' \in Seq(Event)
    BY OutboxType, SnapshotFields DEF reverseItemUsage, InventoryEvent
  <1>5. [state |-> "PENDING", usage |-> req[s].arg] \in Reversal
    BY <1>2 DEF Reversal
  <1>6. reversals' \in [Keys -> Reversal \cup {NoRow}]
    BY <1>5 DEF reverseItemUsage, TypeInv, TypeOK
  <1>7. /\ pc' \in [Sessions -> {"idle", "read", "open"}]
        /\ req' \in [Sessions -> Command \cup {NoCommand}]
        /\ key' \in [Sessions -> Keys \cup {NoKey}]
        /\ snap' \in [Sessions -> Order]
        /\ SessionOK'
    BY EndSessionType DEF reverseItemUsage
  <1>8. QED
    BY <1>3, <1>4, <1>6, <1>7 DEF reverseItemUsage, TypeInv, TypeOK

\* The agenda's cancellation keeps the type invariant, whatever row it meets.
LEMMA AgendaType ==
  ASSUME TypeInv, NEW s \in Sessions, cancelFromScheduling(s)
  PROVE  TypeInv'
  <1>1. order' \in Order
    <2>1. PICK row \in {snap[s], order} :
            order' = [row EXCEPT !.status = "CANCELLED",
                                 !.version = snap[s].version + 1]
      BY DEF cancelFromScheduling
    <2>2. row \in Order
      BY DEF TypeInv, TypeOK
    <2>3. QED
      BY <2>1, <2>2, SnapshotFields, StatusFacts DEF Order
  <1>2. transitions' \in Seq([from: Status, to: Status])
    BY StatusFacts, TransitionType DEF cancelFromScheduling
  <1>3. outbox' \in Seq(Event)
    BY OutboxType, SnapshotFields DEF cancelFromScheduling, ProjectionEvent
  <1>4. /\ pc' \in [Sessions -> {"idle", "read", "open"}]
        /\ req' \in [Sessions -> Command \cup {NoCommand}]
        /\ key' \in [Sessions -> Keys \cup {NoKey}]
        /\ snap' \in [Sessions -> Order]
        /\ SessionOK'
    BY EndSessionType DEF cancelFromScheduling
  <1>5. QED
    BY <1>1, <1>2, <1>3, <1>4 DEF cancelFromScheduling, stockVars, TypeInv, TypeOK

\* Every last step of a command keeps the type invariant.
LEMMA CommitType ==
  ASSUME TypeInv, NEW s \in Sessions, Commit(s)
  PROVE  TypeInv'
  <1>1. CASE start(s) \/ block(s) \/ unblock(s)
    BY <1>1, SnapshotFields, StatusFacts, StatusCommandType
    DEF start, block, unblock, ProjectionEvent
  <1>2. CASE close(s)
    <2>1. req[s] \in Command /\ req[s].op = "close"
      BY <1>2 DEF close, StatusCommand, Opened, TypeInv, SessionOK
    <2>2. req[s].arg \in CloseResult
      BY <2>1, RequestFacts
    <2>3. QED
      BY <1>2, <2>2, StatusFacts, StatusCommandType DEF close, ProjectionEvent
  <1>3. QED
    BY <1>1, <1>2, AssignType, AnnulType, RegistrationType, ReverseType,
       AgendaType DEF Commit

\* Reading the order keeps the type invariant.
LEMMA RequireOrderType ==
  ASSUME TypeInv, NEW s \in Sessions, NEW c \in Requests,
         NEW k \in Keys \cup {NoKey}, requireOrder(s, c, k)
  PROVE  TypeInv'
  <1>1. c \in Command
    BY RequestsAreCommands
  <1>2. /\ pc' = [pc EXCEPT ![s] = "read"] /\ req' = [req EXCEPT ![s] = c]
        /\ key' = [key EXCEPT ![s] = k] /\ snap' = [snap EXCEPT ![s] = order]
    BY DEF requireOrder
  <1>3. TypeOK'
    BY <1>1, <1>2 DEF requireOrder, orderVars, stockVars, TypeInv, TypeOK
  <1>4. ASSUME NEW t \in Sessions, pc'[t] # "idle"
        PROVE  /\ req'[t] \in Command
               /\ key'[t] = NoKey <=> req'[t] \in UnkeyedCommand
    <2>1. CASE t = s
      <3>1. req'[t] = c /\ key'[t] = k
        BY <1>2, <2>1 DEF TypeInv, TypeOK
      <3>2. k = NoKey <=> c \in UnkeyedCommand
        BY DEF requireOrder
      <3>3. QED
        BY <1>1, <3>1, <3>2
    <2>2. CASE t # s
      <3>1. req'[t] = req[t] /\ key'[t] = key[t] /\ pc'[t] = pc[t]
        BY <1>2, <2>2 DEF TypeInv, TypeOK
      <3>2. QED
        BY <1>4, <3>1 DEF TypeInv, SessionOK
    <2>3. QED
      BY <2>1, <2>2
  <1>5. QED
    BY <1>3, <1>4 DEF TypeInv, SessionOK

\* Opening, replaying and rolling back keep the type invariant.
LEMMA SessionStepType ==
  ASSUME TypeInv, NEW s \in Sessions,
         \/ \E ifMatch \in 1..MaxVersion : beginCommand(s, ifMatch)
         \/ Replay(s) \/ Rollback(s)
  PROVE  TypeInv'
  <1>1. CASE \E ifMatch \in 1..MaxVersion : beginCommand(s, ifMatch)
    <2>1. /\ pc[s] = "read" /\ pc' = [pc EXCEPT ![s] = "open"]
          /\ UNCHANGED <<orderVars, stockVars, req, key, snap>>
      BY <1>1 DEF beginCommand
    <2>2. TypeOK'
      BY <2>1 DEF orderVars, stockVars, TypeInv, TypeOK
    <2>3. \A t \in Sessions : pc'[t] # "idle" => pc[t] # "idle"
      BY <2>1 DEF TypeInv, TypeOK
    <2>4. QED
      BY <2>1, <2>2, <2>3 DEF TypeInv, SessionOK
  <1>2. CASE Replay(s) \/ Rollback(s)
    BY <1>2, EndSessionType
    DEF Replay, Rollback, orderVars, stockVars, TypeInv, TypeOK
  <1>3. QED
    BY <1>1, <1>2

\* The agenda's locked steps, inventory's answers and the end of receipts.
LEMMA BackgroundType ==
  ASSUME TypeInv,
         \/ \E t \in Technicians : linkFromScheduling(t)
         \/ rescheduleFromScheduling
         \/ \E k \in Keys, verdict \in {"CONFIRMED", "REJECTED"} :
              applyMovementAnswer(k, verdict) \/ applyReversalAnswer(k, verdict)
         \/ \E k \in ExpiringKeys : receiptExpires(k)
         \/ tombstoneJob
  PROVE  TypeInv'
  <1>1. CASE \E t \in Technicians : linkFromScheduling(t)
    <2>1. PICK t \in Technicians : linkFromScheduling(t)
      BY <1>1
    <2>2. order' = [order EXCEPT
                      !.status = IF order.status = "CREATED" THEN "ASSIGNED"
                                                        ELSE order.status,
                      !.version = order.version + 1,
                      !.technician = t, !.scheduled = TRUE]
      BY <2>1 DEF linkFromScheduling
    <2>3. order \in Order /\ order.version + 1 \in Nat
      BY OrderFields DEF TypeInv, TypeOK
    <2>4. order' \in Order
      BY <2>2, <2>3, StatusFacts DEF Order
    <2>5. [from |-> "CREATED", to |-> "ASSIGNED"] \in [from: Status, to: Status]
      BY DEF Status
    <2>6. transitions' \in Seq([from: Status, to: Status])
      <3>1. transitions \in Seq([from: Status, to: Status])
        BY DEF TypeInv, TypeOK
      <3>2. \/ transitions' = transitions
            \/ transitions' = Append(transitions, [from |-> "CREATED",
                                                  to |-> "ASSIGNED"])
        BY <2>1 DEF linkFromScheduling
      <3>3. QED
        BY <2>5, <3>1, <3>2, AppendType
    <2>7. QED
      BY <2>1, <2>4, <2>6
      DEF linkFromScheduling, stockVars, sessionVars, TypeInv, TypeOK, SessionOK
  <1>2. CASE rescheduleFromScheduling
    <2>1. order' = [order EXCEPT !.version = order.version + 1]
      BY <1>2 DEF rescheduleFromScheduling
    <2>2. order \in Order /\ order.version + 1 \in Nat
      BY OrderFields DEF TypeInv, TypeOK
    <2>3. order' \in Order
      BY <2>1, <2>2 DEF Order
    <2>4. QED
      BY <1>2, <2>3 DEF rescheduleFromScheduling, stockVars, sessionVars,
                        TypeInv, TypeOK, SessionOK
  <1>3. CASE \E k \in Keys, verdict \in {"CONFIRMED", "REJECTED"} :
               applyMovementAnswer(k, verdict)
    <2>1. PICK k \in Keys, verdict \in {"CONFIRMED", "REJECTED"} :
            applyMovementAnswer(k, verdict)
      BY <1>3
    <2>2. usages[k] \in Usage
      BY <2>1 DEF applyMovementAnswer, TypeInv, TypeOK
    <2>3. [usages[k] EXCEPT !.state = verdict] \in Usage
      BY <2>2 DEF Usage
    <2>4. usages' \in [Keys -> Usage \cup {NoRow}]
      BY <2>1, <2>3 DEF applyMovementAnswer, TypeInv, TypeOK
    <2>5. QED
      BY <2>1, <2>4 DEF applyMovementAnswer, orderVars, sessionVars,
                        TypeInv, TypeOK, SessionOK
  <1>4. CASE \E k \in Keys, verdict \in {"CONFIRMED", "REJECTED"} :
               applyReversalAnswer(k, verdict)
    <2>1. PICK k \in Keys, verdict \in {"CONFIRMED", "REJECTED"} :
            applyReversalAnswer(k, verdict)
      BY <1>4
    <2>2. reversals[k] \in Reversal
      BY <2>1 DEF applyReversalAnswer, TypeInv, TypeOK
    <2>3. [reversals[k] EXCEPT !.state = verdict] \in Reversal
      BY <2>2 DEF Reversal
    <2>4. reversals' \in [Keys -> Reversal \cup {NoRow}]
      BY <2>1, <2>3 DEF applyReversalAnswer, TypeInv, TypeOK
    <2>5. QED
      BY <2>1, <2>4 DEF applyReversalAnswer, orderVars, sessionVars,
                        TypeInv, TypeOK, SessionOK
  <1>5. CASE \E k \in ExpiringKeys : receiptExpires(k)
    <2>1. PICK k \in Keys : receiptExpires(k)
      BY <1>5, ExpiringAreKeys
    <2>2. idem[k] \in Receipt
      BY <2>1 DEF receiptExpires, TypeInv, TypeOK
    <2>3. [idem[k] EXCEPT !.state = "EXPIRED"] \in Receipt
      BY <2>2 DEF Receipt
    <2>4. idem' \in [Keys -> Receipt \cup {NoRow}]
      BY <2>1, <2>3 DEF receiptExpires, TypeInv, TypeOK
    <2>5. QED
      BY <2>1, <2>4 DEF receiptExpires, stockVars, sessionVars,
                        TypeInv, TypeOK, SessionOK
  <1>6. CASE tombstoneJob
    BY <1>6 DEF tombstoneJob, stockVars, sessionVars, TypeInv, TypeOK, SessionOK
  <1>7. QED
    BY <1>1, <1>2, <1>3, <1>4, <1>5, <1>6

\* Every step keeps the type invariant.
LEMMA NextType == TypeInv /\ [Next]_vars => TypeInv'
  <1> SUFFICES ASSUME TypeInv, [Next]_vars PROVE TypeInv'
    OBVIOUS
  <1>1. CASE UNCHANGED vars
    BY <1>1 DEF vars, orderVars, stockVars, sessionVars, TypeInv, TypeOK,
                SessionOK
  <1>2. CASE Next
    BY <1>2, RequireOrderType, SessionStepType, CommitType, BackgroundType
    DEF Next
  <1>3. QED
    BY <1>1, <1>2

\* The variables keep their types in every behaviour: the rows, the events
\* and the receipts the commands write have the columns their tables declare.
THEOREM TypeCorrect == Spec => []TypeOK
  <1>1. Spec => []TypeInv
    BY InitType, NextType, PTL DEF Spec
  <1>2. TypeInv => TypeOK
    BY DEF TypeInv
  <1>3. QED
    BY <1>1, <1>2, PTL

-----------------------------------------------------------------------------
(* Optimistic concurrency control *)

\* An open session passed the checks of its command on what it had read.
CheckedOK ==
  \A s \in Sessions : pc[s] = "open" =>
    /\ req[s].op \notin {"reversal", "follow_up"}
         => snap[s].status \notin Terminal
    /\ req[s].op = "follow_up" => ~snap[s].annulled

Inv == TypeInv /\ SnapshotIsCurrent /\ CheckedOK

-----------------------------------------------------------------------------
(* What a step does to the row *)

\* A session that may update the row had read exactly the row.
LEMMA CurrentSnapshot ==
  ASSUME SnapshotIsCurrent, NEW s \in Sessions, pc[s] = "open",
         order.version = snap[s].version
  PROVE  snap[s] = order
  BY DEF SnapshotIsCurrent

\* Every commit but a reversal had read the current row and raises its
\* version by one; a reversal leaves the row alone.
LEMMA CommitRow ==
  ASSUME Inv, ~AgendaOverlaps, NEW s \in Sessions, Commit(s)
  PROVE  /\ pc[s] = "open"
         /\ req[s].op = "reversal" => order' = order
         /\ req[s].op # "reversal" => /\ snap[s] = order
                                      /\ order'.version = order.version + 1
  <1>1. order \in Order /\ snap[s] \in Order
    BY DEF Inv, TypeInv, TypeOK
  <1>2. pc[s] = "open"
    BY DEF Commit, start, block, unblock, close, StatusCommand, assign, annul,
           registerFieldWork, editFieldWorkActivity, registerItemUsage,
           reverseItemUsage, createFollowUp, cancelFromScheduling, Opened
  <1>3. CASE reverseItemUsage(s)
    BY <1>2, <1>3 DEF reverseItemUsage, Opened
  <1>4. CASE cancelFromScheduling(s)
    <2>1. /\ req[s].op = "agenda_cancel" /\ snap[s] = order
          /\ order' = [snap[s] EXCEPT !.status = "CANCELLED",
                                      !.version = snap[s].version + 1]
      BY <1>4 DEF cancelFromScheduling, Opened
    <2>2. QED
      BY <1>1, <1>2, <2>1 DEF Order
  <1>5. CASE assign(s) \/ annul(s)
    <2>1. req[s].op # "reversal" /\ snap[s] = order
      BY <1>2, <1>5, CurrentSnapshot DEF assign, annul, Opened, Inv
    <2>2. order'.version = order.version + 1
      BY <1>1, <1>5, <2>1 DEF assign, annul, Order
    <2>3. QED
      BY <1>2, <2>1, <2>2
  <1>6. ASSUME NEW st, NEW re, persistOrderOptimistically(s, st, re)
        PROVE  snap[s] = order /\ order'.version = order.version + 1
    <2>1. snap[s] = order
      BY <1>2, <1>6, CurrentSnapshot DEF persistOrderOptimistically, Inv
    <2>2. order' = [order EXCEPT !.status = st, !.result = re,
                                 !.version = snap[s].version + 1]
      BY <1>6 DEF persistOrderOptimistically
    <2>3. QED
      BY <1>1, <2>1, <2>2 DEF Order
  <1>7. CASE start(s) \/ block(s) \/ unblock(s) \/ close(s)
    BY <1>2, <1>6, <1>7 DEF start, block, unblock, close, StatusCommand, Opened
  <1>8. CASE \/ registerFieldWork(s) \/ editFieldWorkActivity(s)
             \/ registerItemUsage(s) \/ createFollowUp(s)
    BY <1>2, <1>6, <1>8 DEF registerFieldWork, editFieldWorkActivity,
                            registerItemUsage, createFollowUp, Opened
  <1>9. QED
    BY <1>3, <1>4, <1>5, <1>7, <1>8 DEF Commit

\* Each step leaves the row alone or raises its version by exactly one.
LEMMA RowStep ==
  ASSUME Inv, ~AgendaOverlaps, [Next]_vars
  PROVE  order' = order \/ order'.version = order.version + 1
  <1>1. order \in Order
    BY DEF Inv, TypeInv, TypeOK
  <1>2. CASE \E s \in Sessions : Commit(s)
    BY <1>2, CommitRow
  <1>3. CASE \E t \in Technicians : linkFromScheduling(t)
    BY <1>1, <1>3 DEF linkFromScheduling, Order
  <1>4. CASE rescheduleFromScheduling
    BY <1>1, <1>4 DEF rescheduleFromScheduling, Order
  <1>5. CASE UNCHANGED order
    BY <1>5
  <1>6. QED
    BY <1>2, <1>3, <1>4, <1>5
    DEF Next, requireOrder, beginCommand, Replay, Rollback, tombstoneJob,
        receiptExpires, applyMovementAnswer, applyReversalAnswer, orderVars,
        vars

\* What ends a session leaves every other session alone.
LEMMA EndSessionOthers ==
  ASSUME TypeInv, NEW s \in Sessions, EndSession(s),
         NEW t \in Sessions, pc'[t] # "idle"
  PROVE  /\ pc'[t] = pc[t] /\ req'[t] = req[t] /\ key'[t] = key[t]
         /\ snap'[t] = snap[t]
  <1>1. t # s
    BY DEF EndSession, TypeInv, TypeOK
  <1>2. QED
    BY <1>1 DEF EndSession, TypeInv, TypeOK

\* The last step of a command ends its session and no other.
LEMMA CommitEnds ==
  ASSUME NEW s \in Sessions, Commit(s)
  PROVE  EndSession(s)
  BY DEF Commit, start, block, unblock, close, StatusCommand, assign, annul,
         registerFieldWork, editFieldWorkActivity, registerItemUsage,
         reverseItemUsage, createFollowUp, cancelFromScheduling

\* A session in flight keeps what it read, or has just read the row, or has
\* just passed its checks.
LEMMA SessionStep ==
  ASSUME TypeInv, [Next]_vars, NEW t \in Sessions, pc'[t] # "idle"
  PROVE  \/ /\ pc'[t] = pc[t] /\ req'[t] = req[t] /\ key'[t] = key[t]
            /\ snap'[t] = snap[t]
         \/ pc'[t] = "read" /\ snap'[t] = order /\ order' = order
         \/ /\ pc[t] = "read" /\ pc'[t] = "open"
            /\ req'[t] = req[t] /\ key'[t] = key[t] /\ snap'[t] = snap[t]
            /\ Admitted(req[t], snap[t])
  <1>1. CASE UNCHANGED sessionVars
    BY <1>1 DEF sessionVars
  <1>2. CASE \E s \in Sessions : Commit(s) \/ Replay(s) \/ Rollback(s)
    <2>1. \E s \in Sessions : EndSession(s)
      BY <1>2, CommitEnds DEF Replay, Rollback
    <2>2. QED
      BY <2>1, EndSessionOthers
  <1>3. CASE \E s \in Sessions, c \in Requests, k \in Keys \cup {NoKey} :
               requireOrder(s, c, k)
    <2>1. PICK s \in Sessions, c \in Requests, k \in Keys \cup {NoKey} :
            requireOrder(s, c, k)
      BY <1>3
    <2>2. /\ pc' = [pc EXCEPT ![s] = "read"] /\ req' = [req EXCEPT ![s] = c]
          /\ key' = [key EXCEPT ![s] = k] /\ snap' = [snap EXCEPT ![s] = order]
          /\ order' = order
      BY <2>1 DEF requireOrder, orderVars
    <2>3. QED
      BY <2>2 DEF TypeInv, TypeOK
  <1>4. CASE \E s \in Sessions, ifMatch \in 1..MaxVersion :
               beginCommand(s, ifMatch)
    <2>1. PICK s \in Sessions, ifMatch \in 1..MaxVersion :
            beginCommand(s, ifMatch)
      BY <1>4
    <2>2. /\ pc[s] = "read" /\ pc' = [pc EXCEPT ![s] = "open"]
          /\ Admitted(req[s], snap[s])
          /\ req' = req /\ key' = key /\ snap' = snap
      BY <2>1 DEF beginCommand
    <2>3. QED
      BY <2>2 DEF TypeInv, TypeOK
  <1>5. QED
    BY <1>1, <1>2, <1>3, <1>4
    DEF Next, linkFromScheduling, rescheduleFromScheduling, tombstoneJob,
        receiptExpires, applyMovementAnswer, applyReversalAnswer, vars

\* What Admitted checked is what CheckedOK says of the session.
LEMMA AdmittedChecked ==
  ASSUME NEW c \in Command, NEW o \in Order, Admitted(c, o)
  PROVE  /\ c.op \notin {"reversal", "follow_up"} => o.status \notin Terminal
         /\ c.op = "follow_up" => ~o.annulled
  BY DEF Admitted, assertMutable, assertRegistrationActive, registerItemUsageAllowed,
    registerFieldWorkAllowed, updateFieldWorkActivityAllowed, closeAllowed,
    createFollowUpAllowed, cancelFromSchedulingAllowed

-----------------------------------------------------------------------------
(* The inductive invariant *)

\* The initial state satisfies the inductive invariant.
LEMMA InitInv == Init => Inv
  BY InitType DEF Init, Inv, SnapshotIsCurrent, CheckedOK

\* Every step keeps the inductive invariant.
LEMMA NextInv ==
  ASSUME Inv, ~AgendaOverlaps, [Next]_vars
  PROVE  Inv'
  <1>1. TypeInv'
    BY NextType DEF Inv
  <1>2. SnapshotIsCurrent'
    <2> SUFFICES ASSUME NEW t \in Sessions, pc'[t] # "idle"
                 PROVE  /\ snap'[t].version <= order'.version
                        /\ snap'[t].version = order'.version
                             => snap'[t] = order'
      BY DEF SnapshotIsCurrent
    <2>1. /\ order \in Order /\ order.version \in Nat
          /\ snap[t] \in Order /\ snap[t].version \in Nat
      BY OrderFields DEF Inv, TypeInv, TypeOK
    <2>2. order' = order \/ order'.version = order.version + 1
      BY RowStep
    <2>3. CASE snap'[t] = order /\ order' = order
      BY <2>1, <2>3
    <2>4. CASE pc[t] # "idle" /\ snap'[t] = snap[t]
      <3>1. /\ snap[t].version <= order.version
            /\ snap[t].version = order.version => snap[t] = order
        BY <2>4 DEF Inv, SnapshotIsCurrent
      <3>2. QED
        BY <2>1, <2>2, <2>4, <3>1
    <2>5. QED
      BY <2>3, <2>4, SessionStep DEF Inv
  <1>3. CheckedOK'
    <2> SUFFICES ASSUME NEW t \in Sessions, pc'[t] = "open"
                 PROVE  /\ req'[t].op \notin {"reversal", "follow_up"}
                             => snap'[t].status \notin Terminal
                        /\ req'[t].op = "follow_up" => ~snap'[t].annulled
      BY DEF CheckedOK
    <2>1. /\ req'[t] = req[t] /\ snap'[t] = snap[t]
          /\ \/ pc[t] = "open"
             \/ pc[t] = "read" /\ Admitted(req[t], snap[t])
      BY SessionStep DEF Inv
    <2>2. CASE pc[t] = "open"
      BY <2>1, <2>2 DEF Inv, CheckedOK
    <2>3. CASE pc[t] = "read" /\ Admitted(req[t], snap[t])
      <3>1. req[t] \in Command /\ snap[t] \in Order
        BY <2>3 DEF Inv, TypeInv, TypeOK, SessionOK
      <3>2. QED
        BY <2>1, <2>3, <3>1, AdmittedChecked
    <2>4. QED
      BY <2>1, <2>2, <2>3
  <1>4. QED
    BY <1>1, <1>2, <1>3 DEF Inv

\* The inductive invariant holds in every reachable state.
LEMMA InvHolds == ASSUME ~AgendaOverlaps PROVE Spec => []Inv
  <1>1. Inv /\ [Next]_vars => Inv'
    BY NextInv
  <1>2. QED
    BY <1>1, InitInv, PTL DEF Spec

\* A session whose version is still the row's version read exactly the row:
\* comparing versions in the WHERE clause of persistOrderOptimistically is
\* enough, whatever the other sessions, the agenda and the jobs do.
THEOREM SnapshotsAreCurrent ==
  ASSUME ~AgendaOverlaps
  PROVE  Spec => []SnapshotIsCurrent
  <1>1. Inv => SnapshotIsCurrent
    BY DEF Inv
  <1>2. QED
    BY <1>1, InvHolds, PTL

\* Every mutation of the row raises its version.
THEOREM VersionsOnlyGrow ==
  ASSUME ~AgendaOverlaps
  PROVE  Spec => VersionOnlyGrows
  <1>1. Inv /\ [Next]_vars => [order' # order => order'.version > order.version]_vars
    <2> SUFFICES ASSUME Inv, [Next]_vars, order' # order
                 PROVE  order'.version > order.version
      OBVIOUS
    <2>1. order'.version = order.version + 1 /\ order.version \in Nat
      BY RowStep, OrderFields DEF Inv, TypeInv, TypeOK
    <2>2. QED
      BY <2>1
  <1>2. QED
    BY <1>1, InvHolds, PTL DEF Spec, VersionOnlyGrows

\* A commit on a terminal row is a follow-up, which changes only its version,
\* and is not made on an annulled row; the other commits found it mutable.
LEMMA CommitFrozen ==
  ASSUME Inv, ~AgendaOverlaps, NEW s \in Sessions, Commit(s),
         order.status \in Terminal
  PROVE  OutcomeFrozen
  <1>1. order \in Order
    BY DEF Inv, TypeInv, TypeOK
  <1>2. CASE order' = order
    BY <1>1, <1>2 DEF OutcomeFrozen, Order
  <1>3. CASE order' # order
    <2>1. pc[s] = "open" /\ req[s].op # "reversal" /\ snap[s] = order
      BY <1>3, CommitRow
    <2>2. req[s].op = "follow_up" /\ ~order.annulled
      BY <2>1 DEF Inv, CheckedOK
    <2>3. createFollowUp(s)
      BY <2>2 DEF Commit, start, block, unblock, close, StatusCommand, assign,
           annul, registerFieldWork, editFieldWorkActivity, registerItemUsage,
           reverseItemUsage, cancelFromScheduling, Opened
    <2>4. order' = [order EXCEPT !.status = order.status,
                                 !.result = order.result,
                                 !.version = order.version + 1]
      BY <2>1, <2>3 DEF createFollowUp, persistOrderOptimistically
    <2>5. order' = [order EXCEPT !.version = order'.version]
      BY <1>1, <2>4 DEF Order
    <2>6. QED
      BY <2>2, <2>5 DEF OutcomeFrozen
  <1>4. QED
    BY <1>2, <1>3

\* A terminal order keeps its outcome, and an annulled one every column, in
\* every interleaving of commands: the checks were made on a row that the
\* optimistic UPDATE then found unchanged.
THEOREM TerminalStaysFinal ==
  ASSUME ~AgendaOverlaps
  PROVE  Spec => TerminalIsFinal
  <1>1. Inv /\ [Next]_vars => [OutcomeFrozen]_vars
    <2> SUFFICES ASSUME Inv, [Next]_vars, order.status \in Terminal
                 PROVE  OutcomeFrozen
      BY DEF OutcomeFrozen
    <2>1. order \in Order
      BY DEF Inv, TypeInv, TypeOK
    <2>2. CASE order' = order
      BY <2>1, <2>2 DEF OutcomeFrozen, Order
    <2>3. CASE \E s \in Sessions : Commit(s)
      BY <2>3, CommitFrozen
    <2>4. ~ \E t \in Technicians : linkFromScheduling(t)
      BY DEF linkFromScheduling, Terminal
    <2>5. ~ rescheduleFromScheduling
      BY DEF rescheduleFromScheduling, assertMutable
    <2>6. QED
      BY <2>2, <2>3, <2>4, <2>5
      DEF Next, requireOrder, beginCommand, Replay, Rollback, tombstoneJob,
          receiptExpires, applyMovementAnswer, applyReversalAnswer, orderVars,
          vars
  <1>2. QED
    BY <1>1, InvHolds, PTL DEF Spec, TerminalIsFinal

=============================================================================
