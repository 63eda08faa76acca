----------------------- MODULE ExecutionOrderEffects ------------------------
(***************************************************************************)
(* What the commands of the execution order leave behind, proved for every *)
(* number of sessions, keys and versions: the seats, the outbox, the       *)
(* receipts, the installed equipment and its reversals.                    *)
(*                                                                         *)
(* As in ExecutionOrderProofs, results that need the row a session read to *)
(* be the row it updates assume ~AgendaOverlaps; the others do not.        *)
(***************************************************************************)
EXTENDS ExecutionOrderProofs

-----------------------------------------------------------------------------
(* The history of the row: seats and versions of the outbox *)

\* What one step may do to the history: nothing that is not told by the row.
\* A status only moves with a seat that names both its ends; an event carries
\* the version the row just got, unless it is about a reversal.
HistoryStep ==
  /\ \/ transitions' = transitions /\ order'.status = order.status
     \/ transitions' = Append(transitions, [from |-> order.status,
                                            to |-> order'.status])
  /\ \/ outbox' = outbox
     \/ \E e \in Event :
          /\ outbox' = Append(outbox, e)
          /\ \/ e.version = order.version + 1 /\ order'.version = order.version + 1
             \/ e.version <= order.version /\ e.type \notin ProjectionEvent

\* A command that changes the status records the seat between the two.
LEMMA StatusCommandHistory ==
  ASSUME Inv, ~AgendaOverlaps, NEW s \in Sessions, NEW op, NEW st \in Status,
         NEW re, NEW type \in ProjectionEvent, op # "reversal",
         StatusCommand(s, op, st, re, type), Commit(s)
  PROVE  HistoryStep
  <1>1. /\ order \in Order /\ order.version \in Nat
        /\ key[s] \in Keys \cup {NoKey} /\ order.version + 1 \in Nat
    BY OrderFields DEF Inv, TypeInv, TypeOK
  <1>2. /\ snap[s] = order /\ order'.version = order.version + 1
    BY CommitRow DEF StatusCommand, Opened
  <1>3. order' = [order EXCEPT !.status = st, !.result = re,
                               !.version = order.version + 1]
    BY <1>2 DEF StatusCommand, persistOrderOptimistically
  <1>4. order'.status = st
    BY <1>1, <1>3 DEF Order
  <1>5. transitions' = Append(transitions, [from |-> order.status,
                                            to |-> order'.status])
    BY <1>2, <1>4 DEF StatusCommand, recordStatusTransition
  <1>6. outbox' = Append(outbox, [type |-> type, version |-> order.version + 1,
                                  key |-> key[s]])
    BY <1>2 DEF StatusCommand, finishCommand, appendOutbox
  <1>7. [type |-> type, version |-> order.version + 1, key |-> key[s]] \in Event
    BY <1>1 DEF Event
  <1>8. QED
    BY <1>2, <1>5, <1>6, <1>7 DEF HistoryStep

\* Assigning, annulling and the agenda's cancellation record their seat too.
LEMMA OtherStatusHistory ==
  ASSUME Inv, ~AgendaOverlaps, NEW s \in Sessions, Commit(s),
         assign(s) \/ annul(s) \/ cancelFromScheduling(s)
  PROVE  HistoryStep
  <1>1. /\ order \in Order /\ order.version \in Nat
        /\ key[s] \in Keys \cup {NoKey} /\ order.version + 1 \in Nat
    BY OrderFields DEF Inv, TypeInv, TypeOK
  <1>2. /\ snap[s] = order /\ order'.version = order.version + 1
    BY CommitRow DEF assign, annul, cancelFromScheduling, Opened
  <1>3. PICK type \in ProjectionEvent, k \in Keys \cup {NoKey} :
          appendOutbox(type, snap[s].version + 1, k)
    BY <1>1 DEF assign, annul, cancelFromScheduling, finishCommand,
                ProjectionEvent
  <1>4. \E e \in Event : /\ outbox' = Append(outbox, e)
                         /\ e.version = order.version + 1
    <2>1. /\ outbox' = Append(outbox, [type |-> type, key |-> k,
                                       version |-> order.version + 1])
          /\ [type |-> type, key |-> k, version |-> order.version + 1] \in Event
      BY <1>1, <1>2, <1>3 DEF appendOutbox, Event
    <2>2. QED
      BY <2>1
  <1>5. \E st \in Status : /\ recordStatusTransition(s, st)
                           /\ order'.status = st
    <2>1. CASE assign(s)
      BY <1>1, <2>1, StatusFacts DEF assign, Order
    <2>2. CASE annul(s)
      BY <1>1, <2>2, StatusFacts DEF annul, Order
    <2>3. CASE cancelFromScheduling(s)
      <3>1. order' = [order EXCEPT !.status = "CANCELLED",
                                   !.version = snap[s].version + 1]
        BY <1>2, <2>3 DEF cancelFromScheduling
      <3>2. QED
        BY <1>1, <2>3, <3>1, StatusFacts DEF cancelFromScheduling, Order
    <2>4. QED
      BY <2>1, <2>2, <2>3
  <1>6. transitions' = Append(transitions, [from |-> order.status,
                                            to |-> order'.status])
    BY <1>2, <1>5 DEF recordStatusTransition
  <1>7. QED
    BY <1>2, <1>4, <1>6 DEF HistoryStep

\* Registering field work, a usage or a follow-up keeps status and seats.
LEMMA RegistrationHistory ==
  ASSUME Inv, ~AgendaOverlaps, NEW s \in Sessions, Commit(s),
         \/ registerFieldWork(s) \/ editFieldWorkActivity(s)
         \/ registerItemUsage(s) \/ createFollowUp(s)
  PROVE  HistoryStep
  <1>1. /\ order \in Order /\ order.version \in Nat
        /\ key[s] \in Keys \cup {NoKey} /\ order.version + 1 \in Nat
    BY OrderFields DEF Inv, TypeInv, TypeOK
  <1>2. /\ snap[s] = order /\ order'.version = order.version + 1
    BY CommitRow DEF registerFieldWork, editFieldWorkActivity,
                     registerItemUsage, createFollowUp, Opened
  <1>3. /\ persistOrderOptimistically(s, snap[s].status, snap[s].result)
        /\ transitions' = transitions
    BY DEF registerFieldWork, editFieldWorkActivity, registerItemUsage,
           createFollowUp
  <1>4. order'.status = order.status
    BY <1>1, <1>2, <1>3 DEF persistOrderOptimistically, Order
  <1>5. \/ outbox' = outbox
        \/ \E type \in ProjectionEvent \cup InventoryEvent :
             appendOutbox(type, order.version + 1, key[s])
    BY <1>2 DEF registerFieldWork, editFieldWorkActivity, registerItemUsage,
                createFollowUp, finishCommand, ProjectionEvent, InventoryEvent
  <1>6. ASSUME NEW type \in ProjectionEvent \cup InventoryEvent,
               appendOutbox(type, order.version + 1, key[s])
        PROVE  \E e \in Event : /\ outbox' = Append(outbox, e)
                                /\ e.version = order.version + 1
    <2>1. /\ outbox' = Append(outbox, [type |-> type, key |-> key[s],
                                       version |-> order.version + 1])
          /\ [type |-> type, key |-> key[s], version |-> order.version + 1]
               \in Event
      BY <1>1, <1>6 DEF appendOutbox, Event
    <2>2. QED
      BY <2>1
  <1>7. QED
    BY <1>2, <1>3, <1>4, <1>5, <1>6 DEF HistoryStep

\* A reversal's event repeats a version that was read earlier.
LEMMA ReversalHistory ==
  ASSUME Inv, ~AgendaOverlaps, NEW s \in Sessions, reverseItemUsage(s)
  PROVE  HistoryStep
  <1>1. /\ snap[s].version \in Nat /\ key[s] \in Keys \cup {NoKey}
        /\ snap[s].version <= order.version
    BY SnapshotFields DEF Inv, SnapshotIsCurrent, reverseItemUsage, Opened
  <1> DEFINE e == [type |-> "ReversalRequested", version |-> snap[s].version,
                   key |-> key[s]]
  <1>2. outbox' = Append(outbox, e)
    BY DEF reverseItemUsage, appendOutbox
  <1>3. /\ e \in Event /\ e.version = snap[s].version
        /\ e.type \notin ProjectionEvent
    BY <1>1 DEF Event, InventoryEvent, ProjectionEvent
  <1>4. order' = order /\ transitions' = transitions
    BY DEF reverseItemUsage
  <1>5. QED
    BY <1>1, <1>2, <1>3, <1>4 DEF HistoryStep

\* Every step tells the history of the row truthfully.
LEMMA NextHistory ==
  ASSUME Inv, ~AgendaOverlaps, [Next]_vars
  PROVE  HistoryStep
  <1>1. CASE \E s \in Sessions : Commit(s)
    <2>1. PICK s \in Sessions : Commit(s)
      BY <1>1
    <2>2. snap[s].status \in Status /\ snap[s].result \in CloseResult \cup {"NONE"}
      BY SnapshotFields DEF Inv
    <2>3. CASE start(s) \/ block(s) \/ unblock(s)
      BY <2>1, <2>2, <2>3, StatusCommandHistory, StatusFacts
      DEF start, block, unblock, ProjectionEvent
    <2>4. CASE close(s)
      <3>1. req[s].arg \in CloseResult
        BY <2>4, RequestFacts
        DEF close, StatusCommand, Opened, Inv, TypeInv, SessionOK
      <3>2. mapResultToStatus(req[s].arg) \in Status
        BY <3>1, StatusFacts
      <3>3. QED
        BY <2>1, <2>4, <3>2, StatusCommandHistory DEF close, ProjectionEvent
    <2>5. QED
      BY <2>1, <2>3, <2>4, OtherStatusHistory, RegistrationHistory,
         ReversalHistory DEF Commit
  <1>2. CASE \E t \in Technicians : linkFromScheduling(t)
    <2>1. order \in Order
      BY DEF Inv, TypeInv, TypeOK
    <2>2. PICK t \in Technicians : linkFromScheduling(t)
      BY <1>2
    <2>3. CASE order.status = "CREATED"
      <3>1. order'.status = "ASSIGNED"
        BY <2>1, <2>2, <2>3 DEF linkFromScheduling, Order
      <3>2. QED
        BY <2>2, <2>3, <3>1 DEF linkFromScheduling, HistoryStep
    <2>4. CASE order.status # "CREATED"
      <3>1. order'.status = order.status
        BY <2>1, <2>2, <2>4 DEF linkFromScheduling, Order
      <3>2. QED
        BY <2>2, <2>4, <3>1 DEF linkFromScheduling, HistoryStep
    <2>5. QED
      BY <2>3, <2>4
  <1>3. CASE rescheduleFromScheduling
    <2>1. order'.status = order.status
      BY <1>3 DEF rescheduleFromScheduling, Inv, TypeInv, TypeOK, Order
    <2>2. QED
      BY <1>3, <2>1 DEF rescheduleFromScheduling, HistoryStep
  <1>4. CASE UNCHANGED <<order, transitions, outbox>>
    BY <1>4 DEF HistoryStep
  <1>5. QED
    BY <1>1, <1>2, <1>3, <1>4
    DEF Next, requireOrder, beginCommand, Replay, Rollback, tombstoneJob,
        receiptExpires, applyMovementAnswer, applyReversalAnswer, orderVars,
        vars

\* A seat that leaves the status the last one reached prolongs the chain.
LEMMA NextChain ==
  ASSUME Inv, TransitionChain, HistoryStep
  PROVE  TransitionChain'
  <1>1. transitions \in Seq([from: Status, to: Status])
    BY DEF Inv, TypeInv, TypeOK
  <1>2. CASE transitions' = transitions /\ order'.status = order.status
    BY <1>2 DEF TransitionChain
  <1>3. CASE transitions' = Append(transitions, [from |-> order.status,
                                                 to |-> order'.status])
    <2> DEFINE n == Len(transitions)
               seat == [from |-> order.status, to |-> order'.status]
    <2>1. /\ n \in Nat /\ DOMAIN transitions = 1..n
          /\ Len(transitions') = n + 1 /\ DOMAIN transitions' = 1..(n+1)
          /\ \A i \in 1..n : transitions'[i] = transitions[i]
          /\ transitions'[n + 1] = seat
      BY <1>1, <1>3
    <2> HIDE DEF n
    <2> SUFFICES ASSUME NEW i \in 1..(n+1)
                 PROVE  /\ i = n + 1 => transitions'[i].to = order'.status
                        /\ i # n + 1 => transitions'[i].to
                                          = transitions'[i+1].from
      BY <2>1 DEF TransitionChain
    <2>2. CASE i = n + 1
      BY <2>1, <2>2
    <2>3. CASE i = n
      <3>1. i \in 1..n /\ i # n + 1
        BY <2>1, <2>3
      <3>2. transitions[i].to = order.status
        BY <2>1, <2>3, <3>1 DEF TransitionChain, n
      <3>3. transitions'[i + 1].from = order.status
        BY <2>1, <2>3
      <3>4. QED
        BY <2>1, <3>1, <3>2, <3>3
    <2>4. CASE i < n
      <3>1. i \in 1..n /\ i + 1 \in 1..n /\ i # n /\ i # n + 1
        BY <2>1, <2>4
      <3>2. transitions[i].to = transitions[i + 1].from
        BY <2>1, <3>1 DEF TransitionChain, n
      <3>3. QED
        BY <2>1, <3>1, <3>2
    <2>5. QED
      BY <2>1, <2>2, <2>3, <2>4
  <1>4. QED
    BY <1>2, <1>3 DEF HistoryStep

\* The seats of an order form one chain that ends at its status, whatever the
\* commands that raced for it: recordStatusTransition is written with the
\* status that was read, and the optimistic UPDATE vouches for it.
THEOREM SeatsFormAChain ==
  ASSUME ~AgendaOverlaps
  PROVE  Spec => []TransitionChain
  <1>1. Init => TransitionChain
    <2> SUFFICES ASSUME Init PROVE DOMAIN transitions = {}
      BY DEF TransitionChain
    <2> QED
      BY DEF Init
  <1>2. Inv /\ TransitionChain /\ [Next]_vars => TransitionChain'
    BY NextHistory, NextChain
  <1>3. QED
    BY <1>1, <1>2, InvHolds, PTL DEF Spec

\* An event appended with the version the row just got is above all others.
LEMMA NextVersions ==
  ASSUME Inv, ProjectionVersionsIncrease, HistoryStep, TypeInv',
         order' = order \/ order'.version = order.version + 1
  PROVE  ProjectionVersionsIncrease'
  <1>1. /\ outbox \in Seq(Event) /\ order.version \in Nat
        /\ order'.version \in Nat /\ order.version <= order'.version
    BY OrderFields DEF Inv, TypeInv, TypeOK
  <1>2. \A i \in DOMAIN outbox : /\ outbox[i].version \in Nat
                                 /\ outbox[i].version <= order.version
    <2> SUFFICES ASSUME NEW i \in DOMAIN outbox
                 PROVE  /\ outbox[i].version \in Nat
                        /\ outbox[i].version <= order.version
      OBVIOUS
    <2>1. outbox[i] \in Event
      BY <1>1
    <2>2. QED
      BY <2>1 DEF ProjectionVersionsIncrease, Event
  <1>3. CASE outbox' = outbox
    BY <1>1, <1>2, <1>3 DEF ProjectionVersionsIncrease
  <1>4. CASE outbox' # outbox
    <2> DEFINE n == Len(outbox)
    <2>1. PICK e \in Event :
            /\ outbox' = Append(outbox, e)
            /\ \/ /\ e.version = order.version + 1
                  /\ order'.version = order.version + 1
               \/ e.version <= order.version /\ e.type \notin ProjectionEvent
      BY <1>4 DEF HistoryStep
    <2>2. /\ n \in Nat /\ DOMAIN outbox = 1..n /\ DOMAIN outbox' = 1..(n+1)
          /\ \A i \in 1..n : outbox'[i] = outbox[i]
          /\ outbox'[n + 1] = e
      BY <1>1, <2>1
    <2>3. e.version \in Nat
      BY DEF Event
    <2> HIDE DEF n
    <2>4. ASSUME NEW i \in 1..(n+1)
          PROVE  outbox'[i].version <= order'.version
      <3>1. CASE i \in 1..n
        BY <1>1, <1>2, <2>2, <3>1
      <3>2. CASE i = n + 1
        BY <1>1, <2>1, <2>2, <2>3, <3>2
      <3>3. QED
        BY <2>2, <3>1, <3>2
    <2>5. ASSUME NEW i \in 1..(n+1), NEW j \in 1..(n+1), i < j,
                 outbox'[i].type \in ProjectionEvent,
                 outbox'[j].type \in ProjectionEvent
          PROVE  outbox'[i].version < outbox'[j].version
      <3>1. i \in 1..n
        BY <2>2, <2>5
      <3>2. CASE j \in 1..n
        BY <2>2, <2>5, <3>1, <3>2 DEF ProjectionVersionsIncrease
      <3>3. CASE j = n + 1
        <4>1. e.version = order.version + 1
          BY <2>1, <2>2, <2>5, <3>3
        <4>2. outbox[i].version <= order.version /\ outbox[i].version \in Nat
          BY <1>2, <2>2, <3>1
        <4>3. QED
          BY <1>1, <2>2, <3>1, <3>3, <4>1, <4>2
      <3>4. QED
        BY <2>2, <3>2, <3>3
    <2>6. QED
      BY <2>2, <2>4, <2>5 DEF ProjectionVersionsIncrease
  <1>5. QED
    BY <1>3, <1>4

\* The events that drive the projections carry strictly increasing versions,
\* none above the row's: the consumer's version gate never drops one of them
\* because two commands published the same version.
THEOREM OutboxVersionsIncrease ==
  ASSUME ~AgendaOverlaps
  PROVE  Spec => []ProjectionVersionsIncrease
  <1>1. Init => ProjectionVersionsIncrease
    <2> SUFFICES ASSUME Init PROVE DOMAIN outbox = {}
      BY DEF ProjectionVersionsIncrease
    <2> QED
      BY DEF Init
  <1>2. Inv /\ ProjectionVersionsIncrease /\ [Next]_vars
          => ProjectionVersionsIncrease'
    BY NextHistory, NextVersions, RowStep, NextType DEF Inv
  <1>3. QED
    BY <1>1, <1>2, InvHolds, PTL DEF Spec

-----------------------------------------------------------------------------
(* The locks of the open sessions *)

\* An open session holds its key, which has no receipt yet, and the usage it
\* wants to reverse; no other open session holds either.
LocksHeld ==
  /\ \A s \in Sessions : pc[s] = "open" /\ key[s] # NoKey
                           => idem[key[s]] = NoRow
  /\ \A s, t \in Sessions :
       s # t /\ pc[s] = "open" /\ pc[t] = "open" =>
         /\ key[s] # NoKey => key[s] # key[t]
         /\ req[s].op = "reversal" => req[s] # req[t]

\* A session that is open was open before, or has just passed its checks
\* while the tables stood still.
LEMMA OpenStep ==
  ASSUME TypeInv, [Next]_vars, NEW t \in Sessions, pc'[t] = "open"
  PROVE  /\ req'[t] = req[t] /\ key'[t] = key[t] /\ snap'[t] = snap[t]
         /\ \/ pc[t] = "open"
            \/ /\ \E ifMatch \in 1..MaxVersion : beginCommand(t, ifMatch)
               /\ pc[t] = "read"
  <1>1. CASE UNCHANGED sessionVars
    BY <1>1 DEF sessionVars
  <1>2. CASE \E s \in Sessions : Commit(s) \/ Replay(s) \/ Rollback(s)
    <2>1. \E s \in Sessions : EndSession(s)
      BY <1>2, CommitEnds DEF Replay, Rollback
    <2>2. QED
      BY <2>1, EndSessionOthers
  <1>3. CASE \E s \in Sessions, c \in Requests, k \in Keys \cup {NoKey} :
               requireOrder(s, c, k)
    BY <1>3 DEF requireOrder, TypeInv, TypeOK
  <1>4. CASE \E s \in Sessions, ifMatch \in 1..MaxVersion :
               beginCommand(s, ifMatch)
    <2>1. PICK s \in Sessions, ifMatch \in 1..MaxVersion :
            beginCommand(s, ifMatch)
      BY <1>4
    <2>2. /\ pc[s] = "read" /\ pc' = [pc EXCEPT ![s] = "open"]
          /\ req' = req /\ key' = key /\ snap' = snap
      BY <2>1 DEF beginCommand
    <2>3. QED
      BY <2>1, <2>2 DEF TypeInv, TypeOK
  <1>5. QED
    BY <1>1, <1>2, <1>3, <1>4
    DEF Next, linkFromScheduling, rescheduleFromScheduling, tombstoneJob,
        receiptExpires, applyMovementAnswer, applyReversalAnswer, vars

\* A commit that needs a key writes its receipt and at most one event, which
\* carries the key; one that needs none writes no receipt and no key.
LEMMA CommitEffect ==
  ASSUME TypeInv, NEW s \in Sessions, Commit(s)
  PROVE  /\ pc[s] = "open" /\ req[s] \in Command
         /\ \/ /\ key[s] \in Keys /\ completeIdempotency(s)
               /\ \/ req[s].op = "activity" /\ outbox' = outbox
                  \/ \E type, v : appendOutbox(type, v, key[s])
            \/ /\ key[s] = NoKey /\ idem' = idem
               /\ \/ outbox' = outbox
                  \/ \E type, v : appendOutbox(type, v, NoKey)
  <1>1. pc[s] = "open"
    BY DEF Commit, start, block, unblock, close, StatusCommand, assign, annul,
           registerFieldWork, editFieldWorkActivity, registerItemUsage,
           reverseItemUsage, createFollowUp, cancelFromScheduling, Opened
  <1>2. /\ req[s] \in Command /\ key[s] \in Keys \cup {NoKey}
        /\ key[s] = NoKey <=> req[s].op \in {"edit_activity", "agenda_cancel"}
    BY <1>1, RequestFacts DEF TypeInv, TypeOK, SessionOK
  <1>3. CASE editFieldWorkActivity(s) \/ cancelFromScheduling(s)
    <2>1. key[s] = NoKey
      BY <1>2, <1>3 DEF editFieldWorkActivity, cancelFromScheduling, Opened
    <2>2. QED
      BY <1>1, <1>2, <1>3, <2>1 DEF editFieldWorkActivity, cancelFromScheduling
  <1>4. CASE registerFieldWork(s)
    BY <1>1, <1>2, <1>4 DEF registerFieldWork, Opened
  <1>5. CASE \/ start(s) \/ block(s) \/ unblock(s) \/ close(s) \/ assign(s)
             \/ annul(s) \/ registerItemUsage(s) \/ reverseItemUsage(s)
             \/ createFollowUp(s)
    <2>1. req[s].op \notin {"edit_activity", "agenda_cancel"}
      BY <1>5 DEF start, block, unblock, close, StatusCommand, assign, annul,
           registerItemUsage, reverseItemUsage, createFollowUp, Opened
    <2>2. /\ completeIdempotency(s)
          /\ \E type, v : appendOutbox(type, v, key[s])
      BY <1>5 DEF start, block, unblock, close, StatusCommand, assign, annul,
           registerItemUsage, reverseItemUsage, createFollowUp, finishCommand
    <2>3. QED
      BY <1>1, <1>2, <2>1, <2>2
  <1>6. QED
    BY <1>3, <1>4, <1>5 DEF Commit

\* Only the commit that holds a key gives the key a receipt.
LEMMA ReceiptStep ==
  ASSUME TypeInv, [Next]_vars, NEW k \in Keys, idem[k] = NoRow
  PROVE  \/ idem'[k] = NoRow
         \/ \E s \in Sessions : Commit(s) /\ pc[s] = "open" /\ key[s] = k
  <1>1. CASE \E s \in Sessions : Commit(s)
    <2>1. PICK s \in Sessions : Commit(s)
      BY <1>1
    <2>2. CASE key[s] = k
      BY <2>1, <2>2, CommitEffect
    <2>3. CASE key[s] # k
      BY <2>1, <2>3, CommitEffect DEF completeIdempotency, TypeInv, TypeOK
    <2>4. QED
      BY <2>2, <2>3
  <1>2. CASE \E x \in ExpiringKeys : receiptExpires(x)
    BY <1>2, ExpiringAreKeys DEF receiptExpires, TypeInv, TypeOK
  <1>3. CASE tombstoneJob
    BY <1>3 DEF tombstoneJob
  <1>4. CASE idem' = idem
    BY <1>4
  <1>5. QED
    BY <1>1, <1>2, <1>3, <1>4
    DEF Next, requireOrder, beginCommand, Replay, Rollback, linkFromScheduling,
        rescheduleFromScheduling, applyMovementAnswer, applyReversalAnswer,
        orderVars, vars

\* The locks are kept by every step.
LEMMA NextLocks ==
  ASSUME TypeInv, LocksHeld, [Next]_vars
  PROVE  LocksHeld'
  <1>1. ASSUME NEW t \in Sessions, pc'[t] = "open", key'[t] # NoKey
        PROVE  idem'[key'[t]] = NoRow
    <2>1. key'[t] = key[t] /\ key[t] \in Keys
      BY <1>1, OpenStep DEF TypeInv, TypeOK
    <2>2. CASE pc[t] = "open"
      <3>1. idem[key[t]] = NoRow
        BY <1>1, <2>1, <2>2 DEF LocksHeld
      <3>2. ASSUME NEW s \in Sessions, Commit(s), pc[s] = "open",
                   key[s] = key[t]
            PROVE  FALSE
        <4>1. s = t
          BY <1>1, <2>1, <2>2, <3>2 DEF LocksHeld
        <4>2. pc'[t] = "idle"
          BY <3>2, <4>1, CommitEnds DEF EndSession, TypeInv, TypeOK
        <4>3. QED
          BY <1>1, <4>2
      <3>3. QED
        BY <2>1, <3>1, <3>2, ReceiptStep
    <2>3. CASE \E ifMatch \in 1..MaxVersion : beginCommand(t, ifMatch)
      BY <1>1, <2>1, <2>3 DEF beginCommand, orderVars
    <2>4. QED
      BY <1>1, <2>2, <2>3, OpenStep
  <1>2. ASSUME NEW s \in Sessions, NEW t \in Sessions, s # t,
               pc'[s] = "open", pc'[t] = "open"
        PROVE  /\ key'[s] # NoKey => key'[s] # key'[t]
               /\ req'[s].op = "reversal" => req'[s] # req'[t]
    <2>1. /\ key'[s] = key[s] /\ key'[t] = key[t]
          /\ req'[s] = req[s] /\ req'[t] = req[t]
      BY <1>2, OpenStep
    <2>2. CASE pc[s] = "open" /\ pc[t] = "open"
      BY <1>2, <2>1, <2>2 DEF LocksHeld
    <2>3. CASE \E ifMatch \in 1..MaxVersion : beginCommand(s, ifMatch)
      <3>1. /\ pc' = [pc EXCEPT ![s] = "open"] /\ KeyLockFree(s)
            /\ UsageLockFree(s)
        BY <2>3 DEF beginCommand
      <3>2. pc[t] = "open"
        BY <1>2, <3>1 DEF TypeInv, TypeOK
      <3>3. QED
        BY <1>2, <2>1, <3>1, <3>2 DEF KeyLockFree, UsageLockFree
    <2>4. CASE \E ifMatch \in 1..MaxVersion : beginCommand(t, ifMatch)
      <3>1. /\ pc' = [pc EXCEPT ![t] = "open"] /\ KeyLockFree(t)
            /\ UsageLockFree(t)
        BY <2>4 DEF beginCommand
      <3>2. pc[s] = "open"
        BY <1>2, <3>1 DEF TypeInv, TypeOK
      <3>3. QED
        BY <1>2, <2>1, <3>1, <3>2 DEF KeyLockFree, UsageLockFree
    <2>5. QED
      BY <1>2, <2>2, <2>3, <2>4, OpenStep
  <1>3. QED
    BY <1>1, <1>2 DEF LocksHeld

\* The locks hold in every reachable state, with the types.
LEMMA LocksHold == Spec => [](TypeInv /\ LocksHeld)
  <1>1. Init => TypeInv /\ LocksHeld
    BY InitType DEF Init, LocksHeld
  <1>2. (TypeInv /\ LocksHeld) /\ [Next]_vars => (TypeInv /\ LocksHeld)'
    BY NextType, NextLocks
  <1>3. QED
    BY <1>1, <1>2, PTL DEF Spec

-----------------------------------------------------------------------------
(* Receipts: one effect per idempotency key *)

\* While receipts live, an event of a key is covered by the key's receipt.
ReceiptsCover ==
  /\ \A k \in Keys : idem[k] # NoRow => idem[k].state = "COMPLETED"
  /\ \A i \in DOMAIN outbox : outbox[i].key # NoKey => idem[outbox[i].key] # NoRow

\* The invariant that makes OneEffectPerKey inductive.
EffectInv == TypeInv /\ LocksHeld /\ ReceiptsCover /\ OneEffectPerKey

\* What a keyed commit writes to the receipts.
LEMMA NewReceipt ==
  ASSUME TypeInv, NEW s \in Sessions, key[s] \in Keys, completeIdempotency(s)
  PROVE  /\ idem'[key[s]] # NoRow /\ idem'[key[s]].state = "COMPLETED"
         /\ idem'[key[s]].cmd = req[s]
         /\ \A k \in Keys \ {key[s]} : idem'[k] = idem[k]
  <1>1. idem' = [idem EXCEPT ![key[s]] = [state |-> "COMPLETED", cmd |-> req[s]]]
    BY DEF completeIdempotency
  <1>2. [state |-> "COMPLETED", cmd |-> req[s]] # NoRow
    BY DEF NoRow
  <1>3. QED
    BY <1>1, <1>2 DEF TypeInv, TypeOK

\* An event carries a key or none.
LEMMA OutboxKeys ==
  ASSUME TypeInv, NEW i \in DOMAIN outbox
  PROVE  outbox[i].key \in Keys \cup {NoKey}
  <1>1. outbox[i] \in Event
    BY DEF TypeInv, TypeOK
  <1>2. QED
    BY <1>1 DEF Event

\* What one more event is at each position of the outbox.
LEMMA OutboxAppend ==
  ASSUME TypeInv, NEW type, NEW v, NEW k, appendOutbox(type, v, k)
  PROVE  /\ Len(outbox) \in Nat /\ DOMAIN outbox = 1..Len(outbox)
         /\ DOMAIN outbox' = 1..(Len(outbox) + 1)
         /\ \A i \in DOMAIN outbox : i \in DOMAIN outbox' /\ outbox'[i] = outbox[i]
         /\ outbox'[Len(outbox) + 1].key = k
         /\ \A i \in DOMAIN outbox : outbox[i].key \in Keys \cup {NoKey}
  <1>1. outbox \in Seq(Event)
    BY DEF TypeInv, TypeOK
  <1>2. QED
    BY <1>1, OutboxKeys DEF appendOutbox

\* The first use of a key and its receipt appear together.
LEMMA CommitOneEffect ==
  ASSUME EffectInv, NEW s \in Sessions, Commit(s)
  PROVE  ReceiptsCover' /\ OneEffectPerKey'
  <1>1. TypeInv /\ LocksHeld /\ ReceiptsCover /\ OneEffectPerKey
    BY DEF EffectInv
  <1>2. pc[s] = "open"
    BY <1>1, CommitEffect
  <1>3. CASE key[s] \in Keys /\ completeIdempotency(s)
             /\ req[s].op = "activity" /\ outbox' = outbox
    <2>1. ReceiptsCover'
      <3>1. \A k \in Keys : /\ idem'[k] # NoRow => idem'[k].state = "COMPLETED"
                            /\ idem[k] # NoRow => idem'[k] # NoRow
        BY <1>1, <1>3, NewReceipt DEF ReceiptsCover
      <3>2. \A i \in DOMAIN outbox : outbox[i].key \in Keys \cup {NoKey}
        BY <1>1, OutboxKeys
      <3>3. QED
        BY <1>1, <1>3, <3>1, <3>2 DEF ReceiptsCover
    <2>2. OneEffectPerKey'
      BY <1>1, <1>3, NewReceipt DEF OneEffectPerKey
    <2>3. QED
      BY <2>1, <2>2
  <1>4. CASE /\ key[s] \in Keys /\ completeIdempotency(s)
             /\ \E type, v : appendOutbox(type, v, key[s])
    <2> DEFINE n == Len(outbox)
    <2>1. /\ n \in Nat /\ DOMAIN outbox = 1..n /\ DOMAIN outbox' = 1..(n + 1)
          /\ \A i \in 1..n : outbox'[i] = outbox[i]
          /\ outbox'[n + 1].key = key[s]
          /\ \A i \in 1..n : outbox[i].key \in Keys \cup {NoKey}
      BY <1>1, <1>4, OutboxAppend
    <2> HIDE DEF n
    <2>2. idem[key[s]] = NoRow
      BY <1>1, <1>2, <1>4, NoKeyIsNoKey DEF LocksHeld
    <2>3. \A i \in 1..n : outbox[i].key # key[s]
      BY <1>1, <1>4, <2>1, <2>2, NoKeyIsNoKey DEF ReceiptsCover
    <2>4. ReceiptsCover'
      <3>1. \A k \in Keys : idem'[k] # NoRow => idem'[k].state = "COMPLETED"
        BY <1>1, <1>4, NewReceipt DEF ReceiptsCover
      <3>2. \A i \in 1..(n+1) : outbox'[i].key # NoKey
                                  => idem'[outbox'[i].key] # NoRow
        <4> SUFFICES ASSUME NEW i \in 1..(n+1), outbox'[i].key # NoKey
                     PROVE  idem'[outbox'[i].key] # NoRow
          OBVIOUS
        <4>1. CASE i \in 1..n
          BY <1>1, <1>4, <2>1, <2>3, <4>1, NewReceipt DEF ReceiptsCover
        <4>2. CASE i = n + 1
          BY <1>1, <1>4, <2>1, <4>2, NewReceipt
        <4>3. QED
          BY <2>1, <4>1, <4>2
      <3>3. QED
        BY <2>1, <3>1, <3>2 DEF ReceiptsCover
    <2>5. OneEffectPerKey'
      <3>1. ASSUME NEW i \in 1..(n+1), NEW j \in 1..(n+1),
                   outbox'[i].key = outbox'[j].key, outbox'[i].key # NoKey
            PROVE  i = j
        <4>1. CASE i \in 1..n /\ j \in 1..n
          BY <1>1, <2>1, <3>1, <4>1 DEF OneEffectPerKey
        <4>2. CASE i = n + 1 \/ j = n + 1
          BY <2>1, <2>3, <3>1, <4>2
        <4>3. QED
          BY <2>1, <4>1, <4>2
      <3>2. ASSUME NEW k \in Keys, idem'[k] # NoRow,
                   idem'[k].cmd.op # "activity"
            PROVE  \E i \in 1..(n+1) : outbox'[i].key = k
        <4>1. CASE k = key[s]
          BY <2>1, <4>1
        <4>2. CASE k # key[s]
          <5>1. idem'[k] = idem[k]
            BY <1>1, <1>4, <4>2, NewReceipt
          <5>2. PICK i \in 1..n : outbox[i].key = k
            BY <1>1, <2>1, <3>2, <5>1 DEF OneEffectPerKey
          <5>3. i \in 1..(n+1) /\ outbox'[i].key = k
            BY <2>1, <5>2
          <5>4. QED
            BY <5>3
        <4>3. QED
          BY <4>1, <4>2
      <3>3. QED
        BY <2>1, <3>1, <3>2 DEF OneEffectPerKey
    <2>6. QED
      BY <2>4, <2>5
  <1>5. CASE idem' = idem /\ outbox' = outbox
    BY <1>1, <1>5 DEF ReceiptsCover, OneEffectPerKey
  <1>6. CASE idem' = idem /\ \E type, v : appendOutbox(type, v, NoKey)
    <2> DEFINE n == Len(outbox)
    <2>1. /\ n \in Nat /\ DOMAIN outbox = 1..n /\ DOMAIN outbox' = 1..(n + 1)
          /\ \A i \in 1..n : outbox'[i] = outbox[i]
          /\ outbox'[n + 1].key = NoKey
      BY <1>1, <1>6, OutboxAppend
    <2> HIDE DEF n
    <2>2. \A i \in 1..(n+1) : outbox'[i].key # NoKey => i \in 1..n
      BY <2>1
    <2>3. ReceiptsCover'
      BY <1>1, <1>6, <2>1, <2>2 DEF ReceiptsCover
    <2>4. OneEffectPerKey'
      <3>1. ASSUME NEW k \in Keys, idem'[k] # NoRow,
                   idem'[k].cmd.op # "activity"
            PROVE  \E i \in 1..(n+1) : outbox'[i].key = k
        <4>1. PICK i \in 1..n : outbox[i].key = k
          BY <1>1, <1>6, <2>1, <3>1 DEF OneEffectPerKey
        <4>2. i \in 1..(n+1) /\ outbox'[i].key = k
          BY <2>1, <4>1
        <4>3. QED
          BY <4>2
      <3>2. \A i, j \in 1..(n+1) :
              outbox'[i].key = outbox'[j].key /\ outbox'[i].key # NoKey => i = j
        BY <1>1, <2>1, <2>2 DEF OneEffectPerKey
      <3>3. QED
        BY <2>1, <3>1, <3>2 DEF OneEffectPerKey
    <2>5. QED
      BY <2>3, <2>4
  <1>7. QED
    BY <1>1, <1>3, <1>4, <1>5, <1>6, CommitEffect

\* A key is applied once however often it is retried or raced, and a receipt
\* never answers for a command that did not take effect, as long as receipts
\* do not expire: after the purge the key of beginIdempotent is free again.
THEOREM KeysApplyOnce ==
  ASSUME ExpiringKeys = {}
  PROVE  Spec => []OneEffectPerKey
  <1>1. Init => EffectInv
    <2> SUFFICES ASSUME Init PROVE EffectInv
      OBVIOUS
    <2>1. DOMAIN outbox = {} /\ \A k \in Keys : idem[k] = NoRow
      BY DEF Init
    <2>2. TypeInv /\ LocksHeld
      BY InitType DEF Init, LocksHeld
    <2>3. QED
      BY <2>1, <2>2 DEF EffectInv, ReceiptsCover, OneEffectPerKey
  <1>2. EffectInv /\ [Next]_vars => EffectInv'
    <2> SUFFICES ASSUME EffectInv, [Next]_vars
                 PROVE  EffectInv'
      OBVIOUS
    <2>1. TypeInv' /\ LocksHeld'
      BY NextType, NextLocks DEF EffectInv
    <2>2. CASE \E s \in Sessions : Commit(s)
      BY <2>1, <2>2, CommitOneEffect DEF EffectInv
    <2>3. ~ tombstoneJob
      BY DEF tombstoneJob, EffectInv, ReceiptsCover
    <2>4. CASE UNCHANGED <<idem, outbox>>
      BY <2>1, <2>4 DEF EffectInv, ReceiptsCover, OneEffectPerKey
    <2>5. QED
      BY <2>2, <2>3, <2>4
      DEF Next, requireOrder, beginCommand, Replay, Rollback,
          linkFromScheduling, rescheduleFromScheduling, applyMovementAnswer,
          applyReversalAnswer, orderVars, vars
  <1>3. EffectInv => OneEffectPerKey
    BY DEF EffectInv
  <1>4. QED
    BY <1>1, <1>2, <1>3, PTL DEF Spec

-----------------------------------------------------------------------------
(* Reversals *)

\* No reversal of u is pending or confirmed.
NoLiveReversal(u) ==
  \A r \in Keys : (reversals[r] # NoRow /\ reversals[r].usage = u)
                     => reversals[r].state = "REJECTED"

\* What a reversal checked still holds while it keeps the usage locked.
ReversalsChecked ==
  \A s \in Sessions : pc[s] = "open" /\ req[s].op = "reversal"
                        => NoLiveReversal(req[s].arg)

\* The invariant that makes OneLiveReversal inductive.
ReversalInv == TypeInv /\ LocksHeld /\ ReversalsChecked /\ OneLiveReversal

\* Two reversals of one usage are the same request, so its lock sees both.
LEMMA SameReversal ==
  ASSUME NEW c \in Command, NEW d \in Command, c.op = "reversal",
         d.op = "reversal", c.arg = d.arg
  PROVE  c = d
  BY DEF Command, KeyedCommand, UnkeyedCommand

\* The only steps that write reversals are the command and MOD12's answer.
LEMMA ReversalStep ==
  ASSUME [Next]_vars
  PROVE  \/ reversals' = reversals
         \/ \E s \in Sessions : reverseItemUsage(s)
         \/ \E r \in Keys, verdict \in {"CONFIRMED", "REJECTED"} :
              applyReversalAnswer(r, verdict)
  BY DEF Next, Commit, start, block, unblock, close, StatusCommand, assign,
         annul, registerFieldWork, editFieldWorkActivity, registerItemUsage,
         createFollowUp, cancelFromScheduling, requireOrder, beginCommand,
         Replay, Rollback, linkFromScheduling, rescheduleFromScheduling,
         applyMovementAnswer, receiptExpires, tombstoneJob, stockVars, vars

\* The row a reversal command writes, and the rows it leaves alone.
LEMMA NewReversal ==
  ASSUME TypeInv, NEW s \in Sessions, reverseItemUsage(s)
  PROVE  /\ pc[s] = "open" /\ req[s].op = "reversal" /\ req[s] \in Command
         /\ key[s] \in Keys /\ reversals[key[s]] = NoRow
         /\ reversals'[key[s]].usage = req[s].arg
         /\ reversals'[key[s]].state = "PENDING"
         /\ \A r \in Keys \ {key[s]} : reversals'[r] = reversals[r]
         /\ usages' = usages
  <1>1. pc[s] = "open" /\ req[s].op = "reversal" /\ req[s] \in Command
    BY DEF reverseItemUsage, Opened, TypeInv, SessionOK
  <1>2. key[s] \in Keys
    BY <1>1, RequestFacts DEF TypeInv, TypeOK, SessionOK
  <1>3. QED
    BY <1>1, <1>2 DEF reverseItemUsage, TypeInv, TypeOK

\* The row an answer decides, and the rows it leaves alone.
LEMMA AnsweredReversal ==
  ASSUME TypeInv, NEW a \in Keys, NEW verdict, applyReversalAnswer(a, verdict)
  PROVE  /\ reversals[a] # NoRow /\ reversals[a].state = "PENDING"
         /\ reversals'[a].usage = reversals[a].usage
         /\ \A r \in Keys \ {a} : reversals'[r] = reversals[r]
         /\ usages' = usages
  <1>1. reversals[a] \in Reversal
    BY DEF applyReversalAnswer, TypeInv, TypeOK
  <1>2. QED
    BY <1>1 DEF applyReversalAnswer, TypeInv, TypeOK, Reversal

\* While a usage has no live reversal, only its own reversal command or
\* nothing changes that.
LEMMA NoLiveStep ==
  ASSUME TypeInv, [Next]_vars, NEW u, NoLiveReversal(u)
  PROVE  \/ NoLiveReversal(u)'
         \/ \E s \in Sessions : reverseItemUsage(s) /\ req[s].arg = u
  <1>1. CASE reversals' = reversals
    BY <1>1 DEF NoLiveReversal
  <1>2. CASE \E s \in Sessions : reverseItemUsage(s)
    <2>1. PICK s \in Sessions : reverseItemUsage(s)
      BY <1>2
    <2>2. CASE req[s].arg # u
      BY <2>1, <2>2, NewReversal DEF NoLiveReversal
    <2>3. QED
      BY <2>1, <2>2
  <1>3. CASE \E a \in Keys, verdict \in {"CONFIRMED", "REJECTED"} :
               applyReversalAnswer(a, verdict)
    <2>1. PICK a \in Keys, verdict \in {"CONFIRMED", "REJECTED"} :
            applyReversalAnswer(a, verdict)
      BY <1>3
    <2>2. reversals[a].usage # u
      BY <2>1, AnsweredReversal DEF NoLiveReversal
    <2>3. QED
      BY <2>1, <2>2, AnsweredReversal DEF NoLiveReversal
  <1>4. QED
    BY <1>1, <1>2, <1>3, ReversalStep

\* Every step keeps the reversals' invariant.
LEMMA NextReversals ==
  ASSUME ReversalInv, [Next]_vars
  PROVE  ReversalInv'
  <1>1. /\ TypeInv /\ LocksHeld /\ ReversalsChecked /\ OneLiveReversal
        /\ TypeInv' /\ LocksHeld'
    BY NextType, NextLocks DEF ReversalInv
  <1>2. ReversalsChecked'
    <2> SUFFICES ASSUME NEW t \in Sessions, pc'[t] = "open",
                        req'[t].op = "reversal", NEW u, u = req'[t].arg
                 PROVE  NoLiveReversal(u)'
      BY DEF ReversalsChecked, NoLiveReversal
    <2>1. req'[t] = req[t]
      BY <1>1, OpenStep
    <2>2. CASE pc[t] = "open"
      <3>1. NoLiveReversal(u)
        BY <1>1, <2>1, <2>2 DEF ReversalsChecked
      <3>2. ASSUME NEW s \in Sessions, reverseItemUsage(s), req[s].arg = u
            PROVE  FALSE
        <4>1. /\ pc[s] = "open" /\ req[s].op = "reversal" /\ req[s] \in Command
              /\ req[t] \in Command
          BY <1>1, <2>2, <3>2, NewReversal DEF TypeInv, SessionOK
        <4>2. req[s] = req[t]
          BY <2>1, <3>2, <4>1, SameReversal
        <4>3. s = t
          BY <1>1, <2>2, <4>1, <4>2 DEF LocksHeld
        <4>4. pc'[t] = "idle"
          BY <1>1, <3>2, <4>3 DEF reverseItemUsage, EndSession, TypeInv, TypeOK
        <4>5. QED
          BY <4>4
      <3>3. QED
        BY <1>1, <2>1, <3>1, <3>2, NoLiveStep
    <2>3. CASE \E ifMatch \in 1..MaxVersion : beginCommand(t, ifMatch)
      <3>1. Admitted(req[t], snap[t]) /\ reversals' = reversals
        BY <2>3 DEF beginCommand, stockVars
      <3>2. Reversible(u)
        BY <2>1, <3>1 DEF Admitted
      <3>3. QED
        BY <3>1, <3>2 DEF Reversible, NoLiveReversal
    <2>4. QED
      BY <1>1, <2>2, <2>3, OpenStep
  <1>3. OneLiveReversal'
    <2>1. CASE reversals' = reversals
      BY <1>1, <2>1 DEF OneLiveReversal
    <2>2. CASE \E s \in Sessions : reverseItemUsage(s)
      <3>1. PICK s \in Sessions : reverseItemUsage(s)
        BY <2>2
      <3>2. NoLiveReversal(req[s].arg)
        BY <1>1, <3>1, NewReversal DEF ReversalsChecked
      <3>3. QED
        BY <1>1, <3>1, <3>2, NewReversal DEF OneLiveReversal, NoLiveReversal
    <2>3. CASE \E a \in Keys, verdict \in {"CONFIRMED", "REJECTED"} :
                 applyReversalAnswer(a, verdict)
      BY <1>1, <2>3, AnsweredReversal DEF OneLiveReversal
    <2>4. QED
      BY <2>1, <2>2, <2>3, ReversalStep
  <1>4. QED
    BY <1>1, <1>2, <1>3 DEF ReversalInv

\* A usage never has two reversals that are pending or confirmed: the check
\* of reverseItemUsage and its insert are far apart, the row lock on the usage
\* is what keeps a second request from checking in between.
THEOREM ReversalsAreExclusive == Spec => []OneLiveReversal
  <1>1. Init => ReversalInv
    BY InitType DEF Init, ReversalInv, LocksHeld, ReversalsChecked,
                    OneLiveReversal
  <1>2. ReversalInv /\ [Next]_vars => ReversalInv'
    BY NextReversals
  <1>3. ReversalInv => OneLiveReversal
    BY DEF ReversalInv
  <1>4. QED
    BY <1>1, <1>2, <1>3, PTL DEF Spec

-----------------------------------------------------------------------------
(* Installed equipment *)

\* A close without execution that read the current row saw no equipment
\* installed, and none has been installed since.
ClosesChecked ==
  \A s \in Sessions :
    /\ pc[s] = "open" /\ req[s].op = "close" /\ req[s].arg = "NOT_EXECUTED"
    /\ snap[s].version = order.version
    => InstalledEquipment = {}

\* The invariant that makes NotExecutedLeavesNoEquipment inductive.
EquipmentInv == Inv /\ ClosesChecked /\ NotExecutedLeavesNoEquipment

\* An installed unit is a usage row without a confirmed reversal.
LEMMA InstalledMeans ==
  ASSUME NEW u
  PROVE  u \in InstalledEquipment <=>
           /\ u \in Keys /\ usages[u] # NoRow /\ usages[u].installed
           /\ \A r \in Keys : reversals[r] # NoRow /\ reversals[r].usage = u
                                => reversals[r].state # "CONFIRMED"
  BY DEF InstalledEquipment, excludeConfirmedReversals

\* Only registering a usage adds installed equipment: an answer never changes
\* what a usage is, and a confirmed reversal stays.
LEMMA EquipmentShrinks ==
  ASSUME TypeInv, [Next]_vars, ~ \E s \in Sessions : registerItemUsage(s)
  PROVE  InstalledEquipment' \subseteq InstalledEquipment
  <1> SUFFICES ASSUME NEW u, u \in InstalledEquipment'
               PROVE  u \in InstalledEquipment
    OBVIOUS
  <1>1. /\ u \in Keys /\ usages'[u] # NoRow /\ usages'[u].installed
        /\ \A r \in Keys : reversals'[r] # NoRow /\ reversals'[r].usage = u
                             => reversals'[r].state # "CONFIRMED"
    BY DEF InstalledEquipment, excludeConfirmedReversals
  <1>2. usages[u] # NoRow /\ usages[u].installed
    <2>1. CASE usages' = usages
      BY <1>1, <2>1
    <2>2. CASE \E k \in Keys, verdict \in {"CONFIRMED", "REJECTED"} :
                 applyMovementAnswer(k, verdict)
      <3>1. PICK k \in Keys, verdict \in {"CONFIRMED", "REJECTED"} :
              applyMovementAnswer(k, verdict)
        BY <2>2
      <3>2. CASE u = k
        <4>1. usages[k] \in Usage /\ usages[k] # NoRow
          BY <3>1 DEF applyMovementAnswer, TypeInv, TypeOK
        <4>2. usages'[k] = [usages[k] EXCEPT !.state = verdict]
          BY <3>1 DEF applyMovementAnswer, TypeInv, TypeOK
        <4>3. usages'[k].installed = usages[k].installed
          BY <4>1, <4>2 DEF Usage
        <4>4. QED
          BY <1>1, <3>2, <4>1, <4>3
      <3>3. CASE u # k
        BY <1>1, <3>1, <3>3 DEF applyMovementAnswer, TypeInv, TypeOK
      <3>4. QED
        BY <3>2, <3>3
    <2>3. QED
      BY <2>1, <2>2
      DEF Next, Commit, start, block, unblock, close, StatusCommand, assign,
          annul, registerFieldWork, editFieldWorkActivity, reverseItemUsage,
          createFollowUp, cancelFromScheduling, requireOrder, beginCommand,
          Replay, Rollback, linkFromScheduling, rescheduleFromScheduling,
          applyReversalAnswer, receiptExpires, tombstoneJob, stockVars, vars
  <1>3. ASSUME NEW r \in Keys, reversals[r] # NoRow, reversals[r].usage = u
        PROVE  reversals[r].state # "CONFIRMED"
    <2>1. CASE reversals' = reversals
      BY <1>1, <1>3, <2>1
    <2>2. CASE \E s \in Sessions : reverseItemUsage(s)
      BY <1>1, <1>3, <2>2, NewReversal
    <2>3. CASE \E a \in Keys, verdict \in {"CONFIRMED", "REJECTED"} :
                 applyReversalAnswer(a, verdict)
      BY <1>1, <1>3, <2>3, AnsweredReversal
    <2>4. QED
      BY <2>1, <2>2, <2>3, ReversalStep
  <1>4. QED
    BY <1>1, <1>2, <1>3, InstalledMeans

\* A usage is registered on an order that is not closed, and moves its version
\* past what every other session has read.
LEMMA UsageRegistered ==
  ASSUME Inv, ~AgendaOverlaps, NEW s \in Sessions, registerItemUsage(s)
  PROVE  /\ order'.status # "NOT_EXECUTED"
         /\ \A t \in Sessions : pc'[t] = "open"
                                  => snap'[t].version # order'.version
  <1>1. /\ pc[s] = "open" /\ req[s].op = "item_usage" /\ EndSession(s)
        /\ persistOrderOptimistically(s, snap[s].status, snap[s].result)
    BY DEF registerItemUsage, Opened
  <1>2. Commit(s)
    BY DEF Commit
  <1>3. snap[s] = order /\ order'.version = order.version + 1
    BY <1>1, <1>2, CommitRow
  <1>4. order \in Order /\ order.version \in Nat
    BY OrderFields DEF Inv, TypeInv, TypeOK
  <1>5. order'.status = order.status
    BY <1>1, <1>3, <1>4 DEF persistOrderOptimistically, Order
  <1>6. order.status \notin Terminal
    BY <1>1, <1>3 DEF Inv, CheckedOK
  <1>7. ASSUME NEW t \in Sessions, pc'[t] = "open"
        PROVE  snap'[t].version # order'.version
    <2>1. pc[t] = "open" /\ snap'[t] = snap[t]
      BY <1>1, <1>7, EndSessionOthers DEF Inv
    <2>2. snap[t].version <= order.version /\ snap[t].version \in Nat
      BY <2>1, SnapshotFields DEF Inv, SnapshotIsCurrent
    <2>3. QED
      BY <1>3, <1>4, <2>1, <2>2
  <1>8. QED
    BY <1>5, <1>6, <1>7 DEF Terminal

\* An order becomes NOT_EXECUTED only by a close that checked its equipment
\* on the row it then updated.
LEMMA BecomesNotExecuted ==
  ASSUME Inv, ~AgendaOverlaps, [Next]_vars, order'.status = "NOT_EXECUTED",
         order.status # "NOT_EXECUTED"
  PROVE  \E s \in Sessions :
           /\ pc[s] = "open" /\ req[s].op = "close"
           /\ req[s].arg = "NOT_EXECUTED" /\ snap[s].version = order.version
           /\ close(s)
  <1>1. order \in Order
    BY DEF Inv, TypeInv, TypeOK
  <1>2. CASE \E s \in Sessions : Commit(s)
    <2>1. PICK s \in Sessions : Commit(s)
      BY <1>2
    <2>2. req[s].op # "reversal"
      BY <2>1, CommitRow
    <2>3. /\ pc[s] = "open" /\ snap[s] = order /\ snap[s].status = order.status
          /\ order'.version = order.version + 1
      BY <2>1, <2>2, CommitRow
    <2>4. ASSUME NEW st, NEW re, persistOrderOptimistically(s, st, re)
          PROVE  order'.status = st
      BY <1>1, <2>4 DEF persistOrderOptimistically, Order
    <2>5. ~ (start(s) \/ block(s) \/ unblock(s))
      BY <2>4 DEF start, block, unblock, StatusCommand
    <2>6. ~ (assign(s) \/ annul(s))
      BY <1>1 DEF assign, annul, Order
    <2>7. ~ cancelFromScheduling(s)
      <3>1. SUFFICES ASSUME cancelFromScheduling(s) PROVE FALSE
        OBVIOUS
      <3>2. order' = [order EXCEPT !.status = "CANCELLED",
                                   !.version = snap[s].version + 1]
        BY <2>3, <3>1 DEF cancelFromScheduling
      <3>3. QED
        BY <1>1, <3>2 DEF Order
    <2>8. ~ (\/ registerFieldWork(s) \/ editFieldWorkActivity(s)
             \/ registerItemUsage(s) \/ createFollowUp(s))
      BY <2>3, <2>4 DEF registerFieldWork, editFieldWorkActivity,
                        registerItemUsage, createFollowUp
    <2>9. ~ reverseItemUsage(s)
      BY <2>2 DEF reverseItemUsage, Opened
    <2>10. close(s)
      BY <2>1, <2>5, <2>6, <2>7, <2>8, <2>9 DEF Commit
    <2>11. /\ req[s].op = "close"
           /\ mapResultToStatus(req[s].arg) = "NOT_EXECUTED"
      BY <2>4, <2>10 DEF close, StatusCommand, Opened
    <2>12. req[s].arg = "NOT_EXECUTED"
      BY <2>11 DEF mapResultToStatus
    <2>13. QED
      BY <2>3, <2>10, <2>11, <2>12
  <1>3. CASE \E t \in Technicians : linkFromScheduling(t)
    BY <1>1, <1>3 DEF linkFromScheduling, Order
  <1>4. CASE rescheduleFromScheduling
    BY <1>1, <1>4 DEF rescheduleFromScheduling, Order
  <1>5. CASE UNCHANGED order
    BY <1>5
  <1>6. QED
    BY <1>2, <1>3, <1>4, <1>5
    DEF Next, requireOrder, beginCommand, Replay, Rollback, tombstoneJob,
        receiptExpires, applyMovementAnswer, applyReversalAnswer, orderVars,
        vars

\* Every step keeps the equipment's invariant.
LEMMA NextEquipment ==
  ASSUME EquipmentInv, ~AgendaOverlaps, [Next]_vars
  PROVE  EquipmentInv'
  <1>1. /\ Inv /\ ClosesChecked /\ NotExecutedLeavesNoEquipment /\ Inv'
        /\ TypeInv
    BY NextInv DEF EquipmentInv, Inv
  <1>2. CASE \E s \in Sessions : registerItemUsage(s)
    <2>1. /\ order'.status # "NOT_EXECUTED"
          /\ \A t \in Sessions : pc'[t] = "open"
                                   => snap'[t].version # order'.version
      BY <1>1, <1>2, UsageRegistered
    <2>2. QED
      BY <1>1, <2>1 DEF EquipmentInv, ClosesChecked,
                        NotExecutedLeavesNoEquipment
  <1>3. CASE ~ \E s \in Sessions : registerItemUsage(s)
    <2>1. InstalledEquipment' \subseteq InstalledEquipment
      BY <1>1, <1>3, EquipmentShrinks
    <2>2. NotExecutedLeavesNoEquipment'
      <3> SUFFICES ASSUME order'.status = "NOT_EXECUTED"
                   PROVE  InstalledEquipment = {}
        BY <2>1 DEF NotExecutedLeavesNoEquipment
      <3>1. CASE order.status = "NOT_EXECUTED"
        BY <1>1, <3>1 DEF NotExecutedLeavesNoEquipment
      <3>2. CASE order.status # "NOT_EXECUTED"
        BY <1>1, <3>2, BecomesNotExecuted DEF ClosesChecked
      <3>3. QED
        BY <3>1, <3>2
    <2>3. ClosesChecked'
      <3> SUFFICES ASSUME NEW t \in Sessions, pc'[t] = "open",
                          req'[t].op = "close", req'[t].arg = "NOT_EXECUTED",
                          snap'[t].version = order'.version
                   PROVE  InstalledEquipment = {}
        BY <2>1 DEF ClosesChecked
      <3>1. req'[t] = req[t] /\ snap'[t] = snap[t]
        BY <1>1, OpenStep
      <3>2. CASE pc[t] = "open"
        <4>1. snap[t].version <= order.version /\ order.version \in Nat
          BY <1>1, <3>2, OrderFields DEF Inv, SnapshotIsCurrent, TypeInv, TypeOK
        <4>2. order' = order \/ order'.version = order.version + 1
          BY <1>1, RowStep
        <4>3. snap[t].version = order.version
          BY <3>1, <4>1, <4>2
        <4>4. QED
          BY <1>1, <3>1, <3>2, <4>3 DEF ClosesChecked
      <3>3. CASE \E ifMatch \in 1..MaxVersion : beginCommand(t, ifMatch)
        BY <3>1, <3>3 DEF beginCommand, Admitted, closeAllowed
      <3>4. QED
        BY <1>1, <3>2, <3>3, OpenStep
    <2>4. QED
      BY <1>1, <2>2, <2>3 DEF EquipmentInv
  <1>4. QED
    BY <1>2, <1>3

\* No order is closed as NOT_EXECUTED with equipment left at the customer,
\* however its close races the registration of a usage: both go through the
\* order's version, so a close that wins checked the usages that count.
THEOREM NotExecutedIsClean ==
  ASSUME ~AgendaOverlaps
  PROVE  Spec => []NotExecutedLeavesNoEquipment
  <1>1. Init => EquipmentInv
    <2> SUFFICES ASSUME Init PROVE EquipmentInv
      OBVIOUS
    <2>1. Inv
      BY InitInv
    <2>2. InstalledEquipment = {}
      BY InstalledMeans DEF Init
    <2>3. QED
      BY <2>1, <2>2 DEF EquipmentInv, ClosesChecked,
                        NotExecutedLeavesNoEquipment
  <1>2. EquipmentInv /\ [Next]_vars => EquipmentInv'
    BY NextEquipment
  <1>3. EquipmentInv => NotExecutedLeavesNoEquipment
    BY DEF EquipmentInv
  <1>4. QED
    BY <1>1, <1>2, <1>3, PTL DEF Spec
=============================================================================
