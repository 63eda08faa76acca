---------------------------- MODULE InventorySaga ----------------------------
(***************************************************************************)
(* The inventory saga of an execution order: a usage (or the reversal of   *)
(* one) is PENDING until the inventory answers.  The request travels as an *)
(* outbox event to the consumer, which forwards it to the inventory's      *)
(* queue before its own COMMIT; a worker of the inventory decides it,      *)
(* leaves a receipt and sends the answer back.  A periodic rescan asks     *)
(* again, under a new event, for what is still PENDING.                    *)
(*                                                                         *)
(* One item in the custody of one technician; every usage takes one unit.  *)
(* A failed attempt is retried by the queue or is its last one.            *)
(***************************************************************************)
EXTENDS Naturals, FiniteSets

CONSTANTS
  Usages, Reversals, Target, \* the requests; Target[v] is what v undoes
  NoSubscriber,   \* the usages that install without naming a subscriber
  Worker,         \* the concurrent jobs of the inventory's processor
  MaxAttempts,    \* the rescans allowed: maxAttempts less the first request
  MaxStock,       \* bound: units in custody
  MaxFailures,    \* bound: failed attempts of the whole behaviour
  DlqMayRefuse,   \* the dead-letter queue may be unreachable
  Prompt          \* the rescan's threshold outlasts the delivery of a request

ASSUME SagaAssumption ==
  /\ Target \in [Reversals -> Usages]
  /\ Usages \cap Reversals = {}
  /\ NoSubscriber \subseteq Usages
  /\ MaxAttempts \in Nat /\ MaxStock \in Nat /\ MaxFailures \in Nat
  /\ DlqMayRefuse \in BOOLEAN /\ Prompt \in BOOLEAN

Request == Usages \cup Reversals

\* A request is asked under one event id per attempt.
Event == Request \X (0 .. MaxAttempts)

VARIABLES
  row,        \* movement_status of a usage, status of a reversal
  attempts,   \* request_attempts of the row, less the first request
  events,     \* request events the consumer has not committed yet
  jobs,       \* the inventory's request queue, by job id (= event id)
  worker,     \* what each worker is doing, and for which job
  receipts,   \* inventory_execution_request_receipts
  moves,      \* stock movements per idempotency key
  reversedBy, \* the usages whose movement has reversedByMovementId
  answers,    \* the answer queue, by deterministic job id
  stock,      \* units in the technician's custody
  custody,    \* whether the custody location is ACTIVE
  displaced,  \* the usages whose asset has moved since, or whose loan changed
  failures    \* failed attempts so far

order == <<row, attempts, events>>
ledger == <<receipts, moves, reversedBy, stock>>
world == <<custody, displaced>>
vars == <<order, jobs, worker, ledger, answers, world, failures>>

Idle == [pc |-> "idle", job |-> "none"]
Outcome == {"CONFIRMED", "REJECTED"}

TypeOK ==
  /\ row \in [Request -> {"ABSENT", "PENDING"} \cup Outcome]
  /\ attempts \in [Request -> 0 .. MaxAttempts]
  /\ events \in SUBSET Event
  /\ jobs \in [Event -> {"none", "queued", "active", "failed"}]
  /\ worker \in [Worker ->
       {Idle} \cup [pc: {"deciding", "rejecting", "answering"}, job: Event]]
  /\ receipts \in [Request -> {"NONE"} \cup Outcome]
  /\ moves \in [Request -> Nat]
  /\ reversedBy \in SUBSET Usages
  /\ answers \in [Request -> {"none", "failed"} \cup Outcome]
  /\ stock \in Nat
  /\ custody \in BOOLEAN
  /\ displaced \in SUBSET Usages
  /\ failures \in 0 .. MaxFailures

Init ==
  /\ row = [r \in Request |-> "ABSENT"]
  /\ attempts = [r \in Request |-> 0]
  /\ events = {}
  /\ jobs = [e \in Event |-> "none"]
  /\ worker = [w \in Worker |-> Idle]
  /\ receipts = [r \in Request |-> "NONE"]
  /\ moves = [r \in Request |-> 0]
  /\ reversedBy = {}
  /\ answers = [r \in Request |-> "none"]
  /\ stock \in 0 .. MaxStock
  /\ custody = TRUE
  /\ displaced = {}
  /\ failures = 0

(***************************************************************************)
(* The order's side: commands, the consumer and the rescan.                *)
(***************************************************************************)
Ask(r) ==
  /\ row[r] = "ABSENT"
  /\ row' = [row EXCEPT ![r] = "PENDING"]
  /\ events' = events \cup {<<r, 0>>}
  /\ UNCHANGED <<attempts, jobs, worker, ledger, answers, world, failures>>

RecordUsage(u) == Ask(u)

\* Mutant: a usage is undone before the order knows its outcome.
RequestReversalUnconfirmed(v) ==
  /\ row[Target[v]] \in {"PENDING", "CONFIRMED"}
  /\ \A o \in Reversals :
       Target[o] = Target[v] => row[o] \in {"ABSENT", "REJECTED"}
  /\ Ask(v)

\* The partial unique index admits one reversal that is PENDING or CONFIRMED.
RequestReversal(v) ==
  /\ row[Target[v]] = "CONFIRMED"
  /\ \A o \in Reversals :
       Target[o] = Target[v] => row[o] \in {"ABSENT", "REJECTED"}
  /\ Ask(v)

\* Queue.add: an id that the queue still holds, failed ones included, is ignored.
Enqueued(e) == [jobs EXCEPT ![e] = IF @ = "none" THEN "queued" ELSE @]

\* The handler adds the job; the inbox row is committed after it.
Forward(e) ==
  /\ e \in events
  /\ jobs' = Enqueued(e)
  /\ events' = events \ {e}
  /\ UNCHANGED <<row, attempts, worker, ledger, answers, world, failures>>

\* The attempt fails before or after the job was added; if it was the last
\* one the event is dead-lettered.
ForwardFails(e) ==
  /\ e \in events
  /\ failures < MaxFailures
  /\ failures' = failures + 1
  /\ jobs' \in {jobs, Enqueued(e)}
  /\ events' \in {events, events \ {e}}
  /\ UNCHANGED <<row, attempts, worker, ledger, answers, world>>

\* Nothing of the request is on its way any more.
Quiet(r) ==
  /\ answers[r] \notin Outcome
  /\ \A n \in 0 .. MaxAttempts :
       <<r, n>> \notin events /\ jobs[<<r, n>>] \in {"none", "failed"}

\* Mutant: the rescan stops one attempt early.
rescanStopsEarly(r) ==
  /\ row[r] = "PENDING"
  /\ attempts[r] + 1 < MaxAttempts
  /\ Prompt => Quiet(r)
  /\ attempts' = [attempts EXCEPT ![r] = @ + 1]
  /\ events' = events \cup {<<r, attempts[r] + 1>>}
  /\ UNCHANGED <<row, jobs, worker, ledger, answers, world, failures>>

\* Mutant: the rescan never gives up.
rescanForever(r) ==
  /\ row[r] = "PENDING"
  /\ attempts[r] <= MaxAttempts
  /\ attempts' = [attempts EXCEPT ![r] = @ + 1]
  /\ UNCHANGED <<row, events, jobs, worker, ledger, answers, world, failures>>

rescanTenant(r) ==
  /\ row[r] = "PENDING"
  /\ attempts[r] < MaxAttempts
  /\ Prompt => Quiet(r)
  /\ attempts' = [attempts EXCEPT ![r] = @ + 1]
  /\ events' = events \cup {<<r, attempts[r] + 1>>}
  /\ UNCHANGED <<row, jobs, worker, ledger, answers, world, failures>>

\* UPDATE ... WHERE status = 'PENDING'; any other answer leaves the row alone.
applyAnswer(r) ==
  /\ answers[r] \in Outcome
  /\ row' = [row EXCEPT ![r] = IF @ = "PENDING" THEN answers[r] ELSE @]
  /\ answers' = [answers EXCEPT ![r] = "none"]
  /\ UNCHANGED <<attempts, events, jobs, worker, ledger, world, failures>>

\* What is left of a job whose last attempt failed: it is removed once the
\* dead-letter queue has its diagnostic, and stays failed otherwise.
Remains == {"none"} \cup IF DlqMayRefuse THEN {"failed"} ELSE {}

applyAnswerFails(r) ==
  /\ answers[r] \in Outcome
  /\ failures < MaxFailures
  /\ failures' = failures + 1
  /\ \E left \in Remains \cup {answers[r]} : answers' = [answers EXCEPT ![r] = left]
  /\ UNCHANGED <<order, jobs, worker, ledger, world>>

\* A failed answer is cleaned after 24 hours: by then the nine rescans, 15
\* minutes apart, are over.
AnswerExpires(r) ==
  /\ answers[r] = "failed"
  /\ attempts[r] = MaxAttempts \/ row[r] # "PENDING"
  /\ answers' = [answers EXCEPT ![r] = "none"]
  /\ UNCHANGED <<order, jobs, worker, ledger, world, failures>>

(***************************************************************************)
(* The inventory's side.  Each step is one transaction of the processor.   *)
(***************************************************************************)
Goes(w, pc, e) == worker' = [worker EXCEPT ![w] = [pc |-> pc, job |-> e]]
Leaves(w, state) ==
  /\ worker' = [worker EXCEPT ![w] = Idle]
  /\ jobs' = [jobs EXCEPT ![worker[w].job] = state]

\* findReceipt; a usage without subscriber, or without an active custody
\* location, is rejected before the ledger is asked.
Take(w, e) ==
  LET r == e[1] IN
  /\ worker[w] = Idle
  /\ jobs[e] = "queued"
  /\ jobs' = [jobs EXCEPT ![e] = "active"]
  /\ Goes(w, IF receipts[r] # "NONE" THEN "answering"
             ELSE IF r \in Usages /\ (r \in NoSubscriber \/ ~custody)
             THEN "rejecting" ELSE "deciding", e)
  /\ UNCHANGED <<order, ledger, answers, world, failures>>

\* The validations of the ledger, under its locks.
Admits(r) ==
  /\ custody
  /\ IF r \in Usages THEN stock > 0
     ELSE /\ moves[Target[r]] > 0
          /\ Target[r] \notin reversedBy \cup displaced

\* recordMovementWithManager: a movement of the same key is not repeated.
Moved(r) ==
  IF moves[r] > 0 THEN UNCHANGED <<moves, stock>>
  ELSE /\ moves' = [moves EXCEPT ![r] = 1]
       /\ stock' = IF r \in Usages THEN stock - 1 ELSE stock + 1

\* Mutant: a receipt that exists is left alone (ON CONFLICT DO NOTHING).
ConfirmIgnoringConflict(w) ==
  LET r == worker[w].job[1] IN
  /\ worker[w].pc = "deciding"
  /\ Admits(r)
  /\ Moved(r)
  /\ reversedBy' = IF r \in Usages THEN reversedBy ELSE reversedBy \cup {Target[r]}
  /\ receipts' = [receipts EXCEPT ![r] = IF @ = "NONE" THEN "CONFIRMED" ELSE @]
  /\ Goes(w, "answering", worker[w].job)
  /\ UNCHANGED <<order, jobs, answers, world, failures>>

\* The movement and its CONFIRMED receipt are one transaction.
Confirm(w) ==
  LET r == worker[w].job[1] IN
  /\ worker[w].pc = "deciding"
  /\ Admits(r)
  /\ receipts[r] = "NONE"
  /\ Moved(r)
  /\ reversedBy' = IF r \in Usages THEN reversedBy ELSE reversedBy \cup {Target[r]}
  /\ receipts' = [receipts EXCEPT ![r] = "CONFIRMED"]
  /\ Goes(w, "answering", worker[w].job)
  /\ UNCHANGED <<order, jobs, answers, world, failures>>

\* InventoryBusinessRejection rolls the transaction back.
Refuse(w) ==
  /\ worker[w].pc = "deciding"
  /\ ~Admits(worker[w].job[1])
  /\ Goes(w, "rejecting", worker[w].job)
  /\ UNCHANGED <<order, jobs, ledger, answers, world, failures>>

\* Mutant: the rejection overwrites the receipt (upsert).
rejectOverwriting(w) ==
  LET r == worker[w].job[1] IN
  /\ worker[w].pc = "rejecting"
  /\ receipts' = [receipts EXCEPT ![r] = "REJECTED"]
  /\ Goes(w, "answering", worker[w].job)
  /\ UNCHANGED <<order, jobs, moves, reversedBy, stock, answers, world, failures>>

persistRejectedReceipt(w) ==
  LET r == worker[w].job[1] IN
  /\ worker[w].pc = "rejecting"
  /\ receipts[r] = "NONE"
  /\ receipts' = [receipts EXCEPT ![r] = "REJECTED"]
  /\ Goes(w, "answering", worker[w].job)
  /\ UNCHANGED <<order, jobs, moves, reversedBy, stock, answers, world, failures>>

\* The receipt's unique index: the second decision fails and is retried.
ReceiptConflict(w) ==
  LET r == worker[w].job[1] IN
  /\ \/ worker[w].pc = "deciding" /\ Admits(r)
     \/ worker[w].pc = "rejecting"
  /\ receipts[r] # "NONE"
  /\ Leaves(w, "queued")
  /\ UNCHANGED <<order, ledger, answers, world, failures>>

\* Queue.add under an id derived from the request, then the job completes.
enqueueResponse(w) ==
  LET r == worker[w].job[1] IN
  /\ worker[w].pc = "answering"
  /\ answers' = [answers EXCEPT ![r] = IF @ = "none" THEN receipts[r] ELSE @]
  /\ Leaves(w, "none")
  /\ UNCHANGED <<order, ledger, world, failures>>

\* A crash or an error at any point; what was committed stays.
Fails(w) ==
  /\ worker[w] # Idle
  /\ failures < MaxFailures
  /\ failures' = failures + 1
  /\ \E left \in Remains \cup {"queued"} : Leaves(w, left)
  /\ UNCHANGED <<order, ledger, answers, world>>

(***************************************************************************)
(* Other operations on the same stock.                                     *)
(***************************************************************************)
Restock ==
  /\ \E n \in 0 .. MaxStock : stock' = n
  /\ UNCHANGED <<order, jobs, worker, receipts, moves, reversedBy, answers, world,
                 failures>>

ToggleCustody ==
  /\ custody' = ~custody
  /\ UNCHANGED <<order, jobs, worker, ledger, answers, displaced, failures>>

Displace(u) ==
  /\ moves[u] > 0
  /\ displaced' = displaced \cup {u}
  /\ UNCHANGED <<order, jobs, worker, ledger, answers, custody, failures>>

Order ==
  \/ \E u \in Usages : RecordUsage(u)
  \/ \E v \in Reversals : RequestReversal(v)

Consumer ==
  \/ \E e \in Event : Forward(e) \/ ForwardFails(e)
  \/ \E r \in Request : applyAnswer(r) \/ applyAnswerFails(r)

Upkeep == \E r \in Request : rescanTenant(r) \/ AnswerExpires(r)

Inventory ==
  \E w \in Worker :
    \/ \E e \in Event : Take(w, e)
    \/ Confirm(w) \/ Refuse(w) \/ persistRejectedReceipt(w)
    \/ ReceiptConflict(w) \/ enqueueResponse(w) \/ Fails(w)

World == Restock \/ ToggleCustody \/ \E u \in Usages : Displace(u)

Next == Order \/ Consumer \/ Upkeep \/ Inventory \/ World

Spec == Init /\ [][Next]_vars

\* Queues hand out what they hold, workers finish what they take, and the
\* rescan runs on a timer.  Failures and commands are not owed.
Fairness ==
  /\ \A e \in Event : WF_vars(Forward(e))
  /\ \A e \in Event : WF_vars(\E w \in Worker : Take(w, e))
  /\ \A w \in Worker :
       WF_vars(Confirm(w) \/ Refuse(w) \/ persistRejectedReceipt(w)
               \/ ReceiptConflict(w) \/ enqueueResponse(w))
  /\ \A r \in Request : WF_vars(applyAnswer(r)) /\ WF_vars(rescanTenant(r))

FairSpec == Spec /\ Fairness

(***************************************************************************)
(* Properties.                                                             *)
(***************************************************************************)

\* The ledger and the receipts agree: a request has moved stock, and once
\* only, exactly when its receipt is CONFIRMED, however many jobs of it ran
\* at the same time (processConsumptionRequest, insertReceipt).
ReceiptMatchesLedger ==
  \A r \in Request : moves[r] = (IF receipts[r] = "CONFIRMED" THEN 1 ELSE 0)

\* No answer contradicts another: an answer on its way, and a row that is no
\* longer PENDING, carry the outcome of the request's only receipt
\* (enqueueResponse, applyInventoryMovementConfirmed and its siblings).
AnswersAgree ==
  \A r \in Request :
    /\ answers[r] \in Outcome => answers[r] = receipts[r]
    /\ row[r] \in Outcome => row[r] = receipts[r]

\* Requests that are repeated, forwarded by a transaction that rolled back or
\* decided by two workers implement one decision per request.
Decision ==
  INSTANCE InventoryDecision
    WITH asked <- {r \in Request : row[r] # "ABSENT"},
         decision <- receipts,
         moved <- moves,
         told <- [r \in Request |-> IF row[r] \in Outcome THEN row[r] ELSE "NONE"]

ImplementsDecision == Decision!Spec

\* Every request is answered in the end, as long as the whole path fails no
\* more often than the rescan may repeat it.
EventuallyAnswered ==
  \A r \in Request : row[r] = "PENDING" ~> row[r] \in Outcome
=============================================================================
