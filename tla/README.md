# iWana neXt: verification of field work, inventory saga, evidence and billing

iWana neXt is a multi-tenant OSS/BSS for internet providers: a NestJS API
(`apps/api`), a BullMQ worker (`apps/worker`), two Next.js portals and shared
packages. The part with the hardest state is MOD11, the field *execution order*
(OT, "orden de trabajo"): a versioned aggregate that technicians, dispatchers
and the agenda change concurrently, that publishes events through a
transactional outbox, and whose events drive agenda, visits, tasks and inventory
asynchronously. This project models that subsystem in TLA+ with the two it depends on
most, the inventory's answers to an order (MOD12) and the evidence attached to it, and
the one other part of the system with comparable concurrency, billing (MOD14); checks
them with TLC on small instances and proves their central results with TLAPS.

Paths below are relative to `src/`. "The service" is
`apps/api/src/modules/tasks/services/execution-orders.service.ts`, "the consumer"
is `apps/worker/src/processors/execution-order-events.processor.ts`, "the ADR" is
`docs/adrs/ADR-068-Sincronizacion-OT-Ejecucion-Proyecciones-Operativas.md`.

## 1. Inventory

### The modelled core

| Part | State | Operations | Hard behaviour | What makes it correct |
|---|---|---|---|---|
| Execution order aggregate (the service) | `execution_orders` (status, result, version, annulled, technician, agenda link), seats of the status transitions, activities, item usages, reversals | start, block, unblock, close, assign, annul, field work, item usage, reversal, follow-up; the agenda's create, link, reschedule, cancel | READ COMMITTED transactions that check what they read without a lock; a version in the UPDATE's condition | one history of statuses, frozen outcomes, growing versions, no equipment left behind |
| Reliability (`execution-order-reliability.service.ts`, tombstone processor) | receipts by key, outbox rows | beginIdempotent, completeIdempotency, appendOutbox, expiry, tombstone and purge | retries and races on one key; retention | one effect per key |
| Outbox relay (`execution-order-relay.service.ts`) | lease, attempt and published mark of a row | scanTenantOutbox | crash or error between lease, enqueue and mark; overlapping scans | an event is never lost between two stages |
| Event consumer and matrix (the consumer) | inbox; status of agenda event, visit and linked task | process and its handlers | duplicates, reordering, the version gate, backoff | each event applied at most once; projections converge |
| Dead letters and redrive (`execution-order-dlq.processor.ts`, `redriveEvent`) | the row's last error, dead-letter jobs | onFailed, record, redrive | unreachable queue, diagnostics that cannot be stored, late marks | an exhausted event is recorded and can be redriven |
| Linked task (`tasks.service.ts`) | task status | transitionStatusWithManager; the consumer's unconditional update | two writers with different rules | a legitimate close is not refused |
| Inventory saga (inventory request processor, stock ledger, rescan service) | receipts, movements, stock, `PENDING` usages and reversals, two queues | request, forward, decide, answer, rescan | at-least-once queues with retained job ids, requests sent before COMMIT, two jobs of one request at once | one decision and at most one movement per request; an answer eventually |
| Evidence (service, `evidence-asset.provider.ts`, analysis and orphan processors) | upload intents, media rows, objects, claims, evidence rows | upload in three steps, analyse, register and claim, expire, release, delete | three stores, a claim that survives the rollback of the transaction it belongs to, a cleanup job that runs beside everything | registered evidence keeps its asset; what nobody uses goes away and does not come back; no object without a row |
| Billing (`billing-documents`, `billing-payments`, `billing-generation`) | documents, numbers, payments, allocations, period signals | generate, issue, void, discard, register a payment, allocate credit, void a payment | READ COMMITTED transactions that lock row by row and check in one statement what they write in the next | no overpayment, no money on voided rows, signals that follow from the rows, numbers without gaps |
| Agenda and visits (`wfm`) | agenda events, visit requests | schedule, reschedule, cancel, expire | calls the service within its own transaction | agenda and order agree |

### How the parts interact

A command runs in one transaction of the API: it writes the order, its child rows,
the receipt and one outbox row. The worker's relay scans the outbox of each tenant
as a repeatable job: it commits leases, then enqueues each row in BullMQ, then marks
it in a transaction of its own. The consumer applies the event in one transaction
(inbox row, projections) or, for inventory requests, forwards it to another queue;
the inventory answers through a queue that the consumer reads too. A job that has used
up its attempts triggers the failed listener, which sends a diagnostic to the
dead-letter queue; its processor stores the error on the outbox row; an operator may
redrive the row. The agenda calls the service with its own transaction manager.

The inventory's processor runs in the API. It decides a request in one transaction
(movement and receipt) or, when the ledger refuses, in a second one (rejected receipt),
and then adds the answer to the consumer's queue under a job id derived from the request.
The worker's rescan repeats, under a new event id, what is still `PENDING`. Evidence goes
through Media: a row in the public schema, an object in the store, an analysis job; the
order's `registerEvidence` claims the asset on a connection of its own; a job every six
hours releases, expires and deletes. Billing shares no state with the order.

### Other parts of the repository

Purchasing, issues and counts (`inventory`), network and IPAM (`network`), assurance
tickets, tenant provisioning and purge, authentication and sessions, CRM, parties,
commercial, taxation, administration, search, mail, the worker's upkeep jobs, the portals
and the shared packages. They are listed in `PROJECT.json`
with the reason each is not modelled.

The hazards these parts are exposed to, each at its line, are the list `hazards` of
`PROJECT.json`; the properties below are chosen from it.

## 2. Modules

| Module | Contents |
|---|---|
| `ExecutionOrder` | the aggregate: sessions (requests in flight), receipts, outbox, usages and reversals, the agenda's calls, answers of the inventory, retention |
| `MCExecutionOrder` | the sets of requests for TLC, symmetry |
| `ExecutionOrderProofs` | type correctness and optimistic concurrency control, proved |
| `ExecutionOrderEffects` | seats, outbox versions, receipts, reversals and installed equipment, proved |
| `ConvergenceMatrix` | operators: what each event does to the projections; the task's transition table |
| `OperationalProjection` | abstract specification: what the pipeline promises the projections |
| `EventPipeline` | the detailed pipeline: relay, queue, consumer, dead letters, redrive |
| `MCEventPipeline` | the event histories for TLC |
| `EventPipelineProofs` | type correctness, refinement, no lost event and convergence, proved |
| `InventoryDecision` | abstract specification: what the inventory promises an order |
| `InventorySaga` | the detailed saga: rows, events, both queues, workers, receipts, ledger, rescan |
| `MCInventorySaga` | its instances for TLC |
| `InventorySagaProofs` | types, ledger and answers, refinement, proved |
| `Evidence` | upload, analysis, registration with its claim, orphan job |
| `MCEvidence` | its instances for TLC |
| `EvidenceProofs` | types, object store, dead assets and claims, proved |
| `Billing` | documents, payments, allocations, numbers and signals under PostgreSQL's locks |
| `MCBilling` | its instance for TLC |
| `BillingProofs` | type correctness, with what each statement changes, proved |
| `BillingSafety` | allocations, amounts, numbers and signals, proved |
| `FiniteInduction` | smallest counterexamples over finite sets and naturals; sums of finite functions, proved |

The modules meet at their boundaries: `ExecutionOrder` has the commands that create and
revert usages and takes any answer of the inventory; `InventorySaga` takes usages as given
and says which answers there can be; `EventPipeline` carries the events of both; `Evidence`
keeps of the order only whether it is mutable and its version.

### ExecutionOrder and the code

One order row, any number of sessions. A session goes `idle -> read -> open -> idle`:

- `requireOrder` is the SELECT without a lock; `snap[s]` is what it returned.
- `beginCommand` is the rest of the checks: the advisory lock of the key
  (`KeyLockFree`), the look-up of the receipt, `If-Match` against the version that was
  read (`assertVersion`), what the command checks (`Admitted`, one guard per command). For a reversal it also takes
  the `FOR UPDATE` lock of the usage (`UsageLockFree`). An `open` session holds its locks.
- One action per command (`start`, `close`, `registerItemUsage`, ...) is the UPDATE with
  its condition on the version, the seat, the receipt, the outbox row and the commit.
  Nothing of a transaction is visible before that step.
- `Replay` answers from a receipt; `Rollback` is every refusal, including the closure
  gate, signature, scope and provisioning checks, a linked task that refuses, and a crash.

The other agenda calls, `linkFromScheduling` and `rescheduleFromScheduling`, hold the row
`FOR UPDATE` and are one step. `cancelFromScheduling` does not: it saves an entity it read
earlier with `manager.save`, which reads the row once more and writes the columns that
differ, without a condition on the version. `AgendaOverlaps` says whether such a
cancellation may be overtaken by another commit: the passing runs and the proofs about the
row set it to FALSE, `agenda_overwrites_close` sets it to TRUE and shows what happens then.

Creation is the initial state: with or without a technician, with or without an agenda
event. `applyMovementAnswer` and `applyReversalAnswer` are the handlers of the inventory's
answers (they move a PENDING row once); `receiptExpires` is the clock, `tombstoneJob` the
daily job.

### EventPipeline and the code

One order whose commands emit the events of a *history* (`plan`, one of `Plans`), with the
versions the service gives them.

- `appendOutbox`: the outbox row, in the command's transaction. A close also moves the linked
  task there and is refused if `STATUS_TRANSITIONS` forbids it.
- `leaseRows`, `enqueue`, `mark`: the three stages of `scanTenantOutbox`; the order of a batch
  is arbitrary because `UPDATE ... RETURNING` fixes none. `enqueueFails`, `markFails`,
  `relayCrash` are its errors, `leaseExpires` the clock.
- `process`: the consumer's transaction: version gate, inbox, handler. `attemptFails` and
  `attemptFailsForGood` (UnrecoverableError) roll it back; `backoffEnds` is BullMQ's delayed set.
- `onFailed`, `onFailedUnreachable`, `recordDeadLetter`, `recordDeadLetterFails`,
  `redriveEvent`: dead letters.

`Faults` selects which errors an instance considers. "slow_mark" is not an error but a
delay: a redrive while some relay still has to mark the row.

### InventorySaga and the code

Requests are usages (`RecordUsage`) and reversals (`RequestReversal`, whose guard is the
order's: a CONFIRMED usage without a live reversal). An event is a request with the number of
its attempt, as each attempt has an event id of its own.

- `Forward` is the consumer's handler: the job is added to the inventory's queue and the
  inbox row is committed afterwards. `ForwardFails` is a failure on either side of the
  enqueue, with or without a further delivery. The path from the outbox to the consumer is
  `EventPipeline`'s and is one step here.
- `Take` is the start of a job: the look-up of the receipt and the checks made before the
  ledger is asked. `Confirm` and `Refuse` are the ledger's transaction, committed or rolled
  back; `persistRejectedReceipt` the second transaction of a rejection; `ReceiptConflict` the
  unique index that stops the second of two decisions; `enqueueResponse` the answer;
  `Fails` an error or a crash at any of these points.
- `Enqueued` and the answer queue follow BullMQ: an id the queue holds, in any state, is
  ignored. `Remains` is what an exhausted job leaves: nothing when its diagnostic was stored
  and the job removed, a failed job otherwise.
- `applyAnswer` updates a row only while it is PENDING; `rescanTenant` repeats a request.
- `Restock`, `ToggleCustody` and `Displace` are everything else that happens to the item: other
  movements, a custody location that is deactivated, an asset that moves on.

`Prompt` says that the rescan's threshold of 15 minutes outlasts the delivery of a request,
so that a rescan never overlaps a live attempt. The safety run does not assume it.
`DlqMayRefuse` says whether the dead-letter queue may be unreachable.

### Evidence and the code

Per asset: `reserveIntent` (step 1 of `createEvidenceAssetReceipt`), `saveRow`, `putObject`,
`addAnalysis` (Media's `createUploadIntent`), `linkIntent` (step 3); `UploadFails` with the
compensation the code has, which may fail too, `UploadDies` without any; `analyse`; `purgeIntent`. Per command:
`checkEvidence`, `writeEvidence` (versioned UPDATE, row inserted, nothing committed; the unique
index on `media_asset_id`, `Insertable`, refuses a second row of an asset before any claim),
`claimAsset` (committed at once, elsewhere), `commitEvidence` or `rollbackEvidence`. The orphan job
goes through its phases one statement at a time and may die between two. `age` is the clock of
an asset: ten minutes, a day, the retention after the soft delete; an upload or a
registration is assumed to be faster than its own threshold.

`Overlap` says whether the job may look for evidence while a registration is between its claim
and its commit. The passing run excludes that and `evidence_released` allows it. The job
measures the ten minutes from the creation of the asset, not from the claim, so nothing in the
code excludes it: a photo that was taken earlier is enough.

`UnclearPut` says whether a `putObject` that throws may have stored the object (a timeout after the store
took it). `createUploadIntent` deletes the row on any error and does not look. The passing run and
`StoreAgreesWithRows` exclude that; with `UnclearPut = TRUE` the property fails (section 3).

Two parts of the code can do nothing: `reconcileClaimFailed` looks for rows with
CLAIM_FAILED, a mark that is only written in a transaction that then rolls back; and REJECTED
assets are not expired by any phase, so their objects stay (`OrphansAreRemoved` says so).

### Billing and the code

One subscriber, one number prefix, one contract. A command is a transaction; `tx[t]` holds its
locks, its uncommitted writes and what it has still to do, and every action is one statement (or a
statement and the reads that follow it under the same locks). A read sees the committed rows
under the transaction's own writes (`SeenDocuments` and the others). `Granted` is PostgreSQL's
lock wait. `Commit` publishes the writes; `Rollback` is every refusal, a replayed key, a deadlock
victim and a crash.

`registerPayment` continues with allocations of the command (`applyListed`) or the suggested
ones (`suggestAllocations`, `applySuggested`), `allocateCredit` with listed ones; `voidPayment`
and `void` with `reverseAllocations`; `issue` and an automatic `generateOne` with `lockNumbering`,
`lockDraft`, `assignNumber` and, under `auto_apply_credit`, `lockCredit` and `drawCredit`; all that touch
allocations end with `recalculateSignals`, period by period.

## 3. Properties and runs

Passing runs:

| Run | Properties | Shows |
|---|---|---|
| `order_lifecycle` | `TypeOK`, `SnapshotIsCurrent`, `TransitionChain`, `ProjectionVersionsIncrease`, `TerminalIsFinal`, `VersionOnlyGrows` | two sessions, every lifecycle command, two keys whose receipts may expire and be purged, agenda calls, up to version 3 |
| `order_equipment` | `OneEffectPerKey`, `NotExecutedLeavesNoEquipment`, `OneLiveReversal` | start, installed usages, reversals, NOT_EXECUTED close and answers of the inventory on four keys, up to version 4 |
| `event_delivery` | `TypeOK`, `NoEventLost`, `ImplementsFeed` | two events with relay crashes, refused enqueues, failed marks, dead letters and redrives |
| `projection_convergence` | `Convergence` | four histories of three or four events, with retries and lost diagnostics |
| `delivery_liveness` | `NoEventLost`, `EventuallyDecided` | two overlapping relays with every fault of the relay, retries, fatal errors |
| `inventory_saga` | `TypeOK`, `ReceiptMatchesLedger`, `AnswersAgree`, `ImplementsDecision` | a usage and its reversal, one rescan each, two workers at once, two failures anywhere, unreachable dead-letter queue, stock and custody that change |
| `saga_liveness` | `EventuallyAnswered` | two usages (one is always rejected) and a reversal, two rescans, two failures: every PENDING request is answered |
| `evidence` | `TypeOK`, `EvidenceKeepsAsset`, `ObjectsHaveRows`, `UnusableIsFinal`, `OrphansAreRemoved` | two uploads, two registrations, the orphan job, one crash or failed statement anywhere (neither `Overlap` nor `UnclearPut`): evidence keeps its asset, a late analysis revives nothing, what nobody registered is removed |
| `billing` | `TypeOK`, `NoOverpayment`, `AllocationsAreLive`, `SignalIsDerived`, `ConsecutiveNumbers` | two transactions, three documents of two periods, two payments, every command |

Runs that find the code at odds with what the repository says (`findings` in
`PROJECT.json` quotes the lines):

| Run | Property | What happens |
|---|---|---|
| `agenda_overwrites_close` | `TerminalIsFinal` | a cancellation that read the order before a close committed writes CANCELLED over it and sets the version back |
| `retained_answer` | `EventuallyAnswered` | an exhausted answer stays failed under the request's job id when the dead-letter queue is unreachable, and every later answer is ignored |
| `evidence_released` | `EvidenceKeepsAsset` | the orphan job looks before a registration commits and clears its claim afterwards: the committed evidence has an unclaimed asset, which later sweeps expire and delete (a second registration of it is refused by the unique index) |

Disagreements met on the way that have no run of their own; each is reproduced by changing one
constant or history, and the passing runs stay clear of it as described:

- A usage the inventory rejected counts as installed for the NOT_EXECUTED close (service, 2191)
  but only a confirmed one may be reversed (1998): such an order cannot be closed that way, although
  the refusal asks to revert first (2211).
- The tombstone of an expired receipt is deleted by the transaction that writes it
  (`execution-order-tombstone.processor.ts`, 172): with a key in `ExpiringKeys` and the purge,
  `OneEffectPerKey` fails. Line 166 of that file says the tombstone is kept.
- When Blocked is applied before Started, the gate drops Started and the agenda event stays
  SCHEDULED; when a reversal request, which repeats the version of the close, is applied before
  it, the gate drops the close. `Convergence` fails for these two histories.
- A mark that comes after a redrive publishes the redriven row without a job: with "slow_mark"
  among the `Faults`, `NoEventLost` fails.
- The linked task of a started order is IN_PROGRESS once the start is projected, and
  `STATUS_TRANSITIONS` does not lead from there to the READY that a NOT_EXECUTED close needs.
- `createUploadIntent` deletes the row whenever `putObject` throws (`evidence-asset.provider.ts`, 185). When
  only the store's answer was lost, the object stays without a row: with `UnclearPut = TRUE` in `Evidence.cfg`
  TLC refutes `ObjectsHaveRows` in three steps (`reserveIntent`, `saveRow`, `UploadFails`). Line 52 of
  ADR-068 names a reconciler of metadata, object and link for these windows; no job compares the store with
  the rows.
- A document with total 0 is covered when it is issued, but issuing recalculates the signal of its
  period only through credit: with a `Total` of 0, `SignalIsDerived` fails.
- Issuing locks a period and then payments; voiding a payment locks it and then its periods. TLC
  reaches the cycle; PostgreSQL ends it by aborting one command.

Two faults are left out of the runs of `NoEventLost` and `EventuallyDecided` because the code
gives up on them: with "dlq_unreachable" or "record_error" among the `Faults` an exhausted event
stays published without a recorded error, and TLC refutes both. `projection_convergence` includes
them. One difference with the ADR was met while reading and is not checked: REQUIRES_FOLLOW_UP
goes through the default branch of `applyExecutionOrderClosed` (visit CLOSED, task RESOLVED),
where line 90 of the ADR asks for REQUIRES_RESCHEDULE and PENDING_INTERNAL; only a separate
follow-up reschedules the visit.

Every property of a passing run has a mutant in `PROJECT.json`: a plausible bug (the
UPDATE without its condition, a usage that leaves the version alone, a gate that is always
open, a lease that never ends) under which TLC finds the property violated.

### Bounds

- `Sessions`: two. The hazards are pairwise (one request reads, another commits); the
  proofs cover any number.
- `Keys`: two for the lifecycle, which allows a retry, a race and a conflict on one key;
  four for equipment: start, usage, reversal and close, or two usages.
- `MaxVersion`: 3 or 4 changes of the row. A terminal state needs one, the
  interesting races two. `beginCommand` and the agenda's calls stop at the bound.
- `MaxTries` stands for BullMQ's eight attempts; one or two suffice for "fails and is
  retried" and "is exhausted".
- `MaxAttempts`: how often a row is leased or redriven. A fault does not use up the last
  lease (`mayFail`), since the code would lease the row again.
- The batch of 100 rows and the purge batch of 500 are never full. Usages and
  reversals have one row per key, also after a purge has freed the key (the code draws a new id).
- Histories are ones the commands of `ExecutionOrder` produce, at most four events long.
- The pipeline runs say `CHECK_DEADLOCK FALSE`: once every event is delivered nothing is
  left to do. All other runs check deadlock.
- Saga: two workers, since the races on a receipt are pairwise; one usage, its reversal and one
  rescan of each give four jobs that may overlap. `MaxStock` 1 makes stock appear and
  disappear. `MaxFailures` 2 in `saga_liveness` is tight: with two rescans a request is sent three
  times, and with a third failure TLC finds a request that stays PENDING, as in the code after
  its tenth request.
- Evidence: two assets and two registrations let both registrations race for one asset while the
  other one is swept; `Batch` 2 is never full. With `Batch` 1 TLC refutes `OrphansAreRemoved`: the
  query for claims has LIMIT 500 and no order, so once 500 registered assets exist it may return the same
  ones for ever. `MaxFaults` 1: every crash point of every step is reached once.
- Billing: two transactions; the proofs cover any number. Totals 2, 1, 1 and amounts 2, 1 allow
  partial, exact and refused allocations; documents 1 and 2 share a period, so a document can be
  voided and generated again. Period 1 applies credit, period 2 does not.

### Fairness

`FairSpec` of `EventPipeline` assumes weak fairness of: the relay's scan (a repeatable
BullMQ job) and its loop, whose every iteration enqueues, marks or gives up on the row; the
queue's delivery and the end of backoffs; the failed listener and the dead-letter processor;
the clock that ends leases. Nothing is assumed of commands, crashes or operators. Where a
step may succeed or fail, only "one of both happens" is fair, so no fault is forbidden; the
retry bounds make the failures finite, as `attempts: 8` does in the code. For the relay the
bound on failures is the assumption that it does not fail for ever.

`FairSpec` of `InventorySaga`: queues hand out what they hold, a worker ends the job it has
taken, answers are consumed, the rescan runs on its timer. Failures are bounded by `MaxFailures` and
never owed. `FairSpec` of `Evidence`: time passes, a registration that has begun ends, the
repeatable job takes its next step; not the uploads, whose process may die, nor the analysis, whose
job may be lost, nor any command. `Billing` has no liveness property: every command may be refused.

## 4. Proofs

All for any values of the constants: sessions, keys, histories, requests, workers, assets,
documents, transactions, and any bounds.

| Theorem | States | Assumes |
|---|---|---|
| `TypeCorrect` (`ExecutionOrderProofs`) | `Spec => []TypeOK` | the named ASSUMEs |
| `SnapshotsAreCurrent` | `Spec => []SnapshotIsCurrent` | `~AgendaOverlaps` |
| `VersionsOnlyGrow` | `Spec => VersionOnlyGrows` | `~AgendaOverlaps` |
| `TerminalStaysFinal` | `Spec => TerminalIsFinal` | `~AgendaOverlaps` |
| `SeatsFormAChain` (`ExecutionOrderEffects`) | `Spec => []TransitionChain` | `~AgendaOverlaps` |
| `OutboxVersionsIncrease` | `Spec => []ProjectionVersionsIncrease` | `~AgendaOverlaps` |
| `KeysApplyOnce` | `Spec => []OneEffectPerKey` | `ExpiringKeys = {}` |
| `ReversalsAreExclusive` | `Spec => []OneLiveReversal` | the named ASSUMEs |
| `NotExecutedIsClean` | `Spec => []NotExecutedLeavesNoEquipment` | `~AgendaOverlaps` |
| `PipelineTypes` (`EventPipelineProofs`) | `Spec => []TypeOK` | the named ASSUMEs |
| `PipelineImplementsFeed` | `Spec => ImplementsFeed` | the named ASSUMEs |
| `EventsAreNotLost` | `Spec => []NoEventLost` | none of "dlq_unreachable", "record_error", "slow_mark" in `Faults` |
| `ProjectionsConverge` | `Spec => []Convergence` | every history of `Plans` is `Concluded` |
| `SagaTypes` (`InventorySagaProofs`) | `Spec => []TypeOK` | the named ASSUME |
| `LedgerMatchesReceipts` | `Spec => []ReceiptMatchesLedger` | the named ASSUME |
| `NoContradiction` | `Spec => []AnswersAgree` | the named ASSUME |
| `SagaImplementsDecision` | `Spec => ImplementsDecision` | the named ASSUME |
| `EvidenceTypes` (`EvidenceProofs`) | `Spec => []TypeOK` | the named ASSUME |
| `UnusableStaysUnusable` | `Spec => UnusableIsFinal` | the named ASSUME |
| `StoreAgreesWithRows` | `Spec => []ObjectsHaveRows` | `~UnclearPut` |
| `EvidenceIsKept` | `Spec => []EvidenceKeepsAsset` | `~Overlap` |
| `BillingTypes` (`BillingProofs`) | `Spec => []TypeOK` | the named ASSUME |
| `OnlyLiveRowsAreAllocated` (`BillingSafety`) | `Spec => []AllocationsAreLive` | the named ASSUME |
| `NothingIsOverpaid` | `Spec => []NoOverpayment` | finitely many payments |
| `NumbersAreConsecutive` | `Spec => []ConsecutiveNumbers` | the named ASSUME |
| `SignalsAgree` | `Spec => []SignalIsDerived` | finitely many payments, positive totals |

*Types of the order.* `TypeOK` is not inductive: a commit writes the receipt of `key[s]` for
`req[s]`, so the invariant also needs that a request in flight is a command and carries a
key exactly when its command takes one (`SessionOK`). `TypeInv` is both.

*Optimistic control.* `Inv == TypeInv /\ SnapshotIsCurrent /\ CheckedOK`. `SnapshotIsCurrent`
says that equal versions mean equal rows; it is what allows `UPDATE ... WHERE version = v`
to stand for "nothing I read has changed". `CheckedOK` remembers that an open session passed
its status check on what it read. Then a commit that succeeds had read the present row
(`CommitRow`), raises the version by one, and its check holds for the row it overwrites; so
a terminal row is reached only by a reversal, which does not write the row, or a follow-up,
which writes the version and is refused on an annulled order. The assumption
`~AgendaOverlaps` cannot be dropped: `agenda_overwrites_close` refutes `TerminalIsFinal` without
it, and the same step breaks the other two.

*What commands leave behind.* Four arguments; TLC checked the inductive invariants on `order_equipment`
first. Every step appends at most one seat, from the status of the row to its new one, and at most one
event, which carries the version the row just got or is about a reversal (`HistoryStep`, from `Inv`):
seats chain and projection versions grow. `EffectInv` adds to `OneEffectPerKey` that an open session's
key has no receipt and no second session (`LocksHeld`, from the advisory lock) and that every event of a
key has its receipt (`ReceiptsCover`); the last part is what expiry destroys, hence `ExpiringKeys = {}`.
`ReversalInv` says that what a reversal checked under the usage's row lock still holds when it inserts
(`ReversalsChecked`); it does not depend on the order's version, so it needs no assumption.
`EquipmentInv` adds to `Inv` that a NOT_EXECUTED close whose snapshot is still the current version has seen
every installed unit (`ClosesChecked`): registering a usage raises the version, so it invalidates the close.
A confirmed reversal only removes equipment and an answer never installs any.

*Refinement.* `PipelineInv == TypeOK /\ WaitingOK /\ InboxOK`. An inbox row holds the version
of its event (`InboxOK`), so the consumer's gate over inbox rows is the abstract gate over
applied events; a waiting job has attempts left (`WaitingOK`), so its counter keeps its type.
The mapping takes `applied` to the events of the inbox; only `appendOutbox` and `process`
change an abstract variable, every other step is a stutter. No fault is excluded.

*No event is lost.* `NoEventLost` is not inductive: a relay that marks a row must know that its job exists.
`KeptInv` says that the event is in a queue, recorded or decided already when a relay is about to mark
its row. A redriven row that a slow relay marks breaks it, as does an exhausted job that reaches
no dead-letter queue or whose diagnostic is not stored; these are the faults the theorem excludes, and
TLC refutes `NoEventLost` with each of them.

*Convergence.* The last event of a history has the final word if its handler overwrites whatever the
earlier ones leave, and if the gate cannot drop it. `Concluded` says when: it is the close, or the follow-up of
an executed order, and its version is above every other one's. `ConvergenceInv` says that the log is a
prefix of the history (`LogIsPrefix`) and that until the last event is applied the projections are ones it
overwrites and it is not overtaken, and afterwards they are final (`LastDecides`): only an
event that passes the gate without a version comes later, and it moves no projection. Applying the
events in order passes through the same two stages (`FoldIsEarly`), and the final state is one (`FinalIsOne`).
Duplicates, retries, redrives and every fault are covered. The theorem says nothing of histories that are
not concluded, among them the two of section 3 for which `Convergence` fails.

*Saga.* `SagaInv` adds to `TypeOK`, `ReceiptMatchesLedger` and `AnswersAgree` that only requests the order
has made are on their way or decided (`OnlyAsked`), that a worker which is about to answer has seen
a receipt (`AnswersHaveReceipt`), and that a confirmed reversal has marked the movement it undid
(`ReversedIsMarked`). The first is needed because the abstract decision takes only what was asked,
the second because `enqueueResponse` reads the receipt again, the third because it is the mark, not the
receipt, that stops a second reversal. In the refinement `decision` is the receipts, `told` the rows that are
no longer PENDING; `Confirm`, `persistRejectedReceipt`, `applyAnswer` and the two commands are the only
steps that are not stutters, and a repeated or late answer is one because the row is no longer PENDING.

*Evidence.* `StorageInv` says how far an upload must have come for Media to hold what it holds
(`UploadInv`), that only available assets are claimed and available assets are stored (`StoreInv`), and
that the last phase of the job only touches expired assets (`ObjectsInv`); it needs no assumption, and
`UnusableIsFinal` follows from it: an upload in progress has no row or a QUARANTINED one, and only expired
rows are marked deleted. `ObjectsHaveRows` is inductive beside `StorageInv` (`RowsStep`) if a failed upload
leaves the store as it was, which is `~UnclearPut` and cannot be dropped.
`ClaimInv` adds the order's row lock (`OneWriter`), that a registration which holds a claim has the only one of an
asset without evidence (`RegisterInv`) and that what the job is about to release has no evidence, committed or coming (`ClaimsInv`).
The last part is where `~Overlap` enters, and `evidence_released` shows it cannot be dropped.

*Billing.* `LockInv` says that every uncommitted write is covered by a lock its transaction holds and
follows the committed value (`DocumentsOwned`, `PaymentsOwned`), that locks are exclusive and that a period has
one live document. `AllocInv` adds that a new amount holds both rows and that what a transaction voids
it has reversed, but for the statement to come. `AmountInv` adds that neither the committed allocations nor
those any open transaction would commit exceed a total or an amount (`Within`): the transaction that adds
holds the document's and the payment's locks, so it has summed the rows its commit will find. `NumberInv` adds that the holder of the number's lock sees
consecutive numbers, its own included. `SignalInv` adds that every write which can change a period's
signal is followed by its recalculation or is the issue of a document, which locks the period
(`WritesDue`), and that what has been recalculated is still right under the period's lock
(`SignalsSeen`). Issuing without credit recalculates nothing: the signal stays FALSE and is right only if the
new document is not covered by an empty sum, hence the positive totals.

*Sums and folds.* The library's induction theorems take an operator as a parameter, which the
provers cannot instantiate. `FiniteInduction` replaces them by smallest counterexamples: a nonempty set of
subsets of a finite set has a minimal member (`MinimalSubset`), a nonempty set of naturals a least one
(`LeastNat`). From these follow that the iteration behind `SumFunction` exists, that sums are
naturals, grow with their terms and change by the term that changes (`SumNat`, `SumMonotone`, `SumAdd`,
`SumZero`), and, in `EventPipelineProofs`, that the fold over a history exists (`FoldExists`).

Only model-checked: the liveness properties `EventuallyDecided`, `EventuallyAnswered` and
`OrphansAreRemoved`, since liveness under fairness and ENABLED are out of the prover's reach. Every
invariant and action property of a passing run is stated by a theorem.

## 5. Abstractions and what is not modelled

- Payloads, actors, scopes, dates, telemetry and wording are left out; a payload is the
  member of a small set that its checks tell apart.
- The closure gate, signatures, provisioning and scope checks appear as `Rollback`.
- Two unique indexes that back up a lock are left out of `ExecutionOrder`: the one on live reversals
  (migration 140) and the one on receipts per key and operation. The model allows what they would refuse,
  so the runs and the proofs show that `FOR UPDATE` and the advisory lock suffice without them.
- `correctStatusTransition` (no HTTP surface) is not modelled, nor is EN_ROUTE, which no command sets.
- The pipeline has one order and one consumer with BullMQ's default concurrency; replicas of
  the worker and BullMQ's stalled jobs are not modelled. Forwarding to the inventory
  and network queues is an acknowledged event there; the inventory's is `InventorySaga`'s.
- The task board's own commands are not modelled: the linked task starts SCHEDULED (or there
  is none) and only the close and the consumer move it.
- `ConvergenceMatrix` has the statuses that the modelled histories reach: RESCHEDULED and NO_SHOW in the
  calendar's guard and CANCELLED, REJECTED and EXPIRED in the visit's are set by commands of the agenda and
  the visits, which are not modelled.
- The agenda's and the visit's own state machines are represented by the calls they make.
- Saga: one item in one custody, one unit per usage; signatures, payload checks and tenants are a
  failed attempt. The processor's request and the consumer's answer are delivered at least once, in
  any order. The purge of old inbox rows and receipts is not modelled.
- Evidence: one order; a replayed idempotency key repeats an answer and is left out. A claim whose tenant schema is gone or
  whose reference is malformed is not modelled.
- Billing: amounts are small integers (the code computes in cents); dates, proration, taxes and policies
  are constants; a draft with a blocking reason is a `Rollback`; the number's and the subscriber's locks are
  taken in one step; `UNIQUE (tenant_id, number)` and the retry on a number conflict are left out: under the advisory lock
  they are never needed, and `NumbersAreConsecutive` shows the lock alone suffices; the events
  `paid` and `reopened` are published after the commit and left out.

### Not modelled

The repository has close to 400 000 lines of implementation, of which the map covers a few thousand. Most of the
rest is user interface (`apps/portal`, `apps/web`), generated or declarative code (DTOs, entities, API clients,
migrations), scripts, and record keeping without concurrency beyond one row; a model of it would restate
forms. What is left out of the parts with state of their own is listed, with the reason, under `components`:
the agenda's and the visits' state machines, network provisioning, assurance tickets, tenant provisioning,
sessions, and the CRM's contracts and dossiers.

## 6. Plan

Done, in this order: `ExecutionOrder` with its proofs, `ConvergenceMatrix`, `OperationalProjection`,
`EventPipeline` with its proofs, `InventoryDecision`, `InventorySaga`, `Evidence` and `Billing` with theirs.
Next:

1. A composition of `ExecutionOrder` and `EventPipeline`, so that histories come from
   concurrent commands; an instance with two consumers.
2. `Agenda`: visits and agenda events, with expiry and the cancellation that calls the service.
3. Tenant provisioning and purge, as a crash-recovery module; the network's consumer.
