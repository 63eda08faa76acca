------------------------- MODULE InventorySagaProofs -------------------------
(***************************************************************************)
(* Proofs about InventorySaga, for any requests, workers and bounds: the   *)
(* ledger agrees with the receipts, no answer contradicts another, and the *)
(* saga implements one decision per request.                               *)
(***************************************************************************)
EXTENDS InventorySaga, TLAPS

\* Only what the order asked for is on its way or decided.
OnlyAsked ==
  /\ \A e \in events : row[e[1]] # "ABSENT"
  /\ \A e \in Event : jobs[e] # "none" => row[e[1]] # "ABSENT"
  /\ \A w \in Worker : worker[w] # Idle => row[worker[w].job[1]] # "ABSENT"
  /\ \A r \in Request : receipts[r] # "NONE" => row[r] # "ABSENT"

\* A worker that is about to answer has seen a receipt.
AnswersHaveReceipt ==
  \A w \in Worker :
    worker[w].pc = "answering" => receipts[worker[w].job[1]] # "NONE"

\* A confirmed reversal marks the movement it undid.
ReversedIsMarked ==
  \A v \in Reversals : receipts[v] = "CONFIRMED" => Target[v] \in reversedBy

SagaInv ==
  /\ TypeOK
  /\ ReceiptMatchesLedger
  /\ AnswersAgree
  /\ OnlyAsked
  /\ AnswersHaveReceipt
  /\ ReversedIsMarked

-----------------------------------------------------------------------------
(* Facts about single values *)

\* An event names a request.
LEMMA EventIs ==
  ASSUME NEW e \in Event
  PROVE  e[1] \in Request
BY DEF Event

\* The event of an attempt.
LEMMA AttemptIs ==
  ASSUME NEW r \in Request, NEW n \in 0 .. MaxAttempts
  PROVE  <<r, n>> \in Event /\ <<r, n>>[1] = r
BY DEF Event

\* A busy worker holds a job of the request queue.
LEMMA BusyIs ==
  ASSUME TypeOK, NEW w \in Worker, worker[w].pc # "idle"
  PROVE  /\ worker[w] # Idle
         /\ worker[w] \in [pc: {"deciding", "rejecting", "answering"}, job: Event]
         /\ worker[w].job \in Event
         /\ worker[w].job[1] \in Request
  <1>1. worker[w] \in {Idle} \cup [pc: {"deciding", "rejecting", "answering"}, job: Event]
    BY DEF TypeOK
  <1>2. worker[w] # Idle
    BY DEF Idle
  <1>3. worker[w].job \in Event
    BY <1>1, <1>2
  <1>4. QED
    BY <1>1, <1>2, <1>3, EventIs

\* A worker that is not idle has one of the three tasks.
LEMMA NotIdle ==
  ASSUME TypeOK, NEW w \in Worker, worker[w] # Idle
  PROVE  worker[w].pc # "idle"
BY DEF TypeOK

\* A reversal undoes a usage, and is none.
LEMMA TargetIs ==
  ASSUME NEW v \in Reversals
  PROVE  Target[v] \in Usages /\ Target[v] \in Request /\ v \notin Usages
BY SagaAssumption DEF Request

\* The initial states satisfy the invariant.
LEMMA InitSaga == Init => SagaInv
  <1> SUFFICES ASSUME Init PROVE SagaInv
    OBVIOUS
  <1>1. TypeOK
    BY SagaAssumption DEF Init, TypeOK
  <1>2. QED
    BY <1>1 DEF Init, SagaInv, ReceiptMatchesLedger, AnswersAgree, OnlyAsked,
                AnswersHaveReceipt, ReversedIsMarked, Idle, Outcome, Request

-----------------------------------------------------------------------------
(* Types *)

\* Commands, the consumer and the rescan keep the types.
LEMMA OrderTypes ==
  ASSUME TypeOK, NEW r \in Request
  PROVE  /\ Ask(r) => TypeOK'
         /\ rescanTenant(r) => TypeOK'
         /\ applyAnswer(r) \/ applyAnswerFails(r) \/ AnswerExpires(r) => TypeOK'
  <1>1. ASSUME Ask(r) PROVE TypeOK'
    <2>1. <<r, 0>> \in Event
      BY SagaAssumption, AttemptIs
    <2>2. QED
      BY <1>1, <2>1 DEF Ask, TypeOK, ledger, world
  <1>2. ASSUME rescanTenant(r) PROVE TypeOK'
    <2>1. attempts[r] + 1 \in 0 .. MaxAttempts
      BY <1>2, SagaAssumption DEF rescanTenant, TypeOK
    <2>2. <<r, attempts[r] + 1>> \in Event
      BY <2>1, AttemptIs
    <2>3. QED
      BY <1>2, <2>1, <2>2 DEF rescanTenant, TypeOK, ledger, world
  <1>3. ASSUME applyAnswer(r) PROVE TypeOK'
    BY <1>3 DEF applyAnswer, TypeOK, ledger, world, Outcome
  <1>4. ASSUME applyAnswerFails(r) PROVE TypeOK'
    BY <1>4, SagaAssumption
    DEF applyAnswerFails, Remains, TypeOK, order, ledger, world, Outcome
  <1>5. ASSUME AnswerExpires(r) PROVE TypeOK'
    BY <1>5 DEF AnswerExpires, TypeOK, order, ledger, world
  <1>6. QED
    BY <1>1, <1>2, <1>3, <1>4, <1>5

\* Forwarding keeps the types.
LEMMA ForwardTypes ==
  ASSUME TypeOK, NEW e \in Event, Forward(e) \/ ForwardFails(e)
  PROVE  TypeOK'
  <1>1. Enqueued(e) \in [Event -> {"none", "queued", "active", "failed"}]
    BY DEF Enqueued, TypeOK
  <1>2. CASE Forward(e)
    BY <1>1, <1>2 DEF Forward, TypeOK, ledger, world
  <1>3. CASE ForwardFails(e)
    BY <1>1, <1>3, SagaAssumption DEF ForwardFails, TypeOK, ledger, world
  <1>4. QED
    BY <1>2, <1>3

\* A worker that goes on, or leaves its job, keeps the types of both.
LEMMA WorkerTypes ==
  ASSUME TypeOK, NEW w \in Worker
  PROVE  /\ \A e \in Event : \A pc \in {"deciding", "rejecting", "answering"} :
              Goes(w, pc, e) =>
                worker' \in [Worker -> {Idle} \cup
                  [pc: {"deciding", "rejecting", "answering"}, job: Event]]
         /\ \A state \in {"none", "queued", "failed"} :
              worker[w].job \in Event /\ Leaves(w, state) =>
                /\ worker' \in [Worker -> {Idle} \cup
                     [pc: {"deciding", "rejecting", "answering"}, job: Event]]
                /\ jobs' \in [Event -> {"none", "queued", "active", "failed"}]
BY DEF TypeOK, Goes, Leaves

\* The inventory's steps keep the types.
LEMMA InventoryTypes ==
  ASSUME TypeOK, AnswersHaveReceipt, NEW w \in Worker
  PROVE  /\ \A e \in Event : Take(w, e) => TypeOK'
         /\ Confirm(w) \/ Refuse(w) \/ persistRejectedReceipt(w) => TypeOK'
         /\ ReceiptConflict(w) \/ enqueueResponse(w) \/ Fails(w) => TypeOK'
  <1>1. ASSUME NEW e \in Event, Take(w, e) PROVE TypeOK'
    <2>1. worker' \in [Worker -> {Idle} \cup
            [pc: {"deciding", "rejecting", "answering"}, job: Event]]
      BY <1>1, WorkerTypes DEF Take
    <2>2. QED
      BY <1>1, <2>1 DEF Take, TypeOK, order, ledger, world
  <1>2. ASSUME Confirm(w) PROVE TypeOK'
    <2> DEFINE r == worker[w].job[1]
    <2>1. worker[w].job \in Event /\ r \in Request
      BY <1>2, BusyIs DEF Confirm
    <2>2. worker' \in [Worker -> {Idle} \cup
            [pc: {"deciding", "rejecting", "answering"}, job: Event]]
      BY <1>2, <2>1, WorkerTypes DEF Confirm
    <2>3. moves' \in [Request -> Nat] /\ stock' \in Nat
      BY <1>2, <2>1 DEF Confirm, Moved, Admits, TypeOK
    <2>4. reversedBy' \in SUBSET Usages
      BY <1>2, <2>1, TargetIs DEF Confirm, TypeOK, Request
    <2>5. QED
      BY <1>2, <2>1, <2>2, <2>3, <2>4 DEF Confirm, TypeOK, order, world, Outcome
  <1>3. ASSUME Refuse(w) PROVE TypeOK'
    <2>1. worker[w].job \in Event
      BY <1>3, BusyIs DEF Refuse
    <2>2. worker' \in [Worker -> {Idle} \cup
            [pc: {"deciding", "rejecting", "answering"}, job: Event]]
      BY <1>3, <2>1, WorkerTypes DEF Refuse
    <2>3. QED
      BY <1>3, <2>2 DEF Refuse, TypeOK, order, ledger, world
  <1>4. ASSUME persistRejectedReceipt(w) PROVE TypeOK'
    <2>1. worker[w].job \in Event /\ worker[w].job[1] \in Request
      BY <1>4, BusyIs DEF persistRejectedReceipt
    <2>2. worker' \in [Worker -> {Idle} \cup
            [pc: {"deciding", "rejecting", "answering"}, job: Event]]
      BY <1>4, <2>1, WorkerTypes DEF persistRejectedReceipt
    <2>3. QED
      BY <1>4, <2>1, <2>2 DEF persistRejectedReceipt, TypeOK, order, world, Outcome
  <1>5. ASSUME ReceiptConflict(w) PROVE TypeOK'
    <2>1. worker[w].job \in Event
      BY <1>5, BusyIs DEF ReceiptConflict
    <2>2. QED
      BY <1>5, <2>1, WorkerTypes DEF ReceiptConflict, TypeOK, order, ledger, world
  <1>6. ASSUME enqueueResponse(w) PROVE TypeOK'
    <2>1. worker[w].job \in Event /\ worker[w].job[1] \in Request
      BY <1>6, BusyIs DEF enqueueResponse
    <2>2. answers' \in [Request -> {"none", "failed"} \cup Outcome]
      BY <1>6, <2>1 DEF enqueueResponse, TypeOK, AnswersHaveReceipt
    <2>3. QED
      BY <1>6, <2>1, <2>2, WorkerTypes
      DEF enqueueResponse, TypeOK, order, ledger, world
  <1>7. ASSUME Fails(w) PROVE TypeOK'
    <2>1. worker[w].job \in Event
      BY <1>7, BusyIs, NotIdle DEF Fails
    <2>2. PICK left \in {"none", "queued", "failed"} : Leaves(w, left)
      BY <1>7 DEF Fails, Remains
    <2>3. failures' \in 0 .. MaxFailures
      BY <1>7, SagaAssumption DEF Fails, TypeOK
    <2>4. QED
      BY <1>7, <2>1, <2>2, <2>3, WorkerTypes DEF Fails, TypeOK, order, ledger, world
  <1>8. QED
    BY <1>1, <1>2, <1>3, <1>4, <1>5, <1>6, <1>7
\* Other operations on the stock keep the types.
LEMMA WorldTypes == TypeOK /\ World => TypeOK'
  <1> SUFFICES ASSUME TypeOK, World PROVE TypeOK'
    OBVIOUS
  <1>1. CASE Restock
    BY <1>1, SagaAssumption DEF Restock, TypeOK, order, world
  <1>2. CASE ToggleCustody
    BY <1>2 DEF ToggleCustody, TypeOK, order, ledger
  <1>3. CASE \E u \in Usages : Displace(u)
    BY <1>3 DEF Displace, TypeOK, order, ledger
  <1>4. QED
    BY <1>1, <1>2, <1>3 DEF World

-----------------------------------------------------------------------------
(* The invariant *)

\* A step that leaves receipts, movements and workers alone keeps the parts
\* of the invariant that speak of them.
LEMMA LedgerKept ==
  ASSUME SagaInv, UNCHANGED <<receipts, moves, reversedBy, worker>>
  PROVE  ReceiptMatchesLedger' /\ AnswersHaveReceipt' /\ ReversedIsMarked'
BY DEF SagaInv, ReceiptMatchesLedger, AnswersHaveReceipt, ReversedIsMarked

\* The order's side keeps the invariant.
LEMMA OrderKeeps ==
  ASSUME SagaInv, NEW r \in Request
  PROVE  /\ Ask(r) => SagaInv'
         /\ rescanTenant(r) => SagaInv'
         /\ applyAnswer(r) => SagaInv'
         /\ applyAnswerFails(r) => SagaInv'
         /\ AnswerExpires(r) => SagaInv'
  <1> USE DEF SagaInv
  <1>1. ASSUME Ask(r) PROVE SagaInv'
    <2>1. TypeOK' /\ ReceiptMatchesLedger' /\ AnswersHaveReceipt' /\ ReversedIsMarked'
      BY <1>1, OrderTypes, LedgerKept DEF Ask, ledger
    <2>2. \A q \in Request : row'[q] = IF q = r THEN "PENDING" ELSE row[q]
      BY <1>1 DEF Ask, TypeOK
    <2>3. AnswersAgree'
      BY <1>1, <2>2 DEF Ask, AnswersAgree, ledger, Outcome
    <2>4. \A e \in events' : row'[e[1]] # "ABSENT"
      BY <1>1, <2>2, EventIs DEF Ask, OnlyAsked, TypeOK
    <2>5. \A e \in Event : jobs'[e] # "none" => row'[e[1]] # "ABSENT"
      BY <1>1, <2>2, EventIs DEF Ask, OnlyAsked
    <2>6. \A w \in Worker : worker'[w] # Idle => row'[worker'[w].job[1]] # "ABSENT"
      BY <1>1, <2>2, BusyIs, NotIdle DEF Ask, OnlyAsked
    <2>7. QED
      BY <1>1, <2>1, <2>2, <2>3, <2>4, <2>5, <2>6 DEF Ask, OnlyAsked, ledger
  <1>2. ASSUME rescanTenant(r) PROVE SagaInv'
    <2>1. TypeOK' /\ ReceiptMatchesLedger' /\ AnswersHaveReceipt' /\ ReversedIsMarked'
      BY <1>2, OrderTypes, LedgerKept DEF rescanTenant, ledger
    <2>2. QED
      BY <1>2, <2>1 DEF rescanTenant, AnswersAgree, OnlyAsked, ledger
  <1>3. ASSUME applyAnswer(r) PROVE SagaInv'
    <2>1. TypeOK' /\ ReceiptMatchesLedger' /\ AnswersHaveReceipt' /\ ReversedIsMarked'
      BY <1>3, OrderTypes, LedgerKept DEF applyAnswer, ledger
    <2>2. AnswersAgree'
      BY <1>3 DEF applyAnswer, AnswersAgree, TypeOK, ledger, Outcome
    <2>3. \A q \in Request : row[q] # "ABSENT" => row'[q] # "ABSENT"
      BY <1>3 DEF applyAnswer, TypeOK, Outcome
    <2>4. OnlyAsked'
      BY <1>3, <2>3, EventIs, BusyIs, NotIdle
      DEF applyAnswer, OnlyAsked, TypeOK, ledger
    <2>5. QED
      BY <2>1, <2>2, <2>4
  <1>4. ASSUME applyAnswerFails(r) PROVE SagaInv'
    <2>1. TypeOK' /\ ReceiptMatchesLedger' /\ AnswersHaveReceipt' /\ ReversedIsMarked'
      BY <1>4, OrderTypes, LedgerKept DEF applyAnswerFails, ledger
    <2>2. AnswersAgree'
      BY <1>4 DEF applyAnswerFails, Remains, AnswersAgree, TypeOK, order, ledger, Outcome
    <2>3. QED
      BY <1>4, <2>1, <2>2 DEF applyAnswerFails, OnlyAsked, order, ledger
  <1>5. ASSUME AnswerExpires(r) PROVE SagaInv'
    <2>1. TypeOK' /\ ReceiptMatchesLedger' /\ AnswersHaveReceipt' /\ ReversedIsMarked'
      BY <1>5, OrderTypes, LedgerKept DEF AnswerExpires, ledger
    <2>2. AnswersAgree'
      BY <1>5 DEF AnswerExpires, AnswersAgree, TypeOK, order, ledger, Outcome
    <2>3. QED
      BY <1>5, <2>1, <2>2 DEF AnswerExpires, OnlyAsked, order, ledger
  <1>6. QED
    BY <1>1, <1>2, <1>3, <1>4, <1>5

\* Forwarding keeps the invariant, whether its transaction commits or not.
LEMMA ForwardKeeps ==
  ASSUME SagaInv, NEW e \in Event, Forward(e) \/ ForwardFails(e)
  PROVE  SagaInv'
  <1>1. TypeOK' /\ ReceiptMatchesLedger' /\ AnswersHaveReceipt' /\ ReversedIsMarked'
    BY ForwardTypes, LedgerKept DEF SagaInv, Forward, ForwardFails, ledger
  <1>2. events' \subseteq events /\ e \in events /\ jobs' \in {jobs, Enqueued(e)}
    BY DEF Forward, ForwardFails
  <1>3. \A f \in Event : jobs'[f] # "none" => jobs[f] # "none" \/ f = e
    BY <1>2 DEF SagaInv, TypeOK, Enqueued
  <1>4. OnlyAsked'
    BY <1>2, <1>3 DEF SagaInv, OnlyAsked, Forward, ForwardFails, ledger
  <1>5. QED
    BY <1>1, <1>4 DEF SagaInv, AnswersAgree, Forward, ForwardFails, ledger

\* Where a worker stands after it has gone on or has left.
LEMMA WorkerIs ==
  ASSUME TypeOK, NEW w \in Worker
  PROVE  /\ \A e \in Event : \A pc \in {"deciding", "rejecting", "answering"} :
              Goes(w, pc, e) => \A x \in Worker :
                worker'[x] = IF x = w THEN [pc |-> pc, job |-> e] ELSE worker[x]
         /\ \A state : Leaves(w, state) =>
              /\ \A x \in Worker : worker'[x] = IF x = w THEN Idle ELSE worker[x]
              /\ \A f \in Event : jobs'[f] = IF f = worker[w].job THEN state ELSE jobs[f]
BY DEF TypeOK, Goes, Leaves

\* A worker that leaves keeps what is known of workers and jobs.
LEMMA LeavingKeeps ==
  ASSUME SagaInv, NEW w \in Worker, NEW state, Leaves(w, state),
         worker[w] # Idle, UNCHANGED <<order, receipts>>
  PROVE  OnlyAsked' /\ AnswersHaveReceipt'
  <1>1. \A x \in Worker : worker'[x] = IF x = w THEN Idle ELSE worker[x]
    BY WorkerIs DEF SagaInv
  <1>2. \A f \in Event : jobs'[f] = IF f = worker[w].job THEN state ELSE jobs[f]
    BY WorkerIs DEF SagaInv
  <1>3. Idle.pc # "answering"
    BY DEF Idle
  <1>4. QED
    BY <1>1, <1>2, <1>3 DEF SagaInv, OnlyAsked, AnswersHaveReceipt, order
\* Other operations on the stock keep the invariant.
LEMMA WorldKeeps == SagaInv /\ World => SagaInv'
  <1> SUFFICES ASSUME SagaInv, World PROVE SagaInv'
    OBVIOUS
  <1>1. UNCHANGED <<order, jobs, worker, receipts, moves, reversedBy, answers>>
    BY DEF World, Restock, ToggleCustody, Displace, ledger
  <1>2. TypeOK' /\ ReceiptMatchesLedger' /\ AnswersHaveReceipt' /\ ReversedIsMarked'
    BY <1>1, WorldTypes, LedgerKept DEF SagaInv
  <1>3. QED
    BY <1>1, <1>2 DEF SagaInv, AnswersAgree, OnlyAsked, order

\* Taking a job keeps the invariant.
LEMMA TakeKeeps ==
  ASSUME SagaInv, NEW w \in Worker, NEW e \in Event, Take(w, e)
  PROVE  SagaInv'
  <1>1. TypeOK'
    BY InventoryTypes DEF SagaInv
  <1>2. PICK pc \in {"deciding", "rejecting", "answering"} :
          Goes(w, pc, e) /\ (pc = "answering" => receipts[e[1]] # "NONE")
    BY DEF Take
  <1>3. \A x \in Worker : worker'[x] = IF x = w THEN [pc |-> pc, job |-> e] ELSE worker[x]
    BY <1>2 DEF SagaInv, TypeOK, Goes
  <1>4. UNCHANGED <<order, ledger, answers>> /\ row[e[1]] # "ABSENT"
    BY DEF Take, SagaInv, OnlyAsked
  <1>5. \A f \in Event : jobs'[f] # "none" => jobs[f] # "none"
    BY DEF Take, SagaInv, TypeOK
  <1>6. AnswersHaveReceipt'
    BY <1>2, <1>3, <1>4 DEF SagaInv, AnswersHaveReceipt, ledger
  <1>7. OnlyAsked'
    BY <1>3, <1>4, <1>5 DEF SagaInv, OnlyAsked, order, ledger
  <1>8. QED
    BY <1>1, <1>4, <1>6, <1>7
    DEF SagaInv, ReceiptMatchesLedger, AnswersAgree, ReversedIsMarked, order, ledger

\* Deciding a request that has no receipt keeps the invariant.
LEMMA DecisionKeeps ==
  ASSUME SagaInv, NEW w \in Worker, NEW outcome \in Outcome,
         worker[w].pc \in {"deciding", "rejecting"},
         receipts[worker[w].job[1]] = "NONE",
         receipts' = [receipts EXCEPT ![worker[w].job[1]] = outcome],
         Goes(w, "answering", worker[w].job),
         UNCHANGED <<order, jobs, answers>>
  PROVE  AnswersAgree' /\ OnlyAsked' /\ AnswersHaveReceipt'
  <1> DEFINE r == worker[w].job[1]
  <1>1. worker[w] # Idle /\ worker[w].job \in Event /\ r \in Request
    BY BusyIs DEF SagaInv
  <1>2. row[r] # "ABSENT" /\ row[r] \notin Outcome /\ answers[r] \notin Outcome
    BY <1>1 DEF SagaInv, OnlyAsked, AnswersAgree, Outcome
  <1>3. \A q \in Request : receipts'[q] = IF q = r THEN outcome ELSE receipts[q]
    BY <1>1 DEF SagaInv, TypeOK
  <1>4. \A x \in Worker : worker'[x] =
          IF x = w THEN [pc |-> "answering", job |-> worker[w].job] ELSE worker[x]
    BY <1>1, WorkerIs DEF SagaInv
  <1>5. AnswersAgree'
    BY <1>2, <1>3 DEF SagaInv, AnswersAgree, order
  <1>6. OnlyAsked'
    BY <1>1, <1>2, <1>3, <1>4 DEF SagaInv, OnlyAsked, order
  <1>7. AnswersHaveReceipt'
    <2> SUFFICES ASSUME NEW x \in Worker, worker'[x].pc = "answering"
                 PROVE  receipts'[worker'[x].job[1]] # "NONE"
      BY DEF AnswersHaveReceipt
    <2>1. CASE x = w
      BY <1>1, <1>3, <1>4, <2>1 DEF Outcome
    <2>2. CASE x # w
      <3>1. worker'[x] = worker[x] /\ worker[x].job[1] \in Request
        BY <1>4, <2>2, BusyIs DEF SagaInv
      <3>2. QED
        BY <1>3, <3>1 DEF SagaInv, AnswersHaveReceipt, Outcome
    <2>3. QED
      BY <2>1, <2>2
  <1>8. QED
    BY <1>5, <1>6, <1>7

\* The movement and its receipt keep the ledger and the receipts in step.
LEMMA ConfirmKeeps ==
  ASSUME SagaInv, NEW w \in Worker, Confirm(w)
  PROVE  SagaInv'
  <1> DEFINE r == worker[w].job[1]
  <1>1. r \in Request /\ worker[w].pc = "deciding"
    BY BusyIs DEF SagaInv, Confirm
  <1>2. TypeOK'
    BY InventoryTypes DEF SagaInv
  <1>3. moves[r] = 0
    BY <1>1 DEF SagaInv, ReceiptMatchesLedger, Confirm
  <1>4. moves' = [moves EXCEPT ![r] = 1] /\ receipts' = [receipts EXCEPT ![r] = "CONFIRMED"]
    BY <1>3 DEF Confirm, Moved
  <1>5. ReceiptMatchesLedger'
    BY <1>1, <1>4 DEF SagaInv, TypeOK, ReceiptMatchesLedger
  <1>6. ReversedIsMarked'
    BY <1>1, <1>4, TargetIs DEF SagaInv, TypeOK, ReversedIsMarked, Confirm, Request
  <1>7. AnswersAgree' /\ OnlyAsked' /\ AnswersHaveReceipt'
    BY <1>1, DecisionKeeps DEF Confirm, Outcome
  <1>8. QED
    BY <1>2, <1>5, <1>6, <1>7 DEF SagaInv

\* A rejection keeps the invariant.
LEMMA RejectKeeps ==
  ASSUME SagaInv, NEW w \in Worker, persistRejectedReceipt(w)
  PROVE  SagaInv'
  <1> DEFINE r == worker[w].job[1]
  <1>1. r \in Request /\ receipts' = [receipts EXCEPT ![r] = "REJECTED"]
    BY BusyIs DEF SagaInv, persistRejectedReceipt
  <1>2. TypeOK'
    BY InventoryTypes DEF SagaInv
  <1>3. ReceiptMatchesLedger' /\ ReversedIsMarked'
    BY <1>1, TargetIs
    DEF SagaInv, TypeOK, ReceiptMatchesLedger, ReversedIsMarked, persistRejectedReceipt,
        Request
  <1>4. AnswersAgree' /\ OnlyAsked' /\ AnswersHaveReceipt'
    BY DecisionKeeps DEF persistRejectedReceipt, Outcome
  <1>5. QED
    BY <1>2, <1>3, <1>4 DEF SagaInv

\* The other steps of a worker keep the invariant.
LEMMA WorkerKeeps ==
  ASSUME SagaInv, NEW w \in Worker
  PROVE  /\ Refuse(w) => SagaInv'
         /\ ReceiptConflict(w) => SagaInv'
         /\ enqueueResponse(w) => SagaInv'
         /\ Fails(w) => SagaInv'
  <1> USE DEF SagaInv
  <1>1. ASSUME Refuse(w) PROVE SagaInv'
    <2>1. worker[w] # Idle /\ worker[w].job \in Event
      BY <1>1, BusyIs DEF Refuse
    <2>2. \A x \in Worker : worker'[x] =
            IF x = w THEN [pc |-> "rejecting", job |-> worker[w].job] ELSE worker[x]
      BY <1>1, <2>1, WorkerIs DEF Refuse
    <2>3. UNCHANGED <<order, jobs, ledger, answers>> /\ TypeOK'
      BY <1>1, InventoryTypes DEF Refuse
    <2>4. OnlyAsked' /\ AnswersHaveReceipt'
      BY <2>1, <2>2, <2>3 DEF OnlyAsked, AnswersHaveReceipt, order, ledger
    <2>5. QED
      BY <2>3, <2>4 DEF ReceiptMatchesLedger, AnswersAgree, ReversedIsMarked, order, ledger
  <1>2. ASSUME ReceiptConflict(w) PROVE SagaInv'
    <2>1. worker[w] # Idle
      BY <1>2, BusyIs DEF ReceiptConflict
    <2>2. UNCHANGED <<order, ledger, answers>> /\ Leaves(w, "queued") /\ TypeOK'
      BY <1>2, InventoryTypes DEF ReceiptConflict
    <2>3. OnlyAsked' /\ AnswersHaveReceipt'
      BY <2>1, <2>2, LeavingKeeps DEF ledger
    <2>4. QED
      BY <2>2, <2>3 DEF ReceiptMatchesLedger, AnswersAgree, ReversedIsMarked, order, ledger
  <1>3. ASSUME enqueueResponse(w) PROVE SagaInv'
    <2>1. worker[w] # Idle /\ worker[w].job[1] \in Request
      BY <1>3, BusyIs DEF enqueueResponse
    <2>2. UNCHANGED <<order, ledger>> /\ Leaves(w, "none") /\ TypeOK'
      BY <1>3, InventoryTypes DEF enqueueResponse
    <2>3. OnlyAsked' /\ AnswersHaveReceipt'
      BY <2>1, <2>2, LeavingKeeps DEF ledger
    <2>4. AnswersAgree'
      BY <1>3, <2>1, <2>2 DEF enqueueResponse, AnswersAgree, TypeOK, order, ledger
    <2>5. QED
      BY <2>2, <2>3, <2>4 DEF ReceiptMatchesLedger, ReversedIsMarked, ledger
  <1>4. ASSUME Fails(w) PROVE SagaInv'
    <2>1. PICK left : Leaves(w, left)
      BY <1>4 DEF Fails
    <2>2. UNCHANGED <<order, ledger, answers>> /\ worker[w] # Idle /\ TypeOK'
      BY <1>4, InventoryTypes DEF Fails
    <2>3. OnlyAsked' /\ AnswersHaveReceipt'
      BY <2>1, <2>2, LeavingKeeps DEF ledger
    <2>4. QED
      BY <2>2, <2>3 DEF ReceiptMatchesLedger, AnswersAgree, ReversedIsMarked, order, ledger
  <1>5. QED
    BY <1>1, <1>2, <1>3, <1>4

\* The invariant is inductive.
LEMMA NextSaga == SagaInv /\ [Next]_vars => SagaInv'
  <1> SUFFICES ASSUME SagaInv, [Next]_vars PROVE SagaInv'
    OBVIOUS
  <1>1. CASE Order
    BY <1>1, OrderKeeps DEF Order, RecordUsage, RequestReversal, Request
  <1>2. CASE Consumer
    BY <1>2, OrderKeeps, ForwardKeeps DEF Consumer
  <1>3. CASE Upkeep
    BY <1>3, OrderKeeps DEF Upkeep
  <1>4. CASE Inventory
    BY <1>4, TakeKeeps, ConfirmKeeps, RejectKeeps, WorkerKeeps DEF Inventory
  <1>5. CASE World
    BY <1>5, WorldKeeps
  <1>6. CASE UNCHANGED vars
    BY <1>6 DEF vars, order, ledger, world, SagaInv, TypeOK, ReceiptMatchesLedger,
                AnswersAgree, OnlyAsked, AnswersHaveReceipt, ReversedIsMarked
  <1>7. QED
    BY <1>1, <1>2, <1>3, <1>4, <1>5, <1>6 DEF Next

\* Rows, jobs, workers, receipts and the ledger keep their types.
THEOREM SagaTypes == Spec => []TypeOK
  <1>1. SagaInv => TypeOK
    BY DEF SagaInv
  <1>2. QED
    BY <1>1, InitSaga, NextSaga, PTL DEF Spec

\* However requests are repeated, rolled back, retried or raced, stock has
\* moved once for a request exactly when its receipt is CONFIRMED
\* (insertReceipt inside the ledger's transaction).
THEOREM LedgerMatchesReceipts == Spec => []ReceiptMatchesLedger
  <1>1. SagaInv => ReceiptMatchesLedger
    BY DEF SagaInv
  <1>2. QED
    BY <1>1, InitSaga, NextSaga, PTL DEF Spec

\* No answer on its way, and no decided row, contradicts the receipt
\* (enqueueResponse and the updates of PENDING rows).
THEOREM NoContradiction == Spec => []AnswersAgree
  <1>1. SagaInv => AnswersAgree
    BY DEF SagaInv
  <1>2. QED
    BY <1>1, InitSaga, NextSaga, PTL DEF Spec

-----------------------------------------------------------------------------
(* One decision per request *)

\* The order's side asks and learns.
LEMMA OrderRefines ==
  ASSUME SagaInv, NEW r \in Request
  PROVE  /\ RecordUsage(r) /\ r \in Usages => Decision!Ask(r)
         /\ r \in Reversals /\ RequestReversal(r) => Decision!Ask(r)
         /\ applyAnswer(r) => Decision!Tell(r) \/ UNCHANGED <<row, receipts, moves>>
  <1> DEFINE asked == {q \in Request : row[q] # "ABSENT"}
             told == [q \in Request |-> IF row[q] \in Outcome THEN row[q] ELSE "NONE"]
  <1> USE DEF SagaInv
  <1>1. ASSUME Ask(r) PROVE r \notin asked /\ asked' = asked \cup {r} /\ told' = told
    BY <1>1 DEF Ask, TypeOK, Outcome
  <1>2. ASSUME RecordUsage(r), r \in Usages PROVE Decision!Ask(r)
    BY <1>1, <1>2, SagaAssumption DEF RecordUsage, Ask, Decision!Ask, ledger, Outcome
  <1>3. ASSUME r \in Reversals, RequestReversal(r) PROVE Decision!Ask(r)
    <2>1. told[Target[r]] = "CONFIRMED"
      BY <1>3, TargetIs DEF RequestReversal, Outcome
    <2>2. QED
      BY <1>1, <1>3, <2>1 DEF RequestReversal, Ask, Decision!Ask, ledger
  <1>4. ASSUME applyAnswer(r), row[r] = "PENDING" PROVE Decision!Tell(r)
    <2>1. answers[r] = receipts[r] /\ receipts[r] \in Outcome
      BY <1>4 DEF applyAnswer, AnswersAgree
    <2>2. told' = [told EXCEPT ![r] = receipts[r]] /\ told[r] = "NONE" /\ asked' = asked
      BY <1>4, <2>1 DEF applyAnswer, TypeOK, Outcome
    <2>3. QED
      BY <1>4, <2>1, <2>2 DEF applyAnswer, Decision!Tell, ledger, Outcome
  <1>5. ASSUME applyAnswer(r), row[r] # "PENDING" PROVE UNCHANGED <<row, receipts, moves>>
    BY <1>5 DEF applyAnswer, TypeOK, ledger
  <1>6. QED
    BY <1>2, <1>3, <1>4, <1>5

\* The inventory's two decisions are the abstract ones.
LEMMA DecisionRefines ==
  ASSUME SagaInv, NEW w \in Worker, Confirm(w) \/ persistRejectedReceipt(w)
  PROVE  \E r \in Request : Decision!Confirm(r) \/ Decision!Reject(r)
  <1> DEFINE r == worker[w].job[1]
  <1> USE DEF SagaInv
  <1>1. r \in Request /\ row[r] # "ABSENT"
    BY BusyIs DEF Confirm, persistRejectedReceipt, OnlyAsked
  <1>2. CASE Confirm(w)
    <2>1. moves' = [moves EXCEPT ![r] = 1]
      BY <1>1, <1>2 DEF Confirm, Moved, ReceiptMatchesLedger
    <2>2. ASSUME r \in Reversals
          PROVE  /\ moves[Target[r]] = 1
                 /\ \A v \in Reversals : Target[v] = Target[r] => moves[v] = 0
      <3>1. moves[Target[r]] > 0 /\ Target[r] \notin reversedBy
        BY <1>2, <2>2, TargetIs DEF Confirm, Admits
      <3>2. moves[Target[r]] = 1
        BY <2>2, <3>1, TargetIs DEF ReceiptMatchesLedger
      <3>3. \A v \in Reversals : Target[v] = Target[r] => moves[v] = 0
        BY <3>1 DEF ReversedIsMarked, ReceiptMatchesLedger, Request
      <3>4. QED
        BY <3>2, <3>3
    <2>3. Decision!Confirm(r)
      BY <1>1, <1>2, <2>1, <2>2 DEF Confirm, Decision!Confirm, order
    <2>4. QED
      BY <1>1, <2>3
  <1>3. CASE persistRejectedReceipt(w)
    <2>1. Decision!Reject(r)
      BY <1>1, <1>3 DEF persistRejectedReceipt, Decision!Reject, order
    <2>2. QED
      BY <1>1, <2>1
  <1>4. QED
    BY <1>2, <1>3

\* Every step of the saga is a step of the decision or invisible to it.
LEMMA NextRefines == SagaInv /\ [Next]_vars => [Decision!Next]_(Decision!vars)
  <1> SUFFICES ASSUME SagaInv, [Next]_vars PROVE [Decision!Next]_(Decision!vars)
    OBVIOUS
  <1>1. ASSUME UNCHANGED <<row, receipts, moves>> PROVE UNCHANGED Decision!vars
    BY <1>1 DEF Decision!vars
  <1>2. CASE Order
    BY <1>2, OrderRefines DEF Order, Request, Decision!Next, Decision!Request
  <1>3. CASE Consumer
    <2>1. CASE \E r \in Request : applyAnswer(r)
      BY <1>1, <2>1, OrderRefines DEF Decision!Next, Decision!Request, Request
    <2>2. CASE UNCHANGED <<row, receipts, moves>>
      BY <1>1, <2>2
    <2>3. QED
      BY <1>3, <2>1, <2>2
      DEF Consumer, Forward, ForwardFails, applyAnswerFails, order, ledger
  <1>4. CASE Upkeep
    BY <1>1, <1>4 DEF Upkeep, rescanTenant, AnswerExpires, order, ledger
  <1>5. CASE Inventory
    <2>1. PICK w \in Worker :
            \/ \E e \in Event : Take(w, e)
            \/ Confirm(w) \/ Refuse(w) \/ persistRejectedReceipt(w)
            \/ ReceiptConflict(w) \/ enqueueResponse(w) \/ Fails(w)
      BY <1>5 DEF Inventory
    <2>2. CASE Confirm(w) \/ persistRejectedReceipt(w)
      BY <2>2, DecisionRefines DEF Decision!Next, Decision!Request, Request
    <2>3. CASE ~(Confirm(w) \/ persistRejectedReceipt(w))
      BY <1>1, <2>1, <2>3
      DEF Take, Refuse, ReceiptConflict, enqueueResponse, Fails, order, ledger
    <2>4. QED
      BY <2>2, <2>3
  <1>6. CASE World
    BY <1>1, <1>6 DEF World, Restock, ToggleCustody, Displace, order, ledger
  <1>7. CASE UNCHANGED vars
    BY <1>1, <1>7 DEF vars, order, ledger
  <1>8. QED
    BY <1>2, <1>3, <1>4, <1>5, <1>6, <1>7 DEF Next

\* The saga implements one decision per request: each is decided once, moves
\* stock exactly when it is confirmed, and the order learns that decision.
THEOREM SagaImplementsDecision == Spec => ImplementsDecision
  <1>1. Spec => []SagaInv
    BY InitSaga, NextSaga, PTL DEF Spec
  <1>2. Init => Decision!Init
    BY DEF Init, Decision!Init, Decision!Request, Request, Outcome
  <1>3. QED
    BY <1>1, <1>2, NextRefines, PTL DEF Spec, ImplementsDecision, Decision!Spec
=============================================================================
