---------------------------- MODULE EventPipeline ----------------------------
(***************************************************************************)
(* The way of an operational event from the outbox to the projections:     *)
(* the relay leases, enqueues and marks rows; BullMQ runs waiting jobs in  *)
(* turn and a failed one again after its backoff; the consumer applies it  *)
(* in one transaction behind the version gate and the inbox; an exhausted  *)
(* job goes to the DLQ, which records the error on the row, and an         *)
(* operator may redrive it.  One order, one consumer.                      *)
(***************************************************************************)
EXTENDS ConvergenceMatrix, FiniteSets

CONSTANTS Plans,        \* the event histories an order may emit
          Relays,       \* relay scans that may overlap
          MaxTries,     \* attempts of a job before it is exhausted (8)
          MaxAttempts,  \* bound: an outbox row is leased or redriven this often
          Faults        \* the faults this instance considers

ASSUME PlansAreHistories == Plans \subseteq Seq(Event)
ASSUME TriesBound == MaxTries \in Nat \ {0}
ASSUME AttemptsBound == MaxAttempts \in Nat \ {0}
ASSUME KnownFaults ==
  Faults \subseteq {"relay_crash", "enqueue_error", "mark_error",
                    "attempt_error", "fatal_error", "dlq_unreachable",
                    "record_error", "slow_mark"}

VARIABLES plan, log, proj,  \* as in OperationalProjection
          rows,     \* execution_order_outbox_events, one row per event
          batch,    \* what each relay has leased and not finished yet
          step,     \* what each relay does next to the head of its batch
          jobs,     \* jobs waiting in the events queue, first come first
          delayed,  \* jobs waiting for their backoff to end
          failed,   \* exhausted jobs whose failed listener has not run
          dlq,      \* diagnostics of exhausted jobs in the dead-letter queue
          inbox,    \* rows of consumer mod11-operation-projection
          skipped   \* events the version gate dropped (observation only)

relayVars == <<batch, step>>
queueVars == <<jobs, delayed, failed, dlq>>
consumerVars == <<inbox, skipped>>
vars == <<plan, log, proj, rows, relayVars, queueVars, consumerVars>>

-----------------------------------------------------------------------------
Events == DOMAIN log
Attempt == 1..MaxAttempts

Row == [published: BOOLEAN, lease: {"none", "held", "expired"},
        attempt: 0..MaxAttempts, error: BOOLEAN]
Leased == [event: Events, attempt: Attempt]
Job == [event: Events, attempt: Attempt, tries: 0..MaxTries]

TypeOK ==
  /\ plan \in Plans /\ log \in Seq(Event) /\ proj \in Projection
  /\ rows \in [Events -> Row]
  /\ batch \in [Relays -> Seq(Leased)]
  /\ step \in [Relays -> {"enqueue", "mark"}]
  /\ jobs \in Seq(Job) /\ delayed \subseteq Job /\ failed \subseteq Job
  /\ dlq \subseteq Job
  /\ inbox \subseteq [event: Events, version: Nat]
  /\ skipped \subseteq Events

Init ==
  /\ plan \in Plans
  /\ log = <<>>
  /\ proj \in [calendar: {"NONE", "SCHEDULED"}, visit: {"SCHEDULED"},
               task: {"NONE", "SCHEDULED"}]
  /\ rows = <<>>
  /\ batch = [r \in Relays |-> <<>>]
  /\ step = [r \in Relays |-> "enqueue"]
  /\ jobs = <<>> /\ delayed = {} /\ failed = {} /\ dlq = {}
  /\ inbox = {} /\ skipped = {}

\* appendOutbox, in the transaction of the command; close also transitions
\* the linked task there, and is refused if the task may not.
appendOutbox ==
  /\ Len(log) < Len(plan)
  /\ LET e == plan[Len(log) + 1]
     IN /\ taskAdmits(e, proj.task)
        /\ log' = Append(log, e)
        /\ proj' = [proj EXCEPT !.task = transitionStatus(e, proj.task)]
  /\ rows' = Append(rows, [published |-> FALSE, lease |-> "none",
                           attempt |-> 0, error |-> FALSE])
  /\ UNCHANGED <<plan, relayVars, queueVars, consumerVars>>

-----------------------------------------------------------------------------
(* The relay: scanTenantOutbox *)

\* Mutant: an expired lease does not make the row eligible again.
neverLeased(e) == ~rows[e].published /\ rows[e].lease = "none"

eligible(e) == ~rows[e].published /\ rows[e].lease # "held"

\* The rows of an UPDATE ... RETURNING come in no particular order.
Orders(S) == {q \in [1..Cardinality(S) -> S] :
                \A i, j \in DOMAIN q : q[i] = q[j] => i = j}

\* First transaction: lease every eligible row (the batch of 100 is never
\* full here).
leaseRows(r) ==
  LET picked == {e \in Events : eligible(e) /\ rows[e].attempt < MaxAttempts}
  IN /\ batch[r] = <<>> /\ picked # {}
     /\ rows' = [e \in Events |->
                   IF e \in picked
                     THEN [rows[e] EXCEPT !.attempt = @ + 1, !.lease = "held"]
                     ELSE rows[e]]
     /\ \E q \in Orders(picked) :
          batch' = [batch EXCEPT ![r] =
                      [i \in DOMAIN q |-> [event |-> q[i],
                                           attempt |-> rows'[q[i]].attempt]]]
     /\ UNCHANGED <<plan, log, proj, step, queueVars, consumerVars>>

nextRow(r) ==
  /\ batch' = [batch EXCEPT ![r] = Tail(@)]
  /\ step' = [step EXCEPT ![r] = "enqueue"]

\* Bound: the last lease the instance allows is not wasted by a fault, as the
\* code would lease the row once more.
mayFail(r) == \A i \in DOMAIN batch[r] : batch[r][i].attempt < MaxAttempts

\* eventsQueue.add; the job id holds the attempt, so it is never an old job.
enqueue(r) ==
  /\ batch[r] # <<>> /\ step[r] = "enqueue"
  /\ jobs' = Append(jobs, [event |-> Head(batch[r]).event,
                           attempt |-> Head(batch[r]).attempt, tries |-> 0])
  /\ step' = [step EXCEPT ![r] = "mark"]
  /\ UNCHANGED <<plan, log, proj, rows, batch, delayed, failed, dlq, consumerVars>>

\* Mutant: a row whose enqueue failed is marked all the same.
enqueueFailsMarked(r) ==
  /\ "enqueue_error" \in Faults /\ mayFail(r)
  /\ batch[r] # <<>> /\ step[r] = "enqueue"
  /\ step' = [step EXCEPT ![r] = "mark"]
  /\ UNCHANGED <<plan, log, proj, rows, batch, queueVars, consumerVars>>

\* The queue refuses the job: the row is left to its lease.
enqueueFails(r) ==
  /\ "enqueue_error" \in Faults /\ mayFail(r)
  /\ batch[r] # <<>> /\ step[r] = "enqueue"
  /\ nextRow(r)
  /\ UNCHANGED <<plan, log, proj, rows, queueVars, consumerVars>>

\* Second transaction, one per row: WHERE published_at IS NULL.
mark(r) ==
  /\ batch[r] # <<>> /\ step[r] = "mark"
  /\ LET e == Head(batch[r]).event
     IN rows' = IF rows[e].published THEN rows
                ELSE [rows EXCEPT ![e].published = TRUE, ![e].lease = "none"]
  /\ nextRow(r)
  /\ UNCHANGED <<plan, log, proj, queueVars, consumerVars>>

\* The transaction of the mark fails: the loop goes on with the next row.
markFails(r) ==
  /\ "mark_error" \in Faults /\ mayFail(r)
  /\ batch[r] # <<>> /\ step[r] = "mark"
  /\ nextRow(r)
  /\ UNCHANGED <<plan, log, proj, rows, queueVars, consumerVars>>

\* A crash of the worker process: the rest of the batch is left to its leases.
relayCrash(r) ==
  /\ "relay_crash" \in Faults /\ mayFail(r)
  /\ batch[r] # <<>>
  /\ batch' = [batch EXCEPT ![r] = <<>>]
  /\ step' = [step EXCEPT ![r] = "enqueue"]
  /\ UNCHANGED <<plan, log, proj, rows, queueVars, consumerVars>>

leaseExpires(e) ==
  /\ rows[e].lease = "held"
  /\ rows' = [rows EXCEPT ![e].lease = "expired"]
  /\ UNCHANGED <<plan, log, proj, relayVars, queueVars, consumerVars>>

-----------------------------------------------------------------------------
(* The consumer: process, in one transaction *)

inInbox(e) == \E row \in inbox : row.event = e

\* Mutant: the version of the event is not compared.
versionGateAlwaysOpen(e) == TRUE

versionGateOpen(e) ==
  \/ log[e].type \in Bypassing
  \/ \A row \in inbox : row.version < log[e].version

process ==
  /\ jobs # <<>>
  /\ jobs' = Tail(jobs)
  /\ LET e == Head(jobs).event
     IN IF versionGateOpen(e) /\ ~inInbox(e)
          THEN /\ inbox' = inbox \cup {[event |-> e, version |-> log[e].version]}
               /\ proj' = handler(log[e], proj)
               /\ UNCHANGED skipped
          ELSE /\ skipped' = IF inInbox(e) THEN skipped ELSE skipped \cup {e}
               /\ UNCHANGED <<inbox, proj>>
  /\ UNCHANGED <<plan, log, rows, relayVars, delayed, failed, dlq>>

\* The transaction rolls back; the job waits for its backoff or is exhausted.
attemptFails ==
  /\ "attempt_error" \in Faults /\ jobs # <<>>
  /\ jobs' = Tail(jobs)
  /\ LET again == [Head(jobs) EXCEPT !.tries = @ + 1]
     IN IF again.tries < MaxTries
          THEN delayed' = delayed \cup {again} /\ UNCHANGED failed
          ELSE failed' = failed \cup {again} /\ UNCHANGED delayed
  /\ UNCHANGED <<plan, log, proj, rows, relayVars, dlq, consumerVars>>

\* UnrecoverableError: no further attempt.
attemptFailsForGood ==
  /\ "fatal_error" \in Faults /\ jobs # <<>>
  /\ jobs' = Tail(jobs)
  /\ failed' = failed \cup {Head(jobs)}
  /\ UNCHANGED <<plan, log, proj, rows, relayVars, delayed, dlq, consumerVars>>

backoffEnds(j) ==
  /\ delayed' = delayed \ {j}
  /\ jobs' = Append(jobs, j)
  /\ UNCHANGED <<plan, log, proj, rows, relayVars, failed, dlq, consumerVars>>

-----------------------------------------------------------------------------
(* Dead letters *)

\* The job id of an inventory diagnostic is its event: while one waits, the
\* queue ignores another.
onFailed(j) ==
  /\ failed' = failed \ {j}
  /\ dlq' = IF log[j.event].type \in Bypassing /\ \E d \in dlq : d.event = j.event
              THEN dlq ELSE dlq \cup {j}
  /\ UNCHANGED <<plan, log, proj, rows, relayVars, jobs, delayed, consumerVars>>

\* The listener cannot reach the DLQ: it logs the failure and gives up.
onFailedUnreachable(j) ==
  /\ "dlq_unreachable" \in Faults
  /\ failed' = failed \ {j}
  /\ UNCHANGED <<plan, log, proj, rows, relayVars, jobs, delayed, dlq, consumerVars>>

\* processExecutionFailure and processInventoryFailure
recordDeadLetter(j) ==
  /\ dlq' = dlq \ {j}
  /\ rows' = [rows EXCEPT ![j.event].error = TRUE]
  /\ UNCHANGED <<plan, log, proj, relayVars, jobs, delayed, failed, consumerVars>>

\* The diagnostic cannot be stored: its job has a single attempt.
recordDeadLetterFails(j) ==
  /\ "record_error" \in Faults
  /\ dlq' = dlq \ {j}
  /\ UNCHANGED <<plan, log, proj, rows, relayVars, jobs, delayed, failed, consumerVars>>

\* A redrive of an event that some relay is still about to mark is only
\* considered under "slow_mark".
redriveEvent(e) ==
  /\ rows[e].error /\ log[e].type \in Redrivable
  /\ rows[e].attempt < MaxAttempts - 1
  /\ \/ "slow_mark" \in Faults
     \/ \A r \in Relays : \A i \in DOMAIN batch[r] : batch[r][i].event # e
  /\ rows' = [rows EXCEPT ![e] = [published |-> FALSE, lease |-> "none",
                                  attempt |-> @.attempt + 1, error |-> FALSE]]
  /\ UNCHANGED <<plan, log, proj, relayVars, queueVars, consumerVars>>

-----------------------------------------------------------------------------
Next ==
  \/ appendOutbox
  \/ \E r \in Relays : \/ leaseRows(r) \/ enqueue(r) \/ enqueueFails(r)
                       \/ mark(r) \/ markFails(r) \/ relayCrash(r)
  \/ \E e \in Events : leaseExpires(e) \/ redriveEvent(e)
  \/ process \/ attemptFails \/ attemptFailsForGood
  \/ \E j \in delayed : backoffEnds(j)
  \/ \E j \in failed : onFailed(j) \/ onFailedUnreachable(j)
  \/ \E j \in dlq : recordDeadLetter(j) \/ recordDeadLetterFails(j)

Spec == Init /\ [][Next]_vars

\* The scan is a repeatable job and its loop always advances, BullMQ delivers
\* every waiting job and emits every failure, leases end with the clock.
Fairness ==
  /\ \A r \in Relays : /\ WF_vars(leaseRows(r))
                       /\ WF_vars(enqueue(r) \/ enqueueFails(r)
                                  \/ mark(r) \/ markFails(r))
  /\ WF_vars(\E e \in Events : leaseExpires(e))
  /\ WF_vars(process \/ attemptFails \/ attemptFailsForGood)
  /\ WF_vars(\E j \in delayed : backoffEnds(j))
  /\ WF_vars(\E j \in failed : onFailed(j) \/ onFailedUnreachable(j))
  /\ WF_vars(\E j \in dlq : recordDeadLetter(j) \/ recordDeadLetterFails(j))

FairSpec == Spec /\ Fairness

-----------------------------------------------------------------------------
(* Properties *)

\* An emitted event is never lost between two stages: it is pending in the
\* outbox, queued, exhausted, dead, or has reached the consumer's decision.
NoEventLost ==
  \A e \in Events :
    \/ ~rows[e].published \/ rows[e].error
    \/ \E i \in DOMAIN jobs : jobs[i].event = e
    \/ \E j \in delayed \cup failed \cup dlq : j.event = e
    \/ inInbox(e) \/ e \in skipped

\* Nothing is in flight and the consumer has decided on every emitted event.
Delivered ==
  /\ \A e \in Events : rows[e].published /\ (inInbox(e) \/ e \in skipped)
  /\ \A r \in Relays : batch[r] = <<>>
  /\ jobs = <<>> /\ delayed = {} /\ failed = {} /\ dlq = {}

Settled == log = plan /\ Delivered

InOrder ==
  LET apply[n \in 0..Len(log)] ==
        IF n = 0 THEN [calendar |-> IF proj.calendar = "NONE" THEN "NONE"
                                                            ELSE "SCHEDULED",
                       visit |-> "SCHEDULED",
                       task |-> IF proj.task = "NONE" THEN "NONE"
                                                      ELSE "SCHEDULED"]
                 ELSE handler(log[n], apply[n - 1])
  IN apply[Len(log)]

\* Whatever was duplicated, retried or overtaken, the projections end where
\* delivering every event once and in order would have left them.
Convergence == Settled => proj = InOrder

\* The queues are invisible: each event is applied at most once, and none
\* subject to the gate after one of the same or a later version.
Feed == INSTANCE OperationalProjection WITH applied <- {row.event : row \in inbox}
ImplementsFeed == Feed!Spec

Positions == UNION {DOMAIN p : p \in Plans}

\* Every event ends applied, overtaken or recorded as a dead letter: "los
\* errores pasan a reintento y, agotada la politica, a una cola de
\* intervencion operativa".
EventuallyDecided ==
  \A i \in Positions :
    (i \in Events) ~> (\/ inInbox(i) \/ i \in skipped
                       \/ i \in Events /\ rows[i].error)
=============================================================================
