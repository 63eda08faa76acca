------------------------- MODULE EventPipelineProofs -------------------------
(***************************************************************************)
(* Proofs about EventPipeline, for any number of relays and any bounds.    *)
(* For every history and any faults: its type invariant, and that it       *)
(* implements OperationalProjection.  For every history, without the       *)
(* faults the code gives up on: no event is lost.  For any faults, and the *)
(* histories that end with the event that has the final word: the          *)
(* projections converge.                                                   *)
(***************************************************************************)
EXTENDS EventPipeline, FiniteInduction, FiniteSetTheorems, TLAPS

\* A waiting job has attempts left, and an inbox row holds the version of its
\* event: what TypeOK lacks to be inductive and to compare the two gates.
WaitingOK == /\ \A i \in DOMAIN jobs : jobs[i].tries < MaxTries
             /\ \A j \in delayed : j.tries < MaxTries
InboxOK == \A row \in inbox : row.version = log[row.event].version

PipelineInv == TypeOK /\ WaitingOK /\ InboxOK

-----------------------------------------------------------------------------
(* Sequences *)

\* A sequence over a set is one over any larger set.
LEMMA SeqMonotone ==
  ASSUME NEW S, NEW T, S \subseteq T, NEW s \in Seq(S)
  PROVE  s \in Seq(T)
OBVIOUS

\* Appending x extends the domain by one and keeps the other elements.
LEMMA AppendIs ==
  ASSUME NEW S, NEW s \in Seq(S), NEW x \in S
  PROVE  /\ Append(s, x) \in Seq(S)
         /\ DOMAIN Append(s, x) = 1..(Len(s) + 1)
         /\ Len(Append(s, x)) = Len(s) + 1
         /\ \A i \in DOMAIN s : Append(s, x)[i] = s[i]
         /\ Append(s, x)[Len(s) + 1] = x
OBVIOUS

\* Appending anything leaves the elements that were there.
LEMMA AppendKeeps ==
  ASSUME NEW S, NEW s \in Seq(S), NEW x
  PROVE  \A i \in DOMAIN s : i \in DOMAIN Append(s, x) /\ Append(s, x)[i] = s[i]
OBVIOUS

\* A function on 1..n is a sequence of length n.
LEMMA FunctionIsSeq ==
  ASSUME NEW S, NEW n \in Nat, NEW f \in [1..n -> S]
  PROVE  f \in Seq(S) /\ Len(f) = n
OBVIOUS

\* Append makes its domain longer by one.
LEMMA FunctionAppend ==
  ASSUME NEW S, NEW n \in Nat, NEW f \in [1..n -> S], NEW x \in S
  PROVE  Append(f, x) \in [1..(n + 1) -> S]
  <1>1. f \in Seq(S) /\ Len(f) = n
    BY FunctionIsSeq
  <1> DEFINE q == Append(f, x)
  <1>2. q \in Seq(S) /\ Len(q) = n + 1
    BY <1>1, AppendIs
  <1> HIDE DEF q
  <1>3. q \in [1..(n + 1) -> S]
    BY <1>2
  <1>4. QED
    BY <1>3 DEF q

\* The elements of a tail are elements of the sequence.
LEMMA TailIs ==
  ASSUME NEW S, NEW s \in Seq(S), s # <<>>
  PROVE  /\ Head(s) \in S /\ Head(s) = s[1] /\ 1 \in DOMAIN s
         /\ Tail(s) \in Seq(S)
         /\ \A i \in DOMAIN Tail(s) : i + 1 \in DOMAIN s /\ Tail(s)[i] = s[i + 1]
OBVIOUS

-----------------------------------------------------------------------------
(* The matrix *)

\* Every handler leaves projections of the right type.
LEMMA HandlerType ==
  ASSUME NEW e \in Event, NEW p \in Projection
  PROVE  handler(e, p) \in Projection
BY DEF handler, Projection, TaskStatus, transitionLinkedTask, Event,
       EventType, Projected, Acknowledged, Bypassing, CloseResult, Unless, applyExecutionOrderStarted,
       applyExecutionOrderBlocked, applyExecutionOrderClosed,
       applyExecutionOrderFollowUp

\* So does the transition of the linked task when an order is closed.
LEMMA TaskType ==
  ASSUME NEW e \in Event, NEW p \in Projection
  PROVE  [p EXCEPT !.task = transitionStatus(e, p.task)] \in Projection
BY DEF Projection, TaskStatus, transitionStatus, mapCloseResultToTaskStatus

-----------------------------------------------------------------------------
(* The type invariant *)

\* The initial state satisfies the invariant.
LEMMA InitPipeline == Init => PipelineInv
  <1> SUFFICES ASSUME Init PROVE PipelineInv
    OBVIOUS
  <1>1. proj \in Projection
    BY DEF Init, Projection, TaskStatus
  <1>2. /\ log \in Seq(Event) /\ rows \in [Events -> Row]
        /\ jobs \in Seq(Job) /\ DOMAIN jobs = {}
    BY DEF Init, Events
  <1>3. batch \in [Relays -> Seq(Leased)]
    BY DEF Init
  <1>4. QED
    BY <1>1, <1>2, <1>3 DEF Init, PipelineInv, TypeOK, WaitingOK, InboxOK

\* Emitting an event adds a position and a fresh row, and moves nothing.
LEMMA AppendOutboxStep ==
  ASSUME PipelineInv, appendOutbox
  PROVE  PipelineInv'
  <1> DEFINE e == plan[Len(log) + 1]
             fresh == [published |-> FALSE, lease |-> "none",
                       attempt |-> 0, error |-> FALSE]
  <1> USE DEF PipelineInv, TypeOK, appendOutbox, relayVars, queueVars,
              consumerVars
  <1>1. e \in Event
    BY PlansAreHistories
  <1>2. log \in Seq(Event)
    OBVIOUS
  <1>3. /\ log' \in Seq(Event) /\ Events' = 1..(Len(log) + 1)
        /\ Events = 1..Len(log)
        /\ \A i \in Events : log'[i] = log[i]
    BY <1>1, <1>2, AppendIs DEF Events
  <1>4. Events \subseteq Events'
    BY <1>2, <1>3
  <1>5. proj' \in Projection
    BY <1>1, TaskType
  <1>6. fresh \in Row
    BY AttemptsBound DEF Row
  <1>7. Len(log) \in Nat /\ rows \in [1..Len(log) -> Row] /\ rows' = Append(rows, fresh)
    BY <1>2, <1>3
  <1>8. rows' \in [Events' -> Row]
    <2> HIDE DEF fresh, PipelineInv, appendOutbox
    <2>1. Append(rows, fresh) \in [1..(Len(log) + 1) -> Row]
      BY <1>6, <1>7, FunctionAppend
    <2>2. QED
      BY <1>3, <1>7, <2>1
  <1>9. Job \subseteq Job'
    BY <1>4 DEF Job
  <1>10. jobs' \in Seq(Job') /\ delayed' \subseteq Job' /\ failed' \subseteq Job'
         /\ dlq' \subseteq Job'
    BY <1>9, SeqMonotone
  <1>11. batch' \in [Relays -> Seq(Leased')]
    <2>1. Leased \subseteq Leased'
      BY <1>4 DEF Leased, Attempt
    <2>2. \A r \in Relays : batch[r] \in Seq(Leased')
      BY <2>1, SeqMonotone
    <2>3. QED
      BY <2>2
  <1>12. /\ inbox' \subseteq [event: Events', version: Nat]
         /\ skipped' \subseteq Events'
    BY <1>4
  <1>13. InboxOK'
    BY <1>3 DEF InboxOK
  <1>14. QED
    BY <1>3, <1>5, <1>8, <1>10, <1>11, <1>12, <1>13 DEF WaitingOK, Attempt

-----------------------------------------------------------------------------
(* The relay *)

\* A leased row has one more attempt.
LEMMA LeasedRow ==
  ASSUME NEW w \in Row, w.attempt + 1 \in Attempt
  PROVE  LET l == [w EXCEPT !.attempt = @ + 1, !.lease = "held"]
         IN  l \in Row /\ l.attempt \in Attempt
  <1> DEFINE a == w.attempt + 1
             l == [w EXCEPT !.attempt = a, !.lease = "held"]
  <1>1. a \in Attempt /\ a \in 0..MaxAttempts
    BY AttemptsBound DEF Attempt
  <1> HIDE DEF a
  <1>2. l \in Row /\ l.attempt = a
    BY <1>1 DEF Row
  <1>3. QED
    BY <1>1, <1>2 DEF a

\* A lease puts events that exist, with an attempt number, in the batch.
LEMMA LeaseRowsStep ==
  ASSUME PipelineInv, NEW r \in Relays, leaseRows(r)
  PROVE  PipelineInv'
  <1> DEFINE picked == {e \in Events : eligible(e) /\ rows[e].attempt < MaxAttempts}
  <1> USE DEF PipelineInv, TypeOK
  <1>1. /\ rows' = [e \in Events |->
                   IF e \in picked
                     THEN [rows[e] EXCEPT !.attempt = @ + 1, !.lease = "held"]
                     ELSE rows[e]]
        /\ UNCHANGED <<plan, log, proj, step, queueVars, consumerVars>>
    BY DEF leaseRows
  <1>2. PICK q \in Orders(picked) :
          batch' = [batch EXCEPT ![r] =
                      [i \in DOMAIN q |-> [event |-> q[i],
                                           attempt |-> rows'[q[i]].attempt]]]
    BY DEF leaseRows
  <1>3. \A e \in picked : /\ e \in Events
                          /\ rows[e] \in Row
                          /\ rows[e].attempt + 1 \in Attempt
    BY AttemptsBound DEF Row, Attempt
  <1>4. \A e \in picked : [rows[e] EXCEPT !.attempt = @ + 1, !.lease = "held"] \in Row
    BY <1>3, LeasedRow
  <1>5. rows' \in [Events -> Row]
    BY <1>1, <1>4
  <1>6. \A e \in picked : rows'[e].attempt \in Attempt
    BY <1>1, <1>3, LeasedRow
  <1>7. Cardinality(picked) \in Nat
    <2>1. Len(log) \in Nat /\ Events = 1..Len(log)
      BY DEF Events
    <2>2. IsFiniteSet(1..Len(log))
      BY <2>1, FS_Interval
    <2>3. IsFiniteSet(picked)
      BY <2>1, <2>2, FS_Subset
    <2>4. QED
      BY <2>3, FS_CardinalityType
  <1>8. q \in [1..Cardinality(picked) -> picked]
    BY DEF Orders
  <1> DEFINE leased == [i \in DOMAIN q |-> [event |-> q[i],
                                            attempt |-> rows'[q[i]].attempt]]
  <1>9. leased \in Seq(Leased)
    <2>1. \A i \in 1..Cardinality(picked) :
            [event |-> q[i], attempt |-> rows'[q[i]].attempt] \in Leased
      BY <1>3, <1>6, <1>8 DEF Leased
    <2> HIDE DEF picked
    <2>2. leased \in [1..Cardinality(picked) -> Leased]
      BY <1>8, <2>1
    <2> HIDE DEF leased
    <2>3. QED
      BY <1>7, <2>2, FunctionIsSeq
  <1>10. batch' \in [Relays -> Seq(Leased)]
    BY <1>2, <1>9
  <1>11. Events' = Events /\ Leased' = Leased /\ Job' = Job /\ Attempt' = Attempt
    BY <1>1 DEF Events, Leased, Job, Attempt
  <1>12. QED
    BY <1>1, <1>5, <1>10, <1>11 DEF queueVars, consumerVars, WaitingOK, InboxOK

\* Enqueueing, marking, failing and crashing consume the batch and touch rows
\* and jobs of events that exist.
LEMMA RelayStep ==
  ASSUME PipelineInv, NEW r \in Relays,
         enqueue(r) \/ enqueueFails(r) \/ mark(r) \/ markFails(r) \/ relayCrash(r)
  PROVE  PipelineInv'
  <1> USE DEF PipelineInv, TypeOK
  <1>1. batch[r] \in Seq(Leased) /\ batch[r] # <<>>
    BY DEF enqueue, enqueueFails, mark, markFails, relayCrash
  <1>2. Head(batch[r]) \in Leased /\ Tail(batch[r]) \in Seq(Leased)
    BY <1>1, TailIs
  <1>3. UNCHANGED <<plan, log, proj, delayed, failed, dlq, inbox, skipped>>
    BY DEF enqueue, enqueueFails, mark, markFails, relayCrash, queueVars,
           consumerVars
  <1>4. Events' = Events /\ Leased' = Leased /\ Job' = Job
    BY <1>3 DEF Events, Leased, Job, Attempt
  <1>5. batch' \in [Relays -> Seq(Leased)]
    <2>1. \/ batch' = batch \/ batch' = [batch EXCEPT ![r] = Tail(batch[r])]
          \/ batch' = [batch EXCEPT ![r] = <<>>]
      BY DEF enqueue, enqueueFails, mark, markFails, relayCrash, nextRow
    <2>2. <<>> \in Seq(Leased)
      OBVIOUS
    <2>3. QED
      BY <1>2, <2>1, <2>2
  <1>9. step' \in [Relays -> {"enqueue", "mark"}]
    BY DEF enqueue, enqueueFails, mark, markFails, relayCrash, nextRow
  <1>6. rows' \in [Events -> Row]
    <2>1. CASE mark(r)
      <3> DEFINE e == Head(batch[r]).event
      <3>1. e \in Events /\ rows[e] \in Row
        BY <1>2 DEF Leased
      <3>2. [rows[e] EXCEPT !.published = TRUE, !.lease = "none"] \in Row
        BY <3>1 DEF Row
      <3>3. \/ rows' = rows
            \/ rows' = [rows EXCEPT ![e] = [rows[e] EXCEPT !.published = TRUE,
                                                          !.lease = "none"]]
        BY <2>1, <3>1 DEF mark, Row
      <3>4. QED
        BY <3>1, <3>2, <3>3
    <2>2. CASE ~mark(r)
      BY <2>2 DEF enqueue, enqueueFails, markFails, relayCrash
    <2>3. QED
      BY <2>1, <2>2
  <1>7. jobs' \in Seq(Job) /\ \A i \in DOMAIN jobs' : jobs'[i].tries < MaxTries
    <2>1. CASE enqueue(r)
      <3> DEFINE j == [event |-> Head(batch[r]).event,
                       attempt |-> Head(batch[r]).attempt, tries |-> 0]
      <3>1. j \in Job /\ j.tries < MaxTries
        BY <1>2, TriesBound DEF Leased, Job
      <3>2. jobs' = Append(jobs, j)
        BY <2>1 DEF enqueue
      <3> HIDE DEF j
      <3>3. QED
        BY <3>1, <3>2, AppendIs DEF WaitingOK
    <2>2. CASE ~enqueue(r)
      BY <2>2 DEF enqueueFails, mark, markFails, relayCrash, queueVars, WaitingOK
    <2>3. QED
      BY <2>1, <2>2
  <1>8. QED
    BY <1>3, <1>4, <1>5, <1>6, <1>7, <1>9 DEF WaitingOK, InboxOK

\* The clock only ends a lease, and a redrive makes a row pending again.
LEMMA RowStep ==
  ASSUME PipelineInv, NEW e \in Events, leaseExpires(e) \/ redriveEvent(e)
  PROVE  PipelineInv'
  <1> USE DEF PipelineInv, TypeOK
  <1>1. UNCHANGED <<plan, log, proj, relayVars, queueVars, consumerVars>>
    BY DEF leaseExpires, redriveEvent
  <1>2. Events' = Events /\ Leased' = Leased /\ Job' = Job
    BY <1>1 DEF Events, Leased, Job, Attempt
  <1>3. rows[e] \in Row
    OBVIOUS
  <1>4. CASE leaseExpires(e)
    <2>1. [rows[e] EXCEPT !.lease = "expired"] \in Row
      BY <1>3 DEF Row
    <2>2. rows' = [rows EXCEPT ![e] = [rows[e] EXCEPT !.lease = "expired"]]
      BY <1>4 DEF leaseExpires
    <2>3. QED
      BY <1>1, <1>2, <2>1, <2>2
      DEF relayVars, queueVars, consumerVars, WaitingOK, InboxOK
  <1>5. CASE redriveEvent(e)
    <2> DEFINE row == [published |-> FALSE, lease |-> "none",
                       attempt |-> rows[e].attempt + 1, error |-> FALSE]
    <2>1. row \in Row
      BY <1>3, <1>5, AttemptsBound DEF Row, redriveEvent
    <2>2. rows' = [rows EXCEPT ![e] = row]
      BY <1>5 DEF redriveEvent
    <2>3. QED
      BY <1>1, <1>2, <2>1, <2>2
      DEF relayVars, queueVars, consumerVars, WaitingOK, InboxOK
  <1>6. QED
    BY <1>4, <1>5

-----------------------------------------------------------------------------
(* The consumer and the dead letters *)

\* What every step that takes the first waiting job knows about it.
LEMMA HeadJob ==
  ASSUME PipelineInv, jobs # <<>>
  PROVE  /\ Head(jobs) \in Job /\ Head(jobs).tries < MaxTries
         /\ Head(jobs).event \in Events /\ log[Head(jobs).event] \in Event
         /\ Tail(jobs) \in Seq(Job)
         /\ \A i \in DOMAIN Tail(jobs) : Tail(jobs)[i].tries < MaxTries
  <1> USE DEF PipelineInv, TypeOK
  <1>1. /\ Head(jobs) \in Job /\ Head(jobs) = jobs[1] /\ 1 \in DOMAIN jobs
        /\ Tail(jobs) \in Seq(Job)
        /\ \A i \in DOMAIN Tail(jobs) :
             i + 1 \in DOMAIN jobs /\ Tail(jobs)[i] = jobs[i + 1]
    BY TailIs
  <1>2. Head(jobs).event \in Events
    BY <1>1 DEF Job
  <1>3. log[Head(jobs).event] \in Event
    BY <1>2 DEF Events
  <1>4. QED
    BY <1>1, <1>2, <1>3 DEF WaitingOK

\* Applying or skipping an event keeps the invariant.
LEMMA ProcessStep ==
  ASSUME PipelineInv, process
  PROVE  PipelineInv'
  <1> DEFINE e == Head(jobs).event
  <1> USE DEF PipelineInv, TypeOK
  <1>1. /\ jobs # <<>> /\ jobs' = Tail(jobs)
        /\ UNCHANGED <<plan, log, rows, batch, step, delayed, failed, dlq>>
    BY DEF process, relayVars
  <1>2. e \in Events /\ log[e] \in Event /\ log[e].version \in Nat
    BY <1>1, HeadJob DEF Event
  <1>3. Events' = Events /\ Leased' = Leased /\ Job' = Job
    BY <1>1 DEF Events, Leased, Job, Attempt
  <1>4. /\ jobs' \in Seq(Job)
        /\ \A i \in DOMAIN jobs' : jobs'[i].tries < MaxTries
    BY <1>1, HeadJob
  <1>5. proj' \in Projection
    BY <1>2, HandlerType DEF process
  <1>6. /\ inbox' \subseteq [event: Events, version: Nat]
        /\ skipped' \subseteq Events
        /\ \A row \in inbox' : row.version = log[row.event].version
    BY <1>2 DEF process, InboxOK
  <1>7. QED
    BY <1>1, <1>3, <1>4, <1>5, <1>6 DEF WaitingOK, InboxOK

\* A failed attempt moves its job and counts it.
LEMMA AttemptFailsStep ==
  ASSUME PipelineInv, attemptFails \/ attemptFailsForGood
  PROVE  PipelineInv'
  <1> USE DEF PipelineInv, TypeOK
  <1> DEFINE h == Head(jobs)
             again == [h EXCEPT !.tries = @ + 1]
  <1>1. /\ jobs # <<>> /\ jobs' = Tail(jobs)
        /\ UNCHANGED <<plan, log, proj, rows, batch, step, dlq, inbox, skipped>>
    BY DEF attemptFails, attemptFailsForGood, relayVars, consumerVars
  <1>2. Events' = Events /\ Leased' = Leased /\ Job' = Job
    BY <1>1 DEF Events, Leased, Job, Attempt
  <1>3. /\ jobs' \in Seq(Job)
        /\ \A i \in DOMAIN jobs' : jobs'[i].tries < MaxTries
        /\ h \in Job /\ h.tries < MaxTries
    BY <1>1, HeadJob
  <1>4. again \in Job
    <2> DEFINE t == h.tries + 1
    <2>1. t \in 0..MaxTries
      BY <1>3, TriesBound DEF Job
    <2> HIDE DEF t, h
    <2>2. [h EXCEPT !.tries = t] \in Job
      BY <1>3, <2>1 DEF Job
    <2>3. QED
      BY <2>2 DEF t
  <1>5. \/ UNCHANGED failed /\ delayed' = delayed \cup {again} /\ again.tries < MaxTries
        \/ UNCHANGED delayed /\ failed' = failed \cup {again}
        \/ UNCHANGED delayed /\ failed' = failed \cup {h}
    BY DEF attemptFails, attemptFailsForGood
  <1> HIDE DEF again, h
  <1>6. QED
    BY <1>1, <1>2, <1>3, <1>4, <1>5 DEF WaitingOK, InboxOK

\* A backoff, the failed listener and the dead-letter processor move jobs and
\* diagnostics of events that exist.
LEMMA QueueStep ==
  ASSUME PipelineInv,
         NEW j \in Job,
         \/ j \in delayed /\ backoffEnds(j)
         \/ j \in failed /\ (onFailed(j) \/ onFailedUnreachable(j))
         \/ j \in dlq /\ (recordDeadLetter(j) \/ recordDeadLetterFails(j))
  PROVE  PipelineInv'
  <1> USE DEF PipelineInv, TypeOK
  <1>1. UNCHANGED <<plan, log, proj, batch, step, inbox, skipped>>
    BY DEF backoffEnds, onFailed, onFailedUnreachable, recordDeadLetter,
           recordDeadLetterFails, relayVars, consumerVars
  <1>2. Events' = Events /\ Leased' = Leased /\ Job' = Job
    BY <1>1 DEF Events, Leased, Job, Attempt
  <1>3. /\ delayed' \subseteq Job /\ failed' \subseteq Job /\ dlq' \subseteq Job
        /\ delayed' \subseteq delayed
    <2>1. CASE j \in delayed /\ backoffEnds(j)
      BY <2>1 DEF backoffEnds
    <2>2. CASE onFailed(j) \/ onFailedUnreachable(j)
      BY <2>2 DEF onFailed, onFailedUnreachable
    <2>3. CASE recordDeadLetter(j) \/ recordDeadLetterFails(j)
      BY <2>3 DEF recordDeadLetter, recordDeadLetterFails
    <2>4. QED
      BY <2>1, <2>2, <2>3
  <1>4. rows' \in [Events -> Row]
    <2>1. j.event \in Events
      BY DEF Job
    <2>2. rows[j.event] \in Row
      BY <2>1
    <2>5. \A w \in Row : [w EXCEPT !.error = TRUE] \in Row
      BY DEF Row
    <2>3. rows' = rows
          \/ rows' = [rows EXCEPT ![j.event] = [rows[j.event] EXCEPT !.error = TRUE]]
      BY DEF backoffEnds, onFailed, onFailedUnreachable, recordDeadLetter,
             recordDeadLetterFails
    <2>4. QED
      BY <2>1, <2>2, <2>3, <2>5
  <1>5. jobs' \in Seq(Job) /\ \A i \in DOMAIN jobs' : jobs'[i].tries < MaxTries
    <2>1. CASE j \in delayed /\ backoffEnds(j)
      <3>1. jobs' = Append(jobs, j) /\ j.tries < MaxTries
        BY <2>1 DEF backoffEnds, WaitingOK
      <3>2. QED
        BY <3>1, AppendIs DEF WaitingOK
    <2>2. CASE jobs' = jobs
      BY <2>2 DEF WaitingOK
    <2>3. QED
      BY <2>1, <2>2 DEF onFailed, onFailedUnreachable, recordDeadLetter,
                        recordDeadLetterFails
  <1>6. QED
    BY <1>1, <1>2, <1>3, <1>4, <1>5 DEF WaitingOK, InboxOK

\* Every step of the pipeline keeps the invariant.
LEMMA NextPipeline == PipelineInv /\ [Next]_vars => PipelineInv'
  <1> SUFFICES ASSUME PipelineInv, [Next]_vars PROVE PipelineInv'
    OBVIOUS
  <1>1. CASE UNCHANGED vars
    BY <1>1 DEF vars, relayVars, queueVars, consumerVars, PipelineInv, TypeOK,
                WaitingOK, InboxOK, Events, Leased, Job, Row, Attempt
  <1>2. CASE Next
    <2>1. delayed \subseteq Job /\ failed \subseteq Job /\ dlq \subseteq Job
      BY DEF PipelineInv, TypeOK
    <2>2. QED
      BY <1>2, <2>1, AppendOutboxStep, LeaseRowsStep, RelayStep, RowStep,
         ProcessStep, AttemptFailsStep, QueueStep
      DEF Next
  <1>3. QED
    BY <1>1, <1>2

\* Every column, job, batch and projection keeps its type: in particular no
\* handler writes a status its table does not know, no waiting job has used
\* up its attempts, and no queue holds an event that was never emitted.
THEOREM PipelineTypes == Spec => []TypeOK
  <1>1. Spec => []PipelineInv
    BY InitPipeline, NextPipeline, PTL DEF Spec
  <1>2. PipelineInv => TypeOK
    BY DEF PipelineInv
  <1>3. QED
    BY <1>1, <1>2, PTL

-----------------------------------------------------------------------------
(* The refinement *)

\* The feed applies the same matrix.
LEMMA SameMatrix ==
  /\ Feed!Bypassing = Bypassing
  /\ \A e, p : Feed!handler(e, p) = handler(e, p)
  /\ \A e, t : Feed!taskAdmits(e, t) <=> taskAdmits(e, t)
  /\ \A e, t : Feed!transitionStatus(e, t) = transitionStatus(e, t)
BY DEF Bypassing, handler, mapCloseResultToTaskStatus, Unless,
       transitionLinkedTask, taskAdmits, transitionStatus,
       assertTransitionAllowed, STATUS_TRANSITIONS, Feed!transitionLinkedTask,
       Feed!taskAdmits, Feed!transitionStatus, Feed!assertTransitionAllowed,
       Feed!STATUS_TRANSITIONS,
       applyExecutionOrderStarted, applyExecutionOrderBlocked,
       applyExecutionOrderClosed, applyExecutionOrderFollowUp,
       Feed!Bypassing, Feed!handler, Feed!mapCloseResultToTaskStatus,
       Feed!Unless, Feed!applyExecutionOrderStarted,
       Feed!applyExecutionOrderBlocked, Feed!applyExecutionOrderClosed,
       Feed!applyExecutionOrderFollowUp

\* The steps that the projections cannot see.
LEMMA HiddenStep ==
  ASSUME \/ \E r \in Relays : \/ leaseRows(r) \/ enqueue(r) \/ enqueueFails(r)
                              \/ mark(r) \/ markFails(r) \/ relayCrash(r)
         \/ \E e \in Events : leaseExpires(e) \/ redriveEvent(e)
         \/ attemptFails \/ attemptFailsForGood
         \/ \E j \in delayed : backoffEnds(j)
         \/ \E j \in failed : onFailed(j) \/ onFailedUnreachable(j)
         \/ \E j \in dlq : recordDeadLetter(j) \/ recordDeadLetterFails(j)
  PROVE  UNCHANGED <<plan, log, proj, inbox>>
BY DEF leaseRows, enqueue, enqueueFails, mark, markFails, relayCrash,
       leaseExpires, redriveEvent, attemptFails, attemptFailsForGood,
       backoffEnds, onFailed, onFailedUnreachable, recordDeadLetter,
       recordDeadLetterFails, consumerVars

\* The consumer's transaction applies one event the feed allows, or nothing:
\* the maximum over the inbox is the maximum over the applied events, because
\* an inbox row holds the version of its event.
LEMMA ProcessRefines ==
  ASSUME PipelineInv, process
  PROVE  \/ \E i \in DOMAIN log : Feed!Apply(i)
         \/ UNCHANGED <<plan, log, proj, inbox>>
  <1>1. PICK e \in Events : e = Head(jobs).event
    BY HeadJob DEF process
  <1>2. CASE versionGateOpen(e) /\ ~inInbox(e)
    <2>1. /\ inbox' = inbox \cup {[event |-> e, version |-> log[e].version]}
          /\ proj' = handler(log[e], proj)
          /\ UNCHANGED <<plan, log>>
      BY <1>1, <1>2 DEF process
    <2>2. e \notin {row.event : row \in inbox}
      BY <1>2 DEF inInbox
    <2>3. \/ log[e].type \in Bypassing
          \/ \A i \in {row.event : row \in inbox} : log[i].version < log[e].version
      BY <1>2 DEF versionGateOpen, PipelineInv, InboxOK
    <2>4. {row.event : row \in inbox'} = {row.event : row \in inbox} \cup {e}
      <3> DEFINE new == [event |-> e, version |-> log[e].version]
      <3>1. new.event = e
        OBVIOUS
      <3>2. inbox' = inbox \cup {new}
        BY <2>1
      <3> HIDE DEF new
      <3>3. QED
        BY <3>1, <3>2
    <2>5. Feed!Apply(e)
      BY <2>1, <2>2, <2>3, <2>4, SameMatrix DEF Feed!Apply
    <2>6. QED
      BY <2>5 DEF Events
  <1>3. CASE ~(versionGateOpen(e) /\ ~inInbox(e))
    BY <1>1, <1>3 DEF process
  <1>4. QED
    BY <1>2, <1>3

\* Every step of the pipeline is a step of the feed or invisible to it.
LEMMA NextRefines == PipelineInv /\ [Next]_vars => [Feed!Next]_(Feed!vars)
  <1> SUFFICES ASSUME PipelineInv, [Next]_vars PROVE [Feed!Next]_(Feed!vars)
    OBVIOUS
  <1>1. CASE UNCHANGED <<plan, log, proj, inbox>>
    BY <1>1 DEF Feed!vars
  <1>2. CASE appendOutbox
    <2>1. Feed!Emit
      BY <1>2, SameMatrix DEF appendOutbox, consumerVars, Feed!Emit
    <2>2. QED
      BY <2>1 DEF Feed!Next
  <1>3. CASE process
    BY <1>1, <1>3, ProcessRefines DEF Feed!Next
  <1>4. CASE UNCHANGED vars
    BY <1>1, <1>4 DEF vars, consumerVars
  <1>5. QED
    BY <1>1, <1>2, <1>3, <1>4, HiddenStep DEF Next

\* The pipeline implements the feed: whatever is crashed, retried, duplicated,
\* reordered, redriven or lost, each event is applied at most once and none
\* that is subject to the gate after one of the same or a later version.
THEOREM PipelineImplementsFeed == Spec => ImplementsFeed
  <1>1. Spec => []PipelineInv
    BY InitPipeline, NextPipeline, PTL DEF Spec
  <1>2. Init => Feed!Init
    BY DEF Init, Feed!Init
  <1>3. QED
    BY <1>1, <1>2, NextRefines, PTL DEF Spec, ImplementsFeed, Feed!Spec

-----------------------------------------------------------------------------
(* No event is lost *)

\* The event is somewhere a step can still find it, or has been decided.
Kept(e) ==
  \/ rows[e].error
  \/ \E i \in DOMAIN jobs : jobs[i].event = e
  \/ \E j \in delayed \cup failed \cup dlq : j.event = e
  \/ inInbox(e) \/ e \in skipped

\* What makes NoEventLost inductive: already when a relay is about to mark a
\* row, not only when the row is marked, the event is kept elsewhere.
KeptInv ==
  /\ \A e \in Events : rows[e].published => Kept(e)
  /\ \A r \in Relays :
       /\ batch[r] # <<>> /\ step[r] = "mark" => Kept(Head(batch[r]).event)
       /\ batch[r] = <<>> => step[r] = "enqueue"

\* The faults under which the code does lose an event: a dead-letter queue
\* that cannot be reached or cannot record, and a mark that comes after the
\* redrive of its row.
Lossless == Faults \cap {"dlq_unreachable", "record_error", "slow_mark"} = {}

\* What only adds jobs, diagnostics and decisions keeps every event.
LEMMA KeptMonotone ==
  ASSUME NEW e, Kept(e), rows[e].error => rows'[e].error,
         \A i \in DOMAIN jobs : i \in DOMAIN jobs' /\ jobs'[i] = jobs[i],
         delayed \subseteq delayed', failed \subseteq failed', dlq \subseteq dlq',
         inbox \subseteq inbox', skipped \subseteq skipped'
  PROVE  Kept(e)'
  BY DEF Kept, inInbox

\* The relay, the clock and the command that emits the event lose nothing.
LEMMA RelayKeeps ==
  ASSUME PipelineInv, NEW e \in Events, Kept(e),
         \/ appendOutbox
         \/ \E r \in Relays : \/ leaseRows(r) \/ enqueue(r) \/ enqueueFails(r)
                              \/ mark(r) \/ markFails(r) \/ relayCrash(r)
         \/ \E x \in Events : leaseExpires(x)
         \/ \E x \in Events \ {e} : redriveEvent(x)
  PROVE  Kept(e)'
  <1> USE DEF PipelineInv, TypeOK
  <1>1. UNCHANGED <<delayed, failed, dlq, inbox, skipped>>
    BY DEF appendOutbox, leaseRows, enqueue, enqueueFails, mark, markFails,
           relayCrash, leaseExpires, redriveEvent, queueVars, consumerVars
  <1>2. \A i \in DOMAIN jobs : i \in DOMAIN jobs' /\ jobs'[i] = jobs[i]
    <2>1. jobs' = jobs \/ \E j : jobs' = Append(jobs, j)
      BY DEF appendOutbox, leaseRows, enqueue, enqueueFails, mark, markFails,
             relayCrash, leaseExpires, redriveEvent, queueVars
    <2>2. jobs \in Seq(Job)
      OBVIOUS
    <2> HIDE DEF PipelineInv, TypeOK
    <2>3. CASE jobs' = jobs
      BY <2>3
    <2>4. CASE \E j : jobs' = Append(jobs, j)
      BY <2>2, <2>4, AppendKeeps
    <2>5. QED
      BY <2>1, <2>3, <2>4
  <1>3. rows[e] \in Row
    OBVIOUS
  <1>4. rows'[e].error = rows[e].error
    <2>1. CASE appendOutbox
      <3>1. Len(log) \in Nat /\ Events = 1..Len(log)
        BY DEF Events
      <3>2. rows \in Seq(Row) /\ Len(rows) = Len(log)
        BY <3>1, FunctionIsSeq
      <3>3. rows'[e] = rows[e]
        BY <2>1, <3>1, <3>2 DEF appendOutbox
      <3>4. QED
        BY <3>3
    <2>2. CASE \E r \in Relays : leaseRows(r)
      <3>1. \/ rows'[e] = rows[e]
            \/ rows'[e] = [rows[e] EXCEPT !.attempt = @ + 1, !.lease = "held"]
        BY <2>2 DEF leaseRows
      <3>2. QED
        BY <1>3, <3>1 DEF Row
    <2>3. CASE \E r \in Relays : mark(r)
      <3>1. PICK r \in Relays : mark(r)
        BY <2>3
      <3>2. \/ rows'[e] = rows[e]
            \/ rows'[e] = [rows[e] EXCEPT !.published = TRUE, !.lease = "none"]
        BY <3>1 DEF mark
      <3>3. QED
        BY <1>3, <3>2 DEF Row
    <2>4. CASE \E r \in Relays : \/ enqueue(r) \/ enqueueFails(r)
                                 \/ markFails(r) \/ relayCrash(r)
      BY <2>4 DEF enqueue, enqueueFails, markFails, relayCrash
    <2>5. CASE \E x \in Events : leaseExpires(x)
      BY <1>3, <2>5 DEF leaseExpires, Row
    <2>6. CASE \E x \in Events \ {e} : redriveEvent(x)
      BY <1>3, <2>6 DEF redriveEvent
    <2>7. QED
      BY <2>1, <2>2, <2>3, <2>4, <2>5, <2>6
  <1>5. QED
    BY <1>1, <1>2, <1>4, KeptMonotone

\* The job that leaves the head of the queue is the only one that leaves.
LEMMA HeadOrTail ==
  ASSUME PipelineInv, jobs # <<>>, NEW e, NEW i \in DOMAIN jobs,
         jobs[i].event = e
  PROVE  \/ Head(jobs).event = e
         \/ \E k \in DOMAIN Tail(jobs) : Tail(jobs)[k].event = e
  <1>1. jobs \in Seq(Job)
    BY DEF PipelineInv, TypeOK
  <1>2. CASE i = 1
    BY <1>1, <1>2
  <1>3. CASE i # 1
    <2>1. i - 1 \in DOMAIN Tail(jobs) /\ Tail(jobs)[i - 1] = jobs[i]
      BY <1>1, <1>3
    <2>2. QED
      BY <2>1
  <1>4. QED
    BY <1>2, <1>3

\* An attempt decides on its event or leaves the job where it is retried or
\* found exhausted.
LEMMA AttemptKeeps ==
  ASSUME PipelineInv, NEW e \in Events, Kept(e),
         process \/ attemptFails \/ attemptFailsForGood
  PROVE  Kept(e)'
  <1>1. /\ jobs # <<>> /\ jobs' = Tail(jobs)
        /\ rows' = rows /\ dlq' = dlq
        /\ delayed \subseteq delayed' /\ failed \subseteq failed'
        /\ inbox \subseteq inbox' /\ skipped \subseteq skipped'
    BY DEF process, attemptFails, attemptFailsForGood, consumerVars
  <1>2. Head(jobs) \in Job
    BY <1>1, HeadJob
  <1>3. CASE Head(jobs).event = e
    <2>1. CASE process
      <3>1. CASE versionGateOpen(e) /\ ~inInbox(e)
        <4>1. [event |-> e, version |-> log[e].version] \in inbox'
          BY <1>3, <2>1, <3>1 DEF process
        <4>2. QED
          BY <4>1 DEF Kept, inInbox
      <3>2. CASE ~(versionGateOpen(e) /\ ~inInbox(e))
        <4>1. inInbox(e) \/ e \in skipped'
          BY <1>3, <2>1, <3>2 DEF process
        <4>2. QED
          BY <1>1, <4>1 DEF Kept, inInbox
      <3>3. QED
        BY <3>1, <3>2
    <2>2. CASE attemptFails \/ attemptFailsForGood
      <3>1. \E j \in delayed' \cup failed' :
              j = Head(jobs) \/ j = [Head(jobs) EXCEPT !.tries = @ + 1]
        BY <2>2 DEF attemptFails, attemptFailsForGood
      <3>2. PICK j \in delayed' \cup failed' : j.event = Head(jobs).event
        BY <1>2, <3>1 DEF Job
      <3>3. QED
        BY <1>3, <3>2 DEF Kept
    <2>3. QED
      BY <2>1, <2>2
  <1>4. CASE Head(jobs).event # e
    <2>1. CASE \E i \in DOMAIN jobs : jobs[i].event = e
      <3>1. \E k \in DOMAIN Tail(jobs) : Tail(jobs)[k].event = e
        BY <1>1, <1>4, <2>1, HeadOrTail
      <3>2. QED
        BY <1>1, <3>1 DEF Kept
    <2>2. CASE ~ \E i \in DOMAIN jobs : jobs[i].event = e
      BY <1>1, <2>2 DEF Kept, inInbox
    <2>3. QED
      BY <2>1, <2>2
  <1>5. QED
    BY <1>3, <1>4

\* A job that leaves a queue of the dead-letter path is in the next one, or
\* its failure is on the row.
LEMMA QueueKeeps ==
  ASSUME PipelineInv, NEW e \in Events, Kept(e), NEW j \in Job,
         \/ j \in delayed /\ backoffEnds(j)
         \/ j \in failed /\ onFailed(j)
         \/ j \in dlq /\ recordDeadLetter(j)
  PROVE  Kept(e)'
  <1>1. inbox' = inbox /\ skipped' = skipped
    BY DEF backoffEnds, onFailed, recordDeadLetter, consumerVars
  <1>2. jobs \in Seq(Job) /\ rows \in [Events -> Row] /\ rows[e] \in Row
    BY DEF PipelineInv, TypeOK
  <1>3. CASE backoffEnds(j)
    <2>1. jobs' = Append(jobs, j) /\ delayed' = delayed \ {j}
          /\ UNCHANGED <<rows, failed, dlq>>
      BY <1>3 DEF backoffEnds
    <2>2. /\ \A i \in DOMAIN jobs : i \in DOMAIN jobs' /\ jobs'[i] = jobs[i]
          /\ \E i \in DOMAIN jobs' : jobs'[i] = j
      BY <1>2, <2>1, AppendIs
    <2>3. CASE j.event = e
      BY <2>2, <2>3 DEF Kept
    <2>4. CASE j.event # e
      BY <1>1, <2>1, <2>2, <2>4 DEF Kept, inInbox
    <2>5. QED
      BY <2>3, <2>4
  <1>4. CASE onFailed(j)
    <2>1. /\ failed' = failed \ {j} /\ UNCHANGED <<rows, jobs, delayed>>
          /\ dlq \subseteq dlq' /\ \E d \in dlq' : d.event = j.event
      BY <1>4 DEF onFailed
    <2>2. QED
      BY <1>1, <2>1 DEF Kept, inInbox
  <1>5. CASE recordDeadLetter(j)
    <2>1. /\ dlq' = dlq \ {j} /\ UNCHANGED <<jobs, delayed, failed>>
          /\ rows' = [rows EXCEPT ![j.event].error = TRUE]
      BY <1>5 DEF recordDeadLetter
    <2>2. CASE j.event = e
      <3>1. rows'[e] = [rows[e] EXCEPT !.error = TRUE]
        BY <1>2, <2>1, <2>2
      <3>2. rows'[e].error
        BY <1>2, <3>1 DEF Row
      <3>3. QED
        BY <3>2 DEF Kept
    <2>3. CASE j.event # e
      <3>1. rows'[e] = rows[e]
        BY <1>2, <2>1, <2>3
      <3>2. QED
        BY <1>1, <2>1, <2>3, <3>1 DEF Kept, inInbox
    <2>4. QED
      BY <2>2, <2>3
  <1>6. QED
    BY <1>3, <1>4, <1>5

\* Without those faults only a redrive, which makes the row pending again,
\* takes an event out of every place it was kept.
LEMMA KeptStep ==
  ASSUME PipelineInv, Lossless, [Next]_vars, NEW e \in Events, Kept(e)
  PROVE  Kept(e)' \/ redriveEvent(e)
  <1>1. CASE UNCHANGED vars
    BY <1>1 DEF vars, relayVars, queueVars, consumerVars, Kept, inInbox
  <1>2. CASE Next
    <2>1. delayed \subseteq Job /\ failed \subseteq Job /\ dlq \subseteq Job
      BY DEF PipelineInv, TypeOK
    <2>2. /\ \A j : ~onFailedUnreachable(j)
          /\ \A j : ~recordDeadLetterFails(j)
      BY DEF Lossless, onFailedUnreachable, recordDeadLetterFails
    <2>3. QED
      BY <1>2, <2>1, <2>2, RelayKeeps, AttemptKeeps, QueueKeeps DEF Next
  <1>3. QED
    BY <1>1, <1>2

\* A row becomes published only by the mark of its event.
LEMMA PublishStep ==
  ASSUME PipelineInv, [Next]_vars, NEW e \in Events', rows'[e].published
  PROVE  /\ e \in Events
         /\ \/ rows[e].published
            \/ \E r \in Relays : mark(r) /\ Head(batch[r]).event = e
  <1>1. rows \in [Events -> Row]
    BY DEF PipelineInv, TypeOK
  <1>2. CASE appendOutbox
    <2>1. Len(log) \in Nat /\ Events = 1..Len(log) /\ Events' = 1..(Len(log) + 1)
      BY <1>2 DEF Events, PipelineInv, TypeOK, appendOutbox
    <2>2. rows \in Seq(Row) /\ Len(rows) = Len(log)
      BY <1>1, <2>1, FunctionIsSeq
    <2>3. PICK new : /\ rows' = Append(rows, new) /\ ~new.published
      <3> DEFINE w == [published |-> FALSE, lease |-> "none", attempt |-> 0,
                       error |-> FALSE]
      <3>1. rows' = Append(rows, w) /\ ~w.published
        BY <1>2 DEF appendOutbox
      <3>2. QED
        BY <3>1
    <2>4. rows'[Len(log) + 1] = new
      BY <2>1, <2>2, <2>3
    <2>5. e \in Events
      <3>1. e # Len(log) + 1
        BY <2>3, <2>4, Zenon
      <3>2. QED
        BY <2>1, <3>1
    <2>6. rows'[e] = rows[e]
      BY <2>1, <2>2, <2>3, <2>5
    <2>7. QED
      BY <2>5, <2>6
  <1>3. CASE ~appendOutbox
    <2>1. Events' = Events
      BY <1>3 DEF Events, Next, leaseRows, enqueue, enqueueFails, mark,
           markFails, relayCrash, leaseExpires, redriveEvent, process,
           attemptFails, attemptFailsForGood, backoffEnds, onFailed,
           onFailedUnreachable, recordDeadLetter, recordDeadLetterFails, vars
    <2>2. rows[e] \in Row
      BY <1>1, <2>1
    <2>3. CASE \E r \in Relays : mark(r)
      BY <2>1, <1>1, <2>3 DEF mark
    <2>4. CASE \E r \in Relays : leaseRows(r)
      <3>1. \/ rows'[e] = rows[e]
            \/ rows'[e] = [rows[e] EXCEPT !.attempt = @ + 1, !.lease = "held"]
        BY <2>1, <2>4 DEF leaseRows
      <3>2. QED
        BY <2>1, <2>2, <3>1 DEF Row
    <2>5. CASE \E x \in Events : leaseExpires(x)
      <3>1. rows'[e] = rows[e] \/ rows'[e] = [rows[e] EXCEPT !.lease = "expired"]
        BY <1>1, <2>1, <2>5 DEF leaseExpires
      <3>2. QED
        BY <2>1, <2>2, <3>1 DEF Row
    <2>6. CASE \E x \in Events : redriveEvent(x)
      <3>1. PICK x \in Events : redriveEvent(x)
        BY <2>6
      <3>2. rows'[x].published = FALSE
        BY <1>1, <3>1 DEF redriveEvent
      <3>3. x # e => rows'[e] = rows[e]
        BY <1>1, <2>1, <3>1 DEF redriveEvent
      <3>4. QED
        BY <2>1, <3>2, <3>3
    <2>7. CASE \E j \in dlq : recordDeadLetter(j)
      <3>1. rows'[e] = rows[e] \/ rows'[e] = [rows[e] EXCEPT !.error = TRUE]
        BY <1>1, <2>1, <2>7 DEF recordDeadLetter
      <3>2. QED
        BY <2>1, <2>2, <3>1 DEF Row
    <2>8. CASE rows' = rows
      BY <2>1, <2>8
    <2>9. QED
      BY <1>3, <2>3, <2>4, <2>5, <2>6, <2>7, <2>8
      DEF Next, enqueue, enqueueFails, markFails, relayCrash, process,
          attemptFails, attemptFailsForGood, backoffEnds, onFailed,
          onFailedUnreachable, recordDeadLetterFails, vars
  <1>4. QED
    BY <1>2, <1>3

\* A relay is about to mark what it has just enqueued or what it was about to
\* mark already, and has nothing to mark without a batch.
LEMMA BatchStep ==
  ASSUME PipelineInv, KeptInv, [Next]_vars, NEW r \in Relays
  PROVE  /\ batch'[r] # <<>> /\ step'[r] = "mark"
              => \/ enqueue(r)
                 \/ batch'[r] = batch[r] /\ step[r] = "mark"
         /\ batch'[r] = <<>> => step'[r] = "enqueue"
  <1>1. /\ batch \in [Relays -> Seq(Leased)]
        /\ step \in [Relays -> {"enqueue", "mark"}]
        /\ batch[r] = <<>> => step[r] = "enqueue"
    BY DEF PipelineInv, TypeOK, KeptInv
  <1>2. CASE batch'[r] = batch[r] /\ step'[r] = step[r]
    BY <1>1, <1>2
  <1>3. CASE \E q \in Relays : leaseRows(q)
    <2>1. PICK q \in Relays : leaseRows(q)
      BY <1>3
    <2>2. step' = step /\ batch[q] = <<>> /\ (q # r => batch'[r] = batch[r])
      BY <1>1, <2>1 DEF leaseRows
    <2>3. QED
      BY <1>1, <1>2, <2>2
  <1>4. CASE \E q \in Relays : enqueue(q)
    BY <1>1, <1>4 DEF enqueue
  <1>5. CASE \E q \in Relays : \/ enqueueFails(q) \/ mark(q) \/ markFails(q)
                               \/ relayCrash(q)
    <2>1. PICK q \in Relays : /\ step' = [step EXCEPT ![q] = "enqueue"]
                              /\ \A x \in Relays \ {q} : batch'[x] = batch[x]
      BY <1>1, <1>5 DEF enqueueFails, mark, markFails, relayCrash, nextRow
    <2>2. QED
      BY <1>1, <1>2, <2>1
  <1>6. CASE UNCHANGED relayVars
    BY <1>2, <1>6 DEF relayVars
  <1>7. QED
    BY <1>3, <1>4, <1>5, <1>6
    DEF Next, appendOutbox, leaseExpires, redriveEvent, process, attemptFails,
        attemptFailsForGood, backoffEnds, onFailed, onFailedUnreachable,
        recordDeadLetter, recordDeadLetterFails, vars

\* Every step keeps the invariant.
LEMMA NextKept ==
  ASSUME PipelineInv, KeptInv, Lossless, [Next]_vars
  PROVE  KeptInv'
  <1>1. ASSUME NEW e \in Events', rows'[e].published
        PROVE  Kept(e)'
    <2>1. e \in Events /\ Kept(e)
      BY <1>1, PublishStep DEF KeptInv, mark
    <2>2. ~redriveEvent(e)
      BY <1>1, <2>1 DEF redriveEvent, PipelineInv, TypeOK
    <2>3. QED
      BY <2>1, <2>2, KeptStep
  <1>2. ASSUME NEW r \in Relays, NEW e, batch'[r] # <<>>, step'[r] = "mark",
               e = Head(batch'[r]).event
        PROVE  Kept(e)'
    <2>1. CASE enqueue(r)
      <3>1. batch' = batch /\ e = Head(batch[r]).event
        BY <1>2, <2>1 DEF enqueue
      <3>2. Head(batch[r]) \in Leased /\ jobs \in Seq(Job)
        BY <2>1, TailIs DEF PipelineInv, TypeOK, enqueue
      <3> DEFINE j == [event |-> e, attempt |-> Head(batch[r]).attempt,
                       tries |-> 0]
      <3>3. j \in Job /\ j.event = e
        BY <3>1, <3>2, TriesBound DEF Leased, Job
      <3>4. jobs' = Append(jobs, j)
        BY <2>1, <3>1 DEF enqueue
      <3> HIDE DEF j
      <3>5. \E i \in DOMAIN jobs' : jobs'[i] = j
        BY <3>2, <3>3, <3>4, AppendIs
      <3>6. QED
        BY <3>3, <3>5 DEF Kept
    <2>2. CASE batch'[r] = batch[r] /\ step[r] = "mark"
      <3>1. batch[r] # <<>> /\ e = Head(batch[r]).event /\ Kept(e)
        BY <1>2, <2>2 DEF KeptInv
      <3>2. /\ Head(batch[r]) \in Leased /\ Head(batch[r]) = batch[r][1]
            /\ 1 \in DOMAIN batch[r]
        BY <3>1, TailIs DEF PipelineInv, TypeOK
      <3>3. e \in Events
        BY <3>1, <3>2 DEF Leased
      <3>4. ~redriveEvent(e)
        BY <3>1, <3>2 DEF redriveEvent, Lossless
      <3>5. QED
        BY <3>1, <3>3, <3>4, KeptStep
    <2>3. QED
      BY <1>2, <2>1, <2>2, BatchStep
  <1>3. \A r \in Relays : batch'[r] = <<>> => step'[r] = "enqueue"
    BY BatchStep
  <1>4. QED
    BY <1>1, <1>2, <1>3 DEF KeptInv, Kept, inInbox

\* An emitted event is never lost between two stages, whatever crashes, fails,
\* is retried or enqueued twice: the relay marks a row only after it has
\* enqueued it, and each stage hands a job on before it drops it.  The three
\* faults left out are the ones under which the code does lose events.
THEOREM EventsAreNotLost ==
  ASSUME Faults \cap {"dlq_unreachable", "record_error", "slow_mark"} = {}
  PROVE  Spec => []NoEventLost
  <1>1. Lossless
    BY DEF Lossless
  <1>2. Init => KeptInv
    <2> SUFFICES ASSUME Init PROVE KeptInv
      OBVIOUS
    <2>1. Events = {}
      BY DEF Init, Events
    <2>2. QED
      BY <2>1 DEF Init, KeptInv
  <1>3. (PipelineInv /\ KeptInv) /\ [Next]_vars => (PipelineInv /\ KeptInv)'
    BY <1>1, NextPipeline, NextKept
  <1>4. PipelineInv /\ KeptInv => NoEventLost
    BY DEF KeptInv, Kept, NoEventLost
  <1>5. QED
    BY <1>2, <1>3, <1>4, InitPipeline, PTL DEF Spec

-----------------------------------------------------------------------------
(* Convergence *)

Last(p) == p[Len(p)]

\* An event after which the last one still has the final word.
Before(last, e) ==
  \/ e.type \in {"Started", "Blocked"} \cup Acknowledged \cup Bypassing
  \/ e.type = "Closed" /\ e.result # "NOT_EXECUTED"
       /\ last.type = "FollowUpRequired"

\* A history that ends with its close or with the follow-up of an executed
\* order, at a version of its own.
Concluded(p) ==
  /\ Len(p) > 0
  /\ Last(p).type \in {"Closed", "FollowUpRequired"}
  /\ \A i \in 1 .. (Len(p) - 1) :
       p[i].version < Last(p).version /\ Before(Last(p), p[i])

\* The projections before the last event is applied: it will not be kept out
\* by a status it does not overwrite.
Early(last, p) ==
  /\ p.calendar \in {"NONE", "SCHEDULED", "IN_PROGRESS"}
                      \cup (IF last.type = "Closed" THEN {} ELSE {"COMPLETED"})
  /\ last.type = "Closed" => p.visit # "CLOSED"

\* And after it.
Final(last, p) ==
  LET undone == last.type = "Closed" /\ last.result = "NOT_EXECUTED"
      followUp == last.type = "FollowUpRequired"
  IN  /\ p.calendar \in {"NONE", IF undone THEN "CANCELLED" ELSE "COMPLETED"}
      /\ p.visit = IF undone \/ followUp THEN "REQUIRES_RESCHEDULE" ELSE "CLOSED"
      /\ p.task \in {"NONE", IF undone THEN "READY"
                             ELSE IF followUp THEN "PENDING_INTERNAL"
                             ELSE "RESOLVED"}

\* The order has an agenda event, and a linked task, in both or in none.
SameLinks(p, q) ==
  /\ p.calendar = "NONE" <=> q.calendar = "NONE"
  /\ p.task = "NONE" <=> q.task = "NONE"

LogIsPrefix ==
  Len(log) <= Len(plan) /\ \A i \in DOMAIN log : log[i] = plan[i]

LastDecides ==
  /\ inInbox(Len(plan)) => Final(Last(plan), proj)
  /\ ~ inInbox(Len(plan)) => Early(Last(plan), proj) /\ Len(plan) \notin skipped

ConvergenceInv == PipelineInv /\ LogIsPrefix /\ LastDecides

LEMMA EarlyKept ==
  ASSUME NEW last \in Event, NEW e \in Event, NEW p \in Projection,
         last.type \in {"Closed", "FollowUpRequired"}, Before(last, e),
         Early(last, p)
  PROVE  Early(last, handler(e, p)) /\ SameLinks(handler(e, p), p)
  BY DEF Early, Before, SameLinks, handler, Projection, TaskStatus,
         transitionLinkedTask, Event, EventType, Projected, Acknowledged, Bypassing,
         CloseResult, Unless, applyExecutionOrderStarted, applyExecutionOrderBlocked,
         applyExecutionOrderClosed, applyExecutionOrderFollowUp

LEMMA FinalReached ==
  ASSUME NEW last \in Event, NEW p \in Projection,
         last.type \in {"Closed", "FollowUpRequired"}, Early(last, p)
  PROVE  Final(last, handler(last, p)) /\ SameLinks(handler(last, p), p)
  BY DEF Early, Final, SameLinks, handler, Projection, TaskStatus,
         transitionLinkedTask, Event, EventType, Projected, Acknowledged, Bypassing,
         CloseResult, Unless, applyExecutionOrderClosed, applyExecutionOrderFollowUp

LEMMA FinalIsOne ==
  ASSUME NEW last \in Event, NEW p \in Projection, NEW q \in Projection,
         Final(last, p), Final(last, q), SameLinks(p, q)
  PROVE  p = q
<1>1. p.calendar = q.calendar /\ p.visit = q.visit /\ p.task = q.task
  BY DEF Final, SameLinks
<1> QED
  BY <1>1 DEF Projection

LEMMA QuietEvent ==
  ASSUME NEW e \in Event, NEW p, e.type \in Bypassing
  PROVE  handler(e, p) = p
  BY DEF handler, Bypassing

\* The histories of this instance, and the events of the one under way.
LEMMA PlanConcluded ==
  ASSUME \A p \in Plans : Concluded(p), PipelineInv
  PROVE  /\ plan \in Seq(Event) /\ Len(plan) \in Nat /\ Len(plan) > 0
         /\ Last(plan) \in Event
         /\ Last(plan).type \in {"Closed", "FollowUpRequired"}
         /\ \A i \in 1 .. (Len(plan) - 1) :
              /\ plan[i] \in Event
              /\ plan[i].version < Last(plan).version
              /\ Before(Last(plan), plan[i])
<1>1. plan \in Seq(Event) /\ Concluded(plan)
  BY PlansAreHistories DEF PipelineInv, TypeOK
<1>2. Len(plan) \in Nat /\ Len(plan) > 0
  BY <1>1 DEF Concluded
<1>3. \A i \in 1 .. Len(plan) : plan[i] \in Event
  BY <1>1
<1> QED
  BY <1>1, <1>2, <1>3 DEF Concluded, Last

\* The event at hand is the last one or precedes it.
LEMMA EventOfPlan ==
  ASSUME \A p \in Plans : Concluded(p), PipelineInv, LogIsPrefix, NEW e \in Events
  PROVE  /\ log[e] \in Event /\ log[e] = plan[e]
         /\ e # Len(plan) => e \in 1 .. (Len(plan) - 1)
         /\ e = Len(plan) => log[e] = Last(plan)
<1>1. /\ log \in Seq(Event) /\ Len(log) <= Len(plan)
      /\ \A i \in DOMAIN log : log[i] = plan[i]
  BY DEF PipelineInv, TypeOK, LogIsPrefix
<1>2. e \in 1 .. Len(log) /\ Len(log) \in Nat /\ log[e] \in Event
  BY <1>1 DEF Events
<1>3. Len(plan) \in Nat
  BY PlanConcluded
<1> QED
  BY <1>1, <1>2, <1>3 DEF Events, Last

\* Emitting an event moves at most the linked task, and never after the last.
LEMMA AppendConverges ==
  ASSUME \A p \in Plans : Concluded(p), ConvergenceInv, appendOutbox
  PROVE  LogIsPrefix' /\ LastDecides'
<1>0. PipelineInv /\ LogIsPrefix /\ LastDecides
  BY DEF ConvergenceInv
<1>1. /\ plan' = plan /\ inbox' = inbox /\ skipped' = skipped
      /\ Len(log) < Len(plan) /\ log' = Append(log, plan[Len(log) + 1])
      /\ proj' = [proj EXCEPT !.task =
                    transitionStatus(plan[Len(log) + 1], proj.task)]
  BY DEF appendOutbox, consumerVars
<1>2. /\ log \in Seq(Event) /\ proj \in Projection
      /\ inbox \subseteq [event: Events, version: Nat]
      /\ plan \in Seq(Event) /\ Len(plan) \in Nat
  BY <1>0, PlanConcluded DEF PipelineInv, TypeOK
<1>3. LogIsPrefix'
  <2>1. Len(log) \in Nat /\ plan[Len(log) + 1] \in Event
    BY <1>1, <1>2
  <2>2. /\ DOMAIN log' = 1 .. (Len(log) + 1) /\ Len(log') = Len(log) + 1
        /\ \A i \in DOMAIN log : log'[i] = log[i]
        /\ log'[Len(log) + 1] = plan[Len(log) + 1]
    BY <1>1, <1>2, <2>1, AppendIs
  <2>3. \A i \in DOMAIN log : log[i] = plan[i]
    BY <1>0 DEF LogIsPrefix
  <2>4. Len(log') <= Len(plan)
    BY <1>1, <1>2, <2>1, <2>2
  <2>5. \A i \in 1 .. (Len(log) + 1) : i \in DOMAIN log \/ i = Len(log) + 1
    BY <1>2, <2>1
  <2> QED
    BY <1>1, <2>2, <2>3, <2>4, <2>5 DEF LogIsPrefix
<1>4. ~ inInbox(Len(plan))
  <2>1. Len(plan) \notin Events
    BY <1>1, <1>2 DEF Events
  <2> QED
    BY <1>2, <2>1 DEF inInbox
<1>5. proj'.calendar = proj.calendar /\ proj'.visit = proj.visit
  BY <1>1, <1>2 DEF Projection
<1>6. LastDecides'
  BY <1>0, <1>1, <1>4, <1>5 DEF LastDecides, inInbox, Early, Last
<1> QED
  BY <1>3, <1>6

\* The consumer lets no event that the last one overrides in after it, and
\* never drops the last one.
LEMMA ProcessConverges ==
  ASSUME \A p \in Plans : Concluded(p), ConvergenceInv, process
  PROVE  LogIsPrefix' /\ LastDecides'
<1> DEFINE L == Len(plan)
           e == Head(jobs).event
<1>0. PipelineInv /\ LogIsPrefix /\ LastDecides
  BY DEF ConvergenceInv
<1>1. plan' = plan /\ log' = log
  BY DEF process
<1>2. LogIsPrefix'
  BY <1>0, <1>1 DEF LogIsPrefix
<1>3. e \in Events /\ proj \in Projection /\ InboxOK
      /\ inbox \subseteq [event: Events, version: Nat]
  BY <1>0, HeadJob DEF process, PipelineInv, TypeOK
<1>4. /\ log[e] \in Event /\ log[e] = plan[e]
      /\ e # L => e \in 1 .. (L - 1)
      /\ e = L => log[e] = Last(plan)
  BY <1>0, <1>3, EventOfPlan
<1>5. /\ Last(plan) \in Event /\ Last(plan).type \in {"Closed", "FollowUpRequired"}
      /\ \A i \in 1 .. (L - 1) : /\ plan[i].version < Last(plan).version
                                 /\ Before(Last(plan), plan[i])
  BY <1>0, PlanConcluded
<1>6. \A row \in inbox : row.event # L => row.version < Last(plan).version
  BY <1>0, <1>3, <1>5, EventOfPlan DEF InboxOK
<1>7. \A row \in inbox : row.event = L => row.version = Last(plan).version
  BY <1>0, <1>3, EventOfPlan DEF InboxOK
<1>8. CASE versionGateOpen(e) /\ ~ inInbox(e)
  <2>1. /\ inbox' = inbox \cup {[event |-> e, version |-> log[e].version]}
        /\ proj' = handler(log[e], proj) /\ skipped' = skipped
    BY <1>8 DEF process
  <2>2. inInbox(L)' <=> inInbox(L) \/ e = L
    <3> DEFINE new == [event |-> e, version |-> log[e].version]
    <3>1. new.event = e /\ inbox' = inbox \cup {new}
      BY <2>1
    <3> HIDE DEF new, e
    <3> QED
      BY <1>1, <3>1 DEF inInbox
  <2>3. CASE e = L
    <3>1. Final(Last(plan), proj')
      BY <1>0, <1>3, <1>4, <1>5, <1>8, <2>1, <2>3, FinalReached DEF LastDecides
    <3> QED
      BY <1>1, <1>2, <2>2, <2>3, <3>1 DEF LastDecides, Final, Last
  <2>4. CASE e # L /\ ~ inInbox(L)
    <3>1. Early(Last(plan), proj')
      BY <1>0, <1>3, <1>4, <1>5, <2>1, <2>4, EarlyKept DEF LastDecides
    <3> QED
      BY <1>0, <1>1, <1>2, <2>1, <2>2, <2>4, <3>1 DEF LastDecides, Early, Last
  <2>5. CASE e # L /\ inInbox(L)
    <3>1. PICK row \in inbox : row.event = L
      BY <2>5 DEF inInbox
    <3>2. row.version = Last(plan).version /\ log[e].version < Last(plan).version
      BY <1>4, <1>5, <1>7, <2>5, <3>1
    <3>3. /\ Last(plan).version \in Nat /\ log[e].version \in Nat
      BY <1>4, <1>5 DEF Event
    <3>4. ~ (row.version < log[e].version)
      BY <3>2, <3>3
    <3>5. log[e].type \in Bypassing
      BY <1>8, <3>4 DEF versionGateOpen
    <3>6. proj' = proj
      BY <1>4, <2>1, <3>5, QuietEvent
    <3> QED
      BY <1>0, <1>1, <1>2, <2>2, <2>5, <3>6 DEF LastDecides, Final, Last
  <2> QED
    BY <2>3, <2>4, <2>5
<1>9. CASE ~ (versionGateOpen(e) /\ ~ inInbox(e))
  <2>1. /\ inbox' = inbox /\ proj' = proj
        /\ skipped' = IF inInbox(e) THEN skipped ELSE skipped \cup {e}
    BY <1>9 DEF process
  <2>2. ASSUME ~ inInbox(L)
        PROVE  L \notin skipped'
    <3>1. L \notin skipped
      BY <1>0, <2>2 DEF LastDecides
    <3>2. CASE e = L
      <4>1. \A row \in inbox : row.version < log[e].version
        BY <1>4, <1>6, <2>2, <3>2 DEF inInbox
      <4>2. versionGateOpen(e)
        BY <4>1 DEF versionGateOpen
      <4> QED
        BY <1>9, <2>2, <3>2, <4>2
    <3> QED
      BY <2>1, <3>1, <3>2
  <2> QED
    BY <1>0, <1>1, <1>2, <2>1, <2>2 DEF LastDecides, inInbox, Early, Final, Last
<1> QED
  BY <1>8, <1>9

LEMMA NextConverges ==
  ASSUME \A p \in Plans : Concluded(p)
  PROVE  ConvergenceInv /\ [Next]_vars => ConvergenceInv'
<1> SUFFICES ASSUME ConvergenceInv, [Next]_vars
             PROVE  ConvergenceInv'
  OBVIOUS
<1>0. PipelineInv'
  BY NextPipeline DEF ConvergenceInv
<1>1. CASE UNCHANGED <<plan, log, proj, inbox, skipped>>
  BY <1>0, <1>1 DEF ConvergenceInv, LogIsPrefix, LastDecides, inInbox, Early, Final,
                    Last
<1>2. CASE appendOutbox
  BY <1>0, <1>2, AppendConverges DEF ConvergenceInv
<1>3. CASE process
  BY <1>0, <1>3, ProcessConverges DEF ConvergenceInv
<1>4. CASE ~ appendOutbox /\ ~ process /\ Next
  <2>1. UNCHANGED <<plan, log, proj, inbox, skipped>>
    BY <1>4 DEF Next, leaseRows, enqueue, enqueueFails, mark, markFails, relayCrash,
       leaseExpires, redriveEvent, attemptFails, attemptFailsForGood,
       backoffEnds, onFailed, onFailedUnreachable, recordDeadLetter,
       recordDeadLetterFails, consumerVars
  <2> QED
    BY <1>1, <2>1
<1>5. CASE UNCHANGED vars
  BY <1>1, <1>5 DEF vars, consumerVars
<1> QED
  BY <1>2, <1>3, <1>4, <1>5

LEMMA InitConverges ==
  ASSUME \A p \in Plans : Concluded(p)
  PROVE  Init => ConvergenceInv
<1> SUFFICES ASSUME Init PROVE ConvergenceInv
  OBVIOUS
<1>1. PipelineInv
  BY InitPipeline
<1>2. Len(plan) \in Nat /\ Len(log) = 0 /\ DOMAIN log = {}
  BY <1>1, PlanConcluded DEF Init
<1>3. LogIsPrefix
  BY <1>2 DEF LogIsPrefix
<1>4. Early(Last(plan), proj) /\ ~ inInbox(Len(plan)) /\ skipped = {}
  BY DEF Init, Early, inInbox
<1> QED
  BY <1>1, <1>3, <1>4 DEF ConvergenceInv, LastDecides

\* g[n] is the projection after the first n events of h, from p; and the same
\* up to the event k only.
IsFold(g, p, h) ==
  g = [n \in 0 .. Len(h) |-> IF n = 0 THEN p ELSE handler(h[n], g[n - 1])]
FoldTo(g, p, h, k) ==
  /\ g \in [0 .. Len(h) -> Projection]
  /\ g[0] = p
  /\ \A n \in 1 .. Len(h) : n <= k => g[n] = handler(h[n], g[n - 1])

LEMMA FoldExists ==
  ASSUME NEW h \in Seq(Event), NEW p \in Projection
  PROVE  \E g : IsFold(g, p, h)
<1> DEFINE Good(k) == \E g : FoldTo(g, p, h, k)
           Bad == {k \in Nat : ~ Good(k)}
<1>0. Len(h) \in Nat /\ \A n \in 1 .. Len(h) : h[n] \in Event
  OBVIOUS
<1>1. Good(0)
  <2> DEFINE z == [n \in 0 .. Len(h) |-> p]
  <2>1. FoldTo(z, p, h, 0)
    BY <1>0 DEF FoldTo
  <2> QED
    BY <2>1
<1>2. ASSUME NEW k \in Nat, Good(k)
      PROVE  Good(k + 1)
  <2>1. PICK g : FoldTo(g, p, h, k)
    BY <1>2
  <2> DEFINE q == [n \in 0 .. Len(h) |->
                     IF n <= k THEN g[n]
                     ELSE IF n = k + 1 THEN handler(h[n], g[k]) ELSE p]
  <2>2. g \in [0 .. Len(h) -> Projection] /\ g[0] = p
        /\ \A n \in 1 .. Len(h) : n <= k => g[n] = handler(h[n], g[n - 1])
    BY <2>1 DEF FoldTo
  <2>3. q \in [0 .. Len(h) -> Projection]
    <3> SUFFICES ASSUME NEW n \in 0 .. Len(h)
                 PROVE  (IF n <= k THEN g[n]
                         ELSE IF n = k + 1 THEN handler(h[n], g[k]) ELSE p)
                        \in Projection
      OBVIOUS
    <3>1. CASE n <= k
      BY <2>2, <3>1
    <3>2. CASE n = k + 1
      <4>1. n \in 1 .. Len(h) /\ k \in 0 .. Len(h) /\ ~ (n <= k)
        BY <1>0, <3>2
      <4>2. h[n] \in Event /\ g[k] \in Projection
        BY <1>0, <2>2, <4>1
      <4>3. handler(h[n], g[k]) \in Projection
        BY <4>2, HandlerType
      <4> QED
        BY <3>2, <4>1, <4>3
    <3> QED
      BY <3>1, <3>2
  <2>4. q[0] = p
    BY <1>0, <2>2
  <2>5. ASSUME NEW n \in 1 .. Len(h), n <= k + 1
        PROVE  q[n] = handler(h[n], q[n - 1])
    <3>1. n \in 0 .. Len(h) /\ n - 1 \in 0 .. Len(h) /\ n - 1 <= k
      BY <1>0, <2>5
    <3>2. q[n - 1] = g[n - 1]
      BY <3>1
    <3>3. CASE n <= k
      BY <2>2, <3>1, <3>2, <3>3
    <3>4. CASE n = k + 1
      <4>1. n - 1 = k /\ ~ (n <= k)
        BY <3>4
      <4>2. q[n] = handler(h[n], g[k])
        BY <3>1, <3>4, <4>1
      <4> QED
        BY <3>2, <4>1, <4>2
    <3> QED
      BY <2>5, <3>3, <3>4
  <2>6. FoldTo(q, p, h, k + 1)
    <3> HIDE DEF q
    <3> QED
      BY <2>3, <2>4, <2>5 DEF FoldTo
  <2> QED
    BY <2>6
<1>3. ASSUME NEW k \in Nat
      PROVE  Good(k)
  <2> SUFFICES ASSUME ~ Good(k) PROVE FALSE
    OBVIOUS
  <2>1. PICK n \in Bad : \A m \in Bad : n <= m
    <3>1. Bad \in SUBSET Nat /\ Bad # {}
      OBVIOUS
    <3> HIDE DEF Bad
    <3> QED
      BY <3>1, LeastNat
  <2> HIDE DEF Good
  <2>2. n \in Nat /\ ~ Good(n) /\ \A m \in Nat : m < n => Good(m)
    BY <2>1
  <2>3. n # 0 /\ n - 1 \in Nat /\ n - 1 < n
    BY <1>1, <2>2
  <2>4. Good((n - 1) + 1)
    BY <1>2, <2>2, <2>3
  <2>5. (n - 1) + 1 = n
    BY <2>2
  <2> QED
    BY <2>2, <2>4, <2>5
<1>4. PICK g : FoldTo(g, p, h, Len(h))
  BY <1>0, <1>3
<1>5. /\ g \in [0 .. Len(h) -> Projection] /\ g[0] = p
      /\ \A n \in 1 .. Len(h) : g[n] = handler(h[n], g[n - 1])
  BY <1>0, <1>4 DEF FoldTo
<1>6. \A n \in 0 .. Len(h) : n = 0 \/ n \in 1 .. Len(h)
  BY <1>0
<1>7. g = [n \in 0 .. Len(h) |-> IF n = 0 THEN p ELSE handler(h[n], g[n - 1])]
  BY <1>5, <1>6
<1> QED
  BY <1>7 DEF IsFold

\* Every projection on the way is early, and has the links of the first one.
LEMMA FoldIsEarly ==
  ASSUME NEW h \in Seq(Event), Concluded(h), NEW p \in Projection,
         Early(Last(h), p), NEW g, IsFold(g, p, h)
  PROVE  g[Len(h)] \in Projection /\ Final(Last(h), g[Len(h)])
         /\ SameLinks(g[Len(h)], p)
<1> DEFINE Good(k) == /\ g[k] \in Projection /\ Early(Last(h), g[k])
                      /\ SameLinks(g[k], p)
           Bad == {k \in 0 .. (Len(h) - 1) : ~ Good(k)}
<1>0. /\ Len(h) \in Nat /\ Len(h) > 0 /\ Last(h) = h[Len(h)]
      /\ \A n \in 1 .. Len(h) : h[n] \in Event
      /\ Last(h).type \in {"Closed", "FollowUpRequired"}
      /\ \A n \in 1 .. (Len(h) - 1) : Before(Last(h), h[n])
  BY DEF Concluded, Last
<1>1. Last(h) \in Event
  BY <1>0
<1>2. /\ g[0] = p
      /\ \A n \in 1 .. Len(h) : g[n] = handler(h[n], g[n - 1])
  <2>1. \A n \in 0 .. Len(h) :
          g[n] = IF n = 0 THEN p ELSE handler(h[n], g[n - 1])
    BY DEF IsFold
  <2> QED
    BY <1>0, <2>1
<1>3. Good(0)
  BY <1>2 DEF SameLinks
<1>4. ASSUME NEW n \in 1 .. (Len(h) - 1), Good(n - 1)
      PROVE  Good(n)
  <2>1. n \in 1 .. Len(h) /\ h[n] \in Event /\ Before(Last(h), h[n])
    BY <1>0
  <2>2. g[n] = handler(h[n], g[n - 1])
    BY <1>2, <2>1
  <2>3. handler(h[n], g[n - 1]) \in Projection
    BY <1>4, <2>1, HandlerType
  <2>4. Early(Last(h), handler(h[n], g[n - 1]))
        /\ SameLinks(handler(h[n], g[n - 1]), g[n - 1])
    BY <1>0, <1>1, <1>4, <2>1, EarlyKept
  <2> QED
    BY <1>4, <2>2, <2>3, <2>4 DEF SameLinks
<1>5. Bad = {}
  <2> SUFFICES ASSUME Bad # {} PROVE FALSE
    OBVIOUS
  <2>1. PICK n \in Bad : \A m \in Bad : n <= m
    <3>1. Bad \in SUBSET Nat
      BY <1>0
    <3> HIDE DEF Bad
    <3> QED
      BY <3>1, LeastNat
  <2> HIDE DEF Good
  <2>2. /\ n \in 0 .. (Len(h) - 1) /\ ~ Good(n)
        /\ \A m \in 0 .. (Len(h) - 1) : m < n => Good(m)
    BY <1>0, <2>1
  <2>3. n # 0
    BY <1>3, <2>2
  <2>4. n \in 1 .. (Len(h) - 1) /\ n - 1 \in 0 .. (Len(h) - 1) /\ n - 1 < n
    BY <1>0, <2>2, <2>3
  <2> QED
    BY <1>4, <2>2, <2>4
<1>6. Good(Len(h) - 1)
  <2>1. Len(h) - 1 \in 0 .. (Len(h) - 1)
    BY <1>0
  <2> HIDE DEF Good
  <2> QED
    BY <1>5, <2>1
<1>7. g[Len(h)] = handler(Last(h), g[Len(h) - 1])
  BY <1>0, <1>2
<1>8. handler(Last(h), g[Len(h) - 1]) \in Projection
  BY <1>1, <1>6, HandlerType
<1>9. Final(Last(h), handler(Last(h), g[Len(h) - 1]))
      /\ SameLinks(handler(Last(h), g[Len(h) - 1]), g[Len(h) - 1])
  BY <1>0, <1>1, <1>6, FinalReached
<1> QED
  BY <1>6, <1>7, <1>8, <1>9 DEF SameLinks

\* The state Init gives an order with the links it has now.
Fresh ==
  [calendar |-> IF proj.calendar = "NONE" THEN "NONE" ELSE "SCHEDULED",
   visit |-> "SCHEDULED",
   task |-> IF proj.task = "NONE" THEN "NONE" ELSE "SCHEDULED"]

LEMMA InOrderIsFold ==
  InOrder = (CHOOSE g : IsFold(g, Fresh, log))[Len(log)]
BY DEF InOrder, IsFold, Fresh

\* Once everything is settled the whole history is applied or overtaken, the
\* last event applied, and both orders of delivery end in its final state.
LEMMA SettledConverges ==
  ASSUME \A p \in Plans : Concluded(p), ConvergenceInv
  PROVE  Convergence
<1> SUFFICES ASSUME Settled PROVE proj = InOrder
  BY DEF Convergence
<1>0. PipelineInv /\ LogIsPrefix /\ LastDecides
  BY DEF ConvergenceInv
<1>1. /\ plan \in Seq(Event) /\ Len(plan) \in Nat /\ Len(plan) > 0
      /\ Last(plan) \in Event /\ Concluded(plan)
  BY <1>0, PlanConcluded DEF PipelineInv, TypeOK
<1>2. log \in Seq(Event) /\ proj \in Projection
  BY <1>0 DEF PipelineInv, TypeOK
<1>3. \A i \in Events : inInbox(i) \/ i \in skipped
  BY DEF Settled, Delivered
<1>4. log = plan
  BY DEF Settled
<1>5. Len(plan) \in Events
  BY <1>1, <1>4 DEF Events
<1>6. Final(Last(plan), proj)
  BY <1>0, <1>3, <1>5 DEF LastDecides
<1>7. Fresh \in Projection /\ Early(Last(plan), Fresh) /\ SameLinks(Fresh, proj)
  BY DEF Fresh, Projection, TaskStatus, Early, SameLinks
<1> DEFINE g == CHOOSE f : IsFold(f, Fresh, log)
<1>8. IsFold(g, Fresh, log)
  BY <1>2, <1>7, FoldExists
<1>9. InOrder = g[Len(log)]
  BY InOrderIsFold
<1> HIDE DEF g
<1>10. /\ g[Len(log)] \in Projection /\ Final(Last(log), g[Len(log)])
       /\ SameLinks(g[Len(log)], Fresh)
  BY <1>1, <1>4, <1>7, <1>8, FoldIsEarly
<1>11. SameLinks(proj, g[Len(log)])
  BY <1>7, <1>10 DEF SameLinks
<1> QED
  BY <1>1, <1>2, <1>4, <1>6, <1>9, <1>10, <1>11, FinalIsOne

\* For a history that ends with its close, or with the follow-up of an order
\* that was executed, at a version no other event has: whatever the relays,
\* the queue and the consumer's retries duplicate, reorder or overtake, and
\* whichever faults occur, an order whose events are all decided shows the
\* agenda event, the visit and the task that processing each event once and in
\* order would have left.
THEOREM ProjectionsConverge ==
  ASSUME \A p \in Plans : Concluded(p)
  PROVE  Spec => []Convergence
<1>1. Init => ConvergenceInv
  BY InitConverges
<1>2. ConvergenceInv /\ [Next]_vars => ConvergenceInv'
  BY NextConverges
<1>3. ConvergenceInv => Convergence
  BY SettledConverges
<1> QED
  BY <1>1, <1>2, <1>3, PTL DEF Spec
=============================================================================
