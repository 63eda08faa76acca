----------------------------- MODULE BillingSafety -----------------------------
(***************************************************************************)
(* Allocations only between live rows and never beyond a total or an       *)
(* amount, signals that agree with the committed rows, consecutive         *)
(* numbers.  Every argument is about locks: what an open transaction has   *)
(* read and will write is protected by a lock it holds, so the commit of   *)
(* another one does not change it.                                         *)
(***************************************************************************)
EXTENDS BillingProofs

-----------------------------------------------------------------------------
(* The inductive invariant, in parts                                       *)

Exclusive == \A t, o \in Tx : t # o => tx[t].held \cap tx[o].held = {}

OneLive ==
  \A d, e \in Document :
    PeriodOf[d] = PeriodOf[e] /\ document[d] \in Live /\ document[e] \in Live
      => d = e

Generated(t, d) ==
  /\ Generation(PeriodOf[d]) \in tx[t].held
  /\ document[d] = "none" /\ Alone(d)

\* A written status follows the committed one, under the lock of the document
\* or, for a new document, of its period.
DocumentsOwned(t) ==
  \A d \in Document :
    /\ tx[t].doc[d] = "ANULADO" =>
         Doc(d) \in tx[t].held /\ document[d] = "EMITIDO"
    /\ tx[t].doc[d] = "none" =>
         Doc(d) \in tx[t].held /\ document[d] = "BORRADOR"
    /\ tx[t].doc[d] = "BORRADOR" => Generated(t, d)
    /\ tx[t].doc[d] = "EMITIDO" =>
         \/ Doc(d) \in tx[t].held /\ document[d] = "BORRADOR"
         \/ Generated(t, d)

OneLiveWritten(t) ==
  \A d, e \in Document :
    /\ PeriodOf[d] = PeriodOf[e]
    /\ tx[t].doc[d] \in Live /\ tx[t].doc[e] \in Live
    => d = e

PaymentsOwned(t) ==
  \A p \in Payment :
    /\ tx[t].pay[p] = "ANULADO" =>
         Pay(p) \in tx[t].held /\ payment[p] = "REGISTRADO"
    /\ tx[t].pay[p] = "REGISTRADO" =>
         Pay(p) \in tx[t].held /\ payment[p] = "none"

\* The draft about to get its number, and the document that draws on credit.
DraftOwned(t) ==
  /\ tx[t].pc = "number" =>
       /\ tx[t].cur \in Document
       /\ SeenDocuments(t)[tx[t].cur] = "BORRADOR"
       /\ tx[t].doc[tx[t].cur] = "same" => Doc(tx[t].cur) \in tx[t].held
  /\ tx[t].pc \in {"balance", "draw"} =>
       tx[t].cur \in Document /\ tx[t].doc[tx[t].cur] = "EMITIDO"

LockInv ==
  /\ TypeOK
  /\ Exclusive
  /\ OneLive
  /\ \A t \in Tx : /\ DocumentsOwned(t)
                   /\ OneLiveWritten(t)
                   /\ PaymentsOwned(t)
                   /\ DraftOwned(t)

\* An amount the transaction has allocated, under the locks of both rows.
AddsOwned(t) ==
  \A p \in Payment, d \in Document :
    tx[t].add[<<p, d>>] > 0 =>
      /\ Pay(p) \in tx[t].held /\ Doc(d) \in tx[t].held
      /\ SeenPayments(t)[p] = "REGISTRADO" /\ SeenDocuments(t)[d] = "EMITIDO"

\* What the transaction voids it has reversed, but for the statement to come.
ReversesVoided(t) ==
  \A p \in Payment, d \in Document :
    /\ <<p, d>> \in tx[t].rev => Voided(t, p, d)
    /\ Voided(t, p, d) /\ tx[t].pc # "reverse" => <<p, d>> \in tx[t].rev

AllocInv ==
  /\ LockInv
  /\ AllocationsAreLive
  /\ \A t \in Tx : AddsOwned(t) /\ ReversesVoided(t)

Numbers(docs, num) == {num[d] : d \in WithNumber(docs)}

Consecutive(docs, num) == Numbers(docs, num) = 1 .. Cardinality(WithNumber(docs))

\* Who holds the lock of the numbers sees consecutive ones, its own included.
NumbersOwned(t) ==
  /\ \A d \in Document :
       /\ tx[t].num[d] # 0 <=> tx[t].doc[d] = "EMITIDO"
       /\ tx[t].doc[d] = "EMITIDO" => Number \in tx[t].held
  /\ tx[t].pc \in {"draft", "number"} => Number \in tx[t].held
  /\ Number \in tx[t].held => Consecutive(SeenDocuments(t), SeenNumbers(t))

NumberInv ==
  /\ LockInv
  /\ ConsecutiveNumbers
  /\ \A t \in Tx : NumbersOwned(t)

Todo(t) == tx[t].due \cup tx[t].done

\* Every write that can change the signal of a period is followed by its
\* recalculation, or is the issue of a document, which locks the period.
WritesDue(t) ==
  /\ \A p \in Payment, d \in Document :
       /\ tx[t].add[<<p, d>>] > 0 => PeriodOf[d] \in Todo(t)
       /\ Voided(t, p, d) /\ PeriodOf[d] \notin Todo(t) =>
            allocation[<<p, d>>] = 0
  /\ \A d \in Document :
       /\ tx[t].doc[d] = "ANULADO" => PeriodOf[d] \in Todo(t)
       /\ tx[t].doc[d] = "EMITIDO" => Per(PeriodOf[d]) \in tx[t].held

Issuing == {"draft", "number", "balance", "draw"}

Phases(t) ==
  /\ tx[t].pc \notin Issuing \cup {"signals"} => tx[t].todo = {}
  /\ tx[t].pc = "reverse" => tx[t].done = {}
  /\ tx[t].todo # {} \/ tx[t].pc \in Issuing =>
       \A x \in Todo(t) :
         \E d \in Document : PeriodOf[d] = x /\ tx[t].doc[d] = "EMITIDO"

SignalsSeen(t) ==
  \A x \in tx[t].done \ tx[t].due :
    /\ Per(x) \in tx[t].held
    /\ x \in tx[t].paid <=>
         PeriodPaid(SeenDocuments(t), SeenAllocations(t), x)

SignalInv ==
  /\ AllocInv
  /\ SignalIsDerived
  /\ \A t \in Tx : WritesDue(t) /\ Phases(t) /\ SignalsSeen(t)

-----------------------------------------------------------------------------
(* Locks                                                                   *)

LEMMA LockNames ==
  /\ \A d, e : Doc(d) = Doc(e) => d = e
  /\ \A p, q : Pay(p) = Pay(q) => p = q
  /\ \A x, y : Per(x) = Per(y) => x = y
  /\ \A x, y : Generation(x) = Generation(y) => x = y
  BY DEF Doc, Pay, Per, Generation

LEMMA MovesLock ==
  ASSUME LockInv, TypeOK', NEW t \in Tx, NEW locks,
         Begins(t, locks) \/ Goes(t, locks),
         DocumentsOwned(t)', OneLiveWritten(t)', PaymentsOwned(t)', DraftOwned(t)'
  PROVE  LockInv'
<1>1. \A o \in Tx \ {t} : tx'[o] = tx[o]
  BY DEF Begins, Goes, Moves
<1>2. document' = document /\ payment' = payment
  BY DEF Begins, Goes, Moves, rows
<1>3. Exclusive'
  <2>1. \A o \in Tx \ {t} : tx'[t].held \cap tx[o].held = {}
    BY DEF LockInv, Exclusive, Begins, Goes, Moves, Granted
  <2> QED
    BY <1>1, <2>1 DEF LockInv, Exclusive
<1>4. OneLive'
  BY <1>2 DEF LockInv, OneLive
<1>5. ASSUME NEW o \in Tx, o # t
      PROVE  DocumentsOwned(o)' /\ OneLiveWritten(o)' /\ PaymentsOwned(o)'
  BY <1>1, <1>2, <1>5 DEF LockInv, DocumentsOwned, Generated, Alone,
                           OneLiveWritten, PaymentsOwned
<1>6. ASSUME NEW o \in Tx, o # t
      PROVE  DraftOwned(o)'
  BY <1>1, <1>2, <1>6 DEF LockInv, DraftOwned, SeenDocuments
<1> QED
  BY <1>3, <1>4, <1>5, <1>6 DEF LockInv

\* A transaction that starts without a write, and one that rolls back.
LEMMA BlankLock ==
  ASSUME LockInv, TypeOK', NEW t \in Tx, NEW locks, Begins(t, locks),
         tx'[t].doc = NoDoc, tx'[t].pay = NoPay,
         tx'[t].pc \notin {"number", "balance", "draw"}
  PROVE  LockInv'
<1>1. DocumentsOwned(t)' /\ OneLiveWritten(t)' /\ PaymentsOwned(t)' /\ DraftOwned(t)'
  BY DEF DocumentsOwned, OneLiveWritten, PaymentsOwned, DraftOwned, NoDoc, NoPay,
         Live
<1> QED
  BY <1>1, MovesLock

\* A statement that writes neither a document nor a payment.
LEMMA KeepsLock ==
  ASSUME LockInv, TypeOK', NEW t \in Tx, NEW locks, Goes(t, locks),
         SameDocuments(t), tx'[t].pay = tx[t].pay, DraftOwned(t)'
  PROVE  LockInv'
<1>1. document' = document /\ payment' = payment
  BY DEF Goes, Moves, rows
<1>2. DocumentsOwned(t)' /\ OneLiveWritten(t)' /\ PaymentsOwned(t)'
  BY <1>1 DEF LockInv, Goes, SameDocuments, DocumentsOwned, Generated, Alone,
              OneLiveWritten, PaymentsOwned
<1> QED
  BY <1>2, MovesLock

LEMMA OpenLock ==
  ASSUME LockInv, TypeOK', NEW t \in Tx,
         \/ \E p \in Payment : \/ registerPayment(t, p) \/ allocateCredit(t, p)
                               \/ voidPayment(t, p)
         \/ \E d \in Document : generateOne(t, d) \/ discard(t, d) \/ void(t, d)
         \/ \E docs \in SUBSET Document : issue(t, docs)
         \/ Rollback(t)
  PROVE  LockInv'
<1> USE DEF LockInv
<1>1. CASE \/ \E p \in Payment : registerPayment(t, p) \/ allocateCredit(t, p)
           \/ \E docs \in SUBSET Document : issue(t, docs)
  BY <1>1, PlainFields, BlankLock
<1>2. CASE Rollback(t)
  BY <1>2, RollbackFields, BlankLock
<1>3. ASSUME NEW p \in Payment, voidPayment(t, p)
      PROVE  LockInv'
  <2>1. /\ Begins(t, {Pay(p)}) /\ payment[p] = "REGISTRADO" /\ tx'[t].doc = NoDoc
        /\ tx'[t].pay = [NoPay EXCEPT ![p] = "ANULADO"] /\ tx'[t].pc = "reverse"
    BY <1>3, voidPaymentFields
  <2>2. DocumentsOwned(t)' /\ OneLiveWritten(t)' /\ DraftOwned(t)'
    BY <2>1 DEF DocumentsOwned, OneLiveWritten, DraftOwned, NoDoc, Live
  <2>3. PaymentsOwned(t)'
    BY <2>1 DEF PaymentsOwned, NoPay, Begins, Moves, rows
  <2> QED
    BY <2>1, <2>2, <2>3, MovesLock
<1>4. ASSUME NEW d \in Document, void(t, d)
      PROVE  LockInv'
  <2>1. /\ Begins(t, {Doc(d)}) /\ document[d] = "EMITIDO" /\ tx'[t].pay = NoPay
        /\ tx'[t].doc = [NoDoc EXCEPT ![d] = "ANULADO"] /\ tx'[t].pc = "reverse"
    BY <1>4, voidFields
  <2>2. DocumentsOwned(t)'
    BY <2>1 DEF DocumentsOwned, NoDoc, Begins, Moves, rows
  <2>3. OneLiveWritten(t)' /\ DraftOwned(t)' /\ PaymentsOwned(t)'
    BY <2>1 DEF OneLiveWritten, DraftOwned, PaymentsOwned, NoDoc, NoPay, Live
  <2> QED
    BY <2>1, <2>2, <2>3, MovesLock
<1>5. ASSUME NEW d \in Document, discard(t, d)
      PROVE  LockInv'
  <2>1. /\ Begins(t, {Doc(d)}) /\ document[d] = "BORRADOR" /\ tx'[t].pay = NoPay
        /\ tx'[t].doc = [NoDoc EXCEPT ![d] = "none"] /\ tx'[t].pc = "signals"
    BY <1>5, discardFields
  <2>2. DocumentsOwned(t)'
    BY <2>1 DEF DocumentsOwned, NoDoc, Begins, Moves, rows
  <2>3. OneLiveWritten(t)' /\ DraftOwned(t)' /\ PaymentsOwned(t)'
    BY <2>1 DEF OneLiveWritten, DraftOwned, PaymentsOwned, NoDoc, NoPay, Live
  <2> QED
    BY <2>1, <2>2, <2>3, MovesLock
<1>6. ASSUME NEW d \in Document, generateOne(t, d)
      PROVE  LockInv'
  <2>1. /\ Begins(t, {Generation(PeriodOf[d])}) /\ document[d] = "none" /\ Alone(d)
        /\ tx'[t].pay = NoPay /\ tx'[t].pc = "signals"
        /\ tx'[t].doc = [NoDoc EXCEPT ![d] = "BORRADOR"]
    BY <1>6, generateOneFields
  <2>2. DocumentsOwned(t)'
    BY <2>1 DEF DocumentsOwned, Generated, Alone, NoDoc, Begins, Moves, rows
  <2>3. OneLiveWritten(t)' /\ DraftOwned(t)' /\ PaymentsOwned(t)'
    BY <2>1 DEF OneLiveWritten, DraftOwned, PaymentsOwned, NoDoc, NoPay, Live
  <2> QED
    BY <2>1, <2>2, <2>3, MovesLock
<1> QED
  BY <1>1, <1>2, <1>3, <1>4, <1>5, <1>6

LEMMA insertPaymentLock ==
  ASSUME LockInv, TypeOK', NEW t \in Tx, insertPayment(t)
  PROVE  LockInv'
<1>1. PICK p \in Payment :
        /\ Goes(t, {Pay(p)}) /\ payment[p] = "none"
        /\ tx'[t].pay = [tx[t].pay EXCEPT ![p] = "REGISTRADO"]
        /\ SameDocuments(t) /\ tx'[t].pc \in {"suggest", "list", "signals"}
  BY insertPaymentFields DEF LockInv
<1>2. document' = document /\ payment' = payment
  BY <1>1 DEF Goes, Moves, rows
<1>3. DocumentsOwned(t)' /\ OneLiveWritten(t)'
  BY <1>1, <1>2 DEF LockInv, Goes, SameDocuments, DocumentsOwned, Generated, Alone,
                    OneLiveWritten
<1>4. DraftOwned(t)'
  BY <1>1 DEF DraftOwned
<1>5. PaymentsOwned(t)'
  <2>1. tx[t].pay \in [Payment -> {"same", "REGISTRADO", "ANULADO"}]
    BY TxType DEF LockInv, Transaction
  <2> QED
    BY <1>1, <1>2, <2>1 DEF LockInv, PaymentsOwned, Goes
<1> QED
  BY <1>1, <1>3, <1>4, <1>5, MovesLock

LEMMA statementLock ==
  ASSUME LockInv, TypeOK', NEW t \in Tx,
         \/ suggestAllocations(t) \/ lockPayment(t) \/ lockCredit(t)
         \/ reverseAllocations(t) \/ recalculateSignals(t) \/ lockNumbering(t)
  PROVE  LockInv'
<1> USE DEF LockInv
<1>1. CASE suggestAllocations(t) \/ lockPayment(t) \/ lockCredit(t)
  <2>1. PICK locks \in SUBSET Lock :
          /\ Goes(t, locks) /\ SameDocuments(t)
          /\ tx'[t].pay = tx[t].pay /\ tx'[t].cur = tx[t].cur
          /\ \/ tx'[t].pc \in {"list", "apply", "signals"}
             \/ tx[t].pc = "balance" /\ tx'[t].pc \in {"draw", "signals"}
    BY <1>1, lockFields
  <2>2. DraftOwned(t)'
    BY <2>1 DEF DraftOwned, SameDocuments
  <2> QED
    BY <2>1, <2>2, KeepsLock
<1>2. CASE reverseAllocations(t)
  <2>1. /\ Goes(t, {}) /\ SameDocuments(t) /\ tx'[t].pay = tx[t].pay
        /\ tx'[t].pc = "signals"
    BY <1>2, reverseFields
  <2> QED
    BY <2>1, KeepsLock DEF DraftOwned
<1>3. CASE recalculateSignals(t)
  <2>1. PICK x \in tx[t].due :
          /\ Goes(t, {Per(x)}) /\ SameDocuments(t) /\ tx'[t].pay = tx[t].pay
          /\ tx'[t].pc = "signals"
    BY <1>3, recalculateFields
  <2> QED
    BY <2>1, KeepsLock DEF DraftOwned
<1>4. CASE lockNumbering(t)
  <2>1. /\ Goes(t, {Number, Subscriber}) /\ SameDocuments(t)
        /\ tx'[t].pay = tx[t].pay /\ tx'[t].pc = "draft"
    BY <1>4, lockNumberingFields
  <2> QED
    BY <2>1, KeepsLock DEF DraftOwned
<1> QED
  BY <1>1, <1>2, <1>3, <1>4

LEMMA allocationLock ==
  ASSUME LockInv, TypeOK', NEW t \in Tx,
         applyListed(t) \/ applySuggested(t) \/ drawCredit(t)
  PROVE  LockInv'
<1>1. AllocationStep(t)
  BY applyFields, drawCreditFields DEF LockInv
<1>2. \E locks : Goes(t, locks)
  BY applyFields, drawCreditFields DEF LockInv, Allocated
<1>3. DraftOwned(t)'
  BY <1>1 DEF LockInv, DraftOwned, AllocationStep, SameDocuments
<1> QED
  BY <1>1, <1>2, <1>3, KeepsLock DEF AllocationStep

LEMMA lockDraftLock ==
  ASSUME LockInv, TypeOK', NEW t \in Tx, lockDraft(t)
  PROVE  LockInv'
<1>1. /\ tx[t].cur \in Document /\ SeenDocuments(t)[tx[t].cur] = "BORRADOR"
      /\ Goes(t, {Doc(tx[t].cur)}) /\ SameDocuments(t)
      /\ tx'[t].pay = tx[t].pay /\ tx'[t].cur = tx[t].cur
      /\ tx'[t].pc = "number"
  BY lockDraftFields DEF LockInv
<1>2. SeenDocuments(t)' = SeenDocuments(t)
  BY <1>1 DEF SeenDocuments, Goes, Moves, rows, SameDocuments
<1>3. DraftOwned(t)'
  BY <1>1, <1>2 DEF DraftOwned, Goes
<1> QED
  BY <1>1, <1>3, KeepsLock

LEMMA assignNumberLock ==
  ASSUME LockInv, TypeOK', NEW t \in Tx, assignNumber(t)
  PROVE  LockInv'
<1> DEFINE c == tx[t].cur
<1>1. /\ c \in Document /\ Goes(t, {Per(PeriodOf[c])})
      /\ tx'[t].doc = [tx[t].doc EXCEPT ![c] = "EMITIDO"]
      /\ tx'[t].pay = tx[t].pay /\ tx'[t].cur = c
      /\ tx[t].pc = "number" /\ tx'[t].pc \in {"balance", "signals"}
  BY assignNumberFields DEF LockInv
<1>2. document' = document /\ payment' = payment
  BY <1>1 DEF Goes, Moves, rows
<1>3. tx[t].doc \in [Document -> DocStatus \cup {"same"}]
  BY TxType DEF LockInv, Transaction
<1>4. /\ SeenDocuments(t)[c] = "BORRADOR"
      /\ tx[t].doc[c] = "same" => Doc(c) \in tx[t].held
  BY <1>1 DEF LockInv, DraftOwned
<1>5. \/ tx[t].doc[c] = "same" /\ document[c] = "BORRADOR" /\ Doc(c) \in tx[t].held
      \/ tx[t].doc[c] = "BORRADOR" /\ Generated(t, c)
  BY <1>1, <1>4 DEF LockInv, SeenDocuments, DocumentsOwned
<1>6. DocumentsOwned(t)'
  BY <1>1, <1>2, <1>3, <1>5 DEF LockInv, DocumentsOwned, Generated, Alone, Goes
<1>7. \A e \in Document :
        PeriodOf[e] = PeriodOf[c] /\ tx[t].doc[e] \in Live => e = c
  <2> SUFFICES ASSUME NEW e \in Document, PeriodOf[e] = PeriodOf[c],
                      tx[t].doc[e] \in Live
               PROVE  e = c
    OBVIOUS
  <2>1. CASE tx[t].doc[c] = "BORRADOR"
    BY <1>1, <2>1 DEF LockInv, OneLiveWritten, Live
  <2>2. CASE document[c] = "BORRADOR"
    <3>1. ~ Alone(e)
      BY <1>1, <2>2 DEF Alone, Live
    <3>2. document[e] = "BORRADOR"
      BY <3>1 DEF LockInv, DocumentsOwned, Generated, Live
    <3> QED
      BY <1>1, <2>2, <3>2 DEF LockInv, OneLive, Live
  <2> QED
    BY <1>5, <2>1, <2>2
<1>8. OneLiveWritten(t)'
  BY <1>1, <1>3, <1>7 DEF LockInv, OneLiveWritten
<1>9. PaymentsOwned(t)' /\ DraftOwned(t)'
  BY <1>1, <1>2, <1>3 DEF LockInv, PaymentsOwned, DraftOwned, Goes
<1> QED
  BY <1>1, <1>6, <1>8, <1>9, MovesLock

\* A commit does not change what another transaction has locked.
LEMMA CommitKeeps ==
  ASSUME LockInv, NEW t \in Tx, Commit(t), NEW o \in Tx, o # t
  PROVE  /\ \A d \in Document :
              /\ tx[o].doc[d] # "same" => tx[t].doc[d] = "same"
              /\ Doc(d) \in tx[o].held /\ document[d] # "none" =>
                   tx[t].doc[d] = "same"
         /\ \A p \in Payment : Pay(p) \in tx[o].held => tx[t].pay[p] = "same"
<1>0. /\ tx[t].doc \in [Document -> DocStatus \cup {"same"}]
      /\ tx[o].doc \in [Document -> DocStatus \cup {"same"}]
      /\ tx[t].pay \in [Payment -> {"same", "REGISTRADO", "ANULADO"}]
  BY TxType DEF LockInv, Transaction
<1>1. tx[t].held \cap tx[o].held = {}
  BY DEF LockInv, Exclusive
<1>2. ASSUME NEW u \in {t, o}, NEW d \in Document, tx[u].doc[d] # "same"
      PROVE  \/ Doc(d) \in tx[u].held /\ document[d] # "none"
             \/ Generation(PeriodOf[d]) \in tx[u].held /\ document[d] = "none"
  <2>1. DocumentsOwned(u) /\ tx[u].doc[d] \in DocStatus
    BY <1>0, <1>2 DEF LockInv
  <2> QED
    BY <2>1 DEF DocumentsOwned, Generated, DocStatus
<1>3. ASSUME NEW p \in Payment, tx[t].pay[p] # "same"
      PROVE  Pay(p) \in tx[t].held
  BY <1>0, <1>3 DEF LockInv, PaymentsOwned
<1> QED
  BY <1>1, <1>2, <1>3

LEMMA CommitLock ==
  ASSUME LockInv, TypeOK', NEW t \in Tx, Commit(t)
  PROVE  LockInv'
<1>0. tx[t].doc \in [Document -> DocStatus \cup {"same"}]
  BY TxType DEF LockInv, Transaction
<1>1. /\ tx'[t] = Closed /\ \A o \in Tx \ {t} : tx'[o] = tx[o]
      /\ document' = SeenDocuments(t) /\ payment' = SeenPayments(t)
  BY CommitFields DEF LockInv
<1>2. Exclusive'
  <2>1. tx'[t].held = {}
    BY <1>1 DEF Closed
  <2> QED
    BY <1>1, <2>1 DEF LockInv, Exclusive
<1>3. ASSUME NEW d \in Document, tx[t].doc[d] \in Live
      PROVE  Alone(d) \/ document[d] = "BORRADOR"
  BY <1>3 DEF LockInv, DocumentsOwned, Generated, Live
<1>4. \A d \in Document :
        document'[d] = IF tx[t].doc[d] = "same" THEN document[d] ELSE tx[t].doc[d]
  BY <1>1 DEF SeenDocuments
<1>5. OneLive'
  <2> SUFFICES ASSUME NEW d \in Document, NEW e \in Document,
                      PeriodOf[d] = PeriodOf[e],
                      document'[d] \in Live, document'[e] \in Live
               PROVE  d = e
    BY DEF OneLive
  <2>1. CASE tx[t].doc[d] \in Live /\ tx[t].doc[e] \in Live
    BY <2>1 DEF LockInv, OneLiveWritten
  <2>2. CASE tx[t].doc[d] \in Live /\ tx[t].doc[e] = "same"
    BY <1>3, <1>4, <2>2 DEF LockInv, OneLive, Alone, Live
  <2>3. CASE tx[t].doc[d] = "same" /\ tx[t].doc[e] \in Live
    BY <1>3, <1>4, <2>3 DEF LockInv, OneLive, Alone, Live
  <2>4. CASE tx[t].doc[d] = "same" /\ tx[t].doc[e] = "same"
    BY <1>4, <2>4 DEF LockInv, OneLive
  <2> QED
    BY <1>4, <2>1, <2>2, <2>3, <2>4
<1>6. /\ DocumentsOwned(t)' /\ OneLiveWritten(t)' /\ PaymentsOwned(t)'
      /\ DraftOwned(t)'
  BY <1>1 DEF DocumentsOwned, OneLiveWritten, PaymentsOwned, DraftOwned, Closed, Live
<1>7. ASSUME NEW o \in Tx, o # t
      PROVE  /\ DocumentsOwned(o)' /\ OneLiveWritten(o)' /\ PaymentsOwned(o)'
             /\ DraftOwned(o)'
  <2>0. /\ tx'[o] = tx[o] /\ DocumentsOwned(o) /\ OneLiveWritten(o)
        /\ PaymentsOwned(o) /\ DraftOwned(o)
    BY <1>1, <1>7 DEF LockInv
  <2>1. \A d \in Document :
          \/ tx[o].doc[d] # "same"
          \/ Doc(d) \in tx[o].held /\ document[d] # "none"
          => document'[d] = document[d]
    BY <1>4, <1>7, CommitKeeps
  <2>2. \A p \in Payment : Pay(p) \in tx[o].held => payment'[p] = payment[p]
    BY <1>1, <1>7, CommitKeeps DEF SeenPayments
  <2>3. ASSUME NEW d \in Document, Generated(o, d)
        PROVE  Alone(d)'
    <3> SUFFICES ASSUME NEW e \in Document, PeriodOf[e] = PeriodOf[d],
                        document'[e] \in Live
                 PROVE  FALSE
      BY DEF Alone
    <3>1. document[e] \notin Live
      BY <2>3 DEF Generated, Alone
    <3>2. tx[t].doc[e] \in Live
      BY <1>4, <3>1
    <3>3. Generation(PeriodOf[d]) \in tx[t].held
      BY <3>1, <3>2 DEF LockInv, DocumentsOwned, Generated, Live
    <3> QED
      BY <1>7, <2>3, <3>3 DEF LockInv, Exclusive, Generated
  <2>4. DocumentsOwned(o)'
    BY <2>0, <2>1, <2>3 DEF DocumentsOwned, Generated
  <2>5. OneLiveWritten(o)' /\ PaymentsOwned(o)'
    BY <2>0, <2>2 DEF OneLiveWritten, PaymentsOwned
  <2>6. DraftOwned(o)'
    BY <2>0, <2>1 DEF DraftOwned, SeenDocuments
  <2> QED
    BY <2>4, <2>5, <2>6
<1> QED
  BY <1>2, <1>5, <1>6, <1>7 DEF LockInv

LEMMA LockStep == LockInv /\ [Next]_vars => LockInv'
<1> SUFFICES ASSUME LockInv, [Next]_vars
             PROVE  LockInv'
  OBVIOUS
<1>0. TypeOK'
  BY TypeStep DEF LockInv
<1>1. CASE UNCHANGED vars
  BY <1>1 DEF LockInv, TypeOK, Exclusive, OneLive, DocumentsOwned, Generated, Alone,
              OneLiveWritten, PaymentsOwned, DraftOwned, SeenDocuments, vars
<1>2. CASE Next
  BY <1>0, <1>2, OpenLock, insertPaymentLock, statementLock, allocationLock,
     lockDraftLock, assignNumberLock, CommitLock DEF Next
<1> QED
  BY <1>1, <1>2

LEMMA InitLock == Init => LockInv
<1> SUFFICES ASSUME Init PROVE LockInv
  OBVIOUS
<1>1. TypeOK
  BY ClosedType DEF Init, TypeOK, Nothing, NoRow, DocStatus, PayStatus
<1> QED
  BY <1>1 DEF Init, LockInv, Exclusive, OneLive, DocumentsOwned, OneLiveWritten,
              PaymentsOwned, DraftOwned, Closed, Live
-----------------------------------------------------------------------------
(* Allocations                                                             *)

LEMMA SeenKept ==
  ASSUME NEW t \in Tx, NEW locks, Goes(t, locks)
  PROVE  /\ SameDocuments(t) => SeenDocuments(t)' = SeenDocuments(t)
         /\ tx'[t].pay = tx[t].pay => SeenPayments(t)' = SeenPayments(t)
         /\ SameAmounts(t) => SeenAllocations(t)' = SeenAllocations(t)
  BY DEF Goes, Moves, rows, SameDocuments, SameAmounts, SeenDocuments, SeenPayments,
         SeenAllocations

LEMMA ReversesKept ==
  ASSUME NEW o \in Tx, ReversesVoided(o),
         tx'[o].rev = tx[o].rev, tx[o].pc = "reverse" => tx'[o].pc = "reverse",
         \A p \in Payment, d \in Document : Voided(o, p, d)' <=> Voided(o, p, d)
  PROVE  ReversesVoided(o)'
<1> SUFFICES ASSUME NEW p \in Payment, NEW d \in Document
             PROVE  /\ <<p, d>> \in tx'[o].rev => Voided(o, p, d)'
                    /\ Voided(o, p, d)' /\ tx'[o].pc # "reverse" =>
                         <<p, d>> \in tx'[o].rev
  BY DEF ReversesVoided
<1>1. /\ <<p, d>> \in tx[o].rev => Voided(o, p, d)
      /\ Voided(o, p, d) /\ tx[o].pc # "reverse" => <<p, d>> \in tx[o].rev
  BY DEF ReversesVoided
<1>2. Voided(o, p, d)' <=> Voided(o, p, d)
  OBVIOUS
<1> QED
  BY <1>1, <1>2

LEMMA VoidedKept ==
  ASSUME NEW o \in Tx, tx'[o].pay = tx[o].pay, tx'[o].doc = tx[o].doc
  PROVE  \A p \in Payment, d \in Document : Voided(o, p, d)' <=> Voided(o, p, d)
  BY DEF Voided

LEMMA MovesAlloc ==
  ASSUME AllocInv, LockInv', NEW t \in Tx, NEW locks,
         Begins(t, locks) \/ Goes(t, locks), AddsOwned(t)', ReversesVoided(t)'
  PROVE  AllocInv'
<1>1. \A o \in Tx \ {t} : tx'[o] = tx[o]
  BY DEF Begins, Goes, Moves
<1>2. document' = document /\ payment' = payment /\ allocation' = allocation
  BY DEF Begins, Goes, Moves, rows
<1>3. AllocationsAreLive'
  BY <1>2 DEF AllocInv, AllocationsAreLive
<1>4. ASSUME NEW o \in Tx, o # t
      PROVE  AddsOwned(o)'
  BY <1>1, <1>2, <1>4 DEF AllocInv, AddsOwned, SeenPayments, SeenDocuments
<1>5. ASSUME NEW o \in Tx, o # t
      PROVE  ReversesVoided(o)'
  BY <1>1, <1>5, ReversesKept, VoidedKept DEF AllocInv
<1> QED
  BY <1>3, <1>4, <1>5 DEF AllocInv

LEMMA NoAdds ==
  ASSUME NEW t \in Tx, NoAmounts(t)
  PROVE  AddsOwned(t)' /\ \A r : r \notin tx'[t].rev
  BY DEF AddsOwned, NoAmounts, NoRow, Row

LEMMA OpenAlloc ==
  ASSUME AllocInv, LockInv', NEW t \in Tx,
         \/ \E p \in Payment : \/ registerPayment(t, p) \/ allocateCredit(t, p)
                               \/ voidPayment(t, p)
         \/ \E d \in Document : generateOne(t, d) \/ discard(t, d) \/ void(t, d)
         \/ \E docs \in SUBSET Document : issue(t, docs)
         \/ Rollback(t)
  PROVE  AllocInv'
<1> USE DEF AllocInv, LockInv
<1>1. /\ \E locks : Begins(t, locks)
      /\ NoAmounts(t)
      /\ \/ tx'[t].pc = "reverse"
         \/ \A p \in Payment, d \in Document : ~ Voided(t, p, d)'
  <2>1. CASE \/ \E p \in Payment : registerPayment(t, p) \/ allocateCredit(t, p)
             \/ \E docs \in SUBSET Document : issue(t, docs)
    BY <2>1, PlainFields DEF Voided, NoDoc, NoPay
  <2>2. CASE Rollback(t)
    BY <2>2, RollbackFields DEF Voided, NoDoc, NoPay
  <2>3. CASE \E p \in Payment : voidPayment(t, p)
    BY <2>3, voidPaymentFields
  <2>4. CASE \E d \in Document : void(t, d)
    BY <2>4, voidFields
  <2>5. ASSUME NEW d \in Document, discard(t, d)
        PROVE  /\ Begins(t, {Doc(d)}) /\ NoAmounts(t)
               /\ \A p \in Payment, e \in Document : ~ Voided(t, p, e)'
    BY <2>5, discardFields DEF Voided, NoDoc, NoPay
  <2>6. ASSUME NEW d \in Document, generateOne(t, d)
        PROVE  /\ Begins(t, {Generation(PeriodOf[d])}) /\ NoAmounts(t)
               /\ \A p \in Payment, e \in Document : ~ Voided(t, p, e)'
    BY <2>6, generateOneFields DEF Voided, NoDoc, NoPay
  <2> QED
    BY <2>1, <2>2, <2>3, <2>4, <2>5, <2>6
<1>2. AddsOwned(t)' /\ ReversesVoided(t)'
  BY <1>1, NoAdds DEF ReversesVoided
<1> QED
  BY <1>1, <1>2, MovesAlloc

\* A statement after which the same amounts, payments and documents are written.
LEMMA KeepsAlloc ==
  ASSUME AllocInv, LockInv', NEW t \in Tx, NEW locks, Goes(t, locks),
         SameDocuments(t), tx'[t].pay = tx[t].pay, SameAmounts(t),
         tx[t].pc # "reverse"
  PROVE  AllocInv'
<1>1. AddsOwned(t)'
  BY SeenKept DEF AllocInv, AddsOwned, SameAmounts, Goes
<1>2. ReversesVoided(t)'
  BY ReversesKept, VoidedKept DEF AllocInv, SameAmounts, SameDocuments
<1> QED
  BY <1>1, <1>2, MovesAlloc

LEMMA statementAlloc ==
  ASSUME AllocInv, LockInv', NEW t \in Tx,
         \/ suggestAllocations(t) \/ lockPayment(t) \/ lockCredit(t)
         \/ recalculateSignals(t) \/ lockNumbering(t) \/ lockDraft(t)
  PROVE  AllocInv'
<1>1. TypeOK
  BY DEF AllocInv, LockInv
<1>2. \E locks : /\ Goes(t, locks) /\ SameDocuments(t) /\ SameAmounts(t)
                 /\ tx'[t].pay = tx[t].pay /\ tx[t].pc # "reverse"
  <2>1. CASE suggestAllocations(t) \/ lockPayment(t) \/ lockCredit(t)
    BY <1>1, <2>1, lockFields
  <2>2. CASE recalculateSignals(t)
    BY <1>1, <2>2, recalculateFields
  <2>3. CASE lockNumbering(t)
    BY <1>1, <2>3, lockNumberingFields
  <2>4. CASE lockDraft(t)
    BY <1>1, <2>4, lockDraftFields
  <2> QED
    BY <2>1, <2>2, <2>3, <2>4
<1> QED
  BY <1>2, KeepsAlloc

LEMMA insertPaymentAlloc ==
  ASSUME AllocInv, LockInv', NEW t \in Tx, insertPayment(t)
  PROVE  AllocInv'
<1>1. PICK p \in Payment :
        /\ Goes(t, {Pay(p)}) /\ payment[p] = "none"
        /\ tx'[t].pay = [tx[t].pay EXCEPT ![p] = "REGISTRADO"]
        /\ SameDocuments(t) /\ SameAmounts(t) /\ tx[t].pc = "insert"
  BY insertPaymentFields DEF AllocInv, LockInv
<1>2. /\ tx[t].pay \in [Payment -> {"same", "REGISTRADO", "ANULADO"}]
      /\ tx'[t].pay[p] = "REGISTRADO"
      /\ \A q \in Payment : q # p => tx'[t].pay[q] = tx[t].pay[q]
  BY <1>1, TxType DEF AllocInv, LockInv, Transaction
<1>3. payment' = payment
  BY <1>1 DEF Goes, Moves, rows
<1>4. AddsOwned(t)'
  <2>1. SeenDocuments(t)' = SeenDocuments(t)
    BY <1>1, SeenKept
  <2>2. \A q \in Payment :
          SeenPayments(t)[q] = "REGISTRADO" => SeenPayments(t)'[q] = "REGISTRADO"
    BY <1>2, <1>3 DEF SeenPayments
  <2> QED
    BY <1>1, <2>1, <2>2 DEF AllocInv, AddsOwned, Goes, SameAmounts
<1>5. tx[t].pay[p] # "ANULADO"
  BY <1>1 DEF AllocInv, LockInv, PaymentsOwned
<1>6. ReversesVoided(t)'
  <2>1. \A q \in Payment, d \in Document : Voided(t, q, d)' <=> Voided(t, q, d)
    BY <1>1, <1>2, <1>5 DEF Voided, SameDocuments
  <2> QED
    BY <1>1, <2>1, ReversesKept DEF AllocInv, SameAmounts
<1> QED
  BY <1>1, <1>4, <1>6, MovesAlloc

LEMMA allocationAlloc ==
  ASSUME AllocInv, LockInv', NEW t \in Tx,
         applyListed(t) \/ applySuggested(t) \/ drawCredit(t)
  PROVE  AllocInv'
<1>1. /\ AllocationStep(t)
      /\ \/ Allocated(t)
         \/ Goes(t, {}) /\ tx'[t].add = tx[t].add
  BY applyFields, drawCreditFields DEF AllocInv, LockInv
<1>2. SameDocuments(t) /\ tx'[t].pay = tx[t].pay /\ tx'[t].rev = tx[t].rev
      /\ tx[t].pc # "reverse"
  BY <1>1 DEF AllocationStep
<1>3. CASE Goes(t, {}) /\ tx'[t].add = tx[t].add
  BY <1>2, <1>3, KeepsAlloc DEF SameAmounts
<1>4. CASE Allocated(t)
  <2>1. PICK p \in Payment, d \in Document :
          /\ Goes(t, {Pay(p), Doc(d)})
          /\ SeenPayments(t)[p] = "REGISTRADO" /\ SeenDocuments(t)[d] = "EMITIDO"
          /\ \A q \in Payment, e \in Document :
               <<q, e>> # <<p, d>> => tx'[t].add[<<q, e>>] = tx[t].add[<<q, e>>]
    BY <1>4 DEF Allocated, Fits
  <2>2. SeenDocuments(t)' = SeenDocuments(t) /\ SeenPayments(t)' = SeenPayments(t)
    BY <1>2, <2>1, SeenKept
  <2>3. AddsOwned(t)'
    BY <2>1, <2>2 DEF AllocInv, AddsOwned, Goes
  <2>4. ReversesVoided(t)'
    BY <1>2, ReversesKept, VoidedKept DEF AllocInv, SameDocuments
  <2> QED
    BY <2>1, <2>3, <2>4, MovesAlloc
<1> QED
  BY <1>1, <1>3, <1>4

LEMMA reverseAlloc ==
  ASSUME AllocInv, LockInv', NEW t \in Tx, reverseAllocations(t)
  PROVE  AllocInv'
<1>1. /\ Goes(t, {}) /\ SameDocuments(t) /\ tx'[t].pay = tx[t].pay
      /\ tx'[t].add = tx[t].add
      /\ \A p \in Payment, d \in Document : <<p, d>> \in tx'[t].rev <=> Voided(t, p, d)
  BY reverseFields DEF AllocInv, LockInv
<1>2. AddsOwned(t)'
  BY <1>1, SeenKept DEF AllocInv, AddsOwned, Goes
<1>3. ReversesVoided(t)'
  BY <1>1 DEF ReversesVoided, Voided, SameDocuments
<1> QED
  BY <1>1, <1>2, <1>3, MovesAlloc

LEMMA assignNumberAlloc ==
  ASSUME AllocInv, LockInv', NEW t \in Tx, assignNumber(t)
  PROVE  AllocInv'
<1> DEFINE c == tx[t].cur
<1>1. /\ c \in Document /\ Goes(t, {Per(PeriodOf[c])})
      /\ tx'[t].doc = [tx[t].doc EXCEPT ![c] = "EMITIDO"]
      /\ tx'[t].pay = tx[t].pay /\ SameAmounts(t) /\ tx[t].pc = "number"
  BY assignNumberFields DEF AllocInv, LockInv
<1>2. /\ tx'[t].doc[c] = "EMITIDO"
      /\ \A d \in Document : d # c => tx'[t].doc[d] = tx[t].doc[d]
  BY <1>1, TxType DEF AllocInv, LockInv, Transaction
<1>3. tx[t].doc[c] # "ANULADO"
  BY <1>1 DEF AllocInv, LockInv, DraftOwned, SeenDocuments
<1>4. AddsOwned(t)'
  <2>1. SeenPayments(t)' = SeenPayments(t)
    BY <1>1, SeenKept
  <2>2. \A d \in Document :
          SeenDocuments(t)[d] = "EMITIDO" => SeenDocuments(t)'[d] = "EMITIDO"
    BY <1>1, <1>2 DEF SeenDocuments, Goes, Moves, rows
  <2> QED
    BY <1>1, <2>1, <2>2 DEF AllocInv, AddsOwned, Goes, SameAmounts
<1>5. ReversesVoided(t)'
  <2>1. \A p \in Payment, d \in Document : Voided(t, p, d)' <=> Voided(t, p, d)
    BY <1>1, <1>2, <1>3 DEF Voided
  <2> QED
    BY <1>1, <2>1, ReversesKept DEF AllocInv, SameAmounts
<1> QED
  BY <1>1, <1>4, <1>5, MovesAlloc

LEMMA CommitAlloc ==
  ASSUME AllocInv, LockInv', NEW t \in Tx, Commit(t)
  PROVE  AllocInv'
<1>1. /\ tx'[t] = Closed /\ \A o \in Tx \ {t} : tx'[o] = tx[o]
      /\ tx[t].pc = "signals"
      /\ document' = SeenDocuments(t) /\ payment' = SeenPayments(t)
      /\ allocation' = SeenAllocations(t)
  BY CommitFields DEF AllocInv, LockInv
<1>2. /\ tx[t].doc \in [Document -> DocStatus \cup {"same"}]
      /\ tx[t].pay \in [Payment -> {"same", "REGISTRADO", "ANULADO"}]
      /\ tx[t].add \in [Row -> Nat]
      /\ allocation \in [Row -> Nat]
  BY TxType DEF AllocInv, LockInv, TypeOK, Transaction
<1>3. AllocationsAreLive'
  <2> SUFFICES ASSUME NEW p \in Payment, NEW d \in Document,
                      allocation'[<<p, d>>] > 0
               PROVE  payment'[p] = "REGISTRADO" /\ document'[d] = "EMITIDO"
    BY DEF AllocationsAreLive
  <2>1. <<p, d>> \in Row
    BY DEF Row
  <2>2. /\ <<p, d>> \notin tx[t].rev
        /\ allocation[<<p, d>>] > 0 \/ tx[t].add[<<p, d>>] > 0
    BY <1>1, <1>2, <2>1 DEF SeenAllocations
  <2>3. CASE tx[t].add[<<p, d>>] > 0
    BY <1>1, <2>3 DEF AllocInv, AddsOwned
  <2>4. CASE allocation[<<p, d>>] > 0
    <3>1. payment[p] = "REGISTRADO" /\ document[d] = "EMITIDO"
      BY <2>4 DEF AllocInv, AllocationsAreLive
    <3>2. tx[t].pay[p] # "ANULADO" /\ tx[t].doc[d] # "ANULADO"
      BY <1>1, <2>2 DEF AllocInv, ReversesVoided, Voided
    <3>3. tx[t].pay[p] = "same" \/ tx[t].pay[p] = "REGISTRADO"
      BY <1>2, <3>2
    <3>4. tx[t].doc[d] = "same" \/ tx[t].doc[d] = "EMITIDO"
      BY <1>2, <3>1, <3>2 DEF AllocInv, LockInv, DocumentsOwned, Generated, DocStatus
    <3> QED
      BY <1>1, <3>1, <3>3, <3>4 DEF SeenPayments, SeenDocuments
  <2> QED
    BY <2>2, <2>3, <2>4
<1>4. AddsOwned(t)' /\ ReversesVoided(t)'
  BY <1>1 DEF AddsOwned, ReversesVoided, Voided, Closed, NoRow, Row
<1>5. ASSUME NEW o \in Tx, o # t
      PROVE  AddsOwned(o)' /\ ReversesVoided(o)'
  <2>1. tx'[o] = tx[o]
    BY <1>1, <1>5
  <2>2. AddsOwned(o)'
    <3> SUFFICES ASSUME NEW p \in Payment, NEW d \in Document,
                        tx[o].add[<<p, d>>] > 0
                 PROVE  /\ Pay(p) \in tx[o].held /\ Doc(d) \in tx[o].held
                        /\ SeenPayments(o)'[p] = "REGISTRADO"
                        /\ SeenDocuments(o)'[d] = "EMITIDO"
      BY <2>1 DEF AddsOwned
    <3>1. /\ Pay(p) \in tx[o].held /\ Doc(d) \in tx[o].held
          /\ SeenPayments(o)[p] = "REGISTRADO" /\ SeenDocuments(o)[d] = "EMITIDO"
      BY DEF AllocInv, AddsOwned
    <3>2. payment'[p] = payment[p]
      BY <1>1, <1>5, <3>1, CommitKeeps DEF AllocInv, SeenPayments
    <3>3. tx[o].doc[d] = "same" => document'[d] = document[d]
      BY <1>1, <1>5, <3>1, CommitKeeps DEF AllocInv, SeenDocuments
    <3> QED
      BY <2>1, <3>1, <3>2, <3>3 DEF SeenPayments, SeenDocuments
  <2>3. ReversesVoided(o)'
    BY <2>1, ReversesKept, VoidedKept DEF AllocInv
  <2> QED
    BY <2>2, <2>3
<1> QED
  BY <1>3, <1>4, <1>5 DEF AllocInv

LEMMA AllocStep == AllocInv /\ [Next]_vars => AllocInv'
<1> SUFFICES ASSUME AllocInv, [Next]_vars
             PROVE  AllocInv'
  OBVIOUS
<1>0. LockInv'
  BY LockStep DEF AllocInv
<1>1. CASE UNCHANGED vars
  BY <1>0, <1>1 DEF AllocInv, AllocationsAreLive, AddsOwned, ReversesVoided, Voided,
                    SeenPayments, SeenDocuments, vars
<1>2. CASE Next
  BY <1>0, <1>2, OpenAlloc, insertPaymentAlloc, statementAlloc, allocationAlloc,
     reverseAlloc, assignNumberAlloc, CommitAlloc DEF Next
<1> QED
  BY <1>1, <1>2

LEMMA InitAlloc == Init => AllocInv
  BY InitLock DEF Init, AllocInv, AllocationsAreLive, AddsOwned, ReversesVoided,
                  Voided, Closed, NoRow, Row

\* No order of allocating, drawing on credit, voiding a payment and voiding a
\* document leaves a live allocation on a voided row, for any number of
\* concurrent transactions: applyAllocations holds both rows to its commit and
\* both void commands lock theirs before they reverse.
THEOREM OnlyLiveRowsAreAllocated == Spec => []AllocationsAreLive
<1>1. AllocInv => AllocationsAreLive
  BY DEF AllocInv
<1> QED
  BY <1>1, InitAlloc, AllocStep, PTL DEF Spec

-----------------------------------------------------------------------------
(* Numbers                                                                 *)

LEMMA ConsecutiveSame ==
  ASSUME NEW docs, NEW num, NEW docs2, NEW num2,
         WithNumber(docs2) = WithNumber(docs),
         \A d \in WithNumber(docs) : num2[d] = num[d],
         Consecutive(docs, num)
  PROVE  Consecutive(docs2, num2)
  BY DEF Consecutive, Numbers

\* Only the issue of a document changes which documents have a number.
LEMMA SeenWithNumber ==
  ASSUME LockInv, NumberInv, NEW t \in Tx, Number \notin tx[t].held
  PROVE  /\ WithNumber(SeenDocuments(t)) = WithNumber(document)
         /\ \A d \in Document : SeenNumbers(t)[d] = number[d]
<1>1. /\ tx[t].doc \in [Document -> DocStatus \cup {"same"}]
      /\ DocumentsOwned(t)
  BY TxType DEF LockInv, Transaction
<1>2. \A d \in Document : tx[t].doc[d] # "EMITIDO" /\ tx[t].num[d] = 0
  BY DEF NumberInv, NumbersOwned
<1>3. ASSUME NEW d \in Document
      PROVE  SeenDocuments(t)[d] \in {"EMITIDO", "ANULADO"} <=>
               document[d] \in {"EMITIDO", "ANULADO"}
  <2>1. tx[t].doc[d] \in {"none", "BORRADOR", "ANULADO", "same"}
    BY <1>1, <1>2 DEF DocStatus
  <2> QED
    BY <1>1, <2>1 DEF SeenDocuments, DocumentsOwned, Generated
<1>4. \A d \in Document : SeenNumbers(t)[d] = number[d]
  BY <1>2 DEF SeenNumbers
<1> QED
  BY <1>3, <1>4 DEF WithNumber

LEMMA MovesNumber ==
  ASSUME NumberInv, LockInv', NEW t \in Tx, NEW locks,
         Begins(t, locks) \/ Goes(t, locks), NumbersOwned(t)'
  PROVE  NumberInv'
<1>1. \A o \in Tx \ {t} : tx'[o] = tx[o]
  BY DEF Begins, Goes, Moves
<1>2. document' = document /\ number' = number
  BY DEF Begins, Goes, Moves, rows
<1>3. ConsecutiveNumbers'
  BY <1>2 DEF NumberInv, ConsecutiveNumbers, WithNumber
<1>4. ASSUME NEW o \in Tx, o # t
      PROVE  NumbersOwned(o)'
  <2>1. SeenDocuments(o)' = SeenDocuments(o) /\ SeenNumbers(o)' = SeenNumbers(o)
    BY <1>1, <1>2, <1>4 DEF SeenDocuments, SeenNumbers
  <2>2. tx'[o] = tx[o] /\ NumbersOwned(o)
    BY <1>1, <1>4 DEF NumberInv
  <2>3. Consecutive(SeenDocuments(o), SeenNumbers(o)) =>
          Consecutive(SeenDocuments(o), SeenNumbers(o))'
    BY <2>1 DEF Consecutive, Numbers, WithNumber
  <2> QED
    BY <2>2, <2>3 DEF NumbersOwned
<1> QED
  BY <1>3, <1>4 DEF NumberInv

LEMMA OpenNumber ==
  ASSUME NumberInv, LockInv', NEW t \in Tx,
         \/ \E p \in Payment : \/ registerPayment(t, p) \/ allocateCredit(t, p)
                               \/ voidPayment(t, p)
         \/ \E d \in Document : generateOne(t, d) \/ discard(t, d) \/ void(t, d)
         \/ \E docs \in SUBSET Document : issue(t, docs)
         \/ Rollback(t)
  PROVE  NumberInv'
<1> USE DEF NumberInv, LockInv
<1>1. \E locks : /\ Begins(t, locks) /\ Number \notin locks
                 /\ tx'[t].num = Nothing /\ tx'[t].pc \notin {"draft", "number"}
                 /\ \A d \in Document : tx'[t].doc[d] # "EMITIDO"
  <2>0. /\ Number \notin {} /\ Number # Subscriber
        /\ \A d : Number # Doc(d)
        /\ \A p : Number # Pay(p)
        /\ \A x : Number # Generation(x)
    BY DEF Number, Subscriber, Doc, Pay, Generation
  <2>1. CASE \/ \E p \in Payment : registerPayment(t, p) \/ allocateCredit(t, p)
             \/ \E docs \in SUBSET Document : issue(t, docs)
    <3>1. /\ Begins(t, {Subscriber}) \/ Begins(t, {})
          /\ tx'[t].doc = NoDoc /\ tx'[t].num = Nothing
          /\ tx'[t].pc \in {"insert", "credit", "signals"}
      BY <2>1, PlainFields
    <3> QED
      BY <2>0, <3>1 DEF NoDoc
  <2>2. CASE Rollback(t)
    BY <2>0, <2>2, RollbackFields DEF NoDoc
  <2>3. ASSUME NEW p \in Payment, voidPayment(t, p)
        PROVE  /\ Begins(t, {Pay(p)}) /\ tx'[t].num = Nothing
               /\ tx'[t].pc = "reverse"
               /\ \A d \in Document : tx'[t].doc[d] # "EMITIDO"
    BY <2>3, voidPaymentFields DEF NoDoc
  <2>4. ASSUME NEW d \in Document, void(t, d)
        PROVE  /\ Begins(t, {Doc(d)}) /\ tx'[t].num = Nothing
               /\ tx'[t].pc = "reverse"
               /\ \A e \in Document : tx'[t].doc[e] # "EMITIDO"
    BY <2>4, voidFields DEF NoDoc
  <2>5. ASSUME NEW d \in Document, discard(t, d)
        PROVE  /\ Begins(t, {Doc(d)}) /\ tx'[t].num = Nothing
               /\ tx'[t].pc = "signals"
               /\ \A e \in Document : tx'[t].doc[e] # "EMITIDO"
    BY <2>5, discardFields DEF NoDoc
  <2>6. ASSUME NEW d \in Document, generateOne(t, d)
        PROVE  /\ Begins(t, {Generation(PeriodOf[d])}) /\ tx'[t].num = Nothing
               /\ tx'[t].pc = "signals"
               /\ \A e \in Document : tx'[t].doc[e] # "EMITIDO"
    BY <2>6, generateOneFields DEF NoDoc
  <2> QED
    BY <2>0, <2>1, <2>2, <2>3, <2>4, <2>5, <2>6
<1>2. NumbersOwned(t)'
  BY <1>1 DEF NumbersOwned, Nothing, Begins
<1> QED
  BY <1>1, <1>2, MovesNumber

\* A statement that issues nothing, but for the one that takes the lock.
LEMMA KeepsNumber ==
  ASSUME NumberInv, LockInv', NEW t \in Tx, NEW locks, Goes(t, locks),
         SameDocuments(t),
         tx'[t].pc \in {"draft", "number"} =>
           Number \in locks \/ tx[t].pc \in {"draft", "number"}
  PROVE  NumberInv'
<1>1. SeenDocuments(t)' = SeenDocuments(t) /\ SeenNumbers(t)' = SeenNumbers(t)
  BY DEF Goes, Moves, rows, SameDocuments, SeenDocuments, SeenNumbers
<1>2. Consecutive(SeenDocuments(t), SeenNumbers(t))
  <2>1. CASE Number \in tx[t].held
    BY <2>1 DEF NumberInv, NumbersOwned
  <2>2. CASE Number \notin tx[t].held
    <3>1. /\ WithNumber(SeenDocuments(t)) = WithNumber(document)
          /\ \A d \in Document : SeenNumbers(t)[d] = number[d]
      BY <2>2, SeenWithNumber DEF NumberInv
    <3>2. Consecutive(document, number)
      BY DEF NumberInv, ConsecutiveNumbers, Consecutive, Numbers
    <3>3. \A d \in WithNumber(document) : SeenNumbers(t)[d] = number[d]
      BY <3>1 DEF WithNumber
    <3> QED
      BY <3>1, <3>2, <3>3, ConsecutiveSame
  <2> QED
    BY <2>1, <2>2
<1>3. Consecutive(SeenDocuments(t), SeenNumbers(t))'
  BY <1>1, <1>2 DEF Consecutive, Numbers, WithNumber
<1>4. NumbersOwned(t)'
  BY <1>3 DEF NumberInv, NumbersOwned, Goes, SameDocuments
<1> QED
  BY <1>4, MovesNumber

LEMMA statementNumber ==
  ASSUME NumberInv, LockInv', NEW t \in Tx,
         \/ insertPayment(t) \/ suggestAllocations(t) \/ lockPayment(t)
         \/ applyListed(t) \/ applySuggested(t) \/ reverseAllocations(t)
         \/ recalculateSignals(t) \/ lockNumbering(t) \/ lockDraft(t)
         \/ lockCredit(t) \/ drawCredit(t)
  PROVE  NumberInv'
<1>0. TypeOK
  BY DEF NumberInv, LockInv
<1>1. \E locks : /\ Goes(t, locks) /\ SameDocuments(t)
                 /\ tx'[t].pc \in {"draft", "number"} =>
                      Number \in locks \/ tx[t].pc \in {"draft", "number"}
  <2>1. CASE insertPayment(t)
    BY <1>0, <2>1, insertPaymentFields
  <2>2. CASE suggestAllocations(t) \/ lockPayment(t) \/ lockCredit(t)
    BY <1>0, <2>2, lockFields
  <2>3. CASE applyListed(t) \/ applySuggested(t) \/ drawCredit(t)
    BY <1>0, <2>3, applyFields, drawCreditFields DEF AllocationStep, Allocated
  <2>4. CASE reverseAllocations(t)
    BY <1>0, <2>4, reverseFields
  <2>5. CASE recalculateSignals(t)
    BY <1>0, <2>5, recalculateFields
  <2>6. CASE lockNumbering(t)
    BY <1>0, <2>6, lockNumberingFields
  <2>7. CASE lockDraft(t)
    BY <1>0, <2>7, lockDraftFields
  <2> QED
    BY <2>1, <2>2, <2>3, <2>4, <2>5, <2>6, <2>7
<1> QED
  BY <1>1, KeepsNumber

\* MAX + 1 over 1 .. k is k + 1.
LEMMA NextAfter ==
  ASSUME NEW k \in Nat, NEW n \in Nat \ {0},
         \A m \in 1 .. k : m < n, n = 1 \/ n - 1 \in 1 .. k
  PROVE  n = k + 1 /\ 1 .. k \cup {n} = 1 .. (k + 1)
<1>1. n = k + 1
  <2>1. CASE k = 0
    BY <2>1
  <2>2. CASE k # 0
    <3>1. k < n
      BY <2>2
    <3> QED
      BY <2>2, <3>1
  <2> QED
    BY <2>1, <2>2
<1> QED
  BY <1>1

LEMMA assignNumberNumber ==
  ASSUME NumberInv, LockInv', NEW t \in Tx, assignNumber(t)
  PROVE  NumberInv'
<1> DEFINE c == tx[t].cur
           W == WithNumber(SeenDocuments(t))
           k == Cardinality(W)
<1>1. /\ c \in Document /\ Goes(t, {Per(PeriodOf[c])})
      /\ tx'[t].doc = [tx[t].doc EXCEPT ![c] = "EMITIDO"]
      /\ tx[t].pc = "number" /\ tx'[t].pc \in {"balance", "signals"}
  BY assignNumberFields DEF NumberInv, LockInv
<1>2. PICK n \in Nat \ {0} :
        nextNumber(t, n) /\ tx'[t].num = [tx[t].num EXCEPT ![c] = n]
  BY assignNumberFields DEF NumberInv, LockInv
<1>3. /\ tx[t].doc \in [Document -> DocStatus \cup {"same"}]
      /\ tx[t].num \in [Document -> Nat]
  BY TxType DEF NumberInv, LockInv, Transaction
<1>4. document' = document /\ number' = number
  BY <1>1 DEF Goes, Moves, rows
<1>5. SeenDocuments(t)[c] = "BORRADOR"
  BY <1>1 DEF NumberInv, LockInv, DraftOwned
<1>6. Number \in tx[t].held /\ Numbers(SeenDocuments(t), SeenNumbers(t)) = 1 .. k
  BY <1>1 DEF NumberInv, NumbersOwned, Consecutive
<1>7. IsFiniteSet(W) /\ k \in Nat /\ c \notin W
  BY <1>5, BillingAssumption, FS_Subset, FS_CardinalityType DEF WithNumber
<1>8. n = k + 1 /\ 1 .. k \cup {n} = 1 .. (k + 1)
  BY <1>2, <1>6, <1>7, NextAfter DEF nextNumber, Numbers
<1>9. WithNumber(SeenDocuments(t))' = W \cup {c}
  <2>1. \A d \in Document : SeenDocuments(t)'[d] =
          IF d = c THEN "EMITIDO" ELSE SeenDocuments(t)[d]
    BY <1>1, <1>3, <1>4 DEF SeenDocuments
  <2> QED
    BY <1>1, <2>1 DEF WithNumber
<1>10. \A d \in Document : SeenNumbers(t)'[d] =
         IF d = c THEN n ELSE SeenNumbers(t)[d]
  BY <1>1, <1>2, <1>3, <1>4 DEF SeenNumbers
<1>11. Numbers(SeenDocuments(t), SeenNumbers(t))' =
         Numbers(SeenDocuments(t), SeenNumbers(t)) \cup {n}
  <2>1. W \subseteq Document
    BY DEF WithNumber
  <2>2. Numbers(SeenDocuments(t), SeenNumbers(t))' =
          {SeenNumbers(t)'[d] : d \in W \cup {c}}
    BY <1>9 DEF Numbers
  <2>3. \A d \in W : SeenNumbers(t)'[d] = SeenNumbers(t)[d]
    BY <1>7, <1>10, <2>1
  <2>4. SeenNumbers(t)'[c] = n
    BY <1>1, <1>10
  <2> HIDE DEF W, c
  <2>5. {SeenNumbers(t)'[d] : d \in W \cup {c}} = {SeenNumbers(t)[d] : d \in W} \cup {n}
    BY <2>3, <2>4
  <2> QED
    BY <2>2, <2>5 DEF Numbers, W
<1>12. Cardinality(W \cup {c}) = k + 1
  BY <1>7, FS_AddElement
<1>13. Consecutive(SeenDocuments(t), SeenNumbers(t))'
  BY <1>6, <1>8, <1>9, <1>11, <1>12 DEF Consecutive
<1>14. NumbersOwned(t)'
  BY <1>1, <1>2, <1>3, <1>6, <1>13 DEF NumberInv, NumbersOwned, Goes
<1> QED
  BY <1>1, <1>14, MovesNumber

LEMMA CommitNumber ==
  ASSUME NumberInv, LockInv', NEW t \in Tx, Commit(t)
  PROVE  NumberInv'
<1>1. /\ tx'[t] = Closed /\ \A o \in Tx \ {t} : tx'[o] = tx[o]
      /\ document' = SeenDocuments(t) /\ number' = SeenNumbers(t)
  BY CommitFields DEF NumberInv, LockInv
<1>2. Consecutive(SeenDocuments(t), SeenNumbers(t))
  <2>1. CASE Number \in tx[t].held
    BY <2>1 DEF NumberInv, NumbersOwned
  <2>2. CASE Number \notin tx[t].held
    <3>1. /\ WithNumber(SeenDocuments(t)) = WithNumber(document)
          /\ \A d \in Document : SeenNumbers(t)[d] = number[d]
      BY <2>2, SeenWithNumber DEF NumberInv
    <3>2. Consecutive(document, number)
      BY DEF NumberInv, ConsecutiveNumbers, Consecutive, Numbers
    <3>3. \A d \in WithNumber(document) : SeenNumbers(t)[d] = number[d]
      BY <3>1 DEF WithNumber
    <3> QED
      BY <3>1, <3>2, <3>3, ConsecutiveSame
  <2> QED
    BY <2>1, <2>2
<1>3. ConsecutiveNumbers'
  BY <1>1, <1>2 DEF ConsecutiveNumbers, Consecutive, Numbers, WithNumber
<1>4. NumbersOwned(t)'
  BY <1>1 DEF NumbersOwned, Closed, Nothing
<1>5. ASSUME NEW o \in Tx, o # t
      PROVE  NumbersOwned(o)'
  <2>1. tx'[o] = tx[o] /\ NumbersOwned(o)
    BY <1>1, <1>5 DEF NumberInv
  <2>2. ASSUME Number \in tx[o].held
        PROVE  Consecutive(SeenDocuments(o), SeenNumbers(o))'
    <3>1. Number \notin tx[t].held
      BY <1>5, <2>2 DEF NumberInv, LockInv, Exclusive
    <3>2. /\ WithNumber(SeenDocuments(t)) = WithNumber(document)
          /\ \A d \in Document : SeenNumbers(t)[d] = number[d]
      BY <3>1, SeenWithNumber DEF NumberInv
    <3>3. \A d \in Document : SeenNumbers(o)'[d] = SeenNumbers(o)[d]
      BY <1>1, <2>1, <3>2 DEF SeenNumbers
    <3>4. \A d \in Document :
            document'[d] \in {"EMITIDO", "ANULADO"} <=>
              document[d] \in {"EMITIDO", "ANULADO"}
      BY <1>1, <3>2 DEF WithNumber
    <3>5. \A d \in Document :
            SeenDocuments(o)'[d] \in {"EMITIDO", "ANULADO"} <=>
              SeenDocuments(o)[d] \in {"EMITIDO", "ANULADO"}
      BY <2>1, <3>4 DEF SeenDocuments
    <3>6. WithNumber(SeenDocuments(o))' = WithNumber(SeenDocuments(o))
      BY <3>5 DEF WithNumber
    <3>7. Numbers(SeenDocuments(o), SeenNumbers(o))' =
            Numbers(SeenDocuments(o), SeenNumbers(o))
      BY <3>3, <3>6 DEF Numbers, WithNumber
    <3>8. Consecutive(SeenDocuments(o), SeenNumbers(o))
      BY <2>1, <2>2 DEF NumbersOwned
    <3> QED
      BY <3>6, <3>7, <3>8 DEF Consecutive
  <2> QED
    BY <2>1, <2>2 DEF NumbersOwned
<1> QED
  BY <1>3, <1>4, <1>5 DEF NumberInv

LEMMA NumberStep == NumberInv /\ [Next]_vars => NumberInv'
<1> SUFFICES ASSUME NumberInv, [Next]_vars
             PROVE  NumberInv'
  OBVIOUS
<1>0. LockInv'
  BY LockStep DEF NumberInv
<1>1. CASE UNCHANGED vars
  BY <1>0, <1>1 DEF NumberInv, ConsecutiveNumbers, NumbersOwned, Consecutive, Numbers,
                    WithNumber, SeenDocuments, SeenNumbers, vars
<1>2. CASE Next
  BY <1>0, <1>2, OpenNumber, statementNumber, assignNumberNumber, CommitNumber
     DEF Next
<1> QED
  BY <1>1, <1>2

LEMMA InitNumber == Init => NumberInv
<1> SUFFICES ASSUME Init PROVE NumberInv
  OBVIOUS
<1>1. WithNumber(document) = {}
  BY DEF Init, WithNumber
<1>2. ConsecutiveNumbers
  BY <1>1, FS_EmptySet DEF ConsecutiveNumbers
<1> QED
  BY <1>2, InitLock DEF Init, NumberInv, NumbersOwned, Closed, Nothing

\* The numbers given to documents are 1, 2, ... without gap or repetition, for
\* any number of concurrent issues, voids, discards and rollbacks:
\* issueWithinManager holds the number's advisory lock from before nextNumber to
\* its commit, and no other command changes which documents have a number.
THEOREM NumbersAreConsecutive == Spec => []ConsecutiveNumbers
<1>1. NumberInv => ConsecutiveNumbers
  BY DEF NumberInv
<1> QED
  BY <1>1, InitNumber, NumberStep, PTL DEF Spec

-----------------------------------------------------------------------------
(* Amounts                                                                 *)

\* No document is paid more than its total, no payment used beyond its amount.
Within(a) ==
  /\ \A d \in Document : PaidAmount(a, d) <= Total[d]
  /\ \A p \in Payment : UsedAmount(a, p) <= Amount[p]

\* The committed rows, and the rows each open transaction would commit.
AmountInv ==
  /\ AllocInv
  /\ Within(allocation)
  /\ \A t \in Tx : Within(SeenAllocations(t))

LEMMA AmountsAreMoney ==
  ASSUME IsFiniteSet(Payment), NEW a \in [Row -> Nat]
  PROVE  /\ \A d \in Document : PaidAmount(a, d) \in Nat /\ Total[d] \in Nat
         /\ \A p \in Payment : UsedAmount(a, p) \in Nat /\ Amount[p] \in Nat
<1>1. ASSUME NEW d \in Document
      PROVE  PaidAmount(a, d) \in Nat
  <2> DEFINE f == [p \in Payment |-> a[<<p, d>>]]
  <2>1. f \in [Payment -> Nat]
    BY DEF Row
  <2> HIDE DEF f
  <2>2. SumFunction(f) \in Nat
    BY <2>1, SumNat
  <2> QED
    BY <2>2 DEF PaidAmount, f
<1>2. ASSUME NEW p \in Payment
      PROVE  UsedAmount(a, p) \in Nat
  <2> DEFINE f == [d \in Document |-> a[<<p, d>>]]
  <2>1. f \in [Document -> Nat]
    BY DEF Row
  <2> HIDE DEF f
  <2>2. SumFunction(f) \in Nat
    BY <2>1, SumNat, BillingAssumption
  <2> QED
    BY <2>2 DEF UsedAmount, f
<1> QED
  BY <1>1, <1>2, BillingAssumption

LEMMA PaidShrinks ==
  ASSUME IsFiniteSet(Payment), NEW a \in [Row -> Nat], NEW b \in [Row -> Nat],
         NEW d \in Document, \A p \in Payment : b[<<p, d>>] <= a[<<p, d>>],
         PaidAmount(a, d) <= Total[d]
  PROVE  PaidAmount(b, d) <= Total[d]
<1> DEFINE f == [p \in Payment |-> a[<<p, d>>]]
           g == [p \in Payment |-> b[<<p, d>>]]
<1>1. f \in [Payment -> Nat] /\ g \in [Payment -> Nat]
  BY DEF Row
<1>2. \A p \in Payment : g[p] <= f[p]
  OBVIOUS
<1>3. SumFunction(g) <= SumFunction(f)
  <2> HIDE DEF f, g
  <2> QED
    BY <1>1, <1>2, SumMonotone
<1>4. PaidAmount(b, d) <= PaidAmount(a, d)
  BY <1>3 DEF PaidAmount
<1>5. PaidAmount(a, d) \in Nat /\ PaidAmount(b, d) \in Nat /\ Total[d] \in Nat
  BY AmountsAreMoney
<1> QED
  BY <1>4, <1>5

LEMMA UsedShrinks ==
  ASSUME IsFiniteSet(Payment), NEW a \in [Row -> Nat], NEW b \in [Row -> Nat],
         NEW p \in Payment, \A d \in Document : b[<<p, d>>] <= a[<<p, d>>],
         UsedAmount(a, p) <= Amount[p]
  PROVE  UsedAmount(b, p) <= Amount[p]
<1> DEFINE f == [d \in Document |-> a[<<p, d>>]]
           g == [d \in Document |-> b[<<p, d>>]]
<1>1. f \in [Document -> Nat] /\ g \in [Document -> Nat]
  BY DEF Row
<1>2. \A d \in Document : g[d] <= f[d]
  OBVIOUS
<1>3. SumFunction(g) <= SumFunction(f)
  <2> HIDE DEF f, g
  <2> QED
    BY <1>1, <1>2, SumMonotone, BillingAssumption
<1>4. UsedAmount(b, p) <= UsedAmount(a, p)
  BY <1>3 DEF UsedAmount
<1>5. UsedAmount(a, p) \in Nat /\ UsedAmount(b, p) \in Nat /\ Amount[p] \in Nat
  BY AmountsAreMoney
<1> QED
  BY <1>4, <1>5

\* Amounts that only shrink stay within their limits.
LEMMA WithinShrinks ==
  ASSUME IsFiniteSet(Payment), NEW a \in [Row -> Nat], NEW b \in [Row -> Nat],
         \A r \in Row : b[r] <= a[r], Within(a)
  PROVE  Within(b)
<1>1. \A p \in Payment, d \in Document : b[<<p, d>>] <= a[<<p, d>>]
  BY DEF Row
<1>2. \A d \in Document : PaidAmount(b, d) <= Total[d]
  BY <1>1, PaidShrinks DEF Within
<1>3. \A p \in Payment : UsedAmount(b, p) <= Amount[p]
  BY <1>1, UsedShrinks DEF Within
<1> QED
  BY <1>2, <1>3 DEF Within

\* An amount that fits, on one row.
LEMMA WithinGrows ==
  ASSUME IsFiniteSet(Payment), NEW a \in [Row -> Nat], NEW b \in [Row -> Nat],
         NEW p \in Payment, NEW d \in Document, NEW m \in Nat,
         b[<<p, d>>] = a[<<p, d>>] + m,
         \A q \in Payment, e \in Document :
           <<q, e>> # <<p, d>> => b[<<q, e>>] = a[<<q, e>>],
         Within(a), m <= Pending(a, d), m <= Remaining(a, p)
  PROVE  Within(b)
<1>0. \A q \in Payment, e \in Document : <<q, e>> \in Row
  BY DEF Row
<1>1. ASSUME NEW e \in Document
      PROVE  PaidAmount(b, e) <= Total[e]
  <2>1. CASE e = d
    <3> DEFINE f == [q \in Payment |-> a[<<q, d>>]]
               g == [q \in Payment |-> b[<<q, d>>]]
    <3>1. f \in [Payment -> Nat] /\ g \in [Payment -> Nat]
      BY <1>0
    <3>2. g[p] = f[p] + m /\ \A q \in Payment : q # p => g[q] = f[q]
      OBVIOUS
    <3>3. SumFunction(g) = SumFunction(f) + m
      <4> HIDE DEF f, g
      <4> QED
        BY <3>1, <3>2, SumAdd
    <3>4. PaidAmount(b, d) = PaidAmount(a, d) + m
      BY <3>3 DEF PaidAmount
    <3>5. PaidAmount(a, d) \in Nat /\ Total[d] \in Nat
      BY AmountsAreMoney
    <3>6. m <= Total[d] - PaidAmount(a, d)
      BY DEF Pending
    <3> QED
      BY <2>1, <3>4, <3>5, <3>6
  <2>2. CASE e # d
    <3>1. \A q \in Payment : b[<<q, e>>] <= a[<<q, e>>]
      BY <1>0, <2>2
    <3> QED
      BY <3>1, PaidShrinks DEF Within
  <2> QED
    BY <2>1, <2>2
<1>2. ASSUME NEW q \in Payment
      PROVE  UsedAmount(b, q) <= Amount[q]
  <2>1. CASE q = p
    <3> DEFINE f == [e \in Document |-> a[<<p, e>>]]
               g == [e \in Document |-> b[<<p, e>>]]
    <3>1. f \in [Document -> Nat] /\ g \in [Document -> Nat]
      BY <1>0
    <3>2. g[d] = f[d] + m /\ \A e \in Document : e # d => g[e] = f[e]
      OBVIOUS
    <3>3. SumFunction(g) = SumFunction(f) + m
      <4>1. IsFiniteSet(Document)
        BY BillingAssumption
      <4> HIDE DEF f, g
      <4> QED
        BY <3>1, <3>2, <4>1, SumAdd
    <3>4. UsedAmount(b, p) = UsedAmount(a, p) + m
      BY <3>3 DEF UsedAmount
    <3>5. UsedAmount(a, p) \in Nat /\ Amount[p] \in Nat
      BY AmountsAreMoney
    <3>6. m <= Amount[p] - UsedAmount(a, p)
      BY DEF Remaining
    <3> QED
      BY <2>1, <3>4, <3>5, <3>6
  <2>2. CASE q # p
    <3>1. \A e \in Document : b[<<q, e>>] <= a[<<q, e>>]
      BY <1>0, <2>2
    <3> QED
      BY <3>1, UsedShrinks DEF Within
  <2> QED
    BY <2>1, <2>2
<1> QED
  BY <1>1, <1>2 DEF Within

LEMMA SeenType ==
  ASSUME TypeOK, NEW t \in Tx
  PROVE  /\ allocation \in [Row -> Nat] /\ tx[t].add \in [Row -> Nat]
         /\ SeenAllocations(t) \in [Row -> Nat]
<1>1. allocation \in [Row -> Nat] /\ tx[t].add \in [Row -> Nat]
  BY TxType DEF TypeOK, Transaction
<1> QED
  BY <1>1 DEF SeenAllocations

\* What holds of the rows a transaction sees next holds in the next state.
LEMMA WithinNext ==
  /\ \A t : Within(SeenAllocations(t)') <=> Within(SeenAllocations(t))'
  /\ Within(allocation') <=> Within(allocation)'
  BY DEF Within, PaidAmount, UsedAmount

LEMMA MovesAmount ==
  ASSUME AmountInv, AllocInv', NEW t \in Tx, NEW locks,
         Begins(t, locks) \/ Goes(t, locks), Within(SeenAllocations(t)')
  PROVE  AmountInv'
<1>1. allocation' = allocation /\ \A o \in Tx \ {t} : tx'[o] = tx[o]
  BY DEF Begins, Goes, Moves, rows
<1>2. Within(allocation)'
  BY <1>1, WithinNext DEF AmountInv
<1>3. ASSUME NEW o \in Tx
      PROVE  Within(SeenAllocations(o))'
  <2>1. CASE o = t
    BY <2>1, WithinNext
  <2>2. CASE o # t
    <3>1. SeenAllocations(o)' = SeenAllocations(o)
      BY <1>1, <2>2 DEF SeenAllocations
    <3> QED
      BY <3>1, WithinNext DEF AmountInv
  <2> QED
    BY <2>1, <2>2
<1> QED
  BY <1>2, <1>3 DEF AmountInv

LEMMA OpenAmount ==
  ASSUME AmountInv, AllocInv', NEW t \in Tx,
         \/ \E p \in Payment : \/ registerPayment(t, p) \/ allocateCredit(t, p)
                               \/ voidPayment(t, p)
         \/ \E d \in Document : generateOne(t, d) \/ discard(t, d) \/ void(t, d)
         \/ \E docs \in SUBSET Document : issue(t, docs)
         \/ Rollback(t)
  PROVE  AmountInv'
<1>1. TypeOK
  BY DEF AmountInv, AllocInv, LockInv
<1>2. PICK locks : Begins(t, locks) /\ NoAmounts(t)
  BY <1>1, PlainFields, RollbackFields, voidPaymentFields, voidFields,
     discardFields, generateOneFields
<1>3. SeenAllocations(t)' = allocation
  BY <1>1, <1>2, SeenType
     DEF SeenAllocations, NoAmounts, NoRow, Begins, Moves, rows
<1> QED
  BY <1>2, <1>3, MovesAmount DEF AmountInv

LEMMA statementAmount ==
  ASSUME AmountInv, AllocInv', NEW t \in Tx,
         \/ suggestAllocations(t) \/ lockPayment(t) \/ lockCredit(t)
         \/ recalculateSignals(t) \/ lockNumbering(t) \/ lockDraft(t)
         \/ insertPayment(t) \/ assignNumber(t)
  PROVE  AmountInv'
<1>1. TypeOK
  BY DEF AmountInv, AllocInv, LockInv
<1>2. PICK locks : Goes(t, locks) /\ SameAmounts(t)
  <2>1. CASE suggestAllocations(t) \/ lockPayment(t) \/ lockCredit(t)
    BY <1>1, <2>1, lockFields
  <2>2. CASE recalculateSignals(t)
    BY <1>1, <2>2, recalculateFields
  <2>3. CASE lockNumbering(t) \/ lockDraft(t)
    BY <1>1, <2>3, lockNumberingFields, lockDraftFields
  <2>4. CASE insertPayment(t)
    BY <1>1, <2>4, insertPaymentFields
  <2>5. CASE assignNumber(t)
    BY <1>1, <2>5, assignNumberFields
  <2> QED
    BY <2>1, <2>2, <2>3, <2>4, <2>5
<1>3. SeenAllocations(t)' = SeenAllocations(t)
  BY <1>2, SeenKept
<1> QED
  BY <1>2, <1>3, MovesAmount DEF AmountInv

LEMMA allocationAmount ==
  ASSUME IsFiniteSet(Payment), AmountInv, AllocInv', NEW t \in Tx,
         applyListed(t) \/ applySuggested(t) \/ drawCredit(t)
  PROVE  AmountInv'
<1>0. TypeOK /\ TypeOK' /\ ReversesVoided(t)
  BY DEF AmountInv, AllocInv, LockInv
<1>1. /\ AllocationStep(t)
      /\ \/ Allocated(t)
         \/ Goes(t, {}) /\ tx'[t].add = tx[t].add
  BY <1>0, applyFields, drawCreditFields
<1>2. tx'[t].rev = tx[t].rev
  BY <1>1 DEF AllocationStep
<1>3. CASE Goes(t, {}) /\ tx'[t].add = tx[t].add
  <2>1. SeenAllocations(t)' = SeenAllocations(t)
    BY <1>2, <1>3, SeenKept DEF SameAmounts
  <2> QED
    BY <1>3, <2>1, MovesAmount DEF AmountInv
<1>4. CASE Allocated(t)
  <2>1. PICK p \in Payment, d \in Document, m \in Nat :
          /\ Goes(t, {Pay(p), Doc(d)})
          /\ Fits(t, p, d, m)
          /\ tx'[t].add[<<p, d>>] = tx[t].add[<<p, d>>] + m
          /\ \A q \in Payment, e \in Document :
               <<q, e>> # <<p, d>> => tx'[t].add[<<q, e>>] = tx[t].add[<<q, e>>]
    BY <1>4 DEF Allocated
  <2>2. allocation' = allocation
    BY <2>1 DEF Goes, Moves, rows
  <2>3. <<p, d>> \notin tx[t].rev
    <3>1. ~ Voided(t, p, d)
      BY <2>1 DEF Fits, SeenPayments, SeenDocuments, Voided
    <3> QED
      BY <1>0, <3>1 DEF ReversesVoided
  <2>4. /\ allocation \in [Row -> Nat] /\ tx[t].add \in [Row -> Nat]
        /\ SeenAllocations(t) \in [Row -> Nat]
    BY <1>0, SeenType
  <2>5. SeenAllocations(t)' \in [Row -> Nat]
    <3>1. tx'[t].add \in [Row -> Nat]
      BY <1>0 DEF TypeOK, Transaction
    <3> QED
      BY <2>2, <2>4, <3>1 DEF SeenAllocations
  <2>6. SeenAllocations(t)'[<<p, d>>] = SeenAllocations(t)[<<p, d>>] + m
    <3>1. <<p, d>> \in Row
      BY DEF Row
    <3>2. allocation[<<p, d>>] \in Nat /\ tx[t].add[<<p, d>>] \in Nat
      BY <2>4, <3>1
    <3>3. /\ SeenAllocations(t)[<<p, d>>] = allocation[<<p, d>>] + tx[t].add[<<p, d>>]
          /\ SeenAllocations(t)'[<<p, d>>] =
               allocation[<<p, d>>] + tx'[t].add[<<p, d>>]
      BY <1>2, <2>2, <2>3, <3>1 DEF SeenAllocations
    <3> QED
      BY <2>1, <3>2, <3>3
  <2>7. \A q \in Payment, e \in Document :
          <<q, e>> # <<p, d>> =>
            SeenAllocations(t)'[<<q, e>>] = SeenAllocations(t)[<<q, e>>]
    BY <1>2, <2>1, <2>2 DEF SeenAllocations, Row
  <2>8. /\ m <= Pending(SeenAllocations(t), d)
        /\ m <= Remaining(SeenAllocations(t), p)
    BY <2>1 DEF Fits
  <2>9. Within(SeenAllocations(t)')
    <3>1. Within(SeenAllocations(t))
      BY DEF AmountInv
    <3> QED
      BY <2>4, <2>5, <2>6, <2>7, <2>8, <3>1, WithinGrows
  <2> QED
    BY <2>1, <2>9, MovesAmount
<1> QED
  BY <1>1, <1>3, <1>4

LEMMA reverseAmount ==
  ASSUME IsFiniteSet(Payment), AmountInv, AllocInv', NEW t \in Tx,
         reverseAllocations(t)
  PROVE  AmountInv'
<1>0. TypeOK /\ ReversesVoided(t) /\ Within(SeenAllocations(t))
  BY DEF AmountInv, AllocInv, LockInv
<1>1. /\ Goes(t, {}) /\ tx'[t].add = tx[t].add
      /\ \A p \in Payment, d \in Document : <<p, d>> \in tx'[t].rev <=> Voided(t, p, d)
  BY <1>0, reverseFields
<1>2. allocation' = allocation
  BY <1>1 DEF Goes, Moves, rows
<1>3. /\ allocation \in [Row -> Nat] /\ tx[t].add \in [Row -> Nat]
      /\ SeenAllocations(t) \in [Row -> Nat]
  BY <1>0, SeenType
<1>4. SeenAllocations(t)' \in [Row -> Nat]
  BY <1>1, <1>2, <1>3 DEF SeenAllocations
<1>5. ASSUME NEW r \in Row
      PROVE  SeenAllocations(t)'[r] <= SeenAllocations(t)[r]
  <2>1. PICK p \in Payment, d \in Document : r = <<p, d>>
    BY DEF Row
  <2>2. r \in tx[t].rev => r \in tx'[t].rev
    BY <1>0, <1>1, <2>1 DEF ReversesVoided
  <2> QED
    BY <1>1, <1>2, <1>3, <2>2 DEF SeenAllocations
<1>6. Within(SeenAllocations(t)')
  BY <1>0, <1>3, <1>4, <1>5, WithinShrinks
<1> QED
  BY <1>1, <1>6, MovesAmount

\* The commit of t leaves what another transaction o sees within the limits: on
\* a document or a payment that o allocates t allocated nothing, as o holds its
\* lock, and elsewhere o sees at most what t has committed.
LEMMA CommitSeen ==
  ASSUME IsFiniteSet(Payment), AmountInv, TypeOK', NEW t \in Tx, Commit(t),
         NEW o \in Tx, o # t
  PROVE  Within(SeenAllocations(o)')
<1> DEFINE before == SeenAllocations(o)
           after == SeenAllocations(o)'
           new == SeenAllocations(t)
<1>0. /\ TypeOK /\ AddsOwned(t) /\ AddsOwned(o)
      /\ Within(before) /\ Within(new) /\ tx[t].held \cap tx[o].held = {}
  BY DEF AmountInv, AllocInv, LockInv, Exclusive
<1>1. tx'[o] = tx[o] /\ allocation' = new
  BY <1>0, CommitFields
<1>2. /\ allocation \in [Row -> Nat] /\ tx[t].add \in [Row -> Nat]
      /\ tx[o].add \in [Row -> Nat] /\ before \in [Row -> Nat] /\ new \in [Row -> Nat]
  BY <1>0, SeenType
<1>3. after \in [Row -> Nat]
  BY <1>1, <1>2 DEF SeenAllocations
<1>4. ASSUME NEW p \in Payment, NEW d \in Document
      PROVE  /\ tx[o].add[<<p, d>>] = 0 => after[<<p, d>>] <= new[<<p, d>>]
             /\ tx[t].add[<<p, d>>] = 0 => after[<<p, d>>] <= before[<<p, d>>]
  <2>1. <<p, d>> \in Row
    BY DEF Row
  <2>2. /\ allocation[<<p, d>>] \in Nat /\ tx[t].add[<<p, d>>] \in Nat
        /\ tx[o].add[<<p, d>>] \in Nat
    BY <1>2, <2>1
  <2>3. new[<<p, d>>] = IF <<p, d>> \in tx[t].rev THEN 0
                        ELSE allocation[<<p, d>>] + tx[t].add[<<p, d>>]
    BY <2>1 DEF SeenAllocations
  <2>4. before[<<p, d>>] = IF <<p, d>> \in tx[o].rev THEN 0
                           ELSE allocation[<<p, d>>] + tx[o].add[<<p, d>>]
    BY <2>1 DEF SeenAllocations
  <2>5. after[<<p, d>>] = IF <<p, d>> \in tx[o].rev THEN 0
                          ELSE new[<<p, d>>] + tx[o].add[<<p, d>>]
    BY <1>1, <2>1 DEF SeenAllocations
  <2> HIDE DEF before, after, new
  <2> QED
    BY <2>2, <2>3, <2>4, <2>5
<1>5. ASSUME NEW d \in Document
      PROVE  PaidAmount(after, d) <= Total[d]
  <2>1. CASE \A p \in Payment : tx[o].add[<<p, d>>] = 0
    <3>1. \A p \in Payment : after[<<p, d>>] <= new[<<p, d>>]
      BY <1>4, <2>1
    <3>2. PaidAmount(new, d) <= Total[d]
      BY <1>0 DEF Within
    <3> HIDE DEF after, new
    <3> QED
      BY <1>2, <1>3, <3>1, <3>2, PaidShrinks
  <2>2. CASE \E p \in Payment : tx[o].add[<<p, d>>] # 0
    <3>1. Doc(d) \in tx[o].held
      BY <1>0, <1>2, <2>2 DEF AddsOwned, Row
    <3>2. \A p \in Payment : tx[t].add[<<p, d>>] = 0
      BY <1>0, <1>2, <3>1 DEF AddsOwned, Row
    <3>3. \A p \in Payment : after[<<p, d>>] <= before[<<p, d>>]
      BY <1>4, <3>2
    <3>4. PaidAmount(before, d) <= Total[d]
      BY <1>0 DEF Within
    <3> HIDE DEF after, before
    <3> QED
      BY <1>2, <1>3, <3>3, <3>4, PaidShrinks
  <2> QED
    BY <2>1, <2>2
<1>6. ASSUME NEW p \in Payment
      PROVE  UsedAmount(after, p) <= Amount[p]
  <2>1. CASE \A d \in Document : tx[o].add[<<p, d>>] = 0
    <3>1. \A d \in Document : after[<<p, d>>] <= new[<<p, d>>]
      BY <1>4, <2>1
    <3>2. UsedAmount(new, p) <= Amount[p]
      BY <1>0 DEF Within
    <3> HIDE DEF after, new
    <3> QED
      BY <1>2, <1>3, <3>1, <3>2, UsedShrinks
  <2>2. CASE \E d \in Document : tx[o].add[<<p, d>>] # 0
    <3>1. Pay(p) \in tx[o].held
      BY <1>0, <1>2, <2>2 DEF AddsOwned, Row
    <3>2. \A d \in Document : tx[t].add[<<p, d>>] = 0
      BY <1>0, <1>2, <3>1 DEF AddsOwned, Row
    <3>3. \A d \in Document : after[<<p, d>>] <= before[<<p, d>>]
      BY <1>4, <3>2
    <3>4. UsedAmount(before, p) <= Amount[p]
      BY <1>0 DEF Within
    <3> HIDE DEF after, before
    <3> QED
      BY <1>2, <1>3, <3>3, <3>4, UsedShrinks
  <2> QED
    BY <2>1, <2>2
<1> QED
  BY <1>5, <1>6 DEF Within

LEMMA CommitAmount ==
  ASSUME IsFiniteSet(Payment), AmountInv, AllocInv', NEW t \in Tx, Commit(t)
  PROVE  AmountInv'
<1>0. TypeOK /\ TypeOK' /\ Within(SeenAllocations(t))
  BY DEF AmountInv, AllocInv, LockInv
<1>1. tx'[t] = Closed /\ allocation' = SeenAllocations(t)
  BY <1>0, CommitFields
<1>2. Within(allocation)'
  BY <1>0, <1>1, WithinNext
<1>3. Within(SeenAllocations(t))'
  <2>1. allocation' \in [Row -> Nat]
    BY <1>0 DEF TypeOK
  <2>2. SeenAllocations(t)' = allocation'
    BY <1>1, <2>1 DEF SeenAllocations, Closed, NoRow
  <2> QED
    BY <1>0, <1>1, <2>2, WithinNext
<1>4. \A o \in Tx : o # t => Within(SeenAllocations(o))'
  BY <1>0, CommitSeen, WithinNext
<1> QED
  BY <1>2, <1>3, <1>4 DEF AmountInv

LEMMA AmountStep ==
  ASSUME IsFiniteSet(Payment)
  PROVE  AmountInv /\ [Next]_vars => AmountInv'
<1> SUFFICES ASSUME AmountInv, [Next]_vars
             PROVE  AmountInv'
  OBVIOUS
<1>0. AllocInv'
  BY AllocStep DEF AmountInv
<1>1. CASE UNCHANGED vars
  <2>1. allocation' = allocation /\ \A t \in Tx : SeenAllocations(t)' = SeenAllocations(t)
    BY <1>1 DEF vars, SeenAllocations
  <2> QED
    BY <1>0, <2>1, WithinNext DEF AmountInv
<1>2. CASE Next
  BY <1>0, <1>2, OpenAmount, statementAmount, allocationAmount, reverseAmount,
     CommitAmount DEF Next
<1> QED
  BY <1>1, <1>2

\* The sums of nothing.
LEMMA NothingPaid ==
  ASSUME IsFiniteSet(Payment)
  PROVE  /\ \A d \in Document : PaidAmount(NoRow, d) = 0
         /\ \A p \in Payment : UsedAmount(NoRow, p) = 0
<1>1. ASSUME NEW d \in Document
      PROVE  PaidAmount(NoRow, d) = 0
  <2>1. [p \in Payment |-> NoRow[<<p, d>>]] = [p \in Payment |-> 0]
    BY DEF NoRow, Row
  <2> QED
    BY <2>1, SumZero DEF PaidAmount
<1>2. ASSUME NEW p \in Payment
      PROVE  UsedAmount(NoRow, p) = 0
  <2>1. [d \in Document |-> NoRow[<<p, d>>]] = [d \in Document |-> 0]
    BY DEF NoRow, Row
  <2> QED
    BY <2>1, SumZero, BillingAssumption DEF UsedAmount
<1> QED
  BY <1>1, <1>2

LEMMA InitAmount ==
  ASSUME IsFiniteSet(Payment)
  PROVE  Init => AmountInv
<1> SUFFICES ASSUME Init PROVE AmountInv
  OBVIOUS
<1>1. Within(NoRow)
  BY NothingPaid, BillingAssumption DEF Within
<1>2. allocation = NoRow
  BY DEF Init
<1>3. ASSUME NEW t \in Tx
      PROVE  SeenAllocations(t) = NoRow
  BY DEF Init, SeenAllocations, Closed, NoRow
<1> QED
  BY <1>1, <1>2, <1>3, InitAlloc DEF AmountInv

\* No document is ever paid more than its total and no payment used beyond its
\* amount, for any number of concurrent commands, documents and amounts:
\* applyAllocations reads both sums under the locks of both rows and holds them
\* to its commit, so no other commit adds to either sum in between.
THEOREM NothingIsOverpaid ==
  ASSUME IsFiniteSet(Payment)
  PROVE  Spec => []NoOverpayment
<1>1. AmountInv => NoOverpayment
  BY DEF AmountInv, Within, NoOverpayment
<1>2. AmountInv /\ [Next]_vars => AmountInv'
  BY AmountStep
<1>3. Init => AmountInv
  BY InitAmount
<1> QED
  BY <1>1, <1>2, <1>3, PTL DEF Spec

-----------------------------------------------------------------------------
(* Signals                                                                 *)

\* What no payment covers is not covered.
Unpaid == \A d \in Document : ~ (Total[d] <= PaidAmount(NoRow, d))

LEMMA SameSum ==
  ASSUME NEW a, NEW b, NEW d, \A p \in Payment : a[<<p, d>>] = b[<<p, d>>]
  PROVE  PaidAmount(a, d) = PaidAmount(b, d)
<1>1. [p \in Payment |-> a[<<p, d>>]] = [p \in Payment |-> b[<<p, d>>]]
  OBVIOUS
<1> QED
  BY <1>1 DEF PaidAmount

\* Whether a period is paid depends on its issued documents and their rows.
LEMMA SamePeriod ==
  ASSUME NEW docs, NEW docs2, NEW a, NEW a2, NEW x,
         \A d \in Document :
           PeriodOf[d] = x => (docs[d] = "EMITIDO" <=> docs2[d] = "EMITIDO"),
         \A p \in Payment, d \in Document :
           PeriodOf[d] = x => a[<<p, d>>] = a2[<<p, d>>]
  PROVE  PeriodPaid(docs, a, x) <=> PeriodPaid(docs2, a2, x)
<1>1. \A d \in Document : PeriodOf[d] = x => PaidAmount(a, d) = PaidAmount(a2, d)
  BY SameSum
<1>2. {d \in Document : PeriodOf[d] = x /\ docs[d] = "EMITIDO"} =
      {d \in Document : PeriodOf[d] = x /\ docs2[d] = "EMITIDO"}
  OBVIOUS
<1> QED
  BY <1>1, <1>2 DEF PeriodPaid

LEMMA SignalsKept ==
  ASSUME NEW o \in Tx, SignalsSeen(o),
         tx'[o].done \ tx'[o].due \subseteq tx[o].done \ tx[o].due,
         tx[o].held \subseteq tx'[o].held, tx'[o].paid = tx[o].paid,
         \A x \in tx'[o].done \ tx'[o].due :
           PeriodPaid(SeenDocuments(o), SeenAllocations(o), x)' <=>
             PeriodPaid(SeenDocuments(o), SeenAllocations(o), x)
  PROVE  SignalsSeen(o)'
<1> SUFFICES ASSUME NEW x \in tx'[o].done \ tx'[o].due
             PROVE  /\ Per(x) \in tx'[o].held
                    /\ x \in tx'[o].paid <=>
                         PeriodPaid(SeenDocuments(o), SeenAllocations(o), x)'
  BY DEF SignalsSeen
<1>1. /\ Per(x) \in tx[o].held
      /\ x \in tx[o].paid <=> PeriodPaid(SeenDocuments(o), SeenAllocations(o), x)
  BY DEF SignalsSeen
<1>2. PeriodPaid(SeenDocuments(o), SeenAllocations(o), x)' <=>
        PeriodPaid(SeenDocuments(o), SeenAllocations(o), x)
  OBVIOUS
<1> QED
  BY <1>1, <1>2

LEMMA MovesSignal ==
  ASSUME SignalInv, AllocInv', NEW t \in Tx, NEW locks,
         Begins(t, locks) \/ Goes(t, locks),
         WritesDue(t)', Phases(t)', SignalsSeen(t)'
  PROVE  SignalInv'
<1>1. \A o \in Tx \ {t} : tx'[o] = tx[o]
  BY DEF Begins, Goes, Moves
<1>2. document' = document /\ allocation' = allocation /\ signal' = signal
  BY DEF Begins, Goes, Moves, rows
<1>3. SignalIsDerived'
  <2>1. \A x \in Period : PeriodPaid(document, allocation, x)' <=>
                            PeriodPaid(document, allocation, x)
    BY <1>2 DEF PeriodPaid, PaidAmount
  <2> QED
    BY <1>2, <2>1 DEF SignalInv, SignalIsDerived
<1>4. ASSUME NEW o \in Tx, o # t
      PROVE  WritesDue(o)' /\ Phases(o)'
  <2>1. tx'[o] = tx[o] /\ WritesDue(o) /\ Phases(o)
    BY <1>1, <1>4 DEF SignalInv
  <2> QED
    BY <1>2, <2>1 DEF WritesDue, Phases, Todo, Voided
<1>5. ASSUME NEW o \in Tx, o # t
      PROVE  SignalsSeen(o)'
  <2>1. tx'[o] = tx[o] /\ SignalsSeen(o)
    BY <1>1, <1>5 DEF SignalInv
  <2>2. SeenDocuments(o)' = SeenDocuments(o) /\ SeenAllocations(o)' = SeenAllocations(o)
    BY <1>2, <2>1 DEF SeenDocuments, SeenAllocations
  <2>3. \A x : PeriodPaid(SeenDocuments(o), SeenAllocations(o), x)' <=>
                 PeriodPaid(SeenDocuments(o), SeenAllocations(o), x)
    BY <2>2 DEF PeriodPaid, PaidAmount
  <2> QED
    BY <2>1, <2>3, SignalsKept
<1> QED
  BY <1>3, <1>4, <1>5 DEF SignalInv

LEMMA OpenSignal ==
  ASSUME SignalInv, AllocInv', NEW t \in Tx,
         \/ \E p \in Payment : \/ registerPayment(t, p) \/ allocateCredit(t, p)
                               \/ voidPayment(t, p)
         \/ \E d \in Document : generateOne(t, d) \/ discard(t, d) \/ void(t, d)
         \/ \E docs \in SUBSET Document : issue(t, docs)
         \/ Rollback(t)
  PROVE  SignalInv'
<1> USE DEF SignalInv, AllocInv, LockInv
<1>1. /\ \E locks : Begins(t, locks)
      /\ NoAmounts(t) /\ NoSignals(t)
      /\ \A d \in Document : tx'[t].doc[d] # "EMITIDO"
      /\ \A d \in Document : tx'[t].doc[d] = "ANULADO" => PeriodOf[d] \in tx'[t].due
      /\ \A p \in Payment, d \in Document :
           Voided(t, p, d)' /\ PeriodOf[d] \notin tx'[t].due => allocation[<<p, d>>] = 0
      /\ \/ tx'[t].due = {} /\ (tx'[t].pc = "signals" \/ tx'[t].todo = {})
         \/ tx'[t].pc = "reverse" /\ tx'[t].todo = {}
  <2>1. CASE \/ \E p \in Payment : registerPayment(t, p) \/ allocateCredit(t, p)
             \/ \E docs \in SUBSET Document : issue(t, docs)
    BY <2>1, PlainFields DEF Voided, NoDoc, NoPay
  <2>2. CASE Rollback(t)
    BY <2>2, RollbackFields DEF Voided, NoDoc, NoPay
  <2>3. ASSUME NEW p \in Payment, voidPayment(t, p)
        PROVE  /\ Begins(t, {Pay(p)}) /\ NoAmounts(t) /\ NoSignals(t)
               /\ \A d \in Document : tx'[t].doc[d] = "same"
               /\ \A q \in Payment, d \in Document :
                    Voided(t, q, d)' /\ PeriodOf[d] \notin tx'[t].due =>
                      allocation[<<q, d>>] = 0
               /\ tx'[t].pc = "reverse" /\ tx'[t].todo = {}
    <3>1. allocation \in [Row -> Nat]
      BY DEF TypeOK
    <3>2. \A q \in Payment, d \in Document : <<q, d>> \in Row
      BY DEF Row
    <3>3. /\ Begins(t, {Pay(p)}) /\ NoAmounts(t) /\ NoSignals(t)
          /\ tx'[t].doc = NoDoc /\ tx'[t].pay = [NoPay EXCEPT ![p] = "ANULADO"]
          /\ tx'[t].due =
               {PeriodOf[d] : d \in {e \in Document : allocation[<<p, e>>] > 0}}
          /\ tx'[t].pc = "reverse" /\ tx'[t].todo = {}
      BY <2>3, voidPaymentFields
    <3>4. \A q \in Payment, d \in Document : Voided(t, q, d)' => q = p
      BY <3>3 DEF Voided, NoDoc, NoPay
    <3>5. \A d \in Document : PeriodOf[d] \notin tx'[t].due => allocation[<<p, d>>] = 0
      BY <3>1, <3>2, <3>3
    <3> QED
      BY <3>3, <3>4, <3>5 DEF NoDoc
  <2>4. ASSUME NEW d \in Document, void(t, d)
        PROVE  /\ Begins(t, {Doc(d)}) /\ NoAmounts(t) /\ NoSignals(t)
               /\ \A e \in Document : tx'[t].doc[e] # "same" =>
                    tx'[t].doc[e] = "ANULADO" /\ PeriodOf[e] \in tx'[t].due
               /\ \A q \in Payment, e \in Document :
                    Voided(t, q, e)' => PeriodOf[e] \in tx'[t].due
               /\ tx'[t].pc = "reverse" /\ tx'[t].todo = {}
    <3>1. /\ Begins(t, {Doc(d)}) /\ NoAmounts(t) /\ NoSignals(t)
          /\ tx'[t].doc = [NoDoc EXCEPT ![d] = "ANULADO"] /\ tx'[t].pay = NoPay
          /\ tx'[t].due = {PeriodOf[d]} /\ tx'[t].pc = "reverse" /\ tx'[t].todo = {}
      BY <2>4, voidFields
    <3>2. \A e \in Document : tx'[t].doc[e] = IF e = d THEN "ANULADO" ELSE "same"
      BY <3>1 DEF NoDoc
    <3>3. \A q \in Payment : tx'[t].pay[q] = "same"
      BY <3>1 DEF NoPay
    <3> QED
      BY <3>1, <3>2, <3>3 DEF Voided
  <2>5. ASSUME NEW d \in Document, discard(t, d) \/ generateOne(t, d)
        PROVE  /\ \E locks : Begins(t, locks)
               /\ NoAmounts(t) /\ NoSignals(t) /\ tx'[t].due = {}
               /\ \A e \in Document : tx'[t].doc[e] \in {"same", "none", "BORRADOR"}
               /\ \A q \in Payment, e \in Document : ~ Voided(t, q, e)'
               /\ tx'[t].pc = "signals"
    <3>1. PICK v \in {"none", "BORRADOR"} :
            tx'[t].doc = [NoDoc EXCEPT ![d] = v] /\ tx'[t].pay = NoPay
      BY <2>5, discardFields, generateOneFields
    <3>2. \A e \in Document : tx'[t].doc[e] = IF e = d THEN v ELSE "same"
      BY <3>1 DEF NoDoc
    <3>3. \A q \in Payment : tx'[t].pay[q] = "same"
      BY <3>1 DEF NoPay
    <3>4. \A q \in Payment, e \in Document : ~ Voided(t, q, e)'
      BY <3>2, <3>3 DEF Voided
    <3>5. /\ \E locks : Begins(t, locks)
          /\ NoAmounts(t) /\ NoSignals(t) /\ tx'[t].due = {} /\ tx'[t].pc = "signals"
      BY <2>5, discardFields, generateOneFields
    <3> QED
      BY <3>2, <3>4, <3>5
  <2> QED
    BY <2>1, <2>2, <2>3, <2>4, <2>5
<1>2. allocation' = allocation
  BY <1>1 DEF Begins, Moves, rows
<1>3. \A p \in Payment, d \in Document : tx'[t].add[<<p, d>>] = 0
  BY <1>1 DEF NoAmounts, NoRow, Row
<1>4. WritesDue(t)'
  BY <1>1, <1>2, <1>3 DEF WritesDue, Todo
<1>5. Phases(t)'
  BY <1>1 DEF Phases, Todo, NoSignals, Issuing
<1>6. SignalsSeen(t)'
  BY <1>1 DEF SignalsSeen, NoSignals
<1> QED
  BY <1>1, <1>4, <1>5, <1>6, MovesSignal

\* A statement after which the writes are the same.
LEMMA KeepsSignal ==
  ASSUME SignalInv, AllocInv', NEW t \in Tx, NEW locks, Goes(t, locks),
         SameDocuments(t), SameAmounts(t), SameSignals(t),
         \A p \in Payment, d \in Document : Voided(t, p, d)' => Voided(t, p, d),
         Phases(t)'
  PROVE  SignalInv'
<1>1. SeenDocuments(t)' = SeenDocuments(t) /\ SeenAllocations(t)' = SeenAllocations(t)
  BY SeenKept
<1>2. allocation' = allocation
  BY DEF Goes, Moves, rows
<1>3. WritesDue(t)'
  <2>1. Todo(t)' = Todo(t)
    BY DEF Todo, SameSignals
  <2> QED
    BY <1>2, <2>1 DEF SignalInv, WritesDue, SameAmounts, SameDocuments, Goes
<1>4. SignalsSeen(t)'
  <2>1. \A x : PeriodPaid(SeenDocuments(t), SeenAllocations(t), x)' <=>
                 PeriodPaid(SeenDocuments(t), SeenAllocations(t), x)
    BY <1>1 DEF PeriodPaid, PaidAmount
  <2> QED
    BY <2>1, SignalsKept DEF SignalInv, SameSignals, Goes
<1> QED
  BY <1>3, <1>4, MovesSignal

LEMMA statementSignal ==
  ASSUME SignalInv, AllocInv', NEW t \in Tx,
         \/ suggestAllocations(t) \/ lockPayment(t) \/ lockCredit(t)
         \/ lockNumbering(t) \/ lockDraft(t)
  PROVE  SignalInv'
<1>0. TypeOK /\ Phases(t)
  BY DEF SignalInv, AllocInv, LockInv
<1>1. CASE suggestAllocations(t) \/ lockPayment(t) \/ lockCredit(t)
  <2>1. PICK locks \in SUBSET Lock :
          /\ Goes(t, locks)
          /\ SameDocuments(t) /\ SameAmounts(t) /\ SameSignals(t)
          /\ tx'[t].pay = tx[t].pay /\ tx'[t].todo = tx[t].todo
          /\ \/ tx[t].pc \in {"suggest", "credit"}
                /\ tx'[t].pc \in {"list", "apply", "signals"}
             \/ tx[t].pc = "balance" /\ tx'[t].pc \in {"draw", "signals"}
    BY <1>0, <1>1, lockFields
  <2>2. Phases(t)'
    BY <1>0, <2>1 DEF Phases, Todo, Issuing, SameSignals, SameDocuments
  <2> QED
    BY <2>1, <2>2, VoidedKept, KeepsSignal DEF SameDocuments
<1>2. CASE lockNumbering(t)
  <2>1. /\ Goes(t, {Number, Subscriber})
        /\ SameDocuments(t) /\ SameAmounts(t) /\ SameSignals(t)
        /\ tx'[t].pay = tx[t].pay /\ tx[t].todo # {}
        /\ tx[t].pc = "signals" /\ tx'[t].pc = "draft"
    BY <1>0, <1>2, lockNumberingFields
  <2>2. Phases(t)'
    BY <1>0, <2>1 DEF Phases, Todo, Issuing, SameSignals, SameDocuments
  <2> QED
    BY <2>1, <2>2, VoidedKept, KeepsSignal DEF SameDocuments
<1>3. CASE lockDraft(t)
  <2>1. /\ Goes(t, {Doc(tx[t].cur)})
        /\ SameDocuments(t) /\ SameAmounts(t) /\ SameSignals(t)
        /\ tx'[t].pay = tx[t].pay /\ tx'[t].todo = tx[t].todo
        /\ tx[t].pc = "draft" /\ tx'[t].pc = "number"
    BY <1>0, <1>3, lockDraftFields
  <2>2. Phases(t)'
    BY <1>0, <2>1 DEF Phases, Todo, Issuing, SameSignals, SameDocuments
  <2> QED
    BY <2>1, <2>2, VoidedKept, KeepsSignal DEF SameDocuments
<1> QED
  BY <1>1, <1>2, <1>3

LEMMA insertPaymentSignal ==
  ASSUME SignalInv, AllocInv', NEW t \in Tx, insertPayment(t)
  PROVE  SignalInv'
<1>0. TypeOK /\ Phases(t)
  BY DEF SignalInv, AllocInv, LockInv
<1>1. PICK p \in Payment :
        /\ Goes(t, {Pay(p)})
        /\ tx'[t].pay = [tx[t].pay EXCEPT ![p] = "REGISTRADO"]
        /\ SameDocuments(t) /\ SameAmounts(t) /\ SameSignals(t)
        /\ tx[t].pc = "insert" /\ tx'[t].pc \in {"suggest", "list", "signals"}
        /\ tx'[t].todo = tx[t].todo
  BY <1>0, insertPaymentFields
<1>2. \A q \in Payment, d \in Document : Voided(t, q, d)' => Voided(t, q, d)
  <2>1. tx[t].pay \in [Payment -> {"same", "REGISTRADO", "ANULADO"}]
    BY <1>0, TxType DEF Transaction
  <2>2. \A q \in Payment : tx'[t].pay[q] = IF q = p THEN "REGISTRADO" ELSE tx[t].pay[q]
    BY <1>1, <2>1
  <2> QED
    BY <1>1, <2>2 DEF Voided, SameDocuments
<1>3. Phases(t)'
  BY <1>0, <1>1 DEF Phases, Todo, Issuing, SameSignals, SameDocuments
<1> QED
  BY <1>1, <1>2, <1>3, KeepsSignal

LEMMA reverseSignal ==
  ASSUME SignalInv, AllocInv', NEW t \in Tx, reverseAllocations(t)
  PROVE  SignalInv'
<1>0. TypeOK /\ Phases(t) /\ WritesDue(t)
  BY DEF SignalInv, AllocInv, LockInv
<1>1. /\ Goes(t, {}) /\ SameDocuments(t) /\ SameSignals(t)
      /\ tx'[t].pay = tx[t].pay /\ tx'[t].add = tx[t].add
      /\ tx'[t].todo = tx[t].todo
      /\ tx[t].pc = "reverse" /\ tx'[t].pc = "signals"
  BY <1>0, reverseFields
<1>2. allocation' = allocation
  BY <1>1 DEF Goes, Moves, rows
<1>3. tx[t].done = {} /\ tx[t].todo = {}
  BY <1>0, <1>1 DEF Phases, Issuing
<1>4. WritesDue(t)'
  <2>1. Todo(t)' = Todo(t)
    BY <1>1 DEF Todo, SameSignals
  <2>2. \A p \in Payment, d \in Document : Voided(t, p, d)' <=> Voided(t, p, d)
    BY <1>1, VoidedKept DEF SameDocuments
  <2> QED
    BY <1>0, <1>1, <1>2, <2>1, <2>2 DEF WritesDue, SameDocuments, Goes
<1>5. Phases(t)'
  BY <1>1, <1>3 DEF Phases, Issuing
<1>6. SignalsSeen(t)'
  BY <1>1, <1>3 DEF SignalsSeen, SameSignals
<1> QED
  BY <1>1, <1>4, <1>5, <1>6, MovesSignal

LEMMA recalculateSignal ==
  ASSUME SignalInv, AllocInv', NEW t \in Tx, recalculateSignals(t)
  PROVE  SignalInv'
<1> DEFINE Paid(y) == PeriodPaid(SeenDocuments(t), SeenAllocations(t), y)
<1>0. TypeOK /\ Phases(t) /\ WritesDue(t) /\ SignalsSeen(t)
  BY DEF SignalInv, AllocInv, LockInv
<1>1. PICK x \in tx[t].due :
        /\ Goes(t, {Per(x)}) /\ SameDocuments(t) /\ SameAmounts(t)
        /\ tx'[t].pay = tx[t].pay /\ tx'[t].todo = tx[t].todo
        /\ tx'[t].due = tx[t].due \ {x} /\ tx'[t].done = tx[t].done \cup {x}
        /\ tx'[t].paid = IF Paid(x) THEN tx[t].paid \cup {x} ELSE tx[t].paid \ {x}
        /\ tx[t].pc = "signals" /\ tx'[t].pc = "signals"
  BY <1>0, recalculateFields
<1>2. allocation' = allocation
  BY <1>1 DEF Goes, Moves, rows
<1>3. Todo(t)' = Todo(t)
  BY <1>1 DEF Todo
<1>4. WritesDue(t)'
  <2>1. \A p \in Payment, d \in Document : Voided(t, p, d)' <=> Voided(t, p, d)
    BY <1>1, VoidedKept DEF SameDocuments
  <2> QED
    BY <1>0, <1>1, <1>2, <1>3, <2>1 DEF WritesDue, SameDocuments, SameAmounts, Goes
<1>5. Phases(t)'
  BY <1>0, <1>1, <1>3 DEF Phases, Issuing, SameDocuments
<1>6. SignalsSeen(t)'
  <2>1. SeenDocuments(t)' = SeenDocuments(t) /\ SeenAllocations(t)' = SeenAllocations(t)
    BY <1>1, SeenKept
  <2>2. \A y : Paid(y)' <=> Paid(y)
    BY <2>1 DEF PeriodPaid, PaidAmount
  <2> SUFFICES ASSUME NEW y \in tx'[t].done \ tx'[t].due
               PROVE  Per(y) \in tx'[t].held /\ (y \in tx'[t].paid <=> Paid(y))
    BY <2>2 DEF SignalsSeen
  <2> HIDE DEF Paid
  <2>3. CASE y = x
    BY <1>1, <2>3 DEF Goes
  <2>4. CASE y # x
    <3>1. Per(y) \in tx[t].held /\ (y \in tx[t].paid <=> Paid(y))
      BY <1>0, <1>1, <2>4 DEF SignalsSeen, Paid
    <3> QED
      BY <1>1, <2>4, <3>1 DEF Goes
  <2> QED
    BY <2>3, <2>4
<1> QED
  BY <1>1, <1>4, <1>5, <1>6, MovesSignal

LEMMA allocationSignal ==
  ASSUME SignalInv, AllocInv', NEW t \in Tx,
         applyListed(t) \/ applySuggested(t) \/ drawCredit(t)
  PROVE  SignalInv'
<1>0. TypeOK /\ Phases(t) /\ WritesDue(t) /\ SignalsSeen(t) /\ DraftOwned(t)
  BY DEF SignalInv, AllocInv, LockInv
<1>1. /\ AllocationStep(t)
      /\ \/ Allocated(t)
         \/ /\ Goes(t, {}) /\ tx'[t].add = tx[t].add /\ tx'[t].due = tx[t].due
            /\ tx[t].pc = "draw"
  BY <1>0, applyFields, drawCreditFields
<1>2. \A p \in Payment, d \in Document : Voided(t, p, d)' <=> Voided(t, p, d)
  BY <1>1, VoidedKept DEF AllocationStep, SameDocuments
<1>3. CASE /\ Goes(t, {}) /\ tx'[t].add = tx[t].add /\ tx'[t].due = tx[t].due
           /\ tx[t].pc = "draw"
  <2>1. SameDocuments(t) /\ SameAmounts(t) /\ SameSignals(t)
    BY <1>1, <1>3 DEF AllocationStep, SameAmounts, SameSignals
  <2>2. tx'[t].todo = tx[t].todo /\ tx'[t].pc \in {"draw", "signals"}
    BY <1>1, <1>3 DEF AllocationStep
  <2>3. Phases(t)'
    BY <1>0, <1>3, <2>1, <2>2 DEF Phases, Todo, Issuing, SameSignals, SameDocuments
  <2> QED
    BY <1>2, <1>3, <2>1, <2>3, KeepsSignal
<1>4. CASE Allocated(t)
  <2>1. PICK p \in Payment, d \in Document :
          /\ Goes(t, {Pay(p), Doc(d)})
          /\ \A q \in Payment, e \in Document :
               <<q, e>> # <<p, d>> => tx'[t].add[<<q, e>>] = tx[t].add[<<q, e>>]
          /\ tx'[t].due = tx[t].due \cup {PeriodOf[d]}
          /\ tx[t].pc = "draw" => d = tx[t].cur
    BY <1>4 DEF Allocated, Fits
  <2>2. /\ document' = document /\ allocation' = allocation
        /\ tx'[t].doc = tx[t].doc /\ tx'[t].rev = tx[t].rev
        /\ tx'[t].done = tx[t].done /\ tx'[t].paid = tx[t].paid
        /\ tx'[t].todo = tx[t].todo
    BY <1>1, <2>1 DEF Goes, Moves, rows, AllocationStep, SameDocuments
  <2>3. Todo(t)' = Todo(t) \cup {PeriodOf[d]}
    BY <2>1, <2>2 DEF Todo
  <2>4. WritesDue(t)'
    <3>1. \A q \in Payment, e \in Document :
            tx'[t].add[<<q, e>>] > 0 => PeriodOf[e] \in Todo(t)'
      <4> SUFFICES ASSUME NEW q \in Payment, NEW e \in Document,
                          tx'[t].add[<<q, e>>] > 0
                   PROVE  PeriodOf[e] \in Todo(t)'
        OBVIOUS
      <4>1. CASE e = d
        BY <2>3, <4>1
      <4>2. CASE e # d
        <5>1. tx'[t].add[<<q, e>>] = tx[t].add[<<q, e>>]
          BY <2>1, <4>2
        <5> QED
          BY <1>0, <2>3, <5>1 DEF WritesDue
      <4> QED
        BY <4>1, <4>2
    <3>2. \A q \in Payment, e \in Document :
            Voided(t, q, e)' /\ PeriodOf[e] \notin Todo(t)' => allocation'[<<q, e>>] = 0
      BY <1>0, <1>2, <2>2, <2>3 DEF WritesDue
    <3>3. \A e \in Document :
            /\ tx'[t].doc[e] = "ANULADO" => PeriodOf[e] \in Todo(t)'
            /\ tx'[t].doc[e] = "EMITIDO" => Per(PeriodOf[e]) \in tx'[t].held
      BY <1>0, <2>1, <2>2, <2>3 DEF WritesDue, Goes
    <3> QED
      BY <3>1, <3>2, <3>3 DEF WritesDue
  <2>5. Phases(t)'
    <3>1. CASE tx[t].pc \in {"list", "apply"}
      <4>1. tx[t].todo = {} /\ tx'[t].pc \in {"list", "apply", "signals"}
        BY <1>0, <1>1, <3>1 DEF Phases, Issuing, AllocationStep
      <4> QED
        BY <2>2, <4>1 DEF Phases, Issuing
    <3>2. CASE tx[t].pc = "draw"
      <4>1. /\ d \in Document /\ tx[t].doc[d] = "EMITIDO"
            /\ tx'[t].pc \in {"draw", "signals"}
        BY <1>0, <1>1, <2>1, <3>2 DEF DraftOwned, AllocationStep
      <4>2. \A x \in Todo(t) :
              \E e \in Document : PeriodOf[e] = x /\ tx[t].doc[e] = "EMITIDO"
        BY <1>0, <3>2 DEF Phases, Issuing
      <4>3. \A x \in Todo(t)' :
              \E e \in Document : PeriodOf[e] = x /\ tx'[t].doc[e] = "EMITIDO"
        BY <2>2, <2>3, <4>1, <4>2
      <4> QED
        BY <4>1, <4>3 DEF Phases, Issuing
    <3> QED
      BY <1>1, <3>1, <3>2 DEF AllocationStep
  <2>6. SignalsSeen(t)'
    <3>1. ASSUME NEW x \in tx'[t].done \ tx'[t].due
          PROVE  PeriodPaid(SeenDocuments(t), SeenAllocations(t), x)' <=>
                   PeriodPaid(SeenDocuments(t), SeenAllocations(t), x)
      <4>1. x # PeriodOf[d]
        BY <2>1
      <4>2. SeenDocuments(t)' = SeenDocuments(t)
        BY <2>2 DEF SeenDocuments
      <4>3. ASSUME NEW q \in Payment, NEW e \in Document, PeriodOf[e] = x
            PROVE  SeenAllocations(t)'[<<q, e>>] = SeenAllocations(t)[<<q, e>>]
        <5>1. <<q, e>> \in Row /\ <<q, e>> # <<p, d>>
          BY <4>1, <4>3 DEF Row
        <5>2. tx'[t].add[<<q, e>>] = tx[t].add[<<q, e>>]
          BY <2>1, <5>1
        <5> QED
          BY <2>2, <5>1, <5>2 DEF SeenAllocations
      <4>4. PeriodPaid(SeenDocuments(t)', SeenAllocations(t)', x) <=>
              PeriodPaid(SeenDocuments(t), SeenAllocations(t), x)
        BY <4>2, <4>3, SamePeriod
      <4> QED
        BY <4>4 DEF PeriodPaid, PaidAmount
    <3> QED
      BY <1>0, <2>1, <2>2, <3>1, SignalsKept DEF Goes
  <2> QED
    BY <2>1, <2>4, <2>5, <2>6, MovesSignal
<1> QED
  BY <1>1, <1>3, <1>4

LEMMA assignNumberSignal ==
  ASSUME SignalInv, AllocInv', NEW t \in Tx, assignNumber(t)
  PROVE  SignalInv'
<1> DEFINE c == tx[t].cur
<1>0. TypeOK /\ Phases(t) /\ WritesDue(t) /\ SignalsSeen(t) /\ DraftOwned(t)
  BY DEF SignalInv, AllocInv, LockInv
<1>1. /\ c \in Document /\ Goes(t, {Per(PeriodOf[c])})
      /\ tx'[t].doc = [tx[t].doc EXCEPT ![c] = "EMITIDO"]
      /\ tx'[t].pay = tx[t].pay /\ SameAmounts(t) /\ SameSignals(t)
      /\ tx'[t].todo = tx[t].todo
      /\ tx[t].pc = "number" /\ tx'[t].pc \in {"balance", "signals"}
  BY <1>0, assignNumberFields
<1>2. \A d \in Document : tx'[t].doc[d] = IF d = c THEN "EMITIDO" ELSE tx[t].doc[d]
  BY <1>0, <1>1, TxType DEF Transaction
<1>3. SeenDocuments(t)[c] = "BORRADOR"
  BY <1>0, <1>1 DEF DraftOwned
<1>4. tx[t].doc[c] # "ANULADO" /\ tx[t].doc[c] # "EMITIDO"
  BY <1>1, <1>3 DEF SeenDocuments
<1>5. document' = document /\ allocation' = allocation /\ Todo(t)' = Todo(t)
  BY <1>1 DEF Goes, Moves, rows, Todo, SameSignals
<1>6. \A p \in Payment, d \in Document : Voided(t, p, d)' => Voided(t, p, d)
  BY <1>1, <1>2 DEF Voided
<1>7. WritesDue(t)'
  BY <1>0, <1>1, <1>2, <1>5, <1>6 DEF WritesDue, SameAmounts, Goes
<1>8. \A x \in Todo(t) :
        \E d \in Document : PeriodOf[d] = x /\ tx[t].doc[d] = "EMITIDO"
  BY <1>0, <1>1 DEF Phases, Issuing
<1>9. Phases(t)'
  <2>1. \A x \in Todo(t)' :
          \E d \in Document : PeriodOf[d] = x /\ tx'[t].doc[d] = "EMITIDO"
    BY <1>2, <1>5, <1>8
  <2> QED
    BY <1>1, <2>1 DEF Phases, Issuing
<1>10. PeriodOf[c] \notin Todo(t)
  <2> SUFFICES ASSUME PeriodOf[c] \in Todo(t)
               PROVE  FALSE
    OBVIOUS
  <2>1. PICK d \in Document : PeriodOf[d] = PeriodOf[c] /\ tx[t].doc[d] = "EMITIDO"
    BY <1>8
  <2>2. tx'[t].doc[d] = "EMITIDO" /\ tx'[t].doc[c] = "EMITIDO" /\ d # c
    BY <1>1, <1>2, <1>4, <2>1
  <2>3. OneLiveWritten(t)'
    BY DEF AllocInv, LockInv
  <2> QED
    BY <1>1, <2>1, <2>2, <2>3 DEF OneLiveWritten, Live
<1>11. SignalsSeen(t)'
  <2>1. ASSUME NEW x \in tx'[t].done \ tx'[t].due
        PROVE  PeriodPaid(SeenDocuments(t), SeenAllocations(t), x)' <=>
                 PeriodPaid(SeenDocuments(t), SeenAllocations(t), x)
    <3>1. x # PeriodOf[c]
      BY <1>1, <1>10 DEF Todo, SameSignals
    <3>2. \A d \in Document :
            PeriodOf[d] = x => SeenDocuments(t)'[d] = SeenDocuments(t)[d]
      BY <1>2, <1>5, <3>1 DEF SeenDocuments
    <3>3. SeenAllocations(t)' = SeenAllocations(t)
      BY <1>1, SeenKept
    <3>4. PeriodPaid(SeenDocuments(t)', SeenAllocations(t)', x) <=>
            PeriodPaid(SeenDocuments(t), SeenAllocations(t), x)
      BY <3>2, <3>3, SamePeriod
    <3> QED
      BY <3>4 DEF PeriodPaid, PaidAmount
  <2> QED
    BY <1>0, <1>1, <2>1, SignalsKept DEF SameSignals, Goes
<1> QED
  BY <1>1, <1>7, <1>9, <1>11, MovesSignal

\* A commit that issues nothing in a period and recalculates nothing of it does
\* not change what its signal is derived from.
LEMMA QuietCommit ==
  ASSUME SignalInv, NEW t \in Tx, Commit(t), NEW x, x \notin Todo(t),
         \A d \in Document : PeriodOf[d] = x => tx[t].doc[d] # "EMITIDO"
  PROVE  /\ \A d \in Document :
              PeriodOf[d] = x => (document'[d] = "EMITIDO" <=> document[d] = "EMITIDO")
         /\ \A p \in Payment, d \in Document :
              PeriodOf[d] = x => allocation'[<<p, d>>] = allocation[<<p, d>>]
<1>0. /\ TypeOK /\ WritesDue(t) /\ DocumentsOwned(t) /\ ReversesVoided(t)
      /\ tx[t].doc \in [Document -> DocStatus \cup {"same"}]
      /\ tx[t].add \in [Row -> Nat] /\ allocation \in [Row -> Nat]
  BY TxType DEF SignalInv, AllocInv, LockInv, TypeOK, Transaction
<1>1. document' = SeenDocuments(t) /\ allocation' = SeenAllocations(t)
  BY <1>0, CommitFields
<1>2. ASSUME NEW d \in Document, PeriodOf[d] = x
      PROVE  document'[d] = "EMITIDO" <=> document[d] = "EMITIDO"
  <2>1. tx[t].doc[d] \in {"same", "none", "BORRADOR"}
    BY <1>0, <1>2 DEF WritesDue, DocStatus
  <2> QED
    BY <1>0, <1>1, <2>1 DEF SeenDocuments, DocumentsOwned, Generated
<1>3. ASSUME NEW p \in Payment, NEW d \in Document, PeriodOf[d] = x
      PROVE  allocation'[<<p, d>>] = allocation[<<p, d>>]
  <2>1. <<p, d>> \in Row
    BY DEF Row
  <2>2. tx[t].add[<<p, d>>] \in Nat /\ ~ (tx[t].add[<<p, d>>] > 0)
    BY <1>0, <1>3, <2>1 DEF WritesDue
  <2>3. allocation[<<p, d>>] \in Nat
    BY <1>0, <2>1
  <2>4. <<p, d>> \in tx[t].rev => allocation[<<p, d>>] = 0
    <3>1. <<p, d>> \in tx[t].rev => Voided(t, p, d)
      BY <1>0 DEF ReversesVoided
    <3> QED
      BY <1>0, <1>3, <3>1 DEF WritesDue
  <2> QED
    BY <1>1, <2>1, <2>2, <2>3, <2>4 DEF SeenAllocations
<1> QED
  BY <1>2, <1>3

\* A period in which the commit issues a document was not paid and is not yet.
LEMMA IssuingCommit ==
  ASSUME SignalInv, Unpaid, NEW t \in Tx, Commit(t), NEW d \in Document,
         tx[t].doc[d] = "EMITIDO", PeriodOf[d] \notin Todo(t)
  PROVE  /\ ~ PeriodPaid(document, allocation, PeriodOf[d])
         /\ ~ PeriodPaid(document, allocation, PeriodOf[d])'
<1>0. /\ TypeOK /\ WritesDue(t) /\ DocumentsOwned(t) /\ OneLive
      /\ tx[t].add \in [Row -> Nat] /\ allocation \in [Row -> Nat]
      /\ AllocationsAreLive
  BY TxType DEF SignalInv, AllocInv, LockInv, TypeOK, Transaction
<1>1. document' = SeenDocuments(t) /\ allocation' = SeenAllocations(t)
  BY <1>0, CommitFields
<1>2. document[d] # "EMITIDO" /\ (document[d] = "BORRADOR" \/ Alone(d))
  BY <1>0 DEF DocumentsOwned, Generated
<1>3. \A e \in Document : PeriodOf[e] = PeriodOf[d] => document[e] # "EMITIDO"
  BY <1>0, <1>2 DEF OneLive, Alone, Live
<1>4. ~ PeriodPaid(document, allocation, PeriodOf[d])
  BY <1>3 DEF PeriodPaid
<1>5. \A p \in Payment : allocation'[<<p, d>>] = NoRow[<<p, d>>]
  <2> TAKE p \in Payment
  <2>1. <<p, d>> \in Row
    BY DEF Row
  <2>2. allocation[<<p, d>>] = 0
    BY <1>0, <1>2, <2>1 DEF AllocationsAreLive
  <2>3. tx[t].add[<<p, d>>] = 0
    BY <1>0, <2>1 DEF WritesDue
  <2> QED
    BY <1>1, <2>1, <2>2, <2>3 DEF SeenAllocations, NoRow
<1>6. PaidAmount(allocation', d) = PaidAmount(NoRow, d)
  BY <1>5, SameSum
<1>7. document'[d] = "EMITIDO"
  BY <1>1 DEF SeenDocuments
<1>8. ~ PeriodPaid(document', allocation', PeriodOf[d])
  BY <1>6, <1>7 DEF PeriodPaid, Unpaid
<1> QED
  BY <1>4, <1>8 DEF PeriodPaid, PaidAmount

LEMMA CommitSignal ==
  ASSUME SignalInv, AllocInv', Unpaid, NEW t \in Tx, Commit(t)
  PROVE  SignalInv'
<1>0. TypeOK /\ SignalsSeen(t) /\ WritesDue(t) /\ AddsOwned(t)
  BY DEF SignalInv, AllocInv, LockInv
<1>1. /\ tx'[t] = Closed /\ \A o \in Tx \ {t} : tx'[o] = tx[o]
      /\ tx[t].due = {}
      /\ document' = SeenDocuments(t) /\ allocation' = SeenAllocations(t)
  BY <1>0, CommitFields
<1>2. \A x \in Period :
        signal'[x] = IF x \in tx[t].done THEN x \in tx[t].paid ELSE signal[x]
  BY DEF Commit
<1>3. Todo(t) = tx[t].done
  BY <1>1 DEF Todo
<1>4. SignalIsDerived'
  <2> SUFFICES ASSUME NEW x \in Period
               PROVE  signal'[x] <=> PeriodPaid(document', allocation', x)
    BY DEF SignalIsDerived, PeriodPaid, PaidAmount
  <2>1. CASE x \in tx[t].done
    <3>1. x \in tx[t].paid <=> PeriodPaid(SeenDocuments(t), SeenAllocations(t), x)
      BY <1>0, <1>1, <2>1 DEF SignalsSeen
    <3> QED
      BY <1>1, <1>2, <2>1, <3>1
  <2>2. CASE x \notin tx[t].done
    <3>1. signal'[x] <=> PeriodPaid(document, allocation, x)
      BY <1>2, <2>2 DEF SignalInv, SignalIsDerived
    <3>2. CASE \E d \in Document : PeriodOf[d] = x /\ tx[t].doc[d] = "EMITIDO"
      <4>1. /\ ~ PeriodPaid(document, allocation, x)
            /\ ~ PeriodPaid(document, allocation, x)'
        BY <1>3, <2>2, <3>2, IssuingCommit
      <4>2. ~ PeriodPaid(document', allocation', x)
        BY <4>1 DEF PeriodPaid, PaidAmount
      <4> QED
        BY <3>1, <4>1, <4>2
    <3>3. CASE ~ \E d \in Document : PeriodOf[d] = x /\ tx[t].doc[d] = "EMITIDO"
      <4>1. /\ \A d \in Document : PeriodOf[d] = x =>
                 (document'[d] = "EMITIDO" <=> document[d] = "EMITIDO")
            /\ \A p \in Payment, d \in Document :
                 PeriodOf[d] = x => allocation'[<<p, d>>] = allocation[<<p, d>>]
        BY <1>3, <2>2, <3>3, QuietCommit
      <4>2. PeriodPaid(document', allocation', x) <=>
              PeriodPaid(document, allocation, x)
        BY <4>1, SamePeriod
      <4> QED
        BY <3>1, <4>2
    <3> QED
      BY <3>2, <3>3
  <2> QED
    BY <2>1, <2>2
<1>5. WritesDue(t)' /\ Phases(t)' /\ SignalsSeen(t)'
  <2>1. /\ \A p \in Payment, d \in Document :
             tx'[t].add[<<p, d>>] = 0 /\ ~ Voided(t, p, d)'
        /\ \A d \in Document : tx'[t].doc[d] = "same"
        /\ tx'[t].pc = "closed" /\ tx'[t].todo = {} /\ tx'[t].done = {}
    BY <1>1 DEF Closed, NoRow, Row, Voided
  <2> QED
    BY <2>1 DEF WritesDue, Phases, SignalsSeen, Issuing
<1>6. ASSUME NEW o \in Tx, o # t
      PROVE  WritesDue(o)' /\ Phases(o)' /\ SignalsSeen(o)'
  <2>0. /\ tx'[o] = tx[o] /\ WritesDue(o) /\ Phases(o) /\ SignalsSeen(o)
        /\ DocumentsOwned(o) /\ PaymentsOwned(o)
        /\ tx[t].held \cap tx[o].held = {}
    BY <1>1, <1>6 DEF SignalInv, AllocInv, LockInv, Exclusive
  <2>1. Phases(o)'
    BY <2>0 DEF Phases, Todo
  <2>2. ASSUME NEW p \in Payment, NEW d \in Document,
               Voided(o, p, d), allocation[<<p, d>>] = 0
        PROVE  allocation'[<<p, d>>] = 0
    <3>1. Pay(p) \in tx[o].held \/ Doc(d) \in tx[o].held
      BY <2>0, <2>2 DEF Voided, DocumentsOwned, PaymentsOwned
    <3>2. <<p, d>> \in Row /\ tx[t].add[<<p, d>>] \in Nat
      BY <1>0, TxType DEF Row, Transaction
    <3>3. tx[t].add[<<p, d>>] = 0
      BY <1>0, <2>0, <3>1, <3>2 DEF AddsOwned
    <3> QED
      BY <1>1, <2>2, <3>2, <3>3 DEF SeenAllocations
  <2>3. WritesDue(o)'
    BY <2>0, <2>2 DEF WritesDue, Todo, Voided
  <2>4. ASSUME NEW x \in tx'[o].done \ tx'[o].due
        PROVE  PeriodPaid(SeenDocuments(o), SeenAllocations(o), x)' <=>
                 PeriodPaid(SeenDocuments(o), SeenAllocations(o), x)
    <3>1. Per(x) \notin tx[t].held
      BY <2>0, <2>4 DEF SignalsSeen
    <3>2. x \notin Todo(t)
      BY <1>0, <1>1, <1>3, <3>1 DEF SignalsSeen
    <3>3. \A d \in Document : PeriodOf[d] = x => tx[t].doc[d] # "EMITIDO"
      BY <1>0, <3>1 DEF WritesDue
    <3>4. /\ \A d \in Document : PeriodOf[d] = x =>
               (document'[d] = "EMITIDO" <=> document[d] = "EMITIDO")
          /\ \A p \in Payment, d \in Document :
               PeriodOf[d] = x => allocation'[<<p, d>>] = allocation[<<p, d>>]
      BY <3>2, <3>3, QuietCommit
    <3>5. \A d \in Document : PeriodOf[d] = x =>
            (SeenDocuments(o)'[d] = "EMITIDO" <=> SeenDocuments(o)[d] = "EMITIDO")
      BY <2>0, <3>4 DEF SeenDocuments
    <3>6. ASSUME NEW p \in Payment, NEW d \in Document, PeriodOf[d] = x
          PROVE  SeenAllocations(o)'[<<p, d>>] = SeenAllocations(o)[<<p, d>>]
      <4>1. <<p, d>> \in Row /\ allocation'[<<p, d>>] = allocation[<<p, d>>]
        BY <3>4, <3>6 DEF Row
      <4> QED
        BY <2>0, <4>1 DEF SeenAllocations
    <3>7. PeriodPaid(SeenDocuments(o)', SeenAllocations(o)', x) <=>
            PeriodPaid(SeenDocuments(o), SeenAllocations(o), x)
      BY <3>5, <3>6, SamePeriod
    <3> QED
      BY <3>7 DEF PeriodPaid, PaidAmount
  <2>5. SignalsSeen(o)'
    BY <2>0, <2>4, SignalsKept
  <2> QED
    BY <2>1, <2>3, <2>5
<1> QED
  BY <1>4, <1>5, <1>6 DEF SignalInv

LEMMA SignalStep == Unpaid /\ SignalInv /\ [Next]_vars => SignalInv'
<1> SUFFICES ASSUME Unpaid, SignalInv, [Next]_vars
             PROVE  SignalInv'
  OBVIOUS
<1>0. AllocInv'
  BY AllocStep DEF SignalInv
<1>1. CASE UNCHANGED vars
  <2>1. SignalIsDerived'
    BY <1>1 DEF SignalInv, SignalIsDerived, PeriodPaid, PaidAmount, vars
  <2>2. ASSUME NEW o \in Tx
        PROVE  WritesDue(o)' /\ Phases(o)'
    BY <1>1 DEF SignalInv, WritesDue, Phases, Todo, Voided, vars
  <2>3. ASSUME NEW o \in Tx
        PROVE  SignalsSeen(o)'
    BY <1>1 DEF SignalInv, SignalsSeen, PeriodPaid, PaidAmount, SeenDocuments,
                SeenAllocations, vars
  <2> QED
    BY <1>0, <2>1, <2>2, <2>3 DEF SignalInv
<1>2. CASE Next
  BY <1>0, <1>2, OpenSignal, insertPaymentSignal, statementSignal, allocationSignal,
     reverseSignal, recalculateSignal, assignNumberSignal, CommitSignal DEF Next
<1> QED
  BY <1>1, <1>2

LEMMA InitSignal == Init => SignalInv
<1> SUFFICES ASSUME Init PROVE SignalInv
  OBVIOUS
<1>1. SignalIsDerived
  BY DEF Init, SignalIsDerived, PeriodPaid
<1>2. ASSUME NEW t \in Tx
      PROVE  WritesDue(t) /\ Phases(t) /\ SignalsSeen(t)
  BY DEF Init, WritesDue, Phases, SignalsSeen, Voided, Closed, NoRow, Row, Issuing
<1> QED
  BY <1>1, <1>2, InitAlloc DEF SignalInv

\* While every document has a positive total, the signal of a period is
\* at every moment what recalculateSignals would compute from the committed
\* rows, for any number of concurrent commands: who recalculates holds the
\* period to its commit, and whoever changes an allocation or voids a document
\* recalculates the period after it.
THEOREM SignalsAgree ==
  ASSUME IsFiniteSet(Payment), \A d \in Document : Total[d] > 0
  PROVE  Spec => []SignalIsDerived
<1>0. Unpaid
  BY NothingPaid, BillingAssumption DEF Unpaid
<1>1. SignalInv => SignalIsDerived
  BY DEF SignalInv
<1>2. SignalInv /\ [Next]_vars => SignalInv'
  BY <1>0, SignalStep
<1> QED
  BY <1>1, <1>2, InitSignal, PTL DEF Spec
=============================================================================
