----------------------------- MODULE BillingProofs -----------------------------
(***************************************************************************)
(* Billing for any number of connections, documents, payments and periods: *)
(* type correctness, and for every action a lemma that says what it does   *)
(* to each field of its transaction, from which BillingSafety argues.      *)
(***************************************************************************)
EXTENDS Billing, FiniteInduction, FiniteSetTheorems, TLAPS

-----------------------------------------------------------------------------
(* Notions the lemmas and the invariants share                             *)

Live == {"BORRADOR", "EMITIDO"}

\* No document of the period of d is live.
Alone(d) ==
  \A e \in Document : PeriodOf[e] = PeriodOf[d] => document[e] \notin Live

\* The transaction voids the payment or the document.
Voided(t, p, d) == tx[t].pay[p] = "ANULADO" \/ tx[t].doc[d] = "ANULADO"

-----------------------------------------------------------------------------
(* Types                                                                   *)

LEMMA ClosedType == Closed \in Transaction
  BY DEF Closed, Transaction, Nothing, NoRow, DocStatus

LEMMA LockTypes ==
  /\ Subscriber \in Lock /\ Number \in Lock
  /\ \A x \in Period : Generation(x) \in Lock /\ Per(x) \in Lock
  /\ \A d \in Document : Doc(d) \in Lock
  /\ \A p \in Payment : Pay(p) \in Lock
  BY DEF Lock

\* A statement leaves the committed rows and the other transactions alone.
LEMMA StatementType ==
  ASSUME TypeOK, NEW t \in Tx, NEW pc, NEW locks \in SUBSET Lock,
         NEW fields \in Transaction, Statement(t, pc, locks, fields)
  PROVE  TypeOK'
<1>1. [fields EXCEPT !.held = @ \cup locks] \in Transaction
  BY DEF Transaction
<1> QED
  BY <1>1 DEF Statement, TypeOK, rows

LEMMA OpenType ==
  ASSUME TypeOK, NEW t \in Tx, NEW fields \in Transaction, Open(t, fields)
  PROVE  TypeOK'
  BY DEF Open, TypeOK, rows

LEMMA TxType == TypeOK => \A t \in Tx : tx[t] \in Transaction
  BY DEF TypeOK

LEMMA registerPaymentType ==
  ASSUME TypeOK, NEW t \in Tx, NEW p \in Payment,
         registerPayment(t, p) \/ allocateCredit(t, p)
  PROVE  TypeOK'
<1> DEFINE F(pc) == [Closed EXCEPT !.pc = pc, !.cur = p, !.held = {Subscriber}]
<1>1. \A pc \in {"insert", "credit"} : F(pc) \in Transaction
  BY ClosedType, LockTypes, BillingAssumption DEF Transaction
<1>2. \E pc \in {"insert", "credit"} : Open(t, F(pc))
  BY Zenon DEF registerPayment, allocateCredit
<1> HIDE DEF F
<1> QED
  BY <1>1, <1>2, OpenType

LEMMA voidPaymentType ==
  ASSUME TypeOK, NEW t \in Tx, NEW p \in Payment, voidPayment(t, p)
  PROVE  TypeOK'
<1> DEFINE D == {PeriodOf[d] : d \in {e \in Document : allocation[<<p, e>>] > 0}}
           F == [Closed EXCEPT !.pc = "reverse", !.held = {Pay(p)},
                               !.pay[p] = "ANULADO", !.due = D]
<1>1. Open(t, F)
  BY Zenon DEF voidPayment
<1>2. D \in SUBSET Period
  BY BillingAssumption
<1> HIDE DEF D
<1>3. F \in Transaction
  BY <1>2, ClosedType, LockTypes DEF Transaction
<1> HIDE DEF F
<1> QED
  BY <1>1, <1>3, OpenType

LEMMA insertPaymentType ==
  ASSUME TypeOK, NEW t \in Tx, insertPayment(t)
  PROVE  TypeOK'
<1> DEFINE p == tx[t].cur
           F(pc) == [tx[t] EXCEPT !.pc = pc, !.pay[p] = "REGISTRADO"]
<1>1. tx[t] \in Transaction /\ p \in Payment
  BY DEF TypeOK, insertPayment
<1>2. \A pc \in {"suggest", "list", "signals"} : F(pc) \in Transaction
  BY <1>1 DEF Transaction
<1>3. \E pc \in {"suggest", "list", "signals"} : Statement(t, "insert", {Pay(p)}, F(pc))
  BY Zenon DEF insertPayment
<1>4. {Pay(p)} \in SUBSET Lock
  BY <1>1, LockTypes
<1> HIDE DEF F
<1> QED
  BY <1>2, <1>3, <1>4, StatementType

LEMMA allocateType ==
  ASSUME TypeOK, NEW t \in Tx, NEW pc, NEW p \in Payment, NEW d \in Document,
         NEW m \in Nat, NEW fields \in Transaction,
         allocate(t, pc, p, d, m, fields)
  PROVE  TypeOK'
<1>1. <<p, d>> \in Row /\ PeriodOf[d] \in Period
  BY BillingAssumption DEF Row
<1> DEFINE A == [fields.add EXCEPT ![<<p, d>>] = @ + m]
           F == [fields EXCEPT !.add = A, !.due = @ \cup {PeriodOf[d]}]
<1>2. A \in [Row -> Nat]
  BY <1>1 DEF Transaction
<1>3. [fields EXCEPT !.add[<<p, d>>] = @ + m, !.due = @ \cup {PeriodOf[d]}] = F
  BY DEF Transaction
<1> HIDE DEF A
<1>4. F \in Transaction
  BY <1>1, <1>2 DEF Transaction
<1>5. Statement(t, pc, {Pay(p), Doc(d)}, F)
  BY <1>3 DEF allocate
<1>6. {Pay(p), Doc(d)} \in SUBSET Lock
  BY LockTypes
<1> HIDE DEF F
<1> QED
  BY <1>4, <1>5, <1>6, StatementType

LEMMA applyListedType ==
  ASSUME TypeOK, NEW t \in Tx, applyListed(t)
  PROVE  TypeOK'
<1>1. PICK d \in Document, m \in Money, next \in {"list", "signals"} :
        allocate(t, "list", tx[t].cur, d, m, [tx[t] EXCEPT !.pc = next])
  BY Zenon DEF applyListed
<1>2. tx[t].cur \in Payment /\ m \in Nat
  BY BillingAssumption DEF applyListed, Money
<1>3. [tx[t] EXCEPT !.pc = next] \in Transaction
  BY TxType DEF Transaction
<1> QED
  BY <1>1, <1>2, <1>3, allocateType

LEMMA applySuggestedType ==
  ASSUME TypeOK, NEW t \in Tx, applySuggested(t)
  PROVE  TypeOK'
<1> DEFINE ask(d) == [tx[t].ask EXCEPT ![d] = 0]
           F(d) == [tx[t] EXCEPT !.pc = AfterAsking(ask(d)), !.ask = ask(d)]
<1>1. PICK d \in Document : allocate(t, "apply", tx[t].cur, d, tx[t].ask[d], F(d))
  BY Zenon DEF applySuggested
<1>2. tx[t].cur \in Payment
  BY DEF applySuggested
<1>3. tx[t] \in Transaction
  BY DEF TypeOK
<1>4. F(d) \in Transaction /\ tx[t].ask[d] \in Nat
  BY <1>3 DEF Transaction, AfterAsking
<1> HIDE DEF F
<1> QED
  BY <1>1, <1>2, <1>4, allocateType

LEMMA suggestAllocationsType ==
  ASSUME TypeOK, NEW t \in Tx, suggestAllocations(t)
  PROVE  TypeOK'
<1> DEFINE F(ask) == [tx[t] EXCEPT !.pc = AfterAsking(ask), !.ask = ask]
           L == {Doc(d) : d \in {e \in Document : document[e] = "EMITIDO"}}
<1>1. PICK ask \in [Document -> 0 .. MaxMoney] : Statement(t, "suggest", L, F(ask))
  BY Zenon DEF suggestAllocations
<1>2. F(ask) \in Transaction
  <2>1. tx[t] \in Transaction /\ ask \in [Document -> Nat]
    BY TxType, BillingAssumption
  <2>2. AfterAsking(ask) \in {"signals", "apply"}
    BY DEF AfterAsking
  <2> QED
    BY <2>1, <2>2 DEF Transaction
<1>3. L \in SUBSET Lock
  BY LockTypes
<1> HIDE DEF F, L
<1> QED
  BY <1>1, <1>2, <1>3, StatementType

LEMMA lockPaymentType ==
  ASSUME TypeOK, NEW t \in Tx, lockPayment(t)
  PROVE  TypeOK'
<1>1. [tx[t] EXCEPT !.pc = "list"] \in Transaction
  BY TxType DEF Transaction
<1>2. {Pay(tx[t].cur)} \in SUBSET Lock
  BY LockTypes DEF lockPayment
<1> QED
  BY <1>1, <1>2, StatementType DEF lockPayment

LEMMA reverseAllocationsType ==
  ASSUME TypeOK, NEW t \in Tx, reverseAllocations(t)
  PROVE  TypeOK'
<1> DEFINE target == {r \in Row : \/ tx[t].pay[r[1]] = "ANULADO"
                                  \/ tx[t].doc[r[2]] = "ANULADO"}
           F == [tx[t] EXCEPT !.pc = "signals", !.rev = target]
<1>1. F \in Transaction
  <2>1. tx[t] \in Transaction /\ target \in SUBSET Row
    BY TxType
  <2> HIDE DEF target
  <2> QED
    BY <2>1 DEF Transaction
<1>2. Statement(t, "reverse", {}, F)
  BY Zenon DEF reverseAllocations
<1> HIDE DEF F
<1> QED
  BY <1>1, <1>2, StatementType

LEMMA recalculateSignalsType ==
  ASSUME TypeOK, NEW t \in Tx, recalculateSignals(t)
  PROVE  TypeOK'
<1> DEFINE Paid(x) == PeriodPaid(SeenDocuments(t), SeenAllocations(t), x)
           F(x) == [tx[t] EXCEPT !.due = @ \ {x}, !.done = @ \cup {x},
                                 !.paid = IF Paid(x) THEN @ \cup {x} ELSE @ \ {x}]
<1>1. PICK x \in tx[t].due : Statement(t, "signals", {Per(x)}, F(x))
  BY Zenon DEF recalculateSignals
<1>2. tx[t] \in Transaction /\ x \in Period
  BY TxType DEF Transaction
<1> HIDE DEF Paid
<1>3. F(x) \in Transaction
  BY <1>2 DEF Transaction
<1>4. {Per(x)} \in SUBSET Lock
  BY <1>2, LockTypes
<1> HIDE DEF F
<1> QED
  BY <1>1, <1>3, <1>4, StatementType

LEMMA generateOneType ==
  ASSUME TypeOK, NEW t \in Tx, NEW d \in Document, generateOne(t, d)
  PROVE  TypeOK'
<1> DEFINE N == [Closed EXCEPT !.held = {Generation(PeriodOf[d])},
                               !.doc[d] = "BORRADOR", !.pc = "signals"]
           I == [N EXCEPT !.todo = {d}]
<1>1. N \in Transaction
  BY ClosedType, LockTypes, BillingAssumption DEF Transaction, DocStatus
<1>2. Open(t, N) \/ Open(t, I)
  BY Zenon DEF generateOne
<1> HIDE DEF N
<1>3. I \in Transaction
  BY <1>1 DEF Transaction
<1> HIDE DEF I
<1> QED
  BY <1>1, <1>2, <1>3, OpenType

LEMMA openDocumentType ==
  ASSUME TypeOK, NEW t \in Tx, NEW d \in Document, discard(t, d) \/ void(t, d)
  PROVE  TypeOK'
<1> DEFINE D == [Closed EXCEPT !.pc = "signals", !.held = {Doc(d)}, !.doc[d] = "none"]
           V == [Closed EXCEPT !.pc = "reverse", !.held = {Doc(d)},
                               !.doc[d] = "ANULADO", !.due = {PeriodOf[d]}]
<1>1. D \in Transaction
  BY ClosedType, LockTypes DEF Transaction, DocStatus
<1>3. PeriodOf[d] \in Period
  BY BillingAssumption
<1>4. V \in Transaction
  BY <1>3, ClosedType, LockTypes DEF Transaction, DocStatus
<1>2. Open(t, D) \/ Open(t, V)
  BY Zenon DEF discard, void
<1> HIDE DEF D, V
<1> QED
  BY <1>1, <1>2, <1>4, OpenType

LEMMA issueType ==
  ASSUME TypeOK, NEW t \in Tx, NEW docs \in SUBSET Document, issue(t, docs)
  PROVE  TypeOK'
<1>1. [Closed EXCEPT !.pc = "signals", !.todo = docs] \in Transaction
  BY ClosedType DEF Transaction
<1> QED
  BY <1>1, OpenType DEF issue

LEMMA lockNumberingType ==
  ASSUME TypeOK, NEW t \in Tx, lockNumbering(t)
  PROVE  TypeOK'
<1> DEFINE F(d) == [tx[t] EXCEPT !.pc = "draft", !.cur = d, !.todo = @ \ {d}]
<1>1. PICK d \in tx[t].todo : Statement(t, "signals", {Number, Subscriber}, F(d))
  BY Zenon DEF lockNumbering
<1>2. tx[t] \in Transaction
  BY TxType
<1>3. d \in Nat
  BY <1>2, BillingAssumption DEF Transaction
<1>4. F(d) \in Transaction
  BY <1>2, <1>3 DEF Transaction
<1> HIDE DEF F
<1> QED
  BY <1>1, <1>4, LockTypes, StatementType

LEMMA lockDraftType ==
  ASSUME TypeOK, NEW t \in Tx, lockDraft(t)
  PROVE  TypeOK'
<1>1. [tx[t] EXCEPT !.pc = "number"] \in Transaction
  BY TxType DEF Transaction
<1>2. {Doc(tx[t].cur)} \in SUBSET Lock
  BY LockTypes DEF lockDraft
<1> QED
  BY <1>1, <1>2, StatementType DEF lockDraft

LEMMA assignNumberType ==
  ASSUME TypeOK, NEW t \in Tx, assignNumber(t)
  PROVE  TypeOK'
<1> DEFINE d == tx[t].cur
           F(n) == [tx[t] EXCEPT
                      !.pc = IF PeriodOf[d] \in AutoCredit THEN "balance"
                                                           ELSE "signals",
                      !.doc[d] = "EMITIDO", !.num[d] = n]
<1>1. PICK n \in 1 .. Cardinality(Document) :
        Statement(t, "number", {Per(PeriodOf[d])}, F(n))
  BY Zenon DEF assignNumber
<1>2. tx[t] \in Transaction /\ d \in Document
  BY DEF TypeOK, assignNumber
<1>3. n \in Nat
  BY BillingAssumption, FS_CardinalityType
<1>4. F(n) \in Transaction
  BY <1>2, <1>3 DEF Transaction, DocStatus
<1>5. {Per(PeriodOf[d])} \in SUBSET Lock
  BY <1>2, LockTypes, BillingAssumption
<1> HIDE DEF F
<1> QED
  BY <1>1, <1>4, <1>5, StatementType

LEMMA lockCreditType ==
  ASSUME TypeOK, NEW t \in Tx, lockCredit(t)
  PROVE  TypeOK'
<1> DEFINE registered == {p \in Payment : payment[p] = "REGISTRADO"}
           F == [tx[t] EXCEPT !.pc = IF registered = {} THEN "signals" ELSE "draw",
                              !.credit = registered]
           L == {Pay(p) : p \in registered}
<1>1. Statement(t, "balance", L, F)
  BY Zenon DEF lockCredit
<1>2. F \in Transaction
  <2>1. tx[t] \in Transaction /\ registered \in SUBSET Payment
    BY TxType
  <2> HIDE DEF registered
  <2> QED
    BY <2>1 DEF Transaction
<1>3. L \in SUBSET Lock
  BY LockTypes
<1> HIDE DEF F, L
<1> QED
  BY <1>1, <1>2, <1>3, StatementType

LEMMA drawCreditType ==
  ASSUME TypeOK, NEW t \in Tx, drawCredit(t)
  PROVE  TypeOK'
<1> DEFINE d == tx[t].cur
           rest(p) == tx[t].credit \ {p}
           F(p) == [tx[t] EXCEPT !.credit = rest(p),
                                 !.pc = IF rest(p) = {} THEN "signals" ELSE "draw"]
<1>1. PICK p \in tx[t].credit :
        \/ Statement(t, "draw", {}, F(p))
        \/ \E m \in Money : allocate(t, "draw", p, d, m, F(p))
  BY Zenon DEF drawCredit
<1>2. tx[t] \in Transaction /\ d \in Document
  BY DEF TypeOK, drawCredit
<1>3. F(p) \in Transaction /\ p \in Payment
  BY <1>2 DEF Transaction
<1>4. Money \subseteq Nat
  BY BillingAssumption DEF Money
<1> HIDE DEF F
<1>5. CASE Statement(t, "draw", {}, F(p))
  BY <1>3, <1>5, StatementType
<1>6. CASE \E m \in Money : allocate(t, "draw", p, d, m, F(p))
  BY <1>2, <1>3, <1>4, <1>6, allocateType
<1> QED
  BY <1>1, <1>5, <1>6

LEMMA CommitType ==
  ASSUME TypeOK, NEW t \in Tx, Commit(t)
  PROVE  TypeOK'
<1>1. tx[t] \in Transaction
  BY DEF TypeOK
<1>2. /\ SeenDocuments(t) \in [Document -> DocStatus]
      /\ SeenPayments(t) \in [Payment -> PayStatus]
      /\ SeenNumbers(t) \in [Document -> Nat]
      /\ SeenAllocations(t) \in [Row -> Nat]
  BY <1>1 DEF TypeOK, Transaction, SeenDocuments, SeenPayments, SeenNumbers,
              SeenAllocations, PayStatus
<1>3. signal' \in [Period -> BOOLEAN]
  <2>1. \A x \in Period : (x \in tx[t].paid) \in BOOLEAN /\ signal[x] \in BOOLEAN
    BY DEF TypeOK
  <2> QED
    BY <2>1, Zenon DEF Commit
<1>4. tx' \in [Tx -> Transaction]
  BY ClosedType DEF Commit, TypeOK
<1> QED
  BY <1>2, <1>3, <1>4 DEF Commit, TypeOK

LEMMA RollbackType ==
  ASSUME TypeOK, NEW t \in Tx, Rollback(t)
  PROVE  TypeOK'
  BY ClosedType DEF Rollback, TypeOK, rows

LEMMA TypeStep == TypeOK /\ [Next]_vars => TypeOK'
<1> SUFFICES ASSUME TypeOK, [Next]_vars
             PROVE  TypeOK'
  OBVIOUS
<1>1. CASE UNCHANGED vars
  BY <1>1 DEF TypeOK, vars
<1>2. CASE Next
  <2> QED
    BY <1>2, registerPaymentType, voidPaymentType, insertPaymentType,
       applyListedType, applySuggestedType, suggestAllocationsType,
       lockPaymentType, reverseAllocationsType, recalculateSignalsType,
       generateOneType, openDocumentType, issueType, lockNumberingType,
       lockDraftType, assignNumberType, lockCreditType, drawCreditType,
       CommitType, RollbackType DEF Next
<1> QED
  BY <1>1, <1>2

-----------------------------------------------------------------------------
(* What each action does to the fields of its transaction                  *)

\* A step of t short of its commit, with the locks it takes.
Moves(t, locks) ==
  /\ UNCHANGED rows
  /\ \A o \in Tx \ {t} : tx'[o] = tx[o]
  /\ Granted(t, locks)
  /\ locks \in SUBSET Lock

Begins(t, locks) == Moves(t, locks) /\ tx'[t].held = locks
Goes(t, locks) == Moves(t, locks) /\ tx'[t].held = tx[t].held \cup locks

NoDoc == [d \in Document |-> "same"]
NoPay == [p \in Payment |-> "same"]

\* The documents, the allocations, the signals of t are as before.
SameDocuments(t) == tx'[t].doc = tx[t].doc /\ tx'[t].num = tx[t].num
SameAmounts(t) == tx'[t].add = tx[t].add /\ tx'[t].rev = tx[t].rev
SameSignals(t) ==
  /\ tx'[t].due = tx[t].due /\ tx'[t].done = tx[t].done
  /\ tx'[t].paid = tx[t].paid

\* Nothing is written yet, and nothing recalculated.
NoAmounts(t) == tx'[t].add = NoRow /\ tx'[t].rev = {}
NoSignals(t) == tx'[t].done = {} /\ tx'[t].paid = {}

LEMMA StatementFields ==
  ASSUME TypeOK, NEW t \in Tx, NEW pc, NEW locks \in SUBSET Lock,
         NEW fields \in Transaction, Statement(t, pc, locks, fields)
  PROVE  /\ Moves(t, locks)
         /\ tx[t].pc = pc
         /\ tx'[t] = [fields EXCEPT !.held = @ \cup locks]
  BY DEF Statement, Moves, TypeOK

LEMMA OpenFields ==
  ASSUME TypeOK, NEW t \in Tx, NEW fields, Open(t, fields)
  PROVE  /\ UNCHANGED rows
         /\ \A o \in Tx \ {t} : tx'[o] = tx[o]
         /\ tx[t].pc = "closed"
         /\ tx'[t] = fields
  BY DEF Open, TypeOK

LEMMA PlainFields ==
  ASSUME TypeOK, NEW t \in Tx,
         \/ \E p \in Payment : registerPayment(t, p) \/ allocateCredit(t, p)
         \/ \E docs \in SUBSET Document : issue(t, docs)
  PROVE  /\ Begins(t, {Subscriber}) \/ Begins(t, {})
         /\ tx'[t].doc = NoDoc /\ tx'[t].pay = NoPay /\ tx'[t].num = Nothing
         /\ NoAmounts(t) /\ NoSignals(t) /\ tx'[t].due = {}
         /\ \/ tx'[t].pc \in {"insert", "credit"} /\ tx'[t].todo = {}
            \/ tx'[t].pc = "signals"
<1>1. CASE \E p \in Payment : registerPayment(t, p) \/ allocateCredit(t, p)
  <2> DEFINE F(p, pc) == [Closed EXCEPT !.pc = pc, !.cur = p, !.held = {Subscriber}]
  <2>1. PICK p \in Payment, pc \in {"insert", "credit"} :
          Open(t, F(p, pc)) /\ Granted(t, {Subscriber})
    BY <1>1, Zenon DEF registerPayment, allocateCredit
  <2>2. tx'[t] = F(p, pc) /\ UNCHANGED rows /\ \A o \in Tx \ {t} : tx'[o] = tx[o]
    <3> HIDE DEF F
    <3> QED
      BY <2>1, OpenFields
  <2> QED
    BY <2>1, <2>2, LockTypes
       DEF Closed, Begins, Moves, NoDoc, NoPay, NoAmounts, NoSignals
<1>2. CASE \E docs \in SUBSET Document : issue(t, docs)
  <2> DEFINE F(docs) == [Closed EXCEPT !.pc = "signals", !.todo = docs]
  <2>1. PICK docs \in SUBSET Document : Open(t, F(docs))
    BY <1>2, Zenon DEF issue
  <2>2. tx'[t] = F(docs) /\ UNCHANGED rows /\ \A o \in Tx \ {t} : tx'[o] = tx[o]
    <3> HIDE DEF F
    <3> QED
      BY <2>1, OpenFields
  <2> QED
    BY <2>2 DEF Closed, Begins, Moves, Granted, NoDoc, NoPay, NoAmounts, NoSignals
<1> QED
  BY <1>1, <1>2

LEMMA voidPaymentFields ==
  ASSUME TypeOK, NEW t \in Tx, NEW p \in Payment, voidPayment(t, p)
  PROVE  /\ Begins(t, {Pay(p)})
         /\ payment[p] = "REGISTRADO"
         /\ tx'[t].doc = NoDoc /\ tx'[t].num = Nothing
         /\ tx'[t].pay = [NoPay EXCEPT ![p] = "ANULADO"]
         /\ NoAmounts(t) /\ NoSignals(t)
         /\ tx'[t].due = {PeriodOf[d] : d \in {e \in Document : allocation[<<p, e>>] > 0}}
         /\ tx'[t].pc = "reverse" /\ tx'[t].todo = {}
<1> DEFINE D == {PeriodOf[d] : d \in {e \in Document : allocation[<<p, e>>] > 0}}
           F == [Closed EXCEPT !.pc = "reverse", !.held = {Pay(p)},
                               !.pay[p] = "ANULADO", !.due = D]
<1>1. Open(t, F) /\ Granted(t, {Pay(p)}) /\ payment[p] = "REGISTRADO"
  BY Zenon DEF voidPayment
<1>2. tx'[t] = F /\ UNCHANGED rows /\ \A o \in Tx \ {t} : tx'[o] = tx[o]
  <2> HIDE DEF F
  <2> QED
    BY <1>1, OpenFields
<1> HIDE DEF D
<1>3. /\ tx'[t].held = {Pay(p)} /\ tx'[t].doc = NoDoc /\ tx'[t].num = Nothing
      /\ tx'[t].pay = [NoPay EXCEPT ![p] = "ANULADO"]
      /\ tx'[t].due = D /\ tx'[t].pc = "reverse" /\ tx'[t].todo = {}
      /\ NoAmounts(t) /\ NoSignals(t)
  BY <1>2 DEF Closed, NoDoc, NoPay, NoAmounts, NoSignals
<1>4. Begins(t, {Pay(p)})
  BY <1>1, <1>2, <1>3, LockTypes DEF Begins, Moves
<1> QED
  BY <1>1, <1>3, <1>4 DEF D

LEMMA voidFields ==
  ASSUME TypeOK, NEW t \in Tx, NEW d \in Document, void(t, d)
  PROVE  /\ Begins(t, {Doc(d)})
         /\ document[d] = "EMITIDO"
         /\ tx'[t].doc = [NoDoc EXCEPT ![d] = "ANULADO"] /\ tx'[t].num = Nothing
         /\ tx'[t].pay = NoPay
         /\ NoAmounts(t) /\ NoSignals(t) /\ tx'[t].due = {PeriodOf[d]}
         /\ tx'[t].pc = "reverse" /\ tx'[t].todo = {}
<1> DEFINE F == [Closed EXCEPT !.pc = "reverse", !.held = {Doc(d)},
                               !.doc[d] = "ANULADO", !.due = {PeriodOf[d]}]
<1>1. Open(t, F) /\ Granted(t, {Doc(d)}) /\ document[d] = "EMITIDO"
  BY Zenon DEF void
<1>2. tx'[t] = F /\ UNCHANGED rows /\ \A o \in Tx \ {t} : tx'[o] = tx[o]
  <2> HIDE DEF F
  <2> QED
    BY <1>1, OpenFields
<1>3. /\ tx'[t].held = {Doc(d)} /\ tx'[t].num = Nothing
      /\ tx'[t].doc = [NoDoc EXCEPT ![d] = "ANULADO"] /\ tx'[t].pay = NoPay
      /\ tx'[t].due = {PeriodOf[d]} /\ tx'[t].pc = "reverse" /\ tx'[t].todo = {}
      /\ NoAmounts(t) /\ NoSignals(t)
  BY <1>2 DEF Closed, NoDoc, NoPay, NoAmounts, NoSignals
<1> QED
  BY <1>1, <1>2, <1>3, LockTypes DEF Begins, Moves

LEMMA discardFields ==
  ASSUME TypeOK, NEW t \in Tx, NEW d \in Document, discard(t, d)
  PROVE  /\ Begins(t, {Doc(d)})
         /\ document[d] = "BORRADOR"
         /\ tx'[t].doc = [NoDoc EXCEPT ![d] = "none"] /\ tx'[t].num = Nothing
         /\ tx'[t].pay = NoPay
         /\ NoAmounts(t) /\ NoSignals(t) /\ tx'[t].due = {}
         /\ tx'[t].pc = "signals" /\ tx'[t].todo = {}
<1> DEFINE F == [Closed EXCEPT !.pc = "signals", !.held = {Doc(d)}, !.doc[d] = "none"]
<1>1. Open(t, F) /\ Granted(t, {Doc(d)}) /\ document[d] = "BORRADOR"
  BY Zenon DEF discard
<1>2. tx'[t] = F /\ UNCHANGED rows /\ \A o \in Tx \ {t} : tx'[o] = tx[o]
  <2> HIDE DEF F
  <2> QED
    BY <1>1, OpenFields
<1>3. /\ tx'[t].held = {Doc(d)} /\ tx'[t].num = Nothing
      /\ tx'[t].doc = [NoDoc EXCEPT ![d] = "none"] /\ tx'[t].pay = NoPay
      /\ tx'[t].due = {} /\ tx'[t].pc = "signals" /\ tx'[t].todo = {}
      /\ NoAmounts(t) /\ NoSignals(t)
  BY <1>2 DEF Closed, NoDoc, NoPay, NoAmounts, NoSignals
<1> QED
  BY <1>1, <1>2, <1>3, LockTypes DEF Begins, Moves

LEMMA generateOneFields ==
  ASSUME TypeOK, NEW t \in Tx, NEW d \in Document, generateOne(t, d)
  PROVE  /\ Begins(t, {Generation(PeriodOf[d])})
         /\ document[d] = "none" /\ Alone(d)
         /\ tx'[t].doc = [NoDoc EXCEPT ![d] = "BORRADOR"] /\ tx'[t].num = Nothing
         /\ tx'[t].pay = NoPay
         /\ NoAmounts(t) /\ NoSignals(t) /\ tx'[t].due = {}
         /\ tx'[t].pc = "signals"
<1> DEFINE N == [Closed EXCEPT !.held = {Generation(PeriodOf[d])},
                               !.doc[d] = "BORRADOR", !.pc = "signals"]
           I == [N EXCEPT !.todo = {d}]
<1>1. /\ Open(t, N) \/ Open(t, I)
      /\ Granted(t, {Generation(PeriodOf[d])}) /\ document[d] = "none"
      /\ \A e \in Document :
           PeriodOf[e] = PeriodOf[d] => document[e] \in {"none", "ANULADO"}
  BY Zenon DEF generateOne
<1>2. /\ tx'[t] = N \/ tx'[t] = I
      /\ UNCHANGED rows /\ \A o \in Tx \ {t} : tx'[o] = tx[o]
  <2> HIDE DEF N, I
  <2> QED
    BY <1>1, OpenFields
<1>3. /\ tx'[t].held = {Generation(PeriodOf[d])} /\ tx'[t].num = Nothing
      /\ tx'[t].doc = [NoDoc EXCEPT ![d] = "BORRADOR"] /\ tx'[t].pay = NoPay
      /\ tx'[t].due = {} /\ tx'[t].pc = "signals"
      /\ NoAmounts(t) /\ NoSignals(t)
  <2>1. CASE tx'[t] = N
    BY <2>1 DEF Closed, NoDoc, NoPay, NoAmounts, NoSignals
  <2>2. CASE tx'[t] = I
    BY <2>2 DEF Closed, NoDoc, NoPay, NoAmounts, NoSignals
  <2> QED
    BY <1>2, <2>1, <2>2
<1>4. Alone(d)
  BY <1>1 DEF Alone, Live
<1>5. Generation(PeriodOf[d]) \in Lock
  BY LockTypes, BillingAssumption
<1> QED
  BY <1>1, <1>2, <1>3, <1>4, <1>5 DEF Begins, Moves
LEMMA insertPaymentFields ==
  ASSUME TypeOK, NEW t \in Tx, insertPayment(t)
  PROVE  \E p \in Payment :
           /\ Goes(t, {Pay(p)}) /\ payment[p] = "none"
           /\ tx'[t].pay = [tx[t].pay EXCEPT ![p] = "REGISTRADO"]
           /\ SameDocuments(t) /\ SameAmounts(t) /\ SameSignals(t)
           /\ tx[t].pc = "insert" /\ tx'[t].pc \in {"suggest", "list", "signals"}
           /\ tx'[t].todo = tx[t].todo
<1> DEFINE p == tx[t].cur
           F(pc) == [tx[t] EXCEPT !.pc = pc, !.pay[p] = "REGISTRADO"]
<1>1. tx[t] \in Transaction /\ p \in Payment /\ payment[p] = "none"
  BY DEF TypeOK, insertPayment
<1>2. \A pc \in {"suggest", "list", "signals"} : F(pc) \in Transaction
  BY <1>1 DEF Transaction
<1>3. PICK pc \in {"suggest", "list", "signals"} : Statement(t, "insert", {Pay(p)}, F(pc))
  BY Zenon DEF insertPayment
<1>4. /\ Moves(t, {Pay(p)}) /\ tx[t].pc = "insert"
      /\ tx'[t] = [F(pc) EXCEPT !.held = @ \cup {Pay(p)}]
  <2> HIDE DEF F
  <2> QED
    BY <1>1, <1>2, <1>3, LockTypes, StatementFields
<1>5. /\ tx'[t].held = tx[t].held \cup {Pay(p)}
      /\ tx'[t].pay = [tx[t].pay EXCEPT ![p] = "REGISTRADO"]
      /\ SameDocuments(t) /\ SameAmounts(t) /\ SameSignals(t)
      /\ tx'[t].pc = pc /\ tx'[t].todo = tx[t].todo
  BY <1>1, <1>4 DEF Transaction, SameDocuments, SameAmounts, SameSignals
<1> QED
  BY <1>1, <1>4, <1>5 DEF Goes

\* Statements that only take locks and move on.
LEMMA lockFields ==
  ASSUME TypeOK, NEW t \in Tx,
         suggestAllocations(t) \/ lockPayment(t) \/ lockCredit(t)
  PROVE  \E locks \in SUBSET Lock :
           /\ Goes(t, locks)
           /\ SameDocuments(t) /\ SameAmounts(t) /\ SameSignals(t)
           /\ tx'[t].pay = tx[t].pay /\ tx'[t].todo = tx[t].todo
           /\ tx'[t].cur = tx[t].cur
           /\ \/ tx[t].pc \in {"suggest", "credit"}
                 /\ tx'[t].pc \in {"list", "apply", "signals"}
              \/ tx[t].pc = "balance" /\ tx'[t].pc \in {"draw", "signals"}
<1>0. tx[t] \in Transaction
  BY TxType
<1>1. CASE suggestAllocations(t)
  <2> DEFINE F(ask) == [tx[t] EXCEPT !.pc = AfterAsking(ask), !.ask = ask]
             L == {Doc(d) : d \in {e \in Document : document[e] = "EMITIDO"}}
  <2>1. PICK ask \in [Document -> 0 .. MaxMoney] : Statement(t, "suggest", L, F(ask))
    BY <1>1, Zenon DEF suggestAllocations
  <2>2. AfterAsking(ask) \in {"signals", "apply"}
    BY DEF AfterAsking
  <2>3. F(ask) \in Transaction
    <3>1. ask \in [Document -> Nat]
      BY BillingAssumption
    <3> QED
      BY <1>0, <2>2, <3>1 DEF Transaction
  <2>4. L \in SUBSET Lock
    BY LockTypes
  <2>5. /\ Moves(t, L) /\ tx[t].pc = "suggest"
        /\ tx'[t] = [F(ask) EXCEPT !.held = @ \cup L]
    <3> HIDE DEF F, L
    <3> QED
      BY <2>1, <2>3, <2>4, StatementFields
  <2> HIDE DEF L
  <2>6. /\ tx'[t].held = tx[t].held \cup L
        /\ SameDocuments(t) /\ SameAmounts(t) /\ SameSignals(t)
        /\ tx'[t].pay = tx[t].pay /\ tx'[t].todo = tx[t].todo
        /\ tx'[t].cur = tx[t].cur /\ tx'[t].pc = AfterAsking(ask)
    BY <1>0, <2>5 DEF Transaction, SameDocuments, SameAmounts, SameSignals
  <2> QED
    BY <2>2, <2>4, <2>5, <2>6 DEF Goes
<1>2. CASE lockPayment(t)
  <2> DEFINE F == [tx[t] EXCEPT !.pc = "list"]
             L == {Pay(tx[t].cur)}
  <2>1. Statement(t, "credit", L, F) /\ L \in SUBSET Lock
    BY <1>2, LockTypes DEF lockPayment
  <2>2. F \in Transaction
    BY <1>0 DEF Transaction
  <2>3. Moves(t, L) /\ tx[t].pc = "credit" /\ tx'[t] = [F EXCEPT !.held = @ \cup L]
    <3> HIDE DEF F, L
    <3> QED
      BY <2>1, <2>2, StatementFields
  <2> HIDE DEF L
  <2>4. /\ tx'[t].held = tx[t].held \cup L
        /\ SameDocuments(t) /\ SameAmounts(t) /\ SameSignals(t)
        /\ tx'[t].pay = tx[t].pay /\ tx'[t].todo = tx[t].todo
        /\ tx'[t].cur = tx[t].cur /\ tx'[t].pc = "list"
    BY <1>0, <2>3 DEF Transaction, SameDocuments, SameAmounts, SameSignals
  <2> QED
    BY <2>1, <2>3, <2>4 DEF Goes
<1>3. CASE lockCredit(t)
  <2> DEFINE R == {p \in Payment : payment[p] = "REGISTRADO"}
             next == IF R = {} THEN "signals" ELSE "draw"
             F == [tx[t] EXCEPT !.pc = next, !.credit = R]
             L == {Pay(p) : p \in R}
  <2>1. Statement(t, "balance", L, F)
    BY <1>3, Zenon DEF lockCredit
  <2>2. R \in SUBSET Payment /\ next \in {"draw", "signals"}
    OBVIOUS
  <2>3. L \in SUBSET Lock
    BY LockTypes
  <2> HIDE DEF L, R, next
  <2>4. F \in Transaction
    BY <1>0, <2>2 DEF Transaction
  <2>5. Moves(t, L) /\ tx[t].pc = "balance" /\ tx'[t] = [F EXCEPT !.held = @ \cup L]
    <3> HIDE DEF F
    <3> QED
      BY <2>1, <2>3, <2>4, StatementFields
  <2>6. /\ tx'[t].held = tx[t].held \cup L
        /\ SameDocuments(t) /\ SameAmounts(t) /\ SameSignals(t)
        /\ tx'[t].pay = tx[t].pay /\ tx'[t].todo = tx[t].todo
        /\ tx'[t].cur = tx[t].cur /\ tx'[t].pc = next
    BY <1>0, <2>5 DEF Transaction, SameDocuments, SameAmounts, SameSignals
  <2> QED
    BY <2>2, <2>3, <2>5, <2>6 DEF Goes
<1> QED
  BY <1>1, <1>2, <1>3

\* An amount is allocated: the locks of both rows, and the checks of Fits.
Allocated(t) ==
  \E p \in Payment, d \in Document, m \in Nat :
    /\ Goes(t, {Pay(p), Doc(d)})
    /\ Fits(t, p, d, m)
    /\ tx'[t].add[<<p, d>>] = tx[t].add[<<p, d>>] + m
    /\ \A q \in Payment, e \in Document :
         <<q, e>> # <<p, d>> => tx'[t].add[<<q, e>>] = tx[t].add[<<q, e>>]
    /\ tx'[t].due = tx[t].due \cup {PeriodOf[d]}
    /\ tx[t].pc = "draw" => d = tx[t].cur

LEMMA allocateFields ==
  ASSUME TypeOK, NEW t \in Tx, NEW pc, NEW p \in Payment, NEW d \in Document,
         NEW m \in Nat, NEW fields \in Transaction,
         fields.held = tx[t].held, fields.add = tx[t].add, fields.due = tx[t].due,
         fields.doc = tx[t].doc, fields.num = tx[t].num, fields.pay = tx[t].pay,
         fields.rev = tx[t].rev, fields.done = tx[t].done,
         fields.paid = tx[t].paid, fields.todo = tx[t].todo,
         fields.cur = tx[t].cur, pc = "draw" => d = tx[t].cur,
         allocate(t, pc, p, d, m, fields)
  PROVE  /\ Allocated(t) /\ SameDocuments(t)
         /\ tx'[t].rev = tx[t].rev /\ tx'[t].done = tx[t].done
         /\ tx'[t].paid = tx[t].paid /\ tx'[t].pay = tx[t].pay
         /\ tx'[t].todo = tx[t].todo /\ tx'[t].cur = tx[t].cur
         /\ tx[t].pc = pc /\ tx'[t].pc = fields.pc
<1>1. <<p, d>> \in Row /\ PeriodOf[d] \in Period
  BY BillingAssumption DEF Row
<1> DEFINE A == [fields.add EXCEPT ![<<p, d>>] = @ + m]
           F == [fields EXCEPT !.add = A, !.due = @ \cup {PeriodOf[d]}]
           L == {Pay(p), Doc(d)}
<1>2. /\ A \in [Row -> Nat] /\ A[<<p, d>>] = fields.add[<<p, d>>] + m
      /\ \A q \in Payment, e \in Document :
           <<q, e>> # <<p, d>> => A[<<q, e>>] = fields.add[<<q, e>>]
  BY <1>1 DEF Transaction, Row
<1>3. [fields EXCEPT !.add[<<p, d>>] = @ + m, !.due = @ \cup {PeriodOf[d]}] = F
  BY DEF Transaction
<1> HIDE DEF A
<1>4. F \in Transaction
  BY <1>1, <1>2 DEF Transaction
<1>5. Statement(t, pc, L, F) /\ L \in SUBSET Lock
  BY <1>3, LockTypes DEF allocate
<1>6. Moves(t, L) /\ tx[t].pc = pc /\ tx'[t] = [F EXCEPT !.held = @ \cup L]
  <2> HIDE DEF F, L
  <2> QED
    BY <1>4, <1>5, StatementFields
<1>7. Fits(t, p, d, m)
  BY DEF allocate
<1>8. /\ tx'[t].held = tx[t].held \cup L
      /\ tx'[t].add = A /\ tx'[t].due = tx[t].due \cup {PeriodOf[d]}
      /\ SameDocuments(t)
      /\ tx'[t].rev = tx[t].rev /\ tx'[t].done = tx[t].done
      /\ tx'[t].paid = tx[t].paid /\ tx'[t].pay = tx[t].pay
      /\ tx'[t].todo = tx[t].todo /\ tx'[t].cur = tx[t].cur
      /\ tx'[t].pc = fields.pc
  <2> HIDE DEF L
  <2> QED
    BY <1>6 DEF Transaction, SameDocuments
<1>9. Allocated(t)
  <2>1. Goes(t, {Pay(p), Doc(d)})
    BY <1>6, <1>8 DEF Goes
  <2>2. \A q \in Payment, e \in Document :
          <<q, e>> # <<p, d>> => tx'[t].add[<<q, e>>] = tx[t].add[<<q, e>>]
    BY <1>2, <1>8
  <2>3. tx[t].pc = "draw" => d = tx[t].cur
    BY <1>6
  <2>4. tx'[t].due = tx[t].due \cup {PeriodOf[d]}
    BY <1>8
  <2>5. tx'[t].add[<<p, d>>] = tx[t].add[<<p, d>>] + m
    BY <1>2, <1>8
  <2> QED
    BY <1>7, <2>1, <2>2, <2>3, <2>4, <2>5, Zenon DEF Allocated
<1> QED
  BY <1>6, <1>8, <1>9

\* The step from the statement before to the one after an allocation.
AllocationStep(t) ==
  /\ SameDocuments(t)
  /\ tx'[t].rev = tx[t].rev /\ tx'[t].done = tx[t].done
  /\ tx'[t].paid = tx[t].paid /\ tx'[t].pay = tx[t].pay
  /\ tx'[t].todo = tx[t].todo /\ tx'[t].cur = tx[t].cur
  /\ \/ tx[t].pc \in {"list", "apply"}
        /\ tx'[t].pc \in {"list", "apply", "signals"}
     \/ tx[t].pc = "draw" /\ tx'[t].pc \in {"draw", "signals"}

LEMMA applyFields ==
  ASSUME TypeOK, NEW t \in Tx, applyListed(t) \/ applySuggested(t)
  PROVE  Allocated(t) /\ AllocationStep(t)
<1>0. tx[t] \in Transaction
  BY TxType
<1>1. CASE applyListed(t)
  <2> DEFINE F(next) == [tx[t] EXCEPT !.pc = next]
  <2>1. PICK d \in Document, m \in Money, next \in {"list", "signals"} :
          allocate(t, "list", tx[t].cur, d, m, F(next))
    BY <1>1, Zenon DEF applyListed
  <2>2. tx[t].cur \in Payment /\ m \in Nat
    BY <1>1, BillingAssumption DEF applyListed, Money
  <2>3. /\ F(next) \in Transaction /\ F(next).pc = next
        /\ F(next).held = tx[t].held /\ F(next).add = tx[t].add
        /\ F(next).due = tx[t].due /\ F(next).doc = tx[t].doc
        /\ F(next).num = tx[t].num /\ F(next).pay = tx[t].pay
        /\ F(next).rev = tx[t].rev /\ F(next).done = tx[t].done
        /\ F(next).paid = tx[t].paid /\ F(next).todo = tx[t].todo
        /\ F(next).cur = tx[t].cur
    BY <1>0 DEF Transaction
  <2> HIDE DEF F
  <2> QED
    BY <2>1, <2>2, <2>3, allocateFields DEF AllocationStep
<1>2. CASE applySuggested(t)
  <2> DEFINE ask(d) == [tx[t].ask EXCEPT ![d] = 0]
             F(d) == [tx[t] EXCEPT !.pc = AfterAsking(ask(d)), !.ask = ask(d)]
  <2>1. PICK d \in Document : allocate(t, "apply", tx[t].cur, d, tx[t].ask[d], F(d))
    BY <1>2, Zenon DEF applySuggested
  <2>2. tx[t].cur \in Payment /\ tx[t].ask[d] \in Nat
    BY <1>0, <1>2 DEF applySuggested, Transaction
  <2>3. AfterAsking(ask(d)) \in {"signals", "apply"}
    BY DEF AfterAsking
  <2>4. /\ F(d) \in Transaction /\ F(d).pc \in {"signals", "apply"}
        /\ F(d).held = tx[t].held /\ F(d).add = tx[t].add
        /\ F(d).due = tx[t].due /\ F(d).doc = tx[t].doc
        /\ F(d).num = tx[t].num /\ F(d).pay = tx[t].pay
        /\ F(d).rev = tx[t].rev /\ F(d).done = tx[t].done
        /\ F(d).paid = tx[t].paid /\ F(d).todo = tx[t].todo
        /\ F(d).cur = tx[t].cur
    BY <1>0, <2>3 DEF Transaction
  <2> HIDE DEF F
  <2> QED
    BY <2>1, <2>2, <2>4, allocateFields DEF AllocationStep
<1> QED
  BY <1>1, <1>2

LEMMA drawCreditFields ==
  ASSUME TypeOK, NEW t \in Tx, drawCredit(t)
  PROVE  /\ AllocationStep(t) /\ tx[t].pc = "draw"
         /\ \/ Allocated(t)
            \/ Goes(t, {}) /\ tx'[t].add = tx[t].add /\ tx'[t].due = tx[t].due
<1> DEFINE d == tx[t].cur
           rest(p) == tx[t].credit \ {p}
           F(p) == [tx[t] EXCEPT !.credit = rest(p),
                                 !.pc = IF rest(p) = {} THEN "signals" ELSE "draw"]
<1>1. PICK p \in tx[t].credit :
        \/ Statement(t, "draw", {}, F(p))
        \/ \E m \in Money : allocate(t, "draw", p, d, m, F(p))
  BY Zenon DEF drawCredit
<1>2. tx[t] \in Transaction /\ d \in Document
  BY DEF TypeOK, drawCredit
<1>3. p \in Payment
  BY <1>2 DEF Transaction
<1>4. /\ F(p) \in Transaction /\ F(p).pc \in {"signals", "draw"}
      /\ F(p).held = tx[t].held /\ F(p).add = tx[t].add
      /\ F(p).due = tx[t].due /\ F(p).doc = tx[t].doc
      /\ F(p).num = tx[t].num /\ F(p).pay = tx[t].pay
      /\ F(p).rev = tx[t].rev /\ F(p).done = tx[t].done
      /\ F(p).paid = tx[t].paid /\ F(p).todo = tx[t].todo
      /\ F(p).cur = tx[t].cur
  BY <1>2 DEF Transaction
<1> HIDE DEF F
<1>5. CASE Statement(t, "draw", {}, F(p))
  <2>1. /\ Moves(t, {}) /\ tx[t].pc = "draw"
        /\ tx'[t] = [F(p) EXCEPT !.held = @ \cup {}]
    BY <1>4, <1>5, StatementFields
  <2>2. /\ tx'[t].held = F(p).held \cup {} /\ tx'[t].add = F(p).add
        /\ tx'[t].due = F(p).due /\ tx'[t].doc = F(p).doc
        /\ tx'[t].num = F(p).num /\ tx'[t].pay = F(p).pay
        /\ tx'[t].rev = F(p).rev /\ tx'[t].done = F(p).done
        /\ tx'[t].paid = F(p).paid /\ tx'[t].todo = F(p).todo
        /\ tx'[t].cur = F(p).cur /\ tx'[t].pc = F(p).pc
    BY <1>4, <2>1 DEF Transaction
  <2> QED
    BY <1>4, <2>1, <2>2 DEF AllocationStep, Goes, SameDocuments
<1>6. CASE \E m \in Money : allocate(t, "draw", p, d, m, F(p))
  <2>1. PICK m \in Money : allocate(t, "draw", p, d, m, F(p))
    BY <1>6
  <2>2. m \in Nat
    BY BillingAssumption DEF Money
  <2> QED
    BY <1>2, <1>3, <1>4, <2>1, <2>2, allocateFields DEF AllocationStep
<1> QED
  BY <1>1, <1>5, <1>6

LEMMA reverseFields ==
  ASSUME TypeOK, NEW t \in Tx, reverseAllocations(t)
  PROVE  /\ Goes(t, {}) /\ SameDocuments(t) /\ SameSignals(t)
         /\ tx'[t].pay = tx[t].pay /\ tx'[t].add = tx[t].add
         /\ tx'[t].todo = tx[t].todo
         /\ \A p \in Payment, d \in Document :
              <<p, d>> \in tx'[t].rev <=> Voided(t, p, d)
         /\ tx[t].pc = "reverse" /\ tx'[t].pc = "signals"
<1> DEFINE target == {r \in Row : \/ tx[t].pay[r[1]] = "ANULADO"
                                  \/ tx[t].doc[r[2]] = "ANULADO"}
           F == [tx[t] EXCEPT !.pc = "signals", !.rev = target]
<1>0. tx[t] \in Transaction
  BY TxType
<1>1. Statement(t, "reverse", {}, F)
  BY Zenon DEF reverseAllocations
<1>2. \A p \in Payment, d \in Document : <<p, d>> \in target <=> Voided(t, p, d)
  BY DEF Row, Voided
<1>3. target \in SUBSET Row
  OBVIOUS
<1> HIDE DEF target
<1>4. F \in Transaction
  BY <1>0, <1>3 DEF Transaction
<1>5. Moves(t, {}) /\ tx[t].pc = "reverse" /\ tx'[t] = [F EXCEPT !.held = @ \cup {}]
  <2> HIDE DEF F
  <2> QED
    BY <1>1, <1>4, StatementFields
<1>6. /\ tx'[t].held = tx[t].held \cup {} /\ SameDocuments(t) /\ SameSignals(t)
      /\ tx'[t].pay = tx[t].pay /\ tx'[t].add = tx[t].add
      /\ tx'[t].todo = tx[t].todo /\ tx'[t].rev = target /\ tx'[t].pc = "signals"
  BY <1>0, <1>5 DEF Transaction, SameDocuments, SameSignals
<1> QED
  BY <1>2, <1>5, <1>6 DEF Goes

LEMMA recalculateFields ==
  ASSUME TypeOK, NEW t \in Tx, recalculateSignals(t)
  PROVE  \E x \in tx[t].due :
           LET paid == PeriodPaid(SeenDocuments(t), SeenAllocations(t), x)
           IN  /\ Goes(t, {Per(x)}) /\ SameDocuments(t) /\ SameAmounts(t)
               /\ tx'[t].pay = tx[t].pay /\ tx'[t].todo = tx[t].todo
               /\ tx'[t].due = tx[t].due \ {x} /\ tx'[t].done = tx[t].done \cup {x}
               /\ tx'[t].paid = IF paid THEN tx[t].paid \cup {x}
                                        ELSE tx[t].paid \ {x}
               /\ tx[t].pc = "signals" /\ tx'[t].pc = "signals"
<1> DEFINE Paid(x) == PeriodPaid(SeenDocuments(t), SeenAllocations(t), x)
           S(x) == IF Paid(x) THEN tx[t].paid \cup {x} ELSE tx[t].paid \ {x}
           F(x) == [tx[t] EXCEPT !.due = @ \ {x}, !.done = @ \cup {x}, !.paid = S(x)]
<1>1. PICK x \in tx[t].due : Statement(t, "signals", {Per(x)}, F(x))
  BY Zenon DEF recalculateSignals
<1>2. tx[t] \in Transaction /\ x \in Period
  BY DEF TypeOK, Transaction
<1>3. S(x) \in SUBSET Period
  BY <1>2 DEF Transaction
<1> HIDE DEF S
<1>4. F(x) \in Transaction /\ {Per(x)} \in SUBSET Lock
  BY <1>2, <1>3, LockTypes DEF Transaction
<1>5. /\ Moves(t, {Per(x)}) /\ tx[t].pc = "signals"
      /\ tx'[t] = [F(x) EXCEPT !.held = @ \cup {Per(x)}]
  <2> HIDE DEF F
  <2> QED
    BY <1>1, <1>4, StatementFields
<1>6. /\ tx'[t].held = tx[t].held \cup {Per(x)} /\ SameDocuments(t) /\ SameAmounts(t)
      /\ tx'[t].pay = tx[t].pay /\ tx'[t].todo = tx[t].todo
      /\ tx'[t].due = tx[t].due \ {x} /\ tx'[t].done = tx[t].done \cup {x}
      /\ tx'[t].paid = S(x) /\ tx'[t].pc = tx[t].pc
  BY <1>2, <1>5 DEF Transaction, SameDocuments, SameAmounts
<1>7. Goes(t, {Per(x)}) /\ tx'[t].pc = "signals"
  BY <1>5, <1>6 DEF Goes
<1>8. tx'[t].paid = IF Paid(x) THEN tx[t].paid \cup {x} ELSE tx[t].paid \ {x}
  BY <1>6 DEF S
<1> HIDE DEF Paid
<1>9. \E y \in tx[t].due :
        /\ Goes(t, {Per(y)}) /\ SameDocuments(t) /\ SameAmounts(t)
        /\ tx'[t].pay = tx[t].pay /\ tx'[t].todo = tx[t].todo
        /\ tx'[t].due = tx[t].due \ {y} /\ tx'[t].done = tx[t].done \cup {y}
        /\ tx'[t].paid = IF Paid(y) THEN tx[t].paid \cup {y} ELSE tx[t].paid \ {y}
        /\ tx[t].pc = "signals" /\ tx'[t].pc = "signals"
  BY <1>5, <1>6, <1>7, <1>8, Zenon
<1> QED
  BY <1>9 DEF Paid

LEMMA lockNumberingFields ==
  ASSUME TypeOK, NEW t \in Tx, lockNumbering(t)
  PROVE  /\ Goes(t, {Number, Subscriber})
         /\ SameDocuments(t) /\ SameAmounts(t) /\ SameSignals(t)
         /\ tx'[t].pay = tx[t].pay /\ tx[t].due = {} /\ tx[t].todo # {}
         /\ tx[t].pc = "signals" /\ tx'[t].pc = "draft"
<1> DEFINE F(d) == [tx[t] EXCEPT !.pc = "draft", !.cur = d, !.todo = @ \ {d}]
           L == {Number, Subscriber}
<1>1. PICK d \in tx[t].todo : tx[t].due = {} /\ Statement(t, "signals", L, F(d))
  BY Zenon DEF lockNumbering
<1>2. tx[t] \in Transaction
  BY TxType
<1>3. d \in Nat
  BY <1>2, BillingAssumption DEF Transaction
<1>4. F(d) \in Transaction
  BY <1>2, <1>3 DEF Transaction
<1>5. /\ Moves(t, L) /\ tx[t].pc = "signals"
      /\ tx'[t] = [F(d) EXCEPT !.held = @ \cup L]
  <2> HIDE DEF F
  <2> QED
    BY <1>1, <1>4, LockTypes, StatementFields
<1> HIDE DEF L
<1>6. /\ tx'[t].held = tx[t].held \cup L
      /\ SameDocuments(t) /\ SameAmounts(t) /\ SameSignals(t)
      /\ tx'[t].pay = tx[t].pay /\ tx'[t].pc = "draft"
  BY <1>2, <1>5 DEF Transaction, SameDocuments, SameAmounts, SameSignals
<1> QED
  BY <1>1, <1>5, <1>6 DEF Goes, L

LEMMA lockDraftFields ==
  ASSUME TypeOK, NEW t \in Tx, lockDraft(t)
  PROVE  /\ tx[t].cur \in Document /\ SeenDocuments(t)[tx[t].cur] = "BORRADOR"
         /\ Goes(t, {Doc(tx[t].cur)})
         /\ SameDocuments(t) /\ SameAmounts(t) /\ SameSignals(t)
         /\ tx'[t].pay = tx[t].pay /\ tx'[t].todo = tx[t].todo
         /\ tx'[t].cur = tx[t].cur
         /\ tx[t].pc = "draft" /\ tx'[t].pc = "number"
<1> DEFINE F == [tx[t] EXCEPT !.pc = "number"]
           L == {Doc(tx[t].cur)}
<1>0. tx[t] \in Transaction
  BY TxType
<1>1. /\ tx[t].cur \in Document /\ SeenDocuments(t)[tx[t].cur] = "BORRADOR"
      /\ Statement(t, "draft", L, F)
  BY Zenon DEF lockDraft
<1>2. F \in Transaction /\ L \in SUBSET Lock
  BY <1>0, <1>1, LockTypes DEF Transaction
<1>3. Moves(t, L) /\ tx[t].pc = "draft" /\ tx'[t] = [F EXCEPT !.held = @ \cup L]
  <2> HIDE DEF F, L
  <2> QED
    BY <1>1, <1>2, StatementFields
<1> HIDE DEF L
<1>4. /\ tx'[t].held = tx[t].held \cup L
      /\ SameDocuments(t) /\ SameAmounts(t) /\ SameSignals(t)
      /\ tx'[t].pay = tx[t].pay /\ tx'[t].todo = tx[t].todo
      /\ tx'[t].cur = tx[t].cur /\ tx'[t].pc = "number"
  BY <1>0, <1>3 DEF Transaction, SameDocuments, SameAmounts, SameSignals
<1> QED
  BY <1>1, <1>3, <1>4 DEF Goes, L

LEMMA assignNumberFields ==
  ASSUME TypeOK, NEW t \in Tx, assignNumber(t)
  PROVE  /\ tx[t].cur \in Document
         /\ Goes(t, {Per(PeriodOf[tx[t].cur])})
         /\ tx'[t].doc = [tx[t].doc EXCEPT ![tx[t].cur] = "EMITIDO"]
         /\ \E n \in Nat \ {0} :
              nextNumber(t, n) /\ tx'[t].num = [tx[t].num EXCEPT ![tx[t].cur] = n]
         /\ SameAmounts(t) /\ SameSignals(t)
         /\ tx'[t].pay = tx[t].pay /\ tx'[t].todo = tx[t].todo
         /\ tx'[t].cur = tx[t].cur
         /\ tx[t].pc = "number" /\ tx'[t].pc \in {"balance", "signals"}
<1> DEFINE d == tx[t].cur
           next == IF PeriodOf[d] \in AutoCredit THEN "balance" ELSE "signals"
           F(n) == [tx[t] EXCEPT !.pc = next, !.doc[d] = "EMITIDO", !.num[d] = n]
           L == {Per(PeriodOf[d])}
<1>1. PICK n \in 1 .. Cardinality(Document) :
        nextNumber(t, n) /\ Statement(t, "number", L, F(n))
  BY Zenon DEF assignNumber
<1>2. tx[t] \in Transaction /\ d \in Document
  BY DEF TypeOK, assignNumber
<1>3. n \in Nat \ {0}
  BY BillingAssumption, FS_CardinalityType
<1>4. next \in {"balance", "signals"}
  OBVIOUS
<1> HIDE DEF next
<1>5. F(n) \in Transaction
  BY <1>2, <1>3, <1>4 DEF Transaction, DocStatus
<1>6. L \in SUBSET Lock
  BY <1>2, LockTypes, BillingAssumption
<1>7. Moves(t, L) /\ tx[t].pc = "number" /\ tx'[t] = [F(n) EXCEPT !.held = @ \cup L]
  <2> HIDE DEF F, L
  <2> QED
    BY <1>1, <1>5, <1>6, StatementFields
<1> HIDE DEF L
<1>8. /\ tx'[t].held = tx[t].held \cup L
      /\ tx'[t].doc = [tx[t].doc EXCEPT ![d] = "EMITIDO"]
      /\ tx'[t].num = [tx[t].num EXCEPT ![d] = n]
      /\ SameAmounts(t) /\ SameSignals(t)
      /\ tx'[t].pay = tx[t].pay /\ tx'[t].todo = tx[t].todo
      /\ tx'[t].cur = tx[t].cur /\ tx'[t].pc = next
  BY <1>2, <1>7 DEF Transaction, SameAmounts, SameSignals
<1> QED
  BY <1>1, <1>2, <1>3, <1>4, <1>7, <1>8 DEF Goes, L

LEMMA RollbackFields ==
  ASSUME TypeOK, NEW t \in Tx, Rollback(t)
  PROVE  /\ Begins(t, {})
         /\ tx'[t].doc = NoDoc /\ tx'[t].pay = NoPay /\ tx'[t].num = Nothing
         /\ NoAmounts(t) /\ NoSignals(t) /\ tx'[t].due = {}
         /\ tx'[t].pc = "closed" /\ tx'[t].todo = {}
<1>1. tx'[t] = Closed /\ UNCHANGED rows /\ \A o \in Tx \ {t} : tx'[o] = tx[o]
  BY DEF Rollback, TypeOK
<1> QED
  BY <1>1 DEF Closed, Begins, Moves, Granted, NoDoc, NoPay, NoAmounts, NoSignals

LEMMA CommitFields ==
  ASSUME TypeOK, NEW t \in Tx, Commit(t)
  PROVE  /\ tx'[t] = Closed /\ \A o \in Tx \ {t} : tx'[o] = tx[o]
         /\ tx[t].pc = "signals" /\ tx[t].due = {} /\ tx[t].todo = {}
         /\ document' = SeenDocuments(t) /\ number' = SeenNumbers(t)
         /\ payment' = SeenPayments(t) /\ allocation' = SeenAllocations(t)
  BY DEF Commit, TypeOK

\* Every statement, allocation and reversal of Billing keeps document, number,
\* payment, allocation, signal and the open transactions within their types,
\* for any number of connections, documents, payments and periods.
THEOREM BillingTypes == Spec => []TypeOK
<1>1. Init => TypeOK
  BY ClosedType DEF Init, TypeOK, Nothing, NoRow, DocStatus, PayStatus
<1> QED
  BY <1>1, TypeStep, PTL DEF Spec
=============================================================================
