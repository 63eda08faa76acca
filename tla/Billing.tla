-------------------------------- MODULE Billing --------------------------------
(***************************************************************************)
(* The documents, payments and period signals of one subscriber (MOD14).   *)
(* Every command is one READ COMMITTED transaction that takes advisory and *)
(* row locks one statement at a time: its writes are its own until the     *)
(* commit, and each of its reads sees what the others have committed by    *)
(* then.  A payment is allocated to issued documents, by hand, oldest      *)
(* first, or when a document is issued; voiding a payment or a document    *)
(* reverses allocations; the signal of a period says whether it is paid.   *)
(***************************************************************************)
EXTENDS Naturals, FiniteSetsExt, Functions

CONSTANTS
  Tx,          \* the connections that run commands
  Document,    \* document ids, in the order of their due dates
  Payment,     \* payment ids, in the order of paid_at
  Period,      \* the billing periods of the contract
  PeriodOf,    \* period_id of a document
  Total,       \* the total of a document, in cents
  Amount,      \* the amount of a payment, in cents
  AutoCredit,  \* periods whose frozen policy has auto_apply_credit
  MaxMoney     \* bound: no amount is larger

ASSUME BillingAssumption ==
  /\ Document \subseteq Nat /\ IsFiniteSet(Document)
  /\ Payment \subseteq Nat /\ Period \subseteq Nat
  /\ PeriodOf \in [Document -> Period]
  /\ MaxMoney \in Nat
  /\ Total \in [Document -> 0 .. MaxMoney]
  /\ Amount \in [Payment -> 1 .. MaxMoney]

VARIABLES
  document,    \* billing_documents.status, "none" without a row
  number,      \* the suffix of billing_documents.number, 0 while a draft
  payment,     \* billing_payments.status, "none" without a row
  allocation,  \* the live (not reversed) amount of a payment on a document
  signal,      \* billing_period_signals.paid
  tx           \* the open transactions

vars == <<document, number, payment, allocation, signal, tx>>
rows == <<document, number, payment, allocation, signal>>

Row == Payment \X Document
Money == 1 .. MaxMoney

Subscriber == <<"subscriber", 0>>   \* billing-credit:<subscriber>
Number == <<"number", 0>>           \* billing-number:<tenant>
Generation(x) == <<"generation", x>>
Doc(d) == <<"document", d>>
Pay(p) == <<"payment", p>>
Per(x) == <<"period", x>>

Lock ==
  {Subscriber, Number}
    \cup {Generation(x) : x \in Period} \cup {Doc(d) : d \in Document}
    \cup {Pay(p) : p \in Payment} \cup {Per(x) : x \in Period}

Nothing == [d \in Document |-> 0]
NoRow == [r \in Row |-> 0]

\* A connection without a transaction.  In an open one, held are its locks;
\* doc, pay, add, rev, num and paid are its writes; ask, credit, todo and due
\* are what it still has to allocate, to draw on, to issue and to recalculate.
Closed ==
  [pc |-> "closed", cur |-> 0, held |-> {},
   doc |-> [d \in Document |-> "same"], pay |-> [p \in Payment |-> "same"],
   num |-> Nothing, add |-> NoRow, rev |-> {},
   ask |-> Nothing, credit |-> {}, todo |-> {}, due |-> {},
   done |-> {}, paid |-> {}]

DocStatus == {"none", "BORRADOR", "EMITIDO", "ANULADO"}
PayStatus == {"none", "REGISTRADO", "ANULADO"}

Transaction ==
  [pc: {"closed", "insert", "credit", "suggest", "list", "apply", "reverse",
        "draft", "number", "balance", "draw", "signals"},
   cur: Nat, held: SUBSET Lock,
   doc: [Document -> DocStatus \cup {"same"}],
   pay: [Payment -> {"same", "REGISTRADO", "ANULADO"}],
   num: [Document -> Nat], add: [Row -> Nat], rev: SUBSET Row,
   ask: [Document -> Nat], credit: SUBSET Payment, todo: SUBSET Document,
   due: SUBSET Period, done: SUBSET Period, paid: SUBSET Period]

TypeOK ==
  /\ document \in [Document -> DocStatus]
  /\ number \in [Document -> Nat]
  /\ payment \in [Payment -> PayStatus]
  /\ allocation \in [Row -> Nat]
  /\ signal \in [Period -> BOOLEAN]
  /\ tx \in [Tx -> Transaction]

Init ==
  /\ document = [d \in Document |-> "none"]
  /\ number = Nothing
  /\ payment = [p \in Payment |-> "none"]
  /\ allocation = NoRow
  /\ signal = [x \in Period |-> FALSE]
  /\ tx = [t \in Tx |-> Closed]

-----------------------------------------------------------------------------
(* What a transaction reads: the committed rows under its own writes.      *)

SeenDocuments(t) ==
  [d \in Document |->
     IF tx[t].doc[d] = "same" THEN document[d] ELSE tx[t].doc[d]]

SeenPayments(t) ==
  [p \in Payment |-> IF tx[t].pay[p] = "same" THEN payment[p] ELSE tx[t].pay[p]]

\* Mutant: a reversal is a counter-entry, not a mark on the row.
counterEntry(t) ==
  [r \in Row |-> IF r \in tx[t].rev THEN 0 - allocation[r]
                                    ELSE allocation[r] + tx[t].add[r]]

SeenAllocations(t) ==
  [r \in Row |->
     IF r \in tx[t].rev THEN 0 ELSE allocation[r] + tx[t].add[r]]

SeenNumbers(t) ==
  [d \in Document |-> IF tx[t].num[d] = 0 THEN number[d] ELSE tx[t].num[d]]

WithNumber(docs) == {d \in Document : docs[d] \in {"EMITIDO", "ANULADO"}}

PaidAmount(a, d) == SumFunction([p \in Payment |-> a[<<p, d>>]])
UsedAmount(a, p) == SumFunction([d \in Document |-> a[<<p, d>>]])
Pending(a, d) == Total[d] - PaidAmount(a, d)
Remaining(a, p) == Amount[p] - UsedAmount(a, p)

\* recalculateSignals: the period has an issued document and every issued
\* document of it is covered.
PeriodPaid(docs, a, x) ==
  LET issued == {d \in Document : PeriodOf[d] = x /\ docs[d] = "EMITIDO"}
  IN  issued # {} /\ \A d \in issued : Total[d] <= PaidAmount(a, d)

\* The statement that locks these rows can go on: nobody else holds one.
Granted(t, locks) == \A o \in Tx \ {t} : tx[o].held \cap locks = {}

Open(t, fields) ==
  /\ tx[t].pc = "closed"
  /\ tx' = [tx EXCEPT ![t] = fields]
  /\ UNCHANGED rows

\* Statement pc of the transaction runs with these locks and leaves fields.
Statement(t, pc, locks, fields) ==
  /\ tx[t].pc = pc
  /\ Granted(t, locks)
  /\ tx' = [tx EXCEPT ![t] = [fields EXCEPT !.held = @ \cup locks]]
  /\ UNCHANGED rows

AfterAsking(ask) == IF ask = Nothing THEN "signals" ELSE "apply"

-----------------------------------------------------------------------------
(* Payments                                                                *)

registerPayment(t, p) ==
  /\ Granted(t, {Subscriber})
  /\ Open(t, [Closed EXCEPT !.pc = "insert", !.cur = p, !.held = {Subscriber}])

\* A payment with this key replays (Rollback: nothing is written).  The command
\* lists allocations, perhaps none, or leaves them to the suggestion.
insertPayment(t) ==
  LET p == tx[t].cur
  IN  /\ p \in Payment /\ payment[p] = "none"
      /\ \E next \in {"suggest", "list", "signals"} :
           Statement(t, "insert", {Pay(p)},
                     [tx[t] EXCEPT !.pc = next, !.pay[p] = "REGISTRADO"])

\* suggestFifoAllocations: the oldest pending documents first, while money
\* remains.
Suggestion(t, p) ==
  LET a == SeenAllocations(t)
      open == {d \in Document : document[d] = "EMITIDO"}
      before(d) == SumFunctionOnSet([e \in Document |-> Pending(a, e)],
                                    {e \in open : e < d})
      money(d) == Min({Pending(a, d)} \cup
                      (IF before(d) < Amount[p] THEN {Amount[p] - before(d)}
                                                ELSE {0}))
  IN  [d \in Document |-> IF d \in open THEN money(d) ELSE 0]

suggestAllocations(t) ==
  \E ask \in [Document -> 0 .. MaxMoney] :
    /\ tx[t].cur \in Payment /\ ask = Suggestion(t, tx[t].cur)
    /\ Statement(t, "suggest",
                 {Doc(d) : d \in {e \in Document : document[e] = "EMITIDO"}},
                 [tx[t] EXCEPT !.pc = AfterAsking(ask), !.ask = ask])

allocateCredit(t, p) ==
  /\ Granted(t, {Subscriber})
  /\ Open(t, [Closed EXCEPT !.pc = "credit", !.cur = p, !.held = {Subscriber}])

lockPayment(t) ==
  LET p == tx[t].cur
  IN  /\ p \in Payment /\ payment[p] = "REGISTRADO"
      /\ Statement(t, "credit", {Pay(p)}, [tx[t] EXCEPT !.pc = "list"])

\* Mutant: what the document lacks is not read again under its lock.
FitsPayment(t, p, d, m) ==
  /\ SeenPayments(t)[p] = "REGISTRADO"
  /\ SeenDocuments(t)[d] = "EMITIDO"
  /\ m <= Remaining(SeenAllocations(t), p)

\* Mutant: the document may have been voided since the command was prepared.
FitsAnyDocument(t, p, d, m) ==
  /\ SeenPayments(t)[p] = "REGISTRADO"
  /\ SeenDocuments(t)[d] \in {"EMITIDO", "ANULADO"}
  /\ m <= Remaining(SeenAllocations(t), p)
  /\ m <= Pending(SeenAllocations(t), d)

\* What one iteration of applyAllocations requires of the amount.
Fits(t, p, d, m) ==
  LET a == SeenAllocations(t)
  IN  /\ SeenPayments(t)[p] = "REGISTRADO"
      /\ SeenDocuments(t)[d] = "EMITIDO"
      /\ m <= Remaining(a, p)
      /\ m <= Pending(a, d)

\* One iteration: the amount m of payment p goes to document d.  An allocation
\* that does not fit throws (Rollback).
allocate(t, pc, p, d, m, fields) ==
  /\ Fits(t, p, d, m)
  /\ Statement(t, pc, {Pay(p), Doc(d)},
               [fields EXCEPT !.add[<<p, d>>] = @ + m,
                              !.due = @ \cup {PeriodOf[d]}])

\* The allocations of the command, in the order of the document ids.
applyListed(t) ==
  LET p == tx[t].cur
  IN  \E d \in Document, m \in Money, next \in {"list", "signals"} :
        /\ p \in Payment
        /\ \A e \in Document : tx[t].add[<<p, e>>] > 0 => e <= d
        /\ allocate(t, "list", p, d, m, [tx[t] EXCEPT !.pc = next])

\* The suggested allocations, in the same order.
applySuggested(t) ==
  LET p == tx[t].cur
  IN  \E d \in Document :
        LET ask == [tx[t].ask EXCEPT ![d] = 0]
        IN  /\ p \in Payment
            /\ tx[t].ask[d] > 0
            /\ \A e \in Document : e < d => tx[t].ask[e] = 0
            /\ allocate(t, "apply", p, d, tx[t].ask[d],
                        [tx[t] EXCEPT !.pc = AfterAsking(ask), !.ask = ask])

voidPayment(t, p) ==
  /\ Granted(t, {Pay(p)})
  /\ payment[p] = "REGISTRADO"
  /\ Open(t, [Closed EXCEPT
       !.pc = "reverse", !.held = {Pay(p)}, !.pay[p] = "ANULADO",
       !.due = {PeriodOf[d] : d \in {e \in Document : allocation[<<p, e>>] > 0}}])

\* UPDATE ... SET reversed_at: it waits for a row another transaction has
\* already reversed and finds it reversed.
reverseAllocations(t) ==
  LET target == {r \in Row : \/ tx[t].pay[r[1]] = "ANULADO"
                             \/ tx[t].doc[r[2]] = "ANULADO"}
  IN  /\ \A o \in Tx \ {t} : \A r \in tx[o].rev \cap target : allocation[r] = 0
      /\ Statement(t, "reverse", {},
                   [tx[t] EXCEPT !.pc = "signals", !.rev = target])

\* Mutant: the period is read without FOR UPDATE.
recalculateUnlocked(t) ==
  \E x \in tx[t].due :
    LET paid == PeriodPaid(SeenDocuments(t), SeenAllocations(t), x)
    IN  Statement(t, "signals", {},
                  [tx[t] EXCEPT !.due = @ \ {x}, !.done = @ \cup {x},
                                !.paid = IF paid THEN @ \cup {x} ELSE @ \ {x}])

\* One iteration of recalculateSignals, the periods in the order of their ids:
\* lock the period, then read documents and allocations.
recalculateSignals(t) ==
  \E x \in tx[t].due :
    LET paid == PeriodPaid(SeenDocuments(t), SeenAllocations(t), x)
    IN  /\ \A y \in tx[t].due : x <= y
        /\ Statement(t, "signals", {Per(x)},
                     [tx[t] EXCEPT !.due = @ \ {x}, !.done = @ \cup {x},
                                   !.paid = IF paid THEN @ \cup {x} ELSE @ \ {x}])

-----------------------------------------------------------------------------
(* Documents                                                               *)

\* The advisory lock of contract and period: no live document may exist.  The
\* draft is left as it is or, under approval_mode AUTOMATICA, issued at once.
generateOne(t, d) ==
  LET x == PeriodOf[d]
      new == [Closed EXCEPT !.held = {Generation(x)}, !.doc[d] = "BORRADOR",
                            !.pc = "signals"]
  IN  /\ Granted(t, {Generation(x)})
      /\ document[d] = "none"
      /\ \A e \in Document : PeriodOf[e] = x => document[e] \in {"none", "ANULADO"}
      /\ \/ Open(t, new)
         \/ Open(t, [new EXCEPT !.todo = {d}])

discard(t, d) ==
  /\ Granted(t, {Doc(d)})
  /\ document[d] = "BORRADOR"
  /\ Open(t, [Closed EXCEPT !.pc = "signals", !.held = {Doc(d)},
                            !.doc[d] = "none"])

issue(t, docs) ==
  /\ docs # {}
  /\ Open(t, [Closed EXCEPT !.pc = "signals", !.todo = docs])

\* issueWithinManager takes the number and then the subscriber's lock.
lockNumbering(t) ==
  \E d \in tx[t].todo :
    /\ tx[t].due = {}
    /\ Statement(t, "signals", {Number, Subscriber},
                 [tx[t] EXCEPT !.pc = "draft", !.cur = d, !.todo = @ \ {d}])

lockDraft(t) ==
  LET d == tx[t].cur
  IN  /\ d \in Document /\ SeenDocuments(t)[d] = "BORRADOR"
      /\ Statement(t, "draft", {Doc(d)}, [tx[t] EXCEPT !.pc = "number"])

\* Mutant: the numbers of voided documents are not counted.
nextIssuedNumber(t, n) ==
  LET given == {SeenNumbers(t)[d] :
                  d \in {e \in Document : SeenDocuments(t)[e] = "EMITIDO"}}
  IN  /\ \A m \in given : m < n
      /\ n = 1 \/ n - 1 \in given

\* n is MAX + 1 over every document with a number, the voided ones too.
nextNumber(t, n) ==
  LET given == {SeenNumbers(t)[d] : d \in WithNumber(SeenDocuments(t))}
  IN  /\ \A m \in given : m < n
      /\ n = 1 \/ n - 1 \in given

\* The UPDATE of billing_periods locks the period; then number and status.
assignNumber(t) ==
  \E n \in 1 .. Cardinality(Document) :
    LET d == tx[t].cur
    IN  /\ d \in Document
        /\ nextNumber(t, n)
        /\ Statement(t, "number", {Per(PeriodOf[d])},
                     [tx[t] EXCEPT
                        !.pc = IF PeriodOf[d] \in AutoCredit THEN "balance"
                                                             ELSE "signals",
                        !.doc[d] = "EMITIDO", !.num[d] = n])

\* applyCreditWithin: every registered payment is locked, then drawn on in
\* turn for what the document still lacks.
lockCredit(t) ==
  LET registered == {p \in Payment : payment[p] = "REGISTRADO"}
  IN  Statement(t, "balance", {Pay(p) : p \in registered},
                [tx[t] EXCEPT !.pc = IF registered = {} THEN "signals" ELSE "draw",
                              !.credit = registered])

drawCredit(t) ==
  \E p \in tx[t].credit :
    LET d == tx[t].cur
        a == SeenAllocations(t)
        rest == tx[t].credit \ {p}
        left == [tx[t] EXCEPT !.credit = rest,
                              !.pc = IF rest = {} THEN "signals" ELSE "draw"]
    IN  /\ d \in Document
        /\ \A q \in tx[t].credit : p <= q
        /\ \/ /\ Pending(a, d) <= 0 \/ Remaining(a, p) <= 0
              /\ Statement(t, "draw", {}, left)
           \/ \E m \in Money :
                /\ m = Min({Pending(a, d), Remaining(a, p)})
                /\ allocate(t, "draw", p, d, m, left)

void(t, d) ==
  /\ Granted(t, {Doc(d)})
  /\ document[d] = "EMITIDO"
  /\ Open(t, [Closed EXCEPT !.pc = "reverse", !.held = {Doc(d)},
                            !.doc[d] = "ANULADO", !.due = {PeriodOf[d]}])

-----------------------------------------------------------------------------
(* The end of a transaction                                                *)

Commit(t) ==
  /\ tx[t].pc = "signals" /\ tx[t].due = {} /\ tx[t].todo = {}
  /\ document' = SeenDocuments(t)
  /\ number' = SeenNumbers(t)
  /\ payment' = SeenPayments(t)
  /\ allocation' = SeenAllocations(t)
  /\ signal' = [x \in Period |->
                  IF x \in tx[t].done THEN x \in tx[t].paid ELSE signal[x]]
  /\ tx' = [tx EXCEPT ![t] = Closed]

\* A refused command, a replay, a deadlock victim or a crash: the locks go and
\* nothing is written.
Rollback(t) ==
  /\ tx[t].pc # "closed"
  /\ tx' = [tx EXCEPT ![t] = Closed]
  /\ UNCHANGED rows

Next ==
  \E t \in Tx :
    \/ \E p \in Payment :
         \/ registerPayment(t, p)
         \/ allocateCredit(t, p)
         \/ voidPayment(t, p)
    \/ \E d \in Document :
         \/ generateOne(t, d)
         \/ discard(t, d)
         \/ void(t, d)
    \/ \E docs \in SUBSET Document : issue(t, docs)
    \/ insertPayment(t)
    \/ suggestAllocations(t)
    \/ lockPayment(t)
    \/ applyListed(t)
    \/ applySuggested(t)
    \/ reverseAllocations(t)
    \/ recalculateSignals(t)
    \/ lockNumbering(t)
    \/ lockDraft(t)
    \/ assignNumber(t)
    \/ lockCredit(t)
    \/ drawCredit(t)
    \/ Commit(t)
    \/ Rollback(t)

Spec == Init /\ [][Next]_vars

-----------------------------------------------------------------------------
(* Properties                                                              *)

\* The live allocations of a document never add up to more than its total, nor
\* those of a payment to more than its amount, although applyAllocations checks
\* both sums in one statement and inserts in another while other transactions
\* allocate, draw on credit and reverse.
NoOverpayment ==
  /\ \A d \in Document : PaidAmount(allocation, d) <= Total[d]
  /\ \A p \in Payment : UsedAmount(allocation, p) <= Amount[p]

\* A live allocation joins a registered payment with an issued document: no
\* order of allocating, voiding the payment and voiding the document leaves
\* money on a voided one.
AllocationsAreLive ==
  \A p \in Payment, d \in Document :
    allocation[<<p, d>>] > 0 =>
      payment[p] = "REGISTRADO" /\ document[d] = "EMITIDO"

\* billing_period_signals.paid is what recalculateSignals would compute from
\* the committed rows: no commit overwrites it with a sum that another
\* transaction has changed since it was read.
SignalIsDerived ==
  \A x \in Period : signal[x] <=> PeriodPaid(document, allocation, x)

\* The documents that were ever issued carry the numbers 1, 2, ... without a
\* gap and without a repetition, whatever is voided, discarded or rolled back
\* in between (nextNumber, and the number's advisory lock held to the commit).
ConsecutiveNumbers ==
  LET issued == WithNumber(document)
  IN  {number[d] : d \in issued} = 1 .. Cardinality(issued)
=============================================================================
