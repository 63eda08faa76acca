SPECIFICATION Spec
CONSTANTS
  t1 = t1
  t2 = t2
  Tx = {t1, t2}
  Document = {1, 2, 3}
  Payment = {1, 2}
  Period = {1, 2}
  PeriodOf <- Periods
  Total <- Totals
  Amount <- Amounts
  AutoCredit = {1}
  MaxMoney = 2
SYMMETRY TxSymmetry
INVARIANTS
  TypeOK
  NoOverpayment
  AllocationsAreLive
  SignalIsDerived
  ConsecutiveNumbers
