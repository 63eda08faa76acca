SPECIFICATION Spec
CONSTANTS
  u1 = u1 u2 = u2 v1 = v1 w1 = w1 w2 = w2
  Usages = {u1}
  Reversals = {v1}
  Target <- UndoTarget
  NoSubscriber = {}
  Worker = {w1, w2}
  MaxAttempts = 1
  MaxStock = 1
  MaxFailures = 2
  DlqMayRefuse = TRUE
  Prompt = FALSE
SYMMETRY WorkerSymmetry
INVARIANTS
  TypeOK
  ReceiptMatchesLedger
  AnswersAgree
PROPERTY
  ImplementsDecision
