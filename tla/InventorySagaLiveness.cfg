SPECIFICATION FairSpec
CONSTANTS
  u1 = u1 u2 = u2 v1 = v1 w1 = w1 w2 = w2
  Usages = {u1, u2}
  Reversals = {v1}
  Target <- UndoTarget
  NoSubscriber = {u2}
  Worker = {w1}
  MaxAttempts = 2
  MaxStock = 1
  MaxFailures = 2
  DlqMayRefuse = FALSE
  Prompt = TRUE
PROPERTY
  EventuallyAnswered
