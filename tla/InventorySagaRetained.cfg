SPECIFICATION FairSpec
CONSTANTS
  u1 = u1 u2 = u2 v1 = v1 w1 = w1 w2 = w2
  Usages = {u1}
  Reversals = {}
  Target <- UndoTarget
  NoSubscriber = {}
  Worker = {w1}
  MaxAttempts = 2
  MaxStock = 1
  MaxFailures = 1
  DlqMayRefuse = TRUE
  Prompt = TRUE
PROPERTY
  EventuallyAnswered
