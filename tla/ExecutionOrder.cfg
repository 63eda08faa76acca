SPECIFICATION Spec
CONSTANTS
  Sessions = {s1, s2}
  Keys = {k1, k2}
  Technicians = {t1}
  NoKey = NoKey
  None = None
  Requests <- LifecycleRequests
  ExpiringKeys = {k1, k2}
  MaxVersion = 3
  AgendaOverlaps = FALSE
SYMMETRY Symmetry
INVARIANTS
  TypeOK
  SnapshotIsCurrent
  TransitionChain
  ProjectionVersionsIncrease
PROPERTIES
  TerminalIsFinal
  VersionOnlyGrows
