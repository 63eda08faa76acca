SPECIFICATION Spec
CONSTANTS
  Sessions = {s1, s2}
  Keys = {k1, k2, k3, k4}
  Technicians = {t1}
  NoKey = NoKey
  None = None
  Requests <- EquipmentRequests
  ExpiringKeys = {}
  MaxVersion = 4
  AgendaOverlaps = FALSE
SYMMETRY Symmetry
INVARIANTS
  OneEffectPerKey
  NotExecutedLeavesNoEquipment
  OneLiveReversal
