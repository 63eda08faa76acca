SPECIFICATION Spec
CONSTANTS
  a1 = a1
  a2 = a2
  r1 = r1
  r2 = r2
  Asset = {a1}
  Register = {r1}
  Batch = 1
  MaxFaults = 0
  Overlap = TRUE
  UnclearPut = FALSE
INVARIANTS
  EvidenceKeepsAsset
