SPECIFICATION FairSpec
CONSTANTS
  a1 = a1
  a2 = a2
  r1 = r1
  r2 = r2
  Asset = {a1, a2}
  Register = {r1, r2}
  Batch = 2
  MaxFaults = 1
  Overlap = FALSE
  UnclearPut = FALSE
INVARIANTS
  TypeOK
  EvidenceKeepsAsset
  ObjectsHaveRows
PROPERTIES
  UnusableIsFinal
  OrphansAreRemoved
