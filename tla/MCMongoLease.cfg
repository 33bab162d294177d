SPECIFICATION LiveSpec
CONSTANTS
  Stores = {s1, s2}
  LeaseIds = {l1, l2}
  RefreshInterval = 1
  StaleMultiplier = 2
  MaxGeneration = 2
  NoLease = NoLease
  Absent = Absent
  Dead = Dead
INVARIANTS
  FsckExclusion
  SingleFsck
  GenerationCurrent
PROPERTIES
  FsckEnds
CHECK_DEADLOCK FALSE
