CONSTANTS
  Stores = {w1, w2}
  w1 = w1
  w2 = w2
  NoStore = NoStore
  entry = entry
  value = value
  leaf = leaf
  Objects <- MCObjects
  Refs <- MCRefs
  Dedup <- MCDedup
  Collections <- MCObjects
  Collection <- MCCollection
  Entries = {entry}
  Fetchers = {}
  Lookups = {}
  MaxSid = 4
  MaxGeneration = 1
  SweepMayStop = FALSE
SPECIFICATION Spec
CHECK_DEADLOCK FALSE
SYMMETRY Symmetry
INVARIANTS SavedIsDurable  RefsResolve
PROPERTIES FsckLeavesClean ImplementsContentStore
