CONSTANTS
  Stores = {w1}
  w1 = w1
  NoStore = NoStore
  entry = entry
  value = value
  leaf = leaf
  Objects <- MCObjects
  Refs <- MCRefs
  Dedup <- MCContentDedup
  Collections <- MCObjects
  Collection <- MCCollection
  Entries = {entry}
  Fetchers = {}
  Lookups = {}
  MaxSid = 4
  MaxGeneration = 1
  SweepMayStop = TRUE
SPECIFICATION Spec
CHECK_DEADLOCK FALSE
INVARIANTS SavedResolves
