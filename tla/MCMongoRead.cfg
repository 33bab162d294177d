CONSTANTS
  Stores = {w1, w2}
  w1 = w1
  w2 = w2
  NoStore = NoStore
  entry = entry
  value = value
  leaf = leaf
  Objects <- MCObjects
  Refs <- MCRefs
  Dedup <- MCDedup
  Collections <- MCObjects
  Collection <- MCCollection
  Entries = {entry}
  Fetchers = {w1}
  Lookups = {entry}
  MaxSid = 3
  MaxGeneration = 1
  SweepMayStop = TRUE
SPECIFICATION TxSpec
CHECK_DEADLOCK FALSE
INVARIANTS EntryNotLost 
CONSTRAINT FewerObjects
