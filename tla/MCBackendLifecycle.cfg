CONSTANTS
  Threads = {t1, t2}
  t1 = t1
  t2 = t2
  s1 = s1
  s2 = s2
  Stores = {s1, s2}
  TxStores = {s2}
  CrossStore = FALSE
  Other = Other
  NoStore = NoStore
  NoThread = NoThread
SPECIFICATION LiveSpec
INVARIANTS WriterOwnsLease 
PROPERTIES DisposeEnds
