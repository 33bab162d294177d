CONSTANTS
  NoRecord = "-"
  NoType = "-"
  Types <- MCTypes
  Dedup <- MCDedup
  Order <- MCOrder
  RefType <- MCRefType
  ElemType <- MCElemType
  Entries <- MCEntries
  Records <- MCRecords
  Obj <- MCObj
  EagerDdl = TRUE
  Rebuild <- MCTypes
  ChunkSize = 2
  MaxSaves = 4
  MaxIngests = 2
  NumWorkers = 2
  Block = 10
  ChunkSizes = {1, 2}
  Annotated = {"Par"}
  NestedOnly <- MCNestedOnly
  Profiles = {"parity", "deferred"}
  MaxTasks = 4
SPECIFICATION MCSpec
CHECK_DEADLOCK FALSE
INVARIANTS SameAsSerial FencedResidue RestoredOnFailure ShardsAsSerial TokensResolved ResolvedSids
