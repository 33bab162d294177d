CONSTANTS
  Missing = Missing
  Contents <- MCContents
  Rejected <- MCRejected
  Plans <- MCPlans
  Size = 2
  MaxSid = 4
  Null = Null
  Federations <- MCFederations
  Ids = {1, 2, 3}
  Early = {1, 2}
  SortValue <- MCSortValue
  Queries <- MCQueries
  BatchSize = 1
  MinClock = 5
  MaxClock = 6
  MaxWrites = 1
  Unbounded = Unbounded
  NSources = 2
  Bounds = {0, 1, 2}
  MaxRows = 2
  MaxSlices = 1
SPECIFICATION MCSpec
INVARIANTS   SnapshotPage CountedPage NoHiddenDuplicate SliceOfUnion
CHECK_DEADLOCK FALSE
