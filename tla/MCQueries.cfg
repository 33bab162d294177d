CONSTANTS
  Store <- MCStore
  Targets <- MCTargets
  Options <- MCOptions
  Relations = {"=", "<"}
  Literals = {0, 2}
  ValueSets = {{1}, {0, 1}}
  MaxLeaves = 2
  MaxInverts = 1
  Shapes <- MCShapes
  Leafs <- MCLeafs
  LaterRows <- MCLaterRows
  LaterTargets = {4}
  Records <- MCRecords
  Referred <- MCReferred
  Comparisons <- MCComparisons
  Quantified = {"kids", "kids2", "kids.ref", "ref"}
  Counts = {1}
  MaxCalls = 5
SPECIFICATION MCSpec
INVARIANTS
  SqlMeansIt
  MongoMeansIt
  FilterSelects
  BackendsAgree
CHECK_DEADLOCK FALSE
