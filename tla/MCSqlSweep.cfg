CONSTANTS
  Owners = {w1, w2}
  w1 = w1
  w2 = w2
  table1 = table1
  table2 = table2
  content1 = content1
  content2 = content2
  Objects <- MCObjects
  ChildTables <- MCChildTables
  Rows <- MCRows
  Parent = Parent
  MaxSid = 3
  StealLive = FALSE
  Nobody = Nobody
  Clean = Clean
  Residue = Residue
  Ids = {"e", "f", "d1", "d2"}
  Table <- MCTable
  Content <- MCContent
  Backings = {"e", "f"}
  NoRow = "-"
  MaxRuns = 2
SPECIFICATION MCSpec
CHECK_DEADLOCK FALSE
SYMMETRY Symmetry
INVARIANTS ParentComplete ResidueMarked RootsSurvive  LoadOrderSound
