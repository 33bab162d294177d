CONSTANTS
  Stores = {s1, s2}
  Records = {"a", "b", "n"}
  Key <- MCKey
  Ref <- MCRef
  NoRecord = "-"
  None = None
  MaxUnits = 2
  MaxSid = 2
  MaxClock = 2
SPECIFICATION Spec
INVARIANTS ReadsFaithful LineageKept PinnedTimestamps
SYMMETRY Processes
CHECK_DEADLOCK FALSE
