CONSTANTS
  WorkerCount = 2
  QueueSize = 1
  MaxTokens = 4
SPECIFICATION LiveSpec
CHECK_DEADLOCK FALSE
INVARIANTS ManifestsComplete
PROPERTIES CallsEnd
