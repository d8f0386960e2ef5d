SPECIFICATION Spec
CONSTANTS
  Files = {f1, f2}
  Concurrency = 1
  MaxInFlight = 1
  MaxVisits = 3
CHECK_DEADLOCK FALSE
INVARIANTS
  WindowIsFull
  FilesHeldWhileNeeded
PROPERTIES
  CancelledRowStays
  UploadsSettle
