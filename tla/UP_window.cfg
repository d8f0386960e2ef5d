SPECIFICATION Spec
CONSTANTS
  Files = {f1, f2, f3}
  Concurrency = 2
  MaxInFlight = 2
  MaxVisits = 2
CHECK_DEADLOCK FALSE
INVARIANT
  UploadsWithinWindow
