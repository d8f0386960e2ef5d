SPECIFICATION Spec
CONSTANTS
  Rows = 2
  Instances = {i1, i2, i3}
  Ticks = {t1, t2}
  MaxWorkers = 2
  Divisor = 1
  Types = 2
CHECK_DEADLOCK FALSE
INVARIANTS
  FleetWithinMax
PROPERTIES
  QueueIsServed
