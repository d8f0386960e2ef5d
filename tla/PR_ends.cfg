SPECIFICATION Spec
CONSTANTS
  s1 = s1
  w1 = w1
  w2 = w2
  r1 = r1
  r2 = r2
CHECK_DEADLOCK FALSE
PROPERTIES
  SweepEnds
  NothingLeaks
  ShutdownEnds
  StrengthRestored
