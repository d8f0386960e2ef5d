SPECIFICATION TreeSpec
SYMMETRY Symmetry
CONSTANTS
  Videos = {1}
  Workers = {w1, w2}
  MaxAttempts = 1
  Divisor = 1
  NoWorker = NoWorker
  NoVideo = NoVideo
  Segments = {s1, s2}
  Keys = {k1, k2, k3}
  NoKey = NoKey
CHECK_DEADLOCK FALSE
INVARIANTS
  ReadyTreeIsComplete
  UnsharedTreeDecrypts
