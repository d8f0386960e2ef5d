SPECIFICATION Spec
SYMMETRY WorkerSymmetry
CONSTANTS
  Videos = {1}
  Kinds = {"CAPTIONS", "DOWNLOAD"}
  Workers = {w1, w2}
  MaxAttempts = 2
  NoWorker = NoWorker
  NoJob = NoJob
CHECK_DEADLOCK FALSE
INVARIANTS
  DoneMeansPublished
PROPERTIES
  JobEndsByOwnerOrReaper
