SPECIFICATION Spec
SYMMETRY WorkerSymmetry
CONSTANTS
  Videos = {1, 2}
  Workers = {w1, w2}
  MaxAttempts = 2
  Divisor = 1
  NoWorker = NoWorker
  NoVideo = NoVideo
CHECK_DEADLOCK FALSE
PROPERTIES
  ImplementsLifecycle
  TerminalRowsStay
  ClaimEndsByOwnerReaperOrCancel
  InterruptionReturnsTheRun
