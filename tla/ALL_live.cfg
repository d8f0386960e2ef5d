SPECIFICATION PoolAbortSpec
CONSTANTS
  Videos = {1}
  Workers = {w1}
  Kinds = {"DOWNLOAD"}
  MaxAttempts = 2
  MaxJobAttempts = 2
  Divisor = 2
  NoWorker = NoWorker
  NoVideo = NoVideo
  NoJob = NoJob
CHECK_DEADLOCK FALSE
PROPERTIES
  RightClaimReturned
  LostWorkStops
  ClaimsEnd
  PoolSettles
