SPECIFICATION ControlsSpec
CONSTANTS
  TTL = 2
  Speeds = {1, 2}
CHECK_DEADLOCK FALSE
INVARIANTS
  ControlsTrue
PROPERTIES
  AuthRetryRenews
  PageFollowsRow
  ReadyGetsPlayed
  ControlsHide
