SPECIFICATION StorySpec
CONSTANTS
  Sizes <- SomeSizes
  Bitrates <- SomeBitrates
  MatrixDegrees <- SomeDegrees
  FrameRates <- SomeRates
  CapTenths = 11
  Inputs <- SomeInputs
  HoverTimes <- SomeTimes
CHECK_DEADLOCK FALSE
INVARIANTS
  MasterMatches
