CONSTANTS
  QueueSize = 3
  FrameCount = 3
  MaxSamples = 2
  Positions <- MCPositions
  Loops <- MCLoops
  MaxCalls = 3
SPECIFICATION FairSpec
INVARIANTS
  BuffersAccounted
  HeldIsContiguous
  StateFollowsVoice
PROPERTIES
  DestructorReturns
  PlayingGoesOn
CHECK_DEADLOCK FALSE
