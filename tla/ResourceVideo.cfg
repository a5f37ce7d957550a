CONSTANTS
  Frames = 3
  KeyFrames = {0, 1}
  Durations = {0, 3}
  QueueSize = 2
  Seconds <- MCSeconds
  Deltas <- MCDeltas
  MaxCalls = 2
  MaxSerial = 4
SPECIFICATION FairSpec
INVARIANTS
  NothingStale
  NoFrameSkipped
  NoLostWakeup
PROPERTIES
  PictureMovesForward
  SeekIsShown
  PlaysToItsEnd
  DestructorReturns
CHECK_DEADLOCK FALSE
