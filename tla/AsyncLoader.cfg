CONSTANTS
  MaxJob = 2
  MaxPool = 2
  MaxGen = 1
  Names = {n1}
  n1 = n1
  ResourceTypes = {"Texture"}
  UpdateMax = 1
  HistoryLimit = 1
SPECIFICATION Spec
INVARIANTS
  NothingLost
  SubmissionOrder
  StopLeavesNothing
  CancelHonoured
  TargetIsFresh
  WorkerNeverDestroys
  DataPublished
PROPERTIES
  JobServiceSpec
  DoneStoresResource
CHECK_DEADLOCK FALSE
