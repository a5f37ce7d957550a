CONSTANTS
  MaxJob = 2
  MaxPool = 1
  MaxGen = 0
  Names = {n1}
  n1 = n1
  ResourceTypes = {"Texture", "Sprite"}
  UpdateMax = 1
  HistoryLimit = 1
SPECIFICATION FairSpec
PROPERTIES
  EveryJobFinishes
  StopReturns
CHECK_DEADLOCK FALSE
