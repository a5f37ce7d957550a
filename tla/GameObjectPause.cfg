SPECIFICATION FairSpec
CONSTANTS
  Slots = {o1, o2}
  None = None
  NGroup = 1
  Layers = {0}
  MaxUid = 2
  MaxPause = 2
  Ops = {"New", "Del", "Status", "Pause", "Ignore", "Fail", "AfterFrame", "ResetPool"}
  CallbackOps = {"New", "Del", "Pause", "Fail"}
PROPERTY DeadIsFreed
