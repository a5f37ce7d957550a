SPECIFICATION Spec
CONSTANTS
  Slots = {o1, o2, o3}
  None = None
  NGroup = 2
  Layers = {0}
  MaxUid = 3
  MaxPause = 0
  Ops = {"New", "Group", "AfterFrame", "ResetPool"}
  CallbackOps = {"Group"}
INVARIANT TriggerInGroups
SYMMETRY Interchangeable
