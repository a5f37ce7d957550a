SPECIFICATION Spec
CONSTANTS
  Slots = {o1, o2, o3}
  None = None
  NGroup = 2
  Layers = {0, 1}
  MaxUid = 3
  MaxPause = 0
  Ops = {"New", "Del", "Status", "Group", "Layer", "AfterFrame", "ResetPool"}
  CallbackOps = {"New", "Del", "Status", "Layer"}
INVARIANTS WalkIsExact TriggerInGroups
SYMMETRY Interchangeable
