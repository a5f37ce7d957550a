SPECIFICATION Spec
CONSTANTS
  Slots = {o1, o2}
  None = None
  NGroup = 2
  Layers = {0}
  MaxUid = 4
  MaxPause = 0
  Ops = {"New", "BadNew", "Del", "Status", "Reset", "Group", "Fail", "AfterFrame",
         "ResetPool"}
  CallbackOps = {"New", "Del", "Status", "Reset", "Group", "Fail", "AfterFrame", "ResetPool"}
INVARIANTS ListsExact HandlesAreFresh
PROPERTY CallsWhatItFound
CHECK_DEADLOCK FALSE
SYMMETRY Interchangeable
