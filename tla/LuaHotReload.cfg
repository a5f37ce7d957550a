CONSTANTS
  m1 = m1
  log = log
  Names = {m1, log}
  Modules = {m1}
  EvenNames <- MCEven
  Records = 2
  Garbled = Garbled
  Good = {a, b}
  Bad = {x}
  Absent = Absent
  MaxWrites = 2
  MaxTouches = 1
SPECIFICATION FairSpec
INVARIANT RestsMeansCurrent
PROPERTIES
  ChangesAreHandled
  DisableReturns
CHECK_DEADLOCK FALSE
