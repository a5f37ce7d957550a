CONSTANTS
  Senders = {engine}
  Size = 3
  Values = {a, b, c}
  Exit = Exit
  MaxSent = 8
SPECIFICATION FairSpec
INVARIANTS
  PlacesAccounted
PROPERTIES
  QueueSpec
  QueueMovesOn
CHECK_DEADLOCK FALSE
