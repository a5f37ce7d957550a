CONSTANTS
  Senders = {engine, audio}
  Size = 2
  Values = {a, b}
  Exit = Exit
  MaxSent = 3
SPECIFICATION Spec
INVARIANT ExitsWhenTold
CHECK_DEADLOCK FALSE
