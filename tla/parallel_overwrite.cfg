SPECIFICATION Spec
CONSTANTS
  R = 2
  Epochs = 3
  Schedule = "parallel"
INVARIANT ReadsCurrent
CHECK_DEADLOCK FALSE
