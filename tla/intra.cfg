SPECIFICATION FairSpec
CONSTANTS
  R = 2
  Epochs = 5
  Schedule = "intra"
INVARIANTS NeverStale IInv
PROPERTIES Completes
CHECK_DEADLOCK FALSE
