CONSTANTS
  R = 3
  Epochs = 3
  Blocks = 3
  Resident = 2
SPECIFICATION FairSpec
INVARIANTS TypeOK ReadsCurrent FinalCounts
PROPERTIES Completes ImplementsExchange
CHECK_DEADLOCK FALSE
