SPECIFICATION FairSpec
CONSTANTS
  R = 3
  Epochs = 3
  Schedule = "serial"
INVARIANTS TypeOK ReadsCurrent SignalAfterData FinalCounts
PROPERTIES Completes ImplementsExchange
CHECK_DEADLOCK FALSE
