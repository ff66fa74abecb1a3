SPECIFICATION FairSpec
CONSTANTS
  R = 2
  Epochs = 3
  Chunks = 2
  Modes <- AllModes
INVARIANTS TypeOK SourceStable FinalOutput
PROPERTIES NeverBackwards Completes ImplementsMailbox
CHECK_DEADLOCK FALSE
