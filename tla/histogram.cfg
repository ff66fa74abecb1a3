SPECIFICATION Spec
CONSTANTS
  Torn = Torn
  Programs <- OddBlocks
INVARIANTS RightSums
