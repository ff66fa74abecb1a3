SPECIFICATION Spec
CONSTANTS
  Torn = Torn
  Programs <- Kernels
INVARIANTS RightSums EndsClean EachTileOnce
