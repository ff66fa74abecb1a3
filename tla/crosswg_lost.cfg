SPECIFICATION Spec
CONSTANTS
  Groups = 2
  Waves = 2
  Resident = 2
  Modes = {FALSE}
INVARIANTS EachRowOnce
CHECK_DEADLOCK FALSE
