SPECIFICATION FairSpec
CONSTANTS
  Groups = 3
  Waves = 2
  Resident = 2
  Modes = {TRUE, FALSE}
INVARIANTS TypeOK InOrder AuxIsFinal LeaderExclusive
PROPERTIES Completes
CHECK_DEADLOCK FALSE
