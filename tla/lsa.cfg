SPECIFICATION FairSpec
CONSTANTS
  R = 3
  CommWGs = 2
  Tasks = 2
  Persistent = 1
  Policies = {"static", "persistent", "split"}
  Resident = 2
  Launches = 2
INVARIANTS TypeOK ReadsWhole LaunchComplete
PROPERTIES Completes
CHECK_DEADLOCK FALSE
