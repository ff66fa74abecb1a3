SPECIFICATION FairSpec
CONSTANTS
  Workgroups = {w1, w2, w3}
  Launches = 2
  P = 2
  Me = 1
  TilesPerPeer = 2
  ChunkTiles = 2
  Groups = 2
  TailColumns = 1
INVARIANTS TypeOK QueueExclusive SubmitsWhole LaunchComplete
PROPERTIES Completes
CHECK_DEADLOCK FALSE
