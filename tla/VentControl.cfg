CONSTANTS
  QueueLen = 2
  Room = "Bath"
SPECIFICATION FairSpec
INVARIANTS TypeOK ManualVentFollowsSwitch AutoVentFollowsCommand
PROPERTY ManualVentSettles
