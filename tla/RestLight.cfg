CONSTANTS
  QueueLen = 1
  Distances = {0, 1}
  OnDistances = {0, 1}
SPECIFICATION FairSpec
INVARIANTS TypeOK ManualLightFollowsSwitch AutoLightFollowsDistance
PROPERTY LeavingIsNoticed
