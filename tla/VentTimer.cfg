CONSTANT QueueLen = 2
SPECIFICATION FairSpec
INVARIANTS TypeOK NoFanInDarkRoom FanRunsUnlessRelit
PROPERTIES  FanStops
