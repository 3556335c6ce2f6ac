CONSTANT QueueLen = 2
SPECIFICATION FairSpec
INVARIANTS TypeOK NoStrayTimeout NeverStuckOn MotionSeen
PROPERTY QuietIsReported
