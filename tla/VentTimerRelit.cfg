CONSTANT QueueLen = 2
SPECIFICATION Spec
INVARIANT FanFollowsLight
