CONSTANTS
  QueueLen = 2
  Distances = {0, 1, 2, 3}
  OnDistances = {1, 2}
SPECIFICATION Spec
INVARIANT LightOffWhenFar
