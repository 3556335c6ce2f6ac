SPECIFICATION Spec
CONSTANTS
  Handles = {h1, h2}
  NULL = NULL
  MaxEvents = 3
INVARIANTS TypeOK HandleIsLive ServerFollowsLink
