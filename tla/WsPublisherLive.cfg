SPECIFICATION FairSpec
CONSTANTS
  Handles = {h1, h2}
  NULL = NULL
  Fds = {1, 2}
  NSlots = 2
  NStatus = 2
  NParms = 2
  SwitchAutos = {}
  NCtrl = 1
  Rewritten = {}
  WsQueueLen = 1
PROPERTIES StatusReachesPage DeadEntriesGo
