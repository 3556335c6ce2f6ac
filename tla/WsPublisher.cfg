SPECIFICATION Spec
CONSTANTS
  Handles = {h1, h2}
  NULL = NULL
  Fds = {1, 2}
  NSlots = 2
  NStatus = 1
  NParms = 2
  SwitchAutos = {1}
  NCtrl = 0
  Rewritten = {1}
  WsQueueLen = 1
INVARIANTS TypeOK SettingsReachPage
PROPERTIES LivePageKept
