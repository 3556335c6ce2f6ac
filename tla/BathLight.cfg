CONSTANTS
  QueueLen = 1
  IrMvAnyAll = 0
  WebParms = {"Ir", "Delay"}
SPECIFICATION FairSpec
INVARIANTS TypeOK AutoLightFollowsSensors ManualLightFollowsSwitch VentHearsLight
PROPERTIES ManualStatusOnlyFromSwitch RelayReachesWanted
