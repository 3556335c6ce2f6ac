CONSTANTS
  HumQueueLen = 2
  MaxHum = 4
  Thresholds = {2, 3}
SPECIFICATION HumFairSpec
INVARIANT HumTypeOK
PROPERTIES NoChatter HumidityIsNoticed
