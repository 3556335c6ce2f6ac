CONSTANTS
  MAXFIXINT = 3
  MaxIrq = 3
  MaxFlips = 4
SPECIFICATION FairSpec
INVARIANTS TypeOK TableFollowsSwitch
PROPERTIES DebouncerFollowsPin AutoIffQuickFlips SwitchSettles
