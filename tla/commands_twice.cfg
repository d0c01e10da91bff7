\* A single screen of the room in each tab.
CONSTANTS
  t1 = t1
  t2 = t2
  computer = computer
  Nobody = Nobody
  Tabs <- TwoTabs
  Devices <- OneDevice
  Device <- DeviceOf
  HasLocks <- OneDevice
  MaxDepth <- Singles
  MaxCommands = 1
  MaxRequests = 3
SPECIFICATION Spec
INVARIANT AnsweredOnce
