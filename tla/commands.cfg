\* One command; two screens of the room in one tab; three requests for the lock.
CONSTANTS
  t1 = t1
  t2 = t2
  computer = computer
  Nobody = Nobody
  Tabs <- TwoTabs
  Devices <- OneDevice
  Device <- DeviceOf
  HasLocks <- OneDevice
  MaxDepth <- Depths
  MaxCommands = 1
  MaxRequests = 3
SPECIFICATION FairSpec
INVARIANTS OneLeader OncePerScreen
PROPERTY HandOffLosesNothing
