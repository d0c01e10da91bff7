\* One tick after the other, with lost writes, deaths and changes of the runner.
CONSTANTS
  d1 = d1
  d2 = d2
  b1 = b1
  b2 = b2
  e1 = e1
  Off = Off
  Manual = Manual
  Command = Command
  Nothing = Nothing
  Devices <- TwoDevices
  Bodies <- TwoBodies
  Errors <- OneError
  Every = 1
  MaxTicks = 1
SPECIFICATION FairSpec
PROPERTY FollowsFeed
