\* A feed with two contents that may fail; any two ticks may overlap.  Tasks of two
\* accounts in two rooms.
CONSTANTS
  d1 = d1
  d2 = d2
  b1 = b1
  b2 = b2
  e1 = e1
  Off = Off
  Manual = Manual
  Command = Command
  Nothing = Nothing
  Devices <- TwoDevices
  Bodies <- TwoBodies
  Errors <- OneError
  Every = 1
  MaxTicks = 2
  MaxMishaps = 2
  u1 = u1
  u2 = u2
  r1 = r1
  r2 = r2
  c1 = c1
  c2 = c2
  Members <- TwoMembers
  Nobody = Nobody
  AutoRooms <- TwoRooms
  TaskCadences <- TwoCadences
  Unparsable <- OneUnparsable
  NoTask = NoTask
  MaxOps = 3
SPECIFICATION SideBySideSpec
INVARIANTS NoRepost  RepostOncePerMishap TasksFollowRegistry
SYMMETRY Alike
