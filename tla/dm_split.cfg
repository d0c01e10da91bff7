CONSTANTS
  NoDm = NoDm
  MaxDms = 1
SPECIFICATION DmsSpec
INVARIANT SameRoom
