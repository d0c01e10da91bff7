\* The stream may drop and reconnect while the room is open.
CONSTANTS
  m1 = m1
  t1 = t1
  Mine <- OneOfMine
  Theirs <- OneOfTheirs
  MaxLog = 3
  HistoryLive = TRUE
SPECIFICATION FairSpec

PROPERTY ShownByEvents
