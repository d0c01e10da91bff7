\* One message of the user's, one of somebody else, each possibly posted twice.
CONSTANTS
  m1 = m1
  t1 = t1
  Mine <- OneOfMine
  Theirs <- OneOfTheirs
  MaxLog = 3
  HistoryLive = TRUE
SPECIFICATION FairSpec
INVARIANTS HeldIsShown NoGhost
PROPERTY ShownByPolling
