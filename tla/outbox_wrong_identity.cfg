\* The account may change while a live send is awaited.
CONSTANTS
  a = a
  b = b
  m1 = m1
  m2 = m2
  NoUser = NoUser
  NoMsg = NoMsg
  Users <- TwoUsers
  Msgs <- TwoMsgs
  MaxAttempts = 2
  LostAcks = FALSE
  Crashes = FALSE
  SwitchMidSend = TRUE
  SwitchMidDrain = FALSE
SPECIFICATION Spec
INVARIANT FlushedAsAuthor
