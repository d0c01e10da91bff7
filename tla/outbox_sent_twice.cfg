\* The account may change while the drain is running.
CONSTANTS
  a = a
  b = b
  m1 = m1
  m2 = m2
  NoUser = NoUser
  NoMsg = NoMsg
  Users <- TwoUsers
  Msgs <- TwoMsgs
  MaxAttempts = 2
  LostAcks = FALSE
  Crashes = FALSE
  SwitchMidSend = FALSE
  SwitchMidDrain = TRUE
SPECIFICATION Spec
INVARIANT SentOnce
