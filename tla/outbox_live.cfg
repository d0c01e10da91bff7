\* Liveness, with crashes, lost responses and account switches.
CONSTANTS
  a = a
  b = b
  m1 = m1
  m2 = m2
  NoUser = NoUser
  NoMsg = NoMsg
  Users <- TwoUsers
  Msgs <- TwoMsgs
  MaxAttempts = 1
  LostAcks = TRUE
  Crashes = TRUE
  SwitchMidSend = FALSE
  SwitchMidDrain = TRUE
SPECIFICATION FairSpec
PROPERTY SentEventually
