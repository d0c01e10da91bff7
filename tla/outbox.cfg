\* Lost responses, crashes and account switches under a running drain.
CONSTANTS
  a = a
  b = b
  m1 = m1
  m2 = m2
  NoUser = NoUser
  NoMsg = NoMsg
  Users <- TwoUsers
  Msgs <- TwoMsgs
  MaxAttempts = 2
  LostAcks = TRUE
  Crashes = TRUE
  SwitchMidSend = FALSE
  SwitchMidDrain = TRUE
SPECIFICATION WatchedSpec
SYMMETRY Symmetric
INVARIANTS TypeOK SendingIsInFlight NeverDropped FlushedAsAuthor SentOnceWhileCalm
PROPERTIES NoTriggerDropped ImplementsDurableQueue
