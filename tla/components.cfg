CONSTANTS
  i1 = i1
  i2 = i2
  s1 = s1
  s2 = s2
  s3 = s3
  h1 = h1
  h2 = h2
  h3 = h3
  o1 = o1
  o2 = o2
  p1 = p1
  sp1 = sp1
  n1 = n1
  n2 = n2
  Issuers <- TwoIssuers
  MaxGeneration = 2
  Callers <- OneCaller
  Spaces <- ThreeSpaces
  Unseen = Unseen
  NoTopic = NoTopic
  MaxSpaces = 2
  Hooks <- ThreeHooks
  Owners <- TwoOwners
  Posts <- OnePost
  NoHook = NoHook
  MaxHooks = 2
  Listable <- OneListable
  Names <- TwoNames
  NoName = NoName
  MaxRooms = 2
  a1 = a1
  a2 = a2
  k1 = k1
  k2 = k2
  Accounts <- TwoAccounts
  NoAccount = NoAccount
  Calls <- TwoCalls
  r1 = r1
  d1 = d1
  Convs <- TwoConvs
  DMs <- OneDM
  NoConv = NoConv
  MaxMessages = 2
  NoDm = NoDm
  MaxDms = 1
  Users <- TwoUsers
  NoUser = NoUser
  NoCopy = NoCopy
  NoRead = NoRead
  MaxReads = 2
  MaxVersion = 2
  MS_PER_MINUTE = 2
  MinutesPerHour = 2
  HoursPerDay = 3
  CronDays = 8
  Schedules <- Cadences
  Weeks = 2
  MaxLate = 1
  t0 = t0
  t1 = t1
  t2 = t2
  Texts <- ThreeTexts
  Blank = t0
  NoText = NoText
  e1 = e1
  e2 = e2
  Desks <- OneDesk
  MaxNodes = 2
  v1 = v1
  v2 = v2
  v3 = v3
  Releases <- ThreeReleases
  Installed = v1
  NoVersion = NoVersion
  m1 = m1
  m2 = m2
  Readers <- TwoUsers
  SpaceOwner = e1
  MessageIds <- TwoMessages
  AuthorOf <- OneOfEach
  MaxEvents = 3
  MaxTime = 3
SPECIFICATION ComponentsSpec
INVARIANTS ComponentsTypeOK StaysRevoked StreamMatchesMembership RegistryExact RevokedIsRefused DirectoryExact NoneClobbered SessionIsActive NoBleeding OverlayIsLifted ReadIsRead CountSurvives SameRoomInTurn KeepsLastGood FiresNext CommitsEachOnce AnsweredWhenGone OneNodeInTurn ServesWhole FoldsAgree TapIsOpposite
