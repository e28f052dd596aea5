\* One server, two calls in a row, an administrator, restarts and late PATCHes; no
\* symmetry, for one of the properties is a liveness one.
CONSTANTS
  s1 = s1  s2 = s2  ap = ap  switch = switch  garbled = garbled
  low = low  high = high  NoRadio = NoRadio  NoCall = NoCall
  Servers <- OneServer
  OmadacIdSet <- NoServer
  SiteSet <- NoServer
  WriteEnabled <- OneServer
  Macs <- OneMac
  BadMacs <- NoMac
  Aps <- OneMac
  CallBands <- Only5g
  Channels <- TwoChannels5g
  Rests <- Rest2
  EmptyReplies = TRUE
  AuditFails = FALSE
  MaxCalls = 2
  MaxAdmin = 1
  MaxPages = 3
SPECIFICATION FairSpec
INVARIANTS EffectAtMostOnce SettledCallsAreInert ResendIsCurrent
PROPERTIES CallsEnd CallsRunDown
