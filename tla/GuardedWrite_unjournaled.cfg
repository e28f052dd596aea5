\* A malformed MAC argument.
CONSTANTS
  s1 = s1  s2 = s2  ap = ap  switch = switch  garbled = garbled
  low = low  high = high  NoRadio = NoRadio  NoCall = NoCall
  Servers <- OneServer
  OmadacIdSet <- OneServer
  SiteSet <- OneServer
  WriteEnabled <- OneServer
  Macs <- OneMac
  BadMacs <- Garbled
  Aps <- OneMac
  CallBands <- Only2g
  Channels <- TwoChannels
  Rests <- Rest1
  EmptyReplies = FALSE
  AuditFails = FALSE
  MaxCalls = 1
  MaxAdmin = 1
  MaxPages = 2
SPECIFICATION Spec
INVARIANTS EveryCallIsJournaled
