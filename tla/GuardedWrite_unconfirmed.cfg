\* Success without the radio, and an administrator in between.
CONSTANTS
  s1 = s1  s2 = s2  ap = ap  switch = switch  garbled = garbled
  low = low  high = high  NoRadio = NoRadio  NoCall = NoCall
  Servers <- OneServer
  OmadacIdSet <- OneServer
  SiteSet <- OneServer
  WriteEnabled <- OneServer
  Macs <- OneMac
  BadMacs <- NoMac
  Aps <- OneMac
  CallBands <- Only2g
  Channels <- TwoChannels
  Rests <- Rest1
  EmptyReplies = TRUE
  AuditFails = FALSE
  MaxCalls = 1
  MaxAdmin = 1
  MaxPages = 2
SPECIFICATION Spec
PROPERTIES AppliedIsConfirmed
