\* An administrator changes the radio while a call is between its read and its PATCH.
CONSTANTS
  s1 = s1  s2 = s2  ap = ap  switch = switch  garbled = garbled
  low = low  high = high  NoRadio = NoRadio  NoCall = NoCall
  Servers <- OneServer
  OmadacIdSet <- OneServer
  SiteSet <- OneServer
  WriteEnabled <- OneServer
  Macs <- OneMac
  BadMacs <- NoMac
  Aps <- OneMac
  CallBands <- Only2g
  Channels <- TwoChannels
  Rests <- Rest2
  EmptyReplies = FALSE
  AuditFails = FALSE
  MaxCalls = 1
  MaxAdmin = 1
  MaxPages = 2
SPECIFICATION Spec
PROPERTIES OnlyFrequencyChanges
