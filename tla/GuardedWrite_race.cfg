\* Two servers and an administrator on one radio; nothing is lost for good.
CONSTANTS
  s1 = s1  s2 = s2  ap = ap  switch = switch  garbled = garbled
  low = low  high = high  NoRadio = NoRadio  NoCall = NoCall
  Servers <- TwoServers
  OmadacIdSet <- TwoServers
  SiteSet <- TwoServers
  WriteEnabled <- TwoServers
  Macs <- OneMac
  BadMacs <- NoMac
  Aps <- OneMac
  CallBands <- Only2g
  Channels <- TwoChannels
  Rests <- Rest2
  EmptyReplies = FALSE
  AuditFails = FALSE
  MaxCalls = 1
  MaxAdmin = 1
  MaxPages = 2
SPECIFICATION Spec
SYMMETRY Symmetry
INVARIANTS JournalExactlyOnce ResendIsCurrent
PROPERTIES AppliedIsConfirmed RejectedIsExplained KeepsContract
