\* A server that may write and one that may not, every fault, every input class.
CONSTANTS
  s1 = s1  s2 = s2  ap = ap  switch = switch  garbled = garbled
  low = low  high = high  NoRadio = NoRadio  NoCall = NoCall
  Servers <- TwoServers
  OmadacIdSet <- NoServer
  SiteSet <- NoServer
  WriteEnabled <- OneOfThem
  Macs <- ApAndSwitch
  BadMacs <- Garbled
  Aps <- OneMac
  CallBands <- BandInputs
  Channels <- ChannelInputs
  Rests <- Rest1
  EmptyReplies = TRUE
  AuditFails = TRUE
  MaxCalls = 1
  MaxAdmin = 0
  MaxPages = 2
SPECIFICATION Spec
INVARIANTS TypeOK OnlyConfirmedCallsWrite EffectsAreAccounted
 
