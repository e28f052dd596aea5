\* Two changes of the world in the life of the model.
CONSTANTS
  c1 = c1
  c2 = c2
  home = home
  lab = lab
  ap = ap
  switch = switch
  malformed = malformed
  Controllers <- MCControllers
  Sites <- MCSites
  SitesOf <- MCSitesOf
  Devices <- MCDevices
  Aps <- MCAps
  BadMacs <- MCBadMacs
  DeviceStates <- MCDeviceStates
  NoSite = NoSite
  NoId = NoId
  NoSettings = NoSettings
  NoMac = NoMac
  NoRow = NoRow
  EnvSites <- MCEnvSites
  EnvIds <- MCEnvIds
  FirstWorlds <- MCFirstWorlds
  MaxEvents = 2
SPECIFICATION Spec
INVARIANTS TypeOK EverySiteIsJustified CachesAgree ModesNeverMix RefusalsAreExact AnswersAreTruthful ErrorsAreEarned CompleteRowsAreRead
