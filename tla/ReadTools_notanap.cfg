\* Nothing changes around the server.
CONSTANTS
  c1 = c1
  c2 = c2
  home = home
  lab = lab
  ap = ap
  switch = switch
  malformed = malformed
  Controllers <- MCControllers
  Sites <- MCSites
  SitesOf <- MCSitesOf
  Devices <- MCDevices
  Aps <- MCAps
  BadMacs <- MCBadMacs
  DeviceStates <- MCDeviceStates
  NoSite = NoSite
  NoId = NoId
  NoSettings = NoSettings
  NoMac = NoMac
  NoRow = NoRow
  EnvSites <- MCEnvSites
  EnvIds <- MCEnvIds
  FirstWorlds <- MCFirstWorlds
  MaxEvents = 0
SPECIFICATION Spec
INVARIANT NotFoundMeansAbsent
