SPECIFICATION Spec
CONSTANTS
    NbUrls = 2
    Limit <- Limits
    MaxSessions = 2
    MaxKills = 1
    Owners = {o}
    RemoteScripts <- Callers
    PackageScripts <- CommandLines
INVARIANTS
  CatalogueSound
  InstalledAsSaid
  PackageModeHonest
PROPERTIES NoDowngrade SessionEnds
