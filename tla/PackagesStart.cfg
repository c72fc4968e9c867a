SPECIFICATION Spec
CONSTANTS
    NbUrls = 2
    Limit <- Limits
    MaxSessions = 1
    MaxKills = 0
    Owners = {o}
    RemoteScripts <- InstallThenSearch
    PackageScripts <- NoCommands
INVARIANT ResultsOfAction
