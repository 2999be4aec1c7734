CONSTANTS
    Services <- PkiServices
    Installed <- PkiInstalled
    Tables <- PkiTables
    Requires <- PkiRequires
    Pids = {p1}
    NoPid = NoPid
    MaxWrites = 1
    MaxCrashes = 0
SPECIFICATION FairSpec
PROPERTY SettingsApplied
