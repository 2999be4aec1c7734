\* network, which a table gates, and directory; pids for three processes: they can run out.
CONSTANTS
    Services <- MCServices
    Installed <- MCServices
    Tables <- MCTables
    Requires <- MCRequires
    Pids = {p1, p2, p3}
    NoPid = NoPid
    MaxWrites = 2
    MaxCrashes = 1
SPECIFICATION FairSpec
INVARIANTS
    TypeOK
    ChildrenMatch
    BlockedIsWaiting
PROPERTIES
    BlockPersists
    FollowsFile
    ReloadsChange
    StartsWhenPossible
