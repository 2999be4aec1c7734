\* Catalogue: two pools, two zones and an authority; four requests, one lost connection, restarts anywhere.
\* APT: one repository, two packages, two requests that write, one fault.
\* Git: one name, two Git requests at once, two creations, two pushes, two faults.
\* Proxy: three threads, a file of two parts, two local packages, one fault.
CONSTANTS
    Stores = {"catalogue", "apt", "vcs", "proxy"}
    Zones = {z1, z2}
    Pools = {d1, d2}
    Authorities = {root}
    MaxRequests = 4
    MaxFaults = 1
    r1 = r1
    r2 = r2
    main = main
    extra = extra
    Repositories = {r1}
    Components = {main, extra}
    ComponentOf <- MCSingle
    Packages = {1, 2}
    Given <- MCGiven
    AptRequests = 2
    AptFaults = 1
    Names = {n1}
    Threads = {t1, t2}
    MaxIds = 2
    MaxPushes = 2
    VcsFaults = 2
    Fetchers = {f1, f2, f3}
    Parts = 2
    MaxPackages = 2
    ProxyFaults = 1
SPECIFICATION StoresSpec
INVARIANTS
    TypesOK
    ListedIsCounted
    RevocationsStand
    ListedVerifies
    AptSound
    VcsSound
    FilledWhole
