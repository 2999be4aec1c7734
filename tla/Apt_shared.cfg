\* APT: two repositories of one component in two distributions, one package, three requests, no faults.
CONSTANTS
    Stores = {"apt"}
    Zones = {z1, z2}
    Pools = {d1, d2}
    Authorities = {root}
    MaxRequests = 4
    MaxFaults = 1
    r1 = r1
    r2 = r2
    main = main
    extra = extra
    Repositories = {r1, r2}
    Components = {main, extra}
    ComponentOf <- MCOneComponent
    Packages = {1}
    Given <- MCGiven
    AptRequests = 3
    AptFaults = 0
    Names = {n1}
    Threads = {t1, t2}
    MaxIds = 2
    MaxPushes = 2
    VcsFaults = 2
    Fetchers = {f1, f2, f3}
    Parts = 2
    MaxPackages = 2
    ProxyFaults = 1
SPECIFICATION StoresSpec
INVARIANT DistributionsApart
