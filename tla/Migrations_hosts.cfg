\* Two hosts, three files, two faults; the entry point gives up after two attempts.
CONSTANTS
    Hosts = {h1, h2}
    Last = 3
    Attempts = 2
    MaxFaults = 2
SPECIFICATION FairSpec
INVARIANTS
    TypeOK
    AppliedOnceInOrder
PROPERTIES
    UpgradesSchema
    EventuallyServes
CHECK_DEADLOCK FALSE
