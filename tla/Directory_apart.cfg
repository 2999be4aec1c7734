\* krbtgt and an ordinary account, which may be given one SID; both writers at
\* work at once on different names, and two things fail.
CONSTANTS
    Dns = {krbtgt, alice}
    Seeds = {krbtgt}
    Sids = {krbtgt}
    None = None
    Unknown = Unknown
    Overlap = TRUE
    MaxOps = 2
    MaxFaults = 2
SPECIFICATION Spec
CONSTRAINT Apart
INVARIANTS
    TypeOK
    CanonProjected
    NothingDangles
    AckedStored
PROPERTIES
    RestartReconciles
    StartKeepsKeys
