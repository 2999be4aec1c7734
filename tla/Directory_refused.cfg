\* One request through the API, and nothing else goes wrong.
CONSTANTS
    Dns = {krbtgt, alice}
    Seeds = {krbtgt}
    Sids = {krbtgt}
    None = None
    Unknown = Unknown
    Overlap = FALSE
    MaxOps = 1
    MaxFaults = 0
SPECIFICATION Spec
INVARIANT ReportedIsCanonical
