\* One authority, and nothing that fails.
CONSTANTS
    Zones = {}
    Pools = {}
    Authorities = {root}
    MaxRequests = 3
    MaxFaults = 0
SPECIFICATION Spec
INVARIANT PostgresIsAuthoritative
