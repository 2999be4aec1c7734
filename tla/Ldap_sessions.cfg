\* Two connection labels and the datagrams' one, room for one session, three requests, one restart.
CONSTANTS
    Labels = {1, 2}
    Datagrams = 0
    Capacity = 1
    u = u
    Accounts = {u}
    Nobody = nobody
    Asked <- MCAsked
    MaxRequests = 3
    MaxCrashes = 1
SPECIFICATION Spec
INVARIANTS
    TypeOK
    SessionsTrackBinds
PROPERTY ClientsServed
