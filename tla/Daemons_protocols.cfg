\* One daemon service per behaviour.
\* DynamicDns: two names in two zones, updates of two entries, two updates, one fault.
\* Memberships: two groups and a user, three requests, one fault.
\* Samr: four machines join, two of one RID, Administrator is there; three rows are read, pages of one entry, four requests, two faults.
\* Smb: two clients, one pipe, two offers, both shares, two requests, two writes, one fault.
\* Kerberos: two users and the domain controller, three passwords, two changes, one fault.
\* Netlogon: two callers on one computer, one of which counts on, two challenges, two passwords, three calls, two faults.
CONSTANTS
    Daemons = {"netlogon", "dns", "ldap", "samr", "smb", "kdc"}
    Owners = {"dc", "host"}
    Zones = {"domain", "lab"}
    ZoneOf <- MCZoneOf
    Domain = "domain"
    Types = {"A"}
    AnyType = "ANY"
    Values = {"v1", "v2"}
    nothing = {open}
    Seed <- MCSeed
    MaxEntries = 2
    MaxUpdates = 2
    DnsFaults = 1
    Dns = {"g1", "g2", "u1"}
    GroupDns = {"g1", "g2"}
    Protocols = {"ldap", "samr"}
    Containers = {"users", "base"}
    ParentOf <- MCParentOf
    LdapRequests = 3
    LdapFaults = 1
    Machines = {"m1", "m2", "m3", "m4"}
    Builtins = {"administrator"}
    RidOf <- MCRidOf
    Limit = 3
    PageSize = 1
    SamrRequests = 4
    SamrFaults = 2
    Pipes = {"samr"}
    DialectOffers <- MCDialectOffers
    Shares = {"sysvol", "netlogon"}
    SmbRequests = 2
    MaxWrites = 2
    SmbFaults = 1
    Users = {1, 2}
    Services = {1000}
    EtypeOffers <- MCEtypeOffers
    KdcPasswords = 3
    MaxChanges = 2
    KdcFaults = 1
    Clients = {"a", "b"}
    ComputerOf <- MCComputerOf
    Counting = {"b"}
    Standings = {"enabled", "disabled"}
    MaxChallenges = 2
    MaxPasswords = 2
    MaxCalls = 3
    MaxFaults = 2
SPECIFICATION DaemonsSpec
INVARIANTS
    TypesOK
    NamesHeld
    MembershipsAgree
    SearchSound
    ChannelInStep
    PasswordKnown
    
    SharesSound
    TicketsSound
