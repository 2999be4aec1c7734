\* Four sets of flags, three files, three crashes or failed writes; the database comes and goes.
CONSTANTS
    Services <- MCServices
    NoRows = {none}
    MaxWrites = 3
    MaxFaults = 3
SPECIFICATION Spec
INVARIANTS
    TypeOK
    CopiesAgree
    ShownIsRun
    RefusedNotRun
