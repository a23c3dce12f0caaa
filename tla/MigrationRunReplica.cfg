SPECIFICATION Spec
CONSTANTS
    a = a
    b = b
    c = c
    main = main
    replica = replica
    AllApps = AllApps
    Latest = Latest
    Default = main
    Apps = {a, b, c}
    Databases = {main, replica}
    TxSupport = {main, replica}
    Last <- CrossLast
    Deps <- CrossDeps
    Ops <- CrossOps
    Schemas <- CrossSchemas
    Blank <- Empty
    Does <- CrossDoes
    Undoes <- CrossUndoes
    Described <- CrossDescribed
    Requests <- ReplicaRequests
INVARIANT ClosedEverywhere
