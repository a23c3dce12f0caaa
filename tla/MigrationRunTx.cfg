SPECIFICATION RetrySpec
CONSTANTS
    a = a
    b = b
    c = c
    main = main
    replica = replica
    AllApps = AllApps
    Latest = Latest
    Default = main
    Apps = {a, b, c}
    Databases = {main}
    TxSupport = {main}
    Last <- CrossLast
    Deps <- CrossDeps
    Ops <- CrossOps
    Schemas <- CrossSchemas
    Blank <- Empty
    Does <- CrossDoes
    Undoes <- CrossUndoes
    Described <- CrossDescribed
    Requests <- RealRequests
INVARIANT SchemaMatchesRows
INVARIANT GoalReached
PROPERTY OneNodeAtATime
PROPERTY CallReturns
PROPERTY Recovers
