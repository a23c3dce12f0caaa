SPECIFICATION BothFair
CONSTANTS
    a = a
    b = b
    c = c
    main = main
    AllApps = AllApps
    Latest = Latest
    Default = main
    Apps = {a, b, c}
    Databases = {main}
    TxSupport = {main}
    Last <- DiamondLast
    Deps <- DiamondDeps
    Ops <- DiamondOps
    Schemas <- DiamondSchemas
    Blank <- Empty
    Does <- DiamondDoes
    Undoes <- DiamondUndoes
    Described <- DiamondDescribed
    Requests <- DiamondRequests
INVARIANT OneRowEach
INVARIANT ForwardClosed
INVARIANT ForwardReached
PROPERTY BothRecover
