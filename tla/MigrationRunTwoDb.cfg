SPECIFICATION Spec
CONSTANTS
    a = a
    b = b
    c = c
    main = main
    replica = replica
    AllApps = AllApps
    Latest = Latest
    Default = main
    Apps = {a, b}
    Databases = {main, replica}
    TxSupport = {main}
    Last <- PairLast
    Deps <- PairDeps
    Ops <- PairOps
    Schemas <- PairSchemas
    Blank <- Empty
    Does <- PairDoes
    Undoes <- PairUndoes
    Described <- PairDescribed
    Requests <- TwoDbRequests
INVARIANT IInv
INVARIANT LedgerClosed
PROPERTY ImplementsLedger
PROPERTY RowFollowsWork
PROPERTY OnlyItsDatabase
