SPECIFICATION AppSpec
CONSTANTS
    a = a
    b = b
    main = main
    aux = aux
    item = item
    twin = twin
    double = double
    f = f
    g = g
    Main = main
    Names = {main, aux}
    Options <- AnyDatabases
    MaxOpens = 2
    Models = {item, twin, double}
    Name <- AllNames
    Def <- AllDefs
    Calls <- AllCalls
    Reserved = Reserved
    NoKey = NoKey
    Id = Id
CHECK_DEADLOCK FALSE
INVARIANT RegistryInv
INVARIANT StartOpensAll
INVARIANT StoppedMeansClosed
INVARIANT RegisterVerdict
