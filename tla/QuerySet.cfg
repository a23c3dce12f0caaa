SPECIFICATION Spec
CONSTANTS
    a = a
    b = b
    typo = typo
    Null = Null
    Columns = {a, b}
    Vals = {0, 1}
    Operators = {"=", ">"}
    Filters <- Given
    Excludes <- Given
    Conditions <- CondsOfGiven
    Conditioners <- MadeOfGiven
    Depth <- DepthOfGiven
    MaxCalls = 2
    Table <- Rows4
    Indexes <- SliceIndexes
    Updates <- UpdateSets
CHECK_DEADLOCK FALSE
INVARIANT StatementInv
INVARIANT MistakesSurface
INVARIANT SelectsMeant
INVARIANT LoadIsSlice
INVARIANT GetIsExact
INVARIANT OthersStay
