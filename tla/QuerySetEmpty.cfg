SPECIFICATION Spec
CONSTANTS
    a = a
    b = b
    typo = typo
    Null = Null
    Columns = {a, b}
    Vals = {0, 1}
    Operators = {"=", ">"}
    Filters <- FromEmpty
    Excludes <- FromEmpty
    Conditions <- CondsFromEmpty
    Conditioners <- MadeFromEmpty
    Depth <- DepthFromEmpty
    MaxCalls = 3
    Table <- Rows4
    Indexes <- SliceIndexes
    Updates <- UpdateSets
CHECK_DEADLOCK FALSE
INVARIANT MistakesSurface
