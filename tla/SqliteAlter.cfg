SPECIFICATION Spec
CONSTANTS
    id = id
    name = name
    note = note
    score = score
    title = title
    i = i
    j = j
    Null = Null
    Default = Default
    Altered = Altered
    Affinity <- TextOrNumber
    RowId = {id}
    Fields = {id, name, note, score}
    Nullable = {note}
    HasDefault = {score}
    InitFields = {id, name}
    ColumnOf <- Columned
    IndexFields <- IndexName
    DropSets <- DropSome
    MaxCalls = 3
CHECK_DEADLOCK FALSE
INVARIANT TableInv
INVARIANT ValuesKept
