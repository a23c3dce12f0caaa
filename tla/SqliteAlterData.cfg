SPECIFICATION Spec
CONSTANTS
    id = id
    name = name
    note = note
    score = score
    title = title
    i = i
    j = j
    Null = Null
    Default = Default
    Altered = Altered
    Affinity <- TextOrNumber
    RowId = {id}
    Fields = {id, name, note}
    Nullable = {note}
    HasDefault = {}
    InitFields = {id, name, note}
    ColumnOf <- Plain
    IndexFields <- NoIndex
    DropSets <- DropSome
    MaxCalls = 3
CHECK_DEADLOCK FALSE
INVARIANT DataKept
