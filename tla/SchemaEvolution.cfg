SPECIFICATION Spec
CONSTANTS
    m = m
    n = n
    f = f
    g = g
    h = h
    i = i
    j = j
    Models = {m, n}
    Fields = {f, g, h}
    Needy = {h}
    Indexes = {i, j}
    MaxNodes = 3
    Histories <- AllHistories
INVARIANT FilesInv
INVARIANT SchemaFollowsState
INVARIANT NodesRun
INVARIANT MakeConverges
INVARIANT Propagates
