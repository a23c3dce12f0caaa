SPECIFICATION Spec
CONSTANTS
    a = a
    b = b
    m = m
    f = f
    g = g
    Apps = {a, b}
    BadName = BadName
    Models = {m}
    Fields = {f, g}
    Indexes = {g}
    Needy = {}
    Inputs <- AllInputs
    Repaired <- RepairedInputs
CHECK_DEADLOCK FALSE
INVARIANT TypeOK
INVARIANT VerdictIsRight
INVARIANT DepsFirst
INVARIANT OrderIndependent
INVARIANT PreviousIsReplay
