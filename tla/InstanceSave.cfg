SPECIFICATION Spec
CONSTANTS
    p = p
    q = q
    Holders = {p, q}
    Vals = {1, 2}
    Setups <- AllSetups
CHECK_DEADLOCK FALSE
INVARIANT InstanceInv
 
 
PROPERTY FoundRowKeeps
