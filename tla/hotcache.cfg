CONSTANTS
    a = a
    b = b
    c = c
    x = x
    y = y
    None = None
    Key <- MCKey
    Value <- MCValue
    Capacity = 2
    TTL = 1
    MaxNow = 3
SYMMETRY Perms
SPECIFICATION Spec
INVARIANT TypeOK
PROPERTIES HitsAreFresh EvictsLeastRecentlyUsed KeepsContract
