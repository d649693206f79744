SPECIFICATION Spec
CONSTANTS
    k1 = k1  k2 = k2  k3 = k3  k4 = k4
    Keys = {k1, k2, k3, k4}
    Vals = {v1, v2}
    NULL = NULL
    Hash <- MCHash
    INITIAL_SIZE = 1
INVARIANT TableIsSound
PROPERTY ImplementsMap
