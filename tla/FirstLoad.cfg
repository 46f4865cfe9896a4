SPECIFICATION Spec
CONSTANTS
    NDb = 2
    Key = {k1}
    Value = {v1, v2}
    None = None
    Dates = {0, 1, 2}
    MaxTime = 3
INVARIANT FirstLoadUsed
