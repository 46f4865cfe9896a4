SPECIFICATION Spec
CONSTANTS
    NDb = 3
    Key = {k1, k2}
    Value = {v1, v2}
    None = None
    Dates = {0, 1, 2}
    MaxTime = 3
INVARIANTS TypeOK LastValueWins FirstDateWins
