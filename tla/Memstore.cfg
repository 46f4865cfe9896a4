CONSTANTS
    Key = {e, k1, k2}
    Value = {nil, v1}
    EmptyKey = e
    Nil = nil
    Spare = {0, 1}
SPECIFICATION Spec
INVARIANTS TypeOK UniqueKeys
PROPERTY KVSpec
