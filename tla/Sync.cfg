SPECIFICATION Spec
CONSTANTS
    Key = {k1, k2}
    Value = {nil, v1}
    EmptyKey = k1
    Nil = nil
    Spare = {0}
    Proc = {p1, p2}
    NDb = 2
    Files = {1}
    None = None
    Junk = Junk
    Flags = {FALSE}
    MaxOps = 3
SYMMETRY Symmetry
CHECK_DEADLOCK FALSE
INVARIANTS Settled Recoverable
