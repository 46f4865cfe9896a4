SPECIFICATION FairSpec
CONSTANTS
    Sid = {s1}
    Proc = {p1, p2}
    Obj = {o1, o2}
    None = None
    Ops = {"start", "mutate", "update", "destroy", "destroyAll"}
    Expires = 1
    Updates = {1}
    Flashed = {o1}
    MaxTime = 3
INVARIANTS TypeOK MutualExclusion RegistryConsistent NoEarlyExpiry
PROPERTIES RetiredForGood DestroyAllEmpties TimersDestroy
