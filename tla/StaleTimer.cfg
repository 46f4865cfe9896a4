SPECIFICATION Spec
CONSTANTS
    Sid = {s1}
    Proc = {p1}
    Obj = {o1, o2}
    None = None
    Ops = {"start", "destroy"}
    Expires = 2
    Updates = {}
    MaxTime = 3
    Flashed = {}
PROPERTY ExpiresByOwnDate
