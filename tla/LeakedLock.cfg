SPECIFICATION FairSpec
CONSTANTS
    Sess = {x1, x2}
    Key = {k1}
    Proc = {p1, p2}
    None = None
    Ops = {"SetFlash", "GetFlash"}
    NilIn = {}
    MaxMsgs = 1
CHECK_DEADLOCK FALSE
PROPERTY NextRequestBegins
