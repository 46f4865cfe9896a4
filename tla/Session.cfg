SPECIFICATION FairSpec
CONSTANTS
    Sess = {x1, x2}
    Key = {k1}
    Proc = {p1, p2}
    None = None
    Ops = {"SetFlash", "GetFlash", "PeekFlash", "GetFlashes", "DeleteFlash", "ClearFlashes", "Get"}
    NilIn = {x1}
    MaxMsgs = 2
CHECK_DEADLOCK FALSE
INVARIANTS TypeOK FetchedOnce
PROPERTIES UnfetchedSurvives RequestsServed
