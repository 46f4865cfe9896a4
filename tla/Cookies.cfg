SPECIFICATION Spec
CONSTANTS
    Sid = {s1, s2}
    Req = {r1, r2}
    None = None
    Hosts <- AllHosts
    Loopback <- LoopbackHosts
    Numeric <- Numbers
    PublicSuffix <- Suffixes
    Absolute = {FALSE}
    Configs <- SomeConfigs
    Second = 2
    Unlimited = 100
    MaxReqs = 3
    MaxCalls = 2
    MaxTime = 5
    MaxRestarts = 1
SYMMETRY Symmetry
CHECK_DEADLOCK FALSE
INVARIANTS TypeOK Remembered Forgotten
