SPECIFICATION LiveSpec
CONSTANTS
    l1 = l1
    l2 = l2
    r1 = r1
    r2 = r2
    s1 = s1
    s2 = s2
    w1 = w1
    w2 = w2
    Links = {l1}
    Recipients = {r1}
    Owner <- OneOwner
    Workers = {w1}
    Submitters = {s1}
    Visitors = {v1}
    InAppUsers = {}
    NoOne = NoOne
    MaxAttempts = 2
    MaxReissues = 0
    MaxCrashes = 1
    MaySuspend = FALSE
    MayReconfigure = TRUE
    SlowSends = FALSE
PROPERTIES
    OwedIsResolved
