SPECIFICATION Spec
CONSTANTS
    l1 = l1
    l2 = l2
    r1 = r1
    r2 = r2
    s1 = s1
    s2 = s2
    w1 = w1
    w2 = w2
    Links = {l1, l2}
    Recipients = {r1, r2}
    Owner <- TwoOwners
    Workers = {w1}
    Submitters = {s1, s2}
    Visitors = {}
    InAppUsers = {u1}
    NoOne = NoOne
    MaxAttempts = 1
    MaxReissues = 0
    MaxCrashes = 0
    MaySuspend = FALSE
    MayReconfigure = FALSE
    SlowSends = FALSE
INVARIANTS
    OpenTaskIsReissuable
PROPERTIES
    CompletesOnLiveLink
SYMMETRY SubmitterSymmetry
CHECK_DEADLOCK FALSE
