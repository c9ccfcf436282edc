SPECIFICATION Spec
CONSTANTS
    l1 = l1
    l2 = l2
    r1 = r1
    r2 = r2
    s1 = s1
    s2 = s2
    w1 = w1
    w2 = w2
    Links = {l1}
    Recipients = {r1}
    Owner <- OneOwner
    Workers = {w1, w2}
    Submitters = {}
    InAppUsers = {u1}
    Visitors = {}
    NoOne = NoOne
    MaxAttempts = 2
    MaxReissues = 1
    MaxCrashes = 0
    MaySuspend = TRUE
    MayReconfigure = TRUE
    SlowSends = TRUE
INVARIANTS
    TypeOK
    SingleSender
    NotifiedWasMailed
    MailedOnce
SYMMETRY WorkerSymmetry
