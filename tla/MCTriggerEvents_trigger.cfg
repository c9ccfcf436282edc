SPECIFICATION Spec
CONSTANTS
    c1 = c1
    c2 = c2
    Events = {e1}
    Consumers = {c1, c2}
    NoEvent = NoEvent
    MaxFaults = 1
    MayLoseKV = TRUE
    MayRaise = TRUE
SYMMETRY ConsumerSymmetry
INVARIANTS
    TypeOK
    OneInstancePerEvent
    QueuedIsInFlight
CHECK_DEADLOCK FALSE
