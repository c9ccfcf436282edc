SPECIFICATION Spec
CONSTANTS
    c1 = c1
    c2 = c2
    Events = {e1}
    Consumers = {c1}
    NoEvent = NoEvent
    MaxFaults = 1
    MayLoseKV = FALSE
    MayRaise = FALSE
INVARIANTS
    DuplicateOfSuccess
CHECK_DEADLOCK FALSE
