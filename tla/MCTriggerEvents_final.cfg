SPECIFICATION Spec
CONSTANTS
    c1 = c1
    c2 = c2
    Events = {e1}
    Consumers = {c1, c2}
    NoEvent = NoEvent
    MaxFaults = 0
    MayLoseKV = FALSE
    MayRaise = TRUE
PROPERTIES
    SuccessIsFinal
CHECK_DEADLOCK FALSE
