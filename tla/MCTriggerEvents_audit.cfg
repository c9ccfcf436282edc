SPECIFICATION LiveSpec
CONSTANTS
    c1 = c1
    c2 = c2
    Events = {e1}
    Consumers = {c1, c2}
    NoEvent = NoEvent
    MaxFaults = 2
    MayLoseKV = FALSE
    MayRaise = FALSE
PROPERTIES
    AuditTrailHolds
    PublishedIsHandled
CHECK_DEADLOCK FALSE
