SPECIFICATION CoreUpgradeSpec
CONSTANTS
    Rows = {c1, c2}
    MaxRepairs = 1
    MaxWrites = 1
INVARIANT DigestsAreMigrated
CHECK_DEADLOCK FALSE
