SPECIFICATION FairSpec
CONSTANTS
    Days = {1}
    Keys = {k1, k2}
    Runs = {r1, r2}
    NoRun = NoRun
    LegacyDays = {}
    MaxParts = 2
    MaxFaults = 1
    LockCanBeLost = TRUE
PROPERTY OldRowsLeaveHot
