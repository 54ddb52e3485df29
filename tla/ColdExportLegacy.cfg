SPECIFICATION Spec
CONSTANTS
    Days = {1}
    Keys = {k1, k2}
    Runs = {r1}
    NoRun = NoRun
    LegacyDays = {1}
    MaxParts = 4
    MaxFaults = 1
    LockCanBeLost = FALSE
INVARIANT NoRowDestroyed
