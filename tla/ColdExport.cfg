SPECIFICATION Spec
CONSTANTS
    Days = {1}
    Keys = {k1, k2, k3}
    Runs = {r1, r2}
    NoRun = NoRun
    LegacyDays = {}
    MaxParts = 2
    MaxFaults = 2
    LockCanBeLost = FALSE
SYMMETRY Symmetry
INVARIANTS
    NoRowLost
    ArchivedOnce
PROPERTIES
    CommittedNeverRewritten
    ImplementsArchive
