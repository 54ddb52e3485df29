SPECIFICATION MCSpec
CONSTANTS
    r1 = r1
    r2 = r2
    Requests <- MCRequests
    x = x
    y = y
    Inputs <- MCInputs
    Images <- MCImages
    Artifacts <- MCArtifacts
    MinRows = 2
    TTL = 1
    Horizon = 2
    MaxEvents = 3
SYMMETRY ServingSymmetry
INVARIANTS
    DriftComparesOneImage
CHECK_DEADLOCK FALSE
