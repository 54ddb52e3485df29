SPECIFICATION MCSpec
CONSTANTS
    Handles = {"h1", "h2"}
    Commits = {"c1", "c2"}
    Manifest = "MLmodel"
    Members = {"MLmodel", "data"}
    Experiments = {"e1", "e2"}
    Passes = {"p1", "p2"}
    AskedNames <- Asked
    MaxVersions = 1
    MaxRequests = 2
    MaxPuts = 3
    MaxFaults = 1
INVARIANTS
    AdmittedWasJudged
    BytesOfTheirTenant
PROPERTIES
    CollectsOnlyTheDeleted
    OffboardingEmpties
CHECK_DEADLOCK FALSE
